--------------------------- MODULE MCPiRpcClient ---------------------------
(* Model checking PiRpcClient. *)
EXTENDS PiRpcClient

=============================================================================
