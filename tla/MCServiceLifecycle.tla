------------------------- MODULE MCServiceLifecycle -------------------------
(* Model checking ServiceLifecycle. *)
EXTENDS ServiceLifecycle

=============================================================================
