------------------------ MODULE MCAutomaticScheduler ------------------------
(* Small instances of AutomaticScheduler. *)
EXTENDS AutomaticScheduler

=============================================================================
