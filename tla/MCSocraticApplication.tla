----------------------- MODULE MCSocraticApplication -----------------------
(* Small instances of SocraticApplication. *)
EXTENDS SocraticApplication, TLC

Symmetry ==
  Permutations(Convs) \cup Permutations(Channels) \cup Permutations(Sessions)
  \cup Permutations(Callers)

=============================================================================
