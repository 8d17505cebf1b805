---------------------------- MODULE MCStateStore ----------------------------
(* Small instance of StateStore: two conversations, two channels, two     *)
(* intervals and a clock long enough for the longer one to elapse.        *)
EXTENDS StateStore, TLC

Symmetry ==
  Permutations(Convs) \cup Permutations(Channels)

=============================================================================
