---------------------------- MODULE MCHubAdapter ----------------------------
(* Small instances of HubAdapter.  Callers are one or two user tasks and   *)
(* the scheduler; session threads are the channels other than Home.        *)
EXTENDS HubAdapter, TLC

\* A bound on the steps of the run with two stores: what cannot touch a thread
\* is left to the other runs.  /model and /ask-test are not sent, and no
\* command changes the plan.
OnlyThreads ==
  /\ \A p \in Callers : task'[p].name \notin {"model", "ask_test"}
  /\ UNCHANGED <<call, task>> => UNCHANGED stores

Symmetry ==
  Permutations(Convs) \cup Permutations(Channels \ {Home}) \cup Permutations(Sessions)
  \cup Permutations(Callers \ {Scheduler})

=============================================================================
