-------------------------- MODULE HubAdapterProofs --------------------------
(***************************************************************************)
(* Theorems about HubAdapter, for every set of callers, stores, channels,  *)
(* conversations and sessions and for every set of faults.  Its handlers   *)
(* take the steps of the application and some of their own (they take and  *)
(* give back the lease, and record what /ask-test got from Pi), so the     *)
(* invariant of the application is proved again for the adapter, by the    *)
(* same lemmas.  AdapterInv adds how tasks, calls and threads belong       *)
(* together: without it a thread could be two conversations'.              *)
(* From it follow what becomes of threads, of the lease a task holds and   *)
(* of failed starts, the lifecycle of every store's conversations, their   *)
(* sessions, and what /testing keeps apart.                                *)
(***************************************************************************)
EXTENDS HubAdapter, ApplicationOutcomeProofs, TLAPS

-----------------------------------------------------------------------------
(* The invariant.                                                          *)

Starts == {"ask_now", "kickoff"}

TaskPcs == {"idle", "dispatched", "permissions", "createThread", "typing",
            "serving", "asking", "deleteThread", "archive"}

\* Only a start asks for permissions and creates a thread, only a message
\* shows typing, and who asks Pi beside the application holds the lease.
NamesFit(p) ==
  /\ task[p].pc \in {"permissions", "createThread"} => task[p].name \in Starts
  /\ task[p].pc = "typing" => task[p].name = "message"
  /\ task[p].pc = "asking" => call[p].pc = "claimed"

\* A suspended call serves the task of its caller, about its thread.
CallFits(p) ==
  /\ call[p].pc \in Awaits => task[p].pc = "serving"
  /\ call[p].pc \in StartAwaits =>
       task[p].name \in Starts /\ call[p].channel = task[p].thread
  /\ call[p].pc \in ReplyAwaits => task[p].name = "message"
  /\ call[p].pc \in CompleteAwaits =>
       /\ task[p].name = "done"
       /\ stores[call[p].store].conv[call[p].conv].channel = task[p].channel

\* A start in flight has its thread to itself: it exists, nobody will delete
\* it, no conversation is recorded in it, and no other task knows it.
StartAlone(p) ==
  call[p].pc \in StartAwaits =>
    /\ call[p].channel \in threads \ archived
    /\ call[p].channel \notin doomed
    /\ \A s \in Stores : \A c \in Rows(stores[s]) :
         stores[s].conv[c].channel # call[p].channel
    /\ \A q \in Callers : /\ task[q].channel # call[p].channel
                          /\ q # p => task[q].thread # call[p].channel

\* Every conversation of every store has a thread of its own.
ThreadsApart ==
  /\ \A s \in Stores : \A c \in Rows(stores[s]) : stores[s].conv[c].channel \in Channels \ {Home}
  /\ \A s, t \in Stores : \A c \in Rows(stores[s]), d \in Rows(stores[t]) :
       stores[s].conv[c].channel = stores[t].conv[d].channel => s = t /\ c = d

\* The variables of the adapter have their types.
AdapterTypes ==
  /\ current \in Stores
  /\ task \in [Callers -> Task]
  /\ threads \subseteq Channels \ {Home}
  /\ archived \subseteq threads
  /\ doomed \subseteq Channels \ {Home}

AdapterInv ==
  /\ Inv
  /\ AdapterTypes
  /\ ThreadsApart
  /\ \A p \in Callers : NamesFit(p) /\ CallFits(p) /\ StartAlone(p)

-----------------------------------------------------------------------------
(* Which steps keep it.                                                    *)

\* The thread of a start in flight is one of the session threads.
LEMMA StartThread ==
  ASSUME AdapterInv, NEW q \in Callers, call[q].pc \in StartAwaits
  PROVE  /\ call[q].channel \in threads \ archived
         /\ call[q].channel \in Channels \ {Home}
         /\ call[q].channel # NULL
  BY NullAssumption DEF AdapterInv, StartAlone, AdapterTypes

\* Rows stay apart when only old ones are left.
LEMMA RowsStayApart ==
  ASSUME ThreadsApart, AllOld
  PROVE  ThreadsApart'
<1>1. \A s \in Stores : \A c \in Rows(stores'[s]) :
        c \in Rows(stores[s]) /\ stores'[s].conv[c].channel = stores[s].conv[c].channel
  BY DEF AllOld, OldRows
<1> QED
  BY <1>1 DEF ThreadsApart, Rows

\* A step of task p that leaves the threads of starts in flight to them.
LEMMA StepKeeps ==
  ASSUME AdapterInv, NEW p \in Callers, Inv', Others(p), AllOld, AdapterTypes',
         \A q \in Callers \ {p} : task'[q] = task[q],
         NamesFit(p)', CallFits(p)', StartAlone(p)',
         \A q \in Callers \ {p} : call[q].pc \in StartAwaits =>
           /\ call[q].channel \in threads' \ archived'
           /\ call[q].channel \notin doomed'
           /\ task'[p].channel # call[q].channel
           /\ task'[p].thread # call[q].channel
  PROVE  AdapterInv'
<1>1. ThreadsApart'
  BY RowsStayApart DEF AdapterInv
<1>2. ASSUME NEW q \in Callers, q # p
      PROVE  NamesFit(q)' /\ CallFits(q)' /\ StartAlone(q)'
  <2>1. call'[q] = call[q] /\ task'[q] = task[q]
    BY <1>2 DEF Others
  <2>2. NamesFit(q) /\ CallFits(q) /\ StartAlone(q)
    BY DEF AdapterInv
  <2>3. NamesFit(q)'
    BY <2>1, <2>2 DEF NamesFit
  <2>4. CallFits(q)'
    <3>1. ASSUME call[q].pc \in CompleteAwaits
          PROVE  stores'[call[q].store].conv[call[q].conv].channel
                   = stores[call[q].store].conv[call[q].conv].channel
      <4>1. Active(stores'[call[q].store]) = {call[q].conv}
        BY <2>1, <3>1 DEF Inv, FlightKeepsItsRow, Data, Active
      <4>2. call[q].conv \in Rows(stores'[call[q].store])
        BY <4>1 DEF Active, Rows, ActiveStatus
      <4>3. call[q].store \in Stores
        BY SuspendedCall DEF AdapterInv
      <4> QED
        BY <4>2, <4>3 DEF AllOld, OldRows
    <3> QED
      BY <2>1, <2>2, <3>1 DEF CallFits
  <2>5. StartAlone(q)'
    <3> SUFFICES ASSUME call[q].pc \in StartAwaits
                 PROVE  /\ call[q].channel \in threads' \ archived'
                        /\ call[q].channel \notin doomed'
                        /\ \A s \in Stores : \A c \in Rows(stores'[s]) :
                             stores'[s].conv[c].channel # call[q].channel
                        /\ \A x \in Callers : /\ task'[x].channel # call[q].channel
                                              /\ x # q => task'[x].thread # call[q].channel
      BY <2>1 DEF StartAlone, Rows
    <3>1. \A s \in Stores : \A c \in Rows(stores'[s]) :
            stores'[s].conv[c].channel # call[q].channel
      BY <2>2 DEF StartAlone, AllOld, OldRows
    <3>2. ASSUME NEW x \in Callers
          PROVE  /\ task'[x].channel # call[q].channel
                 /\ x # q => task'[x].thread # call[q].channel
      <4>1. CASE x = p
        BY <1>2, <4>1
      <4>2. CASE x # p
        BY <2>2, <4>2 DEF StartAlone
      <4> QED
        BY <4>1, <4>2
    <3> QED
      BY <1>2, <3>1, <3>2
  <2> QED
    BY <2>3, <2>4, <2>5
<1>3. \A q \in Callers : NamesFit(q)' /\ CallFits(q)' /\ StartAlone(q)'
  BY <1>2
<1> QED
  BY <1>1, <1>3 DEF AdapterInv

\* No call of p is suspended after it.
LEMMA EndedStepKeeps ==
  ASSUME AdapterInv, NEW p \in Callers, Inv', Others(p), AllOld, AdapterTypes',
         \A q \in Callers \ {p} : task'[q] = task[q],
         NamesFit(p)', call'[p].pc \in {"idle", "claimed"},
         \A q \in Callers \ {p} : call[q].pc \in StartAwaits =>
           /\ call[q].channel \in threads' \ archived'
           /\ call[q].channel \notin doomed'
           /\ task'[p].channel # call[q].channel
           /\ task'[p].thread # call[q].channel
  PROVE  AdapterInv'
<1>1. call'[p].pc \notin Awaits
  BY DEF Awaits, StartAwaits, ReplyAwaits, CompleteAwaits
<1>2. CallFits(p)' /\ StartAlone(p)'
  BY <1>1 DEF CallFits, StartAlone, Awaits
<1> QED
  BY <1>2, StepKeeps

\* The task goes on or ends.
LEMMA TaskMoves ==
  ASSUME AdapterTypes, NEW p \in Callers,
         (\E pc \in TaskPcs : Go(p, pc)) \/ End(p)
  PROVE  /\ task' \in [Callers -> Task]
         /\ \A q \in Callers \ {p} : task'[q] = task[q]
         /\ task'[p].channel \in {task[p].channel, Home}
         /\ task'[p].thread \in {task[p].thread, NULL}
<1>1. task \in [Callers -> Task] /\ task[p] \in Task
  BY DEF AdapterTypes
<1>2. NoTask \in Task /\ NoTask.channel = Home /\ NoTask.thread = NULL
  BY ApplicationAssumption, AdapterAssumption DEF NoTask, Task, Commands
<1>3. CASE End(p)
  BY <1>1, <1>2, <1>3 DEF End
<1>4. ASSUME NEW pc \in TaskPcs, Go(p, pc)
      PROVE  /\ task' \in [Callers -> Task]
             /\ \A q \in Callers \ {p} : task'[q] = task[q]
             /\ task'[p].channel = task[p].channel
             /\ task'[p].thread = task[p].thread
  <2> DEFINE new == [task[p] EXCEPT !.pc = pc]
  <2>1. new \in Task /\ new.channel = task[p].channel /\ new.thread = task[p].thread
    BY <1>1 DEF Task, TaskPcs
  <2>2. task' = [task EXCEPT ![p] = new]
    BY <1>4 DEF Go
  <2> HIDE DEF new
  <2> QED
    BY <1>1, <2>1, <2>2
<1> QED
  BY <1>3, <1>4

\* Going on changes the place only.
LEMMA GoEffect ==
  ASSUME AdapterTypes, NEW p \in Callers, NEW pc, Go(p, pc)
  PROVE  /\ task'[p].pc = pc /\ task'[p].name = task[p].name
         /\ task'[p].channel = task[p].channel /\ task'[p].thread = task[p].thread
<1>1. task \in [Callers -> Task] /\ task[p] \in Task
  BY DEF AdapterTypes
<1>2. task'[p] = [task[p] EXCEPT !.pc = pc]
  BY <1>1 DEF Go
<1> QED
  BY <1>1, <1>2 DEF Task

LEMMA EndEffect ==
  ASSUME AdapterTypes, NEW p \in Callers, End(p)
  PROVE  task'[p] = NoTask
  BY DEF AdapterTypes, End

\* A step that moves its task and no thread leaves the starts in flight alone.
LEMMA LocalStep ==
  ASSUME AdapterInv, NEW p \in Callers,
         UNCHANGED <<current, threads, archived, doomed>>,
         (\E pc \in TaskPcs : Go(p, pc)) \/ End(p)
  PROVE  /\ AdapterTypes'
         /\ \A q \in Callers \ {p} : task'[q] = task[q]
         /\ \A q \in Callers \ {p} : call[q].pc \in StartAwaits =>
              /\ call[q].channel \in threads' \ archived'
              /\ call[q].channel \notin doomed'
              /\ task'[p].channel # call[q].channel
              /\ task'[p].thread # call[q].channel
<1>1. AdapterTypes
  BY DEF AdapterInv
<1>2. /\ task' \in [Callers -> Task]
      /\ \A q \in Callers \ {p} : task'[q] = task[q]
      /\ task'[p].channel \in {task[p].channel, Home}
      /\ task'[p].thread \in {task[p].thread, NULL}
  BY <1>1, TaskMoves
<1>3. AdapterTypes'
  BY <1>1, <1>2 DEF AdapterTypes
<1>4. ASSUME NEW q \in Callers \ {p}, call[q].pc \in StartAwaits
      PROVE  /\ call[q].channel \in threads' \ archived'
             /\ call[q].channel \notin doomed'
             /\ task'[p].channel # call[q].channel
             /\ task'[p].thread # call[q].channel
  <2>1. StartAlone(q)
    BY DEF AdapterInv
  <2> QED
    BY <1>2, <1>4, <2>1, StartThread DEF StartAlone
<1> QED
  BY <1>2, <1>3, <1>4

LEMMA LocalStepKeeps ==
  ASSUME AdapterInv, NEW p \in Callers, Inv', Others(p), AllOld,
         call'[p].pc \in {"idle", "claimed"},
         UNCHANGED <<current, threads, archived, doomed>>,
         (\E pc \in TaskPcs : Go(p, pc)) \/ End(p),
         NamesFit(p)'
  PROVE  AdapterInv'
  BY LocalStep, EndedStepKeeps

\* A task that does nothing in the application has no call suspended.
LEMMA NotServing ==
  ASSUME AdapterInv, NEW p \in Callers, task[p].pc # "serving"
  PROVE  call[p].pc \in {"idle", "claimed"}
  BY DEF AdapterInv, CallFits, Inv, TypeOK, Call

\* Nothing happens in the application.
LEMMA NoCallKeeps ==
  ASSUME AdapterInv, NEW p \in Callers, UNCHANGED vars
  PROVE  Inv' /\ Others(p) /\ AllOld /\ call' = call
  BY NothingKeeps, NoWriteIsOld DEF AdapterInv, vars, Others

\* The outcome of a call is dealt with.
LEMMA CaughtKeeps ==
  ASSUME Inv, NEW p \in Callers, call[p].pc \in {"idle", "claimed"}, Caught(p)
  PROVE  /\ Inv' /\ Others(p) /\ AllOld
         /\ call'[p].pc = call[p].pc /\ call'[p].outcome = NULL
<1> DEFINE new == [call[p] EXCEPT !.outcome = NULL]
<1>1. call \in [Callers -> Call] /\ call[p] \in Call
  BY DEF Inv, TypeOK
<1>2. new \in Call /\ new.pc = call[p].pc /\ new.outcome = NULL
  BY <1>1 DEF Call
<1>3. call' = [call EXCEPT ![p] = new] /\ UNCHANGED <<stores, gate, pi, posted, origin, clock>>
  BY <1>1 DEF Caught
<1> HIDE DEF new
<1>4. call'[p] = new /\ Others(p) /\ AllOld
  BY <1>3, CallReplaced, NoWriteIsOld
<1>5. \A q \in Callers : call'[q].pc = call[q].pc
  BY <1>2, <1>4 DEF Others
<1>6. \A q \in Callers : call'[q].pc \in Awaits => call'[q] = call[q]
  BY <1>2, <1>4 DEF Others, Awaits, StartAwaits, ReplyAwaits, CompleteAwaits
<1>7. TypeOK' /\ Coherent' /\ CompletedWasPosted'
  BY <1>1, <1>2, <1>3 DEF Inv, TypeOK, Coherent, CompletedWasPosted
<1>8. LeaseFollowsFlight'
  BY <1>3, <1>5 DEF Inv, LeaseFollowsFlight
<1>9. CallsCoherent'
  BY <1>6 DEF Inv, CallsCoherent, Awaits
<1>10. StartNeverCollides' /\ FlightKeepsItsRow'
  BY <1>3, <1>6, ZenonT(60) DEF Inv, StartNeverCollides, FlightKeepsItsRow, Data, Active,
                                CanMarkClosing, CanComplete, Awaits
<1> QED
  BY <1>2, <1>4, <1>7, <1>8, <1>9, <1>10 DEF Inv

-----------------------------------------------------------------------------
(* The steps of a handler.                                                 *)

\* A step between two awaits that leaves the application alone.
LEMMA QuietStepKeeps ==
  ASSUME AdapterInv, NEW p \in Callers, AskNow(p) \/ PermissionsKnown(p)
  PROVE  AdapterInv'
<1>1. /\ task[p].pc # "serving" /\ UNCHANGED vars
      /\ UNCHANGED <<current, threads, archived, doomed>>
  BY DEF AskNow, PermissionsKnown, Running, Awaiting
<1>2. /\ Inv' /\ Others(p) /\ AllOld /\ call'[p].pc \in {"idle", "claimed"}
      /\ AdapterTypes /\ NamesFit(p)
  BY <1>1, NoCallKeeps, NotServing DEF AdapterInv
<1>3. CASE AskNow(p)
  <2>1. Go(p, "permissions") /\ task[p].name = "ask_now"
    BY <1>3 DEF AskNow, Running
  <2>2. NamesFit(p)'
    BY <1>2, <2>1, GoEffect DEF NamesFit, Starts
  <2> QED
    BY <1>1, <1>2, <2>1, <2>2, LocalStepKeeps DEF TaskPcs
<1>4. CASE PermissionsKnown(p)
  <2>1. Go(p, "createThread") \/ End(p)
    BY <1>4 DEF PermissionsKnown
  <2>2. task[p].name \in Starts
    BY <1>2, <1>4 DEF PermissionsKnown, Awaiting, NamesFit
  <2>3. CASE Go(p, "createThread")
    <3>1. NamesFit(p)'
      BY <1>2, <2>2, <2>3, GoEffect DEF NamesFit
    <3> QED
      BY <1>1, <1>2, <2>3, <3>1, LocalStepKeeps DEF TaskPcs
  <2>4. CASE End(p)
    <3>1. NamesFit(p)'
      BY <1>2, <2>4, EndEffect DEF NamesFit, NoTask
    <3> QED
      BY <1>1, <1>2, <2>4, <3>1, LocalStepKeeps
  <2> QED
    BY <2>1, <2>3, <2>4
<1> QED
  BY <1>3, <1>4

\* Going to a place that demands nothing, and ending, fit any task.
LEMMA PlainMoveFits ==
  ASSUME AdapterTypes, NEW p \in Callers,
         (\E pc \in {"serving", "deleteThread", "archive"} : Go(p, pc)) \/ End(p)
  PROVE  /\ NamesFit(p)'
         /\ (\E pc \in TaskPcs : Go(p, pc)) \/ End(p)
<1>1. ASSUME NEW pc \in {"serving", "deleteThread", "archive"}, Go(p, pc)
      PROVE  NamesFit(p)' /\ pc \in TaskPcs
  BY <1>1, GoEffect DEF NamesFit, TaskPcs
<1>2. CASE End(p)
  BY <1>2, EndEffect DEF NamesFit, NoTask
<1> QED
  BY <1>1, <1>2

\* The ends of calls, and the calls that never suspend.
LEMMA CatchKeeps ==
  ASSUME AdapterInv, NEW p \in Callers, StartEnded(p) \/ DoneEnded(p) \/ MessageEnded(p)
  PROVE  AdapterInv'
<1>1. /\ call[p].pc \in {"idle", "claimed"} /\ Caught(p)
      /\ UNCHANGED <<current, threads, archived, doomed>>
      /\ (\E pc \in {"serving", "deleteThread", "archive"} : Go(p, pc)) \/ End(p)
  BY DEF StartEnded, DoneEnded, MessageEnded
<1>2. AdapterTypes /\ Inv
  BY DEF AdapterInv
<1>3. Inv' /\ Others(p) /\ AllOld /\ call'[p].pc \in {"idle", "claimed"}
  BY <1>1, <1>2, CaughtKeeps
<1>4. NamesFit(p)' /\ ((\E pc \in TaskPcs : Go(p, pc)) \/ End(p))
  BY <1>1, <1>2, PlainMoveFits
<1> QED
  BY <1>1, <1>3, <1>4, LocalStepKeeps

\* The scheduler gives the lease back, or there is none to give.
LEMMA ReleasedKeeps ==
  ASSUME AdapterInv, NEW p \in Callers, task[p].pc # "serving",
         IF task[p].name = "kickoff" THEN ReleaseClaim(p) ELSE UNCHANGED vars
  PROVE  Inv' /\ Others(p) /\ AllOld /\ call'[p].pc \in {"idle", "claimed"}
<1>1. Inv
  BY DEF AdapterInv
<1>2. CASE ReleaseClaim(p)
  BY <1>1, <1>2, ReleaseClaimKeeps, ClaimEffect, NoWriteIsOld
<1>3. CASE UNCHANGED vars
  BY <1>3, NoCallKeeps, NotServing
<1> QED
  BY <1>2, <1>3

\* A thread is deleted only by the task that knows it, and that is no start
\* in flight; what was created for nothing is known to nobody.
LEMMA ThreadStepKeeps ==
  ASSUME AdapterInv, NEW p \in Callers,
         DeletionEnded(p) \/ \E fault : ThreadNotCreated(p, fault)
  PROVE  AdapterInv'
<1>1. AdapterTypes /\ Inv
  BY DEF AdapterInv
<1>2. /\ task[p].pc # "serving" /\ End(p)
      /\ UNCHANGED <<current, doomed>>
      /\ IF task[p].name = "kickoff" THEN ReleaseClaim(p) ELSE UNCHANGED vars
      /\ threads' \subseteq Channels \ {Home} /\ archived' \subseteq threads'
      /\ threads \subseteq threads' \cup {task[p].thread}
      /\ archived' \subseteq archived
  <2>1. CASE DeletionEnded(p)
    BY <1>1, <2>1 DEF DeletionEnded, Awaiting, AdapterTypes
  <2>2. ASSUME NEW fault, ThreadNotCreated(p, fault)
        PROVE  /\ task[p].pc # "serving" /\ End(p)
               /\ UNCHANGED <<current, doomed>>
               /\ IF task[p].name = "kickoff" THEN ReleaseClaim(p) ELSE UNCHANGED vars
               /\ threads' \subseteq Channels \ {Home} /\ archived' \subseteq threads'
               /\ threads \subseteq threads' \cup {task[p].thread}
               /\ archived' \subseteq archived
    BY <1>1, <2>2 DEF ThreadNotCreated, FreshThread, Awaiting, AdapterTypes
  <2> QED
    BY <2>1, <2>2
<1>3. Inv' /\ Others(p) /\ AllOld /\ call'[p].pc \in {"idle", "claimed"}
  BY <1>2, ReleasedKeeps
<1>4. task'[p] = NoTask
  BY <1>1, <1>2, EndEffect
<1>5. task' \in [Callers -> Task] /\ \A q \in Callers \ {p} : task'[q] = task[q]
  BY <1>1, <1>2, TaskMoves
<1>6. AdapterTypes'
  BY <1>1, <1>2, <1>5 DEF AdapterTypes
<1>7. NamesFit(p)'
  BY <1>4 DEF NamesFit, NoTask
<1>8. ASSUME NEW q \in Callers \ {p}, call[q].pc \in StartAwaits
      PROVE  /\ call[q].channel \in threads' \ archived'
             /\ call[q].channel \notin doomed'
             /\ task'[p].channel # call[q].channel
             /\ task'[p].thread # call[q].channel
  <2>1. StartAlone(q)
    BY DEF AdapterInv
  <2>2. /\ call[q].channel \in threads \ archived
        /\ call[q].channel # Home /\ call[q].channel # NULL
    BY <1>8, StartThread
  <2> QED
    BY <1>2, <1>4, <1>8, <2>1, <2>2 DEF StartAlone, NoTask
<1> QED
  BY <1>3, <1>5, <1>6, <1>7, <1>8, EndedStepKeeps

LEMMA ArchiveKeeps ==
  ASSUME AdapterInv, NEW p \in Callers, ArchiveEnded(p)
  PROVE  AdapterInv'
<1>1. AdapterTypes /\ Inv
  BY DEF AdapterInv
<1>2. /\ task[p].pc # "serving" /\ End(p) /\ UNCHANGED <<vars, current, threads, doomed>>
      /\ archived' \subseteq threads
      /\ archived' \subseteq archived \cup {task[p].channel}
  BY <1>1 DEF ArchiveEnded, Awaiting, AdapterTypes
<1>3. Inv' /\ Others(p) /\ AllOld /\ call'[p].pc \in {"idle", "claimed"}
  BY <1>2, NoCallKeeps, NotServing
<1>4. task'[p] = NoTask
  BY <1>1, <1>2, EndEffect
<1>5. task' \in [Callers -> Task] /\ \A q \in Callers \ {p} : task'[q] = task[q]
  BY <1>1, <1>2, TaskMoves
<1>6. AdapterTypes'
  BY <1>1, <1>2, <1>5 DEF AdapterTypes
<1>7. NamesFit(p)'
  BY <1>4 DEF NamesFit, NoTask
<1>8. ASSUME NEW q \in Callers \ {p}, call[q].pc \in StartAwaits
      PROVE  /\ call[q].channel \in threads' \ archived'
             /\ call[q].channel \notin doomed'
             /\ task'[p].channel # call[q].channel
             /\ task'[p].thread # call[q].channel
  <2>1. StartAlone(q)
    BY DEF AdapterInv
  <2>2. /\ call[q].channel \in threads \ archived
        /\ call[q].channel # Home /\ call[q].channel # NULL
    BY <1>8, StartThread
  <2> QED
    BY <1>2, <1>4, <1>8, <2>1, <2>2 DEF StartAlone, NoTask
<1> QED
  BY <1>3, <1>5, <1>6, <1>7, <1>8, EndedStepKeeps

\* /done: the closure it waits for is that of the conversation in its channel.
LEMMA DoneKeeps ==
  ASSUME AdapterInv, NEW p \in Callers, Done(p)
  PROVE  AdapterInv'
<1>1. /\ task[p].name = "done" /\ task[p].pc = "dispatched"
      /\ CompleteConversation(p, current, task[p].channel)
      /\ Go(p, "serving") /\ UNCHANGED <<current, threads, archived, doomed>>
  BY DEF Done, Running, Awaiting
<1>2. /\ Inv /\ AdapterTypes /\ current \in Stores
      /\ task[p].channel \in Channels
  BY DEF AdapterInv, AdapterTypes, Task
<1>3. Inv'
  BY <1>1, <1>2, CompleteConversationKeeps
<1>4. /\ Others(p) /\ AllOld
      /\ \/ call'[p].pc = "idle"
         \/ /\ call'[p].pc = "carding" /\ call'[p].store = current
            /\ call'[p].conv \in Convs
            /\ stores[current].conv[call'[p].conv].channel = task[p].channel
  BY <1>1, <1>2, CompleteEffect
<1>5. NamesFit(p)' /\ (\E pc \in TaskPcs : Go(p, pc))
  BY <1>1, <1>2, PlainMoveFits DEF TaskPcs
<1>6. CASE call'[p].pc = "idle"
  BY <1>1, <1>3, <1>4, <1>5, <1>6, LocalStepKeeps
<1>7. CASE /\ call'[p].pc = "carding" /\ call'[p].store = current
           /\ call'[p].conv \in Convs
           /\ stores[current].conv[call'[p].conv].channel = task[p].channel
  <2> DEFINE c == call'[p].conv
  <2>1. c \in Active(stores'[current])
    BY <1>3, <1>7 DEF Inv, FlightKeepsItsRow, CompleteAwaits, Data, Active
  <2>2. c \in Rows(stores'[current])
    BY <2>1 DEF Active, Rows, ActiveStatus
  <2>3. stores'[current].conv[c].channel = task[p].channel
    BY <1>2, <1>4, <1>7, <2>2 DEF AllOld, OldRows
  <2>4. /\ task'[p].pc = "serving" /\ task'[p].name = "done"
        /\ task'[p].channel = task[p].channel
    BY <1>1, <1>2, GoEffect
  <2>5. CallFits(p)' /\ StartAlone(p)'
    BY <1>7, <2>3, <2>4 DEF CallFits, StartAlone, StartAwaits, ReplyAwaits
  <2>6. /\ AdapterTypes'
        /\ \A q \in Callers \ {p} : task'[q] = task[q]
        /\ \A q \in Callers \ {p} : call[q].pc \in StartAwaits =>
             /\ call[q].channel \in threads' \ archived'
             /\ call[q].channel \notin doomed'
             /\ task'[p].channel # call[q].channel
             /\ task'[p].thread # call[q].channel
    BY <1>1, <1>5, LocalStep
  <2> QED
    BY <1>3, <1>4, <1>5, <2>5, <2>6, StepKeeps
<1> QED
  BY <1>4, <1>6, <1>7

\* A message is answered, or refused.
LEMMA TypingKeeps ==
  ASSUME AdapterInv, NEW p \in Callers, TypingShown(p)
  PROVE  AdapterInv'
<1>1. /\ task[p].pc = "typing"
      /\ Reply(p, task[p].store, task[p].channel)
      /\ Go(p, "serving") /\ UNCHANGED <<current, threads, archived, doomed>>
  BY DEF TypingShown, Awaiting
<1>2. /\ Inv /\ AdapterTypes /\ task[p].name = "message"
      /\ task[p].store \in Stores /\ task[p].channel \in Channels
  BY <1>1 DEF AdapterInv, AdapterTypes, Task, NamesFit
<1>3. Inv'
  BY <1>1, <1>2, ReplyKeeps
<1>4. Others(p) /\ AllOld /\ call'[p].pc \in {"idle", "answering"}
  BY <1>1, <1>2, ReplyEffect, NoWriteIsOld
<1>5. NamesFit(p)' /\ (\E pc \in TaskPcs : Go(p, pc))
  BY <1>1, <1>2, PlainMoveFits DEF TaskPcs
<1>6. task'[p].pc = "serving" /\ task'[p].name = "message"
  BY <1>1, <1>2, GoEffect
<1>7. CallFits(p)' /\ StartAlone(p)'
  BY <1>4, <1>6 DEF CallFits, StartAlone, StartAwaits, CompleteAwaits
<1>8. /\ AdapterTypes'
      /\ \A q \in Callers \ {p} : task'[q] = task[q]
      /\ \A q \in Callers \ {p} : call[q].pc \in StartAwaits =>
           /\ call[q].channel \in threads' \ archived'
           /\ call[q].channel \notin doomed'
           /\ task'[p].channel # call[q].channel
           /\ task'[p].thread # call[q].channel
  BY <1>1, <1>5, LocalStep
<1> QED
  BY <1>3, <1>4, <1>5, <1>7, <1>8, StepKeeps

\* /ask-test and /model take the lease or are refused.
LEMMA UseAgentKeeps ==
  ASSUME AdapterInv, NEW p \in Callers, UseAgent(p)
  PROVE  AdapterInv'
<1>1. task[p].pc = "dispatched" /\ UNCHANGED <<current, threads, archived, doomed>>
  BY DEF UseAgent, Running, Awaiting
<1>2. Inv /\ AdapterTypes
  BY DEF AdapterInv
<1>3. CASE ClaimGate(p) /\ Go(p, "asking")
  <2>1. Inv' /\ Others(p) /\ AllOld /\ call'[p].pc = "claimed"
    BY <1>2, <1>3, ClaimGateKeeps, ClaimEffect, NoWriteIsOld
  <2>2. NamesFit(p)'
    BY <1>2, <1>3, <2>1, GoEffect DEF NamesFit
  <2> QED
    BY <1>1, <1>3, <2>1, <2>2, LocalStepKeeps DEF TaskPcs
<1>4. CASE UNCHANGED vars /\ End(p)
  <2>1. Inv' /\ Others(p) /\ AllOld /\ call'[p].pc \in {"idle", "claimed"}
    BY <1>1, <1>4, NoCallKeeps, NotServing
  <2> QED
    BY <1>1, <1>2, <1>4, <2>1, PlainMoveFits, LocalStepKeeps
<1> QED
  BY <1>3, <1>4 DEF UseAgent

\* What Pi answered to /ask-test is recorded in the current store.
LEMMA AgentUsedEffect ==
  ASSUME AdapterInv, NEW p \in Callers, AgentUsed(p)
  PROVE  Inv' /\ Others(p) /\ AllOld /\ call'[p].pc = "idle"
<1> DEFINE d == stores[current]
           recorded ==
             /\ pi' \in [session : Sessions \cup {NULL}, file : Sessions \cup {NULL}]
             /\ \/ UNCHANGED stores
                \/ \E e : /\ stores' = [stores EXCEPT ![current] = e]
                         /\ StoreInv(e, clock) /\ e.conv = d.conv
           kept == /\ stores' \in [Stores -> Database] /\ Coherent'
                   /\ CompletedWasPosted' /\ AllOld
<1>1. /\ Inv /\ current \in Stores /\ call[p].pc = "claimed"
      /\ StoreInv(d, clock) /\ clock \in Nat
      /\ pi \in [session : Sessions \cup {NULL}, file : Sessions \cup {NULL}]
  BY ClockIsNat DEF AdapterInv, AdapterTypes, AgentUsed, Awaiting, NamesFit, Inv, Coherent, TypeOK
<1>2. /\ gate' = NULL /\ call' = [call EXCEPT ![p] = Idle]
      /\ UNCHANGED <<posted, origin, clock>>
  BY DEF AgentUsed
<1>3. recorded
  <2>1. CASE UNCHANGED <<stores, pi>>
    BY <1>1, <2>1
  <2>2. ASSUME NEW session \in IF pi.session = NULL THEN Unused ELSE {pi.session},
               pi' = [session |-> session, file |-> session],
               NEW r \in Attempt(d, TRUE, RecordSuccess(d, session)),
               stores' = [stores EXCEPT ![current] = r.db]
        PROVE  recorded
    <3>1. session \in Sessions \cup {NULL}
      BY <1>1, <2>2 DEF Unused
    <3>2. StoreInv(r.db, clock) /\ r.db.conv = d.conv
      <4>1. /\ StoreInv(d, clock) /\ clock \in Nat /\ session \in Sessions \cup {NULL}
            /\ r \in Attempt(d, TRUE, RecordSuccess(d, session))
        BY <1>1, <3>1
      <4> HIDE DEF d
      <4> QED
        BY <4>1, SuccessEnds, ZenonT(60)
    <3> QED
      BY <2>2, <3>1, <3>2
  <2>3. ASSUME NEW fault \in PiFaults,
               NEW r \in IF fault = "broken" THEN {Result(d, "escaped")}
                         ELSE RecordAgentFailure(d, fault),
               stores' = [stores EXCEPT ![current] = r.db], UNCHANGED pi
        PROVE  recorded
    <3>1. StoreInv(r.db, clock) /\ r.db.conv = d.conv
      <4>1. CASE r = Result(d, "escaped")
        BY <1>1, <4>1 DEF Result
      <4>2. CASE r \in RecordAgentFailure(d, fault)
        BY <1>1, <4>2, AgentFailureEnds DEF Kept
      <4> QED
        BY <4>1, <4>2
    <3> QED
      BY <1>1, <2>3, <3>1
  <2> QED
    BY <2>1, <2>2, <2>3 DEF AgentUsed
<1>4. call'[p] = Idle /\ Others(p) /\ \A q \in Callers \ {p} : call[q].pc = "idle"
  BY <1>1, <1>2, CallReplaced, OneInFlight
<1>5. call' \in [Callers -> Call] /\ \A q \in Callers : call'[q].pc = "idle"
  BY <1>1, <1>2, <1>4, CallIsTyped DEF Inv, TypeOK, Idle, Others
<1>6. Quiet
  BY <1>2, <1>5, ApplicationAssumption DEF Quiet, LeaseFollowsFlight
<1>7. kept
  <2>1. CASE UNCHANGED stores
    BY <1>1, <1>2, <2>1, StoresKept, NoWriteIsOld
  <2>2. ASSUME NEW e, stores' = [stores EXCEPT ![current] = e],
               StoreInv(e, clock), e.conv = d.conv
        PROVE  kept
    <3>1. posted \subseteq posted' /\ clock' = clock
      BY <1>2
    <3>2. \A c \in Convs : e.conv[c].status = "COMPLETED" =>
             stores[current].conv[c].status = "COMPLETED" \/ <<current, c>> \in posted'
      BY <2>2
    <3>3. OldRows(stores[current], e)
      BY <2>2, SameRowsAreOld
    <3> HIDE DEF d
    <3> QED
      BY <1>1, <2>2, <3>1, <3>2, <3>3, WriteKeeps, WriteIsOld
  <2> QED
    BY <1>3, <2>1, <2>2
<1>8. Inv'
  BY <1>1, <1>2, <1>3, <1>6, <1>7, QuietSuffices DEF Inv, TypeOK
<1> QED
  BY <1>4, <1>7, <1>8 DEF Idle

LEMMA AgentUsedKeeps ==
  ASSUME AdapterInv, NEW p \in Callers, AgentUsed(p)
  PROVE  AdapterInv'
<1>1. UNCHANGED <<current, threads, archived, doomed>> /\ End(p) /\ AdapterTypes
  BY DEF AgentUsed, AdapterInv
<1> QED
  BY <1>1, AgentUsedEffect, PlainMoveFits, LocalStepKeeps

-----------------------------------------------------------------------------
(* Tasks that begin.                                                       *)

\* The channel of a recorded conversation is not that of a start in flight.
LEMMA RowsAvoidStarts ==
  ASSUME AdapterInv, NEW q \in Callers, call[q].pc \in StartAwaits,
         NEW s \in Stores, NEW c \in Rows(stores[s])
  PROVE  stores[s].conv[c].channel # call[q].channel
  BY DEF AdapterInv, StartAlone

\* A new task that knows no thread, in a channel where a conversation is.
LEMMA NewTaskKeeps ==
  ASSUME AdapterInv, NEW p \in Callers, Inv', Others(p), AllOld,
         call'[p].pc \in {"idle", "claimed"},
         UNCHANGED <<current, threads, archived, doomed>>,
         NEW new \in Task, task' = [task EXCEPT ![p] = new],
         new.thread = NULL,
         new.channel = Home \/ \E s \in Stores : \E c \in Rows(stores[s]) :
                                 new.channel = stores[s].conv[c].channel,
         NamesFit(p)'
  PROVE  AdapterInv'
<1>1. /\ task' \in [Callers -> Task] /\ task'[p] = new
      /\ \A q \in Callers \ {p} : task'[q] = task[q]
  BY DEF AdapterInv, AdapterTypes
<1>2. AdapterTypes'
  BY <1>1 DEF AdapterInv, AdapterTypes
<1>3. ASSUME NEW q \in Callers \ {p}, call[q].pc \in StartAwaits
      PROVE  /\ call[q].channel \in threads' \ archived'
             /\ call[q].channel \notin doomed'
             /\ task'[p].channel # call[q].channel
             /\ task'[p].thread # call[q].channel
  <2>1. StartAlone(q)
    BY DEF AdapterInv
  <2>2. task'[p].channel # call[q].channel
    BY <1>1, <1>3, RowsAvoidStarts, StartThread
  <2>3. task'[p].thread # call[q].channel
    BY <1>1, <1>3, StartThread
  <2> QED
    BY <1>3, <2>1, <2>2, <2>3 DEF StartAlone
<1> QED
  BY <1>1, <1>2, <1>3, EndedStepKeeps

\* The live conversation of a channel is recorded in it.
LEMMA ActiveInIsRow ==
  ASSUME NEW d, NEW ch, NEW c \in ActiveIn(d, ch)
  PROVE  c \in Rows(d) /\ c \in Active(d) /\ d.conv[c].channel = ch
  BY DEF ActiveIn, ActiveConversation, Newest, Active, Rows, ActiveStatus

LEMMA DispatchKeeps ==
  ASSUME AdapterInv, NEW p \in Callers, NEW name \in Commands, NEW ch \in Channels,
         Dispatch(p, name, ch)
  PROVE  AdapterInv'
<1> DEFINE new == [NoTask EXCEPT !.name = name, !.pc = "dispatched", !.channel = ch]
<1>1. /\ task[p].pc # "serving" /\ Authorized(ch) /\ task' = [task EXCEPT ![p] = new]
      /\ UNCHANGED <<vars, current, threads, archived, doomed>>
  BY DEF Dispatch, Awaiting
<1>2. Inv' /\ Others(p) /\ AllOld /\ call'[p].pc \in {"idle", "claimed"}
  BY <1>1, NoCallKeeps, NotServing
<1>3. /\ new \in Task /\ new.thread = NULL /\ new.channel = ch
      /\ new.pc = "dispatched"
  BY ApplicationAssumption DEF NoTask, Task, Commands
<1> HIDE DEF new
<1>4. ch = Home \/ \E s \in Stores : \E c \in Rows(stores[s]) : ch = stores[s].conv[c].channel
  BY <1>1, ActiveInIsRow DEF Authorized, AdapterInv, AdapterTypes
<1>5. task'[p] = new
  BY <1>1 DEF AdapterInv, AdapterTypes
<1>6. NamesFit(p)'
  BY <1>3, <1>5 DEF NamesFit
<1> QED
  BY <1>1, <1>2, <1>3, <1>4, <1>6, NewTaskKeeps

LEMMA MessageKeeps ==
  ASSUME AdapterInv, NEW p \in Callers, NEW ch \in Channels, Message(p, ch)
  PROVE  AdapterInv'
<1> DEFINE new == [NoTask EXCEPT !.name = "message", !.pc = "typing",
                                 !.store = current, !.channel = ch]
<1>1. /\ task[p].pc # "serving" /\ task' = [task EXCEPT ![p] = new]
      /\ UNCHANGED <<vars, current, threads, archived, doomed>>
      /\ \E c : c \in ActiveIn(stores[current], ch)
      /\ current \in Stores
  BY DEF Message, Awaiting, AdapterInv, AdapterTypes
<1>2. Inv' /\ Others(p) /\ AllOld /\ call'[p].pc \in {"idle", "claimed"}
  BY <1>1, NoCallKeeps, NotServing
<1>3. /\ new \in Task /\ new.thread = NULL /\ new.channel = ch
      /\ new.pc = "typing" /\ new.name = "message"
  BY <1>1 DEF NoTask, Task, Commands
<1> HIDE DEF new
<1>4. \E s \in Stores : \E c \in Rows(stores[s]) : ch = stores[s].conv[c].channel
  BY <1>1, ActiveInIsRow
<1>5. task'[p] = new
  BY <1>1 DEF AdapterInv, AdapterTypes
<1>6. NamesFit(p)'
  BY <1>3, <1>5 DEF NamesFit
<1> QED
  BY <1>1, <1>2, <1>3, <1>4, <1>6, NewTaskKeeps

LEMMA TickKeeps ==
  ASSUME AdapterInv, NEW p \in Callers, Tick(p)
  PROVE  AdapterInv'
<1> DEFINE new == [NoTask EXCEPT !.name = "kickoff", !.pc = "createThread"]
<1>1. /\ ClaimGate(p) /\ task' = [task EXCEPT ![p] = new]
      /\ UNCHANGED <<current, threads, archived, doomed>> /\ Inv
  BY DEF Tick, AdapterInv
<1>2. Inv' /\ Others(p) /\ AllOld /\ call'[p].pc \in {"idle", "claimed"}
  BY <1>1, ClaimGateKeeps, ClaimEffect, NoWriteIsOld
<1>3. /\ new \in Task /\ new.thread = NULL /\ new.channel = Home
      /\ new.pc = "createThread" /\ new.name = "kickoff"
  BY ApplicationAssumption, AdapterAssumption DEF NoTask, Task
<1> HIDE DEF new
<1>4. task'[p] = new
  BY <1>1 DEF AdapterInv, AdapterTypes
<1>5. NamesFit(p)'
  BY <1>3, <1>4 DEF NamesFit, Starts
<1> QED
  BY <1>1, <1>2, <1>3, <1>5, NewTaskKeeps

\* A start goes on with a thread nobody has heard of.
LEMMA ThreadCreatedKeeps ==
  ASSUME AdapterInv, NEW p \in Callers, NEW t \in Channels, ThreadCreated(p, t)
  PROVE  AdapterInv'
<1> DEFINE new == [task[p] EXCEPT !.pc = "serving", !.thread = t]
<1>1. /\ task[p].pc = "createThread" /\ FreshThread(t)
      /\ threads' = threads \cup {t} /\ UNCHANGED <<current, archived, doomed>>
      /\ StartConversation(p, current, t) \/ StartClaimedConversation(p, current, t)
  BY DEF ThreadCreated, Awaiting
<1>2. /\ Inv /\ AdapterTypes /\ current \in Stores /\ task[p].name \in Starts
      /\ task \in [Callers -> Task] /\ task[p] \in Task
  BY <1>1 DEF AdapterInv, AdapterTypes, NamesFit
<1>3. Inv'
  BY <1>1, <1>2, StartConversationKeeps, StartClaimedKeeps
<1>4. /\ Others(p) /\ AllOld
      /\ \/ call'[p].pc = "newSession" /\ call'[p].channel = t
         \/ call'[p].pc \in {"idle", "claimed"}
  BY <1>1, <1>2, StartEffect, NoWriteIsOld
<1>5. /\ new \in Task /\ new.pc = "serving" /\ new.thread = t
      /\ new.name = task[p].name /\ new.channel = task[p].channel
      /\ task' = [task EXCEPT ![p] = new]
  BY <1>2 DEF Task, ThreadCreated
<1> HIDE DEF new
<1>6. /\ task'[p] = new /\ task' \in [Callers -> Task]
      /\ \A q \in Callers \ {p} : task'[q] = task[q]
  BY <1>2, <1>5
<1>7. AdapterTypes' /\ NamesFit(p)'
  BY <1>1, <1>2, <1>5, <1>6 DEF AdapterTypes, NamesFit, FreshThread
<1>8. ASSUME NEW q \in Callers \ {p}, call[q].pc \in StartAwaits
      PROVE  /\ call[q].channel \in threads' \ archived'
             /\ call[q].channel \notin doomed'
             /\ task'[p].channel # call[q].channel
             /\ task'[p].thread # call[q].channel
  <2>1. StartAlone(q)
    BY DEF AdapterInv
  <2>2. call[q].channel # t
    BY <1>1, <1>8, StartThread DEF FreshThread
  <2> QED
    BY <1>1, <1>5, <1>6, <1>8, <2>1, <2>2 DEF StartAlone
<1>9. CASE call'[p].pc \in {"idle", "claimed"}
  BY <1>3, <1>4, <1>6, <1>7, <1>8, <1>9, EndedStepKeeps
<1>10. CASE call'[p].pc = "newSession" /\ call'[p].channel = t
  <2>1. CallFits(p)'
    BY <1>2, <1>5, <1>6, <1>10 DEF CallFits, ReplyAwaits, CompleteAwaits
  <2>2. \A s \in Stores : \A c \in Rows(stores'[s]) : stores'[s].conv[c].channel # t
    BY <1>1, <1>4 DEF FreshThread, AllOld, OldRows
  <2>3. t \in threads' \ archived' /\ t \notin doomed'
    BY <1>1, <1>2 DEF FreshThread, AdapterTypes
  <2>4. \A q \in Callers : task'[q].channel # t /\ (q # p => task'[q].thread # t)
    BY <1>1, <1>5, <1>6 DEF FreshThread
  <2>5. StartAlone(p)'
    BY <1>10, <2>2, <2>3, <2>4 DEF StartAlone, Rows
  <2> QED
    BY <1>3, <1>4, <1>6, <1>7, <1>8, <2>1, <2>5, StepKeeps
<1> QED
  BY <1>4, <1>9, <1>10

\* /delete-session: only threads of recorded conversations are given up.
LEMMA DeleteSessionKeeps ==
  ASSUME AdapterInv, NEW p \in Callers, DeleteSession(p)
  PROVE  AdapterInv'
<1> DEFINE gone == {c \in Rows(stores[current]) :
                      call'[p].outcome = "ok" /\ c \notin Rows(stores'[current])}
           channels == {stores[current].conv[c].channel : c \in gone}
<1>1. /\ task[p].pc # "serving"
      /\ DiscardConversation(p, current, task[p].channel)
      /\ UNCHANGED <<current, threads, archived>>
      /\ \/ /\ \E ch \in channels :
                 task' = [task EXCEPT ![p].pc = "deleteThread", ![p].thread = ch]
            /\ UNCHANGED doomed
         \/ End(p) /\ doomed' = doomed \cup channels
  BY DEF DeleteSession, Running, Awaiting
<1>2. /\ Inv /\ AdapterTypes /\ current \in Stores
      /\ task \in [Callers -> Task] /\ task[p] \in Task
      /\ task[p].channel \in Channels
  BY DEF AdapterInv, AdapterTypes, Task
<1>3. Inv' /\ Others(p) /\ AllOld /\ call'[p].pc \in {"idle", "claimed"}
  BY <1>1, <1>2, DiscardConversationKeeps, DiscardEffect
<1>4. \A ch \in channels : /\ ch \in Channels \ {Home}
                           /\ \A q \in Callers : call[q].pc \in StartAwaits =>
                                ch # call[q].channel
  BY <1>2, RowsAvoidStarts DEF AdapterInv, ThreadsApart
<1> HIDE DEF channels
<1>5. /\ task' \in [Callers -> Task]
      /\ \A q \in Callers \ {p} : task'[q] = task[q]
      /\ task'[p].channel \in {task[p].channel, Home}
      /\ task'[p].thread \in channels \cup {NULL}
      /\ NamesFit(p)'
      /\ doomed' \subseteq doomed \cup channels
  <2>1. CASE End(p) /\ doomed' = doomed \cup channels
    <3>1. task'[p] = NoTask
      BY <1>2, <2>1, EndEffect
    <3> QED
      BY <1>2, <2>1, <3>1, TaskMoves, PlainMoveFits DEF NoTask
  <2>2. ASSUME NEW ch \in channels, UNCHANGED doomed,
               task' = [task EXCEPT ![p].pc = "deleteThread", ![p].thread = ch]
        PROVE  /\ task' \in [Callers -> Task]
               /\ \A q \in Callers \ {p} : task'[q] = task[q]
               /\ task'[p].channel \in {task[p].channel, Home}
               /\ task'[p].thread \in channels \cup {NULL}
               /\ NamesFit(p)'
               /\ doomed' \subseteq doomed \cup channels
    <3> DEFINE new == [task[p] EXCEPT !.pc = "deleteThread", !.thread = ch]
    <3>1. /\ new \in Task /\ new.pc = "deleteThread" /\ new.thread = ch
          /\ new.channel = task[p].channel
          /\ task' = [task EXCEPT ![p] = new]
      BY <1>2, <1>4, <2>2 DEF Task
    <3> HIDE DEF new
    <3>2. task'[p] = new
      BY <1>2, <3>1
    <3>3. NamesFit(p)'
      BY <3>1, <3>2 DEF NamesFit
    <3> QED
      BY <1>2, <2>2, <3>1, <3>2, <3>3
  <2> QED
    BY <1>1, <2>1, <2>2
<1>6. AdapterTypes'
  BY <1>1, <1>2, <1>4, <1>5 DEF AdapterTypes
<1>7. ASSUME NEW q \in Callers \ {p}, call[q].pc \in StartAwaits
      PROVE  /\ call[q].channel \in threads' \ archived'
             /\ call[q].channel \notin doomed'
             /\ task'[p].channel # call[q].channel
             /\ task'[p].thread # call[q].channel
  <2>1. StartAlone(q)
    BY DEF AdapterInv
  <2>2. /\ call[q].channel \in threads \ archived /\ call[q].channel # Home
        /\ call[q].channel # NULL
    BY <1>7, StartThread
  <2> QED
    BY <1>1, <1>4, <1>5, <1>7, <2>1, <2>2 DEF StartAlone
<1> QED
  BY <1>3, <1>5, <1>6, <1>7, EndedStepKeeps

-----------------------------------------------------------------------------
(* Awaits inside the application, and what happens around the handlers.    *)

\* An await of the application that ends is one of a call.
LEMMA ServedCall ==
  ASSUME AdapterInv, NEW p \in Callers, Served(p)
  PROVE  /\ call[p].pc \in Awaits /\ Resumed(p) /\ Inv' /\ Inv
         /\ UNCHANGED <<current, task, threads, archived, doomed>>
         /\ Others(p) /\ (GoesOn(p) \/ Over(p)) /\ ClosedIfOver(p)
         /\ AllOld \/ Inserted(p)
         /\ \A q \in Callers \ {p} : call[q].pc = "idle" /\ call'[q] = call[q]
<1>1. /\ Inv /\ Resumed(p) /\ call[p].pc # "claimed"
      /\ UNCHANGED <<current, task, threads, archived, doomed>>
  BY DEF AdapterInv, Served, adapterVars
<1>2. call[p].pc \in Awaits
  BY <1>1 DEF Resumed, NewSessionCreated, PromptAnswered, AgentFailed, QuestionSent,
              ReplySent, CardSent, DeliveryFailed, ReleaseClaim,
              Awaits, StartAwaits, ReplyAwaits, CompleteAwaits
<1>3. Inv'
  BY <1>1, NewSessionCreatedKeeps, PromptAnsweredKeeps, AgentFailedKeeps, QuestionSentKeeps,
     ReplySentKeeps, CardSentKeeps, DeliveryFailedKeeps, ReleaseClaimKeeps DEF Resumed
<1>4. \A q \in Callers \ {p} : call[q].pc = "idle"
  BY <1>1, <1>2, OneInFlight DEF Awaits, StartAwaits, ReplyAwaits, CompleteAwaits
<1> QED
  BY <1>1, <1>2, <1>3, <1>4, ResumedEffect DEF Others

\* The row a start inserts is the only one in its thread.
LEMMA InsertedApart ==
  ASSUME AdapterInv, NEW p \in Callers, Inserted(p)
  PROVE  ThreadsApart'
<1> DEFINE s == call[p].store
           ch == call[p].channel
<1>1. call[p].pc \in StartAwaits /\ StartAlone(p) /\ ThreadsApart
  BY DEF Inserted, StartAwaits, AdapterInv
<1>2. ch \in Channels \ {Home}
  BY <1>1, StartThread
<1>3. \A t \in Stores : \A c \in Rows(stores[t]) : stores[t].conv[c].channel # ch
  BY <1>1 DEF StartAlone
<1>4. \A t \in Stores \ {s} : stores'[t] = stores[t]
  BY DEF Inserted
<1>5. PICK new \in Convs :
        /\ stores'[s].conv[new].channel = ch
        /\ \A x \in Convs \ {new} : stores'[s].conv[x] = stores[s].conv[x]
  BY DEF Inserted
<1> HIDE DEF s, ch
<1>6. ASSUME NEW t \in Stores, NEW c \in Rows(stores'[t])
      PROVE  \/ t = s /\ c = new /\ stores'[t].conv[c].channel = ch
             \/ c \in Rows(stores[t]) /\ stores'[t].conv[c].channel = stores[t].conv[c].channel
  BY <1>4, <1>5 DEF Rows
<1>7. \A t \in Stores : \A c \in Rows(stores'[t]) : stores'[t].conv[c].channel \in Channels \ {Home}
  BY <1>1, <1>2, <1>6 DEF ThreadsApart
<1>8. ASSUME NEW t \in Stores, NEW u \in Stores,
             NEW c \in Rows(stores'[t]), NEW d \in Rows(stores'[u]),
             stores'[t].conv[c].channel = stores'[u].conv[d].channel
      PROVE  t = u /\ c = d
  <2>1. CASE (t = s /\ c = new) \/ (u = s /\ d = new)
    <3>1. \A v \in Stores : \A x \in Rows(stores'[v]) :
            stores'[v].conv[x].channel = ch <=> v = s /\ x = new
      BY <1>3, <1>5, <1>6
    <3> QED
      BY <1>8, <2>1, <3>1
  <2>2. CASE ~(t = s /\ c = new) /\ ~(u = s /\ d = new)
    BY <1>1, <1>6, <1>8, <2>2 DEF ThreadsApart
  <2> QED
    BY <2>1, <2>2
<1> QED
  BY <1>7, <1>8 DEF ThreadsApart, Rows

LEMMA ServedKeeps ==
  ASSUME AdapterInv, NEW p \in Callers, Served(p)
  PROVE  AdapterInv'
<1>1. /\ call[p].pc \in Awaits /\ Inv' /\ Inv
      /\ UNCHANGED <<current, task, threads, archived, doomed>>
      /\ Others(p) /\ (GoesOn(p) \/ Over(p)) /\ (AllOld \/ Inserted(p))
      /\ \A q \in Callers \ {p} : call[q].pc = "idle" /\ call'[q] = call[q]
  BY ServedCall
<1>2. AdapterTypes' /\ NamesFit(p) /\ CallFits(p) /\ StartAlone(p)
  BY <1>1 DEF AdapterInv, AdapterTypes
<1>3. task[p].pc = "serving"
  BY <1>1, <1>2 DEF CallFits
<1>4. NamesFit(p)'
  BY <1>1, <1>3 DEF NamesFit
<1>5. \A q \in Callers \ {p} : call[q].pc \notin StartAwaits
  BY <1>1 DEF StartAwaits
<1>6. CASE GoesOn(p) /\ AllOld
  <2>1. SameCall(call[p].pc, call'[p].pc)
    BY <1>6 DEF GoesOn
  <2>2. CASE call[p].pc \in StartAwaits /\ call'[p].pc \in StartAwaits
    <3>1. CallFits(p)'
      BY <1>1, <1>2, <1>3, <1>6, <2>2 DEF CallFits, GoesOn, StartAwaits, ReplyAwaits, CompleteAwaits
    <3>2. StartAlone(p)'
      BY <1>1, <1>2, <1>6, <2>2 DEF StartAlone, GoesOn, AllOld, OldRows, Rows
    <3> QED
      BY <1>1, <1>2, <1>4, <1>5, <1>6, <3>1, <3>2, StepKeeps
  <2>3. CASE call[p].pc \in ReplyAwaits /\ call'[p].pc \in ReplyAwaits
    <3>1. CallFits(p)' /\ StartAlone(p)'
      BY <1>1, <1>2, <1>3, <2>3 DEF CallFits, StartAlone, StartAwaits, ReplyAwaits, CompleteAwaits
    <3> QED
      BY <1>1, <1>2, <1>4, <1>5, <1>6, <3>1, StepKeeps
  <2>4. CASE call[p].pc \in CompleteAwaits /\ call'[p].pc \in CompleteAwaits
    <3> DEFINE c == call[p].conv
               s == call[p].store
    <3>1. /\ task[p].name = "done" /\ stores[s].conv[c].channel = task[p].channel
          /\ call'[p].conv = c /\ call'[p].store = s /\ s \in Stores
      BY <1>1, <1>2, <1>6, <2>4, SuspendedCall DEF CallFits, GoesOn
    <3>2. c \in Active(stores'[s])
      BY <1>1, <2>4, <3>1 DEF Inv, FlightKeepsItsRow, Data, Active
    <3>3. stores'[s].conv[c].channel = task[p].channel
      BY <1>6, <3>1, <3>2 DEF AllOld, OldRows, Active, Rows, ActiveStatus
    <3> HIDE DEF c, s
    <3>4. CallFits(p)' /\ StartAlone(p)'
      BY <1>1, <1>3, <2>4, <3>1, <3>3
         DEF CallFits, StartAlone, StartAwaits, ReplyAwaits, CompleteAwaits
    <3> QED
      BY <1>1, <1>2, <1>4, <1>5, <1>6, <3>4, StepKeeps
  <2> QED
    BY <2>1, <2>2, <2>3, <2>4 DEF SameCall
<1>7. CASE Over(p) /\ AllOld
  BY <1>1, <1>2, <1>4, <1>5, <1>7, EndedStepKeeps DEF Over
<1>8. CASE Inserted(p)
  <2>1. Over(p)
    BY <1>8 DEF Inserted
  <2>2. ASSUME NEW q \in Callers
        PROVE  NamesFit(q)' /\ CallFits(q)' /\ StartAlone(q)'
    <3>1. call'[q].pc \in {"idle", "claimed"}
      BY <1>1, <2>1 DEF Over
    <3>2. CallFits(q)' /\ StartAlone(q)'
      BY <3>1 DEF CallFits, StartAlone, Awaits, StartAwaits, ReplyAwaits, CompleteAwaits
    <3>3. NamesFit(q)'
      BY <1>1, <1>4 DEF NamesFit, AdapterInv
    <3> QED
      BY <3>2, <3>3
  <2> QED
    BY <1>1, <1>2, <1>8, <2>2, InsertedApart DEF AdapterInv
<1> QED
  BY <1>1, <1>6, <1>7, <1>8 DEF GoesOn, Inserted, SameCall, Over, StartAwaits, ReplyAwaits, CompleteAwaits

\* Steps that move no task and no call, and give no thread up that is in use.
LEMMA BackgroundKeeps ==
  ASSUME AdapterInv, Inv', UNCHANGED <<call, task>>, AllOld, AdapterTypes',
         \A q \in Callers : call[q].pc \in StartAwaits =>
           call[q].channel \in threads' \ archived' /\ call[q].channel \notin doomed'
  PROVE  AdapterInv'
<1>1. ThreadsApart'
  BY RowsStayApart DEF AdapterInv
<1>2. ASSUME NEW q \in Callers
      PROVE  NamesFit(q)' /\ CallFits(q)' /\ StartAlone(q)'
  <2>1. NamesFit(q) /\ CallFits(q) /\ StartAlone(q) /\ call[q].store \in Stores
    BY SuspendedCall DEF AdapterInv
  <2>2. ASSUME call[q].pc \in CompleteAwaits
        PROVE  stores'[call[q].store].conv[call[q].conv].channel
                 = stores[call[q].store].conv[call[q].conv].channel
    <3>1. call[q].conv \in Active(stores'[call[q].store])
      BY <2>2 DEF Inv, FlightKeepsItsRow, Data, Active
    <3> QED
      BY <2>1, <3>1 DEF AllOld, OldRows, Active, Rows, ActiveStatus
  <2>3. NamesFit(q)' /\ CallFits(q)'
    BY <2>1, <2>2 DEF NamesFit, CallFits
  <2>4. StartAlone(q)'
    BY <2>1 DEF StartAlone, AllOld, OldRows, Rows
  <2> QED
    BY <2>3, <2>4
<1> QED
  BY <1>1, <1>2 DEF AdapterInv

LEMMA OutsideKeeps ==
  ASSUME AdapterInv,
         \/ \E t \in Channels : DelayedDeletion(t)
         \/ \E s \in Stores : Testing(s)
         \/ PlanCommand
         \/ (PiRestart \/ TimePasses) /\ UNCHANGED adapterVars
         \/ UNCHANGED allVars
  PROVE  AdapterInv'
<1>1. Inv /\ AdapterTypes
  BY DEF AdapterInv
<1>2. \A q \in Callers : call[q].pc \in StartAwaits =>
        call[q].channel \in threads \ archived /\ call[q].channel \notin doomed
  BY DEF AdapterInv, StartAlone
<1>3. ASSUME NEW t \in Channels, DelayedDeletion(t)
      PROVE  AdapterInv'
  <2>1. /\ UNCHANGED <<vars, current, task>> /\ t \in doomed
        /\ doomed' \subseteq doomed /\ threads' \subseteq threads
        /\ threads \subseteq threads' \cup {t}
        /\ archived' = archived \cap threads'
    BY <1>3 DEF DelayedDeletion
  <2>2. Inv' /\ AllOld /\ UNCHANGED call
    BY <1>1, <2>1, NothingKeeps, NoWriteIsOld DEF vars
  <2>3. AdapterTypes'
    BY <1>1, <2>1 DEF AdapterTypes
  <2>4. \A q \in Callers : call[q].pc \in StartAwaits =>
          call[q].channel \in threads' \ archived' /\ call[q].channel \notin doomed'
    BY <1>2, <2>1
  <2> QED
    BY <2>1, <2>2, <2>3, <2>4, BackgroundKeeps
<1>4. ASSUME NEW s \in Stores, Testing(s)
      PROVE  AdapterInv'
  <2>1. /\ UNCHANGED <<vars, task, threads, archived, doomed>> /\ current' \in Stores
    BY <1>4 DEF Testing
  <2>2. Inv' /\ AllOld /\ UNCHANGED call
    BY <1>1, <2>1, NothingKeeps, NoWriteIsOld DEF vars
  <2>3. AdapterTypes'
    BY <1>1, <2>1 DEF AdapterTypes
  <2> QED
    BY <1>2, <2>1, <2>2, <2>3, BackgroundKeeps
<1>5. ASSUME UNCHANGED adapterVars,
             PiRestart \/ TimePasses \/ ChangePlan(current) \/ UNCHANGED vars
      PROVE  AdapterInv'
  <2>1. UNCHANGED <<current, task, threads, archived, doomed>> /\ current \in Stores
    BY <1>1, <1>5 DEF adapterVars, AdapterTypes
  <2>2. Inv'
    BY <1>1, <1>5, <2>1, PiRestartKeeps, TimePassesKeeps, ChangePlanKeeps, NothingKeeps
  <2>3. UNCHANGED call /\ AllOld
    BY <1>1, <1>5, <2>1, PlanEffect, NoWriteIsOld DEF PiRestart, TimePasses, vars
  <2>4. AdapterTypes'
    BY <1>1, <2>1 DEF AdapterTypes
  <2> QED
    BY <1>2, <2>1, <2>2, <2>3, <2>4, BackgroundKeeps
<1> QED
  BY <1>3, <1>4, <1>5 DEF PlanCommand, allVars

\* A restart ends every task and forgets every delayed deletion.
LEMMA AdapterRestartKeeps ==
  ASSUME AdapterInv, AdapterRestart
  PROVE  AdapterInv'
<1>1. /\ Inv /\ AdapterTypes /\ ThreadsApart /\ Restart
      /\ current' = LiveStore /\ task' = [p \in Callers |-> NoTask]
      /\ doomed' = {} /\ UNCHANGED <<threads, archived>>
  BY DEF AdapterInv, AdapterRestart
<1>2. Inv'
  BY <1>1, RestartKeeps
<1>3. NoTask \in Task /\ LiveStore \in Stores
  BY ApplicationAssumption, AdapterAssumption DEF NoTask, Task, Commands
<1>4. AdapterTypes'
  BY <1>1, <1>3 DEF AdapterTypes
<1>5. ThreadsApart'
  BY <1>1, RowsStayApart, NoWriteIsOld DEF Restart
<1>6. ASSUME NEW q \in Callers
      PROVE  NamesFit(q)' /\ CallFits(q)' /\ StartAlone(q)'
  <2>1. call'[q].pc = "idle" /\ task'[q] = NoTask
    BY <1>1 DEF Restart, Idle
  <2> QED
    BY <2>1 DEF NamesFit, CallFits, StartAlone, NoTask, Awaits, StartAwaits, ReplyAwaits,
                CompleteAwaits
<1> QED
  BY <1>2, <1>4, <1>5, <1>6 DEF AdapterInv

LEMMA HandlerKeeps ==
  ASSUME AdapterInv, NEW p \in Callers, HandlerStep(p)
  PROVE  AdapterInv'
  BY QuietStepKeeps, ThreadCreatedKeeps, ThreadStepKeeps, CatchKeeps, DoneKeeps, ArchiveKeeps,
     DeleteSessionKeeps, UseAgentKeeps, AgentUsedKeeps, TypingKeeps, ServedKeeps DEF HandlerStep

LEMMA AdapterStepKeeps == AdapterInv /\ [AdapterNext]_allVars => AdapterInv'
<1> SUFFICES ASSUME AdapterInv, [AdapterNext]_allVars PROVE AdapterInv'
  OBVIOUS
<1> QED
  BY HandlerKeeps, TickKeeps, MessageKeeps, DispatchKeeps, OutsideKeeps, AdapterRestartKeeps
     DEF AdapterNext

LEMMA AdapterInitHolds == AdapterInit => AdapterInv
<1> SUFFICES ASSUME AdapterInit PROVE AdapterInv
  OBVIOUS
<1>1. Inv
  BY InvInit DEF AdapterInit
<1>2. NoTask \in Task /\ LiveStore \in Stores
  BY ApplicationAssumption, AdapterAssumption DEF NoTask, Task, Commands
<1>3. AdapterTypes
  BY <1>2 DEF AdapterInit, AdapterTypes
<1>4. ThreadsApart
  BY DEF AdapterInit, Init, ThreadsApart, Rows, FreshDatabase, Absent
<1>5. ASSUME NEW q \in Callers
      PROVE  NamesFit(q) /\ CallFits(q) /\ StartAlone(q)
  <2>1. call[q].pc = "idle" /\ task[q] = NoTask
    BY DEF AdapterInit, Init, Idle
  <2> QED
    BY <2>1 DEF NamesFit, CallFits, StartAlone, NoTask, Awaits, StartAwaits, ReplyAwaits,
                CompleteAwaits
<1> QED
  BY <1>1, <1>3, <1>4, <1>5 DEF AdapterInv

\* Under the handlers of the adapter, with its own use of the lease and of Pi,
\* the application keeps its invariant; every conversation of every store has
\* a thread of its own, and a start in flight a thread nobody else will touch.
THEOREM AdapterCoherent == AdapterSpec => []AdapterInv
<1> QED
  BY AdapterInitHolds, AdapterStepKeeps, PTL DEF AdapterSpec

\* The tasks and the threads of the adapter have their types: no archived
\* thread is gone, and the home channel is never given up.
THEOREM AdapterTypeCorrect == AdapterSpec => []AdapterTypeOK
<1>1. AdapterInv => AdapterTypeOK
  BY DEF AdapterInv, AdapterTypes, AdapterTypeOK, Inv
<1> QED
  BY <1>1, AdapterCoherent, PTL

-----------------------------------------------------------------------------
(* LiveConversationKeepsItsThread, when no read-back fails after a commit:  *)
(* otherwise a start may report a failure although its conversation is      *)
(* recorded, and its handler then deletes the thread.                       *)

\* The task will delete or archive thread t.
Threatens(q, t) ==
  \/ /\ task[q].thread = t
     /\ \/ task[q].pc = "deleteThread"
        \/ /\ task[q].pc = "serving" /\ task[q].name \in Starts
           /\ call[q].pc \in {"idle", "claimed"} /\ call[q].outcome # "ok"
  \/ /\ task[q].channel = t
     /\ \/ task[q].pc = "archive"
        \/ /\ task[q].pc = "serving" /\ task[q].name = "done"
           /\ call[q].pc = "idle" /\ call[q].outcome = "ok"

Safe(t) ==
  /\ t \in threads \ archived
  /\ t \notin doomed
  /\ \A q \in Callers : ~Threatens(q, t)

\* A conversation is live in thread t.
Live(t) == \E s \in Stores : \E c \in Active(stores[s]) : stores[s].conv[c].channel = t

\* The thread of a live conversation is there, and nobody is about to take it.
LiveInv == \A t \in Channels : Live(t) => Safe(t)

\* Old rows are live only where there was a live one.
LEMMA LiveWasLive ==
  ASSUME AllOld, NEW t, Live(t)'
  PROVE  Live(t)
<1>1. PICK s \in Stores : \E c \in Active(stores'[s]) : stores'[s].conv[c].channel = t
  BY DEF Live, Active
<1>2. PICK c \in Active(stores'[s]) : stores'[s].conv[c].channel = t
  BY <1>1
<1>3. c \in Active(stores[s]) /\ stores[s].conv[c].channel = t
  BY <1>2 DEF AllOld, OldRows, Active, Rows, ActiveStatus
<1> QED
  BY <1>3 DEF Live

\* A step of task p that neither takes the thread of a live conversation nor
\* is about to.
LEMMA LiveStepKeeps ==
  ASSUME LiveInv, NEW p \in Callers, Others(p), AllOld,
         \A q \in Callers \ {p} : task'[q] = task[q],
         \A t \in Channels : Live(t) /\ Live(t)' /\ Safe(t) =>
           t \in threads' \ archived' /\ t \notin doomed' /\ ~Threatens(p, t)'
  PROVE  LiveInv'
<1> SUFFICES ASSUME NEW t \in Channels, Live(t)'
             PROVE  Safe(t)'
  BY DEF LiveInv
<1>1. Live(t) /\ Safe(t)
  BY LiveWasLive DEF LiveInv
<1>2. t \in threads' \ archived' /\ t \notin doomed' /\ ~Threatens(p, t)'
  BY <1>1
<1>3. ASSUME NEW q \in Callers, q # p PROVE ~Threatens(q, t)'
  <2>1. call'[q] = call[q] /\ task'[q] = task[q] /\ ~Threatens(q, t)
    BY <1>1, <1>3 DEF Others, Safe
  <2> QED
    BY <2>1 DEF Threatens
<1> QED
  BY <1>2, <1>3 DEF Safe

\* A step that moves no thread and does not become a threat.
LEMMA HarmlessStepKeeps ==
  ASSUME LiveInv, NEW p \in Callers, Others(p), AllOld,
         \A q \in Callers \ {p} : task'[q] = task[q],
         UNCHANGED <<threads, archived, doomed>>,
         \A t \in Channels : Live(t) /\ Safe(t) => ~Threatens(p, t)'
  PROVE  LiveInv'
  BY LiveStepKeeps DEF Safe

\* Tasks that are not about to touch a thread.
LEMMA NoThreat ==
  ASSUME NEW p \in Callers, NEW t,
         \/ task'[p].pc \notin {"deleteThread", "serving", "archive"}
         \/ task'[p].pc = "serving" /\ task'[p].name = "message"
  PROVE  ~Threatens(p, t)'
  BY DEF Threatens, Starts

\* Handlers that end, or go to a place where no thread is at stake.
LEMMA PlainStepIsHarmless ==
  ASSUME AdapterInv, LiveInv, NEW p \in Callers,
         \/ AskNow(p) \/ PermissionsKnown(p) \/ UseAgent(p) \/ AgentUsed(p)
         \/ TypingShown(p) \/ MessageEnded(p)
  PROVE  LiveInv'
<1>1. AdapterTypes /\ Inv /\ UNCHANGED <<threads, archived, doomed>>
  BY DEF AdapterInv, AskNow, PermissionsKnown, UseAgent, AgentUsed, TypingShown, MessageEnded
<1>2. /\ Others(p) /\ AllOld
      /\ \/ End(p)
         \/ \E pc \in {"permissions", "createThread", "asking"} : Go(p, pc)
         \/ Go(p, "serving") /\ task[p].name = "message"
  <2>1. CASE AskNow(p) \/ PermissionsKnown(p)
    BY <2>1, NoCallKeeps DEF AskNow, PermissionsKnown
  <2>2. CASE UseAgent(p)
    BY <1>1, <2>2, NoCallKeeps, ClaimEffect, NoWriteIsOld DEF UseAgent
  <2>3. CASE AgentUsed(p)
    BY <2>3, AgentUsedEffect DEF AgentUsed
  <2>4. CASE TypingShown(p)
    <3>1. /\ Reply(p, task[p].store, task[p].channel) /\ Go(p, "serving")
          /\ task[p].store \in Stores /\ task[p].channel \in Channels
          /\ task[p].name = "message"
      BY <2>4 DEF TypingShown, Awaiting, AdapterInv, NamesFit, AdapterTypes, Task
    <3> QED
      BY <1>1, <3>1, ReplyEffect, NoWriteIsOld
  <2>5. CASE MessageEnded(p)
    BY <1>1, <2>5, CaughtKeeps DEF MessageEnded
  <2> QED
    BY <2>1, <2>2, <2>3, <2>4, <2>5
<1>3. \/ task'[p].pc \notin {"deleteThread", "serving", "archive"}
      \/ task'[p].pc = "serving" /\ task'[p].name = "message"
  <2>1. CASE End(p)
    BY <1>1, <2>1, EndEffect DEF NoTask
  <2>2. ASSUME NEW pc, Go(p, pc) PROVE task'[p].pc = pc /\ task'[p].name = task[p].name
    BY <1>1, <2>2, GoEffect
  <2> QED
    BY <1>2, <2>1, <2>2
<1>4. \A q \in Callers \ {p} : task'[q] = task[q]
  BY <1>1, <1>2, TaskMoves DEF TaskPcs
<1> QED
  BY <1>1, <1>2, <1>3, <1>4, NoThreat, HarmlessStepKeeps

\* Tasks that begin.
LEMMA BeginningIsHarmless ==
  ASSUME AdapterInv, LiveInv, NEW p \in Callers,
         \/ Tick(p)
         \/ \E ch \in Channels : Message(p, ch) \/ \E name \in Commands : Dispatch(p, name, ch)
  PROVE  LiveInv'
<1>1. AdapterTypes /\ Inv /\ UNCHANGED <<threads, archived, doomed>>
  BY DEF AdapterInv, Tick, Message, Dispatch
<1>2. ASSUME NEW new, task' = [task EXCEPT ![p] = new]
      PROVE  task'[p] = new /\ \A q \in Callers \ {p} : task'[q] = task[q]
  BY <1>1, <1>2 DEF AdapterTypes
<1>3. Others(p) /\ AllOld
  BY <1>1, NoCallKeeps, ClaimEffect, NoWriteIsOld DEF Tick, Message, Dispatch
<1> DEFINE begun == /\ task'[p].pc \in {"createThread", "typing", "dispatched"}
                    /\ \A q \in Callers \ {p} : task'[q] = task[q]
<1>4. begun
  <2>1. CASE Tick(p)
    <3> DEFINE new == [NoTask EXCEPT !.name = "kickoff", !.pc = "createThread"]
    <3>1. task' = [task EXCEPT ![p] = new] /\ new.pc = "createThread"
      BY <2>1 DEF Tick, NoTask
    <3> HIDE DEF new
    <3> QED
      BY <1>2, <3>1
  <2>2. ASSUME NEW ch \in Channels, Message(p, ch)
        PROVE  begun
    BY <1>2, <2>2 DEF Message, NoTask
  <2>3. ASSUME NEW ch \in Channels, NEW name \in Commands, Dispatch(p, name, ch)
        PROVE  begun
    <3> DEFINE new == [NoTask EXCEPT !.name = name, !.pc = "dispatched", !.channel = ch]
    <3>1. task' = [task EXCEPT ![p] = new] /\ new.pc = "dispatched"
      BY <2>3 DEF Dispatch, NoTask
    <3> HIDE DEF new
    <3> QED
      BY <1>2, <3>1
  <2> QED
    BY <2>1, <2>2, <2>3
<1> QED
  BY <1>1, <1>3, <1>4, NoThreat, HarmlessStepKeeps

\* A handler that will take a thread was about to when its call ended.
LEMMA EndIsNoNewThreat ==
  ASSUME AdapterInv, LiveInv, NEW p \in Callers, StartEnded(p) \/ DoneEnded(p)
  PROVE  LiveInv'
<1>1. /\ AdapterTypes /\ Inv /\ UNCHANGED <<threads, archived, doomed>>
      /\ Caught(p) /\ call[p].pc \in {"idle", "claimed"}
      /\ task[p].pc = "serving"
  BY DEF AdapterInv, StartEnded, DoneEnded, Awaiting
<1>2. /\ Others(p) /\ AllOld
  BY <1>1, CaughtKeeps
<1>3. \/ End(p)
      \/ Go(p, "deleteThread") /\ task[p].name \in Starts /\ call[p].outcome # "ok"
      \/ Go(p, "archive") /\ task[p].name = "done" /\ call[p].pc = "idle" /\ call[p].outcome = "ok"
  BY DEF StartEnded, DoneEnded, KeepsThread, Starts
<1>4. \A q \in Callers \ {p} : task'[q] = task[q]
  BY <1>1, <1>3, TaskMoves DEF TaskPcs
<1>5. ASSUME NEW t \in Channels, Safe(t)
      PROVE  ~Threatens(p, t)'
  <2>1. ~Threatens(p, t)
    BY <1>5 DEF Safe
  <2>2. CASE End(p)
    BY <1>1, <2>2, EndEffect, NoThreat DEF NoTask
  <2>3. CASE /\ Go(p, "deleteThread") /\ task[p].name \in Starts /\ call[p].outcome # "ok"
    <3>1. task[p].thread # t
      BY <1>1, <2>1, <2>3 DEF Threatens
    <3>2. task'[p].pc = "deleteThread" /\ task'[p].thread # t
      BY <1>1, <2>3, <3>1, GoEffect
    <3> QED
      BY <3>2 DEF Threatens
  <2>4. CASE /\ Go(p, "archive") /\ task[p].name = "done" /\ call[p].pc = "idle"
             /\ call[p].outcome = "ok"
    <3>1. task[p].channel # t
      BY <1>1, <2>1, <2>4 DEF Threatens
    <3>2. task'[p].pc = "archive" /\ task'[p].channel # t
      BY <1>1, <2>4, <3>1, GoEffect
    <3> QED
      BY <3>2 DEF Threatens
  <2> QED
    BY <1>3, <2>2, <2>3, <2>4
<1> QED
  BY <1>1, <1>2, <1>4, <1>5, HarmlessStepKeeps

\* /done is about to archive a thread only when its closure has succeeded, and
\* no closure does in its first segment.
LEMMA DoneIsHarmless ==
  ASSUME AdapterInv, LiveInv, NEW p \in Callers, Done(p)
  PROVE  LiveInv'
<1>1. /\ task[p].name = "done" /\ CompleteConversation(p, current, task[p].channel)
      /\ Go(p, "serving") /\ UNCHANGED <<threads, archived, doomed>>
      /\ Inv /\ AdapterTypes /\ current \in Stores /\ task[p].channel \in Channels
  BY DEF Done, Running, AdapterInv, AdapterTypes, Task
<1>2. /\ Others(p) /\ AllOld
      /\ \/ call'[p].pc = "idle" /\ call'[p].outcome # "ok"
         \/ call'[p].pc = "carding"
  BY <1>1, CompleteEffect
<1>3. task'[p].pc = "serving" /\ task'[p].name = "done"
  BY <1>1, GoEffect
<1>4. \A q \in Callers \ {p} : task'[q] = task[q]
  BY <1>1, TaskMoves DEF TaskPcs
<1>5. \A t \in Channels : ~Threatens(p, t)'
  BY <1>2, <1>3 DEF Threatens, Starts
<1> QED
  BY <1>1, <1>2, <1>4, <1>5, HarmlessStepKeeps

\* A start that was refused will delete its new thread, and only that.
LEMMA ThreadCreatedIsHarmless ==
  ASSUME AdapterInv, LiveInv, NEW p \in Callers, NEW t \in Channels, ThreadCreated(p, t)
  PROVE  LiveInv'
<1> DEFINE new == [task[p] EXCEPT !.pc = "serving", !.thread = t]
<1>1. /\ task[p].pc = "createThread" /\ FreshThread(t)
      /\ threads' = threads \cup {t} /\ UNCHANGED <<archived, doomed>>
      /\ StartConversation(p, current, t) \/ StartClaimedConversation(p, current, t)
  BY DEF ThreadCreated, Awaiting
<1>2. /\ Inv /\ current \in Stores /\ task[p].name \in Starts
      /\ task \in [Callers -> Task] /\ task[p] \in Task
  BY <1>1 DEF AdapterInv, AdapterTypes, NamesFit
<1>3. Others(p) /\ AllOld
  BY <1>1, <1>2, StartEffect, NoWriteIsOld
<1>4. /\ new.pc = "serving" /\ new.thread = t /\ new.name = task[p].name
      /\ task' = [task EXCEPT ![p] = new]
  BY <1>2 DEF Task, ThreadCreated
<1> HIDE DEF new
<1>5. task'[p] = new /\ \A q \in Callers \ {p} : task'[q] = task[q]
  BY <1>2, <1>4
<1>6. ASSUME NEW x \in Channels, Live(x), Safe(x)
      PROVE  x \in threads' \ archived' /\ x \notin doomed' /\ ~Threatens(p, x)'
  <2>1. x # t
    BY <1>1, <1>6 DEF FreshThread, Safe
  <2>2. ~Threatens(p, x)'
    BY <1>2, <1>4, <1>5, <2>1 DEF Threatens, Starts
  <2> QED
    BY <1>1, <1>6, <2>2 DEF Safe
<1> QED
  BY <1>3, <1>5, <1>6, LiveStepKeeps

\* A thread that is deleted or archived was threatened.
LEMMA TakenWasThreatened ==
  ASSUME AdapterInv, LiveInv, NEW p \in Callers,
         \/ DeletionEnded(p) \/ ArchiveEnded(p)
         \/ \E fault : ThreadNotCreated(p, fault)
  PROVE  LiveInv'
<1>1. AdapterTypes /\ Inv
  BY DEF AdapterInv
<1>2. /\ End(p) /\ UNCHANGED doomed
      /\ Others(p) /\ AllOld
      /\ \A t : Safe(t) => t \in threads' \ archived'
  <2>1. CASE DeletionEnded(p)
    <3>1. Others(p) /\ AllOld
      BY <2>1, ReleasedKeeps DEF DeletionEnded, Awaiting
    <3>2. /\ task[p].pc = "deleteThread" /\ threads \subseteq threads' \cup {task[p].thread}
          /\ archived' = archived \cap threads' /\ End(p) /\ UNCHANGED doomed
      BY <2>1 DEF DeletionEnded, Awaiting
    <3>3. \A t : Safe(t) => t # task[p].thread
      BY <3>2 DEF Safe, Threatens
    <3> QED
      BY <3>1, <3>2, <3>3 DEF Safe
  <2>2. CASE ArchiveEnded(p)
    <3>1. Others(p) /\ AllOld
      BY <2>2, NoCallKeeps DEF ArchiveEnded
    <3>2. /\ task[p].pc = "archive" /\ UNCHANGED <<threads, doomed>> /\ End(p)
          /\ archived' \subseteq archived \cup {task[p].channel}
      BY <2>2 DEF ArchiveEnded, Awaiting
    <3>3. \A t : Safe(t) => t # task[p].channel
      BY <3>2 DEF Safe, Threatens
    <3> QED
      BY <3>1, <3>2, <3>3 DEF Safe
  <2>3. ASSUME NEW fault, ThreadNotCreated(p, fault)
        PROVE  /\ End(p) /\ UNCHANGED doomed
               /\ Others(p) /\ AllOld
               /\ \A t : Safe(t) => t \in threads' \ archived'
    <3>1. Others(p) /\ AllOld
      BY <2>3, ReleasedKeeps DEF ThreadNotCreated, Awaiting
    <3> QED
      BY <2>3, <3>1 DEF ThreadNotCreated, Safe
  <2> QED
    BY <2>1, <2>2, <2>3
<1>3. task'[p].pc = "idle" /\ \A q \in Callers \ {p} : task'[q] = task[q]
  BY <1>1, <1>2, EndEffect, TaskMoves DEF NoTask
<1>4. \A t : ~Threatens(p, t)'
  BY <1>3 DEF Threatens
<1> QED
  BY <1>2, <1>3, <1>4, LiveStepKeeps DEF Safe

\* /delete-session gives up the threads of the conversations it deleted.
LEMMA DeleteSessionIsHarmless ==
  ASSUME AdapterInv, LiveInv, NEW p \in Callers, DeleteSession(p)
  PROVE  LiveInv'
<1> DEFINE gone == {c \in Rows(stores[current]) :
                      call'[p].outcome = "ok" /\ c \notin Rows(stores'[current])}
           channels == {stores[current].conv[c].channel : c \in gone}
<1>1. /\ DiscardConversation(p, current, task[p].channel)
      /\ UNCHANGED <<current, threads, archived>>
      /\ \/ /\ \E ch \in channels :
                 task' = [task EXCEPT ![p].pc = "deleteThread", ![p].thread = ch]
            /\ UNCHANGED doomed
         \/ End(p) /\ doomed' = doomed \cup channels
  BY DEF DeleteSession
<1>2. /\ Inv /\ AdapterTypes /\ current \in Stores /\ ThreadsApart
      /\ task \in [Callers -> Task] /\ task[p] \in Task
      /\ task[p].channel \in Channels
  BY DEF AdapterInv, AdapterTypes, Task
<1>3. Others(p) /\ AllOld
  BY <1>1, <1>2, DiscardEffect
<1>4. ASSUME NEW t \in Channels, Live(t)'
      PROVE  t \notin channels
  <2>1. PICK s \in Stores : \E c \in Active(stores'[s]) : stores'[s].conv[c].channel = t
    BY <1>4 DEF Live, Active
  <2>2. PICK c \in Active(stores'[s]) : stores'[s].conv[c].channel = t
    BY <2>1
  <2>3. c \in Rows(stores'[s]) /\ c \in Rows(stores[s]) /\ stores[s].conv[c].channel = t
    BY <1>3, <2>2 DEF AllOld, OldRows, Active, Rows, ActiveStatus
  <2>4. ASSUME NEW g \in gone PROVE stores[current].conv[g].channel # t
    <3>1. g \in Rows(stores[current]) /\ g \notin Rows(stores'[current])
      OBVIOUS
    <3> QED
      BY <1>2, <2>3, <3>1 DEF ThreadsApart
  <2> QED
    BY <2>4
<1> HIDE DEF channels
<1>5. \A q \in Callers \ {p} : task'[q] = task[q]
  BY <1>1, <1>2, TaskMoves
<1>6. ASSUME NEW t \in Channels, Live(t)', Safe(t)
      PROVE  t \in threads' \ archived' /\ t \notin doomed' /\ ~Threatens(p, t)'
  <2>1. CASE End(p) /\ doomed' = doomed \cup channels
    <3>1. ~Threatens(p, t)'
      BY <1>2, <2>1, EndEffect, NoThreat DEF NoTask
    <3> QED
      BY <1>1, <1>4, <1>6, <2>1, <3>1 DEF Safe
  <2>2. ASSUME NEW ch \in channels, UNCHANGED doomed,
               task' = [task EXCEPT ![p].pc = "deleteThread", ![p].thread = ch]
        PROVE  t \in threads' \ archived' /\ t \notin doomed' /\ ~Threatens(p, t)'
    <3> DEFINE new == [task[p] EXCEPT !.pc = "deleteThread", !.thread = ch]
    <3>1. /\ new.pc = "deleteThread" /\ new.thread = ch
          /\ task' = [task EXCEPT ![p] = new]
      BY <1>2, <2>2 DEF Task
    <3> HIDE DEF new
    <3>2. task'[p] = new
      BY <1>2, <3>1
    <3>3. ~Threatens(p, t)'
      BY <1>4, <1>6, <2>2, <3>1, <3>2 DEF Threatens
    <3> QED
      BY <1>1, <1>6, <2>2, <3>3 DEF Safe
  <2> QED
    BY <1>1, <2>1, <2>2
<1> QED
  BY <1>3, <1>5, <1>6, LiveStepKeeps

\* An await of a call: a start that fails has left no conversation in its
\* thread, and a closure that succeeds none that is live.
LEMMA ServedIsHarmless ==
  ASSUME AdapterInv, LiveInv, NEW p \in Callers, Served(p), AllOld
  PROVE  LiveInv'
<1>1. /\ call[p].pc \in Awaits /\ Inv
      /\ UNCHANGED <<current, task, threads, archived, doomed>>
      /\ Others(p) /\ (GoesOn(p) \/ Over(p)) /\ ClosedIfOver(p)
  BY ServedCall
<1>2. /\ NamesFit(p) /\ CallFits(p) /\ StartAlone(p) /\ ThreadsApart
      /\ task[p].pc = "serving" /\ call[p].store \in Stores
  BY <1>1, SuspendedCall DEF AdapterInv, CallFits
<1>3. ASSUME NEW t \in Channels, Live(t)', Live(t)
      PROVE  ~Threatens(p, t)'
  <2>1. task'[p] = task[p]
    BY <1>1
  <2>2. ASSUME task[p].thread = t, task[p].name \in Starts,
               call'[p].pc \in {"idle", "claimed"}
        PROVE  FALSE
    <3>1. call[p].pc \in StartAwaits
      BY <1>1, <1>2, <2>2 DEF CallFits, Awaits, Starts
    <3>2. call[p].channel = t
      BY <1>2, <2>2, <3>1 DEF CallFits
    <3>3. PICK s \in Stores : \E c \in Active(stores[s]) : stores[s].conv[c].channel = t
      BY <1>3 DEF Live
    <3>4. PICK c \in Active(stores[s]) : stores[s].conv[c].channel = t
      BY <3>3
    <3>5. c \in Rows(stores[s])
      BY DEF Active, Rows, ActiveStatus
    <3> QED
      BY <1>2, <3>1, <3>2, <3>4, <3>5 DEF StartAlone
  <2>3. ASSUME task[p].channel = t, task[p].name = "done",
               call'[p].pc = "idle", call'[p].outcome = "ok"
        PROVE  FALSE
    <3> DEFINE v == call[p].store
               d == call[p].conv
    <3>1. call[p].pc \in CompleteAwaits
      BY <1>1, <1>2, <2>3 DEF CallFits, Awaits, Starts
    <3>2. Over(p)
      BY <1>1, <2>3 DEF GoesOn, SameCall, StartAwaits, ReplyAwaits, CompleteAwaits
    <3>3. stores'[v].conv[d].status = "COMPLETED"
      BY <1>1, <2>3, <3>1, <3>2 DEF ClosedIfOver
    <3>4. stores[v].conv[d].channel = t /\ d \in Active(stores[v])
      BY <1>1, <1>2, <2>3, <3>1 DEF CallFits, Inv, FlightKeepsItsRow, Data
    <3>5. d \in Rows(stores[v]) /\ v \in Stores
      BY <1>2, <3>4 DEF Active, Rows, ActiveStatus
    <3>6. PICK s \in Stores : \E c \in Active(stores'[s]) : stores'[s].conv[c].channel = t
      BY <1>3 DEF Live, Active
    <3>7. PICK c \in Active(stores'[s]) : stores'[s].conv[c].channel = t
      BY <3>6
    <3>8. c \in Rows(stores[s]) /\ stores[s].conv[c].channel = t
      BY <3>7 DEF AllOld, OldRows, Active, Rows, ActiveStatus
    <3> HIDE DEF v, d
    <3>9. s = v /\ c = d
      BY <1>2, <3>4, <3>5, <3>8 DEF ThreadsApart
    <3> QED
      BY <3>3, <3>7, <3>9 DEF Active, ActiveStatus
  <2> QED
    BY <1>2, <2>1, <2>2, <2>3 DEF Threatens
<1> QED
  BY <1>1, <1>3, LiveStepKeeps DEF Safe

\* The conversation a start inserts finds its thread as the start left it.
LEMMA InsertedIsHarmless ==
  ASSUME "late" \notin StoreFaults, AdapterInv, LiveInv, NEW p \in Callers,
         Served(p), Inserted(p)
  PROVE  LiveInv'
<1> DEFINE v == call[p].store
           ch == call[p].channel
<1>1. /\ UNCHANGED <<task, threads, archived, doomed>> /\ Others(p)
      /\ call[p].pc \in StartAwaits /\ call[p].pc \in Awaits
      /\ call'[p].outcome = "ok"
  BY ServedCall DEF Inserted, StartAwaits, Awaits
<1>2. StartAlone(p) /\ task[p].pc = "serving" /\ task[p].name \in Starts
  BY <1>1 DEF AdapterInv, CallFits
<1>3. /\ ch \in threads \ archived /\ ch \notin doomed
      /\ \A q \in Callers : task[q].channel # ch /\ (q # p => task[q].thread # ch)
  BY <1>1, <1>2 DEF StartAlone
<1>4. \A t : ~Threatens(p, t)'
  BY <1>1, <1>2 DEF Threatens, Starts
<1>5. PICK new \in Convs :
        /\ stores'[v].conv[new].channel = ch
        /\ \A x \in Convs \ {new} : stores'[v].conv[x] = stores[v].conv[x]
  BY DEF Inserted
<1>6. \A s \in Stores \ {v} : stores'[s] = stores[s]
  BY DEF Inserted
<1> HIDE DEF v, ch
<1>7. ASSUME NEW t \in Channels, Live(t)'
      PROVE  Safe(t)'
  <2>1. PICK s \in Stores : \E c \in Active(stores'[s]) : stores'[s].conv[c].channel = t
    BY <1>7 DEF Live, Active
  <2>2. PICK c \in Active(stores'[s]) : stores'[s].conv[c].channel = t
    BY <2>1
  <2>3. t = ch \/ (c \in Active(stores[s]) /\ stores[s].conv[c].channel = t)
    BY <1>5, <1>6, <2>2 DEF Active
  <2>4. CASE t = ch
    <3>1. ASSUME NEW q \in Callers, q # p PROVE ~Threatens(q, t)'
      BY <1>1, <1>3, <2>4, <3>1 DEF Threatens
    <3> QED
      BY <1>1, <1>3, <1>4, <2>4, <3>1 DEF Safe
  <2>5. CASE c \in Active(stores[s]) /\ stores[s].conv[c].channel = t
    <3>1. Safe(t)
      BY <1>7, <2>5 DEF LiveInv, Live
    <3>2. ASSUME NEW q \in Callers, q # p PROVE ~Threatens(q, t)'
      <4>1. call'[q] = call[q] /\ task'[q] = task[q] /\ ~Threatens(q, t)
        BY <1>1, <3>1, <3>2 DEF Others, Safe
      <4> QED
        BY <4>1 DEF Threatens
    <3> QED
      BY <1>1, <1>4, <3>1, <3>2 DEF Safe
  <2> QED
    BY <2>3, <2>4, <2>5
<1> QED
  BY <1>7 DEF LiveInv

\* Steps that move no task and no call, and take no thread that is safe.
LEMMA BackgroundIsHarmless ==
  ASSUME LiveInv, UNCHANGED <<call, task>>, AllOld,
         \A t \in Channels : Safe(t) => t \in threads' \ archived' /\ t \notin doomed'
  PROVE  LiveInv'
<1> SUFFICES ASSUME NEW t \in Channels, Live(t)'
             PROVE  Safe(t)'
  BY DEF LiveInv
<1>1. Safe(t)
  BY LiveWasLive DEF LiveInv
<1>2. ASSUME NEW q \in Callers PROVE ~Threatens(q, t)'
  <2>1. ~Threatens(q, t)
    BY <1>1 DEF Safe
  <2> QED
    BY <2>1 DEF Threatens
<1> QED
  BY <1>1, <1>2 DEF Safe

LEMMA OutsideIsHarmless ==
  ASSUME AdapterInv, LiveInv,
         \/ \E t \in Channels : DelayedDeletion(t)
         \/ \E s \in Stores : Testing(s)
         \/ PlanCommand
         \/ (PiRestart \/ TimePasses) /\ UNCHANGED adapterVars
         \/ UNCHANGED allVars
  PROVE  LiveInv'
<1>1. Inv /\ current \in Stores
  BY DEF AdapterInv, AdapterTypes
<1>2. ASSUME NEW t \in Channels, DelayedDeletion(t)
      PROVE  LiveInv'
  <2>1. /\ UNCHANGED <<stores, call, task>> /\ t \in doomed
        /\ doomed' \subseteq doomed
        /\ threads \subseteq threads' \cup {t}
        /\ archived' \subseteq archived
    BY <1>2 DEF DelayedDeletion, vars
  <2> QED
    BY <2>1, NoWriteIsOld, BackgroundIsHarmless DEF Safe
<1>3. ASSUME NEW s \in Stores, Testing(s)
      PROVE  LiveInv'
  <2>1. UNCHANGED <<stores, call, task, threads, archived, doomed>>
    BY <1>3 DEF Testing, vars
  <2> QED
    BY <2>1, NoWriteIsOld, BackgroundIsHarmless DEF Safe
<1>4. ASSUME UNCHANGED adapterVars,
             PiRestart \/ TimePasses \/ ChangePlan(current) \/ UNCHANGED vars
      PROVE  LiveInv'
  <2>1. UNCHANGED <<task, threads, archived, doomed>>
    BY <1>4 DEF adapterVars
  <2>2. UNCHANGED call /\ AllOld
    BY <1>1, <1>4, PlanEffect, NoWriteIsOld DEF PiRestart, TimePasses, vars
  <2> QED
    BY <2>1, <2>2, BackgroundIsHarmless DEF Safe
<1> QED
  BY <1>2, <1>3, <1>4 DEF PlanCommand, allVars

\* After a restart no task is left that could take a thread.
LEMMA RestartIsHarmless ==
  ASSUME LiveInv, AdapterRestart
  PROVE  LiveInv'
<1>1. /\ task' = [p \in Callers |-> NoTask] /\ doomed' = {}
      /\ UNCHANGED <<stores, threads, archived>>
  BY DEF AdapterRestart, Restart
<1> SUFFICES ASSUME NEW t \in Channels, Live(t)'
             PROVE  Safe(t)'
  BY DEF LiveInv
<1>2. Safe(t)
  BY <1>1, NoWriteIsOld, LiveWasLive DEF LiveInv
<1>3. \A q \in Callers : ~Threatens(q, t)'
  BY <1>1 DEF Threatens, NoTask
<1> QED
  BY <1>1, <1>2, <1>3 DEF Safe

LEMMA LiveStep ==
  ASSUME "late" \notin StoreFaults, AdapterInv, LiveInv, [AdapterNext]_allVars
  PROVE  LiveInv'
<1>1. ASSUME NEW p \in Callers, HandlerStep(p)
      PROVE  LiveInv'
  <2>1. CASE Served(p)
    BY <2>1, ServedCall, ServedIsHarmless, InsertedIsHarmless
  <2> QED
    BY <1>1, <2>1, PlainStepIsHarmless, EndIsNoNewThreat, DoneIsHarmless,
       ThreadCreatedIsHarmless, TakenWasThreatened, DeleteSessionIsHarmless DEF HandlerStep
<1> QED
  BY <1>1, BeginningIsHarmless, OutsideIsHarmless, RestartIsHarmless DEF AdapterNext

LEMMA LiveInit == AdapterInit => LiveInv
<1> SUFFICES ASSUME AdapterInit PROVE LiveInv
  OBVIOUS
<1>1. \A s \in Stores : Active(stores[s]) = {}
  BY DEF AdapterInit, Init, FreshDatabase, Active, ActiveStatus, Absent
<1> QED
  BY <1>1 DEF LiveInv, Live

\* No cleanup of a failed start, no closure and no discard of an earlier
\* conversation, and no deletion that comes late takes the thread of a live
\* conversation, provided a store call that raises has not committed.
THEOREM ThreadCorrect ==
  ASSUME "late" \notin StoreFaults
  PROVE  AdapterSpec => []LiveConversationKeepsItsThread
<1>1. AdapterInv /\ LiveInv /\ [AdapterNext]_allVars => LiveInv'
  BY LiveStep
<1>2. AdapterInv /\ LiveInv => LiveConversationKeepsItsThread
  <2> SUFFICES ASSUME AdapterInv, LiveInv, NEW s \in Stores, NEW c \in Active(stores[s])
               PROVE  stores[s].conv[c].channel \in threads \ archived
    BY DEF LiveConversationKeepsItsThread
  <2>1. c \in Rows(stores[s])
    BY DEF Active, Rows, ActiveStatus
  <2>2. stores[s].conv[c].channel \in Channels
    BY <2>1 DEF AdapterInv, ThreadsApart
  <2> QED
    BY <2>2 DEF LiveInv, Live, Safe
<1> QED
  BY <1>1, <1>2, LiveInit, AdapterCoherent, PTL DEF AdapterSpec

-----------------------------------------------------------------------------
(* KickoffFindsNoConversation, with one store: when /testing changes the    *)
(* store during the kickoff, another one may hold an open conversation.     *)

\* The kickoff has the lease from the check to the start, and no conversation
\* begins in between.
Undisturbed(p) ==
  task[p].name = "kickoff" =>
    /\ task[p].pc \in {"createThread", "serving", "deleteThread"}
    /\ call[p].outcome # "alreadyOpen"
    /\ task[p].pc = "createThread" =>
         call[p].pc = "claimed" /\ Active(stores[LiveStore]) = {}

KickInv == \A p \in Callers : Undisturbed(p)

\* Old rows bring no conversation to life.
LEMMA StillNoneActive ==
  ASSUME AllOld, NEW s \in Stores, Active(stores[s]) = {}
  PROVE  Active(stores'[s]) = {}
  BY DEF AllOld, OldRows, Active, Rows, ActiveStatus

\* A step of a task moves no other one, and brings a conversation to life only
\* at the end of a start that had the lease.
TaskStep(p) ==
  /\ Others(p)
  /\ \A q \in Callers \ {p} : task'[q] = task[q]
  /\ AllOld \/ call[p].pc = "sendQuestion"

LEMMA HandlerIsTaskStep ==
  ASSUME AdapterInv, NEW p \in Callers, HandlerStep(p)
  PROVE  TaskStep(p)
<1>1. /\ Inv /\ AdapterTypes /\ current \in Stores /\ task \in [Callers -> Task]
      /\ task[p].channel \in Channels /\ task[p].store \in Stores
  BY DEF AdapterInv, AdapterTypes, Task
<1>2. ASSUME (\E pc : Go(p, pc)) \/ End(p)
      PROVE  \A q \in Callers \ {p} : task'[q] = task[q]
  BY <1>1, <1>2 DEF Go, End
<1>3. CASE AskNow(p) \/ PermissionsKnown(p) \/ ArchiveEnded(p)
  BY <1>2, <1>3, NoCallKeeps DEF AskNow, PermissionsKnown, ArchiveEnded, TaskStep
<1>4. CASE StartEnded(p) \/ DoneEnded(p) \/ MessageEnded(p)
  BY <1>1, <1>2, <1>4, CaughtKeeps DEF StartEnded, DoneEnded, MessageEnded, TaskStep
<1>5. CASE DeletionEnded(p) \/ \E fault : ThreadNotCreated(p, fault)
  BY <1>2, <1>5, ReleasedKeeps DEF DeletionEnded, ThreadNotCreated, Awaiting, TaskStep
<1>6. CASE Done(p)
  BY <1>1, <1>2, <1>6, CompleteEffect DEF Done, TaskStep
<1>7. CASE UseAgent(p)
  BY <1>1, <1>2, <1>7, NoCallKeeps, ClaimEffect, NoWriteIsOld DEF UseAgent, TaskStep
<1>8. CASE AgentUsed(p)
  BY <1>2, <1>8, AgentUsedEffect DEF AgentUsed, TaskStep
<1>9. CASE TypingShown(p)
  BY <1>1, <1>2, <1>9, ReplyEffect, NoWriteIsOld DEF TypingShown, TaskStep
<1>10. CASE Served(p)
  BY <1>10, ServedCall DEF Inserted, TaskStep
<1>11. ASSUME NEW t \in Channels, ThreadCreated(p, t)
       PROVE  TaskStep(p)
  <2>1. StartConversation(p, current, t) \/ StartClaimedConversation(p, current, t)
    BY <1>11 DEF ThreadCreated
  <2>2. \A q \in Callers \ {p} : task'[q] = task[q]
    BY <1>1, <1>11 DEF ThreadCreated
  <2> QED
    BY <1>1, <2>1, <2>2, StartEffect, NoWriteIsOld DEF TaskStep
<1>12. CASE DeleteSession(p)
  <2>1. Others(p) /\ AllOld
    BY <1>1, <1>12, DiscardEffect DEF DeleteSession
  <2>2. \A q \in Callers \ {p} : task'[q] = task[q]
    BY <1>1, <1>12 DEF DeleteSession, End
  <2> QED
    BY <2>1, <2>2 DEF TaskStep
<1> QED
  BY <1>3, <1>4, <1>5, <1>6, <1>7, <1>8, <1>9, <1>10, <1>11, <1>12 DEF HandlerStep

LEMMA BeginningIsTaskStep ==
  ASSUME AdapterInv, NEW p \in Callers,
         \/ Tick(p)
         \/ \E ch \in Channels : Message(p, ch) \/ \E name \in Commands : Dispatch(p, name, ch)
  PROVE  TaskStep(p)
<1>1. Inv /\ task \in [Callers -> Task]
  BY DEF AdapterInv, AdapterTypes
<1>2. ASSUME NEW new, task' = [task EXCEPT ![p] = new]
      PROVE  \A q \in Callers \ {p} : task'[q] = task[q]
  BY <1>1, <1>2
<1>3. Others(p) /\ AllOld
  BY <1>1, NoCallKeeps, ClaimEffect, NoWriteIsOld DEF Tick, Message, Dispatch
<1>4. \A q \in Callers \ {p} : task'[q] = task[q]
  BY <1>2 DEF Tick, Message, Dispatch
<1> QED
  BY <1>3, <1>4 DEF TaskStep

\* The step of one task does not disturb the kickoff of another.
LEMMA OthersUndisturbed ==
  ASSUME AdapterInv, KickInv, NEW p \in Callers, TaskStep(p), Undisturbed(p)'
  PROVE  KickInv'
<1> SUFFICES ASSUME NEW q \in Callers, q # p PROVE Undisturbed(q)'
  BY DEF KickInv
<1>1. call'[q] = call[q] /\ task'[q] = task[q] /\ Undisturbed(q)
  BY DEF TaskStep, Others, KickInv
<1>2. ASSUME call[q].pc = "claimed", Active(stores[LiveStore]) = {}
      PROVE  Active(stores'[LiveStore]) = {}
  <2>1. call[p].pc = "idle"
    BY <1>2, OneInFlight DEF AdapterInv
  <2> QED
    BY <1>2, <2>1, StillNoneActive, ApplicationAssumption DEF TaskStep
<1> QED
  BY <1>1, <1>2 DEF Undisturbed

\* The kickoff checks before it takes the lease, and nothing else is one.
LEMMA BeginningUndisturbed ==
  ASSUME Stores = {LiveStore}, AdapterInv, KickInv, NEW p \in Callers,
         \/ Tick(p)
         \/ \E ch \in Channels : Message(p, ch) \/ \E name \in Commands : Dispatch(p, name, ch)
  PROVE  Undisturbed(p)'
<1>1. Inv /\ task \in [Callers -> Task] /\ current = LiveStore
  BY DEF AdapterInv, AdapterTypes
<1>2. ASSUME NEW new, task' = [task EXCEPT ![p] = new]
      PROVE  task'[p] = new
  BY <1>1, <1>2
<1>3. CASE Tick(p)
  <2>1. task'[p].pc = "createThread"
    <3> DEFINE new == [NoTask EXCEPT !.name = "kickoff", !.pc = "createThread"]
    <3>1. task' = [task EXCEPT ![p] = new] /\ new.pc = "createThread"
      BY <1>3 DEF Tick, NoTask
    <3> HIDE DEF new
    <3> QED
      BY <1>2, <3>1
  <2>2. call'[p].pc = "claimed" /\ call'[p].outcome = NULL /\ UNCHANGED stores
    BY <1>1, <1>3, ClaimEffect DEF Tick
  <2>3. Active(stores[LiveStore]) = {}
    BY <1>1, <1>3 DEF Tick
  <2> QED
    BY <2>1, <2>2, <2>3, OutcomeAssumption DEF Undisturbed, Outcomes, Active
<1>4. ASSUME NEW ch \in Channels, Message(p, ch)
      PROVE  task'[p].name # "kickoff"
  BY <1>2, <1>4 DEF Message, NoTask
<1>5. ASSUME NEW ch \in Channels, NEW name \in Commands, Dispatch(p, name, ch)
      PROVE  task'[p].name # "kickoff"
  <2> DEFINE new == [NoTask EXCEPT !.name = name, !.pc = "dispatched", !.channel = ch]
  <2>1. task' = [task EXCEPT ![p] = new] /\ new.name = name
    BY <1>5 DEF Dispatch, NoTask
  <2> HIDE DEF new
  <2> QED
    BY <1>2, <2>1 DEF Commands
<1> QED
  BY <1>3, <1>4, <1>5 DEF Undisturbed

\* The kickoff's own steps: a start refused for an open conversation would
\* have seen it when the kickoff checked.
LEMMA HandlerUndisturbed ==
  ASSUME Stores = {LiveStore}, AdapterInv, KickInv, NEW p \in Callers, HandlerStep(p)
  PROVE  Undisturbed(p)'
<1>1. /\ Inv /\ AdapterTypes /\ current = LiveStore /\ task \in [Callers -> Task]
      /\ task[p] \in Task /\ Undisturbed(p)
  BY DEF AdapterInv, AdapterTypes, KickInv
<1> SUFFICES ASSUME task'[p].name = "kickoff"
             PROVE  Undisturbed(p)'
  BY DEF Undisturbed
<1>2. ~End(p)
  BY <1>1, EndEffect DEF NoTask
<1>3. task[p].name = "kickoff"
  <2>1. \/ \E new \in {"deleteThread", "serving"} : \E t :
              task' = [task EXCEPT ![p].pc = new, ![p].thread = t]
        \/ \E pc : Go(p, pc)
        \/ UNCHANGED task
    BY <1>2 DEF HandlerStep, AskNow, PermissionsKnown, ThreadCreated, ThreadNotCreated,
       StartEnded, DeletionEnded, Done, DoneEnded, ArchiveEnded, DeleteSession, UseAgent,
       AgentUsed, TypingShown, MessageEnded, Served, adapterVars
  <2>2. ASSUME NEW new, NEW t, task' = [task EXCEPT ![p].pc = new, ![p].thread = t]
        PROVE  task'[p].name = task[p].name
    <3>1. task'[p] = [task[p] EXCEPT !.pc = new, !.thread = t]
      BY <1>1, <2>2
    <3> QED
      BY <1>1, <3>1 DEF Task
  <2> QED
    BY <1>1, <2>1, <2>2, GoEffect
<1>4. \/ \E t \in Channels : ThreadCreated(p, t)
      \/ StartEnded(p)
      \/ Served(p)
  BY <1>1, <1>2, <1>3 DEF HandlerStep, AskNow, PermissionsKnown, ThreadNotCreated,
     DeletionEnded, Done, DoneEnded, ArchiveEnded, DeleteSession, UseAgent,
     AgentUsed, TypingShown, MessageEnded, Awaiting, Running, Undisturbed
<1>5. ASSUME NEW t \in Channels, ThreadCreated(p, t)
      PROVE  Undisturbed(p)'
  <2>1. /\ StartClaimedConversation(p, LiveStore, t) /\ task[p].pc = "createThread"
        /\ task' = [task EXCEPT ![p].pc = "serving", ![p].thread = t]
    BY <1>1, <1>3, <1>5 DEF ThreadCreated, Awaiting
  <2>2. task'[p].pc = "serving"
    <3>1. task'[p] = [task[p] EXCEPT !.pc = "serving", !.thread = t]
      BY <1>1, <2>1
    <3> QED
      BY <1>1, <3>1 DEF Task
  <2>3. Active(stores[LiveStore]) = {} /\ StartRefusal(stores[LiveStore]) = {}
    BY <1>1, <1>3, <2>1 DEF Undisturbed, StartRefusal
  <2>4. call'[p].outcome # "alreadyOpen"
    <3>1. CASE /\ call'[p].pc \in {"idle", "claimed"}
               /\ call'[p].outcome \in StartRefusal(stores[LiveStore]) \cup {"escaped", "busy"}
      BY <2>3, <3>1
    <3>2. CASE call'[p].pc = "newSession"
      <4>1. call[p] \in Call /\ call \in [Callers -> Call] /\ call[p].outcome = NULL
        BY <1>1, <2>1 DEF Inv, TypeOK, StartClaimedConversation
      <4>2. \/ \E out : Return(p, out)
            \/ call' = [call EXCEPT ![p].pc = "newSession", ![p].store = LiveStore,
                                    ![p].channel = t]
        BY <2>1 DEF StartClaimedConversation
      <4>3. ~\E out : Return(p, out)
        BY <1>1, <3>2, ReturnEffect
      <4>4. call'[p].outcome = call[p].outcome
        BY <4>1, <4>2, <4>3 DEF Call
      <4> QED
        BY <4>1, <4>4, OutcomeAssumption DEF Outcomes
    <3> QED
      BY <1>1, <2>1, <3>1, <3>2, StartEffect, ApplicationAssumption
  <2> QED
    BY <2>2, <2>4 DEF Undisturbed
<1>6. CASE StartEnded(p)
  <2>1. Go(p, "deleteThread") /\ Caught(p) /\ call[p].pc \in {"idle", "claimed"}
    BY <1>2, <1>6 DEF StartEnded
  <2>2. task'[p].pc = "deleteThread" /\ call'[p].outcome = NULL
    BY <1>1, <2>1, GoEffect, CaughtKeeps
  <2> QED
    BY <2>2, OutcomeAssumption DEF Undisturbed, Outcomes
<1>7. CASE Served(p)
  <2>1. UNCHANGED task /\ (GoesOn(p) \/ Over(p)) /\ task[p].pc = "serving"
    BY <1>7, ServedCall DEF Served, Awaiting
  <2>2. call'[p].outcome # "alreadyOpen"
    BY <1>1, <1>3, <2>1 DEF Undisturbed, GoesOn, Over, LateOutcomes, Failures
  <2> QED
    BY <2>1, <2>2 DEF Undisturbed
<1> QED
  BY <1>4, <1>5, <1>6, <1>7

\* What happens around the tasks brings no conversation to life.
LEMMA OutsideUndisturbed ==
  ASSUME AdapterInv, KickInv,
         \/ \E t \in Channels : DelayedDeletion(t)
         \/ \E s \in Stores : Testing(s)
         \/ PlanCommand
         \/ (PiRestart \/ TimePasses) /\ UNCHANGED adapterVars
         \/ UNCHANGED allVars
  PROVE  KickInv'
<1>1. UNCHANGED <<call, task>> /\ AllOld
  <2>1. Inv /\ current \in Stores
    BY DEF AdapterInv, AdapterTypes
  <2> QED
    BY <2>1, PlanEffect, NoWriteIsOld
       DEF DelayedDeletion, Testing, PlanCommand, PiRestart, TimePasses, allVars, adapterVars, vars
<1>2. ASSUME NEW q \in Callers PROVE Undisturbed(q)'
  BY <1>1, StillNoneActive, ApplicationAssumption DEF KickInv, Undisturbed
<1> QED
  BY <1>2 DEF KickInv

LEMMA KickStep ==
  ASSUME Stores = {LiveStore}, AdapterInv, KickInv, [AdapterNext]_allVars
  PROVE  KickInv'
<1>1. CASE AdapterRestart
  BY <1>1 DEF AdapterRestart, KickInv, Undisturbed, NoTask
<1> QED
  BY <1>1, HandlerIsTaskStep, BeginningIsTaskStep, HandlerUndisturbed, BeginningUndisturbed,
     OthersUndisturbed, OutsideUndisturbed DEF AdapterNext

\* With one store, the kickoff never meets a conversation it did not see when it
\* checked, however long the thread it awaited took.
THEOREM KickoffCorrect ==
  ASSUME Stores = {LiveStore}
  PROVE  AdapterSpec => []KickoffFindsNoConversation
<1>1. AdapterInv /\ KickInv /\ [AdapterNext]_allVars => KickInv'
  BY KickStep
<1>2. AdapterInit => KickInv
  BY DEF AdapterInit, KickInv, Undisturbed, NoTask
<1>3. KickInv => KickoffFindsNoConversation
  BY DEF KickInv, Undisturbed, KickoffFindsNoConversation
<1> QED
  BY <1>1, <1>2, <1>3, AdapterCoherent, PTL DEF AdapterSpec

-----------------------------------------------------------------------------
(* What the adapter's steps are to the application, and the lifecycle of   *)
(* conversations they refine.                                              *)

\* Each step of a task is one of the application, deals with the outcome of a
\* call, or uses Pi beside the application.
LEMMA TaskCalls ==
  ASSUME AdapterInv, NEW p \in Callers,
         \/ HandlerStep(p) \/ Tick(p)
         \/ \E ch \in Channels : Message(p, ch) \/ \E name \in Commands : Dispatch(p, name, ch)
  PROVE  Request(p) \/ Resumed(p) \/ Caught(p) \/ AgentUsed(p) \/ UNCHANGED vars
<1>1. current \in Stores /\ task[p].channel \in Channels /\ task[p].store \in Stores
  BY DEF AdapterInv, AdapterTypes, Task
<1>2. CASE HandlerStep(p)
  <2>1. CASE \E t \in Channels : ThreadCreated(p, t)
    BY <1>1, <2>1 DEF ThreadCreated, Request
  <2>2. CASE Done(p) \/ DeleteSession(p) \/ TypingShown(p) \/ UseAgent(p)
    BY <1>1, <2>2 DEF Done, DeleteSession, TypingShown, UseAgent, Request
  <2>3. CASE DeletionEnded(p) \/ \E fault : ThreadNotCreated(p, fault)
    BY <2>3 DEF DeletionEnded, ThreadNotCreated, Resumed
  <2>4. CASE StartEnded(p) \/ DoneEnded(p) \/ MessageEnded(p) \/ Served(p)
    BY <2>4 DEF StartEnded, DoneEnded, MessageEnded, Served
  <2>5. CASE AskNow(p) \/ PermissionsKnown(p) \/ ArchiveEnded(p)
    BY <2>5 DEF AskNow, PermissionsKnown, ArchiveEnded
  <2> QED
    BY <1>2, <2>1, <2>2, <2>3, <2>4, <2>5 DEF HandlerStep
<1>3. CASE Tick(p)
  BY <1>3 DEF Tick, Request
<1>4. CASE \E ch \in Channels : Message(p, ch) \/ \E name \in Commands : Dispatch(p, name, ch)
  BY <1>4 DEF Message, Dispatch
<1> QED
  BY <1>2, <1>3, <1>4

\* What happens around the tasks is a step of the application as well, or none.
LEMMA OutsideIsNext ==
  ASSUME \/ \E t \in Channels : DelayedDeletion(t)
         \/ \E s \in Stores : Testing(s)
         \/ PlanCommand
         \/ AdapterRestart
         \/ (PiRestart \/ TimePasses) /\ UNCHANGED adapterVars
         \/ UNCHANGED allVars,
         AdapterTypes
  PROVE  [Next]_vars
  BY DEF DelayedDeletion, Testing, PlanCommand, AdapterRestart, allVars, Next, AdapterTypes

\* Recording what /ask-test got from Pi moves no conversation.
LEMMA AgentUsedMovesNoRow ==
  ASSUME AdapterInv, NEW p \in Callers, AgentUsed(p), NEW s \in Stores
  PROVE  stores'[s].conv = stores[s].conv
<1> DEFINE d == stores[current]
<1>1. /\ current \in Stores /\ StoreInv(d, clock) /\ clock \in Nat
      /\ stores \in [Stores -> Database]
      /\ pi.session \in Sessions \cup {NULL}
  BY ClockIsNat DEF AdapterInv, AdapterTypes, Inv, Coherent, TypeOK
<1>2. ASSUME NEW e, stores' = [stores EXCEPT ![current] = e], e.conv = d.conv
      PROVE  stores'[s].conv = stores[s].conv
  BY <1>1, <1>2
<1>3. ASSUME NEW session \in IF pi.session = NULL THEN Unused ELSE {pi.session},
             NEW r \in Attempt(d, TRUE, RecordSuccess(d, session))
      PROVE  r.db.conv = d.conv
  <2>1. session \in Sessions \cup {NULL}
    BY <1>1, <1>3 DEF Unused
  <2>2. r \in Attempt(d, TRUE, RecordSuccess(d, session))
    BY <1>3
  <2> HIDE DEF d
  <2> QED
    BY <1>1, <2>1, <2>2, SuccessEnds, ZenonT(60)
<1>4. ASSUME NEW fault, NEW r \in IF fault = "broken" THEN {Result(d, "escaped")}
                                  ELSE RecordAgentFailure(d, fault)
      PROVE  r.db.conv = d.conv
  <2>1. CASE fault = "broken"
    BY <1>4, <2>1 DEF Result
  <2>2. CASE fault # "broken"
    BY <1>1, <1>4, <2>2, AgentFailureEnds DEF Kept
  <2> QED
    BY <2>1, <2>2
<1> HIDE DEF d
<1>5. CASE UNCHANGED stores
  BY <1>5
<1>6. ASSUME NEW r, stores' = [stores EXCEPT ![current] = r.db], r.db.conv = d.conv
      PROVE  stores'[s].conv = stores[s].conv
  BY <1>2, <1>6
<1> QED
  BY <1>3, <1>4, <1>5, <1>6 DEF AgentUsed, d

\* No step of the adapter moves the row of more than one conversation.
LEMMA AdapterMovesOneRow ==
  ASSUME AdapterInv, [AdapterNext]_allVars, NEW s \in Stores
  PROVE  \/ stores'[s].conv = stores[s].conv
         \/ \E c \in Convs : RowStep(stores[s], stores'[s], c)
<1>1. Inv /\ AdapterTypes
  BY DEF AdapterInv
<1>2. ASSUME NEW p \in Callers,
             \/ HandlerStep(p) \/ Tick(p)
             \/ \E ch \in Channels : Message(p, ch) \/ \E name \in Commands : Dispatch(p, name, ch)
      PROVE  \/ stores'[s].conv = stores[s].conv
             \/ \E c \in Convs : RowStep(stores[s], stores'[s], c)
  <2>1. CASE Request(p) \/ Resumed(p)
    BY <1>1, <2>1, RequestIsOneStep, ResumedIsOneStep DEF OneStep
  <2>2. CASE Caught(p) \/ UNCHANGED vars
    BY <2>2 DEF Caught, vars
  <2>3. CASE AgentUsed(p)
    BY <2>3, AgentUsedMovesNoRow
  <2> QED
    BY <1>2, <2>1, <2>2, <2>3, TaskCalls
<1>3. CASE [Next]_vars
  BY <1>1, <1>3, NextIsOneStep DEF OneStep
<1> QED
  BY <1>1, <1>2, <1>3, OutsideIsNext DEF AdapterNext

\* Nor is any step more than one of the lifecycle of a store's conversations.
LEMMA AdapterIsLifecycle ==
  ASSUME AdapterInv, [AdapterNext]_allVars, NEW s \in Stores
  PROVE  [Lifecycle(s)!Next]_(Lifecycle(s)!vars)
BY AdapterMovesOneRow, RowStepOfLifecycle DEF AdapterInv

\* Behind the hub, too, the conversations of every store live by
\* ConversationLifecycle: no command, message, kickoff or /testing in any order
\* makes more of a conversation than one step of it.
THEOREM AdapterImplementsLifecycle == AdapterSpec => ImplementsLifecycle
<1>1. AdapterInit => \A s \in Stores : Lifecycle(s)!Init
  BY InitOfLifecycle DEF AdapterInit
<1>2. AdapterInv /\ [AdapterNext]_allVars =>
        [\A s \in Stores : [Lifecycle(s)!Next]_(Lifecycle(s)!vars)]_vars
  BY AdapterIsLifecycle
<1> QED
  BY <1>1, <1>2, AdapterCoherent, PTL DEF AdapterSpec, ImplementsLifecycle

-----------------------------------------------------------------------------
(* FailedStartLeavesNothing and FailedStartDeletesItsThread.               *)

\* A suspended call of a task ends with one of Failures only when its own await
\* ends.
LEMMA SuspendedTaskStays ==
  ASSUME AdapterInv, [AdapterNext]_allVars, NEW p \in Callers, call[p].pc \in Awaits,
         ~Resumed(p)
  PROVE  call'[p].outcome \notin Failures
<1>1. /\ Inv /\ task[p].pc = "serving" /\ call[p].pc \notin {"idle", "claimed"}
      /\ AdapterTypes
  BY DEF AdapterInv, CallFits, Awaits, StartAwaits, ReplyAwaits, CompleteAwaits
<1>2. call[p].outcome = NULL /\ NULL \notin Failures
  BY <1>1, OutcomeAssumption DEF Inv, CallsCoherent, Outcomes
<1>3. CASE call'[p] = call[p]
  BY <1>2, <1>3
<1>4. ASSUME NEW q \in Callers, q # p,
             \/ HandlerStep(q) \/ Tick(q)
             \/ \E ch \in Channels : Message(q, ch) \/ \E name \in Commands : Dispatch(q, name, ch)
      PROVE  call'[p] = call[p]
  BY <1>4, HandlerIsTaskStep, BeginningIsTaskStep DEF TaskStep, Others
<1>5. ~HandlerStep(p)
  BY <1>1 DEF HandlerStep, AskNow, PermissionsKnown, ThreadCreated, ThreadNotCreated,
     StartEnded, DeletionEnded, Done, DoneEnded, ArchiveEnded, DeleteSession, UseAgent,
     AgentUsed, TypingShown, MessageEnded, Served, Awaiting, Running
<1>6. /\ ~Tick(p)
      /\ ~\E ch \in Channels : Message(p, ch) \/ \E name \in Commands : Dispatch(p, name, ch)
  BY <1>1 DEF Tick, Message, Dispatch, Awaiting
<1>7. CASE AdapterRestart
  BY <1>2, <1>7 DEF AdapterRestart, Restart, Idle
<1>8. CASE \/ \E t \in Channels : DelayedDeletion(t)
           \/ \E s \in Stores : Testing(s)
           \/ PlanCommand
           \/ (PiRestart \/ TimePasses) /\ UNCHANGED adapterVars
           \/ UNCHANGED allVars
  BY <1>3, <1>8 DEF DelayedDeletion, Testing, PlanCommand, ChangePlan, PiRestart, TimePasses,
                    allVars, vars
<1> QED
  BY <1>3, <1>4, <1>5, <1>6, <1>7, <1>8 DEF AdapterNext

\* A start that reports a failure to /ask-now or to the kickoff leaves no
\* conversation, unless the read-back of a committed insertion may raise.
THEOREM FailedStartOfTask ==
  ASSUME "late" \notin StoreFaults
  PROVE  AdapterSpec => FailedStartLeavesNothing
<1>1. ASSUME AdapterInv, [AdapterNext]_allVars
      PROVE  \A p \in Callers :
               /\ call[p].pc \in StartAwaits
               /\ call'[p].outcome \in Failures
               => Active(stores'[call[p].store]) = {}
  <2> SUFFICES ASSUME NEW p \in Callers,
                      call[p].pc \in StartAwaits,
                      call'[p].outcome \in Failures
               PROVE  Active(stores'[call[p].store]) = {}
    OBVIOUS
  <2>1. call[p].pc \in Awaits /\ Inv
    BY <1>1 DEF Awaits, AdapterInv
  <2>2. Resumed(p)
    BY <1>1, <2>1, SuspendedTaskStays
  <2> QED
    BY <2>1, <2>2, ResumedStart
<1> QED
  BY <1>1, AdapterCoherent, PTL DEF AdapterSpec, FailedStartLeavesNothing

\* What a start knows of its thread, and who archives one.
TaskKnows(p) ==
  /\ task[p].name \in Starts /\ task[p].pc \in {"dispatched", "permissions", "createThread"} =>
       task[p].thread = NULL
  /\ task[p].pc = "archive" => task[p].name = "done"

TasksKnow == \A p \in Callers : TaskKnows(p)

\* Nothing the adapter does beside the application raises an unknown exception.
LEMMA AdapterEscapesStep ==
  ASSUME NothingUnknown, AdapterInv, NothingEscapes, [AdapterNext]_allVars
  PROVE  NothingEscapes'
<1>1. Inv /\ AdapterTypes /\ NULL # "escaped" /\ call \in [Callers -> Call]
  BY OutcomeAssumption DEF AdapterInv, Inv, TypeOK, Outcomes
<1>2. CASE [Next]_vars
  BY <1>1, <1>2, EscapesStep
<1>3. ASSUME NEW p \in Callers, Caught(p) \/ AgentUsed(p)
      PROVE  NothingEscapes'
  <2>1. /\ \A q \in Callers \ {p} : call'[q] = call[q]
        /\ call'[p].outcome = NULL
    <3>1. CASE AgentUsed(p)
      BY <1>1, <3>1 DEF AgentUsed, Idle
    <3>2. CASE Caught(p)
      <4>1. call'[p] = [call[p] EXCEPT !.outcome = NULL] /\ call[p] \in Call
        BY <1>1, <3>2 DEF Caught
      <4>2. call'[p].outcome = NULL
        BY <4>1 DEF Call
      <4> QED
        BY <1>1, <3>2, <4>2 DEF Caught
    <3> QED
      BY <1>3, <3>1, <3>2
  <2> QED
    BY <1>1, <2>1 DEF NothingEscapes
<1>4. ASSUME NEW p \in Callers,
             \/ HandlerStep(p) \/ Tick(p)
             \/ \E ch \in Channels : Message(p, ch) \/ \E name \in Commands : Dispatch(p, name, ch)
      PROVE  NothingEscapes'
  BY <1>2, <1>3, <1>4, TaskCalls DEF Next
<1> QED
  BY <1>1, <1>2, <1>4, OutsideIsNext DEF AdapterNext

\* A start gets its thread when it is created, not before.
LEMMA TaskKnowsStep ==
  ASSUME AdapterInv, NEW p \in Callers, TaskKnows(p),
         \/ HandlerStep(p) \/ Tick(p)
         \/ \E ch \in Channels : Message(p, ch) \/ \E name \in Commands : Dispatch(p, name, ch)
  PROVE  TaskKnows(p)'
<1>1. AdapterTypes /\ task \in [Callers -> Task] /\ task[p] \in Task
  BY DEF AdapterInv, AdapterTypes
<1>2. CASE task'[p] = NoTask
  BY <1>2 DEF NoTask, TaskKnows
<1>3. CASE UNCHANGED task
  BY <1>3 DEF TaskKnows
<1>4. ASSUME NEW pc \in {"serving", "deleteThread", "asking"}, Go(p, pc)
      PROVE  TaskKnows(p)'
  BY <1>1, <1>4, GoEffect DEF TaskKnows
<1>5. ASSUME NEW pc \in {"serving", "deleteThread"}, NEW t,
             task' = [task EXCEPT ![p].pc = pc, ![p].thread = t]
      PROVE  TaskKnows(p)'
  <2>1. task'[p] = [task[p] EXCEPT !.pc = pc, !.thread = t]
    BY <1>1, <1>5
  <2>2. task'[p].pc = pc
    BY <1>1, <2>1 DEF Task
  <2> QED
    BY <1>5, <2>2 DEF TaskKnows
<1>6. ASSUME NEW new, task' = [task EXCEPT ![p] = new],
             new.thread = NULL, new.pc # "archive"
      PROVE  TaskKnows(p)'
  BY <1>1, <1>6 DEF TaskKnows
<1>7. CASE AskNow(p)
  <2>1. Go(p, "permissions") /\ task[p].pc = "dispatched" /\ task[p].name = "ask_now"
    BY <1>7 DEF AskNow, Running, Awaiting
  <2> QED
    BY <1>1, <2>1, GoEffect DEF TaskKnows, Starts
<1>8. CASE PermissionsKnown(p) /\ Go(p, "createThread")
  <2>1. task[p].pc = "permissions" /\ task[p].name \in Starts
    BY <1>8 DEF PermissionsKnown, Awaiting, AdapterInv, NamesFit
  <2> QED
    BY <1>1, <1>8, <2>1, GoEffect DEF TaskKnows
<1>9. CASE DoneEnded(p) /\ Go(p, "archive")
  <2>1. task[p].name = "done"
    BY <1>9 DEF DoneEnded
  <2> QED
    BY <1>1, <1>9, <2>1, GoEffect DEF TaskKnows
<1>10. CASE HandlerStep(p)
  <2>1. CASE End(p)
    BY <1>1, <1>2, <2>1, EndEffect
  <2> QED
    BY <1>3, <1>4, <1>5, <1>7, <1>8, <1>9, <1>10, <2>1
       DEF HandlerStep, PermissionsKnown, ThreadCreated, ThreadNotCreated, StartEnded,
           DeletionEnded, Done, DoneEnded, ArchiveEnded, DeleteSession, UseAgent, AgentUsed,
           TypingShown, MessageEnded, Served, adapterVars
<1>11. CASE Tick(p)
  <2> DEFINE new == [NoTask EXCEPT !.name = "kickoff", !.pc = "createThread"]
  <2>1. task' = [task EXCEPT ![p] = new] /\ new.thread = NULL /\ new.pc # "archive"
    BY <1>11 DEF Tick, NoTask
  <2> HIDE DEF new
  <2> QED
    BY <1>6, <2>1
<1>12. ASSUME NEW ch \in Channels, Message(p, ch)
       PROVE  TaskKnows(p)'
  <2> DEFINE new == [NoTask EXCEPT !.name = "message", !.pc = "typing",
                                   !.store = current, !.channel = ch]
  <2>1. task' = [task EXCEPT ![p] = new] /\ new.thread = NULL /\ new.pc # "archive"
    BY <1>12 DEF Message, NoTask
  <2> HIDE DEF new
  <2> QED
    BY <1>6, <2>1
<1>13. ASSUME NEW ch \in Channels, NEW name \in Commands, Dispatch(p, name, ch)
       PROVE  TaskKnows(p)'
  <2> DEFINE new == [NoTask EXCEPT !.name = name, !.pc = "dispatched", !.channel = ch]
  <2>1. task' = [task EXCEPT ![p] = new] /\ new.thread = NULL /\ new.pc # "archive"
    BY <1>13 DEF Dispatch, NoTask
  <2> HIDE DEF new
  <2> QED
    BY <1>6, <2>1
<1> QED
  BY <1>10, <1>11, <1>12, <1>13

LEMMA TasksKnowStep ==
  ASSUME AdapterInv, TasksKnow, [AdapterNext]_allVars
  PROVE  TasksKnow'
<1>1. ASSUME NEW p \in Callers PROVE TaskKnows(p)'
  <2>1. TaskKnows(p)
    BY DEF TasksKnow
  <2>2. CASE task'[p] = task[p]
    BY <2>1, <2>2 DEF TaskKnows
  <2>3. ASSUME NEW q \in Callers,
               \/ HandlerStep(q) \/ Tick(q)
               \/ \E ch \in Channels : Message(q, ch) \/ \E name \in Commands : Dispatch(q, name, ch)
        PROVE  TaskKnows(p)'
    <3>1. CASE q = p
      BY <2>1, <2>3, <3>1, TaskKnowsStep
    <3>2. CASE q # p
      BY <2>2, <2>3, <3>2, HandlerIsTaskStep, BeginningIsTaskStep DEF TaskStep
    <3> QED
      BY <3>1, <3>2
  <2>4. CASE AdapterRestart
    BY <2>4 DEF AdapterRestart, TaskKnows, NoTask
  <2>5. CASE \/ \E t \in Channels : DelayedDeletion(t)
             \/ \E s \in Stores : Testing(s)
             \/ PlanCommand
             \/ (PiRestart \/ TimePasses) /\ UNCHANGED adapterVars
             \/ UNCHANGED allVars
    BY <2>2, <2>5 DEF DelayedDeletion, Testing, PlanCommand, allVars, adapterVars
  <2> QED
    BY <2>3, <2>4, <2>5 DEF AdapterNext
<1> QED
  BY <1>1 DEF TasksKnow

\* Why /ask-now may leave a thread behind: it does not list the exception.
Unlisted(p) == task[p].name = "ask_now" /\ call[p].outcome = "escaped"

\* The handler of a start that failed, over: its thread is gone.
LEMMA OverWithoutThread ==
  ASSUME ThreadFaults = {}, AdapterInv, TasksKnow, [AdapterNext]_allVars, NEW p \in Callers,
         task[p].name \in Starts, task[p].thread # NULL, task'[p] = NoTask,
         call[p].outcome # "ok", ~AdapterRestart, ~Unlisted(p)
  PROVE  task[p].thread \notin threads'
<1>1. /\ AdapterTypes /\ task \in [Callers -> Task] /\ task[p] \in Task
      /\ TaskKnows(p) /\ NamesFit(p)
      /\ task'[p] # task[p] /\ task'[p].pc = "idle"
  BY DEF AdapterInv, AdapterTypes, TasksKnow, NoTask, Starts
<1>2. ASSUME NEW pc, Go(p, pc) PROVE pc = "idle"
  BY <1>1, <1>2, GoEffect
<1>3. PICK q \in Callers :
        \/ HandlerStep(q) \/ Tick(q)
        \/ \E ch \in Channels : Message(q, ch) \/ \E name \in Commands : Dispatch(q, name, ch)
  BY <1>1 DEF AdapterNext, DelayedDeletion, Testing, PlanCommand, allVars, adapterVars
<1>4. q = p
  BY <1>1, <1>3, HandlerIsTaskStep, BeginningIsTaskStep DEF TaskStep
<1>5. /\ ~Tick(p)
      /\ ~\E ch \in Channels : Message(p, ch) \/ \E name \in Commands : Dispatch(p, name, ch)
  <2>1. ASSUME NEW new, task' = [task EXCEPT ![p] = new]
        PROVE  new.pc = "idle"
    BY <1>1, <2>1
  <2>2. ASSUME Tick(p) PROVE FALSE
    <3> DEFINE new == [NoTask EXCEPT !.name = "kickoff", !.pc = "createThread"]
    <3>1. task' = [task EXCEPT ![p] = new] /\ new.pc # "idle"
      BY <2>2 DEF Tick, NoTask
    <3> HIDE DEF new
    <3> QED
      BY <2>1, <3>1
  <2>3. ASSUME NEW ch \in Channels, Message(p, ch) PROVE FALSE
    <3> DEFINE new == [NoTask EXCEPT !.name = "message", !.pc = "typing",
                                     !.store = current, !.channel = ch]
    <3>1. task' = [task EXCEPT ![p] = new] /\ new.pc # "idle"
      BY <2>3 DEF Message, NoTask
    <3> HIDE DEF new
    <3> QED
      BY <2>1, <3>1
  <2>4. ASSUME NEW ch \in Channels, NEW name \in Commands, Dispatch(p, name, ch) PROVE FALSE
    <3> DEFINE new == [NoTask EXCEPT !.name = name, !.pc = "dispatched", !.channel = ch]
    <3>1. task' = [task EXCEPT ![p] = new] /\ new.pc # "idle"
      BY <2>4 DEF Dispatch, NoTask
    <3> HIDE DEF new
    <3> QED
      BY <2>1, <3>1
  <2> QED
    BY <2>2, <2>3, <2>4
<1>6. ASSUME NEW t, ThreadCreated(p, t) PROVE FALSE
  <2>1. task'[p] = [task[p] EXCEPT !.pc = "serving", !.thread = t]
    BY <1>1, <1>6 DEF ThreadCreated
  <2>2. task'[p].pc = "serving"
    BY <1>1, <2>1 DEF Task
  <2> QED
    BY <1>1, <2>2
<1>7. HandlerStep(p) /\ ~Served(p)
  BY <1>1, <1>3, <1>4, <1>5 DEF Served, adapterVars
<1>8. /\ ~AskNow(p) /\ ~PermissionsKnown(p) /\ ~TypingShown(p)
      /\ ~\E fault : ThreadNotCreated(p, fault)
  BY <1>1, <1>2 DEF AskNow, PermissionsKnown, ThreadNotCreated, TypingShown, TaskKnows, Awaiting, NamesFit, Starts
<1>9. ~Done(p) /\ ~DoneEnded(p) /\ ~ArchiveEnded(p) /\ ~DeleteSession(p) /\ ~MessageEnded(p)
  BY <1>1 DEF Done, DoneEnded, ArchiveEnded, DeleteSession, MessageEnded, Running, Awaiting,
              TaskKnows, Starts
<1>10. ~UseAgent(p) /\ ~AgentUsed(p)
  BY <1>1 DEF UseAgent, AgentUsed, Running, Starts
<1>11. ~StartEnded(p)
  BY <1>1, <1>2 DEF StartEnded, KeepsThread, Unlisted
<1>12. DeletionEnded(p)
  BY <1>6, <1>7, <1>8, <1>9, <1>10, <1>11 DEF HandlerStep
<1> QED
  BY <1>12 DEF DeletionEnded

\* The finding about escaping failures, as far as it goes.
ThreadLeftOnlyIfUnlisted ==
  [][\A p \in Callers :
       /\ task[p].name \in Starts /\ task[p].thread # NULL
       /\ task'[p] = NoTask
       /\ call[p].outcome # "ok"
       /\ ~AdapterRestart
       /\ ~Unlisted(p)
       => task[p].thread \notin threads']_allVars

LEMMA TasksKnowAlways == AdapterSpec => []TasksKnow
<1>1. AdapterInit => TasksKnow
  BY DEF AdapterInit, TasksKnow, TaskKnows, NoTask
<1>2. AdapterInv /\ TasksKnow /\ [AdapterNext]_allVars => TasksKnow'
  BY TasksKnowStep
<1> QED
  BY <1>1, <1>2, AdapterCoherent, PTL DEF AdapterSpec

\* When the hub deletes a thread it is asked to delete, then whatever else fails
\* the kickoff has deleted its thread by the time a failed start is over; so has
\* /ask-now, unless the exception is one it does not list.
THEOREM ThreadLeftBehind ==
  ASSUME ThreadFaults = {}
  PROVE  AdapterSpec => ThreadLeftOnlyIfUnlisted
<1>1. ASSUME AdapterInv, TasksKnow, [AdapterNext]_allVars
      PROVE  \A p \in Callers :
               /\ task[p].name \in Starts /\ task[p].thread # NULL
               /\ task'[p] = NoTask
               /\ call[p].outcome # "ok"
               /\ ~AdapterRestart
               /\ ~Unlisted(p)
               => task[p].thread \notin threads'
  BY <1>1, OverWithoutThread
<1> QED
  BY <1>1, TasksKnowAlways, AdapterCoherent, PTL DEF AdapterSpec, ThreadLeftOnlyIfUnlisted

\* When, besides, every failure is of a kind the application knows, /ask-now
\* lists them all: a start that failed has deleted its thread by the time its
\* handler is over.
THEOREM FailedStartThreadGone ==
  ASSUME ThreadFaults = {}, NothingUnknown
  PROVE  AdapterSpec => FailedStartDeletesItsThread
<1>1. AdapterInit => NothingEscapes
  BY EscapesInit DEF AdapterInit
<1>2. AdapterInv /\ NothingEscapes /\ [AdapterNext]_allVars => NothingEscapes'
  BY AdapterEscapesStep
<1>3. ASSUME AdapterInv, TasksKnow, NothingEscapes, [AdapterNext]_allVars
      PROVE  \A p \in Callers :
               /\ task[p].name \in {"ask_now", "kickoff"} /\ task[p].thread # NULL
               /\ task'[p] = NoTask
               /\ call[p].outcome # "ok"
               /\ ~AdapterRestart
               => task[p].thread \notin threads'
  BY <1>3, OverWithoutThread DEF Starts, Unlisted, NothingEscapes
<1> QED
  BY <1>1, <1>2, <1>3, TasksKnowAlways, AdapterCoherent, PTL
     DEF AdapterSpec, FailedStartDeletesItsThread

-----------------------------------------------------------------------------
(* The lease among the adapter's tasks.                                    *)

\* A task that is over holds no lease; the kickoff holds it from its check to
\* the end of its cleanup.
TasksHoldLease ==
  \A p \in Callers :
    /\ task[p].pc = "idle" => gate # p
    /\ task[p].name = "kickoff" /\ task[p].pc \in {"createThread", "deleteThread"} => gate = p

\* A lease that was claimed belongs to the kickoff or to a use of Pi.  The
\* kickoff's call runs under it, is over with a failure to clean up after, or
\* is over and well: it then has released the lease itself.
ClaimFits(p) ==
  /\ call[p].pc = "claimed" =>
       /\ call[p].claimed /\ call[p].outcome # "ok"
       /\ task[p].pc = "asking" \/ task[p].name = "kickoff"
  /\ call[p].pc \in Awaits => (call[p].claimed <=> task[p].name = "kickoff")
  /\ task[p].name = "kickoff" =>
       /\ task[p].pc \in {"createThread", "serving", "deleteThread"}
       /\ task[p].pc \in {"createThread", "deleteThread"} => call[p].pc = "claimed"
       /\ call[p].pc = "idle" => call[p].outcome = "ok"

ClaimInv == \A p \in Callers : ClaimFits(p)

\* How a call under a claimed lease ends, and one that took its own.
LEMMA ReturnClaims ==
  ASSUME Inv, NEW p \in Callers, NEW out, Return(p, out)
  PROVE  \/ /\ call[p].claimed /\ call'[p].pc = "claimed"
            /\ call'[p].claimed /\ call'[p].outcome # "ok"
         \/ /\ call'[p].pc = "idle"
            /\ call[p].claimed => call'[p].outcome = "ok"
<1>1. call[p] \in Call /\ call \in [Callers -> Call]
  BY DEF Inv, TypeOK
<1>2. CASE call[p].claimed /\ out # "ok"
  <2> DEFINE new == [call[p] EXCEPT !.pc = "claimed", !.outcome = out]
  <2>1. new.pc = "claimed" /\ new.outcome = out /\ new.claimed = call[p].claimed
    BY <1>1 DEF Call
  <2>2. call' = [call EXCEPT ![p] = new]
    BY <1>1, <1>2 DEF Return, Call
  <2> HIDE DEF new
  <2>3. call'[p] = new
    BY <2>2, CallReplaced
  <2> QED
    BY <1>2, <2>1, <2>3
<1>3. CASE ~(call[p].claimed /\ out # "ok")
  <2>1. call' = [call EXCEPT ![p] = [Idle EXCEPT !.outcome = out]]
    BY <1>3 DEF Return
  <2>2. call'[p].pc = "idle" /\ call'[p].outcome = out
    BY <2>1, OutcomeEffect
  <2> QED
    BY <1>3, <2>2
<1> QED
  BY <1>2, <1>3

LEMMA AwaitClaims ==
  ASSUME Inv, NEW p \in Callers, call[p].pc \in Awaits, Resumed(p)
  PROVE  \/ call'[p].pc \in Awaits /\ call'[p].claimed = call[p].claimed
         \/ /\ call[p].claimed /\ call'[p].pc = "claimed"
            /\ call'[p].claimed /\ call'[p].outcome # "ok"
         \/ /\ call'[p].pc = "idle"
            /\ call[p].claimed => call'[p].outcome = "ok"
<1>1. \E results, next : Proceed(p, results, next) /\ next \in Awaits \cup {"idle"}
  BY DEF Resumed, NewSessionCreated, PromptAnswered, AgentFailed, QuestionSent, ReplySent,
         CardSent, DeliveryFailed, ReleaseClaim, Awaits, StartAwaits, ReplyAwaits, CompleteAwaits
<1>2. PICK results, next : Proceed(p, results, next) /\ next \in Awaits \cup {"idle"}
  BY <1>1
<1>3. PICK r \in results :
        \/ /\ r.out = "ok" /\ next # "idle"
           /\ call' = [call EXCEPT ![p].pc = next] /\ gate' = gate
        \/ (r.out # "ok" \/ next = "idle") /\ Return(p, r.out)
  BY <1>2, ProceedEnds
<1>4. CASE next # "idle" /\ call' = [call EXCEPT ![p].pc = next]
  <2> DEFINE new == [call[p] EXCEPT !.pc = next]
  <2>1. call[p] \in Call /\ call \in [Callers -> Call]
    BY DEF Inv, TypeOK
  <2>2. new.pc = next /\ new.claimed = call[p].claimed /\ call' = [call EXCEPT ![p] = new]
    BY <1>4, <2>1 DEF Call
  <2> HIDE DEF new
  <2>3. call'[p] = new
    BY <2>2, CallReplaced
  <2> QED
    BY <1>2, <1>4, <2>2, <2>3
<1>5. ASSUME NEW out, Return(p, out)
      PROVE  \/ /\ call[p].claimed /\ call'[p].pc = "claimed"
                /\ call'[p].claimed /\ call'[p].outcome # "ok"
             \/ /\ call'[p].pc = "idle"
                /\ call[p].claimed => call'[p].outcome = "ok"
  BY <1>5, ReturnClaims
<1> QED
  BY <1>3, <1>4, <1>5

\* A call that found the lease free, or was refused.
LEMMA RequestClaims ==
  ASSUME Inv, NEW p \in Callers, NEW s \in Stores, NEW ch \in Channels,
         \/ StartConversation(p, s, ch) \/ Reply(p, s, ch)
         \/ CompleteConversation(p, s, ch) \/ DiscardConversation(p, s, ch)
  PROVE  call'[p].pc = "idle" \/ (call'[p].pc \in Awaits /\ ~call'[p].claimed)
<1>1. ASSUME NEW out, call' = [call EXCEPT ![p] = [Idle EXCEPT !.outcome = out]]
      PROVE  call'[p].pc = "idle"
  BY <1>1, OutcomeEffect
<1>2. ASSUME NEW reasons, Refuse(p, reasons)
      PROVE  call'[p].pc = "idle"
  BY <1>1, <1>2 DEF Refuse
<1>3. ASSUME NEW pc \in Awaits, NEW c, Enter(p, s, pc, c, ch)
      PROVE  call'[p].pc \in Awaits /\ ~call'[p].claimed
  <2> DEFINE new == [Idle EXCEPT !.pc = pc, !.store = s, !.conv = c, !.channel = ch]
  <2>1. new.pc = pc /\ ~new.claimed /\ call' = [call EXCEPT ![p] = new]
    BY <1>3 DEF Enter, Idle
  <2> HIDE DEF new
  <2> QED
    BY <1>3, <2>1, CallReplaced
<1>4. {"newSession", "answering", "carding"} \subseteq Awaits
  BY DEF Awaits, StartAwaits, ReplyAwaits, CompleteAwaits
<1>5. CASE StartConversation(p, s, ch)
  BY <1>2, <1>3, <1>4, <1>5 DEF StartConversation
<1>6. CASE Reply(p, s, ch)
  BY <1>2, <1>3, <1>4, <1>6 DEF Reply
<1>7. CASE CompleteConversation(p, s, ch)
  <2>1. ASSUME NEW r, call' = [call EXCEPT ![p] = [Idle EXCEPT !.outcome = r.out]]
        PROVE  call'[p].pc = "idle"
    BY <1>1, <2>1
  <2> QED
    BY <1>2, <1>3, <1>4, <1>7, <2>1 DEF CompleteConversation
<1>8. CASE DiscardConversation(p, s, ch)
  <2>1. ASSUME NEW r, call' = [call EXCEPT ![p] = [Idle EXCEPT !.outcome = r.out]]
        PROVE  call'[p].pc = "idle"
    BY <1>1, <2>1
  <2> QED
    BY <1>2, <1>8, <2>1 DEF DiscardConversation
<1> QED
  BY <1>5, <1>6, <1>7, <1>8

\* A start under a lease its caller claimed.
LEMMA StartClaimedClaims ==
  ASSUME Inv, NEW p \in Callers, NEW s \in Stores, NEW ch \in Channels, call[p].claimed,
         StartClaimedConversation(p, s, ch)
  PROVE  \/ call'[p].pc \in Awaits /\ call'[p].claimed
         \/ call'[p].pc = "claimed" /\ call'[p].claimed /\ call'[p].outcome # "ok"
         \/ call'[p].pc = "idle" /\ call'[p].outcome = "ok"
<1>1. ASSUME NEW out, Return(p, out)
      PROVE  \/ call'[p].pc = "claimed" /\ call'[p].claimed /\ call'[p].outcome # "ok"
             \/ call'[p].pc = "idle" /\ call'[p].outcome = "ok"
  BY <1>1, ReturnClaims
<1>2. CASE call' = [call EXCEPT ![p].pc = "newSession", ![p].store = s, ![p].channel = ch]
  <2> DEFINE new == [call[p] EXCEPT !.pc = "newSession", !.store = s, !.channel = ch]
  <2>1. call[p] \in Call /\ call \in [Callers -> Call]
    BY DEF Inv, TypeOK
  <2>2. /\ new.pc = "newSession" /\ new.claimed = call[p].claimed
        /\ call' = [call EXCEPT ![p] = new]
    BY <1>2, <2>1 DEF Call
  <2> HIDE DEF new
  <2>3. call'[p] = new
    BY <2>2, CallReplaced
  <2> QED
    BY <2>2, <2>3 DEF Awaits, StartAwaits
<1> QED
  BY <1>1, <1>2 DEF StartClaimedConversation

\* The lease is claimed without a call.
LEMMA ClaimClaims ==
  ASSUME Inv, NEW p \in Callers, ClaimGate(p)
  PROVE  call'[p].pc = "claimed" /\ call'[p].claimed /\ call'[p].outcome # "ok"
<1> DEFINE new == [Idle EXCEPT !.pc = "claimed", !.claimed = TRUE]
<1>1. new.pc = "claimed" /\ new.claimed /\ new.outcome = NULL /\ call' = [call EXCEPT ![p] = new]
  BY DEF ClaimGate, Idle
<1> HIDE DEF new
<1>2. call'[p] = new
  BY <1>1, CallReplaced
<1> QED
  BY <1>1, <1>2, OutcomeAssumption DEF Outcomes

\* Nothing in the application happens: a task that is not serving moves on.
LEMMA QuietClaims ==
  ASSUME AdapterInv, NEW p \in Callers, ClaimFits(p), task[p].name # "kickoff",
         task[p].pc # "asking", task'[p].name # "kickoff",
         call'[p].pc = call[p].pc, call[p].pc \notin Awaits
  PROVE  ClaimFits(p)'
  BY DEF ClaimFits

LEMMA IdleClaims ==
  ASSUME NEW p \in Callers, call'[p].pc = "idle", task'[p].name # "kickoff"
  PROVE  ClaimFits(p)'
  BY DEF ClaimFits, Awaits, StartAwaits, ReplyAwaits, CompleteAwaits

LEMMA KickoffClaims ==
  ASSUME NEW p \in Callers, task'[p].name = "kickoff",
         \/ call'[p].pc \in Awaits /\ call'[p].claimed /\ task'[p].pc = "serving"
         \/ /\ call'[p].pc = "claimed" /\ call'[p].claimed /\ call'[p].outcome # "ok"
            /\ task'[p].pc \in {"createThread", "serving", "deleteThread"}
         \/ call'[p].pc = "idle" /\ call'[p].outcome = "ok" /\ task'[p].pc = "serving"
  PROVE  ClaimFits(p)'
  BY DEF ClaimFits, Awaits, StartAwaits, ReplyAwaits, CompleteAwaits

\* A claimed lease passes from the kickoff's check to its call and to its
\* cleanup, which gives it back; a use of Pi gives it back itself.
LEMMA ClaimStep ==
  ASSUME AdapterInv, NEW p \in Callers, ClaimFits(p),
         \/ HandlerStep(p) \/ Tick(p)
         \/ \E ch \in Channels : Message(p, ch) \/ \E name \in Commands : Dispatch(p, name, ch)
  PROVE  ClaimFits(p)'
<1>1. /\ Inv /\ AdapterTypes /\ task \in [Callers -> Task] /\ task[p] \in Task
      /\ current \in Stores /\ task[p].channel \in Channels /\ task[p].store \in Stores
      /\ NoTask.name = "none" /\ CallFits(p) /\ NamesFit(p)
  BY DEF AdapterInv, AdapterTypes, Task, NoTask
<1>2. End(p) => task'[p].name # "kickoff"
  BY <1>1, EndEffect
<1>3. task[p].pc # "serving" => call[p].pc \in {"idle", "claimed"} /\ call[p].pc \notin Awaits
  BY NotServing DEF Awaits, StartAwaits, ReplyAwaits, CompleteAwaits
<1>4. CASE AskNow(p) \/ PermissionsKnown(p) \/ ArchiveEnded(p)
  <2>1. /\ task[p].pc \in {"dispatched", "permissions", "archive"} /\ UNCHANGED vars
        /\ End(p) \/ Go(p, "permissions") \/ Go(p, "createThread")
    BY <1>4 DEF AskNow, PermissionsKnown, ArchiveEnded, Running, Awaiting
  <2>2. task[p].name # "kickoff"
    BY <2>1 DEF ClaimFits
  <2>3. task'[p].name # "kickoff"
    BY <1>1, <1>2, <2>1, <2>2, GoEffect
  <2> QED
    BY <1>3, <2>1, <2>2, <2>3, QuietClaims DEF vars
<1>5. ASSUME NEW t \in Channels, ThreadCreated(p, t)
      PROVE  ClaimFits(p)'
  <2>1. task'[p] = [task[p] EXCEPT !.pc = "serving", !.thread = t]
    BY <1>1, <1>5 DEF ThreadCreated
  <2>2. task'[p].pc = "serving" /\ task'[p].name = task[p].name
    BY <1>1, <2>1 DEF Task
  <2>3. CASE task[p].name = "kickoff"
    <3>1. StartClaimedConversation(p, current, t) /\ call[p].claimed
      BY <1>5, <2>3 DEF ThreadCreated, StartClaimedConversation, ClaimFits
    <3> QED
      BY <1>1, <2>2, <2>3, <3>1, StartClaimedClaims, KickoffClaims
  <2>4. CASE task[p].name # "kickoff"
    <3>1. call'[p].pc = "idle" \/ (call'[p].pc \in Awaits /\ ~call'[p].claimed)
      BY <1>1, <1>5, <2>4, RequestClaims DEF ThreadCreated
    <3> QED
      BY <2>2, <2>4, <3>1, IdleClaims
         DEF ClaimFits, Awaits, StartAwaits, ReplyAwaits, CompleteAwaits
  <2> QED
    BY <2>3, <2>4
<1>6. CASE DeletionEnded(p) \/ \E fault : ThreadNotCreated(p, fault)
  <2>1. /\ task[p].pc \in {"createThread", "deleteThread"} /\ End(p)
        /\ IF task[p].name = "kickoff" THEN ReleaseClaim(p) ELSE UNCHANGED vars
    BY <1>6 DEF DeletionEnded, ThreadNotCreated, Awaiting
  <2>2. CASE ReleaseClaim(p)
    <3>1. call'[p].pc = "idle"
      BY <1>1, <2>2, ClaimEffect DEF ReleaseClaim, ClaimGate, Ready
    <3> QED
      BY <1>2, <2>1, <3>1, IdleClaims
  <2>3. CASE task[p].name # "kickoff" /\ UNCHANGED vars
    BY <1>2, <1>3, <2>1, <2>3, QuietClaims DEF vars
  <2> QED
    BY <2>1, <2>2, <2>3
<1>7. CASE StartEnded(p)
  <2>1. /\ Caught(p) /\ call[p].pc \in {"idle", "claimed"} /\ task[p].pc = "serving"
        /\ IF KeepsThread(p) THEN End(p) ELSE Go(p, "deleteThread")
    BY <1>7 DEF StartEnded, Awaiting
  <2>2. call'[p].pc = call[p].pc /\ call'[p].outcome = NULL /\ NULL # "ok"
    BY <1>1, <2>1, CaughtKeeps, OutcomeAssumption DEF Outcomes
  <2>3. call'[p].claimed = call[p].claimed
    <3>1. call[p] \in Call /\ call'[p] = [call[p] EXCEPT !.outcome = NULL]
      BY <1>1, <2>1 DEF Caught, Inv, TypeOK
    <3> QED
      BY <3>1 DEF Call
  <2>4. CASE call[p].pc = "claimed"
    <3>1. task[p].name = "kickoff" /\ call[p].claimed /\ ~KeepsThread(p)
      BY <2>1, <2>4 DEF ClaimFits, KeepsThread
    <3>2. task'[p].name = "kickoff" /\ task'[p].pc = "deleteThread"
      BY <1>1, <2>1, <3>1, GoEffect
    <3> QED
      BY <2>2, <2>3, <2>4, <3>1, <3>2, KickoffClaims
  <2>5. CASE call[p].pc = "idle"
    <3>1. task'[p].name # "kickoff"
      BY <1>1, <1>2, <2>1, <2>5, GoEffect DEF ClaimFits, KeepsThread
    <3> QED
      BY <2>2, <2>5, <3>1, IdleClaims
  <2> QED
    BY <2>1, <2>4, <2>5
<1>8. CASE Done(p) \/ TypingShown(p)
  <2>1. /\ task[p].pc \in {"dispatched", "typing"} /\ Go(p, "serving")
        /\ \/ CompleteConversation(p, current, task[p].channel)
           \/ Reply(p, task[p].store, task[p].channel)
    BY <1>8 DEF Done, TypingShown, Running, Awaiting
  <2>2. call'[p].pc = "idle" \/ (call'[p].pc \in Awaits /\ ~call'[p].claimed)
    BY <1>1, <2>1, RequestClaims
  <2>3. task'[p].name # "kickoff"
    BY <1>1, <2>1, GoEffect DEF ClaimFits
  <2> QED
    BY <2>2, <2>3, IdleClaims
       DEF ClaimFits, Awaits, StartAwaits, ReplyAwaits, CompleteAwaits
<1>9. CASE DoneEnded(p) \/ MessageEnded(p)
  <2>1. /\ task[p].name \in {"done", "message"} /\ call[p].pc = "idle" /\ Caught(p)
        /\ End(p) \/ Go(p, "archive")
    BY <1>9 DEF DoneEnded, MessageEnded
  <2>2. call'[p].pc = "idle"
    BY <1>1, <2>1, CaughtKeeps
  <2>3. task'[p].name # "kickoff"
    BY <1>1, <1>2, <2>1, GoEffect
  <2> QED
    BY <2>2, <2>3, IdleClaims
<1>10. CASE DeleteSession(p)
  <2>1. call'[p].pc = "idle"
    BY <1>1, <1>10, DiscardEffect DEF DeleteSession
  <2>2. task'[p].name # "kickoff"
    <3>1. ASSUME NEW t, task' = [task EXCEPT ![p].pc = "deleteThread", ![p].thread = t]
          PROVE  task'[p].name = task[p].name
      <4>1. task'[p] = [task[p] EXCEPT !.pc = "deleteThread", !.thread = t]
        BY <1>1, <3>1
      <4> QED
        BY <1>1, <4>1 DEF Task
    <3>2. task[p].name = "delete_session"
      BY <1>10 DEF DeleteSession, Running
    <3> QED
      BY <1>2, <1>10, <3>1, <3>2 DEF DeleteSession
  <2> QED
    BY <2>1, <2>2, IdleClaims
<1>11. CASE UseAgent(p)
  <2>1. task[p].pc = "dispatched" /\ task[p].name # "kickoff"
    BY <1>11 DEF UseAgent, Running, Awaiting
  <2>2. CASE ClaimGate(p) /\ Go(p, "asking")
    <3>1. task'[p].pc = "asking" /\ task'[p].name # "kickoff"
      BY <1>1, <2>1, <2>2, GoEffect
    <3>2. call'[p].pc = "claimed" /\ call'[p].claimed /\ call'[p].outcome # "ok"
      BY <1>1, <2>2, ClaimClaims
    <3> QED
      BY <3>1, <3>2 DEF ClaimFits, Awaits, StartAwaits, ReplyAwaits, CompleteAwaits
  <2>3. CASE UNCHANGED vars /\ End(p)
    BY <1>2, <1>3, <2>1, <2>3, QuietClaims DEF vars
  <2> QED
    BY <1>11, <2>2, <2>3 DEF UseAgent
<1>12. CASE AgentUsed(p)
  <2>1. call'[p].pc = "idle" /\ End(p)
    BY <1>12, AgentUsedEffect DEF AgentUsed
  <2> QED
    BY <1>2, <2>1, IdleClaims
<1>13. CASE Served(p)
  <2>1. call[p].pc \in Awaits /\ Resumed(p) /\ UNCHANGED task /\ task[p].pc = "serving"
    BY <1>13, ServedCall DEF Served, Awaiting
  <2>2. call[p].claimed <=> task[p].name = "kickoff"
    BY <2>1 DEF ClaimFits
  <2>3. \/ call'[p].pc \in Awaits /\ call'[p].claimed = call[p].claimed
        \/ /\ call[p].claimed /\ call'[p].pc = "claimed"
           /\ call'[p].claimed /\ call'[p].outcome # "ok"
        \/ /\ call'[p].pc = "idle"
           /\ call[p].claimed => call'[p].outcome = "ok"
    BY <1>1, <2>1, AwaitClaims
  <2>4. CASE task[p].name = "kickoff"
    BY <2>1, <2>2, <2>3, <2>4, KickoffClaims
  <2>5. CASE task[p].name # "kickoff"
    <3>1. call'[p].pc = "idle" \/ (call'[p].pc \in Awaits /\ ~call'[p].claimed)
      BY <2>2, <2>3, <2>5
    <3> QED
      BY <2>1, <2>5, <3>1, IdleClaims
         DEF ClaimFits, Awaits, StartAwaits, ReplyAwaits, CompleteAwaits
  <2> QED
    BY <2>4, <2>5
<1>14. CASE Tick(p)
  <2> DEFINE new == [NoTask EXCEPT !.name = "kickoff", !.pc = "createThread"]
  <2>1. /\ task' = [task EXCEPT ![p] = new] /\ ClaimGate(p)
        /\ new.name = "kickoff" /\ new.pc = "createThread"
    BY <1>14 DEF Tick, NoTask
  <2> HIDE DEF new
  <2>2. task'[p].name = "kickoff" /\ task'[p].pc = "createThread"
    BY <1>1, <2>1
  <2> QED
    BY <1>1, <2>1, <2>2, ClaimClaims, KickoffClaims
<1>15. CASE \E ch \in Channels : Message(p, ch) \/ \E name \in Commands : Dispatch(p, name, ch)
  <2>1. task[p].pc = "idle" /\ UNCHANGED vars /\ task[p].name # "kickoff"
    BY <1>15 DEF Message, Dispatch, Awaiting, ClaimFits
  <2>2. ASSUME NEW new, task' = [task EXCEPT ![p] = new], new.name # "kickoff"
        PROVE  task'[p].name # "kickoff"
    BY <1>1, <2>2
  <2>3. ASSUME NEW ch \in Channels, Message(p, ch)
        PROVE  task'[p].name # "kickoff"
    <3> DEFINE new == [NoTask EXCEPT !.name = "message", !.pc = "typing",
                                     !.store = current, !.channel = ch]
    <3>1. task' = [task EXCEPT ![p] = new] /\ new.name # "kickoff"
      BY <2>3 DEF Message, NoTask
    <3> HIDE DEF new
    <3> QED
      BY <2>2, <3>1
  <2>4. ASSUME NEW ch \in Channels, NEW name \in Commands, Dispatch(p, name, ch)
        PROVE  task'[p].name # "kickoff"
    <3> DEFINE new == [NoTask EXCEPT !.name = name, !.pc = "dispatched", !.channel = ch]
    <3>1. task' = [task EXCEPT ![p] = new] /\ new.name # "kickoff"
      BY <2>4 DEF Dispatch, NoTask, Commands
    <3> HIDE DEF new
    <3> QED
      BY <2>2, <3>1
  <2> QED
    BY <1>3, <1>15, <2>1, <2>3, <2>4, QuietClaims DEF vars
<1> QED
  BY <1>4, <1>5, <1>6, <1>7, <1>8, <1>9, <1>10, <1>11, <1>12, <1>13, <1>14, <1>15
     DEF HandlerStep

\* Under any faults of Pi, of the hub and of the stores: no command, message or
\* kickoff that is over keeps the lease, and the kickoff does not lose it while
\* it creates its thread or cleans up.
THEOREM LeaseOfTasks == AdapterSpec => []TasksHoldLease
<1>1. AdapterInit => ClaimInv
  BY DEF AdapterInit, Init, ClaimInv, ClaimFits, NoTask, Idle,
         Awaits, StartAwaits, ReplyAwaits, CompleteAwaits
<1>2. ASSUME AdapterInv, ClaimInv, [AdapterNext]_allVars
      PROVE  ClaimInv'
  <2> SUFFICES ASSUME NEW p \in Callers PROVE ClaimFits(p)'
    BY DEF ClaimInv
  <2>1. ClaimFits(p)
    BY <1>2 DEF ClaimInv
  <2>2. CASE task'[p] = task[p] /\ call'[p] = call[p]
    BY <2>1, <2>2 DEF ClaimFits
  <2>3. ASSUME NEW q \in Callers,
               \/ HandlerStep(q) \/ Tick(q)
               \/ \E ch \in Channels : Message(q, ch) \/ \E name \in Commands : Dispatch(q, name, ch)
        PROVE  ClaimFits(p)'
    <3>1. CASE q = p
      BY <1>2, <2>1, <2>3, <3>1, ClaimStep
    <3>2. CASE q # p
      BY <1>2, <2>2, <2>3, <3>2, HandlerIsTaskStep, BeginningIsTaskStep DEF TaskStep, Others
    <3> QED
      BY <3>1, <3>2
  <2>4. CASE AdapterRestart
    BY <2>4, IdleClaims DEF AdapterRestart, Restart, NoTask, Idle
  <2>5. CASE \/ \E t \in Channels : DelayedDeletion(t)
             \/ \E s \in Stores : Testing(s)
             \/ PlanCommand
             \/ (PiRestart \/ TimePasses) /\ UNCHANGED adapterVars
             \/ UNCHANGED allVars
    BY <2>2, <2>5 DEF DelayedDeletion, Testing, PlanCommand, ChangePlan, PiRestart, TimePasses,
                      allVars, adapterVars, vars
  <2> QED
    BY <1>2, <2>3, <2>4, <2>5 DEF AdapterNext
<1>3. ASSUME AdapterInv, ClaimInv
      PROVE  TasksHoldLease
  <2> SUFFICES ASSUME NEW p \in Callers
               PROVE  /\ task[p].pc = "idle" => gate # p
                      /\ task[p].name = "kickoff" /\ task[p].pc \in {"createThread", "deleteThread"}
                           => gate = p
    BY DEF TasksHoldLease
  <2>1. /\ gate = p <=> call[p].pc # "idle"
        /\ call[p].pc \in Awaits \cup {"idle", "claimed"}
        /\ ClaimFits(p) /\ CallFits(p)
    BY <1>3 DEF AdapterInv, Inv, LeaseFollowsFlight, ClaimInv, TypeOK, Call
  <2> QED
    BY <2>1 DEF ClaimFits, CallFits
<1> QED
  BY <1>1, <1>2, <1>3, AdapterCoherent, PTL DEF AdapterSpec

-----------------------------------------------------------------------------
(* ConversationKeepsItsSession, with one store.  /ask-test prompts Pi      *)
(* beside the application and names the session it finds or makes.         *)

\* A conversation that has begun, and a start that waits for its first answer,
\* have a session: /ask-test then finds it and makes no other one.
SessionNamed ==
  /\ Begun => origin[LiveStore] # NULL
  /\ (\E p \in Callers : call[p].pc = "opening") => pi.session # NULL

\* No step of the application takes the session away.
LEMMA NamedStep ==
  ASSUME Stores = {LiveStore}, Inv, SessionInv, SessionNamed, [Next]_vars
  PROVE  SessionNamed'
<1>1. /\ pi \in [session : Sessions \cup {NULL}, file : Sessions \cup {NULL}]
      /\ origin \in [Stores -> Sessions \cup {NULL}]
      /\ \A q \in Callers : call[q].store = LiveStore
      /\ NULL \notin Sessions
  BY NullAssumption DEF Inv, TypeOK, Call
<1>2. ASSUME NEW p \in Callers, call[p].pc \in StartAwaits \ {"sendQuestion"}
      PROVE  /\ ~Begun
             /\ \A q \in Callers \ {p} : call[q].pc = "idle"
  <2>1. \A q \in Callers \ {p} : call[q].pc = "idle"
    BY <1>2, OneInFlight DEF StartAwaits
  <2>2. Active(stores[LiveStore]) = {}
    BY <1>1, <1>2 DEF Inv, StartNeverCollides, Data
  <2> QED
    BY <1>2, <2>1, <2>2 DEF Begun
<1>3. ASSUME Begun', Begun
      PROVE  origin'[LiveStore] # NULL
  <2>1. /\ \A p \in Callers : call[p].pc # "newSession"
        /\ \A p \in Callers : call[p].pc # "opening"
    BY <1>2, <1>3 DEF StartAwaits
  <2>2. origin' = origin
    BY <2>1, PiMoves
  <2> QED
    BY <1>3, <2>2 DEF SessionNamed
<1>4. ASSUME Begun', ~Begun
      PROVE  origin'[LiveStore] # NULL
  <2>1. Active(stores'[LiveStore]) = {}
    <3>1. Active(stores[LiveStore]) = {} /\ \A p \in Callers : call[p].pc # "sendQuestion"
      BY <1>4 DEF Begun
    <3>2. OneStep(stores[LiveStore], stores'[LiveStore])
      BY NextIsOneStep
    <3>3. CASE stores'[LiveStore].conv = stores[LiveStore].conv
      BY <3>1, <3>3 DEF Active
    <3>4. ASSUME NEW c \in Convs, RowStep(stores[LiveStore], stores'[LiveStore], c)
          PROVE  Active(stores'[LiveStore]) = {}
      BY <3>1, <3>4 DEF RowStep, Active, ActiveStatus
    <3> QED
      BY <3>2, <3>3, <3>4 DEF OneStep
  <2>2. PICK q \in Callers : call'[q].pc = "sendQuestion"
    BY <1>4, <2>1 DEF Begun, Active
  <2>3. call[q].pc = "opening" /\ PromptAnswered(q)
    BY <1>4, <2>2, ReachesOpening DEF Begun
  <2>4. origin' = [origin EXCEPT ![LiveStore] = pi.session] /\ pi.session # NULL
    BY <1>1, <2>3 DEF PromptAnswered, SessionNamed
  <2> QED
    BY <1>1, <2>4
<1>5. ASSUME NEW q \in Callers, call'[q].pc = "opening"
      PROVE  pi'.session # NULL
  <2>1. CASE \E session \in Sessions : NewSessionCreated(q, session)
    BY <1>1, <2>1 DEF NewSessionCreated
  <2>2. CASE call[q].pc = "opening"
    <3>1. pi.file = pi.session /\ pi.session # NULL
      BY <2>2 DEF SessionInv, SessionNamed
    <3>2. \A p \in Callers : call[p].pc # "newSession"
      BY <1>2, <2>2 DEF StartAwaits
    <3>3. ~Restart
      BY <1>5 DEF Restart, Idle
    <3>4. \/ pi' = pi
          \/ pi' = [pi EXCEPT !.file = pi.session]
          \/ pi' = [pi EXCEPT !.session = pi.file]
      BY <3>2, <3>3, PiMoves
    <3> QED
      BY <1>1, <3>1, <3>4
  <2> QED
    BY <1>5, <2>1, <2>2, ReachesOpening
<1>6. Begun' => origin'[LiveStore] # NULL
  BY <1>3, <1>4
<1> QED
  BY <1>5, <1>6 DEF SessionNamed, Begun, Active

\* What /ask-test got from Pi names the session that is already named.
LEMMA AgentUsedSession ==
  ASSUME Stores = {LiveStore}, AdapterInv, SessionInv, SessionNamed,
         NEW p \in Callers, AgentUsed(p)
  PROVE  SessionInv' /\ SessionNamed'
<1> DEFINE d == stores[LiveStore]
           o == origin[LiveStore]
<1>1. /\ Inv /\ current = LiveStore /\ call[p].pc = "claimed"
      /\ StoreInv(d, clock) /\ clock \in Nat /\ d.session = stores[LiveStore].session
      /\ stores \in [Stores -> Database]
      /\ pi \in [session : Sessions \cup {NULL}, file : Sessions \cup {NULL}]
  BY ClockIsNat DEF AdapterInv, AdapterTypes, AgentUsed, Awaiting, NamesFit, Inv, Coherent, TypeOK
<1>2. origin' = origin /\ call' = [call EXCEPT ![p] = Idle]
  BY DEF AgentUsed
<1>3. \A q \in Callers : call'[q].pc = "idle"
  <2>1. \A q \in Callers \ {p} : call[q].pc = "idle"
    BY <1>1, OneInFlight
  <2>2. call'[p] = Idle /\ Others(p)
    BY <1>1, <1>2, CallReplaced
  <2> QED
    BY <2>1, <2>2 DEF Idle, Others
<1>4. CASE Active(stores[LiveStore]) = {}
  <2>1. Active(stores'[LiveStore]) = {}
    BY <1>4, AgentUsedMovesNoRow, ApplicationAssumption DEF Active
  <2>2. ~Begun'
    BY <1>3, <2>1 DEF Begun, Active
  <2> QED
    BY <1>3, <2>2 DEF SessionInv, SessionNamed
<1>5. CASE Active(stores[LiveStore]) # {}
  <2>1. pi.session = o /\ pi.file = o /\ d.session = o /\ o # NULL
    BY <1>5 DEF SessionInv, SessionNamed, Begun
  <2>2. ASSUME NEW e, stores' = [stores EXCEPT ![current] = e]
        PROVE  stores'[LiveStore] = e
    BY <1>1, <2>2
  <2>3. ASSUME NEW session \in IF pi.session = NULL THEN Unused ELSE {pi.session},
               NEW r \in Attempt(d, TRUE, RecordSuccess(d, session))
        PROVE  session = o /\ r.db.session = o
    <3>1. session = pi.session /\ session \in Sessions \cup {NULL}
      BY <1>1, <2>1, <2>3
    <3>2. r \in Attempt(d, TRUE, RecordSuccess(d, session))
      BY <2>3
    <3> HIDE DEF d, o
    <3>3. r.db = d \/ r.db = RecordSuccess(d, session)
      BY <3>2, AttemptEnds
    <3>4. RecordSuccess(d, session).session = session
      BY <1>1 DEF RecordSuccess, StoreInv, Database
    <3>5. session = o
      BY <2>1, <3>1, Zenon
    <3>6. r.db.session = o
      <4>1. d.session = o
        BY <2>1
      <4> QED
        BY <4>1, <3>3, <3>4, <3>5, Zenon
    <3> QED
      BY <3>5, <3>6
  <2>4. ASSUME NEW fault, NEW r \in IF fault = "broken" THEN {Result(d, "escaped")}
                                    ELSE RecordAgentFailure(d, fault)
        PROVE  r.db.session = o
    <3>1. CASE fault = "broken"
      BY <2>1, <2>4, <3>1 DEF Result
    <3>2. CASE fault # "broken"
      BY <1>1, <2>1, <2>4, <3>2, AgentFailureEnds DEF Kept
    <3> QED
      BY <3>1, <3>2
  <2>5. /\ pi'.session = o /\ pi'.file = o
        /\ stores'[LiveStore].session = o
    <3>1. CASE UNCHANGED <<stores, pi>>
      BY <2>1, <3>1
    <3>2. ASSUME NEW session \in IF pi.session = NULL THEN Unused ELSE {pi.session},
                 NEW r \in Attempt(d, TRUE, RecordSuccess(d, session)),
                 pi' = [session |-> session, file |-> session],
                 stores' = [stores EXCEPT ![current] = r.db]
          PROVE  pi'.session = o /\ pi'.file = o /\ stores'[LiveStore].session = o
      BY <2>2, <2>3, <3>2
    <3>3. ASSUME NEW fault, NEW r \in IF fault = "broken" THEN {Result(d, "escaped")}
                                      ELSE RecordAgentFailure(d, fault),
                 UNCHANGED pi, stores' = [stores EXCEPT ![current] = r.db]
          PROVE  pi'.session = o /\ pi'.file = o /\ stores'[LiveStore].session = o
      BY <2>1, <2>2, <2>4, <3>3
    <3> QED
      BY <1>1, <3>1, <3>2, <3>3 DEF AgentUsed
  <2> QED
    BY <1>2, <1>3, <2>1, <2>5 DEF SessionInv, SessionNamed
<1> QED
  BY <1>4, <1>5

\* Every step of the adapter keeps the sessions in agreement.
LEMMA AdapterSessionStep ==
  ASSUME Stores = {LiveStore}, AdapterInv, SessionInv, SessionNamed, [AdapterNext]_allVars
  PROVE  SessionInv' /\ SessionNamed'
<1>1. Inv /\ AdapterTypes
  BY DEF AdapterInv
<1>2. CASE [Next]_vars
  BY <1>1, <1>2, SessionStep, NamedStep
<1>3. ASSUME NEW p \in Callers, Caught(p)
      PROVE  SessionInv' /\ SessionNamed'
  <2>1. UNCHANGED <<stores, pi, origin>>
    BY <1>3 DEF Caught
  <2>2. \A q \in Callers : call'[q].pc = call[q].pc
    <3>1. call \in [Callers -> Call] /\ call[p] \in Call
      BY <1>1 DEF Inv, TypeOK
    <3>2. call'[p] = [call[p] EXCEPT !.outcome = NULL]
      BY <1>3, <3>1 DEF Caught
    <3>3. call'[p].pc = call[p].pc
      BY <3>1, <3>2 DEF Call
    <3> QED
      BY <1>3, <3>1, <3>3 DEF Caught
  <2> QED
    BY <2>1, <2>2 DEF SessionInv, SessionNamed, Begun, Active
<1>4. ASSUME NEW p \in Callers,
             \/ HandlerStep(p) \/ Tick(p)
             \/ \E ch \in Channels : Message(p, ch) \/ \E name \in Commands : Dispatch(p, name, ch)
      PROVE  SessionInv' /\ SessionNamed'
  <2>1. CASE Request(p) \/ Resumed(p) \/ UNCHANGED vars
    BY <1>2, <2>1 DEF Next
  <2> QED
    BY <1>3, <1>4, <2>1, TaskCalls, AgentUsedSession
<1> QED
  BY <1>1, <1>2, <1>4, OutsideIsNext DEF AdapterNext

\* With one store, nothing the hub delivers between the messages of a
\* conversation takes it to another session: not an /ask-test, not a /model, not
\* a start that fails.
THEOREM SessionOfTasks ==
  ASSUME Stores = {LiveStore}
  PROVE  AdapterSpec => []ConversationKeepsItsSession
<1>1. AdapterInit => SessionInv /\ SessionNamed
  <2>1. ASSUME Init PROVE SessionNamed
    <3>1. /\ \A p \in Callers : call[p].pc = "idle"
          /\ \A c \in Convs : stores[LiveStore].conv[c].status = "ABSENT"
      BY <2>1, ApplicationAssumption DEF Init, Idle, FreshDatabase, Absent
    <3> QED
      BY <3>1 DEF SessionNamed, Begun, Active, ActiveStatus
  <2> QED
    BY <2>1, SessionInit DEF AdapterInit
<1>2. AdapterInv /\ SessionInv /\ SessionNamed /\ [AdapterNext]_allVars
        => SessionInv' /\ SessionNamed'
  BY AdapterSessionStep
<1>3. AdapterInv /\ SessionInv => ConversationKeepsItsSession
  BY SessionsAgree DEF AdapterInv
<1> QED
  BY <1>1, <1>2, <1>3, AdapterCoherent, PTL DEF AdapterSpec

-----------------------------------------------------------------------------
(* How far LiveDataUntouchedByTesting goes.  It fails: what began before   *)
(* /testing still writes to the live store.  Nothing else does.            *)

\* While the test store is in use, the live one changes only when a call that
\* is suspended in the live application goes on.
OnlyOldCallsTouchLiveData ==
  [][/\ current # LiveStore /\ current' # LiveStore
     /\ stores'[LiveStore] # stores[LiveStore]
     => \E p \in Callers : /\ call[p].pc \in Awaits /\ call[p].store = LiveStore
                           /\ Resumed(p)]_allVars

\* What writes to one store leaves the others.
LEMMA OtherStoresStay ==
  ASSUME Inv, NEW s, s # LiveStore, NEW e,
         stores' = [stores EXCEPT ![s] = e]
  PROVE  stores'[LiveStore] = stores[LiveStore]
  BY ApplicationAssumption DEF Inv, TypeOK

\* A handler writes to the current store, except at the awaits of its call.
LEMMA HandlerWritesCurrent ==
  ASSUME AdapterInv, current # LiveStore, NEW p \in Callers,
         \/ HandlerStep(p) \/ Tick(p)
         \/ \E ch \in Channels : Message(p, ch) \/ \E name \in Commands : Dispatch(p, name, ch),
         ~Served(p)
  PROVE  stores'[LiveStore] = stores[LiveStore]
<1>1. Inv /\ current \in Stores /\ task[p].channel \in Channels /\ task[p].store \in Stores
  BY DEF AdapterInv, AdapterTypes, Task
<1>2. ASSUME NEW r, stores' = [stores EXCEPT ![current] = r.db]
      PROVE  stores'[LiveStore] = stores[LiveStore]
  BY <1>1, <1>2, OtherStoresStay
<1>3. CASE Done(p)
  BY <1>2, <1>3 DEF Done, CompleteConversation, Refuse
<1>4. CASE DeleteSession(p)
  BY <1>2, <1>4 DEF DeleteSession, DiscardConversation, Refuse
<1>5. CASE AgentUsed(p)
  BY <1>2, <1>5 DEF AgentUsed
<1>6. CASE \E t \in Channels : ThreadCreated(p, t)
  BY <1>1, <1>6, StartEffect DEF ThreadCreated
<1>7. CASE TypingShown(p)
  BY <1>1, <1>7, ReplyEffect DEF TypingShown
<1>8. CASE \/ AskNow(p) \/ PermissionsKnown(p) \/ ArchiveEnded(p) \/ UseAgent(p) \/ Tick(p)
           \/ \E ch \in Channels : Message(p, ch) \/ \E name \in Commands : Dispatch(p, name, ch)
  BY <1>8 DEF AskNow, PermissionsKnown, ArchiveEnded, UseAgent, Tick, Message, Dispatch,
              ClaimGate, vars
<1>9. CASE \/ StartEnded(p) \/ DoneEnded(p) \/ MessageEnded(p) \/ DeletionEnded(p)
           \/ \E fault : ThreadNotCreated(p, fault)
  BY <1>9 DEF StartEnded, DoneEnded, MessageEnded, DeletionEnded, ThreadNotCreated,
              Caught, ReleaseClaim, vars
<1> QED
  BY <1>3, <1>4, <1>5, <1>6, <1>7, <1>8, <1>9 DEF HandlerStep

\* While a test is under way, no command, message, kickoff or change of the plan
\* reaches the live data; a call that began before may.
THEOREM LiveDataOfOldCalls == AdapterSpec => OnlyOldCallsTouchLiveData
<1>1. ASSUME AdapterInv, [AdapterNext]_allVars, current # LiveStore, current' # LiveStore,
             stores'[LiveStore] # stores[LiveStore]
      PROVE  \E p \in Callers : /\ call[p].pc \in Awaits /\ call[p].store = LiveStore
                                /\ Resumed(p)
  <2>1. ASSUME NEW p \in Callers, Served(p)
        PROVE  \E q \in Callers : /\ call[q].pc \in Awaits /\ call[q].store = LiveStore
                                  /\ Resumed(q)
    <3>1. call[p].pc \in Awaits /\ Resumed(p) /\ Inv
      BY <1>1, <2>1, ServedCall DEF AdapterInv
    <3>2. \E e : stores' = [stores EXCEPT ![call[p].store] = e]
      <4>1. \E results, next : Proceed(p, results, next)
        BY <3>1 DEF Resumed, NewSessionCreated, PromptAnswered, AgentFailed, QuestionSent,
                    ReplySent, CardSent, DeliveryFailed, ReleaseClaim,
                    Awaits, StartAwaits, ReplyAwaits, CompleteAwaits
      <4> QED
        BY <4>1 DEF Proceed
    <3>3. call[p].store = LiveStore
      BY <1>1, <3>1, <3>2, OtherStoresStay
    <3> QED
      BY <3>1, <3>3
  <2>2. ASSUME NEW p \in Callers,
               \/ HandlerStep(p) \/ Tick(p)
               \/ \E ch \in Channels : Message(p, ch) \/ \E name \in Commands : Dispatch(p, name, ch)
        PROVE  Served(p)
    BY <1>1, <2>2, HandlerWritesCurrent
  <2>3. CASE PlanCommand
    <3>1. PICK e : stores' = [stores EXCEPT ![current] = e]
      BY <2>3 DEF PlanCommand, ChangePlan
    <3> QED
      BY <1>1, <3>1, OtherStoresStay DEF AdapterInv
  <2>4. CASE \/ \E t \in Channels : DelayedDeletion(t)
             \/ \E s \in Stores : Testing(s)
             \/ AdapterRestart
             \/ (PiRestart \/ TimePasses) /\ UNCHANGED adapterVars
             \/ UNCHANGED allVars
    BY <1>1, <2>4 DEF DelayedDeletion, Testing, AdapterRestart, Restart, PiRestart, TimePasses,
                      allVars, vars
  <2> QED
    BY <1>1, <2>1, <2>2, <2>3, <2>4 DEF AdapterNext
<1> QED
  BY <1>1, AdapterCoherent, PTL DEF AdapterSpec, OnlyOldCallsTouchLiveData

=============================================================================
