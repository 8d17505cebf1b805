----------------------------- MODULE HubAdapter -----------------------------
(***************************************************************************)
(* SocraticHubAdapter (hub_adapter.py): the commands and messages the hub  *)
(* delivers, the session threads they create, archive and delete, the      *)
(* automatic kickoff, and the swap of data stores by /testing.             *)
(*                                                                         *)
(* Each caller is an asyncio task running one handler; while the handler   *)
(* awaits the application, the actions of SocraticApplication move it on.  *)
(* The one allowed user may send anything at any time.  Every request to   *)
(* the hub may fail, and may have been carried out although it failed.     *)
(***************************************************************************)
EXTENDS SocraticApplication, FiniteSets

CONSTANTS
  Scheduler,     \* the task of run_scheduler
  Home,          \* the home channel; the other channels are session threads
  ThreadFaults   \* faults of create, delete and archive requests, as HubFaults

ASSUME AdapterAssumption ==
  /\ Scheduler \in Callers
  /\ Home \in Channels
  /\ ThreadFaults \subseteq {"lost", "ambiguous", "garbled"}

VARIABLES
  current,   \* the store self.store and self.conversation_service point to
  task,      \* the handler each caller runs
  threads,   \* the session threads that exist in Discord
  archived,  \* those that were archived
  doomed     \* threads a task of _delete_thread_after_followup will delete

adapterVars == <<current, task, threads, archived, doomed>>
allVars == <<vars, adapterVars>>

Commands == {"ask_now", "done", "delete_session", "ask_test", "model"}

Task == [name    : Commands \cup {"none", "kickoff", "message"},
         pc      : {"idle", "dispatched", "permissions", "createThread", "typing",
                    "serving", "asking", "deleteThread", "archive"},
         store   : Stores,
         channel : Channels,
         thread  : Channels \cup {NULL}]

NoTask == [name |-> "none", pc |-> "idle", store |-> LiveStore,
           channel |-> Home, thread |-> NULL]

AdapterInit ==
  /\ Init
  /\ current = LiveStore
  /\ task = [p \in Callers |-> NoTask]
  /\ threads = {}
  /\ archived = {}
  /\ doomed = {}

-----------------------------------------------------------------------------
Awaiting(p, pc) == task[p].pc = pc
Go(p, pc) == task' = [task EXCEPT ![p].pc = pc]
End(p) == task' = [task EXCEPT ![p] = NoTask]

\* The outcome of a call has been dealt with.
Caught(p) ==
  /\ call' = [call EXCEPT ![p].outcome = NULL]
  /\ UNCHANGED <<stores, gate, pi, posted, origin, clock>>

\* command_authorized, for the allowed user.
Authorized(ch) == ch = Home \/ ActiveIn(stores[current], ch) # {}

\* The bound on conversations: a start begins only if an id is left for it.
RoomForStart ==
  Cardinality(Rows(stores[current]))
    + Cardinality({p \in Callers : task[p].name \in {"ask_now", "kickoff"}})
  < Cardinality(Convs)

\* _handle_command: the handler of a deferred command runs in a task of its
\* own, later.
Dispatch(p, name, ch) ==
  /\ p # Scheduler
  /\ Awaiting(p, "idle")
  /\ Authorized(ch)
  /\ name = "ask_now" => RoomForStart
  /\ task' = [task EXCEPT ![p] = [NoTask EXCEPT !.name = name, !.pc = "dispatched",
                                                !.channel = ch]]
  /\ UNCHANGED <<vars, current, threads, archived, doomed>>

Running(p, name) == Awaiting(p, "dispatched") /\ task[p].name = name

-----------------------------------------------------------------------------
(* /ask-now and the automatic kickoff: a thread, and a conversation in it. *)

AskNow(p) ==
  /\ Running(p, "ask_now")
  /\ Go(p, "permissions")
  /\ UNCHANGED <<vars, current, threads, archived, doomed>>

\* The preflight answers that permissions are missing, or they are not, or
\* nothing, which counts as none missing; then the early check for an open
\* conversation, which the application repeats under the lease.
PermissionsKnown(p) ==
  /\ Awaiting(p, "permissions")
  /\ \/ End(p)
     \/ Active(stores[current]) = {} /\ Go(p, "createThread")
  /\ UNCHANGED <<vars, current, threads, archived, doomed>>

\* Mutant: only the application looks for an open conversation.
TickUnchecked(p) ==
  /\ p = Scheduler /\ Awaiting(p, "idle")
  /\ stores[current].status = "WAITING" /\ RoomForStart
  /\ ClaimGate(p)
  /\ task' = [task EXCEPT ![p] = [NoTask EXCEPT !.name = "kickoff",
                                                !.pc = "createThread"]]
  /\ UNCHANGED <<current, threads, archived, doomed>>

\* AutomaticScheduler.tick up to the kickoff's first await.  When it is
\* backing off after failures is the subject of module AutomaticScheduler.
Tick(p) ==
  LET d == stores[current] IN
  /\ p = Scheduler
  /\ Awaiting(p, "idle")
  /\ d.status = "WAITING" /\ d.nextAt # NULL /\ d.nextAt <= clock
  /\ Active(d) = {}
  /\ RoomForStart
  /\ ClaimGate(p)
  /\ task' = [task EXCEPT ![p] = [NoTask EXCEPT !.name = "kickoff",
                                                !.pc = "createThread"]]
  /\ UNCHANGED <<current, threads, archived, doomed>>

\* Discord's ids are never used twice.
FreshThread(t) ==
  /\ t \notin {Home} \cup threads \cup doomed
  /\ \A s \in Stores : \A c \in Rows(stores[s]) : stores[s].conv[c].channel # t
  /\ \A p \in Callers : task[p].thread # t /\ task[p].channel # t

ThreadCreated(p, t) ==
  /\ Awaiting(p, "createThread")
  /\ FreshThread(t)
  /\ threads' = threads \cup {t}
  /\ task' = [task EXCEPT ![p].pc = "serving", ![p].thread = t]
  /\ IF task[p].name = "kickoff" THEN StartClaimedConversation(p, current, t)
                                 ELSE StartConversation(p, current, t)
  /\ UNCHANGED <<current, archived, doomed>>

\* The bound on threads: when no id is left, the hub refuses.
NoThreadLeft == IF \E t \in Channels : FreshThread(t) THEN {} ELSE {"lost"}

\* _create_session_thread raises.
ThreadNotCreated(p, fault) ==
  /\ Awaiting(p, "createThread")
  /\ IF fault = "lost" THEN UNCHANGED threads
     ELSE \E t \in Channels : FreshThread(t) /\ threads' = threads \cup {t}
  /\ End(p)
  /\ IF task[p].name = "kickoff" THEN ReleaseClaim(p) ELSE UNCHANGED vars
  /\ UNCHANGED <<current, archived, doomed>>

\* Mutants: /ask-now takes a busy gate for a reason to leave the thread; it
\* does not know the agent's failure.
KeepsThreadWhenBusy(p) ==
  \/ call[p].outcome = "ok"
  \/ task[p].name = "ask_now" /\ call[p].outcome \in {"escaped", "busy"}
KeepsThreadAfterAgent(p) ==
  \/ call[p].outcome = "ok"
  \/ task[p].name = "ask_now" /\ call[p].outcome \in {"escaped", "agentFailed"}

\* The exceptions /ask-now knows lead to the deletion of the thread; the
\* kickoff deletes it after any exception.
KeepsThread(p) ==
  \/ call[p].outcome = "ok"
  \/ task[p].name = "ask_now" /\ call[p].outcome = "escaped"

StartEnded(p) ==
  /\ Awaiting(p, "serving")
  /\ task[p].name \in {"ask_now", "kickoff"}
  /\ call[p].pc \in {"idle", "claimed"}
  /\ IF KeepsThread(p) THEN End(p) ELSE Go(p, "deleteThread")
  /\ Caught(p)
  /\ UNCHANGED <<current, threads, archived, doomed>>

\* The request to delete a thread ends; it is tried once, whether or not it
\* worked, and the scheduler then gives the lease back.
DeletionEnded(p) ==
  /\ Awaiting(p, "deleteThread")
  /\ threads' \in {threads \ {task[p].thread}} \cup {threads : f \in ThreadFaults}
  /\ End(p)
  /\ IF task[p].name = "kickoff" THEN ReleaseClaim(p) ELSE UNCHANGED vars
  /\ archived' = archived \cap threads'
  /\ UNCHANGED <<current, doomed>>

-----------------------------------------------------------------------------
(* /done, /delete-session, /ask-test, /model and ordinary messages. *)

Done(p) ==
  /\ Running(p, "done")
  /\ CompleteConversation(p, current, task[p].channel)
  /\ Go(p, "serving")
  /\ UNCHANGED <<current, threads, archived, doomed>>

\* Mutant: the thread is archived whatever became of the closure.
DoneAlwaysArchives(p) ==
  /\ Awaiting(p, "serving") /\ task[p].name = "done"
  /\ call[p].pc = "idle"
  /\ Go(p, "archive")
  /\ Caught(p)
  /\ UNCHANGED <<current, threads, archived, doomed>>

DoneEnded(p) ==
  /\ Awaiting(p, "serving") /\ task[p].name = "done"
  /\ call[p].pc = "idle"
  /\ IF call[p].outcome = "ok" THEN Go(p, "archive") ELSE End(p)
  /\ Caught(p)
  /\ UNCHANGED <<current, threads, archived, doomed>>

ArchiveEnded(p) ==
  /\ Awaiting(p, "archive")
  /\ archived' \in {archived \cup (threads \cap {task[p].channel})} \cup {archived : f \in ThreadFaults}
  /\ End(p)
  /\ UNCHANGED <<vars, current, threads, doomed>>

\* Mutant: the thread is looked up in the live store, whichever is current.
DeleteSessionOfLiveStore(p) ==
  /\ Running(p, "delete_session")
  /\ DiscardConversation(p, current, task[p].channel)
  /\ LET gone == IF call'[p].outcome = "ok"
                 THEN DiscardTarget(stores[LiveStore], task[p].channel) ELSE {}
         channels == {stores[LiveStore].conv[c].channel : c \in gone}
     IN IF \E ch \in channels : ch # task[p].channel
        THEN /\ \E ch \in channels :
                  task' = [task EXCEPT ![p].pc = "deleteThread", ![p].thread = ch]
             /\ UNCHANGED doomed
        ELSE End(p) /\ doomed' = doomed \cup channels
  /\ UNCHANGED <<current, threads, archived>>

\* Inside the thread being discarded its deletion is left to a task that
\* waits for the follow-up; elsewhere it is awaited here.
DeleteSession(p) ==
  /\ Running(p, "delete_session")
  /\ DiscardConversation(p, current, task[p].channel)
  /\ LET gone == {c \in Rows(stores[current]) :
                    call'[p].outcome = "ok" /\ c \notin Rows(stores'[current])}
         channels == {stores[current].conv[c].channel : c \in gone}
     IN IF \E ch \in channels : ch # task[p].channel
        THEN /\ \E ch \in channels :
                  task' = [task EXCEPT ![p].pc = "deleteThread", ![p].thread = ch]
             /\ UNCHANGED doomed
        ELSE End(p) /\ doomed' = doomed \cup channels
  /\ UNCHANGED <<current, threads, archived>>

DelayedDeletion(t) ==
  /\ t \in doomed
  /\ doomed' = doomed \ {t}
  /\ threads' \in {threads \ {t}} \cup {threads : f \in ThreadFaults}
  /\ archived' = archived \cap threads'
  /\ UNCHANGED <<vars, current, task>>

\* /ask-test and /model use Pi under a lease of their own.
UseAgent(p) ==
  /\ Running(p, "ask_test") \/ Running(p, "model")
  /\ IF gate = NULL THEN ClaimGate(p) /\ Go(p, "asking")
                    ELSE UNCHANGED vars /\ End(p)
  /\ UNCHANGED <<current, threads, archived, doomed>>

\* Pi answers or raises.  /ask-test records the result after the lease, in
\* the store that is current by then; /model records nothing.
AgentUsed(p) ==
  LET d == stores[current] IN
  /\ Awaiting(p, "asking")
  /\ \/ /\ task[p].name = "model"
        /\ UNCHANGED <<stores, pi>>
     \/ /\ task[p].name = "ask_test"
        /\ \E session \in IF pi.session = NULL THEN Unused ELSE {pi.session} :
             /\ pi' = [session |-> session, file |-> session]
             /\ \E r \in Attempt(d, TRUE, RecordSuccess(d, session)) :
                  stores' = [stores EXCEPT ![current] = r.db]
     \/ /\ task[p].name = "ask_test"
        /\ \E fault \in PiFaults :
             \E r \in IF fault = "broken" THEN {Result(d, "escaped")}
                      ELSE RecordAgentFailure(d, fault) :
               stores' = [stores EXCEPT ![current] = r.db]
        /\ UNCHANGED pi
  /\ gate' = NULL
  /\ call' = [call EXCEPT ![p] = Idle]
  /\ End(p)
  /\ UNCHANGED <<posted, origin, clock, current, threads, archived, doomed>>

\* _process_message: what is not for the open conversation is ignored.  The
\* reply is bound to this store's service and starts once typing is shown.
Message(p, ch) ==
  /\ p # Scheduler
  /\ Awaiting(p, "idle")
  /\ ch \in threads
  /\ \E c \in ActiveIn(stores[current], ch) : stores[current].conv[c].status = "OPEN"
  /\ task' = [task EXCEPT ![p] = [NoTask EXCEPT !.name = "message", !.pc = "typing",
                                                !.store = current, !.channel = ch]]
  /\ UNCHANGED <<vars, current, threads, archived, doomed>>

TypingShown(p) ==
  /\ Awaiting(p, "typing")
  /\ Reply(p, task[p].store, task[p].channel)
  /\ Go(p, "serving")
  /\ UNCHANGED <<current, threads, archived, doomed>>

MessageEnded(p) ==
  /\ Awaiting(p, "serving") /\ task[p].name = "message"
  /\ call[p].pc = "idle"
  /\ End(p)
  /\ Caught(p)
  /\ UNCHANGED <<current, threads, archived, doomed>>

-----------------------------------------------------------------------------
(* Immediate commands, and the process. *)

\* /testing: refused while a conversation is open in the current store.
Testing(s) ==
  /\ s # current
  /\ Active(stores[current]) = {}
  /\ current' = s
  /\ UNCHANGED <<vars, task, threads, archived, doomed>>

PlanCommand == ChangePlan(current) /\ UNCHANGED adapterVars

AdapterRestart ==
  /\ Restart
  /\ current' = LiveStore
  /\ task' = [p \in Callers |-> NoTask]
  /\ doomed' = {}
  /\ UNCHANGED <<threads, archived>>

\* An await inside the application ends.
Served(p) ==
  /\ Awaiting(p, "serving")
  /\ call[p].pc # "claimed"
  /\ Resumed(p)
  /\ UNCHANGED adapterVars

HandlerStep(p) ==
  \/ AskNow(p) \/ PermissionsKnown(p)
  \/ \E t \in Channels : ThreadCreated(p, t)
  \/ \E fault \in ThreadFaults \cup NoThreadLeft : ThreadNotCreated(p, fault)
  \/ StartEnded(p) \/ DeletionEnded(p)
  \/ Done(p) \/ DoneEnded(p) \/ ArchiveEnded(p)
  \/ DeleteSession(p)
  \/ UseAgent(p) \/ AgentUsed(p)
  \/ TypingShown(p) \/ MessageEnded(p)
  \/ Served(p)

AdapterNext ==
  \/ \E p \in Callers :
       \/ HandlerStep(p)
       \/ Tick(p)
       \/ \E ch \in Channels : Message(p, ch) \/ \E name \in Commands : Dispatch(p, name, ch)
  \/ \E t \in Channels : DelayedDeletion(t)
  \/ \E s \in Stores : Testing(s)
  \/ PlanCommand
  \/ AdapterRestart
  \/ (PiRestart \/ TimePasses) /\ UNCHANGED adapterVars

AdapterSpec == AdapterInit /\ [][AdapterNext]_allVars

\* Handlers run to their end: every request they await has a timeout, and
\* they never wait for the gate.
FairAdapterSpec ==
  AdapterSpec /\ \A p \in Callers : WF_allVars(HandlerStep(p))

-----------------------------------------------------------------------------
(* Properties. *)

AdapterTypeOK ==
  /\ TypeOK
  /\ current \in Stores
  /\ task \in [Callers -> Task]
  /\ threads \subseteq Channels \ {Home}
  /\ archived \subseteq threads
  /\ doomed \subseteq Channels \ {Home}

\* The thread of an open conversation is neither deleted nor archived: not by
\* the cleanup of a failed start, not by a closure or a discard of an earlier
\* conversation, and not by a delayed deletion that comes late.
LiveConversationKeepsItsThread ==
  \A s \in Stores, c \in Convs :
    c \in Active(stores[s]) => stores[s].conv[c].channel \in threads \ archived

\* The kickoff checked for an open conversation before it awaited the thread;
\* the lease it holds keeps the answer true.
KickoffFindsNoConversation ==
  \A p \in Callers :
    task[p].name = "kickoff" => call[p].outcome # "alreadyOpen"

\* When the handler of a start that failed is over, its thread is gone again.
FailedStartDeletesItsThread ==
  [][\A p \in Callers :
       /\ task[p].name \in {"ask_now", "kickoff"} /\ task[p].thread # NULL
       /\ task'[p] = NoTask
       /\ call[p].outcome # "ok"
       /\ ~AdapterRestart
       => task[p].thread \notin threads']_allVars

\* While the test store is in use, the live one does not change.
LiveDataUntouchedByTesting ==
  [][current # LiveStore /\ current' # LiveStore =>
       stores'[LiveStore] = stores[LiveStore]]_allVars

\* Every command, message and kickoff comes to an end, and none of them
\* keeps the lease.
HandlersFinish ==
  /\ \A p \in Callers : task[p].pc # "idle" ~> task[p].pc = "idle"
  /\ []<>(gate = NULL)

=============================================================================
