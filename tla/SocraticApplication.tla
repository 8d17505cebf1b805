------------------------ MODULE SocraticApplication ------------------------
(***************************************************************************)
(* SocraticApplication (application.py) and the OperationGate it shares    *)
(* with the hub adapter (operation_gate.py).                               *)
(*                                                                         *)
(* All callers are tasks of one event loop, so a handler is atomic between *)
(* two awaits: each action below is such a segment, named for the await    *)
(* that ended.  A segment may call the store several times; every call may *)
(* raise, and the segment then takes the path of the exception.            *)
(*                                                                         *)
(* Stores holds one SocraticApplication object per data store; all share   *)
(* one gate, one Pi client and one messenger, as in hub_adapter.py.        *)
(***************************************************************************)
EXTENDS StoreOps

CONSTANTS
  Callers,      \* tasks that call the application
  Stores,       \* data stores, each behind an application object
  LiveStore,    \* the store whose session main.py restores at startup
  StoreFaults,  \* how store calls may fail: "fail" rolled back, "late" committed
  PiFaults,     \* "transient", "fatal" (billing, authentication), "broken" pipe
  HubFaults,    \* "lost", "ambiguous" (posted, no answer), "garbled" answer
  MaxTime       \* bound on the clock

ASSUME ApplicationAssumption ==
  /\ LiveStore \in Stores
  /\ NULL \notin Callers
  /\ StoreFaults \subseteq {"fail", "late"}
  /\ PiFaults \subseteq {"transient", "fatal", "broken"}
  /\ HubFaults \subseteq {"lost", "ambiguous", "garbled"}
  /\ MaxTime \in Nat

VARIABLES
  stores,   \* the database of each data store
  gate,     \* OperationGate._lease: the caller holding it, or NULL
  call,     \* what each caller is suspended in, and how its last call ended
  pi,       \* session: the one Pi is in; file: PiRpcClient.session_file
  posted,   \* history: <<store, conversation>> whose card reached Discord
  origin,   \* history: the session the live conversation of a store began in
  clock

vars == <<stores, gate, call, pi, posted, origin, clock>>

\* Where a call may be suspended.
StartAwaits    == {"newSession", "opening", "sendQuestion"}
ReplyAwaits    == {"answering", "sendReply"}
CompleteAwaits == {"carding", "sendCard"}
Awaits == StartAwaits \cup ReplyAwaits \cup CompleteAwaits

\* ApplicationErrors that end a call although it got through the gate; every
\* other exception is "escaped".
Failures == {"agentFailed", "undelivered", "unsaved"}
Outcomes == {"ok", "escaped", "busy", "alreadyOpen", "noActive", "wrongChannel",
             "notOpen", "invalidLease"} \cup Failures

ASSUME OutcomeAssumption == NULL \notin Outcomes

\* A claimed call runs under a lease its caller acquired and will release.
Call == [pc      : Awaits \cup {"idle", "claimed"},
         claimed : BOOLEAN,
         store   : Stores,
         conv    : Convs \cup {NULL},
         channel : Channels \cup {NULL},
         outcome : Outcomes \cup {NULL}]

Idle == [pc |-> "idle", claimed |-> FALSE, store |-> LiveStore, conv |-> NULL,
         channel |-> NULL, outcome |-> NULL]

Init ==
  /\ stores = [s \in Stores |-> FreshDatabase]
  /\ gate = NULL
  /\ call = [p \in Callers |-> Idle]
  /\ pi = [session |-> NULL, file |-> NULL]
  /\ posted = {}
  /\ origin = [s \in Stores |-> NULL]
  /\ clock = 0

-----------------------------------------------------------------------------
(* Segments of a handler, as the set of ways they may end: the database    *)
(* they leave and the outcome they raise, "ok" when they raise nothing.    *)

Result(d, out) == [db |-> d, out |-> out]

\* What follows a store call, and what handles its exception.
AndThen(results, Body(_)) ==
  UNION {IF r.out = "ok" THEN Body(r.db) ELSE {r} : r \in results}

OrElse(results, Handler(_)) ==
  UNION {IF r.out = "ok" THEN {r} ELSE Handler(r.db) : r \in results}

\* One store call that would change d to new.  "late": the transaction
\* committed and the read-back that builds the return value raised.
Attempt(d, can, new) ==
  {IF can THEN Result(new, "ok") ELSE Result(d, "escaped")}
  \cup {Result(d, "escaped") : f \in StoreFaults \cap {"fail"}}
  \cup {Result(IF can THEN new ELSE d, "escaped") : f \in StoreFaults \cap {"late"}}

\* The last store call before out is raised: an exception of its own takes
\* the place of the one being raised.
AndRaise(results, out) == AndThen(results, LAMBDA d : {Result(d, out)})

RecordDeliveryError(d) == Attempt(d, TRUE, RecordError(d, "infrastructure"))

\* _record_agent_failure.
RecordAgentFailure(d, fault) ==
  Attempt(d, TRUE, IF fault = "fatal" THEN RecordPausingError(d, "agent")
                                      ELSE RecordError(d, "agent"))

\* _reopen_after_failed_completion.
ReopenAfterFailure(d, c) == Attempt(d, TRUE, Reopen(d, c))

\* Mutants: the handler completes all the same; it forgets to reopen.
GiveUpCompleting(d, c, out) ==
  AndRaise(Attempt(d, CanComplete(d, c), Complete(d, c, clock)), out)
GiveUpWithoutReopening(d, c, out) == AndRaise(RecordDeliveryError(d), out)

\* The delivery and the persistence handler of _complete_conversation.
GiveUpClosing(d, c, out) ==
  AndThen(RecordDeliveryError(d), LAMBDA e : AndRaise(ReopenAfterFailure(e, c), out))

\* Its handler for the agent's errors, which reopens before it records.
GiveUpCarding(d, c, fault) ==
  AndThen(ReopenAfterFailure(d, c),
          LAMBDA e : AndRaise(RecordAgentFailure(e, fault), "agentFailed"))

\* A store call inside the try of _complete_conversation.
WhileClosing(results, c) ==
  OrElse(results, LAMBDA d : GiveUpClosing(d, c, "unsaved"))

\* Mutant: the closure is not recorded before the card is asked for.
BeginClosingUnmarked(d, c) == {Result(d, "ok")}

\* _complete_conversation up to its first await: an interrupted closure is
\* reopened, outside the try, before it is marked closing again.
BeginClosing(d, c) ==
  AndThen(IF d.conv[c].status = "CLOSING" THEN Attempt(d, TRUE, Reopen(d, c))
                                          ELSE {Result(d, "ok")},
          LAMBDA e : WhileClosing(Attempt(e, CanMarkClosing(e, c), MarkClosing(e, c)), c))

\* Mutant: a second store call, after the insertion, may fail.
InsertAndRecord(d, c, ch) ==
  AndThen(Attempt(d, CanStart(d, c), Start(d, c, ch, clock)),
          LAMBDA e : OrElse(RecordDeliveryError(e), LAMBDA x : {Result(x, "unsaved")}))

\* The insertion that follows a delivered question.
InsertConversation(d, c, ch) ==
  OrElse(Attempt(d, CanStart(d, c), Start(d, c, ch, clock)),
         LAMBDA e : AndRaise(RecordDeliveryError(e), "unsaved"))

-----------------------------------------------------------------------------
(* How a call begins, moves on and ends. *)

Data(p) == stores[call[p].store]
Ready(p) == call[p].pc = "idle"

\* A read that precedes every write of a call may raise.
ReadErrors == IF "fail" \in StoreFaults THEN {"escaped"} ELSE {}

\* The call raises one of the reasons, "busy" before any other, and has
\* changed nothing.
Refuse(p, reasons) ==
  /\ \E out \in IF gate # NULL THEN {"busy"} ELSE reasons \cup ReadErrors :
       call' = [call EXCEPT ![p] = [Idle EXCEPT !.outcome = out]]
  /\ UNCHANGED <<stores, gate, pi, posted, origin, clock>>

\* Mutant: the call does not take the lease it found free.
EnterWithoutLease(p, s, pc, c, ch) ==
  /\ UNCHANGED gate
  /\ call' = [call EXCEPT ![p] = [Idle EXCEPT !.pc = pc, !.store = s,
                                              !.conv = c, !.channel = ch]]

\* try_acquire grants the lease and the call suspends in its first await.
Enter(p, s, pc, c, ch) ==
  /\ gate' = p
  /\ call' = [call EXCEPT ![p] = [Idle EXCEPT !.pc = pc, !.store = s,
                                              !.conv = c, !.channel = ch]]

\* Mutant: the lease is released only when nothing was raised.
ReturnKeepingLease(p, out) ==
  /\ call' = [call EXCEPT ![p] = [Idle EXCEPT !.outcome = out]]
  /\ gate' = IF out = "ok" THEN NULL ELSE gate

\* The call ends and the lease with it, unless the caller brought the lease:
\* it then still has to clean up after a failure.
Return(p, out) ==
  IF call[p].claimed /\ out # "ok"
  THEN /\ call' = [call EXCEPT ![p].pc = "claimed", ![p].outcome = out]
       /\ UNCHANGED gate
  ELSE /\ call' = [call EXCEPT ![p] = [Idle EXCEPT !.outcome = out]]
       /\ gate' = NULL

\* The segment ends as one of results: the call raises or goes on to pc.
Proceed(p, results, pc) ==
  \E r \in results :
    /\ stores' = [stores EXCEPT ![call[p].store] = r.db]
    /\ IF r.out = "ok" /\ pc # "idle"
       THEN call' = [call EXCEPT ![p].pc = pc] /\ UNCHANGED gate
       ELSE Return(p, r.out)

ActiveIn(d, ch) == {c \in ActiveConversation(d) : d.conv[c].channel = ch}

\* _require_active_conversation raises these, or returns ActiveIn(d, ch).
Refusal(d, ch) ==
  IF Active(d) = {} THEN {"noActive"}
  ELSE IF ActiveIn(d, ch) = {} THEN {"wrongChannel"} ELSE {}

-----------------------------------------------------------------------------
(* Calls: start_conversation, start_claimed_conversation, reply,           *)
(* complete_conversation and discard_conversation.                         *)

StartRefusal(d) == IF Active(d) = {} THEN {} ELSE {"alreadyOpen"}

\* The number of conversations is bounded by Convs.
MayStart(d) == Active(d) = {} /\ Rows(d) # Convs

StartConversation(p, s, ch) ==
  /\ Ready(p)
  /\ \/ Refuse(p, StartRefusal(stores[s]))
     \/ /\ gate = NULL
        /\ MayStart(stores[s])
        /\ Enter(p, s, "newSession", NULL, ch)
        /\ UNCHANGED <<stores, pi, posted, origin, clock>>

\* An activation adapter takes the lease first and starts under it.
ClaimGate(p) ==
  /\ Ready(p)
  /\ gate = NULL
  /\ gate' = p
  /\ call' = [call EXCEPT ![p] = [Idle EXCEPT !.pc = "claimed", !.claimed = TRUE]]
  /\ UNCHANGED <<stores, pi, posted, origin, clock>>

\* A caller whose lease is not the gate's current one.
StartWithoutLease(p) ==
  /\ Ready(p)
  /\ call' = [call EXCEPT ![p] = [Idle EXCEPT !.outcome = "invalidLease"]]
  /\ UNCHANGED <<stores, gate, pi, posted, origin, clock>>

StartClaimedConversation(p, s, ch) ==
  /\ call[p].pc = "claimed"
  /\ call[p].outcome = NULL
  /\ \/ \E out \in StartRefusal(stores[s]) \cup ReadErrors : Return(p, out)
     \/ /\ MayStart(stores[s])
        /\ call' = [call EXCEPT ![p].pc = "newSession", ![p].store = s,
                                ![p].channel = ch]
        /\ UNCHANGED gate
  /\ UNCHANGED <<stores, pi, posted, origin, clock>>

ReleaseClaim(p) ==
  /\ call[p].pc = "claimed"
  /\ gate' = NULL
  /\ call' = [call EXCEPT ![p] = Idle]
  /\ UNCHANGED <<stores, pi, posted, origin, clock>>

Reply(p, s, ch) ==
  /\ Ready(p)
  /\ \/ Refuse(p, Refusal(stores[s], ch))
     \/ \E c \in ActiveIn(stores[s], ch) :
          IF stores[s].conv[c].status # "OPEN"
          THEN Refuse(p, {"notOpen"})
          ELSE /\ gate = NULL
               /\ Enter(p, s, "answering", c, ch)
               /\ UNCHANGED <<stores, pi, posted, origin, clock>>

CompleteConversation(p, s, ch) ==
  /\ Ready(p)
  /\ \/ Refuse(p, Refusal(stores[s], ch))
     \/ \E c \in ActiveIn(stores[s], ch) : \E r \in BeginClosing(stores[s], c) :
          /\ gate = NULL
          /\ stores' = [stores EXCEPT ![s] = r.db]
          /\ IF r.out = "ok" THEN Enter(p, s, "carding", c, ch)
             ELSE /\ call' = [call EXCEPT ![p] = [Idle EXCEPT !.outcome = r.out]]
                  /\ UNCHANGED gate
          /\ UNCHANGED <<pi, posted, origin, clock>>

DiscardTarget(d, ch) ==
  IF Active(d) # {} /\ (LatestInChannel(d, ch) = {} \/ ActiveIn(d, ch) # {})
  THEN ActiveConversation(d)
  ELSE LatestInChannel(d, ch)

\* No await: the lease comes and goes within the step.
DiscardConversation(p, s, ch) ==
  /\ Ready(p)
  /\ \/ Refuse(p, IF DiscardTarget(stores[s], ch) = {} THEN {"noActive"} ELSE {})
     \/ \E c \in DiscardTarget(stores[s], ch) :
        \E r \in OrElse(Attempt(stores[s], TRUE, Delete(stores[s], c, clock)),
                        LAMBDA d : {Result(d, "unsaved")}) :
          /\ gate = NULL
          /\ stores' = [stores EXCEPT ![s] = r.db]
          /\ call' = [call EXCEPT ![p] = [Idle EXCEPT !.outcome = r.out]]
          /\ posted' = posted \ {<<s, d>> : d \in Convs \ Rows(r.db)}
          /\ UNCHANGED <<gate, pi, origin, clock>>

-----------------------------------------------------------------------------
(* Awaits that end. *)

\* Sessions nothing refers to: what Pi's new_session may create.
Unused == Sessions \ ({pi.session, pi.file}
                      \cup {stores[s].session : s \in Stores}
                      \cup {origin[s] : s \in {t \in Stores : Active(stores[t]) # {}}})

NewSessionCreated(p, session) ==
  /\ call[p].pc = "newSession"
  /\ session \in Unused
  /\ pi' = [session |-> session, file |-> session]
  /\ Proceed(p, {Result(Data(p), "ok")}, "opening")
  /\ UNCHANGED <<posted, origin, clock>>

\* PiRpcClient.prompt notes the session file, then _record_agent_result.
PromptAnswered(p) ==
  LET recorded == Attempt(Data(p), TRUE, RecordSuccess(Data(p), pi.session)) IN
  /\ pi' = [pi EXCEPT !.file = pi.session]
  /\ \/ /\ call[p].pc = "opening"
        /\ origin' = [origin EXCEPT ![call[p].store] = pi.session]
        /\ Proceed(p, recorded, "sendQuestion")
     \/ /\ call[p].pc = "answering"
        /\ Proceed(p, recorded, "sendReply")
        /\ UNCHANGED origin
     \/ /\ call[p].pc = "carding"
        /\ Proceed(p, WhileClosing(recorded, call[p].conv), "sendCard")
        /\ UNCHANGED origin
  /\ UNCHANGED <<posted, clock>>

\* The Pi client raises: PiRpcError, or "broken": any other exception.  A
\* failed new_session may have changed Pi's session before it failed.
AgentFailed(p, fault) ==
  /\ call[p].pc \in {"newSession", "opening", "answering", "carding"}
  /\ \/ UNCHANGED pi
     \/ /\ call[p].pc = "newSession"
        /\ \E session \in Unused : pi' = [pi EXCEPT !.session = session]
  /\ Proceed(p, CASE fault = "broken" -> {Result(Data(p), "escaped")}
                  [] fault # "broken" /\ call[p].pc = "carding" ->
                       GiveUpCarding(Data(p), call[p].conv, fault)
                  [] OTHER -> AndRaise(RecordAgentFailure(Data(p), fault), "agentFailed"),
             "idle")
  /\ UNCHANGED <<posted, origin, clock>>

QuestionSent(p, c) ==
  /\ call[p].pc = "sendQuestion"
  /\ Data(p).conv[c].status = "ABSENT"
  /\ Proceed(p, InsertConversation(Data(p), c, call[p].channel), "idle")
  /\ UNCHANGED <<pi, posted, origin, clock>>

ReplySent(p) ==
  /\ call[p].pc = "sendReply"
  /\ Proceed(p, {Result(Data(p), "ok")}, "idle")
  /\ UNCHANGED <<pi, posted, origin, clock>>

CardSent(p) ==
  LET c == call[p].conv IN
  /\ call[p].pc = "sendCard"
  /\ posted' = posted \cup {<<call[p].store, c>>}
  /\ Proceed(p, WhileClosing(Attempt(Data(p), CanComplete(Data(p), c),
                                     Complete(Data(p), c, clock)), c), "idle")
  /\ UNCHANGED <<pi, origin, clock>>

\* The messenger raises: MessageDeliveryFailed, or "garbled": the hub posted
\* the message, but its answer, or the id in it, cannot be read.
DeliveryFailed(p, fault) ==
  /\ call[p].pc \in {"sendQuestion", "sendReply", "sendCard"}
  /\ posted' = IF call[p].pc # "sendCard" \/ fault = "lost" THEN posted
               ELSE posted \cup {<<call[p].store, call[p].conv>>}
  /\ Proceed(p, CASE fault = "garbled" -> {Result(Data(p), "escaped")}
                  [] fault # "garbled" /\ call[p].pc = "sendCard" ->
                       GiveUpClosing(Data(p), call[p].conv, "undelivered")
                  [] OTHER -> AndRaise(RecordDeliveryError(Data(p)), "undelivered"),
             "idle")
  /\ UNCHANGED <<pi, origin, clock>>

-----------------------------------------------------------------------------
(* What happens around the calls. *)

\* /pause, /resume and /interval take no lease.
ChangePlan(s) ==
  /\ \E d \in {Pause(stores[s]), Resume(stores[s], clock)}
              \cup {SetInterval(stores[s], i, clock) : i \in Intervals} :
       stores' = [stores EXCEPT ![s] = d]
  /\ UNCHANGED <<gate, call, pi, posted, origin, clock>>

\* Mutant: the new process is not told the session file.
PiRestartAfresh ==
  /\ pi' = [pi EXCEPT !.session = NULL]
  /\ UNCHANGED <<stores, gate, call, posted, origin, clock>>

\* The Pi process goes away, by itself or reset after a timeout; the next
\* request starts one in the session file the client remembers.
PiRestart ==
  /\ pi' = [pi EXCEPT !.session = pi.file]
  /\ UNCHANGED <<stores, gate, call, posted, origin, clock>>

\* The process stops anywhere and comes back: only the databases survive,
\* and main.py hands Pi the session of the live one.
Restart ==
  /\ gate' = NULL
  /\ call' = [p \in Callers |-> Idle]
  /\ pi' = [session |-> stores[LiveStore].session, file |-> stores[LiveStore].session]
  /\ UNCHANGED <<stores, posted, origin, clock>>

TimePasses ==
  /\ clock < MaxTime
  /\ clock' = clock + 1
  /\ UNCHANGED <<stores, gate, call, pi, posted, origin>>

Request(p) ==
  \/ ClaimGate(p)
  \/ StartWithoutLease(p)
  \/ \E s \in Stores, ch \in Channels :
       \/ StartConversation(p, s, ch)
       \/ StartClaimedConversation(p, s, ch)
       \/ Reply(p, s, ch)
       \/ CompleteConversation(p, s, ch)
       \/ DiscardConversation(p, s, ch)

\* An await of p ends: every request to Pi and to the hub has a timeout.
Resumed(p) ==
  \/ \E session \in Sessions : NewSessionCreated(p, session)
  \/ PromptAnswered(p)
  \/ \E fault \in PiFaults : AgentFailed(p, fault)
  \/ \E c \in Convs : QuestionSent(p, c)
  \/ ReplySent(p)
  \/ CardSent(p)
  \/ \E fault \in HubFaults : DeliveryFailed(p, fault)
  \/ ReleaseClaim(p)

Next ==
  \/ \E p \in Callers : Request(p) \/ Resumed(p)
  \/ \E s \in Stores : ChangePlan(s)
  \/ PiRestart
  \/ Restart
  \/ TimePasses

Spec == Init /\ [][Next]_vars

-----------------------------------------------------------------------------
(* Properties. *)

TypeOK ==
  /\ stores \in [Stores -> Database]
  /\ gate \in Callers \cup {NULL}
  /\ call \in [Callers -> Call]
  /\ pi \in [session : Sessions \cup {NULL}, file : Sessions \cup {NULL}]
  /\ posted \subseteq Stores \X Convs
  /\ origin \in [Stores -> Sessions \cup {NULL}]
  /\ clock \in 0..MaxTime

\* The lease is held exactly while a call is in flight: on no path, raised
\* errors and restarts included, is it kept or given to a second call.
LeaseFollowsFlight ==
  \A p \in Callers : gate = p <=> call[p].pc # "idle"

\* While a start waits for Pi and for Discord no conversation appears in its
\* store, so the row it inserts after posting the question never collides.
StartNeverCollides ==
  \A p \in Callers : call[p].pc \in StartAwaits => Active(Data(p)) = {}

\* The conversation a reply or a closure read before its awaits is still the
\* live one, with the status it read, when it writes after them.
FlightKeepsItsRow ==
  \A p \in Callers :
    /\ call[p].pc \in ReplyAwaits =>
         Active(Data(p)) = {call[p].conv} /\ CanMarkClosing(Data(p), call[p].conv)
    /\ call[p].pc \in CompleteAwaits =>
         Active(Data(p)) = {call[p].conv} /\ CanComplete(Data(p), call[p].conv)

\* A closure that reports a failure to its caller leaves the conversation
\* open for another try.  Only an exception the handlers do not know, or a
\* crash, strands it in CLOSING.
FailedClosureReopens ==
  [][\A p \in Callers, c \in Convs :
       /\ call[p].pc \in CompleteAwaits /\ call[p].conv = c
       /\ call'[p].outcome \in Failures
       => stores'[call[p].store].conv[c].status # "CLOSING"]_vars

\* A conversation is recorded as completed only when its session card has
\* reached Discord.
CompletedWasPosted ==
  \A s \in Stores, c \in Convs :
    stores[s].conv[c].status = "COMPLETED" => <<s, c>> \in posted

\* A start that reports a failure leaves no conversation behind.
FailedStartLeavesNothing ==
  [][\A p \in Callers :
       /\ call[p].pc \in StartAwaits
       /\ call'[p].outcome \in Failures
       => Active(stores'[call[p].store]) = {}]_vars

\* Whatever happened to the Pi process, to failed starts and to this process
\* in between, a reply or a session card is asked for in the session the
\* conversation began in.
ConversationKeepsItsSession ==
  \A p \in Callers :
    call[p].pc \in {"answering", "carding"} => pi.session = origin[call[p].store]

\* The application of each store implements the lifecycle of conversations:
\* although one segment may make several store calls, and fail between them,
\* it is never more than one step of the lifecycle, whatever is done to the
\* other stores meanwhile.
LiveRow(s) == IF Active(stores[s]) = {} THEN NULL
              ELSE CHOOSE c \in Active(stores[s]) : TRUE

Lifecycle(s) == INSTANCE ConversationLifecycle WITH
  live    <- LiveRow(s),
  closing <- \E c \in Active(stores[s]) : stores[s].conv[c].status = "CLOSING",
  archive <- {c \in Convs : stores[s].conv[c].status = "COMPLETED"}

\* What Lifecycle(s)!Spec says, of all stores at once: TLC does not take a
\* quantifier over temporal formulas.
ImplementsLifecycle ==
  /\ \A s \in Stores : Lifecycle(s)!Init
  /\ [][\A s \in Stores : [Lifecycle(s)!Next]_(Lifecycle(s)!vars)]_vars

=============================================================================
