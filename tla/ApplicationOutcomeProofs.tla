-------------------- MODULE ApplicationOutcomeProofs ------------------------
(***************************************************************************)
(* What follows from the invariant of SocraticApplicationProofs: how       *)
(* failed closures and failed starts end, that the application implements  *)
(* the lifecycle of conversations, that a conversation keeps its Pi        *)
(* session, and which exceptions escape.  The lemmas on channels and on    *)
(* the calls of others say what each step leaves to the hub adapter.       *)
(***************************************************************************)
EXTENDS SocraticApplicationProofs

-----------------------------------------------------------------------------
(* How a call that was suspended ends: FailedClosureReopens and            *)
(* FailedStartLeavesNothing.                                               *)

\* A segment writes one of its results, and raises its outcome or, if the
\* call goes on, nothing.
LEMMA ProceedOutcome ==
  ASSUME Inv, NEW p \in Callers, call[p].pc \in Awaits, NEW results, NEW next,
         Proceed(p, results, next)
  PROVE  \E r \in results : /\ stores'[call[p].store] = r.db
                            /\ call'[p].outcome \in {r.out, NULL}
<1>1. PICK r \in results :
           /\ stores' = [stores EXCEPT ![call[p].store] = r.db]
           /\ \/ /\ r.out = "ok" /\ next # "idle"
                 /\ call' = [call EXCEPT ![p].pc = next] /\ gate' = gate
              \/ (r.out # "ok" \/ next = "idle") /\ Return(p, r.out)
  BY ProceedEnds
<1>2. call \in [Callers -> Call] /\ stores \in [Stores -> Database] /\ call[p].store \in Stores
  BY SuspendedCall DEF Inv, TypeOK
<1>3. stores'[call[p].store] = r.db
  BY <1>1, <1>2
<1>4. CASE call' = [call EXCEPT ![p].pc = next]
  <2>1. call[p].outcome = NULL
    BY DEF Inv, CallsCoherent
  <2>2. call'[p] = [call[p] EXCEPT !.pc = next]
    BY <1>2, <1>4
  <2>3. call'[p].outcome = call[p].outcome
    BY <1>2, <2>2 DEF Call
  <2> QED
    BY <1>3, <2>1, <2>3
<1>5. CASE Return(p, r.out)
  <2> DEFINE out == r.out
  <2>1. Return(p, out)
    BY <1>5
  <2> HIDE DEF out
  <2>2. CASE call[p].claimed /\ out # "ok"
    <3>1. call'[p] = [[call[p] EXCEPT !.pc = "claimed"] EXCEPT !.outcome = out]
      BY <1>2, <2>1, <2>2 DEF Return, Call
    <3>2. call'[p].outcome = out
      BY <1>2, <3>1 DEF Call
    <3> QED
      BY <1>3, <3>2 DEF out
  <2>3. CASE ~(call[p].claimed /\ out # "ok")
    <3>1. call'[p] = [Idle EXCEPT !.outcome = out]
      BY <1>2, <2>1, <2>3 DEF Return
    <3>2. call'[p].outcome = out
      BY <3>1 DEF Idle
    <3> QED
      BY <1>3, <3>2 DEF out
  <2> QED
    BY <2>2, <2>3
<1> QED
  BY <1>1, <1>4, <1>5

\* Whatever another task does meanwhile, a suspended call stays as it is.
LEMMA SuspendedStays ==
  ASSUME Inv, [Next]_vars, NEW p \in Callers, call[p].pc \in Awaits, ~Resumed(p), ~Restart
  PROVE  call'[p] = call[p]
<1>1. call \in [Callers -> Call]
  BY DEF Inv, TypeOK
<1>2. call[p].pc # "idle" /\ call[p].pc # "claimed"
  BY DEF Awaits, StartAwaits, ReplyAwaits, CompleteAwaits
<1>3. \A q \in Callers \ {p} : call[q].pc = "idle"
  BY <1>2, OneInFlight
<1>4. gate # NULL
  BY <1>2, OneInFlight, ApplicationAssumption
<1>5. ASSUME NEW q \in Callers, Request(q)
      PROVE  call'[p] = call[p]
  <2>1. ASSUME Ready(q), NEW new, call' = [call EXCEPT ![q] = new]
        PROVE  call'[p] = call[p]
    BY <1>1, <1>2, <2>1 DEF Ready
  <2>2. ASSUME Ready(q), NEW reasons, Refuse(q, reasons)
        PROVE  call'[p] = call[p]
    BY <2>1, <2>2 DEF Refuse
  <2>3. CASE ClaimGate(q)
    BY <1>4, <2>3 DEF ClaimGate
  <2>4. CASE StartWithoutLease(q)
    BY <2>1, <2>4 DEF StartWithoutLease
  <2>5. ASSUME NEW s \in Stores, NEW ch \in Channels, StartConversation(q, s, ch)
        PROVE  call'[p] = call[p]
    BY <1>4, <2>2, <2>5 DEF StartConversation
  <2>6. ASSUME NEW s \in Stores, NEW ch \in Channels, StartClaimedConversation(q, s, ch)
        PROVE  call'[p] = call[p]
    BY <1>2, <1>3, <2>6 DEF StartClaimedConversation
  <2>7. ASSUME NEW s \in Stores, NEW ch \in Channels, Reply(q, s, ch)
        PROVE  call'[p] = call[p]
    BY <1>4, <2>2, <2>7 DEF Reply
  <2>8. ASSUME NEW s \in Stores, NEW ch \in Channels, CompleteConversation(q, s, ch)
        PROVE  call'[p] = call[p]
    BY <1>4, <2>2, <2>8 DEF CompleteConversation
  <2>9. ASSUME NEW s \in Stores, NEW ch \in Channels, DiscardConversation(q, s, ch)
        PROVE  call'[p] = call[p]
    BY <1>4, <2>2, <2>9 DEF DiscardConversation
  <2> QED
    BY <1>5, <2>3, <2>4, <2>5, <2>6, <2>7, <2>8, <2>9 DEF Request
<1>6. ASSUME NEW q \in Callers, q # p, Resumed(q)
      PROVE  call'[p] = call[p]
  <2>1. call[q].pc = "idle"
    BY <1>3, <1>6
  <2> QED
    BY <1>6, <2>1 DEF Resumed, NewSessionCreated, PromptAnswered, AgentFailed, QuestionSent,
                      ReplySent, CardSent, DeliveryFailed, ReleaseClaim
<1>7. (\E s \in Stores : ChangePlan(s)) \/ PiRestart \/ TimePasses \/ UNCHANGED vars
      => call' = call
  BY DEF ChangePlan, PiRestart, TimePasses, vars
<1> QED
  BY <1>5, <1>6, <1>7 DEF Next

\* One await of a closure ends; no failure it reports leaves it in CLOSING.
LEMMA ResumedClosure ==
  ASSUME Inv, NEW p \in Callers, call[p].pc \in CompleteAwaits, Resumed(p),
         call'[p].outcome \in Failures
  PROVE  stores'[call[p].store].conv[call[p].conv].status # "CLOSING"
<1> DEFINE c == call[p].conv
<1>1. /\ c \in Convs /\ Data(p).conv[c].status = "CLOSING"
      /\ StoreInv(Data(p), clock) /\ clock \in Nat
      /\ pi.session \in Sessions \cup {NULL}
  BY SuspendedCall
<1>2. call[p].pc \in Awaits /\ call[p].pc \in {"carding", "sendCard"}
  BY DEF Awaits, CompleteAwaits
<1>3. /\ "ok" \notin Failures /\ "escaped" \notin Failures /\ NULL \notin Failures
      /\ call'[p].outcome # NULL
  BY OutcomeAssumption DEF Outcomes, Failures
<1>4. ASSUME NEW results, NEW next, Proceed(p, results, next),
             \A r \in results : r.out \in Failures => r.db.conv[c].status # "CLOSING"
      PROVE  stores'[call[p].store].conv[c].status # "CLOSING"
  <2>1. PICK r \in results : /\ stores'[call[p].store] = r.db
                             /\ call'[p].outcome \in {r.out, NULL}
    BY <1>2, <1>4, ProceedOutcome
  <2>2. r.out \in Failures
    BY <1>3, <2>1
  <2> QED
    BY <1>4, <2>1, <2>2
<1>5. CASE call[p].pc = "carding"
  <2>1. CASE PromptAnswered(p)
    <3> DEFINE results == WhileClosing(Attempt(Data(p), TRUE, RecordSuccess(Data(p), pi.session)), c)
    <3>1. Proceed(p, results, "sendCard")
      BY <1>5, <2>1 DEF PromptAnswered
    <3>2. ASSUME NEW r \in results, r.out \in Failures
          PROVE  r.db.conv[c].status # "CLOSING"
      <4>1. Carded(Data(p), r, c, pi.session, clock)
        BY <1>1, CardingEnds
      <4> QED
        BY <1>3, <3>2, <4>1 DEF Carded
    <3> HIDE DEF results
    <3> QED
      BY <1>4, <3>1, <3>2
  <2>2. ASSUME NEW fault, AgentFailed(p, fault)
        PROVE  stores'[call[p].store].conv[c].status # "CLOSING"
    <3> DEFINE results ==
          CASE fault = "broken" -> {Result(Data(p), "escaped")}
            [] fault # "broken" /\ call[p].pc = "carding" ->
                 GiveUpCarding(Data(p), call[p].conv, fault)
            [] OTHER -> AndRaise(RecordAgentFailure(Data(p), fault), "agentFailed")
    <3>1. Proceed(p, results, "idle")
      BY <2>2 DEF AgentFailed
    <3>2. ASSUME NEW r \in results, r.out \in Failures
          PROVE  r.db.conv[c].status # "CLOSING"
      <4>1. CASE fault = "broken"
        <5>1. r.out = "escaped"
          BY <3>2, <4>1 DEF Result
        <5> QED
          BY <1>3, <3>2, <5>1
      <4>2. CASE fault # "broken"
        <5>1. r \in GiveUpCarding(Data(p), c, fault)
          BY <1>5, <3>2, <4>2
        <5>2. GaveUp(Data(p), r, c, "agentFailed", clock)
          BY <1>1, <5>1, GiveUpCardingEnds
        <5> QED
          BY <1>3, <3>2, <5>2 DEF GaveUp
      <4> QED
        BY <4>1, <4>2
    <3> HIDE DEF results
    <3> QED
      BY <1>4, <3>1, <3>2
  <2> QED
    BY <1>5, <2>1, <2>2 DEF Resumed, NewSessionCreated, QuestionSent, ReplySent, CardSent,
                            DeliveryFailed, ReleaseClaim
<1>6. CASE call[p].pc = "sendCard"
  <2>1. CASE CardSent(p)
    <3> DEFINE results == WhileClosing(Attempt(Data(p), CanComplete(Data(p), c),
                                               Complete(Data(p), c, clock)), c)
    <3>1. Proceed(p, results, "idle")
      BY <2>1 DEF CardSent
    <3>2. ASSUME NEW r \in results, r.out \in Failures
          PROVE  r.db.conv[c].status # "CLOSING"
      <4>1. /\ r.out \in {"ok", "escaped", "unsaved"}
            /\ r.out = "unsaved" => r.db.conv[c].status # "CLOSING"
        BY <1>1, CompletionEnds
      <4> QED
        BY <1>3, <3>2, <4>1
    <3> HIDE DEF results
    <3> QED
      BY <1>4, <3>1, <3>2
  <2>2. ASSUME NEW fault, DeliveryFailed(p, fault)
        PROVE  stores'[call[p].store].conv[c].status # "CLOSING"
    <3> DEFINE results ==
          CASE fault = "garbled" -> {Result(Data(p), "escaped")}
            [] fault # "garbled" /\ call[p].pc = "sendCard" ->
                 GiveUpClosing(Data(p), call[p].conv, "undelivered")
            [] OTHER -> AndRaise(RecordDeliveryError(Data(p)), "undelivered")
    <3>1. Proceed(p, results, "idle")
      BY <2>2 DEF DeliveryFailed
    <3>2. ASSUME NEW r \in results, r.out \in Failures
          PROVE  r.db.conv[c].status # "CLOSING"
      <4>1. CASE fault = "garbled"
        <5>1. r.out = "escaped"
          BY <3>2, <4>1 DEF Result
        <5> QED
          BY <1>3, <3>2, <5>1
      <4>2. CASE fault # "garbled"
        <5>1. r \in GiveUpClosing(Data(p), c, "undelivered")
          BY <1>6, <3>2, <4>2
        <5>2. GaveUp(Data(p), r, c, "undelivered", clock)
          BY <1>1, <5>1, GiveUpClosingEnds
        <5> QED
          BY <1>3, <3>2, <5>2 DEF GaveUp
      <4> QED
        BY <4>1, <4>2
    <3> HIDE DEF results
    <3> QED
      BY <1>4, <3>1, <3>2
  <2> QED
    BY <1>6, <2>1, <2>2 DEF Resumed, NewSessionCreated, QuestionSent, ReplySent, PromptAnswered,
                            AgentFailed, ReleaseClaim
<1> QED
  BY <1>2, <1>5, <1>6

\* The outcome of a suspended call is still open; after a restart it is forgotten.
LEMMA StaysWithoutOutcome ==
  ASSUME Inv, [Next]_vars, NEW p \in Callers, call[p].pc \in Awaits, ~Resumed(p)
  PROVE  call'[p].outcome \notin Failures
<1>1. call[p].outcome = NULL
  BY DEF Inv, CallsCoherent
<1>2. NULL \notin Failures
  BY OutcomeAssumption DEF Outcomes
<1>3. CASE Restart
  BY <1>2, <1>3 DEF Restart, Idle
<1>4. CASE ~Restart
  BY <1>1, <1>2, <1>4, SuspendedStays
<1> QED
  BY <1>3, <1>4

\* complete_conversation and its handlers: a reported failure leaves the
\* conversation open for another try.
THEOREM ClosureCorrect == Spec => FailedClosureReopens
<1>1. ASSUME Inv, [Next]_vars
      PROVE  \A p \in Callers, c \in Convs :
               /\ call[p].pc \in CompleteAwaits /\ call[p].conv = c
               /\ call'[p].outcome \in Failures
               => stores'[call[p].store].conv[c].status # "CLOSING"
  <2> SUFFICES ASSUME NEW p \in Callers,
                      call[p].pc \in CompleteAwaits,
                      call'[p].outcome \in Failures
               PROVE  stores'[call[p].store].conv[call[p].conv].status # "CLOSING"
    OBVIOUS
  <2>1. call[p].pc \in Awaits
    BY DEF Awaits
  <2>2. Resumed(p)
    BY <1>1, <2>1, StaysWithoutOutcome
  <2> QED
    BY <1>1, <2>2, ResumedClosure
<1> QED
  BY <1>1, ApplicationCoherent, PTL DEF Spec, FailedClosureReopens
-----------------------------------------------------------------------------
(* FailedStartLeavesNothing, unless the read-back of a committed start may *)
(* raise.                                                                  *)

\* Without that fault, an insertion that is reported as failed inserted nothing.
LEMMA FailedInsertion ==
  ASSUME "late" \notin StoreFaults, NEW d, clock \in Nat, StoreInv(d, clock),
         NEW c \in Convs, NEW ch \in Channels,
         NEW r \in InsertConversation(d, c, ch), r.out = "unsaved"
  PROVE  r.db.conv = d.conv
<1> DEFINE new == Start(d, c, ch, clock)
           can == CanStart(d, c)
<1>1. PICK q \in Attempt(d, can, new) :
            \/ q.out = "ok" /\ r = q
            \/ q.out # "ok" /\ r \in AndRaise(RecordDeliveryError(q.db), "unsaved")
  BY DEF InsertConversation, OrElse
<1> HIDE DEF new, can
<1>2. q.out # "ok" => q.db = d
  BY DEF Attempt, Result
<1>3. r \in AndRaise(RecordDeliveryError(d), "unsaved")
  BY <1>1, <1>2
<1>4. PICK t \in RecordDeliveryError(d) :
            \/ t.out = "ok" /\ r = Result(t.db, "unsaved")
            \/ t.out # "ok" /\ r = t
  BY <1>3, RaiseEnds
<1>5. Kept(d, t.db, clock)
  BY DeliveryErrorEnds
<1>6. r.db = t.db
  BY <1>4 DEF Result
<1> QED
  BY <1>5, <1>6 DEF Kept

\* One await of a start ends; a failure it reports leaves no live conversation.
LEMMA ResumedStart ==
  ASSUME "late" \notin StoreFaults, Inv, NEW p \in Callers, call[p].pc \in StartAwaits,
         Resumed(p), call'[p].outcome \in Failures
  PROVE  Active(stores'[call[p].store]) = {}
<1>1. /\ StoreInv(Data(p), clock) /\ clock \in Nat
      /\ call[p].channel \in Channels
      /\ Active(Data(p)) = {}
  BY SuspendedCall DEF Inv, StartNeverCollides
<1>2. call[p].pc \in Awaits /\ call[p].pc \in {"newSession", "opening", "sendQuestion"}
  BY DEF Awaits, StartAwaits
<1>3. /\ "ok" \notin Failures /\ "escaped" \notin Failures /\ NULL \notin Failures
      /\ call'[p].outcome # NULL
  BY OutcomeAssumption DEF Outcomes, Failures
<1>4. ASSUME NEW results, NEW next, Proceed(p, results, next),
             \A r \in results : r.out \in Failures => r.db.conv = Data(p).conv
      PROVE  Active(stores'[call[p].store]) = {}
  <2>1. PICK r \in results : /\ stores'[call[p].store] = r.db
                             /\ call'[p].outcome \in {r.out, NULL}
    BY <1>2, <1>4, ProceedOutcome
  <2>2. r.out \in Failures
    BY <1>3, <2>1
  <2>3. stores'[call[p].store].conv = Data(p).conv
    BY <1>4, <2>1, <2>2
  <2> QED
    BY <1>1, <2>3 DEF Active
<1>5. ASSUME NEW session, NewSessionCreated(p, session)
      PROVE  Active(stores'[call[p].store]) = {}
  <2> DEFINE results == {Result(Data(p), "ok")}
  <2>1. Proceed(p, results, "opening") /\ \A r \in results : r.out = "ok"
    BY <1>5 DEF NewSessionCreated, Result
  <2> HIDE DEF results
  <2> QED
    BY <1>3, <1>4, <2>1
<1>6. CASE PromptAnswered(p)
  <2> DEFINE results == Attempt(Data(p), TRUE, RecordSuccess(Data(p), pi.session))
  <2>1. Proceed(p, results, "sendQuestion")
    BY <1>2, <1>6 DEF PromptAnswered
  <2>2. \A r \in results : r.out \in {"ok", "escaped"}
    BY AttemptEnds
  <2> HIDE DEF results
  <2> QED
    BY <1>3, <1>4, <2>1, <2>2
<1>7. ASSUME NEW fault, AgentFailed(p, fault)
      PROVE  Active(stores'[call[p].store]) = {}
  <2> DEFINE results ==
        CASE fault = "broken" -> {Result(Data(p), "escaped")}
          [] fault # "broken" /\ call[p].pc = "carding" ->
               GiveUpCarding(Data(p), call[p].conv, fault)
          [] OTHER -> AndRaise(RecordAgentFailure(Data(p), fault), "agentFailed")
  <2>1. Proceed(p, results, "idle")
    BY <1>7 DEF AgentFailed
  <2>2. ASSUME NEW r \in results
        PROVE  r.db.conv = Data(p).conv
    <3>1. CASE fault = "broken"
      BY <2>2, <3>1 DEF Result
    <3>2. CASE fault # "broken"
      <4>1. r \in AndRaise(RecordAgentFailure(Data(p), fault), "agentFailed")
        BY <1>2, <2>2, <3>2
      <4>2. PICK q \in RecordAgentFailure(Data(p), fault) :
                \/ q.out = "ok" /\ r = Result(q.db, "agentFailed")
                \/ q.out # "ok" /\ r = q
        BY <4>1, RaiseEnds
      <4>3. Kept(Data(p), q.db, clock)
        BY <1>1, AgentFailureEnds
      <4>4. r.db = q.db
        BY <4>2 DEF Result
      <4> QED
        BY <4>3, <4>4 DEF Kept
    <3> QED
      BY <3>1, <3>2
  <2> HIDE DEF results
  <2> QED
    BY <1>4, <2>1, <2>2
<1>8. ASSUME NEW c \in Convs, QuestionSent(p, c)
      PROVE  Active(stores'[call[p].store]) = {}
  <2> DEFINE results == InsertConversation(Data(p), c, call[p].channel)
  <2>1. Proceed(p, results, "idle")
    BY <1>8 DEF QuestionSent
  <2>2. ASSUME NEW r \in results, r.out \in Failures
        PROVE  r.db.conv = Data(p).conv
    <3>1. r.out \in {"ok", "escaped", "unsaved"}
      BY <1>1, InsertEnds
    <3>2. r.out = "unsaved"
      BY <1>3, <2>2, <3>1
    <3> QED
      BY <1>1, <3>2, FailedInsertion
  <2> HIDE DEF results
  <2> QED
    BY <1>4, <2>1, <2>2
<1>9. ASSUME NEW fault, DeliveryFailed(p, fault)
      PROVE  Active(stores'[call[p].store]) = {}
  <2> DEFINE results ==
        CASE fault = "garbled" -> {Result(Data(p), "escaped")}
          [] fault # "garbled" /\ call[p].pc = "sendCard" ->
               GiveUpClosing(Data(p), call[p].conv, "undelivered")
          [] OTHER -> AndRaise(RecordDeliveryError(Data(p)), "undelivered")
  <2>1. Proceed(p, results, "idle")
    BY <1>9 DEF DeliveryFailed
  <2>2. ASSUME NEW r \in results
        PROVE  r.db.conv = Data(p).conv
    <3>1. CASE fault = "garbled"
      BY <2>2, <3>1 DEF Result
    <3>2. CASE fault # "garbled"
      <4>1. r \in AndRaise(RecordDeliveryError(Data(p)), "undelivered")
        BY <1>2, <2>2, <3>2
      <4>2. PICK q \in RecordDeliveryError(Data(p)) :
                \/ q.out = "ok" /\ r = Result(q.db, "undelivered")
                \/ q.out # "ok" /\ r = q
        BY <4>1, RaiseEnds
      <4>3. Kept(Data(p), q.db, clock)
        BY <1>1, DeliveryErrorEnds
      <4>4. r.db = q.db
        BY <4>2 DEF Result
      <4> QED
        BY <4>3, <4>4 DEF Kept
    <3> QED
      BY <3>1, <3>2
  <2> HIDE DEF results
  <2> QED
    BY <1>4, <2>1, <2>2
<1> QED
  BY <1>2, <1>5, <1>6, <1>7, <1>8, <1>9 DEF Resumed, ReplySent, CardSent, ReleaseClaim

\* start_conversation: a reported failure leaves no conversation behind, unless
\* the read-back of a committed insertion may raise.
THEOREM FailedStartCorrect ==
  ASSUME "late" \notin StoreFaults
  PROVE  Spec => FailedStartLeavesNothing
<1>1. ASSUME Inv, [Next]_vars
      PROVE  \A p \in Callers :
               /\ call[p].pc \in StartAwaits
               /\ call'[p].outcome \in Failures
               => Active(stores'[call[p].store]) = {}
  <2> SUFFICES ASSUME NEW p \in Callers,
                      call[p].pc \in StartAwaits,
                      call'[p].outcome \in Failures
               PROVE  Active(stores'[call[p].store]) = {}
    OBVIOUS
  <2>1. call[p].pc \in Awaits
    BY DEF Awaits
  <2>2. Resumed(p)
    BY <1>1, <2>1, StaysWithoutOutcome
  <2> QED
    BY <1>1, <2>2, ResumedStart
<1> QED
  BY <1>1, ApplicationCoherent, PTL DEF Spec, FailedStartLeavesNothing

-----------------------------------------------------------------------------
(* The refinement of ConversationLifecycle.                                *)

\* From d to e at most the row of one conversation has moved, and that by at
\* most one step of the lifecycle; only a start that has sent its question
\* opens one, and the session noted is the one Pi is in.
RowStep(d, e, c) ==
  /\ \A x \in Convs \ {c} : e.conv[x] = d.conv[x]
  /\ \/ e.conv[c].status = d.conv[c].status
     \/ /\ d.conv[c].status = "ABSENT" /\ Active(d) = {}
        /\ e.conv[c].status = "OPEN"
        /\ \E p \in Callers : call[p].pc = "sendQuestion"
     \/ d.conv[c].status = "OPEN" /\ e.conv[c].status = "CLOSING"
     \/ d.conv[c].status = "CLOSING" /\ e.conv[c].status \in {"OPEN", "COMPLETED"}
     \/ e.conv[c].status = "ABSENT"

OneStep(d, e) ==
  /\ e.session \in {d.session, pi.session}
  /\ e.conv = d.conv \/ \E c \in Convs : RowStep(d, e, c)

\* A write to one store is at most one step in every store.
LEMMA WriteIsOneStep ==
  ASSUME Inv, NEW s \in Stores, NEW e, stores' = [stores EXCEPT ![s] = e],
         OneStep(stores[s], e)
  PROVE  \A t \in Stores : OneStep(stores[t], stores'[t])
<1>1. stores \in [Stores -> Database]
  BY DEF Inv, TypeOK
<1>2. stores'[s] = e /\ \A t \in Stores \ {s} : stores'[t] = stores[t]
  BY <1>1
<1>3. \A t \in Stores \ {s} : OneStep(stores[t], stores'[t])
  BY <1>2 DEF OneStep
<1> QED
  BY <1>2, <1>3

\* Nor does what leaves the databases alone.
LEMMA NothingIsOneStep ==
  ASSUME stores' = stores
  PROVE  \A t \in Stores : OneStep(stores[t], stores'[t])
  BY DEF OneStep

\* A segment after an await is at most one step when each of its results is.
LEMMA AwaitIsOneStep ==
  ASSUME Inv, NEW p \in Callers, NEW results, NEW next, Proceed(p, results, next),
         \A r \in results : OneStep(Data(p), r.db)
  PROVE  \A t \in Stores : OneStep(stores[t], stores'[t])
<1>1. PICK r \in results : stores' = [stores EXCEPT ![call[p].store] = r.db]
  BY DEF Proceed
<1>2. call[p].store \in Stores /\ OneStep(stores[call[p].store], r.db)
  BY SuspendedCall DEF Data
<1> DEFINE e == r.db
           s == call[p].store
<1>3. stores' = [stores EXCEPT ![s] = e] /\ s \in Stores /\ OneStep(stores[s], e)
  BY <1>1, <1>2
<1> HIDE DEF e, s
<1> QED
  BY <1>3, WriteIsOneStep

\* Each request up to its first await is at most one step.
LEMMA RequestIsOneStep ==
  ASSUME Inv, NEW p \in Callers, Request(p)
  PROVE  \A t \in Stores : OneStep(stores[t], stores'[t])
<1>1. CASE stores' = stores
  BY <1>1, NothingIsOneStep
<1>2. ASSUME NEW s \in Stores, NEW ch \in Channels, CompleteConversation(p, s, ch)
      PROVE  \A t \in Stores : OneStep(stores[t], stores'[t])
  <2>1. CASE Refuse(p, Refusal(stores[s], ch))
    BY <1>1, <2>1 DEF Refuse
  <2>2. ASSUME NEW c \in ActiveIn(stores[s], ch), NEW r \in BeginClosing(stores[s], c),
               stores' = [stores EXCEPT ![s] = r.db]
        PROVE  \A t \in Stores : OneStep(stores[t], stores'[t])
    <3>1. c \in Convs /\ c \in Active(stores[s])
      BY ActiveIsOne DEF ActiveIn
    <3>2. StoreInv(stores[s], clock)
      BY DEF Inv, Coherent
    <3>3. Moved(stores[s], r.db, c, clock) /\ r.db.conv[c].status \in ActiveStatus
      BY <3>1, <3>2, ClockIsNat, BeginClosingEnds
    <3>4. RowStep(stores[s], r.db, c)
      BY <3>1, <3>3 DEF RowStep, Moved, Active, ActiveStatus
    <3>5. OneStep(stores[s], r.db)
      BY <3>1, <3>3, <3>4 DEF OneStep, Moved
    <3> DEFINE e == r.db
    <3>6. stores' = [stores EXCEPT ![s] = e] /\ OneStep(stores[s], e)
      BY <2>2, <3>5
    <3> HIDE DEF e
    <3> QED
      BY <3>6, WriteIsOneStep
  <2> QED
    BY <1>2, <2>1, <2>2 DEF CompleteConversation
<1>3. ASSUME NEW s \in Stores, NEW ch \in Channels, DiscardConversation(p, s, ch)
      PROVE  \A t \in Stores : OneStep(stores[t], stores'[t])
  <2>1. CASE Refuse(p, IF DiscardTarget(stores[s], ch) = {} THEN {"noActive"} ELSE {})
    BY <1>1, <2>1 DEF Refuse
  <2>2. ASSUME NEW c \in DiscardTarget(stores[s], ch),
               NEW r \in OrElse(Attempt(stores[s], TRUE, Delete(stores[s], c, clock)),
                                LAMBDA d : {Result(d, "unsaved")}),
               stores' = [stores EXCEPT ![s] = r.db]
        PROVE  \A t \in Stores : OneStep(stores[t], stores'[t])
    <3>1. c \in Convs
      BY DEF DiscardTarget, ActiveConversation, LatestInChannel, Newest, Active, Rows
    <3>2. StoreInv(stores[s], clock)
      BY DEF Inv, Coherent
    <3>3. /\ Moved(stores[s], r.db, c, clock)
          /\ r.db.conv[c].status \in {stores[s].conv[c].status, "ABSENT"}
      BY <2>2, <3>1, <3>2, ClockIsNat, DeletionEnds
    <3>4. OneStep(stores[s], r.db)
      BY <3>1, <3>3 DEF OneStep, RowStep, Moved
    <3> DEFINE e == r.db
    <3>5. stores' = [stores EXCEPT ![s] = e] /\ OneStep(stores[s], e)
      BY <2>2, <3>4
    <3> HIDE DEF e
    <3> QED
      BY <3>5, WriteIsOneStep
  <2> QED
    BY <1>3, <2>1, <2>2 DEF DiscardConversation
<1> QED
  BY <1>1, <1>2, <1>3 DEF Request, ClaimGate, StartWithoutLease, StartConversation,
     StartClaimedConversation, Reply, Refuse

\* So is what follows the card from Pi.
LEMMA CardingIsOneStep ==
  ASSUME NEW d, NEW now \in Nat, StoreInv(d, now), NEW c \in Convs,
         pi.session \in Sessions \cup {NULL},
         NEW r \in WhileClosing(Attempt(d, TRUE, RecordSuccess(d, pi.session)), c)
  PROVE  OneStep(d, r.db)
<1>1. Carded(d, r, c, pi.session, now)
  BY CardingEnds
<1> QED
  BY <1>1 DEF Carded, OneStep, RowStep

\* Each segment after an await is at most one step, however many store calls it
\* makes and whichever of them raise.
LEMMA ResumedIsOneStep ==
  ASSUME Inv, NEW p \in Callers, Resumed(p)
  PROVE  \A t \in Stores : OneStep(stores[t], stores'[t])
<1> DEFINE c == call[p].conv
           Goal == \A t \in Stores : OneStep(stores[t], stores'[t])
<1>1. StoreInv(Data(p), clock) /\ clock \in Nat /\ pi.session \in Sessions \cup {NULL}
  BY SuspendedCall
<1>2. OneStep(Data(p), Data(p))
  BY DEF OneStep
<1>3. ASSUME NEW r, NEW out, GaveUp(Data(p), r, c, out, clock), c \in Convs
      PROVE  OneStep(Data(p), r.db)
  BY <1>3 DEF OneStep, RowStep, GaveUp, Moved
<1>4. ASSUME NEW session, NewSessionCreated(p, session)
      PROVE  Goal
  <2> DEFINE results == {Result(Data(p), "ok")}
  <2>1. Proceed(p, results, "opening") /\ \A r \in results : OneStep(Data(p), r.db)
    BY <1>2, <1>4 DEF NewSessionCreated, Result
  <2> HIDE DEF results
  <2> QED
    BY <2>1, AwaitIsOneStep
<1>5. CASE PromptAnswered(p)
  <2> DEFINE recorded == Attempt(Data(p), TRUE, RecordSuccess(Data(p), pi.session))
  <2>1. \A r \in recorded : OneStep(Data(p), r.db)
    <3> TAKE r \in recorded
    <3>1. r.db.conv = Data(p).conv /\ r.db.session \in {Data(p).session, pi.session}
      BY <1>1, SuccessEnds
    <3> QED
      BY <3>1 DEF OneStep
  <2>2. CASE \E next : Proceed(p, recorded, next)
    <3> HIDE DEF recorded
    <3> QED
      BY <2>1, <2>2, AwaitIsOneStep
  <2>3. CASE call[p].pc = "carding" /\ Proceed(p, WhileClosing(recorded, c), "sendCard")
    <3> DEFINE results == WhileClosing(Attempt(Data(p), TRUE, RecordSuccess(Data(p), pi.session)), c)
    <3>1. c \in Convs
      BY <2>3, SuspendedCall DEF CompleteAwaits
    <3>2. ASSUME NEW r \in results
          PROVE  OneStep(Data(p), r.db)
      BY <1>1, <3>1, <3>2, CardingIsOneStep
    <3>3. Proceed(p, results, "sendCard")
      BY <2>3
    <3> HIDE DEF results
    <3> QED
      BY <3>2, <3>3, AwaitIsOneStep
  <2> QED
    BY <1>5, <2>2, <2>3 DEF PromptAnswered
<1>6. ASSUME NEW fault, AgentFailed(p, fault)
      PROVE  Goal
  <2> DEFINE results ==
        CASE fault = "broken" -> {Result(Data(p), "escaped")}
          [] fault # "broken" /\ call[p].pc = "carding" ->
               GiveUpCarding(Data(p), call[p].conv, fault)
          [] OTHER -> AndRaise(RecordAgentFailure(Data(p), fault), "agentFailed")
  <2>1. Proceed(p, results, "idle")
    BY <1>6 DEF AgentFailed
  <2>2. ASSUME NEW r \in results
        PROVE  OneStep(Data(p), r.db)
    <3>1. CASE fault = "broken"
      <4>1. r.db = Data(p)
        BY <2>2, <3>1 DEF Result
      <4> QED
        BY <4>1 DEF OneStep
    <3>2. CASE fault # "broken" /\ call[p].pc = "carding"
      <4>1. r \in GiveUpCarding(Data(p), c, fault) /\ c \in Convs
        BY <2>2, <3>2, SuspendedCall DEF CompleteAwaits
      <4>2. GaveUp(Data(p), r, c, "agentFailed", clock)
        BY <1>1, <4>1, GiveUpCardingEnds
      <4> QED
        BY <1>3, <4>1, <4>2
    <3>3. CASE fault # "broken" /\ call[p].pc # "carding"
      <4>1. r \in AndRaise(RecordAgentFailure(Data(p), fault), "agentFailed")
        BY <2>2, <3>3
      <4>2. PICK q \in RecordAgentFailure(Data(p), fault) :
                \/ q.out = "ok" /\ r = Result(q.db, "agentFailed")
                \/ q.out # "ok" /\ r = q
        BY <4>1, RaiseEnds
      <4>3. Kept(Data(p), q.db, clock)
        BY <1>1, AgentFailureEnds
      <4>4. r.db = q.db
        BY <4>2 DEF Result
      <4> QED
        BY <4>3, <4>4 DEF Kept, OneStep
    <3> QED
      BY <3>1, <3>2, <3>3
  <2> HIDE DEF results
  <2> QED
    BY <2>1, <2>2, AwaitIsOneStep
<1>7. ASSUME NEW x \in Convs, QuestionSent(p, x)
      PROVE  Goal
  <2> DEFINE results == InsertConversation(Data(p), x, call[p].channel)
  <2>1. Proceed(p, results, "idle") /\ call[p].channel \in Channels
    BY <1>7, SuspendedCall DEF QuestionSent, StartAwaits
  <2>2. ASSUME NEW r \in results
        PROVE  OneStep(Data(p), r.db)
    <3>1. /\ Moved(Data(p), r.db, x, clock)
          /\ \/ r.db.conv[x].status = Data(p).conv[x].status
             \/ CanStart(Data(p), x) /\ r.db.conv[x].status = "OPEN"
      BY <1>1, <2>1, InsertEnds
    <3> QED
      BY <1>7, <3>1 DEF Moved, OneStep, RowStep, CanStart, QuestionSent
  <2> HIDE DEF results
  <2> QED
    BY <2>1, <2>2, AwaitIsOneStep
<1>8. CASE ReplySent(p)
  <2> DEFINE results == {Result(Data(p), "ok")}
  <2>1. Proceed(p, results, "idle") /\ \A r \in results : OneStep(Data(p), r.db)
    BY <1>2, <1>8 DEF ReplySent, Result
  <2> HIDE DEF results
  <2> QED
    BY <2>1, AwaitIsOneStep
<1>9. CASE CardSent(p)
  <2> DEFINE results == WhileClosing(Attempt(Data(p), CanComplete(Data(p), c),
                                             Complete(Data(p), c, clock)), c)
  <2>1. Proceed(p, results, "idle")
    BY <1>9 DEF CardSent
  <2>2. c \in Convs /\ Data(p).conv[c].status = "CLOSING"
    BY <1>9, SuspendedCall DEF CardSent, CompleteAwaits
  <2>3. ASSUME NEW r \in results
        PROVE  OneStep(Data(p), r.db)
    <3>1. /\ Moved(Data(p), r.db, c, clock)
          /\ r.db.conv[c].status \in {"OPEN", "CLOSING", "COMPLETED"}
      BY <1>1, <2>2, CompletionEnds
    <3> QED
      BY <2>2, <3>1 DEF Moved, OneStep, RowStep
  <2> HIDE DEF results
  <2> QED
    BY <2>1, <2>3, AwaitIsOneStep
<1>10. ASSUME NEW fault, DeliveryFailed(p, fault)
       PROVE  Goal
  <2> DEFINE results ==
        CASE fault = "garbled" -> {Result(Data(p), "escaped")}
          [] fault # "garbled" /\ call[p].pc = "sendCard" ->
               GiveUpClosing(Data(p), call[p].conv, "undelivered")
          [] OTHER -> AndRaise(RecordDeliveryError(Data(p)), "undelivered")
  <2>1. Proceed(p, results, "idle")
    BY <1>10 DEF DeliveryFailed
  <2>2. ASSUME NEW r \in results
        PROVE  OneStep(Data(p), r.db)
    <3>1. CASE fault = "garbled"
      <4>1. r.db = Data(p)
        BY <2>2, <3>1 DEF Result
      <4> QED
        BY <4>1 DEF OneStep
    <3>2. CASE fault # "garbled" /\ call[p].pc = "sendCard"
      <4>1. r \in GiveUpClosing(Data(p), c, "undelivered") /\ c \in Convs
        BY <2>2, <3>2, SuspendedCall DEF CompleteAwaits
      <4>2. GaveUp(Data(p), r, c, "undelivered", clock)
        BY <1>1, <4>1, GiveUpClosingEnds
      <4> QED
        BY <1>3, <4>1, <4>2
    <3>3. CASE fault # "garbled" /\ call[p].pc # "sendCard"
      <4>1. r \in AndRaise(RecordDeliveryError(Data(p)), "undelivered")
        BY <2>2, <3>3
      <4>2. PICK q \in RecordDeliveryError(Data(p)) :
                \/ q.out = "ok" /\ r = Result(q.db, "undelivered")
                \/ q.out # "ok" /\ r = q
        BY <4>1, RaiseEnds
      <4>3. Kept(Data(p), q.db, clock)
        BY <1>1, DeliveryErrorEnds
      <4>4. r.db = q.db
        BY <4>2 DEF Result
      <4> QED
        BY <4>3, <4>4 DEF Kept, OneStep
    <3> QED
      BY <3>1, <3>2, <3>3
  <2> HIDE DEF results
  <2> QED
    BY <2>1, <2>2, AwaitIsOneStep
<1>11. CASE ReleaseClaim(p)
  BY <1>11, NothingIsOneStep DEF ReleaseClaim
<1> QED
  BY <1>4, <1>5, <1>6, <1>7, <1>8, <1>9, <1>10, <1>11 DEF Resumed

\* So is every step of the application.
LEMMA NextIsOneStep ==
  ASSUME Inv, [Next]_vars
  PROVE  \A t \in Stores : OneStep(stores[t], stores'[t])
<1>1. ASSUME NEW s \in Stores, ChangePlan(s)
      PROVE  \A t \in Stores : OneStep(stores[t], stores'[t])
  <2>1. PICK e \in {Pause(stores[s]), Resume(stores[s], clock)}
                   \cup {SetInterval(stores[s], i, clock) : i \in Intervals} :
               stores' = [stores EXCEPT ![s] = e]
    BY <1>1 DEF ChangePlan
  <2>2. stores[s] \in Database
    BY DEF Inv, TypeOK
  <2>3. e.conv = stores[s].conv /\ e.session = stores[s].session
    BY <2>2 DEF Pause, Resume, SetInterval, Database
  <2> QED
    BY <2>1, <2>3, WriteIsOneStep DEF OneStep
<1>2. CASE PiRestart \/ Restart \/ TimePasses \/ UNCHANGED vars
  BY <1>2, NothingIsOneStep DEF PiRestart, Restart, TimePasses, vars
<1> QED
  BY <1>1, <1>2, RequestIsOneStep, ResumedIsOneStep DEF Next

\* The live conversation as a function of its store.
LEMMA LiveRowStays ==
  ASSUME NEW s, Active(stores'[s]) = Active(stores[s])
  PROVE  LiveRow(s)' = LiveRow(s)
<1>1. /\ LiveRow(s) = IF Active(stores[s]) = {} THEN NULL
                   ELSE CHOOSE d \in Active(stores[s]) : TRUE
      /\ LiveRow(s)' = IF Active(stores'[s]) = {} THEN NULL
                    ELSE CHOOSE d \in Active(stores'[s]) : TRUE
  BY DEF LiveRow, Active
<1> QED
  BY <1>1

\* The live conversation is the only member of Active, if there is one.
LEMMA LiveRowIs ==
  ASSUME NEW s, NEW c \in Convs
  PROVE  /\ Active(stores[s]) = {c} => LiveRow(s) = c
         /\ Active(stores'[s]) = {c} => LiveRow(s)' = c
         /\ Active(stores[s]) = {} => LiveRow(s) = NULL
         /\ Active(stores'[s]) = {} => LiveRow(s)' = NULL
         /\ Active(stores'[s]) = Active(stores[s]) => LiveRow(s)' = LiveRow(s)
<1>1. /\ LiveRow(s) = IF Active(stores[s]) = {} THEN NULL
                   ELSE CHOOSE d \in Active(stores[s]) : TRUE
      /\ LiveRow(s)' = IF Active(stores'[s]) = {} THEN NULL
                    ELSE CHOOSE d \in Active(stores'[s]) : TRUE
  BY DEF LiveRow, Active
<1>2. (CHOOSE d \in {c} : TRUE) = c
  OBVIOUS
<1>3. /\ Active(stores[s]) = {c} => LiveRow(s) = c
      /\ Active(stores'[s]) = {c} => LiveRow(s)' = c
  BY <1>1, <1>2
<1>4. /\ Active(stores[s]) = {} => LiveRow(s) = NULL
      /\ Active(stores'[s]) = {} => LiveRow(s)' = NULL
  BY <1>1
<1> QED
  BY <1>3, <1>4, LiveRowStays

\* What one step of a store is to the lifecycle, whoever takes it.
LEMMA RowStepOfLifecycle ==
  ASSUME Inv, NEW s \in Stores,
         \/ stores'[s].conv = stores[s].conv
         \/ \E c \in Convs : RowStep(stores[s], stores'[s], c)
  PROVE  [Lifecycle(s)!Next]_(Lifecycle(s)!vars)
<1> DEFINE
      d == stores[s]
      e == stores'[s]
      closing == \E c \in Active(stores[s]) : stores[s].conv[c].status = "CLOSING"
      archive == {c \in Convs : stores[s].conv[c].status = "COMPLETED"}
<1>a. /\ closing <=> \E c \in Active(d) : d.conv[c].status = "CLOSING"
      /\ closing' <=> \E c \in Active(e) : e.conv[c].status = "CLOSING"
      /\ closing \in BOOLEAN /\ closing' \in BOOLEAN
      /\ archive = {c \in Convs : d.conv[c].status = "COMPLETED"}
      /\ archive' = {c \in Convs : e.conv[c].status = "COMPLETED"}
  BY DEF Active
<1>0. OneActive(d) /\ NULL \notin Convs
  BY NullAssumption, ApplicationAssumption DEF Inv, Coherent, StoreInv
<1>1. CASE /\ Active(e) = Active(d)
           /\ \A c \in Convs : e.conv[c].status = d.conv[c].status
  <2>1. LiveRow(s)' = LiveRow(s)
    BY <1>1, LiveRowStays
  <2>2. closing' = closing /\ archive' = archive
    BY <1>1, <1>a DEF Active
  <2> QED
    BY <2>1, <2>2 DEF Lifecycle!vars
<1>2. ASSUME NEW c \in Convs, RowStep(d, e, c)
      PROVE  [Lifecycle(s)!Next]_(Lifecycle(s)!vars)
  <2>0. \A x \in Convs \ {c} : e.conv[x] = d.conv[x]
    BY <1>2 DEF RowStep
  <2>1. \A x \in Convs \ {c} : /\ x \in Active(e) <=> x \in Active(d)
                               /\ x \in archive' <=> x \in archive
    BY <1>a, <2>0 DEF Active
  <2>2. CASE /\ d.conv[c].status = "ABSENT" /\ Active(d) = {}
             /\ e.conv[c].status = "OPEN"
    <3>1. Active(e) = {c}
      BY <2>1, <2>2 DEF Active, ActiveStatus
    <3>2. LiveRow(s) = NULL /\ LiveRow(s)' = c
      BY <2>2, <3>1, LiveRowIs
    <3>3. closing' = FALSE /\ closing = FALSE
      BY <1>a, <2>2, <3>1 DEF Active
    <3>4. archive' = archive /\ c \notin archive
      BY <1>a, <2>1, <2>2
    <3>5. Lifecycle(s)!Open(c)
      BY <3>2, <3>3, <3>4 DEF Lifecycle!Open
    <3> QED
      BY <3>5 DEF Lifecycle!Next
  <2>3. CASE d.conv[c].status = "OPEN" /\ e.conv[c].status = "CLOSING"
    <3>1. Active(d) = {c} /\ Active(e) = {c}
      BY <1>0, <2>1, <2>3 DEF OneActive, Active, ActiveStatus
    <3>2. LiveRow(s) = c /\ LiveRow(s)' = c
      BY <3>1, LiveRowIs
    <3>3. closing' = TRUE
      BY <1>a, <2>3, <3>1 DEF Active
    <3>4. archive' = archive
      BY <1>a, <2>1, <2>3
    <3>5. Lifecycle(s)!BeginClosing
      BY <1>0, <3>2, <3>3, <3>4 DEF Lifecycle!BeginClosing
    <3> QED
      BY <3>5 DEF Lifecycle!Next
  <2>4. CASE d.conv[c].status = "CLOSING" /\ e.conv[c].status = "OPEN"
    <3>1. Active(d) = {c} /\ Active(e) = {c}
      BY <1>0, <2>1, <2>4 DEF OneActive, Active, ActiveStatus
    <3>2. LiveRow(s) = c /\ LiveRow(s)' = c
      BY <3>1, LiveRowIs
    <3>3. closing' = FALSE
      BY <1>a, <2>4, <3>1 DEF Active
    <3>4. archive' = archive
      BY <1>a, <2>1, <2>4
    <3>5. Lifecycle(s)!AbandonClosing
      BY <3>2, <3>3, <3>4 DEF Lifecycle!AbandonClosing
    <3> QED
      BY <3>5 DEF Lifecycle!Next
  <2>5. CASE d.conv[c].status = "CLOSING" /\ e.conv[c].status = "COMPLETED"
    <3>1. Active(d) = {c} /\ Active(e) = {}
      BY <1>0, <2>1, <2>5 DEF OneActive, Active, ActiveStatus
    <3>2. LiveRow(s) = c /\ LiveRow(s)' = NULL
      BY <3>1, LiveRowIs
    <3>3. closing' = FALSE /\ closing
      BY <1>a, <2>5, <3>1 DEF Active
    <3>4. archive' = archive \cup {c}
      BY <1>a, <2>1, <2>5
    <3>5. Lifecycle(s)!Complete
      BY <3>2, <3>3, <3>4 DEF Lifecycle!Complete
    <3> QED
      BY <3>5 DEF Lifecycle!Next
  <2>6. CASE c \in Active(d) /\ e.conv[c].status = "ABSENT"
    <3>1. Active(d) = {c} /\ Active(e) = {}
      BY <1>0, <2>1, <2>6 DEF OneActive, Active, ActiveStatus
    <3>2. LiveRow(s) = c /\ LiveRow(s)' = NULL
      BY <3>1, LiveRowIs
    <3>3. closing' = FALSE
      BY <1>a, <3>1
    <3>4. archive' = archive
      BY <1>a, <2>1, <2>6 DEF Active, ActiveStatus
    <3>5. Lifecycle(s)!Discard
      BY <1>0, <3>2, <3>3, <3>4 DEF Lifecycle!Discard
    <3> QED
      BY <3>5 DEF Lifecycle!Next
  <2>7. CASE c \notin Active(d) /\ e.conv[c].status = "ABSENT"
    <3>1. Active(e) = Active(d)
      BY <2>1, <2>7 DEF Active, ActiveStatus
    <3>2. LiveRow(s)' = LiveRow(s)
      BY <3>1, LiveRowIs
    <3>3. closing' = closing
      BY <1>a, <2>0, <2>7, <3>1 DEF Active
    <3>4. archive' = archive \ {c}
      BY <1>a, <2>1, <2>7
    <3>5. Lifecycle(s)!DeleteRecord(c)
      BY <3>2, <3>3, <3>4 DEF Lifecycle!DeleteRecord
    <3> QED
      BY <3>5 DEF Lifecycle!Next
  <2>8. CASE e.conv[c].status = d.conv[c].status
    <3>1. \A x \in Convs : e.conv[x].status = d.conv[x].status
      BY <2>0, <2>8
    <3> QED
      BY <1>1, <3>1 DEF Active
  <2> QED
    BY <1>2, <2>2, <2>3, <2>4, <2>5, <2>6, <2>7, <2>8 DEF RowStep
<1>3. CASE e.conv = d.conv
  BY <1>1, <1>3 DEF Active
<1> QED
  BY <1>2, <1>3

\* The databases begin without a conversation, and so does each lifecycle.
LEMMA InitOfLifecycle ==
  ASSUME Init, NEW s \in Stores
  PROVE  Lifecycle(s)!Init
<1>1. \A c \in Convs : stores[s].conv[c].status = "ABSENT"
  BY DEF Init, FreshDatabase, Absent
<1>2. Active(stores[s]) = {}
  BY <1>1 DEF Active, ActiveStatus
<1> QED
  BY <1>1, <1>2 DEF Lifecycle!Init, LiveRow

LEMMA NextIsLifecycle ==
  ASSUME Inv, [Next]_vars, NEW s \in Stores
  PROVE  [Lifecycle(s)!Next]_(Lifecycle(s)!vars)
<1>1. OneStep(stores[s], stores'[s])
  BY NextIsOneStep
<1> QED
  BY <1>1, RowStepOfLifecycle DEF OneStep

\* For the conversations of each store the application of that store is no
\* more than ConversationLifecycle, whatever the others do.
THEOREM ApplicationImplementsLifecycle == Spec => ImplementsLifecycle
<1>1. Init => \A s \in Stores : Lifecycle(s)!Init
  BY InitOfLifecycle
<1>2. Inv /\ [Next]_vars =>
        \A s \in Stores : [Lifecycle(s)!Next]_(Lifecycle(s)!vars)
  BY NextIsLifecycle
<1> QED
  BY <1>1, <1>2, ApplicationCoherent, PTL DEF Spec, ImplementsLifecycle

\* The same, in the form that names the abstract specification.
THEOREM EachStoreImplementsLifecycle ==
  ASSUME NEW s \in Stores
  PROVE  Spec => Lifecycle(s)!Spec
<1>1. Init => Lifecycle(s)!Init
  BY InitOfLifecycle
<1>2. Inv /\ [Next]_vars => [Lifecycle(s)!Next]_(Lifecycle(s)!vars)
  BY NextIsLifecycle
<1> QED
  BY <1>1, <1>2, ApplicationCoherent, PTL DEF Spec, Lifecycle!Spec

-----------------------------------------------------------------------------
(* ConversationKeepsItsSession, when there is only the live store.         *)

\* Some conversation of the live store is open, or about to be.
Begun ==
  \/ Active(stores[LiveStore]) # {}
  \/ \E p \in Callers : call[p].pc = "sendQuestion"

\* From the first answer on, Pi, the session file and the store agree on the
\* session the conversation began in; a start that waits for that answer has
\* Pi in the session it will note.
SessionInv ==
  /\ Begun => /\ pi.session = origin[LiveStore]
              /\ pi.file = origin[LiveStore]
              /\ stores[LiveStore].session = origin[LiveStore]
  /\ (\E p \in Callers : call[p].pc = "opening") => pi.file = pi.session

\* A call that begins waits for Pi.
LEMMA RequestReaches ==
  ASSUME Inv, NEW p \in Callers, Request(p), NEW q \in Callers,
         call'[q].pc \in {"opening", "sendQuestion"}
  PROVE  call'[q].pc = call[q].pc
<1>1. call \in [Callers -> Call] /\ call[p] \in Call
  BY DEF Inv, TypeOK
<1>2. ASSUME NEW new, call' = [call EXCEPT ![p] = new],
             new.pc \notin {"opening", "sendQuestion"}
      PROVE  call'[q].pc = call[q].pc
  BY <1>1, <1>2
<1>3. ASSUME NEW out, call' = [call EXCEPT ![p] = [Idle EXCEPT !.outcome = out]]
      PROVE  call'[q].pc = call[q].pc
  <2> DEFINE new == [Idle EXCEPT !.outcome = out]
  <2>1. new.pc = "idle" /\ call' = [call EXCEPT ![p] = new]
    BY <1>3 DEF Idle
  <2> HIDE DEF new
  <2> QED
    BY <1>2, <2>1
<1>4. ASSUME NEW reasons, Refuse(p, reasons)
      PROVE  call'[q].pc = call[q].pc
  BY <1>3, <1>4 DEF Refuse
<1>5. ASSUME NEW s, NEW pc, pc \notin {"opening", "sendQuestion"}, NEW c, NEW ch,
             Enter(p, s, pc, c, ch)
      PROVE  call'[q].pc = call[q].pc
  <2> DEFINE new == [Idle EXCEPT !.pc = pc, !.store = s, !.conv = c, !.channel = ch]
  <2>1. new.pc = pc /\ call' = [call EXCEPT ![p] = new]
    BY <1>5 DEF Enter, Idle
  <2> HIDE DEF new
  <2> QED
    BY <1>2, <1>5, <2>1
<1>6. CASE ClaimGate(p)
  <2> DEFINE new == [Idle EXCEPT !.pc = "claimed", !.claimed = TRUE]
  <2>1. new.pc = "claimed" /\ call' = [call EXCEPT ![p] = new]
    BY <1>6 DEF ClaimGate, Idle
  <2> HIDE DEF new
  <2> QED
    BY <1>2, <2>1
<1>7. CASE StartWithoutLease(p)
  BY <1>3, <1>7 DEF StartWithoutLease
<1>8. ASSUME NEW s \in Stores, NEW ch \in Channels, StartConversation(p, s, ch)
      PROVE  call'[q].pc = call[q].pc
  BY <1>4, <1>5, <1>8 DEF StartConversation
<1>9. ASSUME NEW s \in Stores, NEW ch \in Channels, StartClaimedConversation(p, s, ch)
      PROVE  call'[q].pc = call[q].pc
  <2>1. ASSUME NEW out, Return(p, out)
        PROVE  call'[q].pc = call[q].pc
    <3> DEFINE new == [call[p] EXCEPT !.pc = "claimed", !.outcome = out]
    <3>1. new.pc = "claimed"
      BY <1>1 DEF Call
    <3>2. call' = [call EXCEPT ![p] = new] \/ call' = [call EXCEPT ![p] = [Idle EXCEPT !.outcome = out]]
      BY <1>1, <2>1 DEF Return, Call
    <3> HIDE DEF new
    <3> QED
      BY <1>2, <1>3, <3>1, <3>2
  <2>2. CASE call' = [call EXCEPT ![p].pc = "newSession", ![p].store = s, ![p].channel = ch]
    <3> DEFINE new == [call[p] EXCEPT !.pc = "newSession", !.store = s, !.channel = ch]
    <3>1. new.pc = "newSession" /\ call' = [call EXCEPT ![p] = new]
      BY <1>1, <2>2 DEF Call
    <3> HIDE DEF new
    <3> QED
      BY <1>2, <3>1
  <2> QED
    BY <1>9, <2>1, <2>2 DEF StartClaimedConversation
<1>10. ASSUME NEW s \in Stores, NEW ch \in Channels, Reply(p, s, ch)
       PROVE  call'[q].pc = call[q].pc
  BY <1>4, <1>5, <1>10 DEF Reply
<1>11. ASSUME NEW s \in Stores, NEW ch \in Channels, CompleteConversation(p, s, ch)
       PROVE  call'[q].pc = call[q].pc
  BY <1>3, <1>4, <1>5, <1>11 DEF CompleteConversation
<1>12. ASSUME NEW s \in Stores, NEW ch \in Channels, DiscardConversation(p, s, ch)
       PROVE  call'[q].pc = call[q].pc
  BY <1>3, <1>4, <1>12 DEF DiscardConversation
<1> QED
  BY <1>6, <1>7, <1>8, <1>9, <1>10, <1>11, <1>12 DEF Request

\* A segment takes its call to next or ends it, and leaves the others alone.
LEMMA ProceedReaches ==
  ASSUME Inv, NEW p \in Callers, call[p].pc \in Awaits, NEW results, NEW next,
         Proceed(p, results, next), NEW q \in Callers,
         call'[q].pc \in {"opening", "sendQuestion"}
  PROVE  /\ q = p
         /\ call'[q].pc = next
         /\ \E r \in results : r.out = "ok" /\ stores' = [stores EXCEPT ![call[p].store] = r.db]
<1>1. call \in [Callers -> Call] /\ call[p] \in Call
  BY DEF Inv, TypeOK
<1>2. \A x \in Callers \ {p} : call[x].pc = "idle"
  BY OneInFlight DEF Awaits, StartAwaits, ReplyAwaits, CompleteAwaits
<1>3. PICK r \in results :
           /\ stores' = [stores EXCEPT ![call[p].store] = r.db]
           /\ \/ /\ r.out = "ok" /\ next # "idle"
                 /\ call' = [call EXCEPT ![p].pc = next] /\ gate' = gate
              \/ (r.out # "ok" \/ next = "idle") /\ Return(p, r.out)
  BY ProceedEnds
<1>4. ASSUME NEW new, call' = [call EXCEPT ![p] = new]
      PROVE  q = p /\ new.pc \in {"opening", "sendQuestion"} /\ call'[q] = new
  BY <1>1, <1>2, <1>4
<1>5. CASE Return(p, r.out)
  <2> DEFINE out == r.out
             held == [call[p] EXCEPT !.pc = "claimed", !.outcome = out]
             idle == [Idle EXCEPT !.outcome = out]
  <2>1. Return(p, out)
    BY <1>5
  <2>2. held.pc = "claimed" /\ idle.pc = "idle"
    BY <1>1 DEF Call, Idle
  <2>3. call' = [call EXCEPT ![p] = held] \/ call' = [call EXCEPT ![p] = idle]
    BY <1>1, <2>1 DEF Return, Call
  <2> HIDE DEF out, held, idle
  <2> QED
    BY <1>4, <2>2, <2>3
<1>6. CASE r.out = "ok" /\ call' = [call EXCEPT ![p].pc = next]
  <2> DEFINE new == [call[p] EXCEPT !.pc = next]
  <2>1. new.pc = next /\ call' = [call EXCEPT ![p] = new]
    BY <1>1, <1>6 DEF Call
  <2> HIDE DEF new
  <2> QED
    BY <1>3, <1>4, <1>6, <2>1
<1> QED
  BY <1>3, <1>5, <1>6

\* A call waits for its first answer, or has sent it on, because it did
\* before or because it just got there.
LEMMA ReachesOpening ==
  ASSUME Inv, [Next]_vars, NEW q \in Callers, call'[q].pc \in {"opening", "sendQuestion"}
  PROVE  \/ call'[q].pc = call[q].pc
         \/ call'[q].pc = "opening" /\ \E session \in Sessions : NewSessionCreated(q, session)
         \/ /\ call'[q].pc = "sendQuestion" /\ call[q].pc = "opening" /\ PromptAnswered(q)
            /\ \E r \in Attempt(Data(q), TRUE, RecordSuccess(Data(q), pi.session)) :
                 r.out = "ok" /\ stores' = [stores EXCEPT ![call[q].store] = r.db]
<1>1. ASSUME NEW p \in Callers, NEW session \in Sessions, NewSessionCreated(p, session)
      PROVE  q = p /\ call'[q].pc = "opening"
  BY <1>1, ProceedReaches DEF NewSessionCreated, Awaits, StartAwaits
<1>2. ASSUME NEW p \in Callers, PromptAnswered(p)
      PROVE  /\ q = p /\ call'[q].pc = "sendQuestion" /\ call[q].pc = "opening"
             /\ \E r \in Attempt(Data(q), TRUE, RecordSuccess(Data(q), pi.session)) :
                  r.out = "ok" /\ stores' = [stores EXCEPT ![call[q].store] = r.db]
  <2> DEFINE recorded == Attempt(Data(p), TRUE, RecordSuccess(Data(p), pi.session))
  <2>1. call[p].pc \in Awaits
    BY <1>2 DEF PromptAnswered, Awaits, StartAwaits, ReplyAwaits, CompleteAwaits
  <2>2. \/ call[p].pc = "opening" /\ Proceed(p, recorded, "sendQuestion")
        \/ Proceed(p, recorded, "sendReply")
        \/ Proceed(p, WhileClosing(recorded, call[p].conv), "sendCard")
    BY <1>2 DEF PromptAnswered
  <2> HIDE DEF recorded
  <2>3. q = p /\ call'[q].pc = "sendQuestion" /\ call[q].pc = "opening"
    BY <2>1, <2>2, ProceedReaches
  <2>4. Proceed(p, recorded, "sendQuestion")
    BY <2>1, <2>2, <2>3, ProceedReaches
  <2>5. \E r \in recorded : r.out = "ok" /\ stores' = [stores EXCEPT ![call[p].store] = r.db]
    BY <2>1, <2>4, ProceedReaches
  <2> QED
    BY <2>3, <2>5 DEF recorded
<1>3. ASSUME NEW p \in Callers, Resumed(p)
      PROVE  \/ \E session \in Sessions : NewSessionCreated(p, session)
             \/ PromptAnswered(p)
             \/ call'[q].pc = call[q].pc
  <2>1. ASSUME call[p].pc \in Awaits, NEW results, Proceed(p, results, "idle")
        PROVE  FALSE
    BY <2>1, ProceedReaches
  <2>2. CASE ReleaseClaim(p)
    <3>1. call' = [call EXCEPT ![p] = Idle] /\ Idle.pc = "idle" /\ call \in [Callers -> Call]
      BY <2>2 DEF ReleaseClaim, Idle, Inv, TypeOK
    <3> QED
      BY <3>1
  <2> QED
    BY <1>3, <2>1, <2>2 DEF Resumed, AgentFailed, QuestionSent, ReplySent, CardSent,
       DeliveryFailed, Awaits, StartAwaits, ReplyAwaits, CompleteAwaits
<1>4. ASSUME NEW p \in Callers, Request(p)
      PROVE  call'[q].pc = call[q].pc
  BY <1>4, RequestReaches
<1>5. CASE Restart
  BY <1>5 DEF Restart, Idle
<1>6. CASE (\E s \in Stores : ChangePlan(s)) \/ PiRestart \/ TimePasses \/ UNCHANGED vars
  BY <1>6 DEF ChangePlan, PiRestart, TimePasses, vars
<1> QED
  BY <1>1, <1>2, <1>3, <1>4, <1>5, <1>6 DEF Next

\* What a step may do to Pi's session and to the file the client remembers.
LEMMA PiMoves ==
  ASSUME Inv, [Next]_vars
  PROVE  \/ pi' = pi /\ origin' = origin
         \/ \E p \in Callers : call[p].pc = "newSession" /\ origin' = origin /\
              \/ \E session \in Sessions : /\ NewSessionCreated(p, session)
                                           /\ pi' = [session |-> session, file |-> session]
              \/ \A q \in Callers : call'[q].pc # "opening"
         \/ \E p \in Callers : /\ PromptAnswered(p)
                               /\ pi' = [pi EXCEPT !.file = pi.session]
                               /\ \/ origin' = origin
                                  \/ /\ call[p].pc = "opening"
                                     /\ origin' = [origin EXCEPT ![call[p].store] = pi.session]
         \/ pi' = [pi EXCEPT !.session = pi.file] /\ origin' = origin
         \/ /\ pi' = [session |-> stores[LiveStore].session, file |-> stores[LiveStore].session]
            /\ origin' = origin /\ Restart
<1>1. ASSUME NEW p \in Callers, Request(p)
      PROVE  pi' = pi /\ origin' = origin
  BY <1>1, ZenonT(60) DEF Request, ClaimGate, StartWithoutLease, StartConversation,
    StartClaimedConversation, Reply, CompleteConversation, DiscardConversation, Refuse
<1>2. ASSUME NEW p \in Callers, NEW fault, AgentFailed(p, fault), pi' # pi
      PROVE  /\ call[p].pc = "newSession" /\ origin' = origin
             /\ \A q \in Callers : call'[q].pc # "opening"
  <2>1. /\ call[p].pc = "newSession" /\ origin' = origin
        /\ \E results : Proceed(p, results, "idle")
    BY <1>2 DEF AgentFailed
  <2>2. call[p].pc \in Awaits
    BY <2>1 DEF Awaits, StartAwaits
  <2> QED
    BY <2>1, <2>2, ProceedReaches
<1>3. ASSUME NEW p \in Callers, NEW fault, AgentFailed(p, fault), pi' = pi
      PROVE  origin' = origin
  BY <1>3 DEF AgentFailed
<1>4. ASSUME NEW p \in Callers, NEW session \in Sessions, NewSessionCreated(p, session)
      PROVE  /\ call[p].pc = "newSession" /\ origin' = origin
             /\ pi' = [session |-> session, file |-> session]
  BY <1>4 DEF NewSessionCreated
<1>5. ASSUME NEW p \in Callers, PromptAnswered(p)
      PROVE  /\ pi' = [pi EXCEPT !.file = pi.session]
             /\ \/ origin' = origin
                \/ /\ call[p].pc = "opening"
                   /\ origin' = [origin EXCEPT ![call[p].store] = pi.session]
  BY <1>5 DEF PromptAnswered
<1>6. ASSUME NEW p \in Callers,
             \/ \E c \in Convs : QuestionSent(p, c)
             \/ ReplySent(p) \/ CardSent(p) \/ ReleaseClaim(p)
             \/ \E fault \in HubFaults : DeliveryFailed(p, fault)
      PROVE  pi' = pi /\ origin' = origin
  BY <1>6 DEF QuestionSent, ReplySent, CardSent, ReleaseClaim, DeliveryFailed
<1>7. CASE (\E s \in Stores : ChangePlan(s)) \/ TimePasses \/ UNCHANGED vars
  BY <1>7 DEF ChangePlan, TimePasses, vars
<1>8. CASE PiRestart \/ Restart
  BY <1>8 DEF PiRestart, Restart
<1> QED
  BY <1>1, <1>2, <1>3, <1>4, <1>5, <1>6, <1>7, <1>8 DEF Next, Resumed

\* Every step keeps the sessions in agreement.
LEMMA SessionStep ==
  ASSUME Stores = {LiveStore}, Inv, SessionInv, [Next]_vars
  PROVE  SessionInv'
<1> DEFINE d == stores[LiveStore]
           e == stores'[LiveStore]
<1>1. /\ pi \in [session : Sessions \cup {NULL}, file : Sessions \cup {NULL}]
      /\ origin \in [Stores -> Sessions \cup {NULL}]
      /\ stores \in [Stores -> Database]
      /\ \A q \in Callers : call[q].store = LiveStore
  BY DEF Inv, TypeOK, Call
<1>2. OneStep(d, e)
  BY NextIsOneStep
<1>3. ASSUME NEW p \in Callers, call[p].pc = "newSession"
      PROVE  /\ ~Begun
             /\ \A q \in Callers : call[q].pc # "opening"
  <2>1. \A q \in Callers \ {p} : call[q].pc = "idle"
    BY <1>3, OneInFlight
  <2>2. Active(d) = {}
    BY <1>1, <1>3 DEF Inv, StartNeverCollides, StartAwaits, Data
  <2> QED
    BY <1>3, <2>1, <2>2 DEF Begun
<1>4. ASSUME NEW p \in Callers, PromptAnswered(p), call[p].pc = "opening"
      PROVE  ~Begun
  <2>1. \A q \in Callers \ {p} : call[q].pc = "idle"
    BY <1>4, OneInFlight
  <2>2. Active(d) = {}
    BY <1>1, <1>4 DEF Inv, StartNeverCollides, StartAwaits, Data
  <2> QED
    BY <1>4, <2>1, <2>2 DEF Begun
\* Whoever begins a conversation in this step has just noted its session.
<1>5. ASSUME Begun', ~Begun
      PROVE  /\ pi'.session = origin'[LiveStore]
             /\ pi'.file = origin'[LiveStore]
             /\ stores'[LiveStore].session = origin'[LiveStore]
  <2>1. Active(e) = {}
    <3>1. Active(d) = {} /\ \A p \in Callers : call[p].pc # "sendQuestion"
      BY <1>5 DEF Begun
    <3>2. CASE e.conv = d.conv
      BY <3>1, <3>2 DEF Active
    <3>3. ASSUME NEW c \in Convs, RowStep(d, e, c)
          PROVE  Active(e) = {}
      BY <3>1, <3>3 DEF RowStep, Active, ActiveStatus
    <3> QED
      BY <1>2, <3>2, <3>3 DEF OneStep
  <2>2. PICK q \in Callers : call'[q].pc = "sendQuestion"
    BY <1>5, <2>1 DEF Begun, Active
  <2>3. call[q].pc # "sendQuestion"
    BY <1>5 DEF Begun
  <2>4. /\ call[q].pc = "opening" /\ PromptAnswered(q)
        /\ \E r \in Attempt(Data(q), TRUE, RecordSuccess(Data(q), pi.session)) :
             r.out = "ok" /\ stores' = [stores EXCEPT ![call[q].store] = r.db]
    BY <2>2, <2>3, ReachesOpening
  <2>5. PICK r \in Attempt(Data(q), TRUE, RecordSuccess(Data(q), pi.session)) :
             r.out = "ok" /\ stores' = [stores EXCEPT ![call[q].store] = r.db]
    BY <2>4
  <2>6. StoreInv(Data(q), clock) /\ clock \in Nat /\ pi.session \in Sessions \cup {NULL}
    BY SuspendedCall
  <2>7. r.db.session = pi.session
    BY <2>5, <2>6, SuccessEnds
  <2>8. stores'[LiveStore].session = pi.session
    BY <1>1, <2>5, <2>7
  <2>9. /\ pi' = [pi EXCEPT !.file = pi.session]
        /\ origin' = [origin EXCEPT ![LiveStore] = pi.session]
    BY <1>1, <2>4 DEF PromptAnswered
  <2> QED
    BY <1>1, <2>8, <2>9
\* A conversation that had begun keeps its session.
<1>6. ASSUME Begun
      PROVE  /\ pi'.session = origin'[LiveStore]
             /\ pi'.file = origin'[LiveStore]
             /\ stores'[LiveStore].session = origin'[LiveStore]
  <2>1. /\ pi.session = origin[LiveStore] /\ pi.file = origin[LiveStore]
        /\ d.session = origin[LiveStore]
    BY <1>6 DEF SessionInv
  <2>2. e.session = origin[LiveStore]
    BY <1>2, <2>1 DEF OneStep
  <2>3. /\ \A p \in Callers : call[p].pc # "newSession"
        /\ \A p \in Callers : ~(PromptAnswered(p) /\ call[p].pc = "opening")
    BY <1>3, <1>4, <1>6
  <2>4. /\ origin' = origin
        /\ \/ pi' = pi
           \/ pi' = [pi EXCEPT !.file = pi.session]
           \/ pi' = [pi EXCEPT !.session = pi.file]
           \/ pi' = [session |-> d.session, file |-> d.session]
    BY <2>3, PiMoves
  <2>5. pi'.session = origin[LiveStore] /\ pi'.file = origin[LiveStore]
    BY <1>1, <2>1, <2>4
  <2> QED
    BY <2>2, <2>4, <2>5
<1>7. ASSUME NEW q \in Callers, call'[q].pc = "opening"
      PROVE  pi'.file = pi'.session
  <2>1. CASE \E session \in Sessions : NewSessionCreated(q, session)
    BY <2>1 DEF NewSessionCreated
  <2>2. CASE call[q].pc = "opening"
    <3>1. pi.file = pi.session
      BY <2>2 DEF SessionInv
    <3>2. \A p \in Callers : call[p].pc # "newSession"
      BY <1>3, <2>2
    <3>3. \/ pi' = pi
          \/ pi' = [pi EXCEPT !.file = pi.session]
          \/ pi' = [pi EXCEPT !.session = pi.file]
          \/ pi' = [session |-> d.session, file |-> d.session]
      BY <3>2, PiMoves
    <3> QED
      BY <1>1, <3>1, <3>3
  <2> QED
    BY <1>7, <2>1, <2>2, ReachesOpening
<1>8. Begun' => /\ pi'.session = origin'[LiveStore]
                /\ pi'.file = origin'[LiveStore]
                /\ stores'[LiveStore].session = origin'[LiveStore]
  BY <1>5, <1>6
<1> QED
  BY <1>7, <1>8 DEF SessionInv, Begun, Active

\* At first nothing has begun.
LEMMA SessionInit == Init => SessionInv
<1> SUFFICES ASSUME Init PROVE SessionInv
  OBVIOUS
<1>1. \A p \in Callers : call[p].pc = "idle"
  BY DEF Init, Idle
<1>2. pi = [session |-> NULL, file |-> NULL] /\ origin[LiveStore] = NULL
      /\ stores[LiveStore].session = NULL
  BY ApplicationAssumption DEF Init, FreshDatabase
<1> QED
  BY <1>1, <1>2 DEF SessionInv

\* Where the sessions agree, a call that waits for Pi waits in the right one.
LEMMA SessionsAgree ==
  ASSUME Stores = {LiveStore}, Inv, SessionInv
  PROVE  ConversationKeepsItsSession
<1> SUFFICES ASSUME NEW p \in Callers, call[p].pc \in {"answering", "carding"}
             PROVE  pi.session = origin[call[p].store]
  BY DEF ConversationKeepsItsSession
<1>1. call[p].store = LiveStore
  BY DEF Inv, TypeOK, Call
<1>2. Active(Data(p)) # {}
  BY DEF Inv, FlightKeepsItsRow, ReplyAwaits, CompleteAwaits
<1> QED
  BY <1>1, <1>2 DEF SessionInv, Begun, Data

\* With one store, a reply or a card is asked for in the session its conversation
\* began in, whatever became of Pi and of this process meanwhile.
THEOREM SessionCorrect ==
  ASSUME Stores = {LiveStore}
  PROVE  Spec => []ConversationKeepsItsSession
<1>1. Inv /\ SessionInv /\ [Next]_vars => SessionInv'
  BY SessionStep
<1>2. Inv /\ SessionInv => ConversationKeepsItsSession
  BY SessionsAgree
<1> QED
  BY <1>1, <1>2, SessionInit, ApplicationCoherent, PTL DEF Spec

-----------------------------------------------------------------------------
(* What the steps of the application do to the channels of conversations   *)
(* and to the calls of other tasks: lemmas on which the proofs about the   *)
(* hub adapter rest, since an adapter's handler keeps the thread of a      *)
(* conversation in its own variables across such steps.                    *)

-----------------------------------------------------------------------------
(* What the segments of the application do to rows and their channels.     *)

\* Every row of e is a row of d in the same channel, and live only if it was.
OldRows(d, e) ==
  \A c \in Rows(e) : /\ c \in Rows(d)
                     /\ e.conv[c].channel = d.conv[c].channel
                     /\ c \in Active(e) => c \in Active(d)

LEMMA SameRowsAreOld ==
  ASSUME NEW d, NEW e, e.conv = d.conv
  PROVE  OldRows(d, e)
  BY DEF OldRows, Rows, Active

LEMMA OldRowsCompose ==
  ASSUME NEW d, NEW e, NEW f, OldRows(d, e), OldRows(e, f)
  PROVE  OldRows(d, f)
  BY DEF OldRows

\* The transactions that move a row, or delete it.
LEMMA TransactionsKeepChannels ==
  ASSUME NEW d \in Database, NEW c \in Convs, NEW now
  PROVE  /\ OldRows(d, Reopen(d, c))
         /\ CanMarkClosing(d, c) => OldRows(d, MarkClosing(d, c))
         /\ CanComplete(d, c) => OldRows(d, Complete(d, c, now))
         /\ OldRows(d, Delete(d, c, now))
<1>1. OldRows(d, Reopen(d, c))
  BY DEF OldRows, Reopen, Rows, Active, ActiveStatus, Database, Row
<1>2. CanMarkClosing(d, c) => OldRows(d, MarkClosing(d, c))
  BY DEF OldRows, MarkClosing, CanMarkClosing, Rows, Active, ActiveStatus, Database, Row
<1>3. CanComplete(d, c) => OldRows(d, Complete(d, c, now))
  BY DEF OldRows, Complete, CanComplete, Rows, Active, ActiveStatus, Database, Row
<1>4. OldRows(d, Delete(d, c, now))
  BY DEF OldRows, Delete, Absent, Rows, Active, ActiveStatus, Database, Row
<1> QED
  BY <1>1, <1>2, <1>3, <1>4

\* A store call does its work or nothing.
LEMMA AttemptKeepsChannels ==
  ASSUME NEW d, NEW can \in BOOLEAN, NEW new, can => OldRows(d, new),
         NEW r \in Attempt(d, can, new)
  PROVE  OldRows(d, r.db)
<1>1. r.db = d \/ (can /\ r.db = new)
  BY AttemptEnds
<1>2. OldRows(d, d)
  BY SameRowsAreOld
<1> QED
  BY <1>1, <1>2

LEMMA ReopenKeepsChannels ==
  ASSUME NEW d \in Database, NEW c \in Convs, NEW r \in ReopenAfterFailure(d, c)
  PROVE  OldRows(d, r.db)
<1> DEFINE new == Reopen(d, c)
<1>1. OldRows(d, new)
  BY TransactionsKeepChannels
<1>2. r \in Attempt(d, TRUE, new)
  BY DEF ReopenAfterFailure
<1> HIDE DEF new
<1> QED
  BY <1>1, <1>2, AttemptKeepsChannels

LEMMA GiveUpClosingKeepsChannels ==
  ASSUME NEW d, NEW now \in Nat, StoreInv(d, now), NEW c \in Convs, NEW out,
         NEW r \in GiveUpClosing(d, c, out)
  PROVE  OldRows(d, r.db)
<1>1. PICK q \in RecordDeliveryError(d) :
            \/ q.out # "ok" /\ r = q
            \/ q.out = "ok" /\ r \in AndRaise(ReopenAfterFailure(q.db, c), out)
  BY DEF GiveUpClosing, AndThen
<1>2. Kept(d, q.db, now)
  BY DeliveryErrorEnds
<1>3. OldRows(d, q.db) /\ q.db \in Database
  BY <1>2, SameRowsAreOld DEF Kept, StoreInv
<1>4. CASE q.out # "ok"
  BY <1>1, <1>3, <1>4
<1>5. CASE q.out = "ok"
  <2>1. PICK t \in ReopenAfterFailure(q.db, c) : r = Result(t.db, out) \/ r = t
    BY <1>1, <1>5, RaiseEnds
  <2>2. OldRows(q.db, t.db)
    BY <1>3, ReopenKeepsChannels
  <2>3. r.db = t.db
    BY <2>1 DEF Result
  <2> QED
    BY <1>3, <2>2, <2>3, OldRowsCompose
<1> QED
  BY <1>4, <1>5

LEMMA GiveUpCardingKeepsChannels ==
  ASSUME NEW d, NEW now \in Nat, StoreInv(d, now), NEW c \in Convs, NEW fault,
         NEW r \in GiveUpCarding(d, c, fault)
  PROVE  OldRows(d, r.db)
<1>1. PICK q \in ReopenAfterFailure(d, c) :
            \/ q.out # "ok" /\ r = q
            \/ q.out = "ok" /\ r \in AndRaise(RecordAgentFailure(q.db, fault), "agentFailed")
  BY DEF GiveUpCarding, AndThen
<1>2. StoreInv(q.db, now)
  BY ReopenEnds DEF Moved
<1>3. OldRows(d, q.db)
  BY ReopenKeepsChannels DEF StoreInv
<1>4. CASE q.out # "ok"
  BY <1>1, <1>3, <1>4
<1>5. CASE q.out = "ok"
  <2>1. PICK t \in RecordAgentFailure(q.db, fault) : r = Result(t.db, "agentFailed") \/ r = t
    BY <1>1, <1>5, RaiseEnds
  <2>2. OldRows(q.db, t.db)
    BY <1>2, AgentFailureEnds, SameRowsAreOld DEF Kept
  <2>3. r.db = t.db
    BY <2>1 DEF Result
  <2> QED
    BY <1>3, <2>2, <2>3, OldRowsCompose
<1> QED
  BY <1>4, <1>5

\* A store call inside the try block of a closure.
LEMMA WhileClosingKeepsChannels ==
  ASSUME NEW d, NEW now \in Nat, StoreInv(d, now), NEW c \in Convs, NEW results,
         \A q \in results : OldRows(d, q.db) /\ StoreInv(q.db, now),
         NEW r \in WhileClosing(results, c)
  PROVE  OldRows(d, r.db)
<1>1. PICK q \in results : \/ q.out = "ok" /\ r = q
                           \/ q.out # "ok" /\ r \in GiveUpClosing(q.db, c, "unsaved")
  BY WhileClosingEnds
<1>2. OldRows(d, q.db) /\ StoreInv(q.db, now)
  BY <1>1
<1>3. CASE r = q
  BY <1>2, <1>3
<1>4. CASE r \in GiveUpClosing(q.db, c, "unsaved")
  BY <1>2, <1>4, GiveUpClosingKeepsChannels, OldRowsCompose
<1> QED
  BY <1>1, <1>3, <1>4

LEMMA BeginClosingKeepsChannels ==
  ASSUME NEW d, NEW now \in Nat, StoreInv(d, now), NEW c \in Active(d),
         NEW r \in BeginClosing(d, c)
  PROVE  OldRows(d, r.db)
<1> DEFINE first == IF d.conv[c].status = "CLOSING" THEN Attempt(d, TRUE, Reopen(d, c))
                                                    ELSE {Result(d, "ok")}
<1>1. c \in Convs
  BY DEF Active
<1>2. PICK q \in first :
            \/ q.out # "ok" /\ r = q
            \/ /\ q.out = "ok"
               /\ r \in WhileClosing(Attempt(q.db, CanMarkClosing(q.db, c), MarkClosing(q.db, c)), c)
  BY DEF BeginClosing, AndThen
<1>3. OldRows(d, q.db) /\ StoreInv(q.db, now)
  <2>1. CASE d.conv[c].status = "CLOSING"
    <3>1. q \in ReopenAfterFailure(d, c)
      BY <2>1 DEF ReopenAfterFailure
    <3> QED
      BY <1>1, <3>1, ReopenEnds, ReopenKeepsChannels DEF Moved, StoreInv
  <2>2. CASE d.conv[c].status # "CLOSING"
    BY <2>2, SameRowsAreOld DEF Result
  <2> QED
    BY <2>1, <2>2
<1>4. CASE q.out # "ok"
  BY <1>2, <1>3, <1>4
<1>5. CASE q.out = "ok"
  <2> DEFINE e == q.db
             can == CanMarkClosing(e, c)
             new == MarkClosing(e, c)
             results == Attempt(e, can, new)
  <2>1. can \in BOOLEAN /\ (can => OldRows(e, new)) /\ (can => StoreInv(new, now))
    BY <1>1, <1>3, MarkClosingCoherent, TransactionsKeepChannels DEF CanMarkClosing, StoreInv
  <2>2. ASSUME NEW t \in results PROVE OldRows(e, t.db) /\ StoreInv(t.db, now)
    <3>1. t \in Attempt(e, can, new)
      OBVIOUS
    <3>2. StoreInv(e, now)
      BY <1>3
    <3> HIDE DEF e, can, new, results
    <3>3. OldRows(e, t.db)
      BY <2>1, <3>1, AttemptKeepsChannels
    <3>4. t.db = e \/ (can /\ t.db = new)
      BY <2>1, <3>1, AttemptEnds
    <3> QED
      BY <2>1, <3>2, <3>3, <3>4
  <2>3. r \in WhileClosing(results, c) /\ StoreInv(e, now)
    BY <1>2, <1>3, <1>5
  <2>4. OldRows(e, r.db)
    <3> HIDE DEF e, results
    <3> QED
      BY <1>1, <2>2, <2>3, WhileClosingKeepsChannels
  <2> QED
    BY <1>3, <2>4, OldRowsCompose
<1> QED
  BY <1>4, <1>5

LEMMA CardingKeepsChannels ==
  ASSUME NEW d, NEW now \in Nat, StoreInv(d, now), NEW c \in Convs,
         NEW session \in Sessions \cup {NULL},
         NEW r \in WhileClosing(Attempt(d, TRUE, RecordSuccess(d, session)), c)
  PROVE  OldRows(d, r.db)
<1> DEFINE results == Attempt(d, TRUE, RecordSuccess(d, session))
<1>1. ASSUME NEW q \in results PROVE OldRows(d, q.db) /\ StoreInv(q.db, now)
  <2>1. StoreInv(q.db, now) /\ q.db.conv = d.conv
    BY SuccessEnds, ZenonT(60)
  <2> QED
    BY <2>1, SameRowsAreOld
<1> HIDE DEF results
<1>2. r \in WhileClosing(results, c)
  BY DEF results
<1> QED
  BY <1>1, <1>2, WhileClosingKeepsChannels

\* The segment that follows the card; the call succeeds only if the
\* conversation is completed.
LEMMA CompletionKeepsChannels ==
  ASSUME NEW d, clock \in Nat, StoreInv(d, clock), NEW c \in Convs,
         d.conv[c].status = "CLOSING",
         NEW r \in WhileClosing(Attempt(d, CanComplete(d, c), Complete(d, c, clock)), c)
  PROVE  /\ OldRows(d, r.db)
         /\ r.out = "ok" => r.db.conv[c].status = "COMPLETED"
<1> DEFINE can == CanComplete(d, c)
           new == Complete(d, c, clock)
           results == Attempt(d, can, new)
<1>1. can /\ can \in BOOLEAN
  BY DEF CanComplete
<1>2. OldRows(d, new)
  BY <1>1, TransactionsKeepChannels DEF StoreInv
<1>3. new.conv[c].status = "COMPLETED"
  BY DEF Complete, StoreInv, Database, Row
<1>4. StoreInv(new, clock)
  BY <1>1, CompleteCoherent
<1>5. r \in WhileClosing(results, c)
  OBVIOUS
<1>6. ASSUME NEW q \in results
      PROVE  /\ OldRows(d, q.db) /\ StoreInv(q.db, clock)
             /\ q.out = "ok" => q.db = new
  <2>1. q \in Attempt(d, can, new)
    OBVIOUS
  <2> HIDE DEF new, can, results
  <2>2. OldRows(d, q.db)
    BY <1>1, <1>2, <2>1, AttemptKeepsChannels
  <2>3. (q.db = d \/ q.db = new) /\ (q.out = "ok" => q.db = new)
    <3>1. can \in BOOLEAN /\ q \in Attempt(d, can, new)
      BY <1>1, <2>1
    <3> QED
      BY ONLY <3>1, AttemptEnds
  <2> QED
    BY <1>4, <2>2, <2>3
<1> HIDE DEF new, can, results
<1>7. OldRows(d, r.db)
  BY <1>5, <1>6, WhileClosingKeepsChannels
<1>8. ASSUME r.out = "ok" PROVE r.db.conv[c].status = "COMPLETED"
  <2>1. PICK q \in results : \/ q.out = "ok" /\ r = q
                             \/ q.out # "ok" /\ r \in GiveUpClosing(q.db, c, "unsaved")
    BY <1>5, WhileClosingEnds
  <2>2. CASE r \in GiveUpClosing(q.db, c, "unsaved")
    <3>1. GaveUp(q.db, r, c, "unsaved", clock)
      BY <1>6, <2>2, GiveUpClosingEnds
    <3> QED
      BY <1>8, <3>1 DEF GaveUp
  <2>3. CASE q.out = "ok" /\ r = q
    BY <1>3, <1>6, <2>3
  <2> QED
    BY <2>1, <2>2, <2>3
<1> QED
  BY <1>7, <1>8

LEMMA DeletionKeepsChannels ==
  ASSUME NEW d, clock \in Nat, StoreInv(d, clock), NEW c \in Convs,
         NEW r \in OrElse(Attempt(d, TRUE, Delete(d, c, clock)),
                          LAMBDA e : {Result(e, "unsaved")})
  PROVE  OldRows(d, r.db)
<1> DEFINE new == Delete(d, c, clock)
<1>1. OldRows(d, new)
  BY TransactionsKeepChannels DEF StoreInv
<1>2. PICK q \in Attempt(d, TRUE, new) : r = q \/ r = Result(q.db, "unsaved")
  BY DEF OrElse
<1> HIDE DEF new
<1>3. OldRows(d, q.db)
  BY <1>1, AttemptKeepsChannels
<1>4. r.db = q.db
  <2>1. CASE r = Result(q.db, "unsaved")
    BY ONLY <2>1 DEF Result
  <2> QED
    BY <1>2, <2>1
<1> QED
  BY <1>3, <1>4

\* The insertion of a conversation adds its row in the channel it was given,
\* and reports an error only if it did not, unless a read-back failed.
LEMMA InsertionKeepsChannels ==
  ASSUME NEW d, clock \in Nat, StoreInv(d, clock), NEW c \in Convs, NEW ch \in Channels,
         NEW r \in InsertConversation(d, c, ch)
  PROVE  /\ \/ OldRows(d, r.db)
            \/ /\ \A x \in Convs \ {c} : r.db.conv[x] = d.conv[x]
               /\ r.db.conv[c].channel = ch
         /\ "late" \notin StoreFaults /\ r.out # "ok" => OldRows(d, r.db)
<1> DEFINE can == CanStart(d, c)
           new == Start(d, c, ch, clock)
<1>1. can \in BOOLEAN
  BY DEF CanStart
<1>2. new.conv[c].channel = ch /\ \A x \in Convs \ {c} : new.conv[x] = d.conv[x]
  BY DEF Start, StoreInv, Database
<1>3. can => StoreInv(new, clock)
  BY StartCoherent
<1>4. PICK q \in Attempt(d, can, new) :
            \/ q.out = "ok" /\ r = q
            \/ q.out # "ok" /\ r \in AndRaise(RecordDeliveryError(q.db), "unsaved")
  BY DEF InsertConversation, OrElse
<1>5. "late" \notin StoreFaults /\ q.out # "ok" => q.db = d
  <2> HIDE DEF new, can
  <2> QED
    BY DEF Attempt, Result
<1> HIDE DEF new, can
<1>6. q.db = d \/ (can /\ q.db = new)
  BY <1>1, AttemptEnds
<1>7. StoreInv(q.db, clock)
  BY <1>3, <1>6
<1>8. CASE q.out = "ok" /\ r = q
  BY <1>2, <1>6, <1>8, SameRowsAreOld
<1>9. CASE q.out # "ok" /\ r \in AndRaise(RecordDeliveryError(q.db), "unsaved")
  <2>1. PICK t \in RecordDeliveryError(q.db) : r = Result(t.db, "unsaved") \/ r = t
    BY <1>9, RaiseEnds
  <2>2. t.db.conv = q.db.conv
    BY <1>7, DeliveryErrorEnds DEF Kept
  <2>3. r.db.conv = q.db.conv
    BY <2>1, <2>2 DEF Result
  <2> QED
    BY <1>2, <1>5, <1>6, <1>9, <2>3, SameRowsAreOld
<1> QED
  BY <1>4, <1>8, <1>9

-----------------------------------------------------------------------------
(* What a step of one task does to its call and to the other calls.        *)

Others(p) == \A q \in Callers \ {p} : call'[q] = call[q]

AllOld == \A s \in Stores : OldRows(stores[s], stores'[s])

\* A call is replaced.
LEMMA CallReplaced ==
  ASSUME Inv, NEW p \in Callers, NEW new, call' = [call EXCEPT ![p] = new]
  PROVE  call'[p] = new /\ Others(p)
  BY DEF Inv, TypeOK, Others

\* A call ends with an outcome.
LEMMA OutcomeEffect ==
  ASSUME Inv, NEW p \in Callers, NEW out,
         call' = [call EXCEPT ![p] = [Idle EXCEPT !.outcome = out]]
  PROVE  Others(p) /\ call'[p].pc = "idle" /\ call'[p].outcome = out
<1> DEFINE new == [Idle EXCEPT !.outcome = out]
<1>1. new.pc = "idle" /\ new.outcome = out
  BY DEF Idle
<1>2. call' = [call EXCEPT ![p] = new]
  OBVIOUS
<1> HIDE DEF new
<1> QED
  BY <1>1, <1>2, CallReplaced

LEMMA ReturnEffect ==
  ASSUME Inv, NEW p \in Callers, NEW out, Return(p, out)
  PROVE  /\ Others(p)
         /\ call'[p].pc \in {"idle", "claimed"}
         /\ call'[p].outcome = out
<1>1. call[p] \in Call /\ call \in [Callers -> Call]
  BY DEF Inv, TypeOK
<1>2. CASE call[p].claimed /\ out # "ok"
  <2> DEFINE new == [call[p] EXCEPT !.pc = "claimed", !.outcome = out]
  <2>1. new.pc = "claimed" /\ new.outcome = out
    BY <1>1 DEF Call
  <2>2. call' = [call EXCEPT ![p] = new]
    BY <1>1, <1>2 DEF Return, Call
  <2> HIDE DEF new
  <2> QED
    BY <2>1, <2>2, CallReplaced
<1>3. CASE ~(call[p].claimed /\ out # "ok")
  <2>1. call' = [call EXCEPT ![p] = [Idle EXCEPT !.outcome = out]]
    BY <1>3 DEF Return
  <2> QED
    BY <2>1, OutcomeEffect
<1> QED
  BY <1>2, <1>3

LEMMA RefuseEffect ==
  ASSUME Inv, NEW p \in Callers, NEW reasons, Refuse(p, reasons), "ok" \notin reasons
  PROVE  /\ Others(p) /\ UNCHANGED stores
         /\ call'[p].pc = "idle" /\ call'[p].outcome # "ok"
<1>1. PICK out \in IF gate # NULL THEN {"busy"} ELSE reasons \cup ReadErrors :
        call' = [call EXCEPT ![p] = [Idle EXCEPT !.outcome = out]]
  BY DEF Refuse
<1>2. out # "ok"
  BY <1>1 DEF ReadErrors
<1> QED
  BY <1>1, <1>2, OutcomeEffect DEF Refuse

LEMMA EnterEffect ==
  ASSUME Inv, NEW p \in Callers, NEW s, NEW pc, NEW c, NEW ch, Enter(p, s, pc, c, ch)
  PROVE  /\ Others(p)
         /\ call'[p].pc = pc /\ call'[p].store = s
         /\ call'[p].conv = c /\ call'[p].channel = ch
<1> DEFINE new == [Idle EXCEPT !.pc = pc, !.store = s, !.conv = c, !.channel = ch]
<1>1. new.pc = pc /\ new.store = s /\ new.conv = c /\ new.channel = ch
  BY DEF Idle
<1>2. call' = [call EXCEPT ![p] = new]
  BY DEF Enter
<1> HIDE DEF new
<1> QED
  BY <1>1, <1>2, CallReplaced

\* One store is replaced by one with only old rows.
LEMMA WriteIsOld ==
  ASSUME Inv, NEW s \in Stores, NEW e, OldRows(stores[s], e),
         stores' = [stores EXCEPT ![s] = e]
  PROVE  AllOld
<1>1. stores'[s] = e /\ \A t \in Stores \ {s} : stores'[t] = stores[t]
  BY DEF Inv, TypeOK
<1> QED
  BY <1>1, SameRowsAreOld DEF AllOld

LEMMA NoWriteIsOld ==
  ASSUME UNCHANGED stores
  PROVE  AllOld
  BY SameRowsAreOld DEF AllOld

-----------------------------------------------------------------------------
(* Calls that begin.                                                       *)

LEMMA StartEffect ==
  ASSUME Inv, NEW p \in Callers, NEW s \in Stores, NEW ch \in Channels,
         StartConversation(p, s, ch) \/ StartClaimedConversation(p, s, ch)
  PROVE  /\ Others(p) /\ UNCHANGED stores
         /\ \/ call'[p].pc = "newSession" /\ call'[p].channel = ch
            \/ /\ call'[p].pc \in {"idle", "claimed"}
               /\ call'[p].outcome \in StartRefusal(stores[s]) \cup {"escaped", "busy"}
<1>1. CASE Refuse(p, StartRefusal(stores[s]))
  <2>1. PICK out \in IF gate # NULL THEN {"busy"} ELSE StartRefusal(stores[s]) \cup ReadErrors :
          call' = [call EXCEPT ![p] = [Idle EXCEPT !.outcome = out]]
    BY <1>1 DEF Refuse
  <2> QED
    BY <1>1, <2>1, OutcomeEffect DEF Refuse, ReadErrors
<1>2. CASE Enter(p, s, "newSession", NULL, ch) /\ UNCHANGED stores
  BY <1>2, EnterEffect
<1>3. ASSUME NEW out \in StartRefusal(stores[s]) \cup ReadErrors, Return(p, out), UNCHANGED stores
      PROVE  /\ Others(p) /\ UNCHANGED stores
             /\ call'[p].pc \in {"idle", "claimed"}
             /\ call'[p].outcome \in StartRefusal(stores[s]) \cup {"escaped", "busy"}
  BY <1>3, ReturnEffect DEF ReadErrors
<1>4. CASE /\ call' = [call EXCEPT ![p].pc = "newSession", ![p].store = s, ![p].channel = ch]
           /\ UNCHANGED stores
  <2> DEFINE new == [call[p] EXCEPT !.pc = "newSession", !.store = s, !.channel = ch]
  <2>1. call[p] \in Call /\ call \in [Callers -> Call]
    BY DEF Inv, TypeOK
  <2>2. new.pc = "newSession" /\ new.channel = ch /\ call' = [call EXCEPT ![p] = new]
    BY <1>4, <2>1 DEF Call
  <2> HIDE DEF new
  <2> QED
    BY <1>4, <2>2, CallReplaced
<1> QED
  BY <1>1, <1>2, <1>3, <1>4 DEF StartConversation, StartClaimedConversation

LEMMA ReplyEffect ==
  ASSUME Inv, NEW p \in Callers, NEW s \in Stores, NEW ch \in Channels, Reply(p, s, ch)
  PROVE  /\ Others(p) /\ UNCHANGED stores
         /\ call'[p].pc \in {"idle", "answering"}
<1>1. CASE Refuse(p, Refusal(stores[s], ch))
  BY <1>1, RefuseEffect DEF Refusal
<1>2. CASE Refuse(p, {"notOpen"})
  BY <1>2, RefuseEffect
<1>3. ASSUME NEW c, Enter(p, s, "answering", c, ch), UNCHANGED stores
      PROVE  Others(p) /\ call'[p].pc = "answering"
  BY <1>3, EnterEffect
<1> QED
  BY <1>1, <1>2, <1>3 DEF Reply

\* A closure that goes on has its conversation, in the channel it was asked in.
LEMMA CompleteEffect ==
  ASSUME Inv, NEW p \in Callers, NEW s \in Stores, NEW ch \in Channels,
         CompleteConversation(p, s, ch)
  PROVE  /\ Others(p) /\ AllOld
         /\ \/ call'[p].pc = "idle" /\ call'[p].outcome # "ok"
            \/ /\ call'[p].pc = "carding" /\ call'[p].store = s
               /\ call'[p].conv \in Convs
               /\ stores[s].conv[call'[p].conv].channel = ch
<1>1. CASE Refuse(p, Refusal(stores[s], ch))
  BY <1>1, RefuseEffect, NoWriteIsOld DEF Refusal
<1>2. ASSUME NEW c \in ActiveIn(stores[s], ch), NEW r \in BeginClosing(stores[s], c),
             stores' = [stores EXCEPT ![s] = r.db],
             IF r.out = "ok" THEN Enter(p, s, "carding", c, ch)
             ELSE /\ call' = [call EXCEPT ![p] = [Idle EXCEPT !.outcome = r.out]]
                  /\ UNCHANGED gate
      PROVE  /\ Others(p) /\ AllOld
             /\ \/ call'[p].pc = "idle" /\ call'[p].outcome # "ok"
                \/ /\ call'[p].pc = "carding" /\ call'[p].store = s
                   /\ call'[p].conv \in Convs
                   /\ stores[s].conv[call'[p].conv].channel = ch
  <2>1. c \in Active(stores[s]) /\ c \in Convs /\ stores[s].conv[c].channel = ch
    BY ActiveIsOne DEF ActiveIn
  <2>2. StoreInv(stores[s], clock) /\ clock \in Nat
    BY ClockIsNat DEF Inv, Coherent
  <2>3. OldRows(stores[s], r.db)
    BY <2>1, <2>2, BeginClosingKeepsChannels
  <2>4. AllOld
    <3> DEFINE e == r.db
    <3>1. stores' = [stores EXCEPT ![s] = e] /\ OldRows(stores[s], e)
      BY <1>2, <2>3
    <3> HIDE DEF e
    <3> QED
      BY <3>1, WriteIsOld
  <2>5. CASE r.out = "ok"
    BY <1>2, <2>1, <2>4, <2>5, EnterEffect
  <2>6. CASE r.out # "ok"
    <3> DEFINE out == r.out
    <3>1. out # "ok" /\ call' = [call EXCEPT ![p] = [Idle EXCEPT !.outcome = out]]
      BY <1>2, <2>6
    <3> HIDE DEF out
    <3> QED
      BY <2>4, <3>1, OutcomeEffect
  <2> QED
    BY <2>5, <2>6
<1> QED
  BY <1>1, <1>2 DEF CompleteConversation

LEMMA DiscardEffect ==
  ASSUME Inv, NEW p \in Callers, NEW s \in Stores, NEW ch \in Channels,
         DiscardConversation(p, s, ch)
  PROVE  Others(p) /\ AllOld /\ call'[p].pc = "idle"
<1>1. CASE Refuse(p, IF DiscardTarget(stores[s], ch) = {} THEN {"noActive"} ELSE {})
  BY <1>1, RefuseEffect, NoWriteIsOld
<1>2. ASSUME NEW c \in DiscardTarget(stores[s], ch),
             NEW r \in OrElse(Attempt(stores[s], TRUE, Delete(stores[s], c, clock)),
                              LAMBDA d : {Result(d, "unsaved")}),
             stores' = [stores EXCEPT ![s] = r.db],
             call' = [call EXCEPT ![p] = [Idle EXCEPT !.outcome = r.out]]
      PROVE  Others(p) /\ AllOld /\ call'[p].pc = "idle"
  <2>1. c \in Convs
    BY DEF DiscardTarget, ActiveConversation, LatestInChannel, Newest, Active, Rows
  <2>2. StoreInv(stores[s], clock) /\ clock \in Nat
    BY ClockIsNat DEF Inv, Coherent
  <2> DEFINE e == r.db
             out == r.out
  <2>3. /\ OldRows(stores[s], e) /\ stores' = [stores EXCEPT ![s] = e]
        /\ call' = [call EXCEPT ![p] = [Idle EXCEPT !.outcome = out]]
    BY <1>2, <2>1, <2>2, DeletionKeepsChannels
  <2> HIDE DEF e, out
  <2> QED
    BY <2>3, WriteIsOld, OutcomeEffect
<1> QED
  BY <1>1, <1>2 DEF DiscardConversation

\* The lease is taken for a start, or given back.
LEMMA ClaimEffect ==
  ASSUME Inv, NEW p \in Callers, ClaimGate(p) \/ ReleaseClaim(p)
  PROVE  /\ Others(p) /\ UNCHANGED stores
         /\ call'[p].pc = IF ClaimGate(p) THEN "claimed" ELSE "idle"
         /\ call'[p].outcome = NULL
<1>1. CASE ClaimGate(p)
  <2> DEFINE new == [Idle EXCEPT !.pc = "claimed", !.claimed = TRUE]
  <2>1. new.pc = "claimed" /\ new.outcome = NULL /\ call' = [call EXCEPT ![p] = new]
    BY <1>1 DEF ClaimGate, Idle
  <2> HIDE DEF new
  <2> QED
    BY <1>1, <2>1, CallReplaced DEF ClaimGate
<1>2. CASE ReleaseClaim(p)
  <2>1. ~ClaimGate(p)
    BY <1>2 DEF ReleaseClaim, ClaimGate, Ready
  <2>2. call' = [call EXCEPT ![p] = Idle] /\ Idle.pc = "idle" /\ Idle.outcome = NULL
    BY <1>2 DEF ReleaseClaim, Idle
  <2> QED
    BY <1>2, <2>1, <2>2, CallReplaced DEF ReleaseClaim
<1> QED
  BY <1>1, <1>2

-----------------------------------------------------------------------------
(* Awaits that end.                                                        *)

\* The awaits that may follow each other in one call.
SameCall(pc, next) ==
  \/ pc \in StartAwaits /\ next \in StartAwaits
  \/ pc \in ReplyAwaits /\ next \in ReplyAwaits
  \/ pc \in CompleteAwaits /\ next \in CompleteAwaits

\* The call goes on, about what it was about; or it is over.
GoesOn(p) ==
  /\ SameCall(call[p].pc, call'[p].pc)
  /\ call'[p].store = call[p].store
  /\ call'[p].conv = call[p].conv
  /\ call'[p].channel = call[p].channel
  /\ call'[p].outcome = call[p].outcome

\* The outcomes a call that was suspended may have.
LateOutcomes == {"ok", "escaped"} \cup Failures

Over(p) == call'[p].pc \in {"idle", "claimed"} /\ call'[p].outcome \in LateOutcomes

\* A closure succeeds only when its conversation is completed.
ClosedIfOver(p) ==
  call[p].pc \in CompleteAwaits /\ Over(p) /\ call'[p].outcome = "ok" =>
    stores'[call[p].store].conv[call[p].conv].status = "COMPLETED"

LEMMA ProceedEffect ==
  ASSUME Inv, NEW p \in Callers, call[p].pc \in Awaits, NEW results, NEW next,
         Proceed(p, results, next), next = "idle" \/ SameCall(call[p].pc, next)
  PROVE  /\ Others(p)
         /\ \E r \in results :
              /\ stores' = [stores EXCEPT ![call[p].store] = r.db]
              /\ \/ next # "idle" /\ GoesOn(p)
                 \/ /\ r.out # "ok" \/ next = "idle"
                    /\ call'[p].pc \in {"idle", "claimed"} /\ call'[p].outcome = r.out
<1>1. PICK r \in results :
           /\ stores' = [stores EXCEPT ![call[p].store] = r.db]
           /\ \/ /\ r.out = "ok" /\ next # "idle"
                 /\ call' = [call EXCEPT ![p].pc = next] /\ gate' = gate
              \/ (r.out # "ok" \/ next = "idle") /\ Return(p, r.out)
  BY ProceedEnds
<1>2. CASE (r.out # "ok" \/ next = "idle") /\ Return(p, r.out)
  <2> DEFINE out == r.out
  <2>1. Return(p, out) /\ (out # "ok" \/ next = "idle")
    BY <1>2
  <2> HIDE DEF out
  <2>2. Others(p) /\ call'[p].pc \in {"idle", "claimed"} /\ call'[p].outcome = out
    BY <2>1, ReturnEffect
  <2> QED
    BY <1>1, <2>1, <2>2 DEF out
<1>3. CASE next # "idle" /\ call' = [call EXCEPT ![p].pc = next]
  <2> DEFINE new == [call[p] EXCEPT !.pc = next]
  <2>1. call[p] \in Call /\ call \in [Callers -> Call]
    BY DEF Inv, TypeOK
  <2>2. /\ new.pc = next /\ new.store = call[p].store
        /\ new.conv = call[p].conv /\ new.channel = call[p].channel
        /\ new.outcome = call[p].outcome
    BY <2>1 DEF Call
  <2>3. call' = [call EXCEPT ![p] = new]
    BY <1>3, <2>1
  <2> HIDE DEF new
  <2>4. call'[p] = new /\ Others(p)
    BY <2>3, CallReplaced
  <2>5. GoesOn(p)
    BY <1>3, <2>2, <2>4 DEF GoesOn
  <2> QED
    BY <1>1, <1>3, <2>4, <2>5
<1> QED
  BY <1>1, <1>2, <1>3

\* A segment that moves or deletes rows at most.
LEMMA AwaitEffect ==
  ASSUME Inv, NEW p \in Callers, call[p].pc \in Awaits, NEW results, NEW next,
         Proceed(p, results, next), next = "idle" \/ SameCall(call[p].pc, next),
         \A r \in results :
           /\ OldRows(Data(p), r.db)
           /\ r.out \in LateOutcomes
           /\ call[p].pc \in CompleteAwaits /\ r.out = "ok" /\ next = "idle" =>
                r.db.conv[call[p].conv].status = "COMPLETED"
  PROVE  Others(p) /\ (GoesOn(p) \/ Over(p)) /\ AllOld /\ ClosedIfOver(p)
<1>1. Others(p)
  BY ProceedEffect
<1>2. PICK r \in results :
              /\ stores' = [stores EXCEPT ![call[p].store] = r.db]
              /\ \/ next # "idle" /\ GoesOn(p)
                 \/ /\ r.out # "ok" \/ next = "idle"
                    /\ call'[p].pc \in {"idle", "claimed"} /\ call'[p].outcome = r.out
  BY ProceedEffect
<1>3. call[p].store \in Stores /\ stores \in [Stores -> Database]
  BY SuspendedCall DEF Inv, TypeOK
<1>4. AllOld
  <2> DEFINE e == r.db
             s == call[p].store
  <2>1. stores' = [stores EXCEPT ![s] = e] /\ s \in Stores /\ OldRows(stores[s], e)
    BY <1>2, <1>3 DEF Data
  <2> HIDE DEF e, s
  <2> QED
    BY <2>1, WriteIsOld
<1>5. stores'[call[p].store] = r.db
  BY <1>2, <1>3
<1>6. CASE GoesOn(p)
  <2>1. ~Over(p)
    BY <1>6 DEF GoesOn, SameCall, Over, StartAwaits, ReplyAwaits, CompleteAwaits
  <2> QED
    BY <1>1, <1>4, <1>6, <2>1 DEF ClosedIfOver
<1>7. CASE /\ r.out # "ok" \/ next = "idle"
           /\ call'[p].pc \in {"idle", "claimed"} /\ call'[p].outcome = r.out
  BY <1>1, <1>4, <1>5, <1>7 DEF Over, ClosedIfOver
<1> QED
  BY <1>2, <1>6, <1>7

LEMMA NewSessionEffect ==
  ASSUME Inv, NEW p \in Callers, NEW session, NewSessionCreated(p, session)
  PROVE  Others(p) /\ (GoesOn(p) \/ Over(p)) /\ AllOld /\ ClosedIfOver(p)
<1> DEFINE results == {Result(Data(p), "ok")}
<1>1. call[p].pc = "newSession" /\ Proceed(p, results, "opening")
  BY DEF NewSessionCreated
<1>2. call[p].pc \in Awaits /\ call[p].pc \notin CompleteAwaits /\ SameCall(call[p].pc, "opening")
  BY <1>1 DEF Awaits, StartAwaits, CompleteAwaits, SameCall
<1>3. \A r \in results : OldRows(Data(p), r.db) /\ r.out \in LateOutcomes
  BY SameRowsAreOld DEF Result, LateOutcomes
<1> HIDE DEF results
<1> QED
  BY <1>1, <1>2, <1>3, AwaitEffect

LEMMA PromptEffect ==
  ASSUME Inv, NEW p \in Callers, PromptAnswered(p)
  PROVE  Others(p) /\ (GoesOn(p) \/ Over(p)) /\ AllOld /\ ClosedIfOver(p)
<1> DEFINE recorded == Attempt(Data(p), TRUE, RecordSuccess(Data(p), pi.session))
           c == call[p].conv
           carded == WhileClosing(recorded, c)
<1>1. StoreInv(Data(p), clock) /\ clock \in Nat /\ pi.session \in Sessions \cup {NULL}
  BY SuspendedCall
<1>2. ASSUME NEW r \in recorded PROVE OldRows(Data(p), r.db) /\ r.out \in LateOutcomes
  <2>1. r.db.conv = Data(p).conv /\ r.out \in {"ok", "escaped"}
    BY <1>1, SuccessEnds, ZenonT(60)
  <2> QED
    BY <2>1, SameRowsAreOld DEF LateOutcomes
<1>3. \/ call[p].pc = "opening" /\ Proceed(p, recorded, "sendQuestion")
      \/ call[p].pc = "answering" /\ Proceed(p, recorded, "sendReply")
      \/ call[p].pc = "carding" /\ Proceed(p, carded, "sendCard")
  BY DEF PromptAnswered
<1>4. CASE call[p].pc = "carding" /\ Proceed(p, carded, "sendCard")
  <2>1. call[p].pc \in CompleteAwaits /\ call[p].pc \in Awaits /\ SameCall(call[p].pc, "sendCard")
    BY <1>4 DEF CompleteAwaits, Awaits, SameCall
  <2>2. c \in Convs
    BY <2>1, SuspendedCall
  <2>3. ASSUME NEW r \in carded PROVE OldRows(Data(p), r.db) /\ r.out \in LateOutcomes
    <3>1. OldRows(Data(p), r.db) /\ Carded(Data(p), r, c, pi.session, clock)
      BY <1>1, <2>2, CardingKeepsChannels, CardingEnds
    <3> QED
      BY <3>1 DEF Carded, LateOutcomes, Failures
  <2> HIDE DEF carded
  <2> QED
    BY <1>4, <2>1, <2>3, AwaitEffect
<1>5. CASE call[p].pc = "opening" /\ Proceed(p, recorded, "sendQuestion")
  <2>1. /\ call[p].pc \in Awaits /\ call[p].pc \notin CompleteAwaits
        /\ SameCall(call[p].pc, "sendQuestion")
    BY <1>5 DEF CompleteAwaits, StartAwaits, Awaits, SameCall
  <2> HIDE DEF recorded
  <2> QED
    BY <1>2, <1>5, <2>1, AwaitEffect
<1>6. CASE call[p].pc = "answering" /\ Proceed(p, recorded, "sendReply")
  <2>1. /\ call[p].pc \in Awaits /\ call[p].pc \notin CompleteAwaits
        /\ SameCall(call[p].pc, "sendReply")
    BY <1>6 DEF CompleteAwaits, ReplyAwaits, Awaits, SameCall
  <2> HIDE DEF recorded
  <2> QED
    BY <1>2, <1>6, <2>1, AwaitEffect
<1> QED
  BY <1>3, <1>4, <1>5, <1>6

LEMMA AgentFailedEffect ==
  ASSUME Inv, NEW p \in Callers, NEW fault, AgentFailed(p, fault)
  PROVE  Others(p) /\ (GoesOn(p) \/ Over(p)) /\ AllOld /\ ClosedIfOver(p)
<1> DEFINE c == call[p].conv
           results ==
             CASE fault = "broken" -> {Result(Data(p), "escaped")}
               [] fault # "broken" /\ call[p].pc = "carding" ->
                    GiveUpCarding(Data(p), call[p].conv, fault)
               [] OTHER -> AndRaise(RecordAgentFailure(Data(p), fault), "agentFailed")
<1>1. Proceed(p, results, "idle") /\ call[p].pc \in Awaits
  BY DEF AgentFailed, Awaits, StartAwaits, ReplyAwaits, CompleteAwaits
<1>2. StoreInv(Data(p), clock) /\ clock \in Nat
  BY SuspendedCall
<1>3. ASSUME NEW r \in results
      PROVE  OldRows(Data(p), r.db) /\ r.out \in {"escaped", "agentFailed"}
  <2>1. CASE fault = "broken"
    <3>1. r = Result(Data(p), "escaped")
      BY <1>3, <2>1
    <3> QED
      BY <3>1, SameRowsAreOld DEF Result
  <2>2. CASE fault # "broken" /\ call[p].pc = "carding"
    <3>1. r \in GiveUpCarding(Data(p), c, fault)
      BY <1>3, <2>2
    <3>2. c \in Convs
      BY <2>2, SuspendedCall DEF CompleteAwaits
    <3>3. OldRows(Data(p), r.db) /\ GaveUp(Data(p), r, c, "agentFailed", clock)
      BY <1>2, <3>1, <3>2, GiveUpCardingEnds, GiveUpCardingKeepsChannels
    <3> QED
      BY <3>3 DEF GaveUp
  <2>3. CASE fault # "broken" /\ call[p].pc # "carding"
    <3>1. r \in AndRaise(RecordAgentFailure(Data(p), fault), "agentFailed")
      BY <1>3, <2>3
    <3>2. PICK q \in RecordAgentFailure(Data(p), fault) :
              \/ q.out = "ok" /\ r = Result(q.db, "agentFailed")
              \/ q.out # "ok" /\ r = q
      BY <3>1, RaiseEnds
    <3>3. Kept(Data(p), q.db, clock) /\ q.out \in {"ok", "escaped"}
      BY <1>2, AgentFailureEnds
    <3>4. r.db = q.db /\ r.out \in {"agentFailed", "escaped"}
      BY <3>2, <3>3 DEF Result
    <3> QED
      BY <3>3, <3>4, SameRowsAreOld DEF Kept
  <2> QED
    BY <2>1, <2>2, <2>3
<1>4. \A r \in results : r.out \in LateOutcomes /\ r.out # "ok"
  BY <1>3 DEF LateOutcomes, Failures
<1> HIDE DEF results
<1> QED
  BY <1>1, <1>3, <1>4, AwaitEffect

LEMMA ReplySentEffect ==
  ASSUME Inv, NEW p \in Callers, ReplySent(p)
  PROVE  Others(p) /\ (GoesOn(p) \/ Over(p)) /\ AllOld /\ ClosedIfOver(p)
<1> DEFINE results == {Result(Data(p), "ok")}
<1>1. call[p].pc = "sendReply" /\ Proceed(p, results, "idle")
  BY DEF ReplySent
<1>2. call[p].pc \in Awaits /\ call[p].pc \notin CompleteAwaits
  BY <1>1 DEF Awaits, ReplyAwaits, CompleteAwaits
<1>3. \A r \in results : OldRows(Data(p), r.db) /\ r.out \in LateOutcomes
  BY SameRowsAreOld DEF Result, LateOutcomes
<1> HIDE DEF results
<1> QED
  BY <1>1, <1>2, <1>3, AwaitEffect

LEMMA CardSentEffect ==
  ASSUME Inv, NEW p \in Callers, CardSent(p)
  PROVE  Others(p) /\ (GoesOn(p) \/ Over(p)) /\ AllOld /\ ClosedIfOver(p)
<1> DEFINE c == call[p].conv
           results == WhileClosing(Attempt(Data(p), CanComplete(Data(p), c),
                                           Complete(Data(p), c, clock)), c)
<1>1. call[p].pc = "sendCard" /\ Proceed(p, results, "idle")
  BY DEF CardSent
<1>2. call[p].pc \in CompleteAwaits /\ call[p].pc \in Awaits
  BY <1>1 DEF Awaits, CompleteAwaits
<1>3. /\ c \in Convs /\ Data(p).conv[c].status = "CLOSING"
      /\ StoreInv(Data(p), clock) /\ clock \in Nat
  BY <1>2, SuspendedCall
<1>4. ASSUME NEW r \in results
      PROVE  /\ OldRows(Data(p), r.db)
             /\ r.out \in LateOutcomes
             /\ r.out = "ok" => r.db.conv[c].status = "COMPLETED"
  <2>1. OldRows(Data(p), r.db) /\ (r.out = "ok" => r.db.conv[c].status = "COMPLETED")
    BY <1>3, CompletionKeepsChannels
  <2>2. r.out \in {"ok", "escaped", "unsaved"}
    BY <1>3, CompletionEnds
  <2> QED
    BY <2>1, <2>2 DEF LateOutcomes, Failures
<1> HIDE DEF results
<1> QED
  BY <1>1, <1>2, <1>4, AwaitEffect

LEMMA DeliveryFailedEffect ==
  ASSUME Inv, NEW p \in Callers, NEW fault, DeliveryFailed(p, fault)
  PROVE  Others(p) /\ (GoesOn(p) \/ Over(p)) /\ AllOld /\ ClosedIfOver(p)
<1> DEFINE c == call[p].conv
           results ==
             CASE fault = "garbled" -> {Result(Data(p), "escaped")}
               [] fault # "garbled" /\ call[p].pc = "sendCard" ->
                    GiveUpClosing(Data(p), call[p].conv, "undelivered")
               [] OTHER -> AndRaise(RecordDeliveryError(Data(p)), "undelivered")
<1>1. Proceed(p, results, "idle") /\ call[p].pc \in {"sendQuestion", "sendCard", "sendReply"}
  BY DEF DeliveryFailed
<1>2. call[p].pc \in Awaits /\ (call[p].pc = "sendCard" => call[p].pc \in CompleteAwaits)
  BY <1>1 DEF Awaits, StartAwaits, ReplyAwaits, CompleteAwaits
<1>3. StoreInv(Data(p), clock) /\ clock \in Nat
  BY SuspendedCall
<1>4. ASSUME NEW r \in results
      PROVE  OldRows(Data(p), r.db) /\ r.out \in {"escaped", "undelivered"}
  <2>1. CASE fault = "garbled"
    <3>1. r = Result(Data(p), "escaped")
      BY <1>4, <2>1
    <3> QED
      BY <3>1, SameRowsAreOld DEF Result
  <2>2. CASE fault # "garbled" /\ call[p].pc = "sendCard"
    <3>1. r \in GiveUpClosing(Data(p), c, "undelivered")
      BY <1>4, <2>2
    <3>2. c \in Convs
      BY <1>2, <2>2, SuspendedCall
    <3>3. OldRows(Data(p), r.db) /\ GaveUp(Data(p), r, c, "undelivered", clock)
      BY <1>3, <3>1, <3>2, GiveUpClosingEnds, GiveUpClosingKeepsChannels
    <3> QED
      BY <3>3 DEF GaveUp
  <2>3. CASE fault # "garbled" /\ call[p].pc # "sendCard"
    <3>1. r \in AndRaise(RecordDeliveryError(Data(p)), "undelivered")
      BY <1>4, <2>3
    <3>2. PICK q \in RecordDeliveryError(Data(p)) :
              \/ q.out = "ok" /\ r = Result(q.db, "undelivered")
              \/ q.out # "ok" /\ r = q
      BY <3>1, RaiseEnds
    <3>3. Kept(Data(p), q.db, clock) /\ q.out \in {"ok", "escaped"}
      BY <1>3, DeliveryErrorEnds
    <3>4. r.db = q.db /\ r.out \in {"undelivered", "escaped"}
      BY <3>2, <3>3 DEF Result
    <3> QED
      BY <3>3, <3>4, SameRowsAreOld DEF Kept
  <2> QED
    BY <2>1, <2>2, <2>3
<1>5. \A r \in results : r.out \in LateOutcomes /\ r.out # "ok"
  BY <1>4 DEF LateOutcomes, Failures
<1> HIDE DEF results
<1> QED
  BY <1>1, <1>2, <1>4, <1>5, AwaitEffect

\* A new row, in the channel the call was given.
Inserted(p) ==
  /\ call[p].pc = "sendQuestion" /\ Over(p)
  /\ "late" \notin StoreFaults => call'[p].outcome = "ok"
  /\ \A s \in Stores \ {call[p].store} : stores'[s] = stores[s]
  /\ \E c \in Convs :
       /\ stores'[call[p].store].conv[c].channel = call[p].channel
       /\ \A x \in Convs \ {c} :
            stores'[call[p].store].conv[x] = stores[call[p].store].conv[x]

LEMMA QuestionSentEffect ==
  ASSUME Inv, NEW p \in Callers, NEW c \in Convs, QuestionSent(p, c)
  PROVE  Others(p) /\ Over(p) /\ ClosedIfOver(p) /\ (AllOld \/ Inserted(p))
<1> DEFINE ch == call[p].channel
           results == InsertConversation(Data(p), c, ch)
           s == call[p].store
<1>1. call[p].pc = "sendQuestion" /\ Proceed(p, results, "idle")
  BY DEF QuestionSent
<1>2. call[p].pc \in Awaits /\ call[p].pc \in StartAwaits /\ call[p].pc \notin CompleteAwaits
  BY <1>1 DEF Awaits, StartAwaits, CompleteAwaits
<1>3. /\ StoreInv(Data(p), clock) /\ clock \in Nat /\ ch \in Channels
      /\ s \in Stores /\ stores \in [Stores -> Database]
  BY <1>2, SuspendedCall DEF Inv, TypeOK
<1>4. ASSUME NEW r \in results
      PROVE  /\ r.out \in LateOutcomes
             /\ \/ OldRows(Data(p), r.db)
                \/ /\ "late" \notin StoreFaults => r.out = "ok"
                   /\ \A x \in Convs \ {c} : r.db.conv[x] = Data(p).conv[x]
                   /\ r.db.conv[c].channel = ch
  <2>1. r.out \in {"ok", "escaped", "unsaved"}
    BY <1>3, <1>4, InsertEnds
  <2>2. /\ \/ OldRows(Data(p), r.db)
           \/ /\ \A x \in Convs \ {c} : r.db.conv[x] = Data(p).conv[x]
              /\ r.db.conv[c].channel = ch
        /\ "late" \notin StoreFaults /\ r.out # "ok" => OldRows(Data(p), r.db)
    BY <1>3, <1>4, InsertionKeepsChannels
  <2> QED
    BY <2>1, <2>2 DEF LateOutcomes, Failures
<1> HIDE DEF results
<1>5. /\ Others(p)
      /\ \E r \in results :
           /\ stores' = [stores EXCEPT ![call[p].store] = r.db]
           /\ call'[p].pc \in {"idle", "claimed"} /\ call'[p].outcome = r.out
  BY <1>1, <1>2, ProceedEffect
<1>6. PICK r \in results :
        /\ stores' = [stores EXCEPT ![call[p].store] = r.db]
        /\ call'[p].pc \in {"idle", "claimed"} /\ call'[p].outcome = r.out
  BY <1>5
<1>7. Over(p) /\ ClosedIfOver(p)
  BY <1>2, <1>4, <1>6 DEF Over, ClosedIfOver
<1>8. stores'[s] = r.db /\ \A t \in Stores \ {s} : stores'[t] = stores[t]
  BY <1>3, <1>6
<1>9. CASE OldRows(Data(p), r.db)
  <2>1. AllOld
    BY <1>8, <1>9, SameRowsAreOld DEF AllOld, Data
  <2> QED
    BY <1>5, <1>7, <2>1
<1>10. CASE /\ "late" \notin StoreFaults => r.out = "ok"
            /\ \A x \in Convs \ {c} : r.db.conv[x] = Data(p).conv[x]
            /\ r.db.conv[c].channel = ch
  <2>1. Inserted(p)
    BY <1>1, <1>6, <1>7, <1>8, <1>10 DEF Inserted, Data
  <2> QED
    BY <1>5, <1>7, <2>1
<1> QED
  BY <1>4, <1>9, <1>10

\* Any await of a call.
LEMMA ResumedEffect ==
  ASSUME Inv, NEW p \in Callers, call[p].pc \in Awaits, Resumed(p)
  PROVE  /\ Others(p) /\ (GoesOn(p) \/ Over(p)) /\ ClosedIfOver(p)
         /\ AllOld \/ Inserted(p)
<1>1. ~ReleaseClaim(p)
  BY DEF ReleaseClaim, Awaits, StartAwaits, ReplyAwaits, CompleteAwaits
<1> QED
  BY <1>1, NewSessionEffect, PromptEffect, AgentFailedEffect, QuestionSentEffect,
     ReplySentEffect, CardSentEffect, DeliveryFailedEffect DEF Resumed

\* A change of the plan moves no conversation.
LEMMA PlanEffect ==
  ASSUME Inv, NEW s \in Stores, ChangePlan(s)
  PROVE  UNCHANGED call /\ AllOld
<1>1. PICK d \in {Pause(stores[s]), Resume(stores[s], clock)}
                  \cup {SetInterval(stores[s], i, clock) : i \in Intervals} :
         stores' = [stores EXCEPT ![s] = d]
  BY DEF ChangePlan
<1>2. d.conv = stores[s].conv
  BY <1>1 DEF Inv, TypeOK, Database, Pause, Resume, SetInterval
<1> QED
  BY <1>1, <1>2, SameRowsAreOld, WriteIsOld DEF ChangePlan

-----------------------------------------------------------------------------
(* Which exceptions escape.  When no store call fails, the agent raises    *)
(* errors it knows and every answer of the hub can be read, each handler   *)
(* translates what it caught: a call ends well, is refused, or ends with   *)
(* one of Failures.                                                        *)

NothingUnknown ==
  /\ StoreFaults = {}
  /\ "broken" \notin PiFaults
  /\ "garbled" \notin HubFaults

NothingEscapes == \A p \in Callers : call[p].outcome # "escaped"

\* A store call that may be made is made.
LEMMA AttemptSucceeds ==
  ASSUME NothingUnknown, NEW d, NEW new, NEW r \in Attempt(d, TRUE, new)
  PROVE  r.out = "ok"
  BY DEF NothingUnknown, Attempt, Result

\* What is raised after it is what was meant.
LEMMA RaisesOut ==
  ASSUME NothingUnknown, NEW d, NEW new, NEW out,
         NEW r \in AndRaise(Attempt(d, TRUE, new), out)
  PROVE  r.out = out
<1> DEFINE results == Attempt(d, TRUE, new)
<1>1. \A q \in results : q.out = "ok"
  BY DEF NothingUnknown, Attempt, Result
<1>2. r \in AndRaise(results, out)
  OBVIOUS
<1> HIDE DEF results
<1>3. PICK q \in results : \/ q.out = "ok" /\ r = Result(q.db, out)
                           \/ q.out # "ok" /\ r = q
  BY <1>2, RaiseEnds
<1> QED
  BY <1>1, <1>3 DEF Result

LEMMA GiveUpClosingRaises ==
  ASSUME NothingUnknown, NEW d, NEW c, NEW out, NEW r \in GiveUpClosing(d, c, out)
  PROVE  r.out = out
<1>1. PICK q \in RecordDeliveryError(d) :
        r \in IF q.out = "ok" THEN AndRaise(ReopenAfterFailure(q.db, c), out) ELSE {q}
  BY DEF GiveUpClosing, AndThen
<1>2. q.out = "ok"
  BY AttemptSucceeds DEF RecordDeliveryError
<1>3. r \in AndRaise(ReopenAfterFailure(q.db, c), out)
  BY <1>1, <1>2, Zenon
<1> QED
  BY <1>3, RaisesOut DEF ReopenAfterFailure

LEMMA GiveUpCardingRaises ==
  ASSUME NothingUnknown, NEW d, NEW c, NEW fault, NEW r \in GiveUpCarding(d, c, fault)
  PROVE  r.out = "agentFailed"
<1>1. PICK q \in ReopenAfterFailure(d, c) :
        r \in IF q.out = "ok" THEN AndRaise(RecordAgentFailure(q.db, fault), "agentFailed")
              ELSE {q}
  BY DEF GiveUpCarding, AndThen
<1>2. q.out = "ok"
  BY AttemptSucceeds DEF ReopenAfterFailure
<1>3. r \in AndRaise(RecordAgentFailure(q.db, fault), "agentFailed")
  BY <1>1, <1>2, Zenon
<1> QED
  BY <1>3, RaisesOut DEF RecordAgentFailure

\* Inside the try even a store call that may not be made is handled.
LEMMA WhileClosingRaises ==
  ASSUME NothingUnknown, NEW results, NEW c, NEW r \in WhileClosing(results, c)
  PROVE  r.out \in {"ok", "unsaved"}
<1>1. PICK q \in results :
        r \in IF q.out = "ok" THEN {q} ELSE GiveUpClosing(q.db, c, "unsaved")
  BY DEF WhileClosing, OrElse
<1> QED
  BY <1>1, GiveUpClosingRaises

LEMMA BeginClosingRaises ==
  ASSUME NothingUnknown, NEW d, NEW c, NEW r \in BeginClosing(d, c)
  PROVE  r.out \in {"ok", "unsaved"}
<1> DEFINE reopened == IF d.conv[c].status = "CLOSING" THEN Attempt(d, TRUE, Reopen(d, c))
                                                       ELSE {Result(d, "ok")}
           marked(e) == Attempt(e, CanMarkClosing(e, c), MarkClosing(e, c))
<1>1. PICK q \in reopened : r \in IF q.out = "ok" THEN WhileClosing(marked(q.db), c) ELSE {q}
  BY DEF BeginClosing, AndThen
<1>2. q.out = "ok"
  BY DEF NothingUnknown, Attempt, Result
<1> QED
  BY <1>1, <1>2, WhileClosingRaises

LEMMA InsertRaises ==
  ASSUME NothingUnknown, NEW d, NEW c, NEW ch, NEW r \in InsertConversation(d, c, ch)
  PROVE  r.out \in {"ok", "unsaved"}
<1>1. PICK q \in Attempt(d, CanStart(d, c), Start(d, c, ch, clock)) :
        r \in IF q.out = "ok" THEN {q} ELSE AndRaise(RecordDeliveryError(q.db), "unsaved")
  BY DEF InsertConversation, OrElse
<1> QED
  BY <1>1, RaisesOut DEF RecordDeliveryError

\* A call that begins is refused for a reason it knows.
LEMMA RequestDoesNotEscape ==
  ASSUME NothingUnknown, Inv, NothingEscapes, NEW p \in Callers, Request(p)
  PROVE  call'[p].outcome # "escaped"
<1>0. ReadErrors = {} /\ NULL # "escaped"
  BY OutcomeAssumption DEF NothingUnknown, ReadErrors, Outcomes
<1>1. ASSUME NEW reasons, Refuse(p, reasons), "escaped" \notin reasons
      PROVE  call'[p].outcome # "escaped"
  <2>1. PICK out \in IF gate # NULL THEN {"busy"} ELSE reasons \cup ReadErrors :
               call' = [call EXCEPT ![p] = [Idle EXCEPT !.outcome = out]]
    BY <1>1 DEF Refuse
  <2>2. call'[p].outcome = out
    BY <2>1, OutcomeEffect
  <2> QED
    BY <1>0, <1>1, <2>1, <2>2
<1>2. ASSUME NEW s, NEW pc, NEW c, NEW ch, Enter(p, s, pc, c, ch)
      PROVE  call'[p].outcome # "escaped"
  <2> DEFINE new == [Idle EXCEPT !.pc = pc, !.store = s, !.conv = c, !.channel = ch]
  <2>1. new.outcome = NULL /\ call' = [call EXCEPT ![p] = new]
    BY <1>2 DEF Enter, Idle
  <2> HIDE DEF new
  <2> QED
    BY <1>0, <2>1, CallReplaced
<1>3. CASE ClaimGate(p)
  BY <1>0, <1>3, ClaimEffect
<1>4. CASE StartWithoutLease(p)
  <2> DEFINE out == "invalidLease"
  <2>1. out # "escaped" /\ call' = [call EXCEPT ![p] = [Idle EXCEPT !.outcome = out]]
    BY <1>4 DEF StartWithoutLease
  <2> HIDE DEF out
  <2> QED
    BY <2>1, OutcomeEffect
<1>5. ASSUME NEW s \in Stores, NEW ch \in Channels, StartConversation(p, s, ch)
      PROVE  call'[p].outcome # "escaped"
  BY <1>1, <1>2, <1>5 DEF StartConversation, StartRefusal
<1>6. ASSUME NEW s \in Stores, NEW ch \in Channels, StartClaimedConversation(p, s, ch)
      PROVE  call'[p].outcome # "escaped"
  <2>1. ASSUME NEW out \in StartRefusal(stores[s]) \cup ReadErrors, Return(p, out)
        PROVE  call'[p].outcome # "escaped"
    BY <1>0, <2>1, ReturnEffect DEF StartRefusal
  <2>2. CASE call' = [call EXCEPT ![p].pc = "newSession", ![p].store = s, ![p].channel = ch]
    <3> DEFINE new == [call[p] EXCEPT !.pc = "newSession", !.store = s, !.channel = ch]
    <3>1. call[p] \in Call /\ call \in [Callers -> Call]
      BY DEF Inv, TypeOK
    <3>2. new.outcome = call[p].outcome /\ call' = [call EXCEPT ![p] = new]
      BY <2>2, <3>1 DEF Call
    <3> HIDE DEF new
    <3> QED
      BY <3>2, CallReplaced DEF NothingEscapes
  <2> QED
    BY <1>6, <2>1, <2>2 DEF StartClaimedConversation
<1>7. ASSUME NEW s \in Stores, NEW ch \in Channels, Reply(p, s, ch)
      PROVE  call'[p].outcome # "escaped"
  BY <1>1, <1>2, <1>7 DEF Reply, Refusal
<1>8. ASSUME NEW r, r.out # "escaped", call' = [call EXCEPT ![p] = [Idle EXCEPT !.outcome = r.out]]
      PROVE  call'[p].outcome # "escaped"
  <2> DEFINE out == r.out
  <2>1. out # "escaped" /\ call' = [call EXCEPT ![p] = [Idle EXCEPT !.outcome = out]]
    BY <1>8
  <2> HIDE DEF out
  <2> QED
    BY <2>1, OutcomeEffect
<1>9. ASSUME NEW s \in Stores, NEW ch \in Channels, CompleteConversation(p, s, ch)
      PROVE  call'[p].outcome # "escaped"
  <2>1. ASSUME NEW c \in ActiveIn(stores[s], ch), NEW r \in BeginClosing(stores[s], c),
               IF r.out = "ok" THEN Enter(p, s, "carding", c, ch)
               ELSE /\ call' = [call EXCEPT ![p] = [Idle EXCEPT !.outcome = r.out]]
                    /\ UNCHANGED gate
        PROVE  call'[p].outcome # "escaped"
    <3>1. r.out # "escaped"
      BY BeginClosingRaises
    <3> QED
      BY <1>2, <1>8, <2>1, <3>1
  <2> QED
    BY <1>1, <1>9, <2>1 DEF CompleteConversation, Refusal
<1>10. ASSUME NEW s \in Stores, NEW ch \in Channels, DiscardConversation(p, s, ch)
       PROVE  call'[p].outcome # "escaped"
  <2>1. ASSUME NEW c \in DiscardTarget(stores[s], ch),
               NEW r \in OrElse(Attempt(stores[s], TRUE, Delete(stores[s], c, clock)),
                                LAMBDA d : {Result(d, "unsaved")}),
               call' = [call EXCEPT ![p] = [Idle EXCEPT !.outcome = r.out]]
        PROVE  call'[p].outcome # "escaped"
    <3> DEFINE deleted == Attempt(stores[s], TRUE, Delete(stores[s], c, clock))
    <3>1. PICK q \in deleted : r \in IF q.out = "ok" THEN {q} ELSE {Result(q.db, "unsaved")}
      BY <2>1 DEF OrElse
    <3> HIDE DEF deleted
    <3>2. r.out # "escaped"
      <4>1. CASE q.out = "ok"
        BY <3>1, <4>1
      <4>2. CASE q.out # "ok"
        <5>1. r = Result(q.db, "unsaved")
          BY <3>1, <4>2
        <5> QED
          BY <5>1 DEF Result
      <4> QED
        BY <4>1, <4>2
    <3> QED
      BY <1>8, <2>1, <3>2
  <2> QED
    BY <1>1, <1>10, <2>1 DEF DiscardConversation
<1> QED
  BY <1>3, <1>4, <1>5, <1>6, <1>7, <1>9, <1>10 DEF Request

\* A call that was suspended handles what its await raised.
LEMMA ResumedDoesNotEscape ==
  ASSUME NothingUnknown, Inv, NEW p \in Callers, Resumed(p)
  PROVE  call'[p].outcome # "escaped"
<1>0. NULL # "escaped"
  BY OutcomeAssumption DEF Outcomes
<1>1. ASSUME NEW results, NEW next, Proceed(p, results, next), call[p].pc \in Awaits,
             \A r \in results : r.out # "escaped"
      PROVE  call'[p].outcome # "escaped"
  BY <1>0, <1>1, ProceedOutcome
<1>2. ASSUME NEW session, NewSessionCreated(p, session)
      PROVE  call'[p].outcome # "escaped"
  <2> DEFINE results == {Result(Data(p), "ok")}
  <2>1. /\ Proceed(p, results, "opening") /\ call[p].pc \in Awaits
        /\ \A r \in results : r.out = "ok"
    BY <1>2 DEF NewSessionCreated, Result, Awaits, StartAwaits
  <2> HIDE DEF results
  <2> QED
    BY <1>1, <2>1
<1>3. CASE PromptAnswered(p)
  <2> DEFINE recorded == Attempt(Data(p), TRUE, RecordSuccess(Data(p), pi.session))
             carded == WhileClosing(recorded, call[p].conv)
  <2>1. /\ call[p].pc \in Awaits
        /\ Proceed(p, recorded, "sendQuestion") \/ Proceed(p, recorded, "sendReply")
           \/ Proceed(p, carded, "sendCard")
    BY <1>3 DEF PromptAnswered, Awaits, StartAwaits, ReplyAwaits, CompleteAwaits
  <2>2. \A r \in recorded : r.out # "escaped"
    BY AttemptSucceeds
  <2>3. \A r \in carded : r.out # "escaped"
    BY WhileClosingRaises
  <2> HIDE DEF recorded, carded
  <2> QED
    BY <1>1, <2>1, <2>2, <2>3
<1>4. ASSUME NEW fault \in PiFaults, AgentFailed(p, fault)
      PROVE  call'[p].outcome # "escaped"
  <2> DEFINE results ==
        CASE fault = "broken" -> {Result(Data(p), "escaped")}
          [] fault # "broken" /\ call[p].pc = "carding" ->
               GiveUpCarding(Data(p), call[p].conv, fault)
          [] OTHER -> AndRaise(RecordAgentFailure(Data(p), fault), "agentFailed")
  <2>1. Proceed(p, results, "idle") /\ call[p].pc \in Awaits
    BY <1>4 DEF AgentFailed, Awaits, StartAwaits, ReplyAwaits, CompleteAwaits
  <2>2. fault # "broken"
    BY <1>4 DEF NothingUnknown
  <2>3. \A r \in results : r.out = "agentFailed"
    BY <2>2, GiveUpCardingRaises, RaisesOut DEF RecordAgentFailure
  <2> HIDE DEF results
  <2> QED
    BY <1>1, <2>1, <2>3
<1>5. ASSUME NEW c, QuestionSent(p, c)
      PROVE  call'[p].outcome # "escaped"
  <2> DEFINE results == InsertConversation(Data(p), c, call[p].channel)
  <2>1. /\ Proceed(p, results, "idle") /\ call[p].pc \in Awaits
        /\ \A r \in results : r.out # "escaped"
    BY <1>5, InsertRaises DEF QuestionSent, Awaits, StartAwaits
  <2> HIDE DEF results
  <2> QED
    BY <1>1, <2>1
<1>6. CASE ReplySent(p)
  <2> DEFINE results == {Result(Data(p), "ok")}
  <2>1. /\ Proceed(p, results, "idle") /\ call[p].pc \in Awaits
        /\ \A r \in results : r.out = "ok"
    BY <1>6 DEF ReplySent, Result, Awaits, ReplyAwaits
  <2> HIDE DEF results
  <2> QED
    BY <1>1, <2>1
<1>7. CASE CardSent(p)
  <2> DEFINE c == call[p].conv
             completed == Attempt(Data(p), CanComplete(Data(p), c), Complete(Data(p), c, clock))
             results == WhileClosing(completed, c)
  <2>1. Proceed(p, results, "idle") /\ call[p].pc \in Awaits
    BY <1>7 DEF CardSent, Awaits, CompleteAwaits
  <2>2. \A r \in results : r.out # "escaped"
    BY WhileClosingRaises
  <2> HIDE DEF results
  <2> QED
    BY <1>1, <2>1, <2>2
<1>8. ASSUME NEW fault \in HubFaults, DeliveryFailed(p, fault)
      PROVE  call'[p].outcome # "escaped"
  <2> DEFINE results ==
        CASE fault = "garbled" -> {Result(Data(p), "escaped")}
          [] fault # "garbled" /\ call[p].pc = "sendCard" ->
               GiveUpClosing(Data(p), call[p].conv, "undelivered")
          [] OTHER -> AndRaise(RecordDeliveryError(Data(p)), "undelivered")
  <2>1. Proceed(p, results, "idle") /\ call[p].pc \in Awaits
    BY <1>8 DEF DeliveryFailed, Awaits, StartAwaits, ReplyAwaits, CompleteAwaits
  <2>2. fault # "garbled"
    BY <1>8 DEF NothingUnknown
  <2>3. \A r \in results : r.out = "undelivered"
    BY <2>2, GiveUpClosingRaises, RaisesOut DEF RecordDeliveryError
  <2> HIDE DEF results
  <2> QED
    BY <1>1, <2>1, <2>3
<1>9. CASE ReleaseClaim(p)
  BY <1>0, <1>9, ClaimEffect
<1> QED
  BY <1>2, <1>3, <1>4, <1>5, <1>6, <1>7, <1>8, <1>9 DEF Resumed

\* A call that begins is its caller's.
LEMMA RequestOthers ==
  ASSUME Inv, NEW p \in Callers, Request(p)
  PROVE  Others(p)
<1>1. CASE StartWithoutLease(p)
  <2> DEFINE out == "invalidLease"
  <2>1. call' = [call EXCEPT ![p] = [Idle EXCEPT !.outcome = out]]
    BY <1>1 DEF StartWithoutLease
  <2> HIDE DEF out
  <2> QED
    BY <2>1, OutcomeEffect
<1> QED
  BY <1>1, ClaimEffect, StartEffect, ReplyEffect, CompleteEffect, DiscardEffect DEF Request

LEMMA ResumedOthers ==
  ASSUME Inv, NEW p \in Callers, Resumed(p)
  PROVE  Others(p)
<1>1. CASE ReleaseClaim(p)
  BY <1>1, ClaimEffect
<1>2. CASE ~ReleaseClaim(p)
  <2>1. call[p].pc \in Awaits
    BY <1>2 DEF Resumed, NewSessionCreated, PromptAnswered, AgentFailed, QuestionSent,
                ReplySent, CardSent, DeliveryFailed,
                Awaits, StartAwaits, ReplyAwaits, CompleteAwaits
  <2> QED
    BY <2>1, ResumedEffect
<1> QED
  BY <1>1, <1>2

\* No step of the application makes a call end with an unknown exception.
LEMMA EscapesStep ==
  ASSUME NothingUnknown, Inv, NothingEscapes, [Next]_vars
  PROVE  NothingEscapes'
<1>1. NULL # "escaped"
  BY OutcomeAssumption DEF Outcomes
<1>2. ASSUME NEW p \in Callers, Request(p) \/ Resumed(p)
      PROVE  NothingEscapes'
  <2>1. Others(p)
    BY <1>2, RequestOthers, ResumedOthers
  <2>2. call'[p].outcome # "escaped"
    BY <1>2, RequestDoesNotEscape, ResumedDoesNotEscape
  <2> QED
    BY <2>1, <2>2 DEF NothingEscapes, Others
<1>3. CASE Restart
  BY <1>1, <1>3 DEF Restart, Idle, NothingEscapes
<1>4. CASE \/ \E s \in Stores : ChangePlan(s)
           \/ PiRestart \/ TimePasses \/ UNCHANGED vars
  BY <1>4 DEF ChangePlan, PiRestart, TimePasses, vars, NothingEscapes
<1> QED
  BY <1>2, <1>3, <1>4 DEF Next

LEMMA EscapesInit == Init => NothingEscapes
  BY OutcomeAssumption DEF Init, NothingEscapes, Idle, Outcomes

\* When every failure is of a kind its handler knows, no call of the application
\* raises anything but an ApplicationError.
THEOREM EscapesCorrect ==
  ASSUME NothingUnknown
  PROVE  Spec => []NothingEscapes
  BY EscapesInit, EscapesStep, ApplicationCoherent, PTL DEF Spec

=============================================================================
