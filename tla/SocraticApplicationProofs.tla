-------------------- MODULE SocraticApplicationProofs -----------------------
(***************************************************************************)
(* The safety of SocraticApplication for any callers, stores,              *)
(* conversations and faults.  None of its invariants is inductive by       *)
(* itself: that the row a suspended call relies on stays as it was needs   *)
(* the lease, a call may rely on it only because a store has one live      *)
(* conversation, and only a row in CLOSING is ever completed.  Inv is their *)
(* conjunction with the coherence of every database.                       *)
(***************************************************************************)
EXTENDS SocraticApplication, StoreOpsProofs

-----------------------------------------------------------------------------
(* What each segment of the handlers may leave in its store: lemmas about  *)
(* the sets of results the segments are written with, for every database   *)
(* and all the ways its store calls may fail.                              *)

\* What one store call may leave and raise: it has done all of its work or
\* none, and has done it if it raised nothing.
LEMMA AttemptEnds ==
  ASSUME NEW d, NEW can \in BOOLEAN, NEW new, NEW r \in Attempt(d, can, new)
  PROVE  /\ r.out \in {"ok", "escaped"}
         /\ r.out = "ok" => can /\ r.db = new
         /\ r.db = d \/ (can /\ r.db = new)
  BY DEF Attempt, Result

\* A handler that re-raises: the store call before it has either ended well,
\* and out is raised, or raised an exception that takes its place.
LEMMA RaiseEnds ==
  ASSUME NEW results, NEW out, NEW r \in AndRaise(results, out)
  PROVE  \E q \in results : \/ q.out = "ok" /\ r = Result(q.db, out)
                            \/ q.out # "ok" /\ r = q
  BY DEF AndRaise, AndThen

\* e is d with at most row c moved: its status is one of to, or as it was.
Moved(d, e, c, now) ==
  /\ StoreInv(e, now)
  /\ e.session = d.session
  /\ \A x \in Convs \ {c} : e.conv[x] = d.conv[x]

Kept(d, e, now) ==
  /\ StoreInv(e, now)
  /\ e.session = d.session
  /\ e.conv = d.conv

\* Recording a delivery error moves no conversation.
LEMMA DeliveryErrorEnds ==
  ASSUME NEW d, NEW now \in Nat, StoreInv(d, now), NEW r \in RecordDeliveryError(d)
  PROVE  Kept(d, r.db, now) /\ r.out \in {"ok", "escaped"}
<1>1. StoreInv(RecordError(d, "infrastructure"), now)
  BY RecordErrorCoherent DEF ErrorKinds
<1>2. /\ RecordError(d, "infrastructure").conv = d.conv
      /\ RecordError(d, "infrastructure").session = d.session
  BY DEF RecordError, StoreInv, Database
<1>3. /\ r.out \in {"ok", "escaped"}
      /\ r.db = d \/ r.db = RecordError(d, "infrastructure")
  BY AttemptEnds DEF RecordDeliveryError
<1> QED
  BY <1>1, <1>2, <1>3 DEF Kept

\* Nor does recording a failure of the agent, pausing or not.
LEMMA AgentFailureEnds ==
  ASSUME NEW d, NEW now \in Nat, StoreInv(d, now), NEW fault,
         NEW r \in RecordAgentFailure(d, fault)
  PROVE  Kept(d, r.db, now) /\ r.out \in {"ok", "escaped"}
<1> DEFINE new == IF fault = "fatal" THEN RecordPausingError(d, "agent")
                                     ELSE RecordError(d, "agent")
<1>1. StoreInv(new, now)
  BY RecordErrorCoherent DEF ErrorKinds
<1>2. new.conv = d.conv /\ new.session = d.session
  BY DEF RecordError, RecordPausingError, StoreInv, Database
<1>3. r \in Attempt(d, TRUE, new)
  BY DEF RecordAgentFailure
<1> HIDE DEF new
<1>4. /\ r.out \in {"ok", "escaped"}
      /\ r.db = d \/ r.db = new
  BY <1>3, AttemptEnds
<1> QED
  BY <1>1, <1>2, <1>4 DEF Kept

\* Recording an answer moves no conversation and notes the session, or fails.
LEMMA SuccessEnds ==
  ASSUME NEW d, NEW now \in Nat, StoreInv(d, now), NEW session \in Sessions \cup {NULL},
         NEW r \in Attempt(d, TRUE, RecordSuccess(d, session))
  PROVE  /\ StoreInv(r.db, now)
         /\ r.db.conv = d.conv
         /\ r.out \in {"ok", "escaped"}
         /\ r.db.session \in {d.session, session}
         /\ r.out = "ok" => r.db.session = session
<1> DEFINE new == RecordSuccess(d, session)
<1>1. StoreInv(new, now)
  BY DEF StoreInv, OneActive, Active, NoDueWhilePaused, DueWithinOneInterval,
         CardIffCompleted, Database, RecordSuccess
<1>2. new.conv = d.conv /\ new.session = session
  BY DEF RecordSuccess, StoreInv, Database
<1>3. /\ r.out \in {"ok", "escaped"}
      /\ r.out = "ok" => r.db = new
      /\ r.db = d \/ r.db = new
  BY AttemptEnds, ZenonT(60)
<1> QED
  BY <1>1, <1>2, <1>3

\* Reopening takes a conversation from CLOSING to OPEN, or fails and leaves it.
LEMMA ReopenEnds ==
  ASSUME NEW d, NEW now \in Nat, StoreInv(d, now), NEW c \in Convs,
         NEW r \in ReopenAfterFailure(d, c)
  PROVE  /\ Moved(d, r.db, c, now)
         /\ r.out \in {"ok", "escaped"}
         /\ \/ r.db.conv[c].status = d.conv[c].status
            \/ d.conv[c].status = "CLOSING" /\ r.db.conv[c].status = "OPEN"
         /\ r.out = "ok" => r.db.conv[c].status # "CLOSING"
<1>1. StoreInv(Reopen(d, c), now)
  BY ReopenCoherent
<1>2. /\ Reopen(d, c).session = d.session
      /\ \A x \in Convs \ {c} : Reopen(d, c).conv[x] = d.conv[x]
      /\ IF d.conv[c].status = "CLOSING" THEN Reopen(d, c).conv[c].status = "OPEN"
                                         ELSE Reopen(d, c) = d
  BY DEF Reopen, StoreInv, Database, Row
<1>3. /\ r.out \in {"ok", "escaped"}
      /\ r.out = "ok" => r.db = Reopen(d, c)
      /\ r.db = d \/ r.db = Reopen(d, c)
  BY AttemptEnds, ZenonT(60) DEF ReopenAfterFailure
<1> QED
  BY <1>1, <1>2, <1>3 DEF Moved

\* What the handlers of a failed closure leave behind.
GaveUp(d, r, c, out, now) ==
  /\ Moved(d, r.db, c, now)
  /\ r.out \in {"escaped", out}
  /\ \/ r.db.conv[c].status = d.conv[c].status
     \/ d.conv[c].status = "CLOSING" /\ r.db.conv[c].status = "OPEN"
  /\ r.out # "escaped" => r.db.conv[c].status # "CLOSING"

\* The handler for delivery and store errors of a closure.
LEMMA GiveUpClosingEnds ==
  ASSUME NEW d, NEW now \in Nat, StoreInv(d, now), NEW c \in Convs, NEW out,
         NEW r \in GiveUpClosing(d, c, out)
  PROVE  GaveUp(d, r, c, out, now)
<1>1. PICK q \in RecordDeliveryError(d) :
            \/ q.out # "ok" /\ r = q
            \/ q.out = "ok" /\ r \in AndRaise(ReopenAfterFailure(q.db, c), out)
  BY DEF GiveUpClosing, AndThen
<1>2. Kept(d, q.db, now) /\ q.out \in {"ok", "escaped"}
  BY DeliveryErrorEnds
<1>3. CASE q.out # "ok"
  BY <1>1, <1>2, <1>3 DEF Kept, Moved, GaveUp
<1>4. CASE q.out = "ok"
  <2>1. PICK t \in ReopenAfterFailure(q.db, c) :
            \/ t.out = "ok" /\ r = Result(t.db, out)
            \/ t.out # "ok" /\ r = t
    BY <1>1, <1>4, RaiseEnds
  <2>2. /\ Moved(q.db, t.db, c, now)
        /\ t.out \in {"ok", "escaped"}
        /\ \/ t.db.conv[c].status = q.db.conv[c].status
           \/ q.db.conv[c].status = "CLOSING" /\ t.db.conv[c].status = "OPEN"
        /\ t.out = "ok" => t.db.conv[c].status # "CLOSING"
    BY <1>2, ReopenEnds DEF Kept
  <2> QED
    BY <1>2, <2>1, <2>2 DEF Kept, Moved, GaveUp, Result
<1> QED
  BY <1>3, <1>4

\* The handler for the agent's errors of a closure.
LEMMA GiveUpCardingEnds ==
  ASSUME NEW d, NEW now \in Nat, StoreInv(d, now), NEW c \in Convs, NEW fault,
         NEW r \in GiveUpCarding(d, c, fault)
  PROVE  GaveUp(d, r, c, "agentFailed", now)
<1>1. PICK q \in ReopenAfterFailure(d, c) :
            \/ q.out # "ok" /\ r = q
            \/ q.out = "ok" /\ r \in AndRaise(RecordAgentFailure(q.db, fault), "agentFailed")
  BY DEF GiveUpCarding, AndThen
<1>2. /\ Moved(d, q.db, c, now)
      /\ q.out \in {"ok", "escaped"}
      /\ \/ q.db.conv[c].status = d.conv[c].status
         \/ d.conv[c].status = "CLOSING" /\ q.db.conv[c].status = "OPEN"
      /\ q.out = "ok" => q.db.conv[c].status # "CLOSING"
  BY ReopenEnds
<1>3. CASE q.out # "ok"
  BY <1>1, <1>2, <1>3 DEF Moved, GaveUp
<1>4. CASE q.out = "ok"
  <2>1. PICK t \in RecordAgentFailure(q.db, fault) :
            \/ t.out = "ok" /\ r = Result(t.db, "agentFailed")
            \/ t.out # "ok" /\ r = t
    BY <1>1, <1>4, RaiseEnds
  <2>2. Kept(q.db, t.db, now) /\ t.out \in {"ok", "escaped"}
    BY <1>2, AgentFailureEnds DEF Moved
  <2> QED
    BY <1>2, <1>4, <2>1, <2>2 DEF Kept, Moved, GaveUp, Result
<1> QED
  BY <1>3, <1>4

\* The insertion after a delivered question: the conversation is open, or it is
\* not there; with a failing read-back it may be open although an error is
\* reported.
LEMMA InsertEnds ==
  ASSUME NEW d, clock \in Nat, StoreInv(d, clock), NEW c \in Convs, NEW ch \in Channels,
         NEW r \in InsertConversation(d, c, ch)
  PROVE  /\ Moved(d, r.db, c, clock)
         /\ r.out \in {"ok", "escaped", "unsaved"}
         /\ \/ r.db.conv[c].status = d.conv[c].status
            \/ CanStart(d, c) /\ r.db.conv[c].status = "OPEN"
<1> DEFINE new == Start(d, c, ch, clock)
<1>1. CanStart(d, c) => /\ Moved(d, new, c, clock)
                        /\ new.conv[c].status = "OPEN"
  <2>1. CanStart(d, c) => StoreInv(new, clock)
    BY StartCoherent
  <2>2. /\ new.session = d.session
        /\ \A x \in Convs \ {c} : new.conv[x] = d.conv[x]
        /\ new.conv[c].status = "OPEN"
    BY DEF Start, StoreInv, Database
  <2> QED
    BY <2>1, <2>2 DEF Moved
<1>2. CanStart(d, c) \in BOOLEAN
  BY DEF CanStart
<1>3. PICK q \in Attempt(d, CanStart(d, c), new) :
            \/ q.out = "ok" /\ r = q
            \/ q.out # "ok" /\ r \in AndRaise(RecordDeliveryError(q.db), "unsaved")
  BY DEF InsertConversation, OrElse
<1>4. /\ q.out \in {"ok", "escaped"}
      /\ q.out = "ok" => CanStart(d, c) /\ q.db = new
      /\ q.db = d \/ (CanStart(d, c) /\ q.db = new)
  <2> HIDE DEF new
  <2> QED
    BY <1>2, AttemptEnds
<1>5. /\ Moved(d, q.db, c, clock)
      /\ \/ q.db.conv[c].status = d.conv[c].status
         \/ CanStart(d, c) /\ q.db.conv[c].status = "OPEN"
  BY <1>1, <1>4 DEF Moved
<1>6. CASE q.out = "ok"
  BY <1>3, <1>5, <1>6
<1>7. CASE q.out # "ok"
  <2>1. PICK t \in RecordDeliveryError(q.db) :
            \/ t.out = "ok" /\ r = Result(t.db, "unsaved")
            \/ t.out # "ok" /\ r = t
    BY <1>3, <1>7, RaiseEnds
  <2>2. Kept(q.db, t.db, clock) /\ t.out \in {"ok", "escaped"}
    BY <1>5, DeliveryErrorEnds DEF Moved
  <2> QED
    BY <1>5, <2>1, <2>2 DEF Kept, Moved, Result
<1> QED
  BY <1>6, <1>7

\* A store call inside the try block of a closure.
LEMMA WhileClosingEnds ==
  ASSUME NEW results, NEW c, NEW r \in WhileClosing(results, c)
  PROVE  \E q \in results : \/ q.out = "ok" /\ r = q
                            \/ q.out # "ok" /\ r \in GiveUpClosing(q.db, c, "unsaved")
  BY DEF WhileClosing, OrElse

\* The first segment of a closure: the conversation stays live, and is CLOSING
\* if the call goes on to ask for the card.
LEMMA BeginClosingEnds ==
  ASSUME NEW d, NEW now \in Nat, StoreInv(d, now), NEW c \in Active(d),
         NEW r \in BeginClosing(d, c)
  PROVE  /\ Moved(d, r.db, c, now)
         /\ r.out \in {"ok", "escaped", "unsaved"}
         /\ r.db.conv[c].status \in ActiveStatus
         /\ r.out = "ok" => r.db.conv[c].status = "CLOSING"
<1> DEFINE first == IF d.conv[c].status = "CLOSING" THEN Attempt(d, TRUE, Reopen(d, c))
                                                    ELSE {Result(d, "ok")}
<1>1. c \in Convs /\ d.conv[c].status \in ActiveStatus
  BY DEF Active
<1>2. PICK q \in first :
            \/ q.out # "ok" /\ r = q
            \/ /\ q.out = "ok"
               /\ r \in WhileClosing(Attempt(q.db, CanMarkClosing(q.db, c), MarkClosing(q.db, c)), c)
  BY DEF BeginClosing, AndThen
<1>3. /\ Moved(d, q.db, c, now)
      /\ q.out \in {"ok", "escaped"}
      /\ q.db.conv[c].status \in ActiveStatus
      /\ q.out = "ok" => q.db.conv[c].status = "OPEN"
  <2>1. CASE d.conv[c].status = "CLOSING"
    <3>1. q \in ReopenAfterFailure(d, c)
      BY <2>1 DEF ReopenAfterFailure
    <3>2. /\ Moved(d, q.db, c, now)
          /\ q.out \in {"ok", "escaped"}
          /\ \/ q.db.conv[c].status = d.conv[c].status
             \/ d.conv[c].status = "CLOSING" /\ q.db.conv[c].status = "OPEN"
          /\ q.out = "ok" => q.db.conv[c].status # "CLOSING"
      BY <1>1, <3>1, ReopenEnds
    <3> QED
      BY <1>1, <3>2 DEF ActiveStatus
  <2>2. CASE d.conv[c].status # "CLOSING"
    BY <1>1, <2>2 DEF Moved, ActiveStatus, Result
  <2> QED
    BY <2>1, <2>2
<1>4. CASE q.out # "ok"
  BY <1>2, <1>3, <1>4
<1>5. CASE q.out = "ok"
  <2> DEFINE e == q.db
             new == MarkClosing(e, c)
  <2>1. StoreInv(e, now) /\ CanMarkClosing(e, c) /\ CanMarkClosing(e, c) \in BOOLEAN
    BY <1>3, <1>5 DEF Moved, CanMarkClosing
  <2>2. StoreInv(new, now)
    BY <1>1, <2>1, MarkClosingCoherent
  <2>3. /\ new.session = e.session
        /\ \A x \in Convs \ {c} : new.conv[x] = e.conv[x]
        /\ new.conv[c].status = "CLOSING"
    BY <1>1, <2>1 DEF MarkClosing, StoreInv, Database, Row
  <2>4. PICK t \in Attempt(e, CanMarkClosing(e, c), new) :
            \/ t.out = "ok" /\ r = t
            \/ t.out # "ok" /\ r \in GiveUpClosing(t.db, c, "unsaved")
    BY <1>2, <1>5, WhileClosingEnds
  <2>5. /\ t.out \in {"ok", "escaped"}
        /\ t.out = "ok" => t.db = new
        /\ t.db = e \/ t.db = new
    <3> DEFINE can == CanMarkClosing(e, c)
    <3>1. can \in BOOLEAN /\ t \in Attempt(e, can, new)
      BY <2>1, <2>4
    <3> HIDE DEF e, new, can
    <3> QED
      BY ONLY <3>1, AttemptEnds
  <2>6. /\ Moved(d, t.db, c, now)
        /\ t.db.conv[c].status \in ActiveStatus
        /\ t.out = "ok" => t.db.conv[c].status = "CLOSING"
    <3>1. e.conv[c].status \in ActiveStatus
      BY <1>3
    <3> HIDE DEF new
    <3> QED
      BY <1>3, <2>2, <2>3, <2>5, <3>1 DEF Moved, ActiveStatus
  <2>7. CASE t.out = "ok"
    BY <2>4, <2>6, <2>7
  <2>8. CASE t.out # "ok"
    <3>1. GaveUp(t.db, r, c, "unsaved", now)
      BY <1>1, <2>4, <2>6, <2>8, GiveUpClosingEnds DEF Moved
    <3> QED
      BY <2>6, <3>1 DEF GaveUp, Moved, ActiveStatus
  <2> QED
    BY <2>7, <2>8
<1> QED
  BY <1>4, <1>5

\* What a closure has recorded once Pi has written the card.
Carded(d, r, c, session, now) ==
  /\ StoreInv(r.db, now)
  /\ \A x \in Convs \ {c} : r.db.conv[x] = d.conv[x]
  /\ r.out \in {"ok", "escaped", "unsaved"}
  /\ r.out = "ok" => r.db.conv = d.conv
  /\ r.db.session \in {d.session, session}
  /\ \/ r.db.conv[c].status = d.conv[c].status
     \/ d.conv[c].status = "CLOSING" /\ r.db.conv[c].status = "OPEN"
  /\ r.out = "unsaved" => r.db.conv[c].status # "CLOSING"

\* The segment of a closure that follows the card from Pi.
LEMMA CardingEnds ==
  ASSUME NEW d, NEW now \in Nat, StoreInv(d, now), NEW c \in Convs,
         NEW session \in Sessions \cup {NULL},
         NEW r \in WhileClosing(Attempt(d, TRUE, RecordSuccess(d, session)), c)
  PROVE  Carded(d, r, c, session, now)
<1>1. PICK q \in Attempt(d, TRUE, RecordSuccess(d, session)) :
            \/ q.out = "ok" /\ r = q
            \/ q.out # "ok" /\ r \in GiveUpClosing(q.db, c, "unsaved")
  BY WhileClosingEnds
<1>2. /\ StoreInv(q.db, now)
      /\ q.db.conv = d.conv
      /\ q.out \in {"ok", "escaped"}
      /\ q.db.session \in {d.session, session}
  BY SuccessEnds, ZenonT(60)
<1>3. CASE q.out = "ok"
  BY <1>1, <1>2, <1>3 DEF Carded
<1>4. CASE q.out # "ok"
  <2>1. GaveUp(q.db, r, c, "unsaved", now)
    BY <1>1, <1>2, <1>4, GiveUpClosingEnds
  <2> QED
    BY <1>2, <2>1 DEF GaveUp, Moved, Carded
<1> QED
  BY <1>3, <1>4

\* The segment that follows the delivery of the card: whatever fails, only the
\* closing conversation moves.
LEMMA CompletionEnds ==
  ASSUME NEW d, clock \in Nat, StoreInv(d, clock), NEW c \in Convs,
         d.conv[c].status = "CLOSING",
         NEW r \in WhileClosing(Attempt(d, CanComplete(d, c), Complete(d, c, clock)), c)
  PROVE  /\ Moved(d, r.db, c, clock)
         /\ r.out \in {"ok", "escaped", "unsaved"}
         /\ r.db.conv[c].status \in {"OPEN", "CLOSING", "COMPLETED"}
         /\ r.out = "unsaved" => r.db.conv[c].status # "CLOSING"
<1> DEFINE new == Complete(d, c, clock)
<1>1. CanComplete(d, c) /\ CanComplete(d, c) \in BOOLEAN
  BY DEF CanComplete
<1>2. StoreInv(new, clock)
  BY <1>1, CompleteCoherent
<1>3. /\ new.session = d.session
      /\ \A x \in Convs \ {c} : new.conv[x] = d.conv[x]
      /\ new.conv[c].status = "COMPLETED"
  BY DEF Complete, StoreInv, Database, Row
<1>4. PICK q \in Attempt(d, CanComplete(d, c), new) :
            \/ q.out = "ok" /\ r = q
            \/ q.out # "ok" /\ r \in GiveUpClosing(q.db, c, "unsaved")
  BY WhileClosingEnds
<1>5. /\ q.out \in {"ok", "escaped"}
      /\ q.db = d \/ q.db = new
      /\ q.out = "ok" => q.db = new
  <2> DEFINE can == CanComplete(d, c)
  <2>1. can \in BOOLEAN /\ q \in Attempt(d, can, new)
    BY <1>1
  <2> HIDE DEF new, can
  <2> QED
    BY <2>1, AttemptEnds
<1>6. Moved(d, q.db, c, clock) /\ q.db.conv[c].status \in {"CLOSING", "COMPLETED"}
  <2> HIDE DEF new
  <2> QED
    BY <1>2, <1>3, <1>5 DEF Moved
<1>7. CASE q.out = "ok"
  BY <1>4, <1>6, <1>7
<1>8. CASE q.out # "ok"
  <2>1. GaveUp(q.db, r, c, "unsaved", clock)
    BY <1>4, <1>6, <1>8, GiveUpClosingEnds DEF Moved
  <2> QED
    BY <1>6, <2>1 DEF GaveUp, Moved
<1> QED
  BY <1>7, <1>8

\* A discard deletes one row or fails.
LEMMA DeletionEnds ==
  ASSUME NEW d, clock \in Nat, StoreInv(d, clock), NEW c \in Convs,
         NEW r \in OrElse(Attempt(d, TRUE, Delete(d, c, clock)),
                          LAMBDA e : {Result(e, "unsaved")})
  PROVE  /\ Moved(d, r.db, c, clock)
         /\ r.out \in {"ok", "unsaved"}
         /\ r.db.conv[c].status \in {d.conv[c].status, "ABSENT"}
<1> DEFINE new == Delete(d, c, clock)
<1>1. StoreInv(new, clock)
  BY DeleteCoherent
<1>2. /\ new.session = d.session
      /\ \A x \in Convs \ {c} : new.conv[x] = d.conv[x]
      /\ new.conv[c].status = "ABSENT"
  BY DEF Delete, Absent, StoreInv, Database
<1>3. PICK q \in Attempt(d, TRUE, new) :
            \/ q.out = "ok" /\ r = q
            \/ r = Result(q.db, "unsaved")
  BY DEF OrElse
<1> HIDE DEF new
<1>4. q.db = d \/ q.db = new
  BY AttemptEnds
<1>5. CASE q.out = "ok" /\ r = q
  BY <1>1, <1>2, <1>4, <1>5 DEF Moved
<1>6. CASE r = Result(q.db, "unsaved")
  <2>1. r.db = q.db /\ r.out = "unsaved"
    BY <1>6 DEF Result
  <2> QED
    BY <1>1, <1>2, <1>4, <2>1 DEF Moved
<1> QED
  BY <1>3, <1>5, <1>6

-----------------------------------------------------------------------------
(* The invariant.                                                          *)

\* Every database is coherent, as StoreOps has it.
Coherent == \A s \in Stores : StoreInv(stores[s], clock)

\* A suspended call has no outcome yet, and knows what it is about.
CallsCoherent ==
  \A p \in Callers :
    /\ call[p].pc \in Awaits => call[p].outcome = NULL
    /\ call[p].pc \in ReplyAwaits \cup CompleteAwaits => call[p].conv \in Convs
    /\ call[p].pc \in StartAwaits => call[p].channel \in Channels

\* The inductive invariant.
Inv ==
  /\ TypeOK
  /\ Coherent
  /\ CallsCoherent
  /\ LeaseFollowsFlight
  /\ StartNeverCollides
  /\ FlightKeepsItsRow
  /\ CompletedWasPosted

\* A call in flight has the lease to itself.
LEMMA OneInFlight ==
  ASSUME Inv, NEW p \in Callers, call[p].pc # "idle"
  PROVE  gate = p /\ \A q \in Callers \ {p} : call[q].pc = "idle"
  BY DEF Inv, LeaseFollowsFlight

\* With the lease free, nothing is in flight.
LEMMA NoneInFlight ==
  ASSUME Inv, gate = NULL
  PROVE  \A q \in Callers : call[q].pc = "idle"
  BY ApplicationAssumption DEF Inv, LeaseFollowsFlight

\* The clock is a number.
LEMMA ClockIsNat ==
  ASSUME Inv
  PROVE  clock \in Nat
  BY ApplicationAssumption DEF Inv, TypeOK

\* What a call is replaced by when it ends is a call.
LEMMA CallIsTyped ==
  /\ Idle \in Call
  /\ \A out \in Outcomes \cup {NULL} : [Idle EXCEPT !.outcome = out] \in Call
  BY ApplicationAssumption DEF Idle, Call

\* No call is in flight after the step, except for a claim of the gate.
Quiet ==
  /\ call' \in [Callers -> Call]
  /\ gate' \in Callers \cup {NULL}
  /\ LeaseFollowsFlight'
  /\ \A q \in Callers : call'[q].pc \in {"idle", "claimed"}

\* A call that ends leaves nothing in flight, its claim of the gate apart.
LEMMA ReturnIsQuiet ==
  ASSUME Inv, NEW p \in Callers, call[p].pc # "idle", NEW out \in Outcomes, Return(p, out)
  PROVE  Quiet
<1>1. gate = p /\ \A q \in Callers \ {p} : call[q].pc = "idle"
  BY OneInFlight
<1>2. call \in [Callers -> Call] /\ gate \in Callers \cup {NULL}
  BY DEF Inv, TypeOK
<1>3. CASE call[p].claimed /\ out # "ok"
  <2> DEFINE new == [call[p] EXCEPT !.pc = "claimed", !.outcome = out]
  <2>1. call' = [call EXCEPT ![p] = new] /\ gate' = gate
    BY <1>2, <1>3 DEF Return, Call
  <2>2. new \in Call /\ new.pc = "claimed"
    BY <1>2 DEF Call
  <2> HIDE DEF new
  <2>3. call' \in [Callers -> Call]
    BY <1>2, <2>1, <2>2
  <2>4. call'[p].pc = "claimed" /\ \A q \in Callers \ {p} : call'[q].pc = "idle"
    BY <1>1, <1>2, <2>1, <2>2
  <2> QED
    BY <1>1, <1>2, <2>1, <2>3, <2>4 DEF Quiet, LeaseFollowsFlight
<1>4. CASE ~(call[p].claimed /\ out # "ok")
  <2> DEFINE new == [Idle EXCEPT !.outcome = out]
  <2>1. call' = [call EXCEPT ![p] = new] /\ gate' = NULL
    BY <1>4 DEF Return
  <2>2. new \in Call /\ new.pc = "idle"
    BY CallIsTyped DEF Idle
  <2> HIDE DEF new
  <2>3. call' \in [Callers -> Call]
    BY <1>2, <2>1, <2>2
  <2>4. \A q \in Callers : call'[q].pc = "idle"
    BY <1>1, <1>2, <2>1, <2>2
  <2> QED
    BY <2>1, <2>3, <2>4, ApplicationAssumption DEF Quiet, LeaseFollowsFlight
<1> QED
  BY <1>3, <1>4

\* So does a call that ends in the segment it began in.
LEMMA AllIdleIsQuiet ==
  ASSUME Inv, NEW p \in Callers, \A q \in Callers : call[q].pc = "idle",
         NEW out \in Outcomes \cup {NULL},
         call' = [call EXCEPT ![p] = [Idle EXCEPT !.outcome = out]], gate' = gate
  PROVE  Quiet
<1> DEFINE new == [Idle EXCEPT !.outcome = out]
<1>1. call \in [Callers -> Call] /\ gate \in Callers \cup {NULL}
  BY DEF Inv, TypeOK
<1>2. new \in Call /\ new.pc = "idle"
  BY CallIsTyped DEF Idle
<1> HIDE DEF new
<1>3. call' = [call EXCEPT ![p] = new]
  BY DEF new
<1>4. call' \in [Callers -> Call] /\ \A q \in Callers : call'[q].pc = "idle"
  BY <1>1, <1>2, <1>3
<1>5. \A q \in Callers : gate # q
  BY DEF Inv, LeaseFollowsFlight
<1> QED
  BY <1>1, <1>4, <1>5 DEF Quiet, LeaseFollowsFlight

\* When nothing is in flight the invariant is about the databases only.
LEMMA QuietSuffices ==
  ASSUME Quiet,
         stores' \in [Stores -> Database], Coherent', CompletedWasPosted',
         pi' \in [session : Sessions \cup {NULL}, file : Sessions \cup {NULL}],
         posted' \subseteq Stores \X Convs,
         origin' \in [Stores -> Sessions \cup {NULL}],
         clock' \in 0..MaxTime
  PROVE  Inv'
<1>1. \A q \in Callers : call'[q].pc \notin Awaits
  BY DEF Quiet, Awaits, StartAwaits, ReplyAwaits, CompleteAwaits
<1>2. TypeOK' /\ LeaseFollowsFlight'
  BY DEF Quiet, TypeOK
<1>3. CallsCoherent' /\ StartNeverCollides' /\ FlightKeepsItsRow'
  BY <1>1 DEF CallsCoherent, StartNeverCollides, FlightKeepsItsRow, Awaits
<1> QED
  BY <1>2, <1>3 DEF Inv

\* The database of one store is replaced by a coherent one.
LEMMA WriteKeeps ==
  ASSUME Inv, NEW s \in Stores, NEW e, StoreInv(e, clock),
         stores' = [stores EXCEPT ![s] = e], clock' = clock, posted \subseteq posted',
         \A c \in Convs : e.conv[c].status = "COMPLETED" =>
              stores[s].conv[c].status = "COMPLETED" \/ <<s, c>> \in posted'
  PROVE  /\ stores' \in [Stores -> Database]
         /\ Coherent'
         /\ CompletedWasPosted'
<1>1. stores \in [Stores -> Database]
  BY DEF Inv, TypeOK
<1>2. e \in Database
  BY DEF StoreInv
<1>3. stores' \in [Stores -> Database]
  BY <1>1, <1>2
<1>4. stores'[s] = e /\ \A t \in Stores \ {s} : stores'[t] = stores[t]
  BY <1>1
<1>5. \A t \in Stores : StoreInv(stores'[t], clock')
  BY <1>4 DEF Inv, Coherent
<1>6. \A t \in Stores, c \in Convs :
        stores'[t].conv[c].status = "COMPLETED" => <<t, c>> \in posted'
  BY <1>4 DEF Inv, CompletedWasPosted
<1> QED
  BY <1>3, <1>5, <1>6 DEF Coherent, CompletedWasPosted

\* The two ways a segment may end.
LEMMA ProceedEnds ==
  ASSUME Inv, NEW p \in Callers, call[p].pc \in Awaits, NEW results, NEW next,
         Proceed(p, results, next)
  PROVE  \E r \in results :
           /\ stores' = [stores EXCEPT ![call[p].store] = r.db]
           /\ \/ /\ r.out = "ok" /\ next # "idle"
                 /\ call' = [call EXCEPT ![p].pc = next] /\ gate' = gate
              \/ (r.out # "ok" \/ next = "idle") /\ Return(p, r.out)
  BY DEF Proceed

-----------------------------------------------------------------------------
(* The steps of Next.                                                      *)

\* A call that ends where it began.
LEMMA NothingBegunKeeps ==
  ASSUME Inv, NEW p \in Callers, Ready(p), NEW out \in Outcomes,
         call' = [call EXCEPT ![p] = [Idle EXCEPT !.outcome = out]],
         UNCHANGED <<stores, gate, pi, posted, origin, clock>>
  PROVE  Inv'
<1> DEFINE new == [Idle EXCEPT !.outcome = out]
<1>2. call \in [Callers -> Call] /\ call[p].pc = "idle"
  BY DEF Inv, TypeOK, Ready
<1>3. new \in Call /\ new.pc = "idle"
  BY CallIsTyped DEF Idle
<1>4. call' = [call EXCEPT ![p] = new]
  OBVIOUS
<1> HIDE DEF new
<1>5. call' \in [Callers -> Call]
  BY <1>2, <1>3, <1>4
<1>6. \A q \in Callers : /\ call'[q].pc = call[q].pc
                         /\ call[q].pc # "idle" => call'[q] = call[q]
  BY <1>2, <1>3, <1>4
<1>7. TypeOK'
  BY <1>5 DEF Inv, TypeOK
<1>8. Coherent' /\ CompletedWasPosted'
  BY DEF Inv, Coherent, CompletedWasPosted
<1>9. LeaseFollowsFlight'
  BY <1>6 DEF Inv, LeaseFollowsFlight
<1>10. \A q \in Callers : call'[q].pc \in Awaits => call'[q] = call[q]
  BY <1>6 DEF Awaits, StartAwaits, ReplyAwaits, CompleteAwaits
<1>11. CallsCoherent'
  BY <1>10 DEF Inv, CallsCoherent, Awaits
<1>12. StartNeverCollides' /\ FlightKeepsItsRow'
  BY <1>10, ZenonT(60) DEF Inv, StartNeverCollides, FlightKeepsItsRow, Data, Active,
                         CanMarkClosing, CanComplete, Awaits
<1> QED
  BY <1>7, <1>8, <1>9, <1>11, <1>12 DEF Inv

\* A call that is refused.
LEMMA RefuseKeeps ==
  ASSUME Inv, NEW p \in Callers, Ready(p), NEW reasons \in SUBSET Outcomes,
         Refuse(p, reasons)
  PROVE  Inv'
<1>1. PICK out \in Outcomes :
           /\ call' = [call EXCEPT ![p] = [Idle EXCEPT !.outcome = out]]
           /\ UNCHANGED <<stores, gate, pi, posted, origin, clock>>
  BY DEF Refuse, ReadErrors, Outcomes
<1> QED
  BY <1>1, NothingBegunKeeps

\* A call that takes the lease and finds in its store what it will rely on.
LEMMA EnterKeeps ==
  ASSUME Inv, NEW p \in Callers, gate = NULL, NEW s \in Stores, NEW pc \in Awaits,
         NEW c \in Convs \cup {NULL}, NEW ch \in Channels,
         Enter(p, s, pc, c, ch),
         stores' \in [Stores -> Database], Coherent', CompletedWasPosted',
         UNCHANGED <<pi, posted, origin, clock>>,
         pc \in ReplyAwaits \cup CompleteAwaits => c \in Convs,
         pc \in StartAwaits => Active(stores'[s]) = {},
         pc \in ReplyAwaits => Active(stores'[s]) = {c} /\ CanMarkClosing(stores'[s], c),
         pc \in CompleteAwaits => Active(stores'[s]) = {c} /\ CanComplete(stores'[s], c)
  PROVE  Inv'
<1> DEFINE new == [Idle EXCEPT !.pc = pc, !.store = s, !.conv = c, !.channel = ch]
<1>1. call \in [Callers -> Call] /\ \A q \in Callers : call[q].pc = "idle"
  BY NoneInFlight DEF Inv, TypeOK
<1>2. /\ new \in Call
      /\ new.pc = pc /\ new.store = s /\ new.conv = c /\ new.channel = ch
      /\ new.outcome = NULL
  BY CallIsTyped DEF Idle, Call
<1>3. call' = [call EXCEPT ![p] = new] /\ gate' = p
  BY DEF Enter
<1> HIDE DEF new
<1>4. call' \in [Callers -> Call]
  BY <1>1, <1>2, <1>3
<1>5. call'[p] = new /\ \A q \in Callers \ {p} : call'[q].pc = "idle"
  BY <1>1, <1>3
<1>6. pc # "idle"
  BY DEF Awaits, StartAwaits, ReplyAwaits, CompleteAwaits
<1>7. TypeOK'
  BY <1>3, <1>4 DEF Inv, TypeOK
<1>8. LeaseFollowsFlight'
  BY <1>2, <1>3, <1>5, <1>6 DEF LeaseFollowsFlight
<1>9. \A q \in Callers : call'[q].pc \in Awaits => q = p
  BY <1>5 DEF Awaits, StartAwaits, ReplyAwaits, CompleteAwaits
<1>10. CallsCoherent'
  BY <1>2, <1>5, <1>9 DEF CallsCoherent, Awaits
<1>11. StartNeverCollides'
  BY <1>2, <1>5, <1>9 DEF StartNeverCollides, Data, Active, Awaits
<1>12. FlightKeepsItsRow'
  BY <1>2, <1>5, <1>9 DEF FlightKeepsItsRow, Data, Active, CanMarkClosing, CanComplete, Awaits
<1> QED
  BY <1>7, <1>8, <1>10, <1>11, <1>12 DEF Inv

\* The live conversation is the one a query returns.
LEMMA ActiveIsOne ==
  ASSUME Inv, NEW s \in Stores, NEW c \in ActiveConversation(stores[s])
  PROVE  c \in Convs /\ Active(stores[s]) = {c}
<1>1. OneActive(stores[s])
  BY DEF Inv, Coherent, StoreInv
<1>2. c \in Active(stores[s])
  BY DEF ActiveConversation, Newest
<1> QED
  BY <1>1, <1>2 DEF OneActive, Active

\* What does not touch the databases keeps them coherent.
LEMMA StoresKept ==
  ASSUME Inv, UNCHANGED <<stores, clock, posted>>
  PROVE  stores' \in [Stores -> Database] /\ Coherent' /\ CompletedWasPosted'
  BY DEF Inv, TypeOK, Coherent, CompletedWasPosted

\* start_conversation up to its first await.
LEMMA StartConversationKeeps ==
  ASSUME Inv, NEW p \in Callers, NEW s \in Stores, NEW ch \in Channels,
         StartConversation(p, s, ch)
  PROVE  Inv'
<1>1. CASE Refuse(p, StartRefusal(stores[s]))
  <2>1. StartRefusal(stores[s]) \in SUBSET Outcomes
    BY DEF StartRefusal, Outcomes
  <2> QED
    BY <1>1, <2>1, RefuseKeeps DEF StartConversation
<1>2. CASE /\ gate = NULL
           /\ MayStart(stores[s])
           /\ Enter(p, s, "newSession", NULL, ch)
           /\ UNCHANGED <<stores, pi, posted, origin, clock>>
  <2>1. stores' \in [Stores -> Database] /\ Coherent' /\ CompletedWasPosted'
    BY <1>2, StoresKept
  <2>2. Active(stores'[s]) = {}
    BY <1>2 DEF MayStart
  <2>3. /\ "newSession" \in Awaits
        /\ "newSession" \notin ReplyAwaits \cup CompleteAwaits
    BY DEF Awaits, StartAwaits, ReplyAwaits, CompleteAwaits
  <2> QED
    BY <1>2, <2>1, <2>2, <2>3, EnterKeeps
<1> QED
  BY <1>1, <1>2 DEF StartConversation

\* _require_active_conversation raises outcomes a caller may see.
LEMMA RefusalIsOutcome ==
  ASSUME NEW d, NEW ch
  PROVE  Refusal(d, ch) \in SUBSET Outcomes
  BY DEF Refusal, Outcomes

\* reply up to its first await.
LEMMA ReplyKeeps ==
  ASSUME Inv, NEW p \in Callers, NEW s \in Stores, NEW ch \in Channels, Reply(p, s, ch)
  PROVE  Inv'
<1>1. CASE Refuse(p, Refusal(stores[s], ch))
  BY <1>1, RefusalIsOutcome, RefuseKeeps DEF Reply
<1>2. ASSUME NEW c \in ActiveIn(stores[s], ch), Refuse(p, {"notOpen"})
      PROVE  Inv'
  <2>1. {"notOpen"} \in SUBSET Outcomes
    BY DEF Outcomes
  <2> QED
    BY <1>2, <2>1, RefuseKeeps DEF Reply
<1>3. ASSUME NEW c \in ActiveIn(stores[s], ch), stores[s].conv[c].status = "OPEN",
             gate = NULL, Enter(p, s, "answering", c, ch),
             UNCHANGED <<stores, pi, posted, origin, clock>>
      PROVE  Inv'
  <2>1. stores' \in [Stores -> Database] /\ Coherent' /\ CompletedWasPosted'
    BY <1>3, StoresKept
  <2>2. c \in Convs /\ Active(stores[s]) = {c}
    BY ActiveIsOne DEF ActiveIn
  <2>3. Active(stores'[s]) = {c} /\ CanMarkClosing(stores'[s], c)
    BY <1>3, <2>2 DEF CanMarkClosing
  <2>4. "answering" \in Awaits /\ "answering" \notin StartAwaits \cup CompleteAwaits
    BY DEF Awaits, StartAwaits, ReplyAwaits, CompleteAwaits
  <2> QED
    BY <1>3, <2>1, <2>2, <2>3, <2>4, EnterKeeps
<1> QED
  BY <1>1, <1>2, <1>3 DEF Reply

\* complete_conversation up to its first await.
LEMMA CompleteConversationKeeps ==
  ASSUME Inv, NEW p \in Callers, NEW s \in Stores, NEW ch \in Channels,
         CompleteConversation(p, s, ch)
  PROVE  Inv'
<1>1. CASE Refuse(p, Refusal(stores[s], ch))
  BY <1>1, RefusalIsOutcome, RefuseKeeps DEF CompleteConversation
<1>2. ASSUME NEW c \in ActiveIn(stores[s], ch), NEW r \in BeginClosing(stores[s], c),
             gate = NULL,
             stores' = [stores EXCEPT ![s] = r.db],
             IF r.out = "ok" THEN Enter(p, s, "carding", c, ch)
             ELSE /\ call' = [call EXCEPT ![p] = [Idle EXCEPT !.outcome = r.out]]
                  /\ UNCHANGED gate,
             UNCHANGED <<pi, posted, origin, clock>>
      PROVE  Inv'
  <2>1. c \in Convs /\ Active(stores[s]) = {c}
    BY ActiveIsOne DEF ActiveIn
  <2>2. StoreInv(stores[s], clock)
    BY DEF Inv, Coherent
  <2>3. /\ Moved(stores[s], r.db, c, clock)
        /\ r.out \in {"ok", "escaped", "unsaved"}
        /\ r.db.conv[c].status \in ActiveStatus
        /\ r.out = "ok" => r.db.conv[c].status = "CLOSING"
    BY <2>1, <2>2, ClockIsNat, BeginClosingEnds
  <2>4. Active(r.db) = {c}
    BY <2>1, <2>3 DEF Active, Moved, ActiveStatus
  <2>5. \A x \in Convs : r.db.conv[x].status = "COMPLETED" =>
                           stores[s].conv[x].status = "COMPLETED"
    BY <2>1, <2>3 DEF Moved, ActiveStatus
  <2>6. stores' \in [Stores -> Database] /\ Coherent' /\ CompletedWasPosted'
    <3>1. StoreInv(r.db, clock)
      BY <2>3 DEF Moved
    <3>2. posted \subseteq posted' /\ clock' = clock
      BY <1>2
    <3>3. \A x \in Convs : r.db.conv[x].status = "COMPLETED" =>
             stores[s].conv[x].status = "COMPLETED" \/ <<s, x>> \in posted'
      BY <2>5
    <3> DEFINE e == r.db
    <3>4. stores' = [stores EXCEPT ![s] = e]
      BY <1>2
    <3> HIDE DEF e
    <3> QED
      BY <3>1, <3>2, <3>3, <3>4, WriteKeeps DEF e
  <2>7. stores'[s] = r.db
    BY <1>2 DEF Inv, TypeOK
  <2>8. CASE r.out = "ok"
    <3>1. CanComplete(stores'[s], c) /\ Active(stores'[s]) = {c}
      BY <2>3, <2>4, <2>7, <2>8 DEF CanComplete
    <3>2. "carding" \in Awaits /\ "carding" \notin StartAwaits \cup ReplyAwaits
      BY DEF Awaits, StartAwaits, ReplyAwaits, CompleteAwaits
    <3> QED
      BY <1>2, <2>1, <2>6, <2>8, <3>1, <3>2, EnterKeeps
  <2>9. CASE r.out # "ok"
    <3>1. r.out \in Outcomes \cup {NULL}
      BY <2>3 DEF Outcomes, Failures
    <3>2. Quiet
      BY <1>2, <2>9, <3>1, NoneInFlight, AllIdleIsQuiet
    <3> QED
      BY <1>2, <2>6, <3>2, QuietSuffices DEF Inv, TypeOK
  <2> QED
    BY <2>8, <2>9
<1> QED
  BY <1>1, <1>2 DEF CompleteConversation

\* discard_conversation, all of it.
LEMMA DiscardConversationKeeps ==
  ASSUME Inv, NEW p \in Callers, NEW s \in Stores, NEW ch \in Channels,
         DiscardConversation(p, s, ch)
  PROVE  Inv'
<1>1. CASE Refuse(p, IF DiscardTarget(stores[s], ch) = {} THEN {"noActive"} ELSE {})
  <2>1. (IF DiscardTarget(stores[s], ch) = {} THEN {"noActive"} ELSE {}) \in SUBSET Outcomes
    BY DEF Outcomes
  <2> QED
    BY <1>1, <2>1, RefuseKeeps DEF DiscardConversation
<1>2. ASSUME NEW c \in DiscardTarget(stores[s], ch),
             NEW r \in OrElse(Attempt(stores[s], TRUE, Delete(stores[s], c, clock)),
                              LAMBDA d : {Result(d, "unsaved")}),
             gate = NULL,
             stores' = [stores EXCEPT ![s] = r.db],
             call' = [call EXCEPT ![p] = [Idle EXCEPT !.outcome = r.out]],
             posted' = posted \ {<<s, d>> : d \in Convs \ Rows(r.db)},
             UNCHANGED <<gate, pi, origin, clock>>
      PROVE  Inv'
  <2>1. c \in Convs
    BY DEF DiscardTarget, ActiveConversation, LatestInChannel, Newest, Active, Rows
  <2>2. StoreInv(stores[s], clock) /\ stores \in [Stores -> Database]
    BY DEF Inv, Coherent, TypeOK
  <2>3. /\ Moved(stores[s], r.db, c, clock)
        /\ r.out \in {"ok", "unsaved"}
        /\ r.db.conv[c].status \in {stores[s].conv[c].status, "ABSENT"}
    BY <1>2, <2>1, <2>2, ClockIsNat, DeletionEnds
  <2>4. /\ stores'[s] = r.db /\ r.db \in Database
        /\ \A t \in Stores \ {s} : stores'[t] = stores[t]
    BY <1>2, <2>2, <2>3 DEF Moved, StoreInv
  <2>5. stores' \in [Stores -> Database]
    BY <1>2, <2>2, <2>4
  <2>6. Coherent'
    BY <1>2, <2>3, <2>4 DEF Inv, Coherent, Moved
  <2>7. CompletedWasPosted'
    <3> SUFFICES ASSUME NEW t \in Stores, NEW x \in Convs,
                        stores'[t].conv[x].status = "COMPLETED"
                 PROVE  <<t, x>> \in posted'
      BY DEF CompletedWasPosted
    <3>1. CASE t # s
      BY <1>2, <2>4, <3>1 DEF Inv, CompletedWasPosted
    <3>2. CASE t = s
      <4>1. x \in Rows(r.db)
        BY <2>4, <3>2 DEF Rows
      <4>2. stores[s].conv[x].status = "COMPLETED"
        BY <2>1, <2>3, <2>4, <3>2 DEF Moved
      <4>3. <<s, x>> \in posted
        BY <4>2 DEF Inv, CompletedWasPosted
      <4> QED
        BY <1>2, <3>2, <4>1, <4>3
    <3> QED
      BY <3>1, <3>2
  <2>8. posted' \subseteq Stores \X Convs
    BY <1>2 DEF Inv, TypeOK
  <2>9. r.out \in Outcomes \cup {NULL}
    BY <2>3 DEF Outcomes, Failures
  <2>10. Quiet
    BY <1>2, <2>9, NoneInFlight, AllIdleIsQuiet
  <2> QED
    BY <1>2, <2>5, <2>6, <2>7, <2>8, <2>10, QuietSuffices DEF Inv, TypeOK
<1> QED
  BY <1>1, <1>2 DEF DiscardConversation

\* An adapter acquires the lease.
LEMMA ClaimGateKeeps ==
  ASSUME Inv, NEW p \in Callers, ClaimGate(p)
  PROVE  Inv'
<1> DEFINE new == [Idle EXCEPT !.pc = "claimed", !.claimed = TRUE]
<1>1. call \in [Callers -> Call] /\ \A q \in Callers : call[q].pc = "idle"
  BY NoneInFlight DEF Inv, TypeOK, ClaimGate
<1>2. new \in Call /\ new.pc = "claimed"
  BY CallIsTyped DEF Idle, Call
<1>3. call' = [call EXCEPT ![p] = new] /\ gate' = p
  BY DEF ClaimGate
<1> HIDE DEF new
<1>4. call' \in [Callers -> Call]
  BY <1>1, <1>2, <1>3
<1>5. call'[p].pc = "claimed" /\ \A q \in Callers \ {p} : call'[q].pc = "idle"
  BY <1>1, <1>2, <1>3
<1>6. Quiet
  BY <1>3, <1>4, <1>5 DEF Quiet, LeaseFollowsFlight
<1> QED
  BY <1>6, StoresKept, QuietSuffices DEF ClaimGate, Inv, TypeOK

\* start_claimed_conversation with a lease that is not the current one.
LEMMA StartWithoutLeaseKeeps ==
  ASSUME Inv, NEW p \in Callers, StartWithoutLease(p)
  PROVE  Inv'
  BY NothingBegunKeeps DEF StartWithoutLease, Outcomes

\* start_claimed_conversation up to its first await.
LEMMA StartClaimedKeeps ==
  ASSUME Inv, NEW p \in Callers, NEW s \in Stores, NEW ch \in Channels,
         StartClaimedConversation(p, s, ch)
  PROVE  Inv'
<1>0. /\ call[p].pc = "claimed" /\ call[p].outcome = NULL
      /\ UNCHANGED <<stores, pi, posted, origin, clock>>
  BY DEF StartClaimedConversation
<1>1. ASSUME NEW out \in StartRefusal(stores[s]) \cup ReadErrors, Return(p, out)
      PROVE  Inv'
  <2>1. out \in Outcomes
    BY DEF StartRefusal, ReadErrors, Outcomes
  <2>2. Quiet
    BY <1>0, <1>1, <2>1, ReturnIsQuiet
  <2> QED
    BY <1>0, <2>2, StoresKept, QuietSuffices DEF Inv, TypeOK
<1>2. CASE /\ MayStart(stores[s])
           /\ call' = [call EXCEPT ![p].pc = "newSession", ![p].store = s, ![p].channel = ch]
           /\ UNCHANGED gate
  <2> DEFINE new == [call[p] EXCEPT !.pc = "newSession", !.store = s, !.channel = ch]
  <2>1. gate = p /\ \A q \in Callers \ {p} : call[q].pc = "idle"
    BY <1>0, OneInFlight
  <2>2. call \in [Callers -> Call]
    BY DEF Inv, TypeOK
  <2>3. /\ new \in Call
        /\ new.pc = "newSession" /\ new.store = s /\ new.channel = ch /\ new.outcome = NULL
    BY <1>0, <2>2, ZenonT(60) DEF Call, Awaits, StartAwaits
  <2>4. call' = [call EXCEPT ![p] = new]
    BY <1>2, <2>2 DEF Call
  <2> HIDE DEF new
  <2>5. call' \in [Callers -> Call]
    BY <2>2, <2>3, <2>4
  <2>6. call'[p] = new /\ \A q \in Callers \ {p} : call'[q].pc = "idle"
    BY <2>1, <2>2, <2>4
  <2>7. TypeOK'
    BY <1>0, <1>2, <2>5 DEF Inv, TypeOK
  <2>8. LeaseFollowsFlight'
    BY <1>2, <2>1, <2>3, <2>6 DEF LeaseFollowsFlight
  <2>9. \A q \in Callers : call'[q].pc \in Awaits => q = p
    BY <2>6 DEF Awaits, StartAwaits, ReplyAwaits, CompleteAwaits
  <2>10. "newSession" \notin ReplyAwaits \cup CompleteAwaits
    BY DEF ReplyAwaits, CompleteAwaits
  <2>11. CallsCoherent'
    BY <2>3, <2>6, <2>9, <2>10 DEF CallsCoherent, Awaits
  <2>12. StartNeverCollides'
    BY <1>0, <1>2, <2>3, <2>6, <2>9 DEF MayStart, StartNeverCollides, Data, Active, Awaits
  <2>13. FlightKeepsItsRow'
    BY <2>3, <2>6, <2>9, <2>10 DEF FlightKeepsItsRow, Awaits
  <2> QED
    BY <1>0, <2>7, <2>8, <2>11, <2>12, <2>13, StoresKept DEF Inv
<1> QED
  BY <1>1, <1>2 DEF StartClaimedConversation

\* An adapter releases the lease.
LEMMA ReleaseClaimKeeps ==
  ASSUME Inv, NEW p \in Callers, ReleaseClaim(p)
  PROVE  Inv'
<1>1. gate = p /\ \A q \in Callers \ {p} : call[q].pc = "idle"
  BY OneInFlight DEF ReleaseClaim
<1>2. call \in [Callers -> Call] /\ Idle \in Call /\ Idle.pc = "idle"
  BY CallIsTyped DEF Inv, TypeOK, Idle
<1>3. call' = [call EXCEPT ![p] = Idle] /\ gate' = NULL
  BY DEF ReleaseClaim
<1>4. call' \in [Callers -> Call] /\ \A q \in Callers : call'[q].pc = "idle"
  BY <1>1, <1>2, <1>3
<1>5. Quiet
  BY <1>3, <1>4, ApplicationAssumption DEF Quiet, LeaseFollowsFlight
<1> QED
  BY <1>5, StoresKept, QuietSuffices DEF ReleaseClaim, Inv, TypeOK

\* A call that goes on to its next await, having left the conversations alone.
LEMMA GoesOnKeeps ==
  ASSUME Inv, NEW p \in Callers, NEW next \in Awaits, NEW e, StoreInv(e, clock),
         call[p].pc \in Awaits,
         \/ call[p].pc \in StartAwaits /\ next \in StartAwaits
         \/ call[p].pc \in ReplyAwaits /\ next \in ReplyAwaits
         \/ call[p].pc \in CompleteAwaits /\ next \in CompleteAwaits,
         stores' = [stores EXCEPT ![call[p].store] = e],
         e.conv = stores[call[p].store].conv,
         call' = [call EXCEPT ![p].pc = next],
         UNCHANGED <<gate, posted, clock>>,
         pi' \in [session : Sessions \cup {NULL}, file : Sessions \cup {NULL}],
         origin' \in [Stores -> Sessions \cup {NULL}]
  PROVE  Inv'
<1> DEFINE new == [call[p] EXCEPT !.pc = next]
           s == call[p].store
<1>1. call \in [Callers -> Call] /\ stores \in [Stores -> Database]
  BY DEF Inv, TypeOK
<1>2. call[p] \in Call /\ s \in Stores
  BY <1>1 DEF Call
<1>3. /\ new \in Call
      /\ new.pc = next /\ new.store = s
      /\ new.conv = call[p].conv /\ new.channel = call[p].channel
      /\ new.outcome = call[p].outcome
  BY <1>2 DEF Call
<1>4. call' = [call EXCEPT ![p] = new]
  BY <1>1
<1>5. gate = p /\ \A q \in Callers \ {p} : call[q].pc = "idle"
  BY OneInFlight DEF Awaits, StartAwaits, ReplyAwaits, CompleteAwaits
<1>6. StoreInv(e, clock) /\ stores' = [stores EXCEPT ![s] = e]
  OBVIOUS
<1>7. \A c \in Convs : e.conv[c].status = "COMPLETED" =>
        stores[s].conv[c].status = "COMPLETED" \/ <<s, c>> \in posted'
  OBVIOUS
<1> HIDE DEF new
<1>8. call' \in [Callers -> Call]
  BY <1>1, <1>3, <1>4
<1>9. call'[p] = new /\ \A q \in Callers \ {p} : call'[q].pc = "idle"
  BY <1>1, <1>4, <1>5
<1>10. stores' \in [Stores -> Database] /\ Coherent' /\ CompletedWasPosted'
  <2> HIDE DEF s
  <2> QED
    BY <1>2, <1>6, <1>7, WriteKeeps
<1>11. stores'[s] = e /\ Active(e) = Active(stores[s])
  BY <1>1, <1>2 DEF Active
<1>12. TypeOK'
  BY <1>8, <1>10 DEF Inv, TypeOK
<1>13. LeaseFollowsFlight'
  BY <1>3, <1>5, <1>9 DEF LeaseFollowsFlight, Awaits, StartAwaits, ReplyAwaits, CompleteAwaits
<1>14. \A q \in Callers : call'[q].pc \in Awaits => q = p
  BY <1>9 DEF Awaits, StartAwaits, ReplyAwaits, CompleteAwaits
<1>15. /\ next \in StartAwaits <=> call[p].pc \in StartAwaits
       /\ next \in ReplyAwaits <=> call[p].pc \in ReplyAwaits
       /\ next \in CompleteAwaits <=> call[p].pc \in CompleteAwaits
  BY DEF StartAwaits, ReplyAwaits, CompleteAwaits
<1>16. CallsCoherent'
  BY <1>3, <1>9, <1>14, <1>15 DEF Inv, CallsCoherent, Awaits
<1>17. StartNeverCollides'
  <2> SUFFICES ASSUME NEW q \in Callers, call'[q].pc \in StartAwaits
               PROVE  Active(stores'[call'[q].store]) = {}
    BY DEF StartNeverCollides, Data, Active
  <2>1. q = p
    BY <1>14 DEF Awaits
  <2>2. Active(stores[s]) = {}
    BY <1>3, <1>9, <1>15, <2>1 DEF Inv, StartNeverCollides, Data
  <2> QED
    BY <1>3, <1>9, <1>11, <2>1, <2>2
<1>18. FlightKeepsItsRow'
  <2>1. /\ next \in ReplyAwaits => /\ Active(stores[s]) = {call[p].conv}
                                   /\ CanMarkClosing(stores[s], call[p].conv)
        /\ next \in CompleteAwaits => /\ Active(stores[s]) = {call[p].conv}
                                      /\ CanComplete(stores[s], call[p].conv)
    BY <1>15 DEF Inv, FlightKeepsItsRow, Data
  <2>2. /\ call'[p].pc = next /\ call'[p].conv = call[p].conv
        /\ stores'[call'[p].store] = e
    BY <1>3, <1>9, <1>11
  <2>3. /\ CanMarkClosing(e, call[p].conv) <=> CanMarkClosing(stores[s], call[p].conv)
        /\ CanComplete(e, call[p].conv) <=> CanComplete(stores[s], call[p].conv)
    BY DEF CanMarkClosing, CanComplete
  <2>4. /\ call'[p].pc \in ReplyAwaits =>
             /\ Active(stores'[call'[p].store]) = {call'[p].conv}
             /\ CanMarkClosing(stores'[call'[p].store], call'[p].conv)
        /\ call'[p].pc \in CompleteAwaits =>
             /\ Active(stores'[call'[p].store]) = {call'[p].conv}
             /\ CanComplete(stores'[call'[p].store], call'[p].conv)
    BY <1>11, <2>1, <2>2, <2>3
  <2>5. \A q \in Callers : call'[q].pc \in ReplyAwaits \cup CompleteAwaits => q = p
    BY <1>14 DEF Awaits
  <2> QED
    BY <2>4, <2>5 DEF FlightKeepsItsRow, Data, Active, CanMarkClosing, CanComplete
<1> QED
  BY <1>10, <1>12, <1>13, <1>16, <1>17, <1>18 DEF Inv

\* A call that ends, whatever it has written.
LEMMA EndsKeeps ==
  ASSUME Inv, NEW p \in Callers, call[p].pc # "idle", NEW out \in Outcomes, Return(p, out),
         NEW e, StoreInv(e, clock),
         stores' = [stores EXCEPT ![call[p].store] = e],
         posted \subseteq posted', posted' \subseteq Stores \X Convs, clock' = clock,
         \A c \in Convs : e.conv[c].status = "COMPLETED" =>
           \/ stores[call[p].store].conv[c].status = "COMPLETED"
           \/ <<call[p].store, c>> \in posted',
         pi' \in [session : Sessions \cup {NULL}, file : Sessions \cup {NULL}],
         origin' \in [Stores -> Sessions \cup {NULL}]
  PROVE  Inv'
<1> DEFINE s == call[p].store
<1>1. s \in Stores
  BY DEF Inv, TypeOK, Call
<1>2. Quiet
  BY ReturnIsQuiet
<1>3. /\ stores' = [stores EXCEPT ![s] = e]
      /\ \A c \in Convs : e.conv[c].status = "COMPLETED" =>
           stores[s].conv[c].status = "COMPLETED" \/ <<s, c>> \in posted'
  OBVIOUS
<1>4. stores' \in [Stores -> Database] /\ Coherent' /\ CompletedWasPosted'
  <2> HIDE DEF s
  <2> QED
    BY <1>1, <1>3, WriteKeeps, ZenonT(60)
<1> QED
  BY <1>2, <1>4, QuietSuffices DEF Inv, TypeOK

-----------------------------------------------------------------------------
(* Awaits that end.                                                        *)

\* Whatever the segment after an await does, it keeps the invariant when every
\* way it may end leaves a coherent database, and moves no conversation if the
\* call goes on.
LEMMA AwaitKeeps ==
  ASSUME Inv, NEW p \in Callers, call[p].pc \in Awaits, NEW results, NEW next,
         Proceed(p, results, next),
         \/ next = "idle"
         \/ posted' = posted /\ \/ call[p].pc \in StartAwaits /\ next \in StartAwaits
                                \/ call[p].pc \in ReplyAwaits /\ next \in ReplyAwaits
                                \/ call[p].pc \in CompleteAwaits /\ next \in CompleteAwaits,
         \A r \in results :
           /\ StoreInv(r.db, clock)
           /\ r.out \in Outcomes
           /\ r.out = "ok" /\ next # "idle" => r.db.conv = Data(p).conv
           /\ \A c \in Convs : r.db.conv[c].status = "COMPLETED" =>
                Data(p).conv[c].status = "COMPLETED" \/ <<call[p].store, c>> \in posted',
         posted \subseteq posted', posted' \subseteq Stores \X Convs, clock' = clock,
         pi' \in [session : Sessions \cup {NULL}, file : Sessions \cup {NULL}],
         origin' \in [Stores -> Sessions \cup {NULL}]
  PROVE  Inv'
<1>1. PICK r \in results :
           /\ stores' = [stores EXCEPT ![call[p].store] = r.db]
           /\ \/ /\ r.out = "ok" /\ next # "idle"
                 /\ call' = [call EXCEPT ![p].pc = next] /\ gate' = gate
              \/ (r.out # "ok" \/ next = "idle") /\ Return(p, r.out)
  BY ProceedEnds
<1> DEFINE e == r.db
           out == r.out
<1>2. /\ StoreInv(e, clock) /\ out \in Outcomes
      /\ stores' = [stores EXCEPT ![call[p].store] = e]
      /\ \A c \in Convs : e.conv[c].status = "COMPLETED" =>
           \/ stores[call[p].store].conv[c].status = "COMPLETED"
           \/ <<call[p].store, c>> \in posted'
  BY <1>1 DEF Data
<1>3. CASE Return(p, out)
  <2>1. call[p].pc # "idle"
    BY DEF Awaits, StartAwaits, ReplyAwaits, CompleteAwaits
  <2> HIDE DEF e, out
  <2> QED
    BY <1>2, <1>3, <2>1, EndsKeeps
<1>4. CASE /\ out = "ok" /\ next # "idle"
           /\ call' = [call EXCEPT ![p].pc = next] /\ gate' = gate
  <2>1. e.conv = stores[call[p].store].conv
    BY <1>4 DEF Data
  <2>2. next \in Awaits
    BY <1>4 DEF Awaits
  <2>3. UNCHANGED <<gate, posted, clock>>
    BY <1>4
  <2> HIDE DEF e, out
  <2> QED
    BY <1>2, <1>4, <2>1, <2>2, <2>3, GoesOnKeeps
<1> QED
  BY <1>1, <1>3, <1>4

\* The store of a suspended call, and what the call relies on.
LEMMA SuspendedCall ==
  ASSUME Inv, NEW p \in Callers
  PROVE  /\ call[p].store \in Stores
         /\ StoreInv(Data(p), clock)
         /\ clock \in Nat
         /\ pi.session \in Sessions \cup {NULL}
         /\ pi \in [session : Sessions \cup {NULL}, file : Sessions \cup {NULL}]
         /\ origin \in [Stores -> Sessions \cup {NULL}]
         /\ posted \subseteq Stores \X Convs
         /\ call[p].pc \in StartAwaits => call[p].channel \in Channels
         /\ call[p].pc \in CompleteAwaits =>
              call[p].conv \in Convs /\ Data(p).conv[call[p].conv].status = "CLOSING"
<1>1. call[p] \in Call
  BY DEF Inv, TypeOK
<1>2. call[p].store \in Stores
  BY <1>1 DEF Call
<1>3. StoreInv(Data(p), clock)
  BY <1>2 DEF Inv, Coherent, Data
<1>4. call[p].pc \in CompleteAwaits =>
        call[p].conv \in Convs /\ Data(p).conv[call[p].conv].status = "CLOSING"
  BY DEF Inv, CallsCoherent, FlightKeepsItsRow, CanComplete
<1> QED
  BY <1>2, <1>3, <1>4, ClockIsNat DEF Inv, TypeOK, CallsCoherent

\* new_session has returned.
LEMMA NewSessionCreatedKeeps ==
  ASSUME Inv, NEW p \in Callers, NEW session \in Sessions, NewSessionCreated(p, session)
  PROVE  Inv'
<1>1. /\ call[p].pc = "newSession"
      /\ Proceed(p, {Result(Data(p), "ok")}, "opening")
      /\ pi' = [session |-> session, file |-> session]
      /\ UNCHANGED <<posted, origin, clock>>
  BY DEF NewSessionCreated
<1>2. \A r \in {Result(Data(p), "ok")} :
        r.db = Data(p) /\ r.out = "ok" /\ r.out \in Outcomes
  BY DEF Result, Outcomes
<1>3. call[p].pc \in Awaits /\ call[p].pc \in StartAwaits /\ "opening" \in StartAwaits
  BY <1>1 DEF Awaits, StartAwaits
<1> DEFINE results == {Result(Data(p), "ok")}
<1>4. Proceed(p, results, "opening") /\ \A r \in results : r.db = Data(p) /\ r.out \in Outcomes
  BY <1>1, <1>2
<1> HIDE DEF results
<1> QED
  BY <1>1, <1>3, <1>4, SuspendedCall, AwaitKeeps

\* prompt has returned.
LEMMA PromptAnsweredKeeps ==
  ASSUME Inv, NEW p \in Callers, PromptAnswered(p)
  PROVE  Inv'
<1> DEFINE recorded == Attempt(Data(p), TRUE, RecordSuccess(Data(p), pi.session))
           s == call[p].store
<1>0. StoreInv(Data(p), clock) /\ clock \in Nat /\ pi.session \in Sessions \cup {NULL}
  BY SuspendedCall
<1>1. /\ pi' = [pi EXCEPT !.file = pi.session]
      /\ UNCHANGED <<posted, clock>>
  BY DEF PromptAnswered
<1>2. pi' \in [session : Sessions \cup {NULL}, file : Sessions \cup {NULL}]
  BY <1>1, SuspendedCall
<1>3. /\ posted \subseteq posted' /\ posted' \subseteq Stores \X Convs
      /\ posted' = posted /\ clock' = clock
  BY <1>1, SuspendedCall
<1>4. \A r \in recorded : /\ StoreInv(r.db, clock)
                          /\ r.db.conv = Data(p).conv
                          /\ r.out \in Outcomes
  <2> TAKE r \in recorded
  <2>1. /\ StoreInv(r.db, clock)
        /\ r.db.conv = Data(p).conv
        /\ r.out \in {"ok", "escaped"}
    BY <1>0, SuccessEnds
  <2> QED
    BY <2>1 DEF Outcomes
<1>5. CASE /\ call[p].pc = "opening"
           /\ origin' = [origin EXCEPT ![s] = pi.session]
           /\ Proceed(p, recorded, "sendQuestion")
  <2>1. origin' \in [Stores -> Sessions \cup {NULL}]
    BY <1>5, SuspendedCall
  <2>2. call[p].pc \in Awaits /\ call[p].pc \in StartAwaits /\ "sendQuestion" \in StartAwaits
    BY <1>5 DEF Awaits, StartAwaits
  <2>3. Proceed(p, recorded, "sendQuestion")
    BY <1>5
  <2> HIDE DEF recorded
  <2> QED
    BY <1>2, <1>3, <1>4, <2>1, <2>2, <2>3, AwaitKeeps
<1>6. CASE /\ call[p].pc = "answering"
           /\ Proceed(p, recorded, "sendReply")
           /\ UNCHANGED origin
  <2>1. origin' \in [Stores -> Sessions \cup {NULL}]
    BY <1>6, SuspendedCall
  <2>2. call[p].pc \in Awaits /\ call[p].pc \in ReplyAwaits /\ "sendReply" \in ReplyAwaits
    BY <1>6 DEF Awaits, ReplyAwaits
  <2>3. Proceed(p, recorded, "sendReply")
    BY <1>6
  <2> HIDE DEF recorded
  <2> QED
    BY <1>2, <1>3, <1>4, <2>1, <2>2, <2>3, AwaitKeeps
<1>7. CASE /\ call[p].pc = "carding"
           /\ Proceed(p, WhileClosing(recorded, call[p].conv), "sendCard")
           /\ UNCHANGED origin
  <2> DEFINE results == WhileClosing(recorded, call[p].conv)
             c == call[p].conv
  <2>1. origin' \in [Stores -> Sessions \cup {NULL}]
    BY <1>7, SuspendedCall
  <2>2. call[p].pc \in Awaits /\ call[p].pc \in CompleteAwaits /\ "sendCard" \in CompleteAwaits
    BY <1>7 DEF Awaits, CompleteAwaits
  <2>3. Proceed(p, results, "sendCard")
    BY <1>7
  <2>4. c \in Convs
    BY <2>2, SuspendedCall
  <2>5. ASSUME NEW r \in results
        PROVE  /\ StoreInv(r.db, clock)
               /\ r.out \in Outcomes
               /\ r.out = "ok" => r.db.conv = Data(p).conv
               /\ \A x \in Convs : r.db.conv[x].status = "COMPLETED" =>
                                     Data(p).conv[x].status = "COMPLETED"
    <3>1. Carded(Data(p), r, c, pi.session, clock)
      BY <2>4, <2>5, SuspendedCall, CardingEnds
    <3>2. \A x \in Convs : r.db.conv[x].status = "COMPLETED" =>
                             Data(p).conv[x].status = "COMPLETED"
      BY <3>1 DEF Carded
    <3> QED
      BY <3>1, <3>2 DEF Carded, Outcomes, Failures
  <2> HIDE DEF results
  <2> QED
    BY <1>2, <1>3, <2>1, <2>2, <2>3, <2>5, AwaitKeeps
<1> QED
  BY <1>5, <1>6, <1>7 DEF PromptAnswered

\* A request to Pi has raised.
LEMMA AgentFailedKeeps ==
  ASSUME Inv, NEW p \in Callers, NEW fault, AgentFailed(p, fault)
  PROVE  Inv'
<1> DEFINE results ==
      CASE fault = "broken" -> {Result(Data(p), "escaped")}
        [] fault # "broken" /\ call[p].pc = "carding" ->
             GiveUpCarding(Data(p), call[p].conv, fault)
        [] OTHER -> AndRaise(RecordAgentFailure(Data(p), fault), "agentFailed")
<1>1. /\ Proceed(p, results, "idle")
      /\ UNCHANGED <<posted, origin, clock>>
      /\ call[p].pc \in Awaits
  BY DEF AgentFailed, Awaits, StartAwaits, ReplyAwaits, CompleteAwaits
<1>2. pi' \in [session : Sessions \cup {NULL}, file : Sessions \cup {NULL}]
  <2>1. CASE UNCHANGED pi
    BY <2>1, SuspendedCall
  <2>2. ASSUME NEW session \in Unused, pi' = [pi EXCEPT !.session = session]
        PROVE  pi' \in [session : Sessions \cup {NULL}, file : Sessions \cup {NULL}]
    BY <2>2, SuspendedCall DEF Unused
  <2> QED
    BY <2>1, <2>2 DEF AgentFailed
<1>3. ASSUME NEW r \in results
      PROVE  /\ StoreInv(r.db, clock)
             /\ r.out \in Outcomes
             /\ \A x \in Convs : r.db.conv[x].status = "COMPLETED" =>
                                   Data(p).conv[x].status = "COMPLETED"
  <2>1. CASE fault = "broken"
    <3>1. r = Result(Data(p), "escaped")
      BY <1>3, <2>1
    <3> QED
      BY <3>1, SuspendedCall DEF Result, Outcomes
  <2>2. CASE fault # "broken" /\ call[p].pc = "carding"
    <3> DEFINE c == call[p].conv
    <3>1. r \in GiveUpCarding(Data(p), c, fault)
      BY <1>3, <2>2
    <3>2. c \in Convs
      BY <2>2, SuspendedCall DEF CompleteAwaits
    <3>3. GaveUp(Data(p), r, c, "agentFailed", clock)
      BY <3>1, <3>2, SuspendedCall, GiveUpCardingEnds
    <3> QED
      BY <3>3 DEF GaveUp, Moved, Outcomes, Failures
  <2>3. CASE fault # "broken" /\ call[p].pc # "carding"
    <3>1. r \in AndRaise(RecordAgentFailure(Data(p), fault), "agentFailed")
      BY <1>3, <2>3
    <3>2. PICK q \in RecordAgentFailure(Data(p), fault) :
              \/ q.out = "ok" /\ r = Result(q.db, "agentFailed")
              \/ q.out # "ok" /\ r = q
      BY <3>1, RaiseEnds
    <3>3. Kept(Data(p), q.db, clock) /\ q.out \in {"ok", "escaped"}
      BY SuspendedCall, AgentFailureEnds
    <3>4. r.db = q.db /\ r.out \in {"agentFailed", "escaped"}
      BY <3>2, <3>3 DEF Result
    <3> QED
      BY <3>3, <3>4 DEF Kept, Outcomes, Failures
  <2> QED
    BY <2>1, <2>2, <2>3
<1> HIDE DEF results
<1> QED
  BY <1>1, <1>2, <1>3, SuspendedCall, AwaitKeeps

\* The first question is in Discord.
LEMMA QuestionSentKeeps ==
  ASSUME Inv, NEW p \in Callers, NEW c \in Convs, QuestionSent(p, c)
  PROVE  Inv'
<1> DEFINE results == InsertConversation(Data(p), c, call[p].channel)
<1>1. /\ call[p].pc = "sendQuestion"
      /\ Data(p).conv[c].status = "ABSENT"
      /\ Proceed(p, results, "idle")
      /\ UNCHANGED <<pi, posted, origin, clock>>
  BY DEF QuestionSent
<1>2. call[p].pc \in StartAwaits /\ call[p].pc \in Awaits
  BY <1>1 DEF Awaits, StartAwaits
<1>3. ASSUME NEW r \in results
      PROVE  /\ StoreInv(r.db, clock)
             /\ r.out \in Outcomes
             /\ \A x \in Convs : r.db.conv[x].status = "COMPLETED" =>
                                   Data(p).conv[x].status = "COMPLETED"
  <2>1. /\ Moved(Data(p), r.db, c, clock)
        /\ r.out \in {"ok", "escaped", "unsaved"}
        /\ \/ r.db.conv[c].status = Data(p).conv[c].status
           \/ r.db.conv[c].status = "OPEN"
    BY <1>2, <1>3, SuspendedCall, InsertEnds
  <2> QED
    BY <2>1 DEF Moved, Outcomes, Failures
<1> HIDE DEF results
<1> QED
  BY <1>1, <1>2, <1>3, SuspendedCall, AwaitKeeps

\* The reply is in Discord.
LEMMA ReplySentKeeps ==
  ASSUME Inv, NEW p \in Callers, ReplySent(p)
  PROVE  Inv'
<1> DEFINE results == {Result(Data(p), "ok")}
<1>1. /\ Proceed(p, results, "idle")
      /\ UNCHANGED <<pi, posted, origin, clock>>
      /\ call[p].pc \in Awaits
  BY DEF ReplySent, Awaits, ReplyAwaits
<1>2. \A r \in results : r.db = Data(p) /\ r.out \in Outcomes
  BY DEF Result, Outcomes
<1> HIDE DEF results
<1> QED
  BY <1>1, <1>2, SuspendedCall, AwaitKeeps

\* The session card is in Discord.
LEMMA CardSentKeeps ==
  ASSUME Inv, NEW p \in Callers, CardSent(p)
  PROVE  Inv'
<1> DEFINE c == call[p].conv
           results == WhileClosing(Attempt(Data(p), CanComplete(Data(p), c),
                                           Complete(Data(p), c, clock)), c)
<1>1. /\ call[p].pc = "sendCard"
      /\ posted' = posted \cup {<<call[p].store, c>>}
      /\ Proceed(p, results, "idle")
      /\ UNCHANGED <<pi, origin, clock>>
  BY DEF CardSent
<1>2. call[p].pc \in CompleteAwaits /\ call[p].pc \in Awaits
  BY <1>1 DEF Awaits, CompleteAwaits
<1>3. c \in Convs /\ Data(p).conv[c].status = "CLOSING" /\ call[p].store \in Stores
  BY <1>2, SuspendedCall
<1>4. posted \subseteq posted' /\ posted' \subseteq Stores \X Convs
  BY <1>1, <1>3, SuspendedCall
<1>5. ASSUME NEW r \in results
      PROVE  /\ StoreInv(r.db, clock)
             /\ r.out \in Outcomes
             /\ \A x \in Convs : r.db.conv[x].status = "COMPLETED" =>
                  Data(p).conv[x].status = "COMPLETED" \/ <<call[p].store, x>> \in posted'
  <2>1. /\ Moved(Data(p), r.db, c, clock)
        /\ r.out \in {"ok", "escaped", "unsaved"}
    BY <1>3, <1>5, SuspendedCall, CompletionEnds
  <2> QED
    BY <1>1, <2>1 DEF Moved, Outcomes, Failures
<1> HIDE DEF results
<1> QED
  BY <1>1, <1>2, <1>4, <1>5, SuspendedCall, AwaitKeeps

\* A request to the hub has raised.
LEMMA DeliveryFailedKeeps ==
  ASSUME Inv, NEW p \in Callers, NEW fault, DeliveryFailed(p, fault)
  PROVE  Inv'
<1> DEFINE c == call[p].conv
           results ==
             CASE fault = "garbled" -> {Result(Data(p), "escaped")}
               [] fault # "garbled" /\ call[p].pc = "sendCard" ->
                    GiveUpClosing(Data(p), call[p].conv, "undelivered")
               [] OTHER -> AndRaise(RecordDeliveryError(Data(p)), "undelivered")
<1>1. /\ call[p].pc \in {"sendQuestion", "sendCard", "sendReply"}
      /\ posted' = IF call[p].pc # "sendCard" \/ fault = "lost" THEN posted
                   ELSE posted \cup {<<call[p].store, c>>}
      /\ Proceed(p, results, "idle")
      /\ UNCHANGED <<pi, origin, clock>>
  BY DEF DeliveryFailed
<1>2. call[p].pc \in Awaits /\ (call[p].pc = "sendCard" => call[p].pc \in CompleteAwaits)
  BY <1>1 DEF Awaits, StartAwaits, ReplyAwaits, CompleteAwaits
<1>3. call[p].pc = "sendCard" => c \in Convs /\ call[p].store \in Stores
  BY <1>2, SuspendedCall
<1>4. posted \subseteq posted' /\ posted' \subseteq Stores \X Convs
  BY <1>1, <1>3, SuspendedCall
<1>5. ASSUME NEW r \in results
      PROVE  /\ StoreInv(r.db, clock)
             /\ r.out \in Outcomes
             /\ \A x \in Convs : r.db.conv[x].status = "COMPLETED" =>
                                   Data(p).conv[x].status = "COMPLETED"
  <2>1. CASE fault = "garbled"
    <3>1. r = Result(Data(p), "escaped")
      BY <1>5, <2>1
    <3> QED
      BY <3>1, SuspendedCall DEF Result, Outcomes
  <2>2. CASE fault # "garbled" /\ call[p].pc = "sendCard"
    <3>1. r \in GiveUpClosing(Data(p), c, "undelivered")
      BY <1>5, <2>2
    <3>2. GaveUp(Data(p), r, c, "undelivered", clock)
      BY <1>3, <2>2, <3>1, SuspendedCall, GiveUpClosingEnds
    <3> QED
      BY <3>2 DEF GaveUp, Moved, Outcomes, Failures
  <2>3. CASE fault # "garbled" /\ call[p].pc # "sendCard"
    <3>1. r \in AndRaise(RecordDeliveryError(Data(p)), "undelivered")
      BY <1>5, <2>3
    <3>2. PICK q \in RecordDeliveryError(Data(p)) :
              \/ q.out = "ok" /\ r = Result(q.db, "undelivered")
              \/ q.out # "ok" /\ r = q
      BY <3>1, RaiseEnds
    <3>3. Kept(Data(p), q.db, clock) /\ q.out \in {"ok", "escaped"}
      BY SuspendedCall, DeliveryErrorEnds
    <3>4. r.db = q.db /\ r.out \in {"undelivered", "escaped"}
      BY <3>2, <3>3 DEF Result
    <3> QED
      BY <3>3, <3>4 DEF Kept, Outcomes, Failures
  <2> QED
    BY <2>1, <2>2, <2>3
<1> HIDE DEF results
<1> QED
  BY <1>1, <1>2, <1>4, <1>5, SuspendedCall, AwaitKeeps

-----------------------------------------------------------------------------
(* What happens around the calls.                                          *)

\* /pause, /resume and /interval move no conversation.
LEMMA ChangePlanKeeps ==
  ASSUME Inv, NEW s \in Stores, ChangePlan(s)
  PROVE  Inv'
<1> DEFINE d == stores[s]
<1>1. StoreInv(d, clock) /\ clock \in Nat /\ stores \in [Stores -> Database]
  BY ClockIsNat DEF Inv, Coherent, TypeOK
<1>2. PICK e \in {Pause(d), Resume(d, clock)} \cup {SetInterval(d, i, clock) : i \in Intervals} :
           stores' = [stores EXCEPT ![s] = e]
  BY DEF ChangePlan
<1>3. UNCHANGED <<gate, call, pi, posted, origin, clock>>
  BY DEF ChangePlan
<1>4. StoreInv(e, clock) /\ e.conv = d.conv
  <2>1. CASE e = Pause(d)
    BY <1>1, <2>1, PauseCoherent DEF Pause, StoreInv, Database
  <2>2. CASE e = Resume(d, clock)
    BY <1>1, <2>2, ResumeCoherent DEF Resume, StoreInv, Database
  <2>3. ASSUME NEW i \in Intervals, e = SetInterval(d, i, clock)
        PROVE  StoreInv(e, clock) /\ e.conv = d.conv
    BY <1>1, <2>3, SetIntervalCoherent DEF SetInterval, StoreInv, Database
  <2> QED
    BY <2>1, <2>2, <2>3
<1>5. \A c \in Convs : e.conv[c].status = "COMPLETED" =>
        stores[s].conv[c].status = "COMPLETED" \/ <<s, c>> \in posted'
  BY <1>4
<1>6. stores' \in [Stores -> Database] /\ Coherent' /\ CompletedWasPosted'
  BY <1>2, <1>3, <1>4, <1>5, WriteKeeps
<1>7. \A t \in Stores : stores'[t].conv = stores[t].conv
  BY <1>1, <1>2, <1>4
<1>8. TypeOK'
  BY <1>3, <1>6 DEF Inv, TypeOK
<1>9. CallsCoherent' /\ LeaseFollowsFlight'
  BY <1>3 DEF Inv, CallsCoherent, LeaseFollowsFlight
<1>10. \A q \in Callers : /\ call'[q] = call[q]
                          /\ stores'[call[q].store].conv = stores[call[q].store].conv
  BY <1>3, <1>7 DEF Inv, TypeOK, Call
<1>11. StartNeverCollides'
  BY <1>10 DEF Inv, StartNeverCollides, Data, Active
<1>12. FlightKeepsItsRow'
  <2>1. \A q \in Callers :
          LET old == stores[call[q].store]
              new == stores'[call[q].store]
              c == call[q].conv
          IN /\ Active(new) = Active(old)
             /\ CanMarkClosing(new, c) <=> CanMarkClosing(old, c)
             /\ CanComplete(new, c) <=> CanComplete(old, c)
    BY <1>10 DEF Active, CanMarkClosing, CanComplete
  <2>2. \A q \in Callers :
          /\ call[q].pc \in ReplyAwaits =>
               /\ Active(stores[call[q].store]) = {call[q].conv}
               /\ CanMarkClosing(stores[call[q].store], call[q].conv)
          /\ call[q].pc \in CompleteAwaits =>
               /\ Active(stores[call[q].store]) = {call[q].conv}
               /\ CanComplete(stores[call[q].store], call[q].conv)
    BY DEF Inv, FlightKeepsItsRow, Data
  <2>3. \A q \in Callers :
          /\ call'[q].pc \in ReplyAwaits =>
               /\ Active(stores'[call'[q].store]) = {call'[q].conv}
               /\ CanMarkClosing(stores'[call'[q].store], call'[q].conv)
          /\ call'[q].pc \in CompleteAwaits =>
               /\ Active(stores'[call'[q].store]) = {call'[q].conv}
               /\ CanComplete(stores'[call'[q].store], call'[q].conv)
    BY <1>10, <2>1, <2>2
  <2> QED
    BY <2>3 DEF FlightKeepsItsRow, Data, Active, CanMarkClosing, CanComplete
<1> QED
  BY <1>6, <1>8, <1>9, <1>11, <1>12 DEF Inv

\* A restart of Pi touches nothing but its session.
LEMMA PiRestartKeeps ==
  ASSUME Inv, PiRestart
  PROVE  Inv'
<1>1. pi' \in [session : Sessions \cup {NULL}, file : Sessions \cup {NULL}]
  BY DEF PiRestart, Inv, TypeOK
<1>2. UNCHANGED <<stores, gate, call, posted, origin, clock>>
  BY DEF PiRestart
<1> QED
  BY <1>1, <1>2 DEF Inv, TypeOK, Coherent, CallsCoherent, LeaseFollowsFlight,
     StartNeverCollides, FlightKeepsItsRow, CompletedWasPosted, Data, Active,
     CanMarkClosing, CanComplete

\* A restart of this process leaves nothing in flight.
LEMMA RestartKeeps ==
  ASSUME Inv, Restart
  PROVE  Inv'
<1>1. /\ gate' = NULL
      /\ call' = [p \in Callers |-> Idle]
      /\ pi' = [session |-> stores[LiveStore].session, file |-> stores[LiveStore].session]
      /\ UNCHANGED <<stores, posted, origin, clock>>
  BY DEF Restart
<1>2. Idle \in Call /\ Idle.pc = "idle"
  BY CallIsTyped DEF Idle
<1>3. Quiet
  BY <1>1, <1>2, ApplicationAssumption DEF Quiet, LeaseFollowsFlight
<1>4. stores[LiveStore].session \in Sessions \cup {NULL}
  BY ApplicationAssumption DEF Inv, TypeOK, Database
<1>5. pi' \in [session : Sessions \cup {NULL}, file : Sessions \cup {NULL}]
  BY <1>1, <1>4
<1> QED
  BY <1>1, <1>3, <1>5, StoresKept, QuietSuffices DEF Inv, TypeOK

\* Time passes.
LEMMA TimePassesKeeps ==
  ASSUME Inv, TimePasses
  PROVE  Inv'
<1>1. /\ clock < MaxTime /\ clock' = clock + 1
      /\ UNCHANGED <<stores, gate, call, pi, posted, origin>>
  BY DEF TimePasses
<1>2. clock \in 0..MaxTime /\ MaxTime \in Nat
  BY ApplicationAssumption DEF Inv, TypeOK
<1>3. clock \in Nat /\ clock + 1 \in Nat /\ clock + 1 >= clock /\ clock + 1 \in 0..MaxTime
  BY <1>1, <1>2
<1>4. \A s \in Stores : StoreInv(stores[s], clock + 1)
  BY <1>3, LaterCoherent DEF Inv, Coherent
<1>5. TypeOK'
  BY <1>1, <1>3 DEF Inv, TypeOK
<1>6. Coherent'
  <2>1. \A s \in Stores : StoreInv(stores[s], clock')
    BY <1>1, <1>4
  <2>2. stores' = stores
    BY <1>1
  <2> QED
    BY <2>1, <2>2 DEF Coherent
<1>7. /\ CallsCoherent' /\ LeaseFollowsFlight' /\ StartNeverCollides'
      /\ FlightKeepsItsRow' /\ CompletedWasPosted'
  BY <1>1 DEF Inv, CallsCoherent, LeaseFollowsFlight, StartNeverCollides, FlightKeepsItsRow,
              CompletedWasPosted, Data, Active, CanMarkClosing, CanComplete
<1> QED
  BY <1>5, <1>6, <1>7 DEF Inv

\* Stuttering.
LEMMA NothingKeeps ==
  ASSUME Inv, UNCHANGED vars
  PROVE  Inv'
  BY DEF vars, Inv, TypeOK, Coherent, CallsCoherent, LeaseFollowsFlight, StartNeverCollides,
         FlightKeepsItsRow, CompletedWasPosted, Data, Active, CanMarkClosing, CanComplete

-----------------------------------------------------------------------------
(* The invariant is inductive.                                             *)

\* The invariant holds of new databases and no calls.
LEMMA InvInit == Init => Inv
<1> SUFFICES ASSUME Init PROVE Inv
  OBVIOUS
<1>1. /\ gate = NULL /\ call = [p \in Callers |-> Idle] /\ posted = {} /\ clock = 0
      /\ stores = [s \in Stores |-> FreshDatabase]
      /\ pi = [session |-> NULL, file |-> NULL]
      /\ origin = [s \in Stores |-> NULL]
  BY DEF Init
<1>2. StoreInv(FreshDatabase, 0) /\ FreshDatabase \in Database
  BY FreshCoherent DEF StoreInv
<1>3. Idle \in Call /\ Idle.pc = "idle"
  BY CallIsTyped DEF Idle
<1>4. 0 \in 0..MaxTime
  BY ApplicationAssumption
<1>5. TypeOK
  BY <1>1, <1>2, <1>3, <1>4 DEF TypeOK
<1>6. Coherent
  BY <1>1, <1>2 DEF Coherent
<1>7. \A p \in Callers : call[p].pc = "idle"
  BY <1>1, <1>3
<1>8. CallsCoherent /\ StartNeverCollides /\ FlightKeepsItsRow
  BY <1>7 DEF CallsCoherent, StartNeverCollides, FlightKeepsItsRow, Awaits, StartAwaits,
              ReplyAwaits, CompleteAwaits
<1>9. LeaseFollowsFlight
  BY <1>1, <1>7, ApplicationAssumption DEF LeaseFollowsFlight
<1>10. CompletedWasPosted
  BY <1>1 DEF CompletedWasPosted, FreshDatabase, Absent
<1> QED
  BY <1>5, <1>6, <1>8, <1>9, <1>10 DEF Inv

\* Every step keeps the invariant.
LEMMA InvStep == Inv /\ [Next]_vars => Inv'
<1> SUFFICES ASSUME Inv, [Next]_vars PROVE Inv'
  OBVIOUS
<1>1. ASSUME NEW p \in Callers, Request(p)
      PROVE  Inv'
  BY <1>1, ClaimGateKeeps, StartWithoutLeaseKeeps, StartConversationKeeps, StartClaimedKeeps,
     ReplyKeeps, CompleteConversationKeeps, DiscardConversationKeeps DEF Request
<1>2. ASSUME NEW p \in Callers, Resumed(p)
      PROVE  Inv'
  BY <1>2, NewSessionCreatedKeeps, PromptAnsweredKeeps, AgentFailedKeeps, QuestionSentKeeps,
     ReplySentKeeps, CardSentKeeps, DeliveryFailedKeeps, ReleaseClaimKeeps DEF Resumed
<1>3. ASSUME NEW s \in Stores, ChangePlan(s)
      PROVE  Inv'
  BY <1>3, ChangePlanKeeps
<1>4. CASE PiRestart
  BY <1>4, PiRestartKeeps
<1>5. CASE Restart
  BY <1>5, RestartKeeps
<1>6. CASE TimePasses
  BY <1>6, TimePassesKeeps
<1>7. CASE UNCHANGED vars
  BY <1>7, NothingKeeps
<1> QED
  BY <1>1, <1>2, <1>3, <1>4, <1>5, <1>6, <1>7 DEF Next

\* The inductive invariant of the application: with any number of callers,
\* stores and conversations and every fault of the store, Pi and the hub.
THEOREM ApplicationCoherent == Spec => []Inv
<1> QED
  BY InvInit, InvStep, PTL DEF Spec

\* The state of the application has its type.
THEOREM ApplicationTypeCorrect == Spec => []TypeOK
<1>1. Inv => TypeOK
  BY DEF Inv
<1> QED
  BY <1>1, ApplicationCoherent, PTL

\* OperationGate: the lease is held exactly while a call is in flight.
THEOREM LeaseCorrect == Spec => []LeaseFollowsFlight
<1>1. Inv => LeaseFollowsFlight
  BY DEF Inv
<1> QED
  BY <1>1, ApplicationCoherent, PTL

\* start_conversation never finds a conversation where it saw none before its
\* awaits.
THEOREM StartCorrect == Spec => []StartNeverCollides
<1>1. Inv => StartNeverCollides
  BY DEF Inv
<1> QED
  BY <1>1, ApplicationCoherent, PTL

\* reply and complete_conversation write to the row they read before their
\* awaits.
THEOREM FlightCorrect == Spec => []FlightKeepsItsRow
<1>1. Inv => FlightKeepsItsRow
  BY DEF Inv
<1> QED
  BY <1>1, ApplicationCoherent, PTL

\* complete_conversation completes only what Discord has the card of.
THEOREM CompletionCorrect == Spec => []CompletedWasPosted
<1>1. Inv => CompletedWasPosted
  BY DEF Inv
<1> QED
  BY <1>1, ApplicationCoherent, PTL

=============================================================================
