--------------------------- MODULE StoreOpsProofs ---------------------------
(***************************************************************************)
(* Lemmas about the operators of StoreOps, for every database and every    *)
(* value of the constants: each transaction takes a coherent database to a *)
(* coherent one.  The proofs about the modules that call the store cite    *)
(* these lemmas instead of expanding the operators again.                  *)
(***************************************************************************)
EXTENDS StoreOps, TLAPS

\* A new file is coherent (initialize, store.py).
LEMMA FreshCoherent ==
  ASSUME NEW now \in Nat
  PROVE  StoreInv(FreshDatabase, now)
<1>1. FreshDatabase \in Database
  BY IntervalAssumption
     DEF FreshDatabase, Database, Absent, Row, ActiveStatus
<1>2. OneActive(FreshDatabase)
  BY DEF OneActive, Active, FreshDatabase, Absent, ActiveStatus
<1>3. CardIffCompleted(FreshDatabase)
  BY DEF CardIffCompleted, FreshDatabase, Absent
<1> QED
  BY <1>1, <1>2, <1>3 DEF StoreInv, NoDueWhilePaused, DueWithinOneInterval,
                          FreshDatabase

\* Waiting only brings a due time closer.
LEMMA LaterCoherent ==
  ASSUME NEW db, NEW now \in Nat, NEW later \in Nat, later >= now,
         StoreInv(db, now)
  PROVE  StoreInv(db, later)
<1>1. db.interval \in Nat /\ (db.nextAt \in Nat \/ db.nextAt = NULL)
  BY IntervalAssumption DEF StoreInv, Database
<1>2. DueWithinOneInterval(db, later)
  BY <1>1 DEF StoreInv, DueWithinOneInterval
<1> QED
  BY <1>2 DEF StoreInv

\* What DueAfter plans for an interval the store knows: nothing when paused,
\* and a time at most that interval away otherwise.
LEMMA DueAfterBounds ==
  ASSUME NEW db, NEW i \in Intervals, NEW now \in Nat
  PROVE  /\ DueAfter(db, i, now) \in Nat \cup {NULL}
         /\ db.status = "PAUSED" => DueAfter(db, i, now) = NULL
         /\ DueAfter(db, i, now) # NULL => DueAfter(db, i, now) <= now + i
<1>1. i \in Nat
  BY IntervalAssumption
<1>2. CASE db.status = "WAITING"
  BY <1>1, <1>2 DEF DueAfter
<1>3. CASE db.status # "WAITING"
  BY <1>3 DEF DueAfter
<1> QED
  BY <1>2, <1>3

\* start_conversation.
LEMMA StartCoherent ==
  ASSUME NEW db, NEW now \in Nat, NEW c \in Convs, NEW ch \in Channels,
         StoreInv(db, now), CanStart(db, c)
  PROVE  StoreInv(Start(db, c, ch, now), now)
<1> DEFINE new == Start(db, c, ch, now)
<1>1. new \in Database
  BY DEF StoreInv, Start, Database, Row, ActiveStatus
<1>2. OneActive(new)
  BY DEF StoreInv, OneActive, Active, CanStart, Start, Database, ActiveStatus
<1>3. CardIffCompleted(new)
  BY DEF StoreInv, CardIffCompleted, Start, Database
<1> QED
  BY <1>1, <1>2, <1>3
     DEF StoreInv, NoDueWhilePaused, DueWithinOneInterval, Start, Database

\* mark_conversation_closing.
LEMMA MarkClosingCoherent ==
  ASSUME NEW db, NEW now \in Nat, NEW c \in Convs,
         StoreInv(db, now), CanMarkClosing(db, c)
  PROVE  StoreInv(MarkClosing(db, c), now)
<1> DEFINE new == MarkClosing(db, c)
<1>1. new \in Database
  BY DEF StoreInv, MarkClosing, Database, Row, ActiveStatus
<1>2. OneActive(new)
  BY DEF StoreInv, OneActive, Active, CanMarkClosing, MarkClosing, Database,
         Row, ActiveStatus
<1>3. CardIffCompleted(new)
  BY DEF StoreInv, CardIffCompleted, CanMarkClosing, MarkClosing, Database, Row
<1> QED
  BY <1>1, <1>2, <1>3
     DEF StoreInv, NoDueWhilePaused, DueWithinOneInterval, MarkClosing, Database

\* reopen_conversation.
LEMMA ReopenCoherent ==
  ASSUME NEW db, NEW now \in Nat, NEW c \in Convs, StoreInv(db, now)
  PROVE  StoreInv(Reopen(db, c), now)
<1> DEFINE new == Reopen(db, c)
<1>1. CASE db.conv[c].status # "CLOSING"
  BY <1>1 DEF Reopen
<1>2. CASE db.conv[c].status = "CLOSING"
  <2>1. new \in Database
    BY <1>2, SMTT(30) DEF StoreInv, Reopen, Database, Row, ActiveStatus
  <2>2. OneActive(new)
    BY <1>2 DEF StoreInv, OneActive, Active, Reopen, Database, Row, ActiveStatus
  <2>3. CardIffCompleted(new)
    BY <1>2 DEF StoreInv, CardIffCompleted, Reopen, Database, Row
  <2> QED
    BY <1>2, <2>1, <2>2, <2>3
       DEF StoreInv, NoDueWhilePaused, DueWithinOneInterval, Reopen, Database
<1> QED
  BY <1>1, <1>2

\* complete_conversation.
LEMMA CompleteCoherent ==
  ASSUME NEW db, NEW now \in Nat, NEW c \in Convs,
         StoreInv(db, now), CanComplete(db, c)
  PROVE  StoreInv(Complete(db, c, now), now)
<1> DEFINE new == Complete(db, c, now)
<1>0. db.interval \in Intervals
  BY DEF StoreInv, Database
<1>d. /\ DueAfter(db, db.interval, now) \in Nat \cup {NULL}
      /\ db.status = "PAUSED" => DueAfter(db, db.interval, now) = NULL
      /\ DueAfter(db, db.interval, now) # NULL =>
           DueAfter(db, db.interval, now) <= now + db.interval
  BY <1>0, DueAfterBounds
<1>1. new \in Database
  <2> DEFINE row == [db.conv[c] EXCEPT !.status = "COMPLETED", !.card = TRUE]
             table == [db.conv EXCEPT ![c] = row]
  <2>1. db \in Database /\ db.conv \in [Convs -> Row]
    BY DEF StoreInv, Database
  <2>2. row \in Row
    BY <2>1 DEF Row
  <2>3. table \in [Convs -> Row]
    BY <2>1, <2>2
  <2>4. new = [db EXCEPT !.conv = table, !.nextAt = DueAfter(db, db.interval, now)]
    BY <2>1 DEF Complete, Database, Row
  <2> HIDE DEF table, new
  <2> QED
    BY <1>d, <2>1, <2>3, <2>4 DEF Database
<1>2. OneActive(new)
  BY DEF StoreInv, OneActive, Active, CanComplete, Complete, Database, Row,
         ActiveStatus
<1>3. CardIffCompleted(new)
  BY ZenonT(60) DEF StoreInv, CardIffCompleted, CanComplete, Complete, Database, Row
<1>4. NoDueWhilePaused(new) /\ DueWithinOneInterval(new, now)
  BY <1>d DEF StoreInv, NoDueWhilePaused, DueWithinOneInterval, Complete, Database
<1> QED
  BY <1>1, <1>2, <1>3, <1>4 DEF StoreInv

\* delete_conversation.
LEMMA DeleteCoherent ==
  ASSUME NEW db, NEW now \in Nat, NEW c \in Convs, StoreInv(db, now)
  PROVE  StoreInv(Delete(db, c, now), now)
<1> DEFINE new == Delete(db, c, now)
<1>0. db.interval \in Intervals
  BY DEF StoreInv, Database
<1>d. /\ DueAfter(db, db.interval, now) \in Nat \cup {NULL}
      /\ db.status = "PAUSED" => DueAfter(db, db.interval, now) = NULL
      /\ DueAfter(db, db.interval, now) # NULL =>
           DueAfter(db, db.interval, now) <= now + db.interval
  BY <1>0, DueAfterBounds
<1>1. new \in Database
  BY <1>d DEF StoreInv, Delete, Database, Row, Absent, ActiveStatus
<1>2. OneActive(new)
  BY DEF StoreInv, OneActive, Active, Delete, Database, Row, Absent, ActiveStatus
<1>3. CardIffCompleted(new)
  BY DEF StoreInv, CardIffCompleted, Delete, Database, Row, Absent
<1>4. NoDueWhilePaused(new) /\ DueWithinOneInterval(new, now)
  BY <1>d DEF StoreInv, NoDueWhilePaused, DueWithinOneInterval, Delete, Database
<1> QED
  BY <1>1, <1>2, <1>3, <1>4 DEF StoreInv

\* pause.
LEMMA PauseCoherent ==
  ASSUME NEW db, NEW now \in Nat, StoreInv(db, now)
  PROVE  StoreInv(Pause(db), now)
  BY DEF StoreInv, OneActive, Active, NoDueWhilePaused, DueWithinOneInterval,
         CardIffCompleted, Database, Pause

\* resume.
LEMMA ResumeCoherent ==
  ASSUME NEW db, NEW now \in Nat, StoreInv(db, now)
  PROVE  StoreInv(Resume(db, now), now)
<1> DEFINE new == Resume(db, now)
<1>1. db.interval \in Nat
  BY IntervalAssumption DEF StoreInv, Database
<1>2. now + db.interval \in Nat
  BY <1>1
<1>3. new \in Database
  BY <1>2 DEF StoreInv, Resume, Database
<1>4. OneActive(new) /\ CardIffCompleted(new)
  BY DEF StoreInv, OneActive, Active, CardIffCompleted, Resume, Database
<1>5. NoDueWhilePaused(new)
  BY DEF StoreInv, NoDueWhilePaused, Resume, Database
<1>6. DueWithinOneInterval(new, now)
  BY <1>1 DEF StoreInv, DueWithinOneInterval, Resume, Database
<1> QED
  BY <1>3, <1>4, <1>5, <1>6 DEF StoreInv

\* record_agent_success.
LEMMA RecordSuccessCoherent ==
  ASSUME NEW db, NEW now \in Nat, NEW s \in Sessions, StoreInv(db, now)
  PROVE  StoreInv(RecordSuccess(db, s), now)
  BY DEF StoreInv, OneActive, Active, NoDueWhilePaused, DueWithinOneInterval,
         CardIffCompleted, Database, RecordSuccess

\* record_agent_error, with and without pausing the automation.
LEMMA RecordErrorCoherent ==
  ASSUME NEW db, NEW now \in Nat, NEW kind \in ErrorKinds, StoreInv(db, now)
  PROVE  /\ StoreInv(RecordError(db, kind), now)
         /\ StoreInv(RecordPausingError(db, kind), now)
<1> USE DEF StoreInv, OneActive, Active, NoDueWhilePaused, DueWithinOneInterval,
            CardIffCompleted, Database
<1>1. StoreInv(RecordError(db, kind), now)
  BY DEF RecordError
<1>2. StoreInv(RecordPausingError(db, kind), now)
  BY DEF RecordPausingError
<1> QED
  BY <1>1, <1>2

\* set_interval_hours and set_interval_minutes: a shorter interval never
\* leaves the due time of the longer one behind.
LEMMA SetIntervalCoherent ==
  ASSUME NEW db, NEW now \in Nat, NEW i \in Intervals, StoreInv(db, now)
  PROVE  StoreInv(SetInterval(db, i, now), now)
<1> DEFINE new == SetInterval(db, i, now)
<1>d. /\ DueAfter(db, i, now) \in Nat \cup {NULL}
      /\ db.status = "PAUSED" => DueAfter(db, i, now) = NULL
      /\ DueAfter(db, i, now) # NULL => DueAfter(db, i, now) <= now + i
  BY DueAfterBounds
<1>1. new \in Database
  BY <1>d DEF StoreInv, SetInterval, Database
<1>2. OneActive(new) /\ CardIffCompleted(new)
  BY DEF StoreInv, OneActive, Active, CardIffCompleted, SetInterval, Database
<1>3. NoDueWhilePaused(new) /\ DueWithinOneInterval(new, now)
  BY <1>d DEF StoreInv, NoDueWhilePaused, DueWithinOneInterval, SetInterval,
              Database
<1> QED
  BY <1>1, <1>2, <1>3 DEF StoreInv

=============================================================================
