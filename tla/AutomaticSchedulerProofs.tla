---------------------- MODULE AutomaticSchedulerProofs ----------------------
(***************************************************************************)
(* Theorems about AutomaticScheduler for every choice of intervals, cap,   *)
(* Retry-After values and bounds.  The store keeps its invariant at time   *)
(* 0, the present; on top of it the lease, the plan and the backoff have   *)
(* an invariant each, proved in this order since each uses the ones before.*)
(***************************************************************************)
EXTENDS AutomaticScheduler, StoreOpsProofs

\* What the lemmas of StoreOpsProofs say, for the present.
LEMMA MarkActiveCoherent ==
  ASSUME NEW d, NEW c \in Convs, StoreInv(d, 0), c \in Active(d)
  PROVE  /\ StoreInv(MarkClosing(d, c), 0)
         /\ CanComplete(MarkClosing(d, c), c)
<1>1. MarkClosing(d, c) \in Database
  BY DEF StoreInv, MarkClosing, Database, Row, ActiveStatus
<1>2. OneActive(MarkClosing(d, c))
  BY DEF StoreInv, OneActive, Active, MarkClosing, Database, ActiveStatus
<1>3. /\ NoDueWhilePaused(MarkClosing(d, c))
      /\ DueWithinOneInterval(MarkClosing(d, c), 0)
  BY DEF StoreInv, NoDueWhilePaused, DueWithinOneInterval, MarkClosing, Database
<1>4. CardIffCompleted(MarkClosing(d, c))
  BY DEF StoreInv, CardIffCompleted, MarkClosing, Active, ActiveStatus, Database, Row
<1>5. CanComplete(MarkClosing(d, c), c)
  BY DEF StoreInv, CanComplete, MarkClosing, Database, Row
<1> QED
  BY <1>1, <1>2, <1>3, <1>4, <1>5 DEF StoreInv

\* A due time that comes closer stays coherent.
LEMMA CloserCoherent ==
  ASSUME NEW d, StoreInv(d, 0)
  PROVE  StoreInv([d EXCEPT !.nextAt = Closer(@)], 0)
<1> DEFINE e == [d EXCEPT !.nextAt = Closer(@)]
<1>1. d.nextAt \in Nat \cup {NULL} /\ d.interval \in Nat
  BY IntervalAssumption DEF StoreInv, Database
<1>2. /\ Closer(d.nextAt) \in Nat \cup {NULL}
      /\ d.nextAt = NULL => Closer(d.nextAt) = NULL
      /\ d.nextAt # NULL => Closer(d.nextAt) <= d.nextAt
  BY <1>1, NullAssumption DEF Closer, Higher
<1>3. /\ e \in Database
      /\ e.nextAt = Closer(d.nextAt)
      /\ e.conv = d.conv /\ e.status = d.status /\ e.interval = d.interval
  BY <1>2 DEF StoreInv, Database
<1>4. OneActive(e) /\ CardIffCompleted(e)
  BY <1>3 DEF StoreInv, OneActive, CardIffCompleted, Active
<1>5. NoDueWhilePaused(e)
  BY <1>2, <1>3 DEF StoreInv, NoDueWhilePaused
<1>6. DueWithinOneInterval(e, 0)
  <2>1. CASE d.nextAt = NULL
    BY <2>1, <1>2, <1>3 DEF DueWithinOneInterval
  <2>2. CASE d.nextAt # NULL
    BY <2>2, <1>1, <1>2, <1>3, NullAssumption DEF StoreInv, DueWithinOneInterval
  <2> QED
    BY <2>1, <2>2
<1> QED
  BY <1>3, <1>4, <1>5, <1>6 DEF StoreInv

\* Starting, after recording Pi's answer, is starting.
LEMMA StartRecordedCoherent ==
  ASSUME NEW d, NEW c \in Convs, NEW ch \in Channels, NEW s \in Sessions,
         StoreInv(d, 0), CanStart(d, c)
  PROVE  StoreInv(Start(RecordSuccess(d, s), c, ch, 0), 0)
<1>1. StoreInv(RecordSuccess(d, s), 0)
  BY RecordSuccessCoherent
<1>2. CanStart(RecordSuccess(d, s), c)
  BY DEF CanStart, RecordSuccess, Active, StoreInv, Database
<1> QED
  BY <1>1, <1>2, StartCoherent

\* What a failed kickoff leaves in the store: at most an answer and an error.
LEMMA RecordedCoherent ==
  ASSUME NEW d, NEW f \in Failures, NEW e \in Recorded(d, f), StoreInv(d, 0)
  PROVE  /\ StoreInv(e, 0)
         /\ e.conv = d.conv /\ e.interval = d.interval
         /\ e.nextAt \in {d.nextAt, NULL}
         /\ f.kind # "fatal" => e.nextAt = d.nextAt
<1>1. ASSUME NEW g, StoreInv(g, 0), NEW kind \in ErrorKinds
      PROVE  /\ StoreInv(RecordError(g, kind), 0)
             /\ StoreInv(RecordPausingError(g, kind), 0)
             /\ \A h \in {RecordError(g, kind), RecordPausingError(g, kind)} :
                  /\ h.conv = g.conv /\ h.interval = g.interval
                  /\ h.nextAt \in {g.nextAt, NULL}
             /\ RecordError(g, kind).nextAt = g.nextAt
  <2>1. /\ StoreInv(RecordError(g, kind), 0)
        /\ StoreInv(RecordPausingError(g, kind), 0)
    BY <1>1, RecordErrorCoherent
  <2>2. /\ RecordError(g, kind).conv = g.conv
        /\ RecordError(g, kind).interval = g.interval
        /\ RecordError(g, kind).nextAt = g.nextAt
    BY <1>1 DEF RecordError, StoreInv, Database
  <2>3. /\ RecordPausingError(g, kind).conv = g.conv
        /\ RecordPausingError(g, kind).interval = g.interval
        /\ RecordPausingError(g, kind).nextAt = NULL
    BY <1>1 DEF RecordPausingError, StoreInv, Database
  <2> QED
    BY <2>1, <2>2, <2>3
<1>2. ASSUME NEW s \in Sessions
      PROVE  /\ StoreInv(RecordSuccess(d, s), 0)
             /\ RecordSuccess(d, s).conv = d.conv
             /\ RecordSuccess(d, s).interval = d.interval
             /\ RecordSuccess(d, s).nextAt = d.nextAt
  BY RecordSuccessCoherent DEF RecordSuccess, StoreInv, Database
<1>3. CASE f.kind = "fatal" \/ f.kind = "transient"
  BY <1>1, <1>3 DEF Recorded, ErrorKinds
<1>4. CASE f.kind = "other"
  <2>1. PICK g \in {d} \cup {RecordSuccess(d, s) : s \in Sessions} :
          e \in {g, RecordError(g, "infrastructure")}
    BY <1>4 DEF Recorded
  <2>2. /\ StoreInv(g, 0) /\ g.conv = d.conv
        /\ g.interval = d.interval /\ g.nextAt = d.nextAt
    BY <1>2, <2>1
  <2> QED
    BY <1>1, <2>1, <2>2 DEF ErrorKinds
<1> QED
  BY <1>3, <1>4 DEF Failures

\* Every step of the scheduler and around it keeps the store coherent.
LEMMA StoreStep ==
  ASSUME StoreInv(db, 0), [Next]_vars
  PROVE  StoreInv(db', 0)
<1>1. ASSUME NEW c \in Convs, NEW ch \in Channels, NEW s \in Sessions,
             KickoffSucceeds(c, ch, s)
      PROVE  StoreInv(db', 0)
  BY <1>1, StartRecordedCoherent DEF KickoffSucceeds
<1>2. ASSUME NEW f \in Failures, KickoffFails(f)
      PROVE  StoreInv(db', 0)
  BY <1>2, RecordedCoherent DEF KickoffFails
<1>3. CASE OtherEnds
  <2>1. ASSUME NEW c \in Convs, NEW ch \in Channels, CanStart(db, c),
               db' = Start(db, c, ch, 0)
        PROVE  StoreInv(db', 0)
    BY <2>1, StartCoherent
  <2>2. ASSUME NEW c \in Active(db), db' = Complete(MarkClosing(db, c), c, 0)
        PROVE  StoreInv(db', 0)
    <3>1. c \in Convs
      BY DEF Active
    <3>2. /\ StoreInv(MarkClosing(db, c), 0)
          /\ CanComplete(MarkClosing(db, c), c)
      BY <3>1, MarkActiveCoherent
    <3> QED
      BY <2>2, <3>1, <3>2, CompleteCoherent
  <2>3. CASE db' = RecordError(db, "agent") \/ db' = RecordPausingError(db, "agent")
    BY <2>3, RecordErrorCoherent DEF ErrorKinds
  <2> QED
    BY <1>3, <2>1, <2>2, <2>3 DEF OtherEnds
<1>4. ASSUME NEW c \in Convs, Discard(c)
      PROVE  StoreInv(db', 0)
  BY <1>4, DeleteCoherent DEF Discard
<1>5. CASE PlanCommand
  BY <1>5, PauseCoherent, ResumeCoherent, SetIntervalCoherent DEF PlanCommand
<1>6. CASE TimePasses
  BY <1>6, CloserCoherent DEF TimePasses
<1>7. CASE db' = db
  BY <1>7
<1> QED
  BY <1>1, <1>2, <1>3, <1>4, <1>5, <1>6, <1>7
     DEF Next, Tick, TickSkips, TickAttempts, TickPauses, TickFails,
         NotificationEnds, OtherClaims, Restart, vars


-----------------------------------------------------------------------------
(* The loop and the lease. *)

Control ==
  /\ gate \in {"scheduler", "other", NULL}
  /\ pc \in {"asleep", "awake", "kickoff", "cleanup", "notifying"}
  /\ failure \in Failures \cup {NULL}
  /\ pc = "cleanup" => failure \in Failures
  /\ elapsed \in 0..MaxKickoff
  /\ failures \in 0..MaxFailures
  /\ settled \in 0..LongestWait
  /\ sinceTick \in 0..BackoffCap
  /\ embargo \in Nat
  /\ verdict \in {"none", "paused", "resumed"}

\* A failure that is raised belongs to Failures, and the counters stay within
\* their bounds.
LEMMA ControlStep ==
  ASSUME Control, [Next]_vars
  PROVE  Control'
<1> USE SchedulerAssumption DEF Control, Lower, Higher
<1>1. CASE TickSkips \/ TickAttempts \/ NotificationEnds
  BY <1>1 DEF TickSkips, TickAttempts, NotificationEnds, Sleep, history
<1>2. ASSUME NEW c \in Convs, NEW ch \in Channels, NEW s \in Sessions,
             KickoffSucceeds(c, ch, s)
      PROVE  Control'
  BY <1>2 DEF KickoffSucceeds, Sleep, history
<1>3. ASSUME NEW f \in Failures, KickoffFails(f)
      PROVE  Control'
  <2>1. f.retryAfter \in RetryAfters \cup {NULL}
    BY DEF Failures
  <2>2. embargo' \in Nat
    BY <1>3, <2>1 DEF KickoffFails
  <2> QED
    BY <1>3, <2>2 DEF KickoffFails
<1>4. CASE TickPauses
  BY <1>4 DEF TickPauses, history
<1>5. CASE TickFails
  BY <1>5 DEF TickFails, Sleep
<1>6. CASE OtherClaims
  BY <1>6 DEF OtherClaims, schedulerVars, history
<1>7. CASE OtherEnds \/ PlanCommand \/ \E c \in Convs : Discard(c)
  <2>1. /\ settled' \in {0, settled}
        /\ gate' \in {gate, NULL}
        /\ verdict' \in {verdict, "resumed"}
        /\ UNCHANGED <<schedulerVars, sinceTick, embargo>>
    BY <1>7 DEF OtherEnds, PlanCommand, Discard, Settled
  <2> QED
    BY <2>1 DEF schedulerVars
<1>8. CASE Restart
  BY <1>8 DEF Restart
<1>9. CASE TimePasses
  <2>1. embargo' \in Nat
    BY <1>9 DEF TimePasses, Closer
  <2> QED
    BY <1>9, <2>1 DEF TimePasses
<1>10. CASE UNCHANGED vars
  BY <1>10 DEF vars, schedulerVars, history
<1> QED
  BY <1>1, <1>2, <1>3, <1>4, <1>5, <1>6, <1>7, <1>8, <1>9, <1>10 DEF Next, Tick

\* Steps that write no row of conversations.
LEMMA PlanKeepsRows ==
  ASSUME NEW d, StoreInv(d, 0)
  PROVE  /\ Active(Pause(d)) = Active(d)
         /\ Active(Resume(d, 0)) = Active(d)
         /\ \A i \in Intervals : Active(SetInterval(d, i, 0)) = Active(d)
         /\ \A kind \in ErrorKinds : /\ Active(RecordError(d, kind)) = Active(d)
                                     /\ Active(RecordPausingError(d, kind)) = Active(d)
BY DEF Active, Pause, Resume, SetInterval, RecordError, RecordPausingError,
       StoreInv, Database

\* The lease is the scheduler's exactly while its attempt lasts, so nothing
\* else opens a conversation.
LEMMA AloneStep ==
  ASSUME StoreInv(db, 0), Control, KickoffRunsAlone, [Next]_vars
  PROVE  KickoffRunsAlone'
<1> USE SchedulerAssumption DEF KickoffRunsAlone
<1>1. CASE TickSkips \/ NotificationEnds
  BY <1>1 DEF TickSkips, NotificationEnds, Sleep
<1>2. CASE TickAttempts
  BY <1>2 DEF TickAttempts, Eligible
<1>3. ASSUME NEW c \in Convs, NEW ch \in Channels, NEW s \in Sessions,
             KickoffSucceeds(c, ch, s)
      PROVE  KickoffRunsAlone'
  BY <1>3 DEF KickoffSucceeds, Sleep
<1>4. ASSUME NEW f \in Failures, KickoffFails(f)
      PROVE  KickoffRunsAlone'
  <2>1. db'.conv = db.conv
    BY <1>4, RecordedCoherent DEF KickoffFails
  <2> QED
    BY <1>4, <2>1 DEF KickoffFails, Active
<1>5. CASE TickPauses
  BY <1>5 DEF TickPauses, Active
<1>6. CASE TickFails
  BY <1>6 DEF TickFails, Sleep
<1>7. CASE OtherClaims
  BY <1>7 DEF OtherClaims, schedulerVars
<1>8. CASE OtherEnds
  BY <1>8 DEF OtherEnds, schedulerVars
<1>9. ASSUME NEW c \in Convs, Discard(c)
      PROVE  KickoffRunsAlone'
  BY <1>9 DEF Discard, schedulerVars
<1>10. CASE PlanCommand
  <2>1. Active(db') = Active(db)
    BY <1>10, PlanKeepsRows DEF PlanCommand
  <2> QED
    BY <1>10, <2>1 DEF PlanCommand, schedulerVars, Active
<1>11. CASE Restart
  BY <1>11 DEF Restart
<1>12. CASE TimePasses
  <2>1. db'.conv = db.conv
    BY <1>12 DEF TimePasses, StoreInv, Database
  <2> QED
    BY <1>12, <2>1 DEF TimePasses, Active
<1>13. CASE UNCHANGED vars
  BY <1>13 DEF vars, schedulerVars, Active
<1> QED
  BY <1>1, <1>2, <1>3, <1>4, <1>5, <1>6, <1>7, <1>8, <1>9, <1>10, <1>11, <1>12,
     <1>13 DEF Next, Tick

-----------------------------------------------------------------------------
(* The plan: with no conversation live, the time since the plan was made    *)
(* and the time left until it is due add up to an interval.                 *)

PlanIsOneInterval ==
  db.nextAt # NULL /\ Active(db) = {} => settled + db.nextAt >= db.interval

\* Commands, closures and discards start the interval afresh.
LEMMA SettledStep ==
  ASSUME StoreInv(db', 0), Settled(db'), db'.nextAt \in {NULL, db'.interval}
  PROVE  PlanIsOneInterval'
<1>1. db'.interval \in Nat
  BY IntervalAssumption DEF StoreInv, Database
<1>2. ASSUME db'.nextAt # NULL, Active(db') = {}
      PROVE  settled' + db'.nextAt >= db'.interval
  <2>1. settled' = 0 /\ db'.nextAt = db'.interval
    BY <1>2 DEF Settled
  <2> QED
    BY <2>1, <1>1
<1> QED
  BY <1>2 DEF PlanIsOneInterval, Active

\* What keeps the due time, the interval and the live rows keeps the relation.
LEMMA SamePlan ==
  ASSUME PlanIsOneInterval, UNCHANGED settled,
         \/ /\ db'.nextAt \in {NULL, db.nextAt}
            /\ db'.interval = db.interval
            /\ Active(db') = Active(db)
         \/ Active(db') # {}
  PROVE  PlanIsOneInterval'
BY DEF PlanIsOneInterval, Active

LEMMA StartIsActive ==
  ASSUME NEW d, NEW c \in Convs, NEW ch, StoreInv(d, 0)
  PROVE  Active(Start(d, c, ch, 0)) # {}
BY DEF Start, Active, ActiveStatus, StoreInv, Database

\* Every step preserves the relation: a start hides the stale due time, and
\* whatever ends a conversation replaces it.
LEMMA PlanStep ==
  ASSUME StoreInv(db, 0), StoreInv(db', 0), Control, PlanIsOneInterval, [Next]_vars
  PROVE  PlanIsOneInterval'
<1>0. db \in Database
  BY DEF StoreInv
<1>1. ASSUME NEW c \in Convs, NEW ch \in Channels, NEW s \in Sessions,
             KickoffSucceeds(c, ch, s)
      PROVE  PlanIsOneInterval'
  <2>1. Active(db') # {}
    BY <1>1, StartIsActive, RecordSuccessCoherent DEF KickoffSucceeds
  <2> QED
    BY <1>1, <2>1, SamePlan DEF KickoffSucceeds, history
<1>2. ASSUME NEW kind \in ErrorKinds, UNCHANGED settled,
             db' = RecordError(db, kind) \/ db' = RecordPausingError(db, kind)
      PROVE  PlanIsOneInterval'
  <2>1. Active(db') = Active(db)
    BY <1>2, PlanKeepsRows
  <2>2. db'.nextAt \in {NULL, db.nextAt} /\ db'.interval = db.interval
    BY <1>0, <1>2 DEF RecordError, RecordPausingError, Database
  <2> QED
    BY <1>2, <2>1, <2>2, SamePlan
<1>3. ASSUME NEW f \in Failures, KickoffFails(f)
      PROVE  PlanIsOneInterval'
  <2>1. /\ db'.conv = db.conv /\ db'.interval = db.interval
        /\ db'.nextAt \in {NULL, db.nextAt}
    BY <1>3, RecordedCoherent DEF KickoffFails
  <2> QED
    BY <1>3, <2>1, SamePlan DEF KickoffFails, Active
<1>4. CASE OtherEnds
  <2>1. ASSUME NEW c \in Convs, NEW ch \in Channels, CanStart(db, c),
               db' = Start(db, c, ch, 0), UNCHANGED settled
        PROVE  PlanIsOneInterval'
    BY <2>1, StartIsActive, SamePlan
  <2>2. ASSUME NEW c \in Active(db), db' = Complete(MarkClosing(db, c), c, 0),
               Settled(db')
        PROVE  PlanIsOneInterval'
    <3>1. /\ MarkClosing(db, c).interval = db.interval
          /\ MarkClosing(db, c).nextAt = db.nextAt
          /\ MarkClosing(db, c) \in Database
      BY <1>0 DEF MarkClosing, Database, Row, ActiveStatus
    <3>2. /\ db'.interval = db.interval
          /\ db'.nextAt = DueAfter(MarkClosing(db, c), db.interval, 0)
      BY <2>2, <3>1 DEF Complete, Database
    <3>3. db.interval \in Nat
      BY <1>0, IntervalAssumption DEF Database
    <3>4. db'.nextAt \in {NULL, db'.interval}
      BY <3>2, <3>3 DEF DueAfter
    <3> QED
      BY <2>2, <3>4, SettledStep
  <2>3. CASE UNCHANGED settled /\ db' = RecordError(db, "agent")
    BY <1>2, <2>3 DEF ErrorKinds
  <2>4. CASE UNCHANGED settled /\ db' = RecordPausingError(db, "agent")
    BY <1>2, <2>4 DEF ErrorKinds
  <2> QED
    BY <1>4, <2>1, <2>2, <2>3, <2>4 DEF OtherEnds
<1>5. ASSUME NEW c \in Convs, Discard(c)
      PROVE  PlanIsOneInterval'
  <2>0. db.interval \in Nat
    BY <1>0, IntervalAssumption DEF Database
  <2>1. CASE c \in Active(db)
    <3>1. db'.nextAt = DueAfter(db, db.interval, 0) /\ db'.interval = db.interval
      BY <1>0, <1>5, <2>1 DEF Discard, Delete, Database
    <3>2. db'.nextAt \in {NULL, db'.interval}
      BY <2>0, <3>1 DEF DueAfter
    <3> QED
      BY <1>5, <2>1, <3>2, SettledStep DEF Discard
  <2>2. CASE c \notin Active(db)
    <3>1. /\ db'.nextAt = db.nextAt /\ db'.interval = db.interval
          /\ db'.conv = [db.conv EXCEPT ![c] = Absent]
      BY <1>0, <1>5, <2>2 DEF Discard, Delete, Database
    <3>2. Active(db') = Active(db)
      BY <1>0, <2>2, <3>1 DEF Active, ActiveStatus, Absent, Database
    <3> QED
      BY <1>5, <2>2, <3>1, <3>2, SamePlan DEF Discard
  <2> QED
    BY <2>1, <2>2
<1>6. CASE PlanCommand
  <2>0. db.interval \in Nat /\ Intervals \subseteq Nat
    BY <1>0, IntervalAssumption DEF Database
  <2>1. CASE db' = Pause(db)
    <3>1. db'.nextAt = NULL
      BY <1>0, <2>1 DEF Pause, Database
    <3> QED
      BY <1>6, <3>1, SettledStep DEF PlanCommand
  <2>2. CASE db' = Resume(db, 0)
    <3>1. db'.nextAt = 0 + db.interval /\ db'.interval = db.interval
      BY <1>0, <2>2 DEF Resume, Database
    <3> QED
      BY <1>6, <2>0, <3>1, SettledStep DEF PlanCommand
  <2>3. ASSUME NEW i \in Intervals, db' = SetInterval(db, i, 0)
        PROVE  PlanIsOneInterval'
    <3>1. db'.nextAt \in {NULL, 0 + i} /\ db'.interval = i
      BY <1>0, <2>3 DEF SetInterval, DueAfter, Database
    <3>2. i \in Nat
      BY <2>0
    <3> QED
      BY <1>6, <3>1, <3>2, SettledStep DEF PlanCommand
  <2> QED
    BY <1>6, <2>1, <2>2, <2>3 DEF PlanCommand
<1>7. CASE TimePasses
  <2>1. /\ db'.conv = db.conv /\ db'.interval = db.interval
        /\ db'.nextAt = Closer(db.nextAt)
        /\ settled' = Lower(settled + 1, LongestWait)
    BY <1>0, <1>7 DEF TimePasses, Database
  <2>2. db.interval \in Nat /\ db.interval <= LongestWait /\ LongestWait \in Nat
    BY <1>0, IntervalAssumption, SchedulerAssumption DEF Database
  <2>3. CASE db.nextAt = NULL
    BY <2>1, <2>3 DEF PlanIsOneInterval, Closer
  <2>4. CASE db.nextAt # NULL
    <3>1. db.nextAt \in Nat
      BY <1>0, <2>4 DEF Database
    <3>2. Active(db') = Active(db)
      BY <2>1 DEF Active
    <3>3. db'.nextAt = Higher(db.nextAt - 1, 0)
      BY <2>1, <2>4 DEF Closer
    <3>4. settled + db.nextAt >= db.interval =>
            settled' + db'.nextAt >= db'.interval
      BY <2>1, <2>2, <3>1, <3>3 DEF Lower, Higher, Control
    <3> QED
      BY <2>4, <3>2, <3>4 DEF PlanIsOneInterval, Active
  <2> QED
    BY <2>3, <2>4
<1>8. CASE db' = db /\ UNCHANGED settled
  BY <1>8 DEF PlanIsOneInterval, Active
<1> QED
  BY <1>1, <1>3, <1>4, <1>5, <1>6, <1>7, <1>8
     DEF Next, Tick, TickSkips, TickAttempts, TickPauses, TickFails,
         NotificationEnds, OtherClaims, Restart, vars, history

-----------------------------------------------------------------------------
(* The backoff.                                                            *)

\* A wait is no longer than the cap or than a Retry-After.
RetryBounded ==
  /\ retry \in Nat \cup {NULL}
  /\ retry # NULL => retry <= BackoffCap \/ \E r \in RetryAfters : retry <= r

\* The delays of _record_failure, whatever n and whatever the provider sent.
LEMMA DelayBounds ==
  ASSUME NEW n \in 1..MaxFailures, NEW after \in RetryAfters \cup {NULL}
  PROVE  /\ Backoff(n) \in Int /\ Backoff(n) <= BackoffCap
         /\ Delay(n, after) \in Int
         /\ Delay(n, after) >= Backoff(n)
         /\ after # NULL => after \in Nat /\ Delay(n, after) >= after
         /\ \/ Delay(n, after) <= BackoffCap
            \/ \E r \in RetryAfters : Delay(n, after) <= r
<1>1. 2^(n - 1) \in Int /\ BackoffCap \in Nat /\ RetryAfters \subseteq Nat
  BY SchedulerAssumption
<1>2. Backoff(n) \in Int /\ Backoff(n) <= BackoffCap
  BY <1>1 DEF Backoff, Lower
<1>3. CASE after = NULL
  BY <1>2, <1>3 DEF Delay
<1>4. CASE after # NULL
  <2>1. Delay(n, after) = Higher(Backoff(n), after) /\ after \in Nat
    BY <1>1, <1>4 DEF Delay
  <2>2. /\ Delay(n, after) \in Int
        /\ Delay(n, after) >= Backoff(n) /\ Delay(n, after) >= after
        /\ Delay(n, after) <= BackoffCap \/ Delay(n, after) <= after
    BY <1>2, <2>1, <1>1 DEF Higher
  <2> QED
    BY <1>2, <1>4, <2>1, <2>2
<1> QED
  BY <1>3, <1>4

\* What TickFails does, without the case of a delay that overflows.
LEMMA FailureCounted ==
  ASSUME Control, TickFails
  PROVE  \E n \in 1..MaxFailures :
           /\ failures' = n
           /\ failure.retryAfter \in RetryAfters \cup {NULL}
           /\ \/ Delay(n, failure.retryAfter) > Horizon /\ retry' = retry
              \/ retry' = Higher(Delay(n, failure.retryAfter) - elapsed, 0)
           /\ sinceTick' = Lower(elapsed, BackoffCap)
           /\ pc' = "asleep" /\ embargo' = embargo
<1>1. Lower(failures + 1, MaxFailures) \in 1..MaxFailures
  BY SchedulerAssumption DEF Control, Lower
<1>2. failure.retryAfter \in RetryAfters \cup {NULL}
  BY DEF Control, TickFails, Failures
<1> QED
  BY <1>1, <1>2 DEF TickFails, Sleep

LEMMA RetryStep ==
  ASSUME Control, RetryBounded, [Next]_vars
  PROVE  RetryBounded'
<1>1. CASE TickFails
  <2>1. PICK n \in 1..MaxFailures :
          /\ failure.retryAfter \in RetryAfters \cup {NULL}
          /\ \/ retry' = retry
             \/ retry' = Higher(Delay(n, failure.retryAfter) - elapsed, 0)
    BY <1>1, FailureCounted
  <2> DEFINE D == Delay(n, failure.retryAfter)
  <2>2. D \in Int /\ (D <= BackoffCap \/ \E r \in RetryAfters : D <= r)
    BY <2>1, DelayBounds
  <2>3. CASE retry' = retry
    BY <2>3 DEF RetryBounded
  <2>4. CASE retry' = Higher(D - elapsed, 0)
    <3> HIDE DEF D
    <3>1. elapsed \in Nat /\ BackoffCap \in Nat /\ RetryAfters \subseteq Nat
      BY SchedulerAssumption DEF Control
    <3>2. retry' \in Nat /\ (retry' = 0 \/ retry' <= D)
      BY <2>2, <2>4, <3>1 DEF Higher
    <3>3. CASE D <= BackoffCap
      BY <2>2, <3>1, <3>2, <3>3 DEF RetryBounded
    <3>4. ASSUME NEW r \in RetryAfters, D <= r
          PROVE  RetryBounded'
      <4>1. retry' <= r \/ retry' <= BackoffCap
        BY <2>2, <3>1, <3>2, <3>4
      <4> QED
        BY <3>2, <4>1 DEF RetryBounded
    <3> QED
      BY <2>2, <3>3, <3>4
  <2> QED
    BY <2>1, <2>3, <2>4
<1>2. CASE TimePasses
  <2>1. CASE retry = NULL
    BY <1>2, <2>1 DEF TimePasses, Closer, RetryBounded
  <2>2. CASE retry # NULL
    <3>1. retry \in Nat /\ retry' = Higher(retry - 1, 0)
      BY <1>2, <2>2 DEF TimePasses, Closer, RetryBounded
    <3>2. retry' \in Nat /\ retry' <= retry
      BY <3>1 DEF Higher
    <3>3. BackoffCap \in Nat /\ RetryAfters \subseteq Nat
      BY SchedulerAssumption
    <3> QED
      BY <2>2, <3>1, <3>2, <3>3 DEF RetryBounded
  <2> QED
    BY <2>1, <2>2
<1>3. CASE retry' \in {retry, NULL}
  BY <1>3 DEF RetryBounded
<1> QED
  BY <1>1, <1>2, <1>3
     DEF Next, Tick, TickSkips, TickAttempts, KickoffSucceeds, KickoffFails,
         TickPauses, NotificationEnds, OtherClaims, OtherEnds, Discard,
         PlanCommand, Restart, vars, schedulerVars

\* While failures are counted, what is left of the wait and the time since
\* the failed attempt add up to the backoff.
BackoffKept ==
  failures > 0 => retry # NULL /\ retry + sinceTick >= Backoff(failures)

\* What is left of a Retry-After is in the backoff, or short.
EmbargoCovered ==
  /\ pc = "kickoff" => embargo <= MaxKickoff
  /\ pc = "cleanup" =>
       embargo = 0 \/ (failure.retryAfter # NULL /\ embargo <= failure.retryAfter)
  /\ pc \in {"asleep", "awake"} =>
       embargo <= MaxKickoff \/ (retry # NULL /\ embargo <= retry + MaxKickoff)

\* A pause made by a failure lasts until /resume; otherwise the part of a
\* Retry-After that may be lost is the time the kickoff took.
EmbargoKept ==
  /\ verdict = "paused" => db.status = "PAUSED"
  /\ pc = "cleanup" => (verdict = "none" <=> failure.kind # "fatal")
  /\ pc = "notifying" => verdict # "none"
  /\ verdict = "none" => EmbargoCovered

\* Every Retry-After fits a datetime: without this, TickFails leaves the old
\* _retry_at behind and nothing is kept.
NoOverflow == \A r \in RetryAfters : r <= Horizon

LEMMA FailureDelays ==
  ASSUME Control, TickFails, NoOverflow
  PROVE  \E n \in 1..MaxFailures, D \in Int :
           /\ failures' = n
           /\ retry' = Higher(D - elapsed, 0)
           /\ D >= Backoff(n)
           /\ failure.retryAfter # NULL => D >= failure.retryAfter
           /\ sinceTick' = Lower(elapsed, BackoffCap)
           /\ pc' = "asleep" /\ embargo' = embargo
<1>1. PICK n \in 1..MaxFailures :
        /\ failures' = n
        /\ failure.retryAfter \in RetryAfters \cup {NULL}
        /\ \/ Delay(n, failure.retryAfter) > Horizon /\ retry' = retry
           \/ retry' = Higher(Delay(n, failure.retryAfter) - elapsed, 0)
        /\ sinceTick' = Lower(elapsed, BackoffCap)
        /\ pc' = "asleep" /\ embargo' = embargo
  BY FailureCounted
<1> DEFINE D == Delay(n, failure.retryAfter)
<1>2. /\ D \in Int /\ D >= Backoff(n)
      /\ failure.retryAfter # NULL => D >= failure.retryAfter
      /\ D <= BackoffCap \/ \E r \in RetryAfters : D <= r
  BY <1>1, DelayBounds
<1>3. ~(D > Horizon)
  <2> HIDE DEF D
  <2>1. /\ BackoffCap \in Nat /\ Horizon \in Nat /\ BackoffCap <= Horizon
        /\ RetryAfters \subseteq Nat
    BY SchedulerAssumption
  <2> QED
    BY <1>2, <2>1 DEF NoOverflow
<1> QED
  BY <1>1, <1>2, <1>3

LEMMA BackoffStep ==
  ASSUME Control, RetryBounded, BackoffKept, NoOverflow, [Next]_vars
  PROVE  BackoffKept'
<1>0. /\ BackoffCap \in Nat /\ elapsed \in Nat /\ sinceTick \in Nat
      /\ failures \in 0..MaxFailures /\ MaxFailures \in Nat
  BY SchedulerAssumption DEF Control
<1>1. CASE TickFails
  <2>1. PICK n \in 1..MaxFailures, D \in Int :
          /\ failures' = n
          /\ retry' = Higher(D - elapsed, 0)
          /\ D >= Backoff(n)
          /\ sinceTick' = Lower(elapsed, BackoffCap)
    BY <1>1, FailureDelays
  <2>2. Backoff(n) \in Int /\ Backoff(n) <= BackoffCap
    BY DelayBounds
  <2>3. retry' \in Nat /\ retry' + sinceTick' >= Backoff(n)
    BY <1>0, <2>1, <2>2 DEF Higher, Lower
  <2>4. retry' # NULL
    BY <2>3, NullAssumption
  <2> QED
    BY <2>1, <2>3, <2>4 DEF BackoffKept, Backoff, Lower
<1>2. CASE TimePasses
  <2>1. failures' = failures /\ sinceTick' = Lower(sinceTick + 1, BackoffCap)
    BY <1>2 DEF TimePasses
  <2>2. CASE failures > 0
    <3>1. failures \in 1..MaxFailures
      BY <1>0, <2>2
    <3>2. Backoff(failures) \in Int /\ Backoff(failures) <= BackoffCap
      BY <3>1, DelayBounds
    <3>3. retry \in Nat /\ retry + sinceTick >= Backoff(failures)
      BY <2>2 DEF BackoffKept, RetryBounded
    <3>4. retry' = Higher(retry - 1, 0)
      BY <1>2, <3>3, NullAssumption DEF TimePasses, Closer
    <3>5. retry' \in Nat /\ retry' + sinceTick' >= Backoff(failures)
      BY <1>0, <2>1, <3>2, <3>3, <3>4 DEF Higher, Lower
    <3>6. retry' # NULL
      BY <3>5, NullAssumption
    <3> QED
      BY <2>1, <3>5, <3>6 DEF BackoffKept, Backoff, Lower
  <2>3. CASE ~(failures > 0)
    BY <2>1, <2>3 DEF BackoffKept
  <2> QED
    BY <2>2, <2>3
<1>3. CASE failures' = 0
  BY <1>3 DEF BackoffKept
<1>4. CASE UNCHANGED <<failures, retry, sinceTick>>
  BY <1>4 DEF BackoffKept, Backoff, Lower
<1> QED
  BY <1>1, <1>2, <1>3, <1>4
     DEF Next, Tick, TickSkips, TickAttempts, KickoffSucceeds, KickoffFails,
         TickPauses, NotificationEnds, OtherClaims, OtherEnds, Discard,
         PlanCommand, Restart, vars, schedulerVars, history

\* While automation is on, an attempt begins only when no wait is left.
LEMMA CoveredStep ==
  ASSUME Control, RetryBounded, EmbargoKept, NoOverflow, [Next]_vars,
         verdict' = "none"
  PROVE  EmbargoCovered'
<1>0. MaxKickoff \in Nat /\ elapsed \in 0..MaxKickoff /\ embargo \in Nat
  BY SchedulerAssumption DEF Control
<1>k. ASSUME NEW f \in Failures, KickoffFails(f)
      PROVE  EmbargoCovered'
  <2>1. /\ pc' = "cleanup" /\ failure' = f
        /\ embargo' = IF f.retryAfter = NULL THEN 0 ELSE f.retryAfter
    BY <1>k DEF KickoffFails
  <2>2. f.retryAfter # NULL => f.retryAfter \in Nat
    BY SchedulerAssumption DEF Failures
  <2> QED
    BY <2>1, <2>2 DEF EmbargoCovered
<1>n. CASE verdict # "none" /\ ~(\E f \in Failures : KickoffFails(f))
  BY <1>n DEF Next, Tick, TickSkips, TickAttempts, KickoffSucceeds, TickPauses,
              TickFails, NotificationEnds, Sleep, OtherClaims, OtherEnds, Discard,
              PlanCommand, Restart, TimePasses, vars, schedulerVars, history
<1> SUFFICES ASSUME verdict = "none", EmbargoCovered
             PROVE  EmbargoCovered'
  BY <1>k, <1>n DEF EmbargoKept
<1>1. CASE TickSkips
  BY <1>0, <1>1 DEF TickSkips, Sleep, EmbargoCovered, history
<1>2. CASE NotificationEnds \/ TickPauses
  BY <1>2 DEF NotificationEnds, TickPauses, EmbargoKept
<1>3. ASSUME NEW c \in Convs, NEW ch \in Channels, NEW s \in Sessions,
             KickoffSucceeds(c, ch, s)
      PROVE  EmbargoCovered'
  BY <1>3 DEF KickoffSucceeds, Sleep, EmbargoCovered, history
<1>4. CASE TickAttempts
  <2>1. retry = NULL \/ ~(retry > 0)
    BY <1>4 DEF TickAttempts, Eligible, BackingOff
  <2>2. retry # NULL => retry = 0
    BY <2>1 DEF RetryBounded
  <2>3. embargo <= MaxKickoff
    BY <1>0, <1>4, <2>2 DEF TickAttempts, EmbargoCovered
  <2> QED
    BY <1>4, <2>3 DEF TickAttempts, EmbargoCovered, history
<1>6. CASE TickFails
  <2>1. PICK D \in Int :
          /\ retry' = Higher(D - elapsed, 0)
          /\ failure.retryAfter # NULL => D >= failure.retryAfter
          /\ pc' = "asleep" /\ embargo' = embargo
    BY <1>6, FailureDelays
  <2>2. retry' \in Nat /\ retry' # NULL /\ retry' >= D - elapsed
    BY <1>0, <2>1, NullAssumption DEF Higher
  <2>3. CASE embargo = 0
    BY <1>0, <2>1, <2>3 DEF EmbargoCovered
  <2>4. CASE embargo # 0
    <3>1. failure.retryAfter # NULL /\ embargo <= failure.retryAfter
      BY <1>6, <2>4 DEF TickFails, EmbargoCovered
    <3>2. failure.retryAfter \in Nat
      BY <1>6, <3>1, SchedulerAssumption DEF TickFails, Control, Failures
    <3>3. embargo <= retry' + MaxKickoff
      BY <1>0, <2>1, <2>2, <3>1, <3>2
    <3> QED
      BY <2>1, <2>2, <3>3 DEF EmbargoCovered
  <2> QED
    BY <2>3, <2>4
<1>7. CASE Restart
  BY <1>0, <1>7 DEF Restart, EmbargoCovered
<1>8. CASE TimePasses
  <2>1. /\ embargo' \in Nat /\ embargo' <= embargo
        /\ embargo' = 0 \/ embargo' = embargo - 1
        /\ failure' = failure
        /\ pc' = IF pc = "asleep" THEN "awake" ELSE pc
    BY <1>0, <1>8, NullAssumption DEF TimePasses, Closer, Higher
  <2>2. CASE pc \in {"asleep", "awake"}
    <3>1. CASE embargo <= MaxKickoff
      BY <1>0, <2>1, <2>2, <3>1 DEF EmbargoCovered
    <3>2. CASE retry # NULL /\ embargo <= retry + MaxKickoff
      <4>1. retry \in Nat
        BY <3>2 DEF RetryBounded
      <4>2. retry' = Higher(retry - 1, 0)
        BY <1>8, <3>2 DEF TimePasses, Closer
      <4>3. retry' \in Nat
        BY <4>1, <4>2 DEF Higher
      <4>4. embargo' <= MaxKickoff \/ embargo' <= retry' + MaxKickoff
        <5>1. CASE embargo' = 0
          BY <1>0, <5>1
        <5>2. CASE embargo' = embargo - 1
          <6>1. embargo <= retry + MaxKickoff /\ embargo \in Int /\ MaxKickoff \in Int
            BY <1>0, <3>2
          <6> QED
            BY <4>1, <4>2, <5>2, <6>1 DEF Higher
        <5> QED
          BY <2>1, <5>1, <5>2
      <4>5. retry' # NULL
        BY <4>3, NullAssumption
      <4> QED
        BY <2>1, <2>2, <4>4, <4>5 DEF EmbargoCovered
    <3> QED
      BY <2>2, <3>1, <3>2 DEF EmbargoCovered
  <2>3. CASE pc = "cleanup"
    <3>1. CASE embargo = 0
      BY <1>0, <2>1, <2>3, <3>1 DEF EmbargoCovered
    <3>2. CASE embargo # 0
      <4>1. /\ failure.retryAfter # NULL /\ embargo <= failure.retryAfter
            /\ failure.retryAfter \in Nat
        BY <2>3, <3>2, SchedulerAssumption DEF EmbargoCovered, Control, Failures
      <4> QED
        BY <1>0, <2>1, <2>3, <4>1 DEF EmbargoCovered
    <3> QED
      BY <3>1, <3>2
  <2>4. CASE pc = "kickoff" \/ pc = "notifying"
    BY <1>0, <2>1, <2>4 DEF EmbargoCovered
  <2> QED
    BY <2>2, <2>3, <2>4 DEF Control
<1>9. CASE UNCHANGED <<pc, failure, retry, embargo>>
  BY <1>9 DEF EmbargoCovered
<1> QED
  BY <1>k, <1>1, <1>2, <1>3, <1>4, <1>6, <1>7, <1>8, <1>9
     DEF Next, Tick, OtherClaims, OtherEnds, Discard, PlanCommand, vars,
         schedulerVars, history

\* Only /resume ends a pause, whatever else happens to the store meanwhile.
LEMMA PauseLasts ==
  ASSUME StoreInv(db, 0), [Next]_vars, verdict = "paused", verdict' = "paused",
         db.status = "PAUSED"
  PROVE  db'.status = "PAUSED"
<1>1. db \in Database
  BY DEF StoreInv
<1>2. ASSUME NEW c \in Convs, NEW ch \in Channels
      PROVE  /\ Start(db, c, ch, 0).status = db.status
             /\ \A s \in Sessions :
                  Start(RecordSuccess(db, s), c, ch, 0).status = db.status
  BY <1>1 DEF Start, RecordSuccess, Database
<1>3. /\ Pause(db).status = "PAUSED"
      /\ \A i \in Intervals : SetInterval(db, i, 0).status = db.status
      /\ \A kind : RecordError(db, kind).status = db.status
      /\ \A kind : RecordPausingError(db, kind).status = "PAUSED"
      /\ [db EXCEPT !.nextAt = Closer(@)].status = db.status
  BY <1>1 DEF Pause, SetInterval, RecordError, RecordPausingError, Database
<1>4. ASSUME NEW f \in Failures, KickoffFails(f)
      PROVE  db'.status = "PAUSED"
  <2>1. f.kind = "fatal"
    BY <1>4 DEF KickoffFails
  <2> QED
    BY <1>3, <1>4, <2>1 DEF KickoffFails, Recorded
<1>5. CASE PlanCommand
  BY <1>3, <1>5 DEF PlanCommand
<1>6. CASE OtherEnds
  <2>1. \A c : Complete(MarkClosing(db, c), c, 0).status = db.status
    BY <1>1 DEF Complete, MarkClosing, Database
  <2> QED
    BY <1>2, <1>3, <1>6, <2>1 DEF OtherEnds
<1>7. ASSUME NEW c \in Convs, Discard(c)
      PROVE  db'.status = "PAUSED"
  BY <1>1, <1>7 DEF Discard, Delete, Database
<1>8. ASSUME NEW c \in Convs, NEW ch \in Channels, NEW s \in Sessions,
             KickoffSucceeds(c, ch, s)
      PROVE  db'.status = "PAUSED"
  BY <1>2, <1>8 DEF KickoffSucceeds
<1>9. CASE TimePasses
  BY <1>3, <1>9 DEF TimePasses
<1> QED
  BY <1>4, <1>5, <1>6, <1>7, <1>8, <1>9
     DEF Next, Tick, TickSkips, TickAttempts, TickPauses, TickFails,
         NotificationEnds, OtherClaims, Restart, vars

\* What the failure did to automation is known until the cleanup is over.
LEMMA VerdictStep ==
  ASSUME EmbargoKept, Control, [Next]_vars
  PROVE  /\ pc' = "cleanup" => (verdict' = "none" <=> failure'.kind # "fatal")
         /\ pc' = "notifying" => verdict' # "none"
<1>1. ASSUME NEW f \in Failures, KickoffFails(f)
      PROVE  /\ pc' = "cleanup" /\ failure' = f
             /\ verdict' = IF f.kind = "fatal" THEN "paused" ELSE "none"
  BY <1>1 DEF KickoffFails
<1>2. CASE TickPauses
  BY <1>2 DEF TickPauses, EmbargoKept, history
<1>3. CASE PlanCommand
  BY <1>3 DEF PlanCommand, EmbargoKept, schedulerVars
<1>4. CASE UNCHANGED <<pc, failure, verdict>>
  BY <1>4 DEF EmbargoKept
<1>5. CASE pc' \in {"asleep", "awake", "kickoff"}
  BY <1>5
<1>6. CASE TimePasses
  BY <1>6 DEF TimePasses, EmbargoKept
<1> QED
  BY <1>1, <1>2, <1>3, <1>4, <1>5, <1>6
     DEF Next, Tick, TickSkips, TickAttempts, KickoffSucceeds, TickFails,
         NotificationEnds, Sleep, OtherClaims, OtherEnds, Discard, Restart, vars,
         schedulerVars, history

LEMMA EmbargoStep ==
  ASSUME StoreInv(db, 0), Control, RetryBounded, EmbargoKept, NoOverflow,
         [Next]_vars
  PROVE  EmbargoKept'
<1>1. ASSUME verdict' = "paused"
      PROVE  db'.status = "PAUSED"
  <2>1. CASE verdict = "paused"
    BY <1>1, <2>1, PauseLasts DEF EmbargoKept
  <2>2. CASE verdict # "paused"
    <3>1. PICK f \in Failures : KickoffFails(f)
      BY <1>1, <2>2
         DEF Next, Tick, TickSkips, TickAttempts, KickoffSucceeds, TickPauses,
             TickFails, NotificationEnds, OtherClaims, OtherEnds, Discard,
             PlanCommand, Restart, TimePasses, vars, history
    <3>2. db' = RecordPausingError(db, "agent")
      BY <1>1, <3>1 DEF KickoffFails, Recorded
    <3> QED
      BY <3>2 DEF RecordPausingError, StoreInv, Database
  <2> QED
    BY <2>1, <2>2
<1>2. verdict' = "none" => EmbargoCovered'
  BY CoveredStep
<1> QED
  BY <1>1, <1>2, VerdictStep DEF EmbargoKept

-----------------------------------------------------------------------------
(* The theorems.                                                           *)

\* The inductive invariant that needs no premise.
Inv ==
  /\ StoreInv(db, 0)
  /\ Control
  /\ KickoffRunsAlone
  /\ PlanIsOneInterval
  /\ RetryBounded

\* The store stays coherent under the scheduler and everything around it, and
\* the loop, the lease and the plan keep their relations.
THEOREM SchedulerCoherent == Spec => []Inv
<1>1. Init => Inv
  <2> SUFFICES ASSUME Init PROVE Inv
    OBVIOUS
  <2>1. StoreInv(FreshDatabase, 0)
    BY FreshCoherent
  <2>2. Control /\ RetryBounded
    BY SchedulerAssumption DEF Init, Control, RetryBounded
  <2>3. Active(db) = {}
    BY DEF Init, FreshDatabase, Absent, Active, ActiveStatus
  <2>4. KickoffRunsAlone
    BY SchedulerAssumption DEF Init, KickoffRunsAlone
  <2>5. PlanIsOneInterval
    BY DEF Init, FreshDatabase, PlanIsOneInterval
  <2> QED
    BY <2>1, <2>2, <2>4, <2>5 DEF Init, Inv
<1>2. Inv /\ [Next]_vars => Inv'
  <2> SUFFICES ASSUME Inv, [Next]_vars PROVE Inv'
    OBVIOUS
  <2>1. StoreInv(db', 0)
    BY StoreStep DEF Inv
  <2> QED
    BY <2>1, ControlStep, AloneStep, PlanStep, RetryStep DEF Inv
<1> QED
  BY <1>1, <1>2, PTL DEF Spec

\* Type correctness, with the bound on every wait: the cap, or a Retry-After.
THEOREM SchedulerTypeCorrect == Spec => []TypeOK
<1>1. Inv => TypeOK
  BY DEF Inv, StoreInv, Control, RetryBounded, TypeOK
<1> QED
  BY <1>1, SchedulerCoherent, PTL

\* The lease is held from the attempt to the end of cleanup and notification,
\* whichever way the kickoff ends, and no other conversation starts meanwhile.
THEOREM KickoffAlone == Spec => []KickoffRunsAlone
<1>1. Inv => KickoffRunsAlone
  BY DEF Inv
<1> QED
  BY <1>1, SchedulerCoherent, PTL

\* Only TickAttempts begins an attempt.
LEMMA AttemptIsEligible ==
  ASSUME [Next]_vars, Attempt
  PROVE  Eligible /\ UNCHANGED failures
BY DEF Attempt, Next, Tick, TickSkips, TickAttempts, KickoffSucceeds,
       KickoffFails, TickPauses, TickFails, NotificationEnds, Sleep, OtherClaims,
       OtherEnds, Discard, PlanCommand, Restart, TimePasses, vars, schedulerVars

\* No automatic attempt is early: a full interval lies between it and the
\* closure, discard or command that made the plan.
THEOREM AttemptsWait == Spec => AttemptWaitsForInterval
<1>1. Inv /\ [Next]_vars => (Attempt => settled >= db.interval)
  <2> SUFFICES ASSUME Inv, [Next]_vars, Attempt
               PROVE  settled >= db.interval
    OBVIOUS
  <2>1. Due(db) /\ Active(db) = {}
    BY AttemptIsEligible DEF Eligible
  <2>2. /\ db.nextAt \in Nat /\ db.nextAt <= 0
        /\ db.interval \in Nat /\ settled \in Nat
    <3>1. db \in Database /\ settled \in 0..LongestWait /\ LongestWait \in Nat
      BY SchedulerAssumption DEF Inv, StoreInv, Control
    <3>2. db.nextAt \in Nat /\ db.nextAt <= 0
      BY <2>1, <3>1 DEF Due, Database
    <3>3. db.interval \in Nat
      BY <3>1, IntervalAssumption DEF Database
    <3> QED
      BY <3>1, <3>2, <3>3
  <2>3. settled + db.nextAt >= db.interval
    BY <2>1 DEF Inv, PlanIsOneInterval, Due
  <2>4. db.nextAt = 0
    BY <2>2
  <2> QED
    BY <2>2, <2>3, <2>4
<1> QED
  BY <1>1, SchedulerCoherent, PTL DEF Spec, AttemptWaitsForInterval

\* When every Retry-After fits a datetime, consecutive failures are spaced by
\* the backoff, counted from tick to tick.
THEOREM RetriesAreSpaced ==
  ASSUME NoOverflow
  PROVE  Spec => RetriesBackOff
<1>1. Init => BackoffKept
  BY DEF Init, BackoffKept
<1>2. Inv /\ BackoffKept /\ [Next]_vars => BackoffKept'
  BY BackoffStep DEF Inv
<1>3. Inv /\ BackoffKept /\ [Next]_vars =>
        (Attempt /\ failures > 0 => sinceTick >= Backoff(failures))
  <2> SUFFICES ASSUME Inv, BackoffKept, [Next]_vars, Attempt, failures > 0
               PROVE  sinceTick >= Backoff(failures)
    OBVIOUS
  <2>1. ~BackingOff
    BY AttemptIsEligible DEF Eligible
  <2>2. retry \in Nat /\ retry + sinceTick >= Backoff(failures)
    BY DEF Inv, RetryBounded, BackoffKept
  <2>3. retry = 0
    BY <2>1, <2>2, NullAssumption DEF BackingOff
  <2>4. sinceTick \in Nat
    BY SchedulerAssumption DEF Inv, Control
  <2> QED
    BY <2>2, <2>3, <2>4
<1> QED
  BY <1>1, <1>2, <1>3, SchedulerCoherent, PTL DEF Spec, RetriesBackOff

\* When every Retry-After fits a datetime: a billing or authentication failure
\* stops automation until /resume, also over restarts, and the Retry-After of any
\* other failure is cut short by no more than the time the failed kickoff took,
\* since _record_failure counts from the tick's now.
THEOREM RetryAftersAreKept ==
  ASSUME NoOverflow
  PROVE  Spec => RetryAfterNearlyHonored
<1>1. Init => EmbargoKept
  BY SchedulerAssumption DEF Init, EmbargoKept, EmbargoCovered
<1>2. Inv /\ EmbargoKept /\ [Next]_vars => EmbargoKept'
  BY EmbargoStep DEF Inv
<1>3. Inv /\ EmbargoKept /\ [Next]_vars =>
        (Attempt => CASE verdict = "none"    -> embargo <= MaxKickoff
                      [] verdict = "paused"  -> FALSE
                      [] verdict = "resumed" -> TRUE)
  <2> SUFFICES ASSUME Inv, EmbargoKept, [Next]_vars, Attempt
               PROVE  CASE verdict = "none"    -> embargo <= MaxKickoff
                        [] verdict = "paused"  -> FALSE
                        [] verdict = "resumed" -> TRUE
    OBVIOUS
  <2>1. EmbargoKept'
    BY <1>2
  <2>2. embargo' = embargo /\ verdict' = verdict /\ db' = db
    BY DEF Attempt, Next, Tick, TickSkips, TickAttempts, KickoffSucceeds,
           KickoffFails, TickPauses, TickFails, NotificationEnds, Sleep,
           OtherClaims, OtherEnds, Discard, PlanCommand, Restart, TimePasses,
           vars, schedulerVars, history
  <2>3. verdict = "none" => embargo <= MaxKickoff
    BY <2>1, <2>2 DEF EmbargoKept, EmbargoCovered, Attempt
  <2>4. verdict # "paused"
    BY AttemptIsEligible DEF EmbargoKept, Eligible, Due
  <2>5. verdict \in {"none", "paused", "resumed"}
    BY DEF Inv, Control
  <2> QED
    BY <2>3, <2>4, <2>5
<1> QED
  BY <1>1, <1>2, <1>3, SchedulerCoherent, PTL DEF Spec, RetryAfterNearlyHonored

=============================================================================
