-------------------------- MODULE StateStoreProofs --------------------------
(***************************************************************************)
(* Theorems about StateStore for every set of conversations, channels and  *)
(* intervals.  The inductive invariant is StoreInv of StoreOps: no part of *)
(* it is inductive alone, since the plan needs the row that is closed and  *)
(* the guards of the transactions need the type.                           *)
(***************************************************************************)
EXTENDS StateStore, StoreOpsProofs

Inv == /\ clock \in 0..MaxTime
       /\ StoreInv(db, clock)

\* Every operation of the store preserves the inductive invariant.
LEMMA InvStep == Inv /\ [Next]_vars => Inv'
<1> SUFFICES ASSUME Inv, [Next]_vars
             PROVE  Inv'
  OBVIOUS
<1>0. clock \in Nat /\ clock \in 0..MaxTime /\ StoreInv(db, clock)
  BY TimeAssumption DEF Inv
<1>1. ASSUME NEW c \in Convs, NEW ch \in Channels, StartConversation(c, ch)
      PROVE  Inv'
  BY <1>0, <1>1, StartCoherent DEF StartConversation, Inv
<1>2. ASSUME NEW c \in Convs, MarkConversationClosing(c)
      PROVE  Inv'
  BY <1>0, <1>2, MarkClosingCoherent DEF MarkConversationClosing, Inv
<1>3. ASSUME NEW c \in Convs, ReopenConversation(c)
      PROVE  Inv'
  BY <1>0, <1>3, ReopenCoherent DEF ReopenConversation, Inv
<1>4. ASSUME NEW c \in Convs, CompleteConversation(c)
      PROVE  Inv'
  BY <1>0, <1>4, CompleteCoherent DEF CompleteConversation, Inv
<1>5. ASSUME NEW c \in Convs, DeleteConversation(c)
      PROVE  Inv'
  BY <1>0, <1>5, DeleteCoherent DEF DeleteConversation, Inv
<1>6. CASE PauseApplication
  BY <1>0, <1>6, PauseCoherent DEF PauseApplication, Inv
<1>7. CASE ResumeApplication
  BY <1>0, <1>7, ResumeCoherent DEF ResumeApplication, Inv
<1>8. ASSUME NEW i \in Intervals, SetIntervalSeconds(i)
      PROVE  Inv'
  BY <1>0, <1>8, SetIntervalCoherent DEF SetIntervalSeconds, Inv
<1>9. ASSUME NEW s \in Sessions, RecordAgentSuccess(s)
      PROVE  Inv'
  BY <1>0, <1>9, RecordSuccessCoherent DEF RecordAgentSuccess, Inv
<1>10. ASSUME NEW kind \in ErrorKinds, RecordAgentError(kind)
       PROVE  Inv'
  BY <1>0, <1>10, RecordErrorCoherent DEF RecordAgentError, Inv
<1>11. CASE TimePasses
  <2>1. clock' \in 0..MaxTime /\ clock' \in Nat /\ clock' >= clock
    BY <1>0, <1>11, TimeAssumption DEF TimePasses
  <2>2. StoreInv(db, clock')
    BY <1>0, <2>1, LaterCoherent
  <2> QED
    BY <1>11, <2>1, <2>2 DEF TimePasses, Inv
<1>12. CASE UNCHANGED vars
  BY <1>0, <1>12 DEF vars, Inv
<1> QED
  BY <1>1, <1>2, <1>3, <1>4, <1>5, <1>6, <1>7, <1>8, <1>9, <1>10, <1>11, <1>12
     DEF Next

\* The store is coherent after any sequence of its operations.
THEOREM StoreCoherent == Spec => []Inv
<1>1. Init => Inv
  <2> SUFFICES ASSUME Init PROVE Inv
    OBVIOUS
  <2>1. StoreInv(FreshDatabase, 0)
    BY FreshCoherent
  <2> QED
    BY <2>1, TimeAssumption DEF Init, Inv
<1> QED
  BY <1>1, InvStep, PTL DEF Spec

\* Type correctness of the store.
THEOREM TypeCorrect == Spec => []TypeOK
<1>1. Inv => TypeOK
  BY DEF Inv, TypeOK, StoreInv
<1> QED
  BY <1>1, StoreCoherent, PTL

\* No order of operations on any number of conversations leaves two of them
\* live: what the unique index promises (store.py, version 3).
THEOREM AtMostOneActive == Spec => []OneActiveConversation
<1>1. Inv => OneActiveConversation
  BY DEF Inv, OneActiveConversation, StoreInv
<1> QED
  BY <1>1, StoreCoherent, PTL

\* The plan stays coherent whatever sequence of pauses, resumptions, interval
\* changes, closures and deletions led to it.
THEOREM PlanCoherent == Spec => []CoherentPlan
<1>1. Inv => CoherentPlan
  BY DEF Inv, CoherentPlan, StoreInv
<1> QED
  BY <1>1, StoreCoherent, PTL

\* Session cards exist exactly for completed conversations.
THEOREM CardsCorrect == Spec => []CardsMatchStatus
<1>1. Inv => CardsMatchStatus
  BY DEF Inv, CardsMatchStatus, StoreInv
<1> QED
  BY <1>1, StoreCoherent, PTL

\* Closing or discarding the live conversation always restarts the interval
\* from that moment, or leaves nothing planned when paused.
THEOREM ClosureRestartsInterval == Spec => IntervalRestartsOnClosure
<1> DEFINE A == Active(db) # {} /\ Active(db)' = {} =>
                  db'.nextAt = DueAfter(db, db.interval, clock)
<1>1. Inv /\ [Next]_vars => A \/ UNCHANGED vars
  <2> SUFFICES ASSUME Inv, Next, Active(db) # {}, Active(db') = {}
               PROVE  db'.nextAt = DueAfter(db, db.interval, clock)
    BY DEF Active
  <2>0. db \in Database
    BY DEF Inv, StoreInv
  <2>1. db'.conv # db.conv
    BY DEF Active
  <2>2. PICK c \in Convs : c \in Active(db)
    BY DEF Active
  <2>3. ASSUME NEW d \in Convs, CompleteConversation(d)
        PROVE  db'.nextAt = DueAfter(db, db.interval, clock)
    BY <2>0, <2>3 DEF CompleteConversation, Complete, Database
  <2>4. ASSUME NEW d \in Convs, DeleteConversation(d)
        PROVE  db'.nextAt = DueAfter(db, db.interval, clock)
    <3>1. d \in Active(db)
      <4> SUFFICES ASSUME d \notin Active(db) PROVE FALSE
        OBVIOUS
      <4>1. c # d
        BY <2>2
      <4>2. db'.conv[c] = db.conv[c]
        BY <2>0, <2>4, <4>1 DEF DeleteConversation, Delete, Database
      <4>3. c \in Active(db')
        BY <2>2, <4>2 DEF Active
      <4> QED
        BY <4>3
    <3> QED
      BY <2>0, <2>4, <3>1 DEF DeleteConversation, Delete, Database
  <2>5. ASSUME NEW d \in Convs, NEW ch \in Channels, StartConversation(d, ch)
        PROVE  FALSE
    BY <2>5 DEF StartConversation, CanStart
  <2>6. ASSUME NEW d \in Convs, MarkConversationClosing(d)
        PROVE  FALSE
    <3>1. db'.conv[d].status = "CLOSING"
      BY <2>0, <2>6 DEF MarkConversationClosing, MarkClosing, Database, Row
    <3> QED
      BY <3>1 DEF Active, ActiveStatus
  <2>7. ASSUME NEW d \in Convs, ReopenConversation(d)
        PROVE  FALSE
    <3>1. db.conv[d].status = "CLOSING"
      BY <2>1, <2>7 DEF ReopenConversation, Reopen
    <3>2. db'.conv[d].status = "OPEN"
      BY <2>0, <2>7, <3>1 DEF ReopenConversation, Reopen, Database, Row
    <3> QED
      BY <3>2 DEF Active, ActiveStatus
  <2>8. CASE \/ PauseApplication
             \/ ResumeApplication
             \/ \E i \in Intervals : SetIntervalSeconds(i)
             \/ \E s \in Sessions : RecordAgentSuccess(s)
             \/ \E kind \in ErrorKinds : RecordAgentError(kind)
             \/ TimePasses
    BY <2>0, <2>1, <2>8
       DEF PauseApplication, Pause, ResumeApplication, Resume,
           SetIntervalSeconds, SetInterval, RecordAgentSuccess, RecordSuccess,
           RecordAgentError, RecordError, RecordPausingError, TimePasses, Database
  <2> QED
    BY <2>3, <2>4, <2>5, <2>6, <2>7, <2>8 DEF Next
<1>2. A \/ UNCHANGED vars => [A]_vars
  OBVIOUS
<1> QED
  BY <1>1, <1>2, StoreCoherent, PTL DEF Spec, IntervalRestartsOnClosure

-----------------------------------------------------------------------------
(* The rows, one by one.                                                   *)

\* What each operation does to the table: nothing, or one row takes one of
\* the steps of its life.
RowStep(c) ==
  \/ /\ db.conv[c].status = "ABSENT" /\ Active(db) = {}
     /\ db'.conv[c].status = "OPEN"
  \/ db.conv[c].status = "OPEN" /\ db'.conv[c].status = "CLOSING"
  \/ db.conv[c].status = "CLOSING" /\ db'.conv[c].status = "OPEN"
  \/ db.conv[c].status = "CLOSING" /\ db'.conv[c].status = "COMPLETED"
  \/ db.conv[c].status # "ABSENT" /\ db'.conv[c].status = "ABSENT"

LEMMA OneRowAtATime ==
  ASSUME db \in Database, [Next]_vars
  PROVE  \/ db'.conv = db.conv
         \/ \E c \in Convs :
              /\ \A d \in Convs \ {c} : db'.conv[d] = db.conv[d]
              /\ RowStep(c)
<1>1. ASSUME NEW c \in Convs, NEW ch \in Channels, StartConversation(c, ch)
      PROVE  /\ \A d \in Convs \ {c} : db'.conv[d] = db.conv[d]
             /\ RowStep(c)
  BY <1>1 DEF StartConversation, CanStart, Start, RowStep, Database
<1>2. ASSUME NEW c \in Convs, MarkConversationClosing(c)
      PROVE  /\ \A d \in Convs \ {c} : db'.conv[d] = db.conv[d]
             /\ RowStep(c)
  BY <1>2 DEF MarkConversationClosing, CanMarkClosing, MarkClosing, RowStep,
              Database, Row
<1>3. ASSUME NEW c \in Convs, ReopenConversation(c)
      PROVE  \/ db'.conv = db.conv
             \/ /\ \A d \in Convs \ {c} : db'.conv[d] = db.conv[d]
                /\ RowStep(c)
  BY <1>3 DEF ReopenConversation, Reopen, RowStep, Database, Row
<1>4. ASSUME NEW c \in Convs, CompleteConversation(c)
      PROVE  /\ \A d \in Convs \ {c} : db'.conv[d] = db.conv[d]
             /\ RowStep(c)
  BY <1>4 DEF CompleteConversation, CanComplete, Complete, RowStep, Database, Row
<1>5. ASSUME NEW c \in Convs, DeleteConversation(c)
      PROVE  /\ \A d \in Convs \ {c} : db'.conv[d] = db.conv[d]
             /\ RowStep(c)
  BY <1>5 DEF DeleteConversation, CanDelete, Delete, Absent, RowStep, Database
<1>6. CASE \/ PauseApplication
           \/ ResumeApplication
           \/ \E i \in Intervals : SetIntervalSeconds(i)
           \/ \E s \in Sessions : RecordAgentSuccess(s)
           \/ \E kind \in ErrorKinds : RecordAgentError(kind)
           \/ TimePasses
           \/ UNCHANGED vars
  BY <1>6
     DEF PauseApplication, Pause, ResumeApplication, Resume,
         SetIntervalSeconds, SetInterval, RecordAgentSuccess, RecordSuccess,
         RecordAgentError, RecordError, RecordPausingError, TimePasses, Database,
         vars
<1> QED
  BY <1>1, <1>2, <1>3, <1>4, <1>5, <1>6 DEF Next

\* A row is never reopened once completed, and never skips a step.
THEOREM RowsOnlyMoveForward == Spec => RowsMoveForward
<1> DEFINE
      Forward == ({"OPEN", "CLOSING", "COMPLETED"} \X {"ABSENT"})
                 \cup {<<"ABSENT", "OPEN">>, <<"OPEN", "CLOSING">>,
                       <<"CLOSING", "OPEN">>, <<"CLOSING", "COMPLETED">>}
      A == \A c \in Convs :
             db'.conv[c] # db.conv[c] =>
               <<db.conv[c].status, db'.conv[c].status>> \in Forward
<1>1. Inv /\ [Next]_vars => A
  <2> SUFFICES ASSUME Inv, [Next]_vars, NEW c \in Convs,
                      db'.conv[c] # db.conv[c]
               PROVE  <<db.conv[c].status, db'.conv[c].status>> \in Forward
    OBVIOUS
  <2>1. db \in Database
    BY DEF Inv, StoreInv
  <2>2. RowStep(c)
    BY <2>1, OneRowAtATime
  <2>3. db.conv[c].status \in {"ABSENT", "OPEN", "CLOSING", "COMPLETED"}
    BY <2>1 DEF Database, Row, ActiveStatus
  <2> QED
    BY <2>2, <2>3 DEF RowStep
<1> QED
  BY <1>1, StoreCoherent, PTL DEF Spec, RowsMoveForward

-----------------------------------------------------------------------------
(* The refinement.                                                         *)

LEMMA LiveRowIs ==
  ASSUME NEW c \in Convs
  PROVE  /\ Active(db) = {c} => LiveRow = c
         /\ Active(db') = {c} => LiveRow' = c
         /\ Active(db) = {} => LiveRow = NULL
         /\ Active(db') = {} => LiveRow' = NULL
         /\ Active(db') = Active(db) => LiveRow' = LiveRow
<1>1. /\ LiveRow = IF Active(db) = {} THEN NULL ELSE CHOOSE d \in Active(db) : TRUE
      /\ LiveRow' = IF Active(db') = {} THEN NULL ELSE CHOOSE d \in Active(db') : TRUE
  BY DEF LiveRow, Active
<1>2. (CHOOSE d \in {c} : TRUE) = c
  OBVIOUS
<1>3. /\ Active(db) = {c} => LiveRow = c
      /\ Active(db') = {c} => LiveRow' = c
  BY <1>1, <1>2
<1>4. /\ Active(db) = {} => LiveRow = NULL
      /\ Active(db') = {} => LiveRow' = NULL
  BY <1>1
<1>5. Active(db') = Active(db) => LiveRow' = LiveRow
  BY <1>1
<1> QED
  BY <1>3, <1>4, <1>5

\* Each step of the store is a step of the lifecycle or changes nothing in it.
LEMMA StepsOfLifecycle ==
  ASSUME Inv, [Next]_vars
  PROVE  [Lifecycle!Next]_(Lifecycle!vars)
<1> DEFINE
      closing == \E c \in Active(db) : db.conv[c].status = "CLOSING"
      archive == {c \in Convs : db.conv[c].status = "COMPLETED"}
<1>0. /\ db \in Database /\ OneActive(db)
      /\ NULL \notin Convs
  BY NullAssumption DEF Inv, StoreInv
<1>1. CASE db'.conv = db.conv
  <2>1. Active(db') = Active(db)
    BY <1>1 DEF Active
  <2>2. LiveRow' = LiveRow /\ closing' = closing /\ archive' = archive
    BY <1>1, <2>1 DEF LiveRow, Active
  <2> QED
    BY <2>2 DEF Lifecycle!vars
<1>2. ASSUME NEW c \in Convs,
             \A d \in Convs \ {c} : db'.conv[d] = db.conv[d],
             RowStep(c)
      PROVE  [Lifecycle!Next]_(Lifecycle!vars)
  <2>1. \A d \in Convs \ {c} : /\ d \in Active(db') <=> d \in Active(db)
                               /\ d \in archive' <=> d \in archive
    BY <1>2 DEF Active
  <2>2. CASE /\ db.conv[c].status = "ABSENT" /\ Active(db) = {}
             /\ db'.conv[c].status = "OPEN"
    <3>1. Active(db') = {c}
      BY <2>1, <2>2 DEF Active, ActiveStatus
    <3>2. LiveRow = NULL /\ LiveRow' = c
      BY <2>2, <3>1, LiveRowIs
    <3>3. closing' = FALSE /\ closing = FALSE
      BY <2>2, <3>1 DEF Active
    <3>4. archive' = archive /\ c \notin archive
      BY <2>1, <2>2
    <3>5. Lifecycle!Open(c)
      BY <3>2, <3>3, <3>4 DEF Lifecycle!Open
    <3> QED
      BY <3>5 DEF Lifecycle!Next
  <2>3. CASE db.conv[c].status = "OPEN" /\ db'.conv[c].status = "CLOSING"
    <3>1. Active(db) = {c} /\ Active(db') = {c}
      BY <1>0, <2>1, <2>3 DEF OneActive, Active, ActiveStatus
    <3>2. LiveRow = c /\ LiveRow' = c
      BY <3>1, LiveRowIs
    <3>3. closing' = TRUE
      BY <2>3, <3>1 DEF Active
    <3>4. archive' = archive
      BY <2>1, <2>3
    <3>5. Lifecycle!BeginClosing
      BY <1>0, <3>2, <3>3, <3>4 DEF Lifecycle!BeginClosing
    <3> QED
      BY <3>5 DEF Lifecycle!Next
  <2>4. CASE db.conv[c].status = "CLOSING" /\ db'.conv[c].status = "OPEN"
    <3>1. Active(db) = {c} /\ Active(db') = {c}
      BY <1>0, <2>1, <2>4 DEF OneActive, Active, ActiveStatus
    <3>2. LiveRow = c /\ LiveRow' = c
      BY <3>1, LiveRowIs
    <3>3. closing' = FALSE
      BY <2>4, <3>1 DEF Active
    <3>4. archive' = archive
      BY <2>1, <2>4
    <3>5. Lifecycle!AbandonClosing
      BY <3>2, <3>3, <3>4 DEF Lifecycle!AbandonClosing
    <3> QED
      BY <3>5 DEF Lifecycle!Next
  <2>5. CASE db.conv[c].status = "CLOSING" /\ db'.conv[c].status = "COMPLETED"
    <3>1. Active(db) = {c} /\ Active(db') = {}
      BY <1>0, <2>1, <2>5 DEF OneActive, Active, ActiveStatus
    <3>2. LiveRow = c /\ LiveRow' = NULL
      BY <3>1, LiveRowIs
    <3>3. closing' = FALSE /\ closing
      BY <2>5, <3>1 DEF Active
    <3>4. archive' = archive \cup {c}
      BY <2>1, <2>5
    <3>5. Lifecycle!Complete
      BY <3>2, <3>3, <3>4 DEF Lifecycle!Complete
    <3> QED
      BY <3>5 DEF Lifecycle!Next
  <2>6. CASE c \in Active(db) /\ db'.conv[c].status = "ABSENT"
    <3>1. Active(db) = {c} /\ Active(db') = {}
      BY <1>0, <2>1, <2>6 DEF OneActive, Active, ActiveStatus
    <3>2. LiveRow = c /\ LiveRow' = NULL
      BY <3>1, LiveRowIs
    <3>3. closing' = FALSE
      BY <2>6, <3>1 DEF Active
    <3>4. archive' = archive
      BY <2>1, <2>6 DEF Active, ActiveStatus
    <3>5. Lifecycle!Discard
      BY <1>0, <3>2, <3>3, <3>4 DEF Lifecycle!Discard
    <3> QED
      BY <3>5 DEF Lifecycle!Next
  <2>7. CASE c \notin Active(db) /\ db'.conv[c].status = "ABSENT"
    <3>1. Active(db') = Active(db)
      BY <2>1, <2>7 DEF Active, ActiveStatus
    <3>2. LiveRow' = LiveRow
      BY <3>1, LiveRowIs
    <3>3. closing' = closing
      BY <1>2, <2>7, <3>1 DEF Active
    <3>4. archive' = archive \ {c}
      BY <2>1, <2>7
    <3>5. Lifecycle!DeleteRecord(c)
      BY <3>2, <3>3, <3>4 DEF Lifecycle!DeleteRecord
    <3> QED
      BY <3>5 DEF Lifecycle!Next
  <2> QED
    BY <1>2, <2>2, <2>3, <2>4, <2>5, <2>6, <2>7 DEF RowStep
<1> QED
  BY <1>0, <1>1, <1>2, OneRowAtATime

\* Whatever else an operation of the store writes, for the conversations it
\* is a step of ConversationLifecycle.
THEOREM StoreImplementsLifecycle == Spec => ImplementsLifecycle
<1>1. Init => Lifecycle!Init
  <2> SUFFICES ASSUME Init PROVE Lifecycle!Init
    OBVIOUS
  <2>1. \A c \in Convs : db.conv[c].status = "ABSENT"
    BY DEF Init, FreshDatabase, Absent
  <2>2. Active(db) = {}
    BY <2>1 DEF Active, ActiveStatus
  <2> QED
    BY <2>1, <2>2 DEF Lifecycle!Init, LiveRow
<1> QED
  BY <1>1, StepsOfLifecycle, StoreCoherent, PTL
     DEF Spec, ImplementsLifecycle, Lifecycle!Spec

=============================================================================
