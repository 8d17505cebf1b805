----------------------------- MODULE StateStore -----------------------------
(***************************************************************************)
(* The store on its own (store.py): one SQLite file, and every public      *)
(* operation of StateStore called in any order with any arguments, each a  *)
(* transaction that commits or raises and changes nothing.  Time passes    *)
(* between operations; the clock never runs backwards.                     *)
(***************************************************************************)
EXTENDS StoreOps

CONSTANT MaxTime  \* bound on the clock

ASSUME TimeAssumption == MaxTime \in Nat

VARIABLES db, clock

vars == <<db, clock>>

Init ==
  /\ db = FreshDatabase
  /\ clock = 0

-----------------------------------------------------------------------------
StartConversation(c, ch) ==
  /\ CanStart(db, c)
  /\ db' = Start(db, c, ch, clock)
  /\ UNCHANGED clock

MarkConversationClosing(c) ==
  /\ CanMarkClosing(db, c)
  /\ db' = MarkClosing(db, c)
  /\ UNCHANGED clock

ReopenConversation(c) ==
  /\ db' = Reopen(db, c)
  /\ UNCHANGED clock

CompleteConversation(c) ==
  /\ CanComplete(db, c)
  /\ db' = Complete(db, c, clock)
  /\ UNCHANGED clock

DeleteConversation(c) ==
  /\ CanDelete(db, c)
  /\ db' = Delete(db, c, clock)
  /\ UNCHANGED clock

PauseApplication ==
  /\ db' = Pause(db)
  /\ UNCHANGED clock

ResumeApplication ==
  /\ db' = Resume(db, clock)
  /\ UNCHANGED clock

SetIntervalSeconds(i) ==
  /\ db' = SetInterval(db, i, clock)
  /\ UNCHANGED clock

RecordAgentSuccess(s) ==
  /\ db' = RecordSuccess(db, s)
  /\ UNCHANGED clock

RecordAgentError(kind) ==
  /\ \/ db' = RecordError(db, kind)
     \/ db' = RecordPausingError(db, kind)
  /\ UNCHANGED clock

TimePasses ==
  /\ clock < MaxTime
  /\ clock' = clock + 1
  /\ UNCHANGED db

Next ==
  \/ \E c \in Convs :
       \/ \E ch \in Channels : StartConversation(c, ch)
       \/ MarkConversationClosing(c)
       \/ ReopenConversation(c)
       \/ CompleteConversation(c)
       \/ DeleteConversation(c)
  \/ PauseApplication
  \/ ResumeApplication
  \/ \E i \in Intervals : SetIntervalSeconds(i)
  \/ \E s \in Sessions : RecordAgentSuccess(s)
  \/ \E kind \in ErrorKinds : RecordAgentError(kind)
  \/ TimePasses

Spec == Init /\ [][Next]_vars

-----------------------------------------------------------------------------
(* Properties. *)

\* The database and the clock have their types.
TypeOK ==
  /\ db \in Database
  /\ clock \in 0..MaxTime

\* The unique index and the guards of start_conversation together: no order
\* of starts, closings, reopenings and deletions leaves two live rows.
OneActiveConversation == OneActive(db)

\* The plan (status, interval_seconds, next_question_at) stays coherent
\* although seven operations write parts of it: PAUSED has no due time, and
\* a due time never lies more than the current interval ahead.
CoherentPlan ==
  /\ NoDueWhilePaused(db)
  /\ DueWithinOneInterval(db, clock)

\* A card exists exactly for completed conversations.
CardsMatchStatus == CardIffCompleted(db)

\* A row moves only along ABSENT -> OPEN <-> CLOSING -> COMPLETED or is
\* deleted; a completed record is never reopened or rewritten.
RowsMoveForward ==
  [][\A c \in Convs :
       db'.conv[c] # db.conv[c] =>
         <<db.conv[c].status, db'.conv[c].status>> \in
           ({"OPEN", "CLOSING", "COMPLETED"} \X {"ABSENT"})
           \cup {<<"ABSENT", "OPEN">>, <<"OPEN", "CLOSING">>,
                 <<"CLOSING", "OPEN">>, <<"CLOSING", "COMPLETED">>}]_vars

\* When the last live conversation goes away, by /done or by discarding it,
\* the next activation is one interval from that moment, or unplanned if the
\* application was paused meanwhile: a stale due time never survives it.
IntervalRestartsOnClosure ==
  [][Active(db) # {} /\ Active(db)' = {} =>
       db'.nextAt = DueAfter(db, db.interval, clock)]_vars

\* The database implements the lifecycle of conversations: every operation is
\* one of its steps, whichever rows and plan it also touches.
LiveRow == IF Active(db) = {} THEN NULL ELSE CHOOSE c \in Active(db) : TRUE

Lifecycle == INSTANCE ConversationLifecycle WITH
  live    <- LiveRow,
  closing <- \E c \in Active(db) : db.conv[c].status = "CLOSING",
  archive <- {c \in Convs : db.conv[c].status = "COMPLETED"}

ImplementsLifecycle == Lifecycle!Spec

=============================================================================
