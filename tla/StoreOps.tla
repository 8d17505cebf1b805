------------------------------ MODULE StoreOps ------------------------------
(***************************************************************************)
(* The operations of StateStore (store.py) as functions of the database:   *)
(* each takes the durable state of one SQLite file and returns the state   *)
(* its transaction commits.  A database is a record with the singleton     *)
(* row of application_state and the table conversations, a function from   *)
(* conversation ids to rows ("ABSENT" where the table has no such row).    *)
(* Timestamps are natural numbers.  Texts, token counts and the columns    *)
(* nothing reads back (updated_at, question_message_id) are left out; of   *)
(* session_card only its presence is kept.                                 *)
(***************************************************************************)
EXTENDS Integers

CONSTANTS
  Convs,            \* conversation ids (uuid4().hex)
  Channels,         \* Discord channel and thread ids
  Intervals,        \* interval_seconds values the commands may set
  DefaultInterval,  \* default_interval_seconds of the configuration
  Sessions,         \* Pi session files
  NULL              \* SQL NULL / Python None

ASSUME IntervalAssumption ==
  /\ Intervals \subseteq Nat \ {0}
  /\ DefaultInterval \in Intervals

ASSUME NullAssumption ==
  /\ NULL \notin Int
  /\ NULL \notin Channels \cup Convs \cup Sessions

ErrorKinds == {"agent", "infrastructure"}

ActiveStatus == {"OPEN", "CLOSING"}

Row == [status    : ActiveStatus \cup {"ABSENT", "COMPLETED"},
        channel   : Channels \cup {NULL},
        card      : BOOLEAN,
        startedAt : Nat]

Absent == [status |-> "ABSENT", channel |-> NULL, card |-> FALSE, startedAt |-> 0]

Database == [status   : {"WAITING", "PAUSED"},
             interval : Intervals,
             nextAt   : Nat \cup {NULL},
             errKind  : ErrorKinds \cup {NULL},
             session  : Sessions \cup {NULL},
             conv     : [Convs -> Row]]

\* What initialize leaves in a new file: WAITING, but with nothing planned.
FreshDatabase == [status |-> "WAITING", interval |-> DefaultInterval,
                  nextAt |-> NULL, errKind |-> NULL, session |-> NULL,
                  conv |-> [c \in Convs |-> Absent]]

-----------------------------------------------------------------------------
(* Queries. *)

Rows(db) == {c \in Convs : db.conv[c].status # "ABSENT"}

Active(db) == {c \in Convs : db.conv[c].status \in ActiveStatus}

\* ORDER BY started_at DESC LIMIT 1: with equal timestamps SQLite may return
\* any of the newest rows, so a query returns a set of candidates.
Newest(db, ids) ==
  {c \in ids : \A d \in ids : db.conv[d].startedAt <= db.conv[c].startedAt}

ActiveConversation(db) == Newest(db, Active(db))

LatestInChannel(db, ch) ==
  Newest(db, {c \in Rows(db) : db.conv[c].channel = ch})

\* The next due time every operation that restarts the interval computes.
DueAfter(db, interval, now) ==
  IF db.status = "WAITING" THEN now + interval ELSE NULL

-----------------------------------------------------------------------------
(* Transactions.  Can... is the condition under which the statement        *)
(* succeeds; otherwise the operation raises and rolls back.                *)

\* Mutant: the unique index is missing.
CanStartTwice(db, c) == db.conv[c].status = "ABSENT"

\* The primary key and the unique index one_active_conversation.
CanStart(db, c) == db.conv[c].status = "ABSENT" /\ Active(db) = {}

Start(db, c, ch, now) ==
  [db EXCEPT !.conv[c] = [status |-> "OPEN", channel |-> ch,
                          card |-> FALSE, startedAt |-> now]]

\* Mutant: the row's status is not checked.
CanMarkAnyClosing(db, c) == db.conv[c].status # "ABSENT"

CanMarkClosing(db, c) == db.conv[c].status = "OPEN"

\* Mutant: the row is completed before the card is delivered.
MarkCompleted(db, c) == [db EXCEPT !.conv[c].status = "COMPLETED"]

MarkClosing(db, c) == [db EXCEPT !.conv[c].status = "CLOSING"]

\* Mutant: UPDATE without AND status = 'CLOSING'.
ReopenAny(db, c) ==
  IF CanMarkAnyClosing(db, c) THEN [db EXCEPT !.conv[c].status = "OPEN"] ELSE db

\* UPDATE ... WHERE status = 'CLOSING': touches nothing otherwise.
Reopen(db, c) ==
  IF db.conv[c].status = "CLOSING"
  THEN [db EXCEPT !.conv[c].status = "OPEN"]
  ELSE db

CanComplete(db, c) == db.conv[c].status = "CLOSING"

\* Mutant: the session card is not stored.
CompleteWithoutCard(db, c, now) ==
  [db EXCEPT !.conv[c].status = "COMPLETED",
             !.nextAt = DueAfter(db, db.interval, now)]

Complete(db, c, now) ==
  [db EXCEPT !.conv[c].status = "COMPLETED",
             !.conv[c].card = TRUE,
             !.nextAt = DueAfter(db, db.interval, now)]

CanDelete(db, c) == db.conv[c].status # "ABSENT"

\* Mutants: the interval is not restarted; the row is only marked.
DeleteKeepingPlan(db, c, now) == [db EXCEPT !.conv[c] = Absent]
DeleteSoftly(db, c, now) == [db EXCEPT !.conv[c].status = "DELETED"]

\* Discarding an active conversation restarts the interval; deleting a
\* completed record leaves the plan alone.
Delete(db, c, now) ==
  [db EXCEPT !.conv[c] = Absent,
             !.nextAt = IF c \in Active(db)
                        THEN DueAfter(db, db.interval, now)
                        ELSE @]

\* Mutant: the due time survives the pause.
PauseKeepingPlan(db) == [db EXCEPT !.status = "PAUSED"]

Pause(db) == [db EXCEPT !.status = "PAUSED", !.nextAt = NULL]

Resume(db, now) ==
  [db EXCEPT !.status = "WAITING", !.nextAt = now + db.interval]

\* While a conversation is active the plan is cleared, not moved.
SetInterval(db, i, now) ==
  [db EXCEPT !.interval = i,
             !.nextAt = IF Active(db) = {} THEN DueAfter(db, i, now) ELSE NULL]

RecordSuccess(db, session) ==
  [db EXCEPT !.session = session, !.errKind = NULL]

RecordError(db, kind) == [db EXCEPT !.errKind = kind]

\* record_agent_error(..., pause_automation=True)
RecordPausingError(db, kind) ==
  [db EXCEPT !.errKind = kind, !.status = "PAUSED", !.nextAt = NULL]

-----------------------------------------------------------------------------
(* What must hold of a database between any two operations. *)

\* At most one conversation is OPEN or CLOSING.
OneActive(db) == \A c, d \in Active(db) : c = d

\* A paused application has nothing planned.
NoDueWhilePaused(db) == db.status = "PAUSED" => db.nextAt = NULL

\* Nothing is planned further away than one interval from now, whatever
\* order the interval was changed and the conversations closed in.
DueWithinOneInterval(db, now) ==
  db.nextAt # NULL => db.nextAt <= now + db.interval

\* Exactly the completed conversations have a session card.
CardIffCompleted(db) ==
  \A c \in Convs : db.conv[c].card <=> db.conv[c].status = "COMPLETED"

\* The four of them with the type: what every operation above preserves.
StoreInv(db, now) ==
  /\ db \in Database
  /\ OneActive(db)
  /\ NoDueWhilePaused(db)
  /\ DueWithinOneInterval(db, now)
  /\ CardIffCompleted(db)

=============================================================================
