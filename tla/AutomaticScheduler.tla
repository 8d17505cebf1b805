------------------------- MODULE AutomaticScheduler -------------------------
(***************************************************************************)
(* AutomaticScheduler.tick (scheduler.py) under the loop that calls it     *)
(* (hub_adapter.py, run_scheduler), with the store and the gate it reads.  *)
(*                                                                         *)
(* One unit of time is the 60 seconds between two ticks, also the first    *)
(* backoff.  Timestamps are kept relative to the present, so that time     *)
(* needs no bound: the operations of StoreOps run at time 0, and           *)
(* TimePasses moves everything planned one unit closer.  A timestamp that  *)
(* has passed stays 0: the code only asks whether it has.                  *)
(***************************************************************************)
EXTENDS StoreOps

CONSTANTS
  BackoffCap,    \* the longest internal backoff (60 minutes)
  RetryAfters,   \* Retry-After values a provider may send
  Horizon,       \* the longest delay datetime can add to the present
  MaxKickoff,    \* bound on the time a kickoff takes: its requests time out
  MaxFailures,   \* bound on the failures counted: more back off no longer
  LongestWait    \* bound on the time since the plan was made anew

ASSUME SchedulerAssumption ==
  /\ BackoffCap \in Nat \ {0}
  /\ RetryAfters \subseteq Nat
  /\ Horizon \in Nat /\ Horizon >= BackoffCap
  /\ MaxKickoff \in Nat
  /\ MaxFailures \in Nat \ {0} /\ 2^(MaxFailures - 1) >= BackoffCap
  /\ LongestWait \in Nat /\ \A i \in Intervals : i <= LongestWait
  /\ NULL \notin {"scheduler", "other"}

VARIABLES
  db,        \* the store the scheduler reads
  gate,      \* who holds the lease: "scheduler", "other" or NULL
  pc,        \* where the loop is
  failure,   \* the exception on its way from the kickoff to the tick
  elapsed,   \* time since the now the tick was called with
  failures,  \* _consecutive_failures
  retry,     \* time until _retry_at, or NULL
  settled,   \* history: time since the plan was last made anew
  sinceTick, \* history: time since the tick of the last failed attempt
  embargo,   \* history: time until the last Retry-After is over
  verdict    \* history: the last failure left automation on ("none"), or it
             \* "paused" it, or the user has "resumed" it since

schedulerVars == <<pc, failure, elapsed, failures, retry>>
history == <<settled, sinceTick, embargo, verdict>>
vars == <<db, gate, schedulerVars, history>>

Lower(x, y) == IF x < y THEN x ELSE y
Higher(x, y) == IF x < y THEN y ELSE x

\* AgentRequestFailed carries a class and perhaps a Retry-After; any other
\* exception carries none.
Failures == [kind : {"fatal", "transient"}, retryAfter : RetryAfters \cup {NULL}]
            \cup [kind : {"other"}, retryAfter : {NULL}]

Init ==
  /\ db = FreshDatabase
  /\ gate = NULL
  /\ pc = "awake"
  /\ failure = NULL
  /\ elapsed = 0
  /\ failures = 0
  /\ retry = NULL
  /\ settled = LongestWait
  /\ sinceTick = BackoffCap
  /\ embargo = 0
  /\ verdict = "none"

-----------------------------------------------------------------------------
(* The tick. *)

Due(d) == d.status = "WAITING" /\ d.nextAt # NULL /\ d.nextAt <= 0

\* Mutant: a failure is never forgotten.
BackingOffForever == retry # NULL

BackingOff == retry # NULL /\ retry > 0

\* Mutant: the backoff is not looked at.
EligibleAtOnce == Due(db) /\ Active(db) = {}

\* _eligibility_result returns None.
Eligible == Due(db) /\ Active(db) = {} /\ ~BackingOff

\* Mutant: the cap is missing.
BackoffUncapped(n) == 2^(n - 1)

Backoff(n) == Lower(2^(n - 1), BackoffCap)

\* Mutant: the cap applies to the Retry-After too.
DelayCapped(n, after) ==
  IF after = NULL THEN Backoff(n) ELSE Lower(Higher(Backoff(n), after), BackoffCap)

Delay(n, after) == IF after = NULL THEN Backoff(n) ELSE Higher(Backoff(n), after)

\* The tick returns or raises; the loop sleeps, and the lease is released.
Sleep ==
  /\ pc' = "asleep"
  /\ failure' = NULL
  /\ elapsed' = 0

\* Nothing to do, or BUSY: the tick never waits for the gate.
TickSkips ==
  /\ pc = "awake"
  /\ ~Eligible \/ gate # NULL
  /\ Sleep
  /\ UNCHANGED <<db, gate, failures, retry, history>>

\* The second check, under the lease, sees what the first saw: no await lies
\* between them.
TickAttempts ==
  /\ pc = "awake"
  /\ Eligible
  /\ gate = NULL
  /\ gate' = "scheduler"
  /\ pc' = "kickoff"
  /\ UNCHANGED <<db, failure, elapsed, failures, retry, history>>

KickoffSucceeds(c, ch, s) ==
  /\ pc = "kickoff"
  /\ CanStart(db, c)
  /\ db' = Start(RecordSuccess(db, s), c, ch, 0)
  /\ gate' = NULL
  /\ failures' = 0
  /\ retry' = NULL
  /\ Sleep
  /\ UNCHANGED history

\* What a failed kickoff leaves in the store.  An answer Pi gave has been
\* recorded; an exception the application does not know, and a thread that
\* was not created, record no error.
Recorded(d, f) ==
  CASE f.kind = "fatal"     -> {RecordPausingError(d, "agent")}
    [] f.kind = "transient" -> {RecordError(d, "agent")}
    [] f.kind = "other"     ->
         LET answered == {d} \cup {RecordSuccess(d, s) : s \in Sessions}
         IN  answered \cup {RecordError(e, "infrastructure") : e \in answered}

\* The kickoff fails; the thread is deleted before the exception reaches the
\* tick.
KickoffFails(f) ==
  /\ pc = "kickoff"
  /\ db' \in Recorded(db, f)
  /\ pc' = "cleanup"
  /\ failure' = f
  /\ embargo' = IF f.retryAfter = NULL THEN 0 ELSE f.retryAfter
  /\ verdict' = IF f.kind = "fatal" THEN "paused" ELSE "none"
  /\ UNCHANGED <<gate, elapsed, failures, retry, settled, sinceTick>>

\* Mutant: the lease is released before the notification.
TickPausesAndReleases ==
  /\ pc = "cleanup" /\ failure.kind = "fatal"
  /\ failures' = 0 /\ retry' = NULL
  /\ pc' = "notifying"
  /\ gate' = NULL
  /\ UNCHANGED <<db, failure, elapsed, history>>

\* A billing or authentication failure: automation is paused and a Retry-After
\* discarded; the notification is posted under the lease.
TickPauses ==
  /\ pc = "cleanup"
  /\ failure.kind = "fatal"
  /\ failures' = 0
  /\ retry' = NULL
  /\ pc' = "notifying"
  /\ UNCHANGED <<db, gate, failure, elapsed, history>>

\* _record_failure: both delays count from the tick's now.  A Retry-After too
\* long for a datetime raises OverflowError after the failure was counted.
TickFails ==
  LET n == Lower(failures + 1, MaxFailures)
      delay == Delay(n, failure.retryAfter)
  IN
  /\ pc = "cleanup"
  /\ failure.kind # "fatal"
  /\ failures' = n
  /\ retry' = IF delay > Horizon THEN retry ELSE Higher(delay - elapsed, 0)
  /\ gate' = NULL
  /\ sinceTick' = Lower(elapsed, BackoffCap)
  /\ Sleep
  /\ UNCHANGED <<db, settled, embargo, verdict>>

\* Best effort: delivered or not, the tick is over.
NotificationEnds ==
  /\ pc = "notifying"
  /\ gate' = NULL
  /\ Sleep
  /\ UNCHANGED <<db, failures, retry, history>>

-----------------------------------------------------------------------------
(* Everything else that holds the gate or writes the plan. *)

Settled(d) == settled' = IF d.nextAt # NULL /\ Active(d) = {} THEN 0 ELSE settled

OtherClaims ==
  /\ gate = NULL
  /\ gate' = "other"
  /\ UNCHANGED <<db, schedulerVars, history>>

\* A manual start, a closure, a reply or a test, successful or not.
OtherEnds ==
  /\ gate = "other"
  /\ gate' = NULL
  /\ \/ /\ \/ \E c \in Convs, ch \in Channels : CanStart(db, c) /\ db' = Start(db, c, ch, 0)
           \/ db' = RecordError(db, "agent")
           \/ db' = RecordPausingError(db, "agent")
        /\ UNCHANGED settled
     \/ \E c \in Active(db) :
          /\ db' = Complete(MarkClosing(db, c), c, 0)
          /\ Settled(db')
  /\ UNCHANGED <<schedulerVars, sinceTick, embargo, verdict>>

\* /delete-session holds the gate for no longer than this step.
Discard(c) ==
  /\ gate = NULL
  /\ CanDelete(db, c)
  /\ db' = Delete(db, c, 0)
  /\ IF c \in Active(db) THEN Settled(db') ELSE UNCHANGED settled
  /\ UNCHANGED <<gate, schedulerVars, sinceTick, embargo, verdict>>

\* /pause, /resume, /interval and /test-interval take no lease.
PlanCommand ==
  /\ \/ /\ db' = Resume(db, 0)
        /\ verdict' = IF verdict = "paused" THEN "resumed" ELSE verdict
     \/ /\ db' \in {Pause(db)} \cup {SetInterval(db, i, 0) : i \in Intervals}
        /\ UNCHANGED verdict
  /\ Settled(db')
  /\ UNCHANGED <<gate, schedulerVars, sinceTick, embargo>>

\* Backoff lives in memory only: the startup tick attempts what is overdue.
Restart ==
  /\ gate' = NULL
  /\ pc' = "awake"
  /\ failure' = NULL
  /\ elapsed' = 0
  /\ failures' = 0
  /\ retry' = NULL
  /\ embargo' = 0
  /\ UNCHANGED <<db, settled, sinceTick, verdict>>

Closer(t) == IF t = NULL THEN NULL ELSE Higher(t - 1, 0)

TimePasses ==
  /\ pc \in {"kickoff", "cleanup"} => elapsed < MaxKickoff
  /\ db' = [db EXCEPT !.nextAt = Closer(@)]
  /\ retry' = Closer(retry)
  /\ pc' = IF pc = "asleep" THEN "awake" ELSE pc
  /\ elapsed' = IF pc \in {"kickoff", "cleanup"} THEN elapsed + 1 ELSE elapsed
  /\ settled' = Lower(settled + 1, LongestWait)
  /\ sinceTick' = Lower(sinceTick + 1, BackoffCap)
  /\ embargo' = Closer(embargo)
  /\ UNCHANGED <<gate, failure, failures, verdict>>

Tick ==
  \/ TickSkips \/ TickAttempts
  \/ \E c \in Convs, ch \in Channels, s \in Sessions : KickoffSucceeds(c, ch, s)
  \/ \E f \in Failures : KickoffFails(f)
  \/ TickPauses \/ TickFails \/ NotificationEnds

Next ==
  \/ Tick
  \/ OtherClaims \/ OtherEnds
  \/ \E c \in Convs : Discard(c)
  \/ PlanCommand
  \/ Restart
  \/ TimePasses

Spec == Init /\ [][Next]_vars

\* The loop calls tick again and again, what it awaits has a timeout, and
\* time does not stop.
FairSpec == Spec /\ WF_vars(Tick) /\ WF_vars(TimePasses)

-----------------------------------------------------------------------------
(* Properties. *)

\* Types; and no wait is longer than the cap or than what a provider asked
\* for, however many failures were counted.
TypeOK ==
  /\ db \in Database
  /\ gate \in {"scheduler", "other", NULL}
  /\ pc \in {"asleep", "awake", "kickoff", "cleanup", "notifying"}
  /\ failure \in Failures \cup {NULL}
  /\ elapsed \in 0..MaxKickoff
  /\ failures \in 0..MaxFailures
  /\ retry \in Nat \cup {NULL}
  /\ retry # NULL => retry <= BackoffCap \/ \E r \in RetryAfters : retry <= r
  /\ settled \in 0..LongestWait
  /\ sinceTick \in 0..BackoffCap
  /\ embargo \in Nat
  /\ verdict \in {"none", "paused", "resumed"}

Attempt == pc = "awake" /\ pc' = "kickoff"

\* An automatic attempt begins no sooner than one interval after the plan was
\* last made anew: by a closure, a discard, /resume or a new interval.  The
\* start of a conversation leaves the old due time behind; it never leads to
\* a second activation when that conversation is over.
AttemptWaitsForInterval == [][Attempt => settled >= db.interval]_vars

\* After n failures in a row, the next attempt begins no sooner than the n-th
\* backoff after the one before.
RetriesBackOff ==
  [][Attempt /\ failures > 0 => sinceTick >= Backoff(failures)]_vars

\* No attempt begins before the last Retry-After is over, counted from the
\* failure that brought it, unless that failure paused automation and the
\* user has resumed it.
RetryAfterHonored == [][Attempt => embargo = 0 \/ verdict = "resumed"]_vars

\* What the code does keep.  After a billing or authentication failure no
\* attempt begins until /resume, also after a restart; its Retry-After is
\* discarded, so that nothing is promised of it afterwards.  The Retry-After of
\* any other failure, also one above the cap, is cut short by no more than the
\* time the failed kickoff took.
RetryAfterNearlyHonored ==
  [][Attempt => CASE verdict = "none"    -> embargo <= MaxKickoff
                  [] verdict = "paused"  -> FALSE
                  [] verdict = "resumed" -> TRUE]_vars

\* The scheduler holds the lease from its attempt to the end of the cleanup
\* and of the notification, whichever way the kickoff ends, and while the
\* kickoff is under way no conversation is started by someone else.
KickoffRunsAlone ==
  /\ pc \in {"kickoff", "cleanup", "notifying"} <=> gate = "scheduler"
  /\ pc \in {"kickoff", "cleanup"} => Active(db) = {}

\* What is overdue is attempted, or stops being overdue, unless others go on
\* taking the gate: a tick that finds it taken is lost.
Overdue == Due(db) /\ Active(db) = {}

OverdueIsAttempted ==
  <>[](gate # "other") => (Overdue ~> (pc = "kickoff" \/ ~Overdue))

=============================================================================
