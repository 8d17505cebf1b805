# Verification of Socratic Partner

Socratic Partner is one asyncio process. It asks one Discord user a Socratic
question, on command or on a timer, keeps the conversation that follows in one
thread, and closes it with a session card. It talks to two other processes: Pi
(the model runtime, a subprocess driven over stdin and stdout) and discord-hub
(an HTTP service that posts to Discord and calls back). Its only durable state
is one SQLite file, or two with the test data store.

Nothing runs in parallel inside the process, so code between two awaits is
atomic; what is hard is what other tasks do during an await, what is left when
one of several steps fails, and what a restart finds.

## The system

| Component | State | Operations | Talks to |
|---|---|---|---|
| `StateStore` (store.py) | the row `application_state` (status, interval, due time, last error, Pi session) and the table `conversations` | start, mark closing, reopen, complete, delete; pause, resume, set interval; record success and error; migrations | SQLite |
| `OperationGate` (operation_gate.py) | the current lease | try_acquire, is_current, release | - |
| `SocraticApplication` (application.py) | none of its own | start, start under a claimed lease, reply, complete, discard | store, gate, Pi, messenger |
| `AutomaticScheduler` (scheduler.py) | consecutive failures, retry_at | tick | store, gate, kickoff and notification of the adapter |
| `SocraticHubAdapter` (hub_adapter.py) | which data store is current, tasks | slash commands, messages, kickoff, thread creation and cleanup, registration | application, scheduler, hub, Pi |
| `PiRpcClient` (pi_rpc.py) | subprocess, pending requests, event queue, session file | start, close, new_session, prompt, set_model, list models | Pi |
| `HubClient` (hub_client.py) | an HTTP client | one request per method | discord-hub |
| error classification (errors.py) | none | text to class and Retry-After | - |
| service (main.py, callback_server.py) | the task group | start, stop, callbacks | all of them |
| configuration, prompts | constants | - | - |

How they interact: the hub calls back, the adapter starts a task per command or
message, the task calls the application, and the application takes the gate
without waiting, reads and writes the store and awaits Pi and the hub in
between. The scheduler's loop ticks every 60 seconds, takes the same gate first
and then has the adapter create a thread and start a conversation under its
lease. `/testing` points adapter, application and scheduler at the other store.

What makes each part correct:

- store: one live conversation; a due time that is neither stale nor too far
  away, although seven operations write parts of the plan; completed records
  that stay as they are.
- gate: exclusive, never waited for, released on every path.
- application: what it read before an await holds when it writes after it; a
  failed start leaves no conversation, a failed closure an open one; a
  conversation stays in the Pi session it began in.
- adapter: the thread of a live conversation stays, the thread of a failed
  start goes; handlers end; the live data is not touched while testing.
- scheduler: attempts keep the interval and back off; what is overdue is
  attempted; a fatal failure pauses.
- Pi client: an answer belongs to the request and the run it answers, a failure
  passes, and every call ends although Pi may be silent.
- service: it serves only what is complete, whatever was interrupted before; no
  start replaces what a user wrote; it comes up again; it stops when asked to.

The hazards, each at its line and with the properties that address it, are
listed in PROJECT.json.

## The modules

| Module | Models | Used by |
|---|---|---|
| `StoreOps` | the transactions of the store as operators on a database | the next five |
| `StateStore` | the store alone, its operations in any order | `MCStateStore`, `StateStoreProofs` |
| `ConversationLifecycle` | abstract: what is promised about conversations | refined by `StateStore`, `SocraticApplication` and `HubAdapter` |
| `SocraticApplication` | application and gate, callers interleaved at awaits, faults, restarts | `MCSocraticApplication`, `HubAdapter` |
| `HubAdapter` | commands, messages, threads, kickoff, `/testing` on top of it | `MCHubAdapter` |
| `AutomaticScheduler` | tick, backoff and loop against a store and a gate used by others | `MCAutomaticScheduler` |
| `PiRpcClient` | calls, processes, readers, pending requests and events of the Pi client | `MCPiRpcClient` |
| `StoreMigration` | `initialize`: each statement of each migration | `ServiceLifecycle` |
| `ServiceLifecycle` | startup, registration, task group and stop, on top of it | `MCServiceLifecycle` |
| `StoreOpsProofs`, `StateStoreProofs` | the transactions and the store | each other and the following |
| `AutomaticSchedulerProofs` | the scheduler | - |
| `SocraticApplicationProofs` | what the segments of the application's handlers may leave, and the invariant of the application | the next |
| `ApplicationOutcomeProofs` | failed starts and closures, sessions, escaping exceptions, the refinement; what the application's steps do to channels and to the calls of others | the next |
| `HubAdapterProofs` | threads, the lease of tasks, the kickoff, failed starts, sessions, the refinement, what `/testing` isolates | - |
| `PiRpcClientProofs` | the Pi client | - |
| `ServiceLifecycleProofs` | the migrations and the startup | - |

### StoreOps and StateStore

A database is a record: the singleton row's status, interval, due time, error
kind and session, and a function from conversation ids to rows. An operator per
transaction (`Start`, `Complete`, ...) with the condition under which the
statement succeeds (`CanStart`, ...): the unique index `one_active_conversation`
is the condition of `CanStart`, the row counts the code checks are those of
`CanMarkClosing` and `CanComplete`. Texts, token counts and columns that nothing
reads back are left out. `ORDER BY started_at DESC LIMIT 1` is a set of
candidates, since equal timestamps leave the choice to SQLite.

`StateStore` calls them in any order with any arguments.

### SocraticApplication

Each action is a segment between two awaits. Within a segment several store
calls may each raise, so a segment is written as the set of its results
(database left behind, exception raised), composed with `AndThen` and `OrElse`
in the order of the code: that is how the three exception handlers of a closure,
which record and reopen in different orders and may fail themselves, are kept.
A store call fails with its transaction rolled back (`"fail"`) or, for the calls
that read the row back after the commit, with the transaction carried out
(`"late"`). Pi fails with an error that is retried (`"transient"`), one that
pauses the application (`"fatal"`), or with an exception the application does
not list (`"broken"`). The hub fails before it posted (`"lost"`), after it
(`"ambiguous"`), or answers something the client cannot read (`"garbled"`): not
JSON, or a post without the id `send` needs.

`call[p]` says where the task `p` is suspended and, when its call is over, how it
ended. `gate` is the lease. `pi` holds the session Pi is in and the file the
client remembers; `PiRestart` loses the first, `Restart` both and everything in
memory. `posted` and `origin` are history.

`OutcomeAssumption` says that the outcomes of calls are not `NULL`.

### HubAdapter

Extends `SocraticApplication`: `task[p]` is the handler `p` runs, `threads` what
exists in Discord. While a handler awaits the application, `Served` lets the
application's own actions move it on. Callers are user tasks and the task of the
scheduler loop, whose `Tick` here has no backoff: leaving it out only allows more
attempts.

### AutomaticScheduler

The scheduler with a store and a gate that everything else uses: `OtherClaims` and
`OtherEnds` stand for whatever holds the gate, `Discard` and `PlanCommand` for
what does not keep it. Timestamps are relative to the present, so that time needs
no bound and a liveness property means something: `StoreOps` runs at time 0 and
`TimePasses` moves the due time, `retry` and the history closer. One unit is the
60 seconds of the loop. That a read of the store may raise in a tick is left out:
the tick then ends as a skipped one. Also left out is a kickoff whose
conversation was recorded although it failed (see the remarks after the findings).

A failed kickoff leaves in the store what `Recorded` says, and raises one of
`Failures`: fatal or transient, both with or without a Retry-After, or an exception
that is no `AgentRequestFailed`. `embargo` and `verdict` are history: how long the
last Retry-After still lasts, and whether the last failure paused automation and
`/resume` has undone it since.

### PiRpcClient

The lock lets one call run at a time: `call` is that call, with the requests it
still has to send, the future it waits for (`fate`) and what `_wait_until_settled`
has seen (`answer`). `Script` is the sequence of requests of each operation; a
request that finds no process starts one, whose `get_state` (`"boot"`) is put before
it. `proc[g]` is a process with its reader task and both its pipes: `state` is what
the process and asyncio's child watcher know, `reading` whether its reader is
running. A reader goes on after its process is gone or replaced, and resolves
`call.fate` and appends to `queue` as the code does, since `_pending` and `_events`
belong to the client. `Close` is one step, though `close` awaits the process and
the readers for up to fifteen seconds, since the call that closes holds the lock and
both are over when it returns; `ClosedByService` is the close of the adapter, which
takes no lock.

Pi is external: it answers in turn, refuses, runs one prompt at a time and writes
its message before `agent_settled`; besides it may be silent, write a line the
reader cannot take, or end. Malformed JSON, which the reader skips, is silence.

`fault` and `earlier` are history: whether something went wrong in the present and
the previous call. `overtaken` counts from the moment a process is started while
another is still being read.

### StoreMigration and ServiceLifecycle

`Migration` lists the statements of the four migrations. `connection.sees` is the
database the connection sees and `disk` what is committed: until the first INSERT
each statement is committed by itself, from then on all of them at the end, which
is what Python's sqlite3 module does. `Deployed` are the files each released schema
left behind, a new one and one of a newer program.

`ServiceLifecycle` composes this with `main.py` and `SocraticHubAdapter.start`. The
phase names the request being awaited. `hub` is what discord-hub has: whether it is
up (and connected to Discord, which `start` checks), the registration of the home
channel and the commands. A request fails
when the hub is not up, carried out or not. `server` and `loop` are the tasks of
the group. The harness starts a service that raised again, asks it to stop, and
cancels it after its timeout.

## The runs

| Run | Instance | Shows |
|---|---|---|
| `store` | 2 conversations, 2 channels, intervals 1 and 2, clock to 3 | one live conversation, coherent plan, immutable records, and the abstract lifecycle implemented |
| `application` | 2 callers, 2 conversations, 4 sessions, every fault, clock to 1 | the lease follows the calls; what was read before awaits holds after them; failed closures reopen; cards are posted before a conversation counts as completed; sessions are kept across failures and restarts; the lifecycle is implemented although a segment makes several store calls |
| `adapter` | a user task and the scheduler, 2 conversations, 2 threads, failing store, Pi, posts and thread requests | threads of live conversations stay; the kickoff's check holds across its awaits; failed starts leave nothing |
| `adapter_liveness` | the same with 1 conversation, 1 thread, fairness | handlers end and the gate comes free; threads of failed starts go |
| `concurrent_commands` | two user tasks, both data stores, swapped at any time, 2 conversations in each, 2 threads; `OnlyThreads` leaves out `/model`, `/ask-test` and commands that change the plan | with a conversation live in each store, two starts racing and a swap between the steps of either, threads of live conversations stay in both stores; a start that finds the gate taken or another conversation open deletes its thread |
| `scheduler` | intervals 1 and 2, cap 4, Retry-After 1 and 6, fairness | interval and backoff are kept, overdue plans are attempted, a fatal failure stops attempts until `/resume`, the Retry-After of any other is cut by no more than the kickoff took |
| `pi_client` | 2 processes, fairness of the calls only | an answer belongs to its run, a failure passes, a broken reader is noticed at once, every call ends |
| `service` | every deployed schema and registration, crash and stop anywhere, fairness | what serves is complete; no start replaces user data; the service comes up |
| `testing_isolation` | violation | see findings |
| `escaped_failure` | violation | see findings |
| `retry_after` | violation | see findings |
| `stop_request` | violation, under the fairness of `service` | see findings |

Why the bounds are enough. Two conversations give a live one beside a completed
one, which is what the queries and the unique index tell apart. A second caller
is what the gate is for; a third could only be refused as the second is. Four
sessions leave a fresh one for a start while the remembered one, Pi's and that of
the live conversation differ. The clock matters to the store, whose run lets the
longer interval elapse, and to the scheduler, which has no bound; elsewhere it
only makes the due time pass.

`concurrent_commands` is about swaps between the steps of user tasks. Two sessions,
two conversations and two threads are the least with which a conversation can be live
in each store while another start or a discard is under way. `RoomForStart` keeps a
conversation id for each start in flight, so two starts race in a store that has
none yet; with both threads in use, the hub refuses a third. Its clock stands still,
so nothing is due and the scheduler's task is idle (the kickoff beside a user task is
the `adapter` run's); a clock that moves, or the commands `OnlyThreads` leaves out,
exceed what can be checked in minutes. What is left out touches no thread: an action
constraint removes the steps, not parts of the state. The mutant of
`LiveConversationKeepsItsThread` in this run looks the thread up in the live store;
only with a conversation in each store does that matter.

Counters of the scheduler stop where the code no
longer tells values apart: `MaxFailures` reaches the cap, the history looks back
no further than the longest interval or backoff. `MaxKickoff` bounds how long a
kickoff takes, as its timeouts do. `MaxProcs = 2` is a process and its
successor, the case the shared queue is about; when two are still read, a start is
taken to fail. `MaxEvents` bounds the events that lie in the queue when Pi breaks
again: one is enough to end the run that finds it. `MaxAfter` bounds the calls after
a reader was overtaken, about which the safety properties say nothing: it keeps
those states finite and leaves `CallsEnd` one call in them. `ServiceLifecycle` needs
no bound.

The runs allow deadlock only where the system cannot stop: every specification
has actions (time, restarts, commands) that are always possible or whose end is
the bound of the model, and deadlock is checked in all of them.

### Fairness

- `FairAdapterSpec`: an await ends, since requests to Pi have `timeout_seconds` and
  those to the hub the HTTP client's timeout. A handler's steps are never blocked,
  since the gate is not waited for.
- `FairSpec` of `AutomaticScheduler`: the loop goes on and time passes. No
  fairness is assumed for taking the gate: a tick that finds it taken is lost,
  so `OverdueIsAttempted` has the premise that others stop holding it.
- `FairSpec` of `PiRpcClient`: the call goes on, by its timeout if nothing else.
  Nothing is assumed of Pi or of the readers.
- `FairSpec` of `ServiceLifecycle`: the tasks of the service go on, and the harness
  starts a failed service again. Nothing is assumed of the hub, of stops or of the
  process being started: `ServiceComesUp` has the premise that from some point on
  the hub stays up and nobody stops the service.

### Findings

- `testing_isolation`: `/testing` looks for an open conversation and not for an
  operation in flight. An `/ask-now` that waits for Pi writes the live store
  while the test store is in use. For the same reason an `/ask-test` in flight
  records its session in the other store. `LiveDataOfOldCalls` proves how far this
  goes: only a call of the live application that is already suspended writes there.
- `escaped_failure`: `/ask-now` deletes its thread only after the exceptions it
  lists; an `OSError` from Pi's pipe is not one of them. The automatic kickoff
  catches all. `ThreadLeftBehind` proves that nothing else leaves a thread behind, and
  `FailedStartThreadGone` that without such exceptions none is.
- `retry_after`: Retry-After counts from the start of the tick.
  `RetryAfterNearlyHonored` is what the code does keep. Neither speaks of the
  Retry-After of a fatal failure that the user has overruled by `/resume`.
- `stop_request`: the stop event of the adapter is set by `close`, which runs after
  the task group, which waits for the scheduler's loop. A requested stop ends only
  the server, until the harness cancels the group.

Met on the way and not stated as runs:

- A Retry-After beyond the range of `datetime` raises out of the tick with the
  failure counted and no retry time, so that the next ticks do not back off (set
  `RetryAfters` above `Horizon` and `RetriesBackOff` fails; the theorem
  `RetriesAreSpaced` has the premise that excludes it).
- The Retry-After of a billing or authentication failure is discarded with the rest of
  the backoff (errors.py:80,85; scheduler.py:80-87). Automation is paused instead; after
  `/resume` the next attempt comes one interval later, whatever the provider asked for.
- A start whose commit succeeded and whose read-back failed is reported as failed,
  and the adapter deletes the thread of the conversation that is open ("Best-effort
  cleanup for a thread whose conversation never became durable",
  hub_adapter.py:764). With `"late"` among the `StoreFaults` of `MCHubAdapter.cfg`,
  `FailedStartLeavesNothing` and `LiveConversationKeepsItsThread` fail;
  `FailedStartCorrect` has the premise that excludes it. A closure that failed to
  read back is reported to the user as still open.
- The reader of a Pi process that died may lag behind: its `process_exited` event
  may end the first run of the next process, which goes on in Pi, and the next
  prompt then gets that run's answer. `AnswerBelongsToRun` and `FailuresPass`, and the
  theorems about them, say nothing from there on (`overtaken > 0`); without this
  exemption TLC finds the case. It
  needs asyncio to see the exit code before the end of the output, by as much as the
  start of the next process.
- A migration that is interrupted before its version is written leaves the table or
  columns it has added, since nothing but an INSERT opens a transaction; the next
  start adds them again and `initialize` raises, from then on at every start.
  This is the premise `~Torn` of `ServiceComesUp`. The development workflow asks to
  "Define behavior if migration is interrupted" (docs/development-workflow.md:51).
- A model chosen with `/model` is lost when Pi is started again, although the
  command says it applies to any active conversation.

## The proofs

`StoreOpsProofs` proves that every transaction preserves `StoreInv`: type, one
live conversation, nothing due while paused, nothing due more than an interval
ahead, cards exactly for completed conversations. No part is inductive alone: the
guards need the type, and `OneActive` needs `CanStart`.

`StateStoreProofs` lifts it to the specification (`StoreCoherent`) for every set of
conversations, channels, intervals and sessions and every clock bound, and derives
`TypeOK`, `OneActiveConversation`, `CoherentPlan`, `CardsMatchStatus` and the
action property `IntervalRestartsOnClosure`. The lemma `OneRowAtATime` says what an
operation may do to the table: nothing, or one step in the life of one row. From it
follow `RowsMoveForward` and the refinement of `ConversationLifecycle`
(`StoreImplementsLifecycle`): with at most one row live, each of the six row steps
is one action of the lifecycle.

`AutomaticSchedulerProofs` reuses these lemmas at time 0 for the scheduler. The
properties speak of history the code does not keep, so each needs a relation between
clocks that run in opposite directions:

- `PlanIsOneInterval`: with nothing live, the time since the plan was made anew and
  the time left until the due time add up to at least an interval. It needs the
  store's invariant, and gives `AttemptWaitsForInterval`.
- `BackoffKept`: while failures are counted, the time since the tick that failed and
  the time left until `retry_at` add up to at least the backoff. It gives
  `RetriesBackOff`.
- `EmbargoKept`: unless the last failure paused automation, what is left of its
  Retry-After exceeds what is left until `retry_at` by no more than the longest
  kickoff; if it did, the store is paused until `/resume`, which nothing but `/resume`
  ends (`PauseLasts`). It gives `RetryAfterNearlyHonored`.
- `KickoffRunsAlone` is inductive with the type: the lease is the scheduler's exactly
  from attempt to end, and everybody else who opens a conversation needs it.

The second and third have the premise `NoOverflow`: no Retry-After exceeds
`Horizon`. It is needed, as the remark after the findings says.

`SocraticApplicationProofs` lifts the store's lemmas to the application. A segment is a set of results, so its lemmas say what every result is:
the database it found, moved by at most the steps the handler intends (`Moved`,
`Kept`, `GaveUp`, `Carded`), whichever calls raised. `Inv` is the conjunction of

- `Coherent`: `StoreInv` of every store. Every guard below reads it.
- `CallsCoherent`: a suspended call has no outcome yet and knows the conversation
  or channel it is about.
- `LeaseFollowsFlight`: a caller has the lease exactly while its call is in flight or
  claimed. So at most one is, and while one is suspended the others can do only what
  needs no lease.
- `StartNeverCollides` and `FlightKeepsItsRow`: what the call read before it was
  suspended. They are kept by the caller's own steps through the segment lemmas, and
  by everybody else's because they would need the gate.
- `CompletedWasPosted`, which needs `FlightKeepsItsRow`: only the row whose card was
  sent can be completed.

No one of these is inductive without the others. `ApplicationCoherent` is
`Spec => []Inv` for any number of callers, conversations, sessions and stores and
any set of faults, and the invariants of the `application` run follow from it.

`ApplicationOutcomeProofs` derives what speaks of two states:

- `ClosureCorrect` and `FailedStartCorrect` follow the results of the last segment of
  a call. The second has the premise that no store call fails after its commit.
- `ApplicationImplementsLifecycle`: the six row steps of the lifecycle, where the
  segment that begins a closure may both reopen and mark the row, which the
  lifecycle sees as a stutter. There is a lifecycle `Lifecycle(s)` per store, and
  `ImplementsLifecycle` says of all of them that they begin and step as they should,
  in the form TLC can check. `EachStoreImplementsLifecycle` draws the refinement in its
  usual form from it: `Spec => Lifecycle(s)!Spec` for each store `s`.
- `SessionCorrect` adds to `Inv` where Pi and the client's remembered file are while
  calls are suspended (`SessionInv`). It has the premise that there is one store:
  with two, `/testing` lets a result be recorded in the other (`testing_isolation`).
- `EscapesCorrect`: under `NothingUnknown` (no store call fails, Pi and the hub raise
  only the errors the application knows) no call ends with an exception its handler
  does not translate. Its lemmas go through the handlers' `except` clauses.

`HubAdapterProofs` does the same for `HubAdapter`. Its handlers
take the steps of the application and some that are not its own (the scheduler's
lease, `/ask-test`), so `Inv` is proved again for `AdapterSpec`, by the same lemmas.
`AdapterInv` adds

- `NamesFit` and `CallFits`: which handler a suspended call belongs to, and that they
  mean the same thread.
- `StartAlone`: the thread of a start in flight exists, no conversation is recorded
  in it, and no other task and no delayed deletion knows it.
- `ThreadsApart`: two conversations, of any stores, never share a thread. It is kept
  by the insertion at the end of a start because of `StartAlone`, and it is what makes
  a thread that one handler gives up nobody else's.

`AdapterCoherent` is `AdapterSpec => []AdapterInv`. On top of it:

- `ThreadCorrect`: `LiveInv` says that nobody is about to take the thread of a live
  conversation: no delayed deletion, no handler on its way to deleting or archiving
  it, and no handler that has yet to see that its call failed (a start) or succeeded
  (`/done`). The last is why the premise is needed that no store call fails after its
  commit: a start may then report a failure although its conversation is recorded.
- `KickoffCorrect`: from the check to the start the lease is the kickoff's, and
  nothing brings a conversation to life (`Undisturbed`). It has the premise that there
  is one store. With two it is false: `/testing` may come while the kickoff waits for
  its thread and bring in a store in which a conversation was left open by a restart.
  The kickoff is then refused, and deletes its thread.
- `AdapterImplementsLifecycle`, for every store again, needs no more than `AdapterInv`
  and that the adapter's own steps move no row; `/testing` moves none.
- `LeaseOfTasks`, under every set of faults: a handler that is over keeps no lease, and
  the kickoff has it from its check to the end of its cleanup. Its invariant
  `ClaimInv` says which handler a claimed lease belongs to, where that handler is,
  and how the call that runs under it has ended.
- `FailedStartOfTask` has the premise of `FailedStartCorrect`.
- `ThreadLeftBehind` has the premise that the hub deletes what it is asked to
  (`ThreadFaults = {}`). `TasksKnow` adds what a start knows of its thread before and
  after it is created. Under `NothingUnknown` the exceptions `/ask-now` lists are all
  there are, and `FailedStartThreadGone` follows. The `adapter_liveness` and
  `concurrent_commands` runs have the same premises; `escaped_failure` shows that the
  second is needed.
- `SessionOfTasks` keeps `SessionInv` although `/ask-test` uses Pi beside the
  application and records a session. That it finds the session of a live conversation
  and makes none is `SessionNamed`: what has begun has a session, in Pi as in the store.
- `LiveDataOfOldCalls` follows from `AdapterInv`: each step that writes writes to the
  store in use or to that of the suspended call it resumes.

`PiRpcClientProofs` proves the properties of the Pi client, for any number of processes
and events. Its invariant has two parts.

- `BaseInv` holds always: the types (`PiTypeOK`), which requests each stage of a call
  may still have to send (`Follows`), that a reader that is over leaves nothing in its
  pipe (`OverIsOver`), and that the end of the present reader is known to the call
  (`EndIsReported`), which is what `ReaderFailureReported` needs.
- `Sound` holds as long as no process was started while another was still read, which is
  the premise of both properties. Whether an answer is the prompt's own cannot be read
  off the call: it depends on what will come out of the pipes and the queue, and in which
  order. `Serves` therefore says that at most one request is under way and at most one
  response comes back (`Requested`, `Responded`), that Pi runs nothing but the prompt of
  the call (`RunsPrompt`), and that in pipe and queue taken together the messages of the
  run come before its end and nothing comes after it (`Heard`). `AnswerFits` says what
  the events taken so far have made of the call. `FaultSeen` says that what is left of
  a failure is left of one in this call or the one before, which is `FailuresCorrect`.

Steps of readers and of Pi move one element from pipe to pipe to queue, so each is a lemma
about sequences (`AfterHead`, `AtTheEnd`) and one about `Serves`, which takes process,
call and queue as parameters: the same lemmas then serve every action. That fresh numbers
exist, for whatever is in the pipes, is counted (`FreshIsNew`).

`ServiceLifecycleProofs` proves the properties of the service. A start may find what an
interrupted one left, so that it serves only a whole schema is a statement about all
starts. `Resting` says what a file is like between starts: whole, or such that the
first statement of the next migration fails, since that is the first thing an interrupted
one did. `Migrating` says what the connection has reached: the schema of its
version and what the statements so far add (`Reached`); and that only a file without
a row comes to the transaction whose commit is delayed. `ServiceInv` adds what each
phase of a start has achieved. `ServesReady` and `UserDataKept` follow.

`CardsMatchStatus` is proved only, as a part of `StoreCoherent` (`CardsCorrect`).

The assumptions are the named ASSUMEs of `StoreOps`, `StateStore`,
`AutomaticScheduler`, `SocraticApplication`, `HubAdapter` and `PiRpcClient`, which the runs of
their modules evaluate.

Every safety property of a passing run is stated by a theorem of the module it is
checked on. Some have a premise on the faults or on the number of stores, which is
given with each above; where the code fails without it, a finding or a remark after
the findings says so.

Only model-checked: all liveness (`CallsEnd`, `ServiceComesUp`, `OverdueIsAttempted`,
`HandlersFinish`), since it and ENABLED are beyond the prover. There is no recursion
over data in the models, so nothing is lost to the lack of induction principles.

## Not modelled, and why

- the scheduler object that `/testing` replaces while a tick of the old one is in
  flight: what it forgets is what `Restart` of `AutomaticScheduler` forgets, and
  where the kickoff in flight ends up is in `HubAdapter`.
- matching of error texts (errors.py), paths and payloads of HTTP requests
  (hub_client.py), shapes of callbacks (callback_server.py), configuration, prompts,
  formatting of answers: no state that interleaves.
- which model Pi runs, and what `list_models` returns: read by nothing else.
- autocomplete, `/status` and `/model` without an argument: they read only.
- the harness, discord-hub and Pi themselves: external, as far as the code uses them.

## Plan

1. Done: all the modules named above and their proofs.
2. Left: the scheduler that `/testing` replaces, with both stores; what holds of
   sessions across a swap of stores, where `SessionOfTasks` says nothing.
