---------------------------- MODULE PiRpcClient ----------------------------
(***************************************************************************)
(* PiRpcClient (pi_rpc.py): calls that take turns under _run_lock, the Pi  *)
(* processes they start, and the task that reads each process's stdout.    *)
(*                                                                         *)
(* Every process has a reader task of its own, but the table of pending    *)
(* requests and the queue of events belong to the client: a reader that    *)
(* outlives its process goes on writing to both.  The exit code of a       *)
(* process and the end of its output are observed independently.           *)
(*                                                                         *)
(* Which session and which model Pi is in is left out: SocraticApplication *)
(* follows the session.                                                    *)
(***************************************************************************)
EXTENDS Integers, Sequences, FiniteSets

CONSTANTS
  MaxProcs,   \* bound on processes that are alive or still being read
  MaxEvents,  \* bound on the events left in the queue when Pi fails again
  MaxAfter    \* bound on the calls that begin after a reader was overtaken

ASSUME PiRpcAssumption ==
  /\ MaxProcs \in Nat \ {0}
  /\ MaxEvents \in Nat \ {0}
  /\ MaxAfter \in Nat

VARIABLES
  process,    \* _process, whose reader is _stdout_task; 0 for None
  proc,       \* the processes started, and what is in their pipes
  call,       \* the call that holds _run_lock, or how the last one ended
  queue,      \* _events
  overtaken,  \* history: 0 until a process is started while another is still
              \* read; then counts the calls since
  fault,      \* history: something went wrong since the present call began
  earlier     \* history: the same from the call before it until then

vars == <<process, proc, call, queue, overtaken, fault, earlier>>

Procs == 1..MaxProcs

\* What a call sends, one request after the other.  "boot" is the get_state
\* of start(), "command" stands for set_model and get_available_models.
Requests == {"boot", "prompt", "newSession", "state", "stats", "command"}

Script == [prompt     |-> <<"prompt", "state", "stats">>,
           newSession |-> <<"newSession", "state">>,
           command    |-> <<"command">>]

\* ref: the request answered, or the run the message is of.  "garbled" is a
\* line the reader cannot take: no object, or longer than its limit.
Line  == [kind : {"answered", "refused", "message", "settled", "garbled"}, ref : Nat]
Event == [kind : {"message", "settled", "exited", "failed"}, ref : Nat]

\* "reaped": the event loop has seen the exit code.
Proc == [state   : {"none", "alive", "dead", "reaped"},
         reading : BOOLEAN,
         run     : Nat,
         inbox   : Seq([request : Requests, id : Nat, run : Nat]),
         pipe    : Seq(Line)]

\* stage: before the start() of the call, after it, or inside a request that
\* had to start Pi again.
Call == [pc      : {"idle", "ready", "waiting", "settling"},
         stage   : {"enter", "body", "inner"},
         todo    : Seq(Requests),
         id      : Nat,
         fate    : {"none", "answered", "refused", "failed"},
         run     : Nat,
         answer  : Nat,
         outcome : {"none", "ok", "failed"}]

Gone == [state |-> "none", reading |-> FALSE, run |-> 0, inbox |-> <<>>, pipe |-> <<>>]

Started(id) == [state |-> "alive", reading |-> TRUE, run |-> 0, pipe |-> <<>>,
                inbox |-> <<[request |-> "boot", id |-> id, run |-> 0]>>]

Idle == [pc |-> "idle", stage |-> "enter", todo |-> <<>>, id |-> 0, fate |-> "none",
         run |-> 0, answer |-> 0, outcome |-> "none"]

Init ==
  /\ process = 0
  /\ proc = [g \in Procs |-> Gone]
  /\ call = Idle
  /\ queue = <<>>
  /\ overtaken = 0
  /\ fault = FALSE /\ earlier = FALSE

-----------------------------------------------------------------------------
Running == process # 0 /\ proc[process].state \in {"alive", "dead"}

Elements(s) == {s[i] : i \in DOMAIN s}

\* Numbers of requests and runs that nothing refers to any more are used
\* again; the code draws random ones.
Fresh(used) == CHOOSE n \in 1..(Cardinality(used) + 1) : n \notin used

Refs == UNION {{l.ref : l \in Elements(proc[g].pipe)} : g \in Procs}
Ids  == UNION {{r.id : r \in Elements(proc[g].inbox)} : g \in Procs}
Runs == UNION {{r.run : r \in Elements(proc[g].inbox)} : g \in Procs}

FreshId  == Fresh({call.id} \cup Ids \cup Refs)
FreshRun == Fresh({proc[g].run : g \in Procs} \cup {e.ref : e \in Elements(queue)}
                  \cup Runs \cup Refs)

Seen == fault' = TRUE /\ UNCHANGED <<overtaken, earlier>>
NothingSeen == UNCHANGED <<overtaken, fault, earlier>>

\* The call returns, or raises.
Return(out) == call' = [Idle EXCEPT !.run = call.run, !.answer = call.answer, !.outcome = out]

\* Mutant: the process is stopped and still taken for the present one.
CloseKeepingProcess ==
  /\ process # 0
  /\ proc' = [proc EXCEPT ![process] = Gone]
  /\ queue' = <<>>
  /\ UNCHANGED process

\* close(): whatever way the process and its reader are brought to an end,
\* nothing of them is left.
Close ==
  \/ process = 0 /\ UNCHANGED <<process, proc, queue>>
  \/ /\ process # 0
     /\ process' = 0
     /\ proc' = [proc EXCEPT ![process] = Gone]
     /\ queue' = <<>>

Begin(op) ==
  /\ call.pc = "idle"
  /\ call' = [Idle EXCEPT !.pc = "ready", !.todo = Script[op]]
  /\ overtaken <= MaxAfter
  /\ overtaken' = IF overtaken = 0 THEN 0 ELSE overtaken + 1
  /\ earlier' = fault /\ fault' = FALSE
  /\ UNCHANGED <<process, proc, queue>>

-----------------------------------------------------------------------------
(* A call up to its next await. *)

Sending == Head(call.todo)

\* prompt() drops the events of the past right before it sends its request,
\* in one segment with it; not once the request has started Pi again.
Discarded == IF Sending = "prompt" /\ call.stage # "inner" THEN <<>> ELSE queue

\* start() where the call begins or a request finds Pi gone; get_state does
\* not start it.
MustStart ==
  /\ call.pc = "ready" /\ ~Running
  /\ call.stage = "enter" \/ (call.stage = "body" /\ Sending # "state")

Unread == {g \in Procs \ {process} : ~proc[g].reading}

Start ==
  /\ MustStart
  /\ \E g \in Unread :
       /\ \A h \in Unread : g <= h
       /\ process' = g
       /\ proc' = [proc EXCEPT ![g] = Started(FreshId)]
  /\ call' = [call EXCEPT !.pc = "waiting", !.todo = <<"boot">> \o @, !.id = FreshId,
                          !.fate = "none",
                          !.stage = IF @ = "enter" THEN "enter" ELSE "inner"]
  /\ queue' = IF call.stage = "enter" THEN queue ELSE Discarded
  /\ overtaken' = IF overtaken = 0 /\ \E g \in Procs : proc[g].reading THEN 1 ELSE overtaken
  /\ UNCHANGED <<fault, earlier>>

\* Pi is not installed or cannot be executed; or MaxProcs are still read.
StartFails ==
  /\ MustStart
  /\ Return("failed")
  /\ queue' = IF call.stage = "enter" THEN queue ELSE Discarded
  /\ Seen
  /\ UNCHANGED <<process, proc>>

WithoutPi ==
  /\ call.pc = "ready"
  /\ \/ ~Running /\ call.stage = "body" /\ Sending = "state"
     \/ process = 0 /\ call.stage = "inner"
  /\ Return("failed")
  /\ NothingSeen
  /\ UNCHANGED <<process, proc, queue>>

MaySend == call.pc = "ready" /\ process # 0 /\ (Running \/ call.stage = "inner")

\* Mutant: the dead reader is reported, to every call that follows.
ReaderIsOverUnclosed ==
  /\ MaySend /\ ~proc[process].reading
  /\ Return("failed")
  /\ NothingSeen
  /\ UNCHANGED <<process, proc, queue>>

\* _ensure_reader_healthy.
ReaderIsOver ==
  /\ MaySend /\ ~proc[process].reading
  /\ Return("failed")
  /\ Close
  /\ NothingSeen

\* A process that has ended takes no request, and may not even refuse it.
Send ==
  /\ MaySend /\ proc[process].reading
  /\ LET run == IF Sending = "prompt" THEN FreshRun ELSE call.run
         request == [request |-> Sending, id |-> FreshId,
                     run |-> IF Sending = "prompt" THEN FreshRun ELSE 0]
     IN /\ call' = [call EXCEPT !.pc = "waiting", !.id = FreshId, !.fate = "none",
                                !.run = run]
        /\ proc' = [proc EXCEPT ![process].inbox =
                      IF proc[process].state = "alive" THEN Append(@, request) ELSE @]
  /\ queue' = Discarded
  /\ NothingSeen
  /\ UNCHANGED process

\* The pipe is broken: an OSError.
WriteFails ==
  /\ MaySend /\ proc[process].reading /\ proc[process].state # "alive"
  /\ Return("failed")
  /\ queue' = Discarded
  /\ Seen
  /\ UNCHANGED <<process, proc>>

-----------------------------------------------------------------------------
(* An await of a call ends. *)

\* The future of the request is done.
Answered ==
  /\ call.pc = "waiting" /\ call.fate = "answered"
  /\ LET rest == Tail(call.todo) IN
     CASE Sending = "prompt" -> call' = [call EXCEPT !.pc = "settling", !.todo = rest]
       [] rest = <<>>      -> Return("ok")
       [] OTHER -> call' = [call EXCEPT !.pc = "ready", !.todo = rest,
                              !.stage = IF Sending = "boot" /\ @ = "inner" THEN "inner" ELSE "body"]
  /\ NothingSeen
  /\ UNCHANGED <<process, proc, queue>>

\* Pi refused, or the reader came to its end; start() closes what it started.
NotAnswered ==
  /\ call.pc = "waiting" /\ call.fate \in {"refused", "failed"}
  /\ Return("failed")
  /\ IF Sending = "boot" THEN Close ELSE UNCHANGED <<process, proc, queue>>
  /\ NothingSeen

\* The run ended with an error, or without any text, which is only looked at
\* after the last request.
BadRun ==
  /\ \/ call.pc = "settling" /\ queue # <<>> /\ Head(queue).kind = "settled"
     \/ call.pc = "waiting" /\ call.fate = "answered" /\ call.todo = <<"stats">>
  /\ Return("failed")
  /\ queue' = IF call.pc = "settling" THEN Tail(queue) ELSE queue
  /\ Seen
  /\ UNCHANGED <<process, proc>>

\* _wait_until_settled takes an event.
TakeEvent ==
  /\ call.pc = "settling" /\ queue # <<>>
  /\ LET event == Head(queue) IN
     \/ event.kind = "message" /\ call' = [call EXCEPT !.answer = event.ref]
     \/ /\ event.kind = "settled" /\ call.answer # 0
        /\ call' = [call EXCEPT !.pc = "ready", !.stage = "body"]
     \/ event.kind = "settled" /\ call.answer = 0 /\ Return("failed")
     \/ event.kind \in {"exited", "failed"} /\ Return("failed")
  /\ queue' = Tail(queue)
  /\ NothingSeen
  /\ UNCHANGED <<process, proc>>

\* Mutants: only requests time out; the run is given up but goes on in Pi.
RequestTimedOut == call.pc = "waiting" /\ call.fate = "none"
TimesOutUnclosed ==
  /\ call.pc = "settling"
  /\ Return("failed")
  /\ Seen
  /\ UNCHANGED <<process, proc, queue>>

\* timeout_seconds have passed, in _request or in _wait_until_settled.
TimedOut == (call.pc = "waiting" /\ call.fate = "none") \/ call.pc = "settling"

TimesOut ==
  /\ TimedOut
  /\ Return("failed")
  /\ Close
  /\ Seen

-----------------------------------------------------------------------------
(* _read_stdout of process g. *)

Resolve(fate) ==
  IF call.pc = "waiting" /\ call.fate = "none" THEN [call EXCEPT !.fate = fate] ELSE call

\* A response that nothing waits for is dropped.
ReadLine(g) ==
  /\ proc[g].reading /\ proc[g].pipe # <<>>
  /\ LET line == Head(proc[g].pipe) IN
     /\ line.kind # "garbled"
     /\ IF line.kind \in {"answered", "refused"}
        THEN /\ call' = IF line.ref = call.id THEN Resolve(line.kind) ELSE call
             /\ UNCHANGED queue
        ELSE queue' = Append(queue, line) /\ UNCHANGED call
  /\ proc' = [proc EXCEPT ![g].pipe = Tail(@)]
  /\ NothingSeen
  /\ UNCHANGED process

\* Mutant: the run that waits for events is not told.
ReaderStopsSilently(g, kind) ==
  /\ call' = Resolve("failed")
  /\ proc' = [proc EXCEPT ![g].reading = FALSE]
  /\ UNCHANGED <<process, queue>>

\* The reader is over: whatever request is pending fails, and an event says
\* so.  What the process does from then on nobody gets to know.
ReaderStops(g, kind) ==
  /\ call' = Resolve("failed")
  /\ queue' = Append(queue, [kind |-> kind, ref |-> 0])
  /\ proc' = [proc EXCEPT ![g].reading = FALSE, ![g].run = 0,
                          ![g].inbox = <<>>, ![g].pipe = <<>>]
  /\ UNCHANGED process

ReaderBreaks(g) ==
  /\ proc[g].reading /\ proc[g].pipe # <<>> /\ Head(proc[g].pipe).kind = "garbled"
  /\ ReaderStops(g, "failed")
  /\ Seen

\* The output ended, and so did the process.
ReaderEnds(g) ==
  /\ proc[g].reading /\ proc[g].pipe = <<>> /\ proc[g].state = "reaped"
  /\ ReaderStops(g, "exited")
  /\ NothingSeen

-----------------------------------------------------------------------------
(* Pi, as far as the client knows it: it answers requests in turn, refuses *)
(* what it cannot do and a second run beside the first, and may at any     *)
(* time be silent, write what is no message, or end.                       *)

Alive(g) == proc[g].state = "alive" /\ proc[g].reading

Says(g, lines) == proc[g].pipe \o lines

PiAnswers(g) ==
  /\ Alive(g) /\ proc[g].inbox # <<>>
  /\ LET request == Head(proc[g].inbox) IN
     /\ request.request = "prompt" => proc[g].run = 0
     /\ proc' = [proc EXCEPT ![g].inbox = Tail(@),
          ![g].run = IF request.request = "prompt" THEN request.run ELSE @,
          ![g].pipe = Says(g, <<[kind |-> "answered", ref |-> request.id]>>)]
  /\ UNCHANGED <<process, call, queue, overtaken, fault, earlier>>

PiRefuses(g) ==
  /\ Alive(g) /\ proc[g].inbox # <<>>
  /\ proc' = [proc EXCEPT ![g].inbox = Tail(@),
       ![g].pipe = Says(g, <<[kind |-> "refused", ref |-> Head(proc[g].inbox).id]>>)]
  /\ Seen
  /\ UNCHANGED <<process, call, queue>>

PiSettles(g) ==
  /\ Alive(g) /\ proc[g].run # 0
  /\ proc' = [proc EXCEPT ![g].run = 0,
       ![g].pipe = Says(g, <<[kind |-> "message", ref |-> proc[g].run],
                             [kind |-> "settled", ref |-> 0]>>)]
  /\ UNCHANGED <<process, call, queue, overtaken, fault, earlier>>

PiSettlesWithoutMessage(g) ==
  /\ Alive(g) /\ proc[g].run # 0
  /\ proc' = [proc EXCEPT ![g].run = 0,
       ![g].pipe = Says(g, <<[kind |-> "settled", ref |-> 0]>>)]
  /\ Seen
  /\ UNCHANGED <<process, call, queue>>

\* Bound: one such line in a pipe, since the reader ends with it.
PiGarbles(g) ==
  /\ Alive(g) /\ Len(queue) < MaxEvents
  /\ \A line \in Elements(proc[g].pipe) : line.kind # "garbled"
  /\ proc' = [proc EXCEPT ![g].pipe = Says(g, <<[kind |-> "garbled", ref |-> 0]>>)]
  /\ UNCHANGED <<process, call, queue, overtaken, fault, earlier>>

PiDies(g) ==
  /\ proc[g].state = "alive" /\ Len(queue) < MaxEvents
  /\ proc' = [proc EXCEPT ![g].state = "dead", ![g].run = 0, ![g].inbox = <<>>]
  /\ UNCHANGED <<process, call, queue, overtaken, fault, earlier>>

\* The event loop sees the exit code, before or after the reader has seen
\* the end of the output.
ExitSeen(g) ==
  /\ proc[g].state = "dead"
  /\ proc' = [proc EXCEPT ![g].state = "reaped"]
  /\ Seen
  /\ UNCHANGED <<process, call, queue>>

\* The service closes the client under the call: what is pending fails, and a
\* run hears of the reader's end, unless the reader had to be cancelled.
ClosedByService ==
  /\ process # 0
  /\ Close
  /\ \/ call' = Resolve("failed")
     \/ call.pc = "settling" /\ Return("failed")
  /\ Seen

\* The service is started again, with a client of its own.
Restart ==
  /\ process' = 0
  /\ proc' = [g \in Procs |-> Gone]
  /\ call' = Idle
  /\ queue' = <<>>
  /\ overtaken' = 0
  /\ fault' = FALSE /\ earlier' = FALSE

-----------------------------------------------------------------------------
CallStep ==
  \/ Start \/ StartFails \/ WithoutPi
  \/ ReaderIsOver \/ Send \/ WriteFails
  \/ Answered \/ NotAnswered \/ BadRun \/ TakeEvent \/ TimesOut

Next ==
  \/ \E op \in DOMAIN Script : Begin(op)
  \/ CallStep
  \/ \E g \in Procs :
       \/ ReadLine(g) \/ ReaderBreaks(g) \/ ReaderEnds(g)
       \/ PiAnswers(g) \/ PiRefuses(g) \/ PiGarbles(g)
       \/ PiSettles(g) \/ PiSettlesWithoutMessage(g)
       \/ PiDies(g) \/ ExitSeen(g)
  \/ ClosedByService
  \/ Restart

Spec == Init /\ [][Next]_vars

\* The event loop runs the task that is ready, and its timers.  Nothing is
\* assumed of Pi, nor of the order in which readers and calls get their turn.
FairSpec == Spec /\ WF_vars(CallStep)

-----------------------------------------------------------------------------
(* Properties. *)

\* _process is None or a process whose pipes are there; nothing is waited for
\* that was not sent.
PiTypeOK ==
  /\ process \in Procs \cup {0}
  /\ proc \in [Procs -> Proc]
  /\ call \in Call
  /\ queue \in Seq(Event)
  /\ overtaken \in 0..(MaxAfter + 1)
  /\ fault \in BOOLEAN /\ earlier \in BOOLEAN
  /\ process # 0 => proc[process].state # "none"
  /\ call.pc \in {"ready", "waiting"} => call.todo # <<>>

\* The answer of a prompt is the one Pi gave to it, after any number of
\* failures, resets and restarts in which the reader of a process was over
\* before the next process was started.  Nothing is said once it was not: the
\* old reader's process_exited may then end a run of the new process, and the
\* prompt after it return that run's answer.
AnswerBelongsToRun ==
  overtaken > 0 \/ (call.outcome = "ok" => call.answer = call.run)

\* A failure passes: no call fails unless something went wrong during it or
\* during the call before it.  This, too, says nothing once a process was
\* started while an earlier one was still being read.
FailuresPass ==
  overtaken > 0 \/ (call.outcome = "failed" => fault \/ earlier)

\* When the reader of Pi's output is over, the call learns it from the
\* reader; it does not have to wait for its timeout.
ReaderFailureSurfaces ==
  [][TimesOut /\ process # 0 => proc[process].reading \/ queue # <<>>]_vars

\* Every call ends, and the lock passes on, even if Pi never answers.
CallsEnd == call.pc # "idle" ~> call.pc = "idle"

=============================================================================
