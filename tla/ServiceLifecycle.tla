-------------------------- MODULE ServiceLifecycle --------------------------
(***************************************************************************)
(* socratic_partner_service (main.py): from the database over the          *)
(* registration with discord-hub (SocraticHubAdapter.start) to the task    *)
(* group of callback server and scheduler loop, and the stop the harness   *)
(* asks for.  The harness starts a service that failed again.              *)
(*                                                                         *)
(* Every request to the hub fails while the hub is not up, and may have    *)
(* been carried out although it failed.  The process may end at any point. *)
(***************************************************************************)
EXTENDS StoreMigration

VARIABLES
  phase,     \* where socratic_partner_service is
  hub,       \* up; the home channel's registration; commands published
  server,    \* server.serve() in the task group
  loop,      \* run_scheduler in the task group
  asked,     \* stop_event of the ServiceContext
  stopping   \* _stopping and _stop_event of the adapter

serviceVars == <<phase, hub, server, loop, asked, stopping>>
vars == <<migrationVars, serviceVars>>

Requests == {"health", "registrations", "deregister", "register", "commands"}
\* "down": the harness is about to run the service; "ended": there is no process.
Phases == {"down", "initialize", "serving", "ended"} \cup Requests

\* run_scheduler returns at once where automatic_scheduler_enabled is unset.
Loops == {"ticking", "over"}

Init ==
  /\ MigrationInit
  /\ phase = "down"
  /\ hub \in [up : BOOLEAN, registration : {"none", "old", "optedIn"}, commands : {FALSE}]
  /\ server = "none" /\ loop = "none"
  /\ asked = FALSE /\ stopping = FALSE

-----------------------------------------------------------------------------
(* Startup. *)

\* The harness runs the service, also after it failed, with a fresh adapter.
Launch ==
  /\ phase = "down" /\ ~asked
  /\ Open
  /\ phase' = "initialize"
  /\ stopping' = FALSE
  /\ UNCHANGED <<hub, server, loop, asked>>

Migrate ==
  /\ phase = "initialize"
  /\ Execute
  /\ UNCHANGED serviceVars

InitializeReturns ==
  /\ phase = "initialize"
  /\ Initialized
  /\ phase' = "health"
  /\ UNCHANGED <<hub, server, loop, asked, stopping>>

InitializeRaises ==
  /\ phase = "initialize"
  /\ Refused
  /\ phase' = "down"
  /\ UNCHANGED <<hub, server, loop, asked, stopping>>

DatabaseFails ==
  /\ phase = "initialize"
  /\ WriteRefused
  /\ phase' = "down"
  /\ UNCHANGED <<hub, server, loop, asked, stopping>>

\* Mutants: the channel is deregistered before every registration; a channel
\* that is registered is left as it is.
AfterRegistrationsAlways == IF hub.registration = "optedIn" THEN "commands" ELSE "deregister"
AfterRegistrationsNever == IF hub.registration = "none" THEN "register" ELSE "commands"

\* What start does when it knows the registrations.
AfterRegistrations ==
  CASE hub.registration = "none"    -> "register"
    [] hub.registration = "old"     -> "deregister"
    [] hub.registration = "optedIn" -> "commands"

Following == [health        |-> "registrations",
              registrations |-> AfterRegistrations,
              deregister    |-> "register",
              register      |-> "commands",
              commands      |-> "serving"]

\* What a request does in the hub.
Effect ==
  CASE phase = "deregister" -> [hub EXCEPT !.registration = "none"]
    [] phase = "register"   -> [hub EXCEPT !.registration = "optedIn"]
    [] phase = "commands"   -> [hub EXCEPT !.commands = TRUE]
    [] OTHER                -> hub

\* The hub knows no such registration: an error.
Unknown == phase = "deregister" /\ hub.registration = "none"

RequestSucceeds ==
  /\ phase \in Requests /\ hub.up /\ ~Unknown
  /\ phase' = Following[phase]
  /\ hub' = Effect
  /\ IF phase = "commands"
     THEN /\ server' = "serving"
          /\ loop' \in Loops
     ELSE UNCHANGED <<server, loop>>
  /\ UNCHANGED <<migrationVars, asked, stopping>>

\* start raises, carried out or not; nothing has been started yet.
RequestFails ==
  /\ phase \in Requests /\ (~hub.up \/ Unknown)
  /\ phase' = "down"
  /\ hub' = hub \/ (~Unknown /\ hub' = Effect)
  /\ UNCHANGED <<migrationVars, server, loop, asked, stopping>>

-----------------------------------------------------------------------------
(* The task group. *)

\* A tick ends and the loop waits, for a minute or the adapter's stop event.
TickEnds ==
  /\ phase = "serving" /\ loop = "ticking"
  /\ loop' = "sleeping"
  /\ UNCHANGED <<migrationVars, phase, hub, server, asked, stopping>>

Wakes ==
  /\ phase = "serving" /\ loop = "sleeping"
  /\ loop' = IF stopping THEN "over" ELSE "ticking"
  /\ UNCHANGED <<migrationVars, phase, hub, server, asked, stopping>>

\* stop_when_asked tells the server, which then ends.
ServerEnds ==
  /\ phase = "serving" /\ server = "serving" /\ asked
  /\ server' = "over"
  /\ UNCHANGED <<migrationVars, phase, hub, loop, asked, stopping>>

\* adapter.close(), after the task group.
CloseAdapter ==
  /\ stopping' = TRUE
  /\ phase' = IF asked THEN "ended" ELSE "down"
  /\ server' = "none" /\ loop' = "none"
  /\ UNCHANGED <<migrationVars, hub, asked>>

GroupEnds ==
  /\ phase = "serving" /\ server = "over" /\ loop = "over"
  /\ CloseAdapter

\* The server cannot listen, or fails: the group cancels the loop.
ServerFails ==
  /\ phase = "serving" /\ server = "serving"
  /\ CloseAdapter

-----------------------------------------------------------------------------
(* The harness, the hub and the machine. *)

AskToStop ==
  /\ ~asked /\ phase # "ended"
  /\ asked' = TRUE
  /\ phase' = IF phase = "down" THEN "ended" ELSE phase
  /\ UNCHANGED <<migrationVars, hub, server, loop, stopping>>

\* Its shutdown timeout has passed.
HarnessCancels ==
  /\ asked
  /\ \/ phase = "serving" /\ CloseAdapter
     \/ /\ phase \in Requests \cup {"down"}
        /\ phase' = "ended"
        /\ UNCHANGED <<migrationVars, hub, server, loop, asked, stopping>>

HubChanges ==
  /\ hub' = [hub EXCEPT !.up = ~@]
  /\ UNCHANGED <<migrationVars, phase, server, loop, asked, stopping>>

Crash ==
  /\ phase # "ended"
  /\ Disconnect
  /\ phase' = "ended"
  /\ server' = "none" /\ loop' = "none"
  /\ UNCHANGED <<hub, asked, stopping>>

StartProcess ==
  /\ phase = "ended"
  /\ phase' = "down"
  /\ asked' = FALSE /\ stopping' = FALSE
  /\ UNCHANGED <<migrationVars, hub, server, loop>>

ServiceStep ==
  \/ Launch \/ Migrate \/ InitializeReturns \/ InitializeRaises
  \/ RequestSucceeds \/ RequestFails
  \/ ServerEnds \/ GroupEnds

LoopStep == TickEnds \/ Wakes

Next ==
  \/ ServiceStep \/ LoopStep
  \/ DatabaseFails \/ ServerFails
  \/ AskToStop \/ HarnessCancels
  \/ HubChanges
  \/ Crash \/ StartProcess

Spec == Init /\ [][Next]_vars

\* The tasks of the service go on, whatever the hub answers, and the harness
\* starts a service again that failed.  Nothing is assumed of the hub, of
\* stops or of the process being started again.
FairSpec == Spec /\ WF_vars(ServiceStep) /\ WF_vars(LoopStep)

-----------------------------------------------------------------------------
(* Properties. *)

\* Whatever was interrupted before: the service serves only with the schema
\* of its version, the singleton row, a registered channel that may delete
\* threads, and published commands.
ServesWhenReady ==
  phase = "serving" =>
    /\ disk.version = SchemaVersion /\ ~Torn /\ disk.state # "none"
    /\ hub.registration = "optedIn" /\ hub.commands

\* No migration, repeated, interrupted or refused, replaces the row of the
\* application or loses a completed conversation.
UserDataSurvives ==
  [][/\ disk.state # "none" => disk'.state = disk.state
     /\ disk.archive => disk'.archive]_vars

\* With a hub that stays up the service comes up, wherever earlier starts
\* were interrupted, in the registration too; except with a database that is
\* newer than the program or was torn by an interrupted migration.
ServiceComesUp ==
  <>[](hub.up /\ phase # "ended" /\ ~asked /\ ~Torn /\ disk.version <= SchemaVersion)
    => []<>(phase = "serving") \/ []<><<DatabaseFails>>_vars

\* When the harness asks the service to stop, the scheduler's loop wakes and
\* ends, instead of sleeping and ticking on until it is cancelled.
LoopWakesOnStop == asked /\ loop = "sleeping" ~> loop \in {"over", "none"}

=============================================================================
