--------------------------- MODULE StoreMigration ---------------------------
(***************************************************************************)
(* StateStore.initialize (store.py): the migrations that bring a database  *)
(* file from the schema it was deployed with to the present one.           *)
(*                                                                         *)
(* initialize runs them on one connection and commits at the end, but the  *)
(* sqlite3 module opens a transaction only for an INSERT: until the first  *)
(* one every statement is committed by itself, and what is interrupted     *)
(* before that stays half done.                                            *)
(***************************************************************************)
EXTENDS Naturals, Sequences

VARIABLES
  disk,        \* the database file, as committed
  connection   \* the connection of a running initialize, and what it sees

migrationVars == <<disk, connection>>

SchemaVersion == 4

Adds(what)       == [op |-> "add", what |-> what, to |-> 0]
InsertsState     == [op |-> "insert", what |-> "row", to |-> 0]
SetsVersion(n)   == [op |-> "version", what |-> "user_version", to |-> n]

SessionColumns == <<"pi_session_id", "pi_session_file", "last_agent_call_at",
                    "last_provider", "last_model_id", "last_input_tokens",
                    "last_output_tokens", "last_cost">>

\* The statements of _migrate_to_version_1 to _4, in their order.
Migration == <<
  <<Adds("application_state"), InsertsState, SetsVersion(1)>>,
  [i \in 1..8 |-> Adds(SessionColumns[i])] \o <<SetsVersion(2)>>,
  <<Adds("conversations"), Adds("one_active_conversation"), SetsVersion(3)>>,
  <<Adds("last_error_kind"), SetsVersion(4)>> >>

\* Tables, columns and the index a schema consists of.
SchemaObjects == <<{"application_state"}, {SessionColumns[i] : i \in 1..8},
                   {"conversations", "one_active_conversation"}, {"last_error_kind"}>>
\* The newer version adds nothing the older program knows of.
SchemaOf(version) == UNION {SchemaObjects[n] : n \in {k \in 1..SchemaVersion : k <= version}}
Objects == SchemaOf(SchemaVersion)

\* state: the singleton row, with a user's plan or as first inserted;
\* archive: there are completed conversations.
File == [version : 0..(SchemaVersion + 1),
         objects : SUBSET Objects,
         state   : {"none", "initial", "user"},
         archive : BOOLEAN]

\* A new file, and those every version of the program left behind; the last
\* one is newer than this program.
Deployed ==
  {[version |-> v, objects |-> SchemaOf(v),
    state |-> IF v = 0 THEN "none" ELSE "user", archive |-> v >= 3] :
     v \in 0..(SchemaVersion + 1)}

Closed == [open |-> FALSE, inTransaction |-> FALSE, at |-> 1,
           sees |-> [version |-> 0, objects |-> {}, state |-> "none", archive |-> FALSE]]

Connection == [open : BOOLEAN, inTransaction : BOOLEAN, at : 1..10, sees : File]

MigrationInit == disk \in Deployed /\ connection = Closed

\* A database whose schema is not the one of its version: an initialize was
\* interrupted in it.
Torn == disk.objects # SchemaOf(disk.version)

-----------------------------------------------------------------------------
Open ==
  /\ ~connection.open
  /\ connection' = [Closed EXCEPT !.open = TRUE, !.sees = disk]
  /\ UNCHANGED disk

\* All migrations ran, if there were any.
UpToDate == connection.sees.version = SchemaVersion

Pending == connection.open /\ connection.sees.version < SchemaVersion

Statement == Migration[connection.sees.version + 1][connection.at]

\* A table, a column or the row that exists cannot be added again.
Executable ==
  CASE Statement.op = "add"    -> Statement.what \notin connection.sees.objects
    [] Statement.op = "insert" -> connection.sees.state = "none"
    [] OTHER                   -> TRUE

\* Mutant: to add a column the table is built anew.
ExecutedRebuilding ==
  LET db == connection.sees IN
  CASE Statement.op = "add"     -> [db EXCEPT !.objects = @ \cup {Statement.what}, !.state =
                                      IF Statement.what = "last_error_kind" THEN "initial" ELSE @]
    [] Statement.op = "insert"  -> [db EXCEPT !.state = "initial"]
    [] Statement.op = "version" -> [db EXCEPT !.version = Statement.to]

\* What the connection sees after a statement.
Executed ==
  LET db == connection.sees IN
  CASE Statement.op = "add"     -> [db EXCEPT !.objects = @ \cup {Statement.what}]
    [] Statement.op = "insert"  -> [db EXCEPT !.state = "initial"]
    [] Statement.op = "version" -> [db EXCEPT !.version = Statement.to]

Execute ==
  /\ Pending /\ Executable
  /\ LET opens == connection.inTransaction \/ Statement.op = "insert" IN
     /\ connection' = [connection EXCEPT
          !.sees = Executed, !.inTransaction = opens,
          !.at = IF @ = Len(Migration[connection.sees.version + 1]) THEN 1 ELSE @ + 1]
     /\ disk' = IF opens THEN disk ELSE Executed

\* The connection's transaction, if there is one, is rolled back.
Disconnect ==
  /\ connection' = Closed
  /\ UNCHANGED disk

\* initialize raises: the database is newer than the program, or a statement
\* fails, which any may when SQLite cannot write.
Refused ==
  /\ connection.open
  /\ connection.sees.version > SchemaVersion \/ (Pending /\ ~Executable)
  /\ Disconnect

WriteRefused == Pending /\ Disconnect

Initialized ==
  /\ connection.open /\ UpToDate
  /\ disk' = connection.sees
  /\ connection' = Closed

=============================================================================
