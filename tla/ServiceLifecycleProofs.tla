----------------------- MODULE ServiceLifecycleProofs -----------------------
(***************************************************************************)
(* Theorems about ServiceLifecycle and the migrations it runs.             *)
(*                                                                         *)
(* That the service serves only a whole schema cannot be read off one      *)
(* start: a start may find what an interrupted one left.  The invariant    *)
(* therefore says what a file can look like between starts (Resting: whole,*)
(* or torn in such a way that the first statement of the next migration    *)
(* fails), and what the connection has reached (Migrating: the schema of   *)
(* its version and what the statements so far add).                        *)
(***************************************************************************)
EXTENDS ServiceLifecycle, SequenceTheorems, TLAPS

\* What the first k - 1 statements of the migration from version v add.
Added(v, k) ==
  {Migration[v + 1][j].what : j \in {i \in 1..(k - 1) : Migration[v + 1][i].op = "add"}}

\* What the migration from version v adds first.
First(v) == Migration[v + 1][1].what

\* There is a row from version 1 on, and wherever there is a conversation.
Sound(f) ==
  /\ f \in File
  /\ f.version >= 1 => f.state # "none"
  /\ f.archive => f.state # "none"

\* A file no initialize is working on.
Resting(f) ==
  /\ Sound(f)
  /\ \/ f.objects = SchemaOf(f.version)
     \/ f.version < SchemaVersion /\ First(f.version) \in f.objects

\* f is what a connection sees that executes the k-th statement next.
Reached(f, k) ==
  IF f.version < SchemaVersion
  THEN /\ k \in 1..Len(Migration[f.version + 1])
       /\ \/ f.objects = SchemaOf(f.version) \cup Added(f.version, k)
          \/ k = 1 /\ First(f.version) \in f.objects
       /\ f.version = 0 /\ k = 3 => f.state # "none"
  ELSE k = 1 /\ f.objects = SchemaOf(f.version)

\* What the connection sees is on the disk, except in the transaction the
\* insert opens, which only a file without a row comes to.
Migrating ==
  LET db == connection.sees IN
  /\ Sound(db) /\ Reached(db, connection.at)
  /\ ~connection.inTransaction => disk = db
  /\ connection.inTransaction => disk.state = "none" /\ ~disk.archive

MigrationInv ==
  /\ Resting(disk)
  /\ connection \in Connection
  /\ connection.open => Migrating

\* What the hub knows of the application.
Hub == [up : BOOLEAN, registration : {"none", "old", "optedIn"}, commands : BOOLEAN]

\* What a start has achieved when it has come to its phase.
ServiceInv ==
  /\ MigrationInv
  /\ phase \in Phases /\ hub \in Hub
  /\ connection.open => phase = "initialize"
  /\ phase \in Requests \cup {"serving"} =>
       disk.version = SchemaVersion /\ ~Torn /\ disk.state # "none"
  /\ phase = "commands" => hub.registration = "optedIn"
  /\ phase = "serving" => hub.registration = "optedIn" /\ hub.commands

-----------------------------------------------------------------------------
(* The statements of the migrations.                                       *)

\* The statements, one by one.
LEMMA VersionOne ==
  /\ Migration[1][1] = Adds("application_state")
  /\ Migration[1][2] = InsertsState
  /\ Migration[1][3] = SetsVersion(1)
  /\ Len(Migration[1]) = 3
  BY DEF Migration

LEMMA VersionTwo ==
  /\ \A i \in 1..8 : Migration[2][i] = Adds(SessionColumns[i])
  /\ Migration[2][9] = SetsVersion(2)
  /\ Len(Migration[2]) = 9
<1> DEFINE cols == [i \in 1..8 |-> Adds(SessionColumns[i])]
           last == <<SetsVersion(2)>>
           S == {Adds(SessionColumns[i]) : i \in 1..8} \cup {SetsVersion(2)}
<1>1. Migration[2] = cols \o last
  BY DEF Migration
<1>2. cols \in Seq(S) /\ Len(cols) = 8
  <2>1. \A i \in 1..8 : Adds(SessionColumns[i]) \in S
    OBVIOUS
  <2>2. cols \in Seq(S)
    <3> HIDE DEF S
    <3> QED
      BY <2>1
  <2>3. DOMAIN cols = 1..8 /\ 8 \in Nat
    OBVIOUS
  <2> HIDE DEF cols, S
  <2> QED
    BY <2>2, <2>3, LenProperties
<1>3. last \in Seq(S) /\ Len(last) = 1 /\ last[1] = SetsVersion(2)
  OBVIOUS
<1>4. \A i \in 1..8 : cols[i] = Adds(SessionColumns[i])
  OBVIOUS
<1> HIDE DEF cols, last, S
<1>5. /\ Len(cols \o last) = 9
      /\ \A i \in 1..8 : (cols \o last)[i] = cols[i]
      /\ (cols \o last)[9] = last[1]
  <2>1. /\ Len(cols \o last) = Len(cols) + Len(last)
        /\ \A i \in 1..(Len(cols) + Len(last)) : (cols \o last)[i] =
             IF i <= Len(cols) THEN cols[i] ELSE last[i - Len(cols)]
    BY <1>2, <1>3, ConcatProperties
  <2> QED
    BY <1>2, <1>3, <2>1
<1> QED
  BY <1>1, <1>3, <1>4, <1>5

LEMMA VersionThree ==
  /\ Migration[3][1] = Adds("conversations")
  /\ Migration[3][2] = Adds("one_active_conversation")
  /\ Migration[3][3] = SetsVersion(3)
  /\ Len(Migration[3]) = 3
  BY DEF Migration

LEMMA VersionFour ==
  /\ Migration[4][1] = Adds("last_error_kind")
  /\ Migration[4][2] = SetsVersion(4)
  /\ Len(Migration[4]) = 2
  BY DEF Migration

\* What each version adds.
LEMMA AddedObjects ==
  /\ SchemaObjects[1] = {"application_state"}
  /\ SchemaObjects[2] = {SessionColumns[i] : i \in 1..8}
  /\ SchemaObjects[3] = {"conversations", "one_active_conversation"}
  /\ SchemaObjects[4] = {"last_error_kind"}
  BY DEF SchemaObjects

\* The form of a migration: it adds, one insert apart in the first, and its
\* last statement sets the version.
LEMMA Statements ==
  ASSUME NEW n \in 1..4, NEW k \in 1..Len(Migration[n])
  PROVE  /\ Len(Migration[n]) \in 2..9
         /\ k = Len(Migration[n]) => Migration[n][k] = SetsVersion(n)
         /\ k < Len(Migration[n]) =>
              \/ /\ Migration[n][k].op = "add" /\ ~(n = 1 /\ k = 2)
                 /\ Migration[n][k].what \in SchemaObjects[n]
              \/ n = 1 /\ k = 2 /\ Migration[n][k].op = "insert"
         /\ Migration[n][1].op = "add"
<1>1. CASE n = 1
  BY <1>1, VersionOne, AddedObjects DEF Adds, InsertsState
<1>2. CASE n = 2
  <2>1. k = 9 \/ k \in 1..8
    BY <1>2, VersionTwo
  <2>2. k \in 1..8 => SessionColumns[k] \in SchemaObjects[2]
    BY AddedObjects
  <2>3. /\ Migration[2][1].op = "add"
        /\ k \in 1..8 => Migration[2][k].op = "add" /\ Migration[2][k].what = SessionColumns[k]
    BY VersionTwo DEF Adds
  <2> QED
    BY <1>2, <2>1, <2>2, <2>3, VersionTwo
<1>3. CASE n = 3
  BY <1>3, VersionThree, AddedObjects DEF Adds
<1>4. CASE n = 4
  BY <1>4, VersionFour, AddedObjects DEF Adds
<1> QED
  BY <1>1, <1>2, <1>3, <1>4

\* Each migration adds what its version has more than the one before.
LEMMA AddsAll ==
  /\ Added(0, Len(Migration[1])) = SchemaObjects[1]
  /\ Added(1, Len(Migration[2])) = SchemaObjects[2]
  /\ Added(2, Len(Migration[3])) = SchemaObjects[3]
  /\ Added(3, Len(Migration[4])) = SchemaObjects[4]
<1>1. Added(0, 3) = {"application_state"}
  <2>1. {i \in 1..(3 - 1) : Migration[0 + 1][i].op = "add"} = {1}
    BY VersionOne DEF Adds, InsertsState
  <2> QED
    BY <2>1, VersionOne DEF Added, Adds
<1>2. Added(1, 9) = {SessionColumns[i] : i \in 1..8}
  <2>1. {i \in 1..(9 - 1) : Migration[1 + 1][i].op = "add"} = 1..8
    BY VersionTwo DEF Adds
  <2>2. \A i \in 1..8 : Migration[1 + 1][i].what = SessionColumns[i]
    BY VersionTwo DEF Adds
  <2> QED
    BY <2>1, <2>2 DEF Added
<1>3. Added(2, 3) = {"conversations", "one_active_conversation"}
  <2>1. {i \in 1..(3 - 1) : Migration[2 + 1][i].op = "add"} = {1, 2}
    BY VersionThree DEF Adds
  <2> QED
    BY <2>1, VersionThree DEF Added, Adds
<1>4. Added(3, 2) = {"last_error_kind"}
  <2>1. {i \in 1..(2 - 1) : Migration[3 + 1][i].op = "add"} = {1}
    BY VersionFour DEF Adds
  <2> QED
    BY <2>1, VersionFour DEF Added, Adds
<1> QED
  BY <1>1, <1>2, <1>3, <1>4, VersionOne, VersionTwo, VersionThree, VersionFour, AddedObjects

\* One statement more adds what it adds.
LEMMA AddedSteps ==
  ASSUME NEW v \in 0..3, NEW k \in Nat, k >= 1
  PROVE  /\ Added(v, 1) = {}
         /\ Migration[v + 1][k].op = "add" =>
              Added(v, k + 1) = Added(v, k) \cup {Migration[v + 1][k].what}
         /\ Migration[v + 1][k].op # "add" => Added(v, k + 1) = Added(v, k)
         /\ Migration[v + 1][1].op = "add" /\ k > 1 => First(v) \in Added(v, k)
<1>1. 1..(k + 1 - 1) = 1..(k - 1) \cup {k}
  OBVIOUS
<1>2. Added(v, 1) = {}
  BY DEF Added
<1>3. /\ Migration[v + 1][k].op = "add" =>
           Added(v, k + 1) = Added(v, k) \cup {Migration[v + 1][k].what}
      /\ Migration[v + 1][k].op # "add" => Added(v, k + 1) = Added(v, k)
  BY <1>1 DEF Added
<1>4. Migration[v + 1][1].op = "add" /\ k > 1 => First(v) \in Added(v, k)
  <2>1. k > 1 => 1 \in 1..(k - 1)
    OBVIOUS
  <2> QED
    BY <2>1 DEF Added, First
<1> QED
  BY <1>2, <1>3, <1>4

\* A version's schema is the one before and what its migration adds.
LEMMA Schemas ==
  ASSUME NEW v \in 0..3
  PROVE  SchemaOf(v + 1) = SchemaOf(v) \cup SchemaObjects[v + 1]
<1>1. {n \in 1..4 : n <= v + 1} = {n \in 1..4 : n <= v} \cup {v + 1}
  OBVIOUS
<1> QED
  BY <1>1 DEF SchemaOf, SchemaVersion

\* Schemas are sets of Objects; the newer one has no others.
LEMMA SchemaTypes ==
  /\ \A v \in 0..5 : SchemaOf(v) \subseteq Objects
  /\ SchemaOf(5) = SchemaOf(4)
  /\ \A v \in 0..3 : SchemaObjects[v + 1] \subseteq Objects
<1>1. {n \in 1..4 : n <= 5} = {n \in 1..4 : n <= 4}
  OBVIOUS
<1>2. \A v \in 0..5 : {n \in 1..4 : n <= v} \subseteq {n \in 1..4 : n <= 4}
  OBVIOUS
<1>3. \A v \in 0..3 : v + 1 \in {n \in 1..4 : n <= 4}
  OBVIOUS
<1> QED
  BY <1>1, <1>2, <1>3 DEF SchemaOf, Objects, SchemaVersion
-----------------------------------------------------------------------------
\* The same for any version.
LEMMA AddsOfVersion ==
  ASSUME NEW v \in 0..3
  PROVE  Added(v, Len(Migration[v + 1])) = SchemaObjects[v + 1]
<1>1. v = 0 \/ v = 1 \/ v = 2 \/ v = 3
  OBVIOUS
<1> QED
  BY <1>1, AddsAll

\* A statement, committed by itself or not, leads on, and leaves a file from
\* which the next start continues or refuses.
LEMMA ExecuteMigrates ==
  ASSUME MigrationInv, Execute
  PROVE  MigrationInv' /\ connection'.open
<1> DEFINE db == connection.sees
           v == connection.sees.version
           k == connection.at
           n == Len(Migration[v + 1])
           s == Migration[v + 1][k]
           opens == connection.inTransaction \/ s.op = "insert"
<1>1. /\ Resting(disk) /\ connection \in Connection /\ connection.open
      /\ Sound(db) /\ Reached(db, k) /\ db \in File
      /\ ~connection.inTransaction => disk = db
      /\ connection.inTransaction => disk.state = "none" /\ ~disk.archive
      /\ v \in 0..3
  BY DEF MigrationInv, Migrating, Execute, Pending, Sound, File, SchemaVersion
<1>2. /\ connection' = [connection EXCEPT !.sees = Executed, !.inTransaction = opens,
                          !.at = IF k = n THEN 1 ELSE k + 1]
      /\ disk' = IF opens THEN disk ELSE Executed
      /\ s.op = "add" => s.what \notin db.objects
      /\ s.op = "insert" => db.state = "none"
      /\ s.op = "add" => Executed = [db EXCEPT !.objects = @ \cup {s.what}]
      /\ s.op = "insert" => Executed = [db EXCEPT !.state = "initial"]
      /\ s.op = "version" => Executed = [db EXCEPT !.version = s.to]
  BY DEF Execute, Executable, Executed, Statement
<1>3. /\ k \in 1..n /\ v < SchemaVersion
      /\ v = 0 /\ k = 3 => db.state # "none"
      /\ \/ db.objects = SchemaOf(v) \cup Added(v, k)
         \/ k = 1 /\ First(v) \in db.objects
  BY <1>1 DEF Reached, SchemaVersion
<1>4. /\ n \in 2..9
      /\ k = n => s = SetsVersion(v + 1)
      /\ k < n => \/ s.op = "add" /\ s.what \in SchemaObjects[v + 1] /\ ~(v = 0 /\ k = 2)
                  \/ v = 0 /\ k = 2 /\ s.op = "insert"
      /\ Migration[v + 1][1].op = "add"
  <2>1. v + 1 \in 1..4 /\ (v + 1 = 1 <=> v = 0)
    BY <1>1
  <2> DEFINE m == v + 1
  <2>2. m \in 1..4 /\ k \in 1..Len(Migration[m]) /\ (m = 1 <=> v = 0)
    BY <1>3, <2>1
  <2> HIDE DEF m
  <2>3. /\ Len(Migration[m]) \in 2..9
        /\ k = Len(Migration[m]) => Migration[m][k] = SetsVersion(m)
        /\ k < Len(Migration[m]) =>
             \/ /\ Migration[m][k].op = "add" /\ ~(m = 1 /\ k = 2)
                /\ Migration[m][k].what \in SchemaObjects[m]
             \/ m = 1 /\ k = 2 /\ Migration[m][k].op = "insert"
        /\ Migration[m][1].op = "add"
    BY <2>2, Statements
  <2>4. n = Len(Migration[m]) /\ s = Migration[m][k] /\ m = v + 1
    BY DEF m
  <2> QED
    BY <2>2, <2>3, <2>4
<1>5. db.objects = SchemaOf(v) \cup Added(v, k)
  BY <1>2, <1>3, <1>4 DEF First
<1>6. /\ Added(v, 1) = {}
      /\ s.op = "add" => Added(v, k + 1) = Added(v, k) \cup {s.what}
      /\ s.op # "add" => Added(v, k + 1) = Added(v, k)
      /\ First(v) \in Added(v, k + 1)
  <2>1. k \in Nat /\ k >= 1 /\ k + 1 > 1 /\ k + 1 \in Nat /\ k + 1 >= 1
    BY <1>3, <1>4
  <2> QED
    BY <1>1, <1>4, <2>1, AddedSteps
<1> HIDE DEF n, s
<1>7. CASE s.op = "add" /\ k < n
  <2>1. Executed = [db EXCEPT !.objects = db.objects \cup {s.what}]
    BY <1>2, <1>7
  <2>2. s.what \in Objects
    BY <1>1, <1>4, <1>7, SchemaTypes
  <2>3. /\ Executed \in File /\ Executed.version = v
        /\ Executed.objects = db.objects \cup {s.what}
        /\ Executed.state = db.state /\ Executed.archive = db.archive
    BY <1>1, <2>1, <2>2 DEF File
  <2> HIDE DEF db
  <2>4. Sound(Executed)
    BY <1>1, <2>3 DEF Sound, db
  <2>5. /\ Executed.objects = SchemaOf(v) \cup Added(v, k + 1)
        /\ First(v) \in Executed.objects
    BY <1>5, <1>6, <1>7, <2>3 DEF db
  <2>6. k + 1 \in 1..n /\ k + 1 \in 1..10 /\ k # n
    BY <1>3, <1>4, <1>7
  <2>7. ~(v = 0 /\ k + 1 = 3)
    BY <1>3, <1>4, <1>7
  <2>8. Reached(Executed, k + 1)
    BY <1>3, <2>3, <2>5, <2>6, <2>7 DEF Reached, n
  <2>9. Resting(Executed)
    BY <1>3, <2>3, <2>4, <2>5 DEF Resting
  <2> QED
    BY <1>1, <1>2, <1>7, <2>3, <2>4, <2>6, <2>8, <2>9
       DEF MigrationInv, Migrating, Connection, db
<1>8. CASE s.op = "insert" /\ v = 0 /\ k = 2 /\ k < n
  <2>1. Executed = [db EXCEPT !.state = "initial"]
    BY <1>2, <1>8
  <2>2. /\ Executed \in File /\ Executed.version = v
        /\ Executed.objects = db.objects
        /\ Executed.state = "initial" /\ Executed.archive = db.archive
    BY <1>1, <2>1 DEF File
  <2>3. Sound(Executed)
    BY <2>2 DEF Sound
  <2>4. Executed.objects = SchemaOf(v) \cup Added(v, k + 1)
    BY <1>5, <1>6, <1>8, <2>2
  <2>5. k + 1 \in 1..n /\ k + 1 \in 1..10 /\ k # n
    BY <1>3, <1>4, <1>8
  <2>6. Reached(Executed, k + 1)
    BY <1>3, <2>2, <2>4, <2>5 DEF Reached, n
  <2>7. disk.state = "none" /\ ~disk.archive
    BY <1>1, <1>2, <1>8 DEF Sound
  <2>8. disk' = disk /\ opens
    BY <1>2, <1>8
  <2> QED
    BY <1>1, <1>2, <1>8, <2>2, <2>3, <2>5, <2>6, <2>7, <2>8
       DEF MigrationInv, Migrating, Connection
<1>9. CASE k = n
  <2>1. s.op = "version" /\ s.to = v + 1
    BY <1>4, <1>9 DEF SetsVersion
  <2>2. Executed = [db EXCEPT !.version = v + 1]
    BY <1>2, <2>1
  <2>3. /\ Executed \in File /\ Executed.version = v + 1
        /\ Executed.objects = db.objects
        /\ Executed.state = db.state /\ Executed.archive = db.archive
    BY <1>1, <2>2 DEF File, SchemaVersion
  <2>4. db.state # "none"
    <3>1. CASE v >= 1
      BY <1>1, <3>1 DEF Sound
    <3>2. CASE v = 0
      <4>1. n = 3
        BY <3>2, VersionOne DEF n
      <4> QED
        BY <1>3, <1>9, <3>2, <4>1
    <3> QED
      BY <1>1, <3>1, <3>2
  <2>5. Sound(Executed)
    BY <1>1, <2>3, <2>4 DEF Sound
  <2>6. Executed.objects = SchemaOf(v + 1)
    <3>1. Added(v, n) = SchemaObjects[v + 1]
      BY <1>1, AddsOfVersion DEF n
    <3>2. SchemaOf(v + 1) = SchemaOf(v) \cup SchemaObjects[v + 1]
      BY <1>1, Schemas
    <3> QED
      BY <1>5, <1>9, <2>3, <3>1, <3>2
  <2>7. Reached(Executed, 1)
    <3>1. CASE v = 3
      BY <2>3, <2>6, <3>1 DEF Reached, SchemaVersion
    <3>2. CASE v \in 0..2
      <4>1. v + 1 \in 0..3 /\ v + 2 \in 1..4 /\ v + 1 + 1 = v + 2
        BY <3>2
      <4>2. Added(v + 1, 1) = {}
        BY <4>1, AddedSteps
      <4>3. 1 \in 1..Len(Migration[v + 2])
        BY <4>1, VersionTwo, VersionThree, VersionFour, <3>2
      <4> QED
        BY <2>3, <2>6, <4>1, <4>2, <4>3 DEF Reached, SchemaVersion
    <3> QED
      BY <1>1, <3>1, <3>2
  <2>8. Resting(Executed)
    BY <2>3, <2>5, <2>6 DEF Resting
  <2>9. /\ connection' = [connection EXCEPT !.sees = Executed, !.at = 1]
        /\ connection.inTransaction => disk' = disk
        /\ ~connection.inTransaction => disk' = Executed
    BY <1>1, <1>2, <1>9, <2>1 DEF Connection
  <2>10. /\ connection'.sees = Executed /\ connection'.at = 1 /\ connection'.open
         /\ connection'.inTransaction = connection.inTransaction
         /\ connection' \in Connection
    <3>1. connection \in [open : BOOLEAN, inTransaction : BOOLEAN, at : 1..10, sees : File]
      BY <1>1 DEF Connection
    <3>2. connection' = [connection EXCEPT !.sees = Executed, !.at = 1]
      BY <2>9
    <3>3. Executed \in File /\ 1 \in 1..10 /\ connection.open
      BY <1>1, <2>3
    <3> QED
      BY <3>1, <3>2, <3>3 DEF Connection
  <2>11. Resting(disk')
    BY <1>1, <2>8, <2>9 DEF Connection
  <2> QED
    BY <1>1, <2>5, <2>7, <2>9, <2>10, <2>11 DEF MigrationInv, Migrating, Connection
<1> QED
  BY <1>3, <1>4, <1>7, <1>8, <1>9

-----------------------------------------------------------------------------
(* The migrations as a whole.                                              *)

\* Deployed files are whole.
LEMMA MigrationInitial ==
  ASSUME MigrationInit
  PROVE  MigrationInv
<1>1. connection \in Connection /\ ~connection.open
  <2>1. Closed.sees \in File
    BY DEF Closed, File, SchemaVersion
  <2> QED
    BY <2>1 DEF MigrationInit, Closed, Connection
<1>2. Resting(disk)
  <2>1. PICK v \in 0..5 :
          disk = [version |-> v, objects |-> SchemaOf(v),
                  state |-> IF v = 0 THEN "none" ELSE "user", archive |-> v >= 3]
    BY DEF MigrationInit, Deployed, SchemaVersion
  <2>2. disk \in File
    BY <2>1, SchemaTypes DEF File, SchemaVersion
  <2>3. Sound(disk)
    <3>1. disk.version = v /\ (v >= 1 => disk.state = "user")
      BY <2>1
    <3>2. disk.archive => v >= 3
      BY <2>1, Zenon
    <3>3. disk.archive => disk.state = "user"
      BY <3>1, <3>2
    <3> QED
      BY <2>2, <3>1, <3>3 DEF Sound
  <2> QED
    BY <2>1, <2>3 DEF Resting
<1> QED
  BY <1>1, <1>2 DEF MigrationInv

\* A start begins at the file's version, torn or not.
LEMMA OpenMigrates ==
  ASSUME MigrationInv, Open
  PROVE  MigrationInv'
<1>1. /\ connection' = [Closed EXCEPT !.open = TRUE, !.sees = disk]
      /\ disk' = disk /\ Resting(disk) /\ disk \in File
  BY DEF Open, MigrationInv, Resting, Sound
<1>2. /\ connection'.open /\ ~connection'.inTransaction
      /\ connection'.at = 1 /\ connection'.sees = disk
      /\ connection' \in Connection
  <2>1. connection' = [open |-> TRUE, inTransaction |-> FALSE, at |-> 1, sees |-> disk]
    BY <1>1 DEF Closed
  <2>2. [open |-> TRUE, inTransaction |-> FALSE, at |-> 1, sees |-> disk] \in Connection
    BY <1>1 DEF Connection
  <2> QED
    BY <2>1, <2>2
<1>3. Reached(disk, 1)
  <2>1. CASE disk.version < SchemaVersion
    <3> DEFINE v == disk.version
    <3>1. v \in 0..3 /\ v + 1 \in 1..4
      BY <1>1, <2>1 DEF File, SchemaVersion
    <3>2. Added(v, 1) = {}
      BY <3>1, AddedSteps
    <3>3. v = 0 \/ v = 1 \/ v = 2 \/ v = 3
      BY <3>1
    <3>4. 1 \in 1..Len(Migration[v + 1])
      BY <3>3, VersionOne, VersionTwo, VersionThree, VersionFour
    <3> QED
      BY <1>1, <2>1, <3>2, <3>4 DEF Resting, Reached
  <2>2. CASE ~(disk.version < SchemaVersion)
    BY <1>1, <2>2 DEF Resting, Reached
  <2> QED
    BY <2>1, <2>2
<1> QED
  BY <1>1, <1>2, <1>3 DEF MigrationInv, Migrating, Resting

\* An initialize that raises leaves the file as it is committed.
LEMMA DisconnectMigrates ==
  ASSUME MigrationInv, Disconnect
  PROVE  MigrationInv' /\ ~connection'.open /\ disk' = disk
<1>1. Closed \in Connection /\ ~Closed.open
  BY DEF Closed, Connection, File, SchemaVersion
<1> QED
  BY <1>1 DEF MigrationInv, Disconnect

\* An initialize that returns leaves the schema of the program.
LEMMA InitializedMigrates ==
  ASSUME MigrationInv, Initialized
  PROVE  /\ MigrationInv' /\ ~connection'.open
         /\ disk'.version = SchemaVersion /\ ~Torn' /\ disk'.state # "none"
<1>1. Closed \in Connection /\ ~Closed.open
  BY DEF Closed, Connection, File, SchemaVersion
<1>2. /\ disk' = connection.sees /\ connection' = Closed
      /\ connection.sees.version = SchemaVersion
      /\ Sound(connection.sees) /\ Reached(connection.sees, connection.at)
  BY DEF Initialized, UpToDate, MigrationInv, Migrating
<1>3. connection.sees.objects = SchemaOf(connection.sees.version)
  BY <1>2 DEF Reached, SchemaVersion
<1> QED
  BY <1>1, <1>2, <1>3 DEF MigrationInv, Resting, Sound, Torn, SchemaVersion

\* Nothing else touches the file.
LEMMA UnchangedMigrates ==
  ASSUME MigrationInv, UNCHANGED migrationVars
  PROVE  MigrationInv'
  BY DEF MigrationInv, Migrating, migrationVars

-----------------------------------------------------------------------------
(* The service.                                                            *)

\* What the requests achieve in the hub.
LEMMA EffectTyped ==
  ASSUME hub \in Hub
  PROVE  /\ Effect \in Hub
         /\ phase = "commands" => /\ Effect.registration = hub.registration
                                  /\ Effect.commands
         /\ phase = "register" => Effect.registration = "optedIn"
  BY DEF Effect, Hub

\* The commands are published for a channel registered for deletion.
LEMMA FollowingIs ==
  ASSUME phase \in Requests, hub \in Hub
  PROVE  /\ Following[phase] \in Requests \cup {"serving"}
         /\ Following[phase] = "serving" => phase = "commands"
         /\ Following[phase] = "commands" =>
              phase = "register" \/ (phase = "registrations" /\ hub.registration = "optedIn")
<1>1. /\ AfterRegistrations \in {"register", "deregister", "commands"}
      /\ AfterRegistrations = "commands" => hub.registration = "optedIn"
  BY DEF AfterRegistrations, Hub
<1>2. /\ Following["health"] = "registrations"
      /\ Following["registrations"] = AfterRegistrations
      /\ Following["deregister"] = "register"
      /\ Following["register"] = "commands"
      /\ Following["commands"] = "serving"
  BY DEF Following
<1> QED
  BY <1>1, <1>2 DEF Requests

\* Every step of the service, the hub and the machine preserves it.
LEMMA ServiceStepInv == ServiceInv /\ [Next]_vars => ServiceInv'
<1> SUFFICES ASSUME ServiceInv, [Next]_vars
             PROVE  ServiceInv'
  OBVIOUS
<1> DEFINE Ready == disk.version = SchemaVersion /\ ~Torn /\ disk.state # "none"
<1>0. /\ MigrationInv /\ phase \in Phases /\ hub \in Hub
      /\ connection.open => phase = "initialize"
      /\ phase \in Requests \cup {"serving"} => Ready
      /\ phase = "commands" => hub.registration = "optedIn"
      /\ phase = "serving" => hub.registration = "optedIn" /\ hub.commands
  BY DEF ServiceInv
<1>1. CASE Launch
  <2>1. MigrationInv'
    BY <1>0, <1>1, OpenMigrates DEF Launch
  <2> QED
    BY <1>0, <1>1, <2>1 DEF Launch, ServiceInv, Phases, Requests
<1>2. CASE Migrate
  <2>1. MigrationInv'
    BY <1>0, <1>2, ExecuteMigrates DEF Migrate
  <2> QED
    BY <1>0, <1>2, <2>1 DEF Migrate, serviceVars, ServiceInv, Phases, Requests
<1>3. CASE InitializeReturns
  <2>1. MigrationInv' /\ ~connection'.open /\ Ready'
    BY <1>0, <1>3, InitializedMigrates DEF InitializeReturns
  <2> QED
    BY <1>0, <1>3, <2>1 DEF InitializeReturns, ServiceInv, Phases, Requests
<1>4. CASE InitializeRaises \/ DatabaseFails
  <2>1. MigrationInv' /\ ~connection'.open
    BY <1>0, <1>4, DisconnectMigrates
       DEF InitializeRaises, DatabaseFails, Refused, WriteRefused
  <2> QED
    BY <1>0, <1>4, <2>1
       DEF InitializeRaises, DatabaseFails, ServiceInv, Phases, Requests
<1>5. CASE Crash
  <2>1. MigrationInv' /\ ~connection'.open
    BY <1>0, <1>5, DisconnectMigrates DEF Crash
  <2> QED
    BY <1>0, <1>5, <2>1 DEF Crash, ServiceInv, Phases, Requests
<1>6. CASE UNCHANGED migrationVars
  <2>1. MigrationInv' /\ connection' = connection /\ Ready' = Ready
    BY <1>0, <1>6, UnchangedMigrates DEF migrationVars, Torn
  <2> HIDE DEF Ready
  <2>2. CASE RequestSucceeds
    <3>1. hub' \in Hub /\ phase' \in Requests \cup {"serving"}
      BY <1>0, <2>2, EffectTyped, FollowingIs DEF RequestSucceeds
    <3>2. phase' = "serving" => hub'.registration = "optedIn" /\ hub'.commands
      BY <1>0, <2>2, EffectTyped, FollowingIs DEF RequestSucceeds
    <3>3. phase' = "commands" => hub'.registration = "optedIn"
      BY <1>0, <2>2, EffectTyped, FollowingIs DEF RequestSucceeds, Effect
    <3>4. ~connection'.open /\ Ready'
      BY <1>0, <2>1, <2>2 DEF RequestSucceeds, Requests
    <3> QED
      BY <2>1, <3>1, <3>2, <3>3, <3>4 DEF ServiceInv, Phases, Ready
  <2>3. CASE RequestFails
    <3>1. hub' \in Hub /\ phase' = "down" /\ phase \in Requests
      BY <1>0, <2>3, EffectTyped DEF RequestFails
    <3> QED
      BY <1>0, <2>1, <3>1 DEF ServiceInv, Phases, Requests
  <2>4. CASE TickEnds \/ Wakes \/ ServerEnds
    BY <1>0, <2>1, <2>4 DEF TickEnds, Wakes, ServerEnds, ServiceInv, Ready
  <2>5. CASE phase = "serving" /\ CloseAdapter
    BY <1>0, <2>1, <2>5 DEF CloseAdapter, ServiceInv, Phases, Requests
  <2>6. CASE AskToStop
    BY <1>0, <2>1, <2>6 DEF AskToStop, ServiceInv, Phases, Requests, Ready
  <2>7. CASE HarnessCancels
    <3>1. CASE phase \in Requests \cup {"down"} /\ phase' = "ended" /\ hub' = hub
      BY <1>0, <2>1, <3>1 DEF ServiceInv, Phases, Requests
    <3> QED
      BY <2>5, <2>7, <3>1 DEF HarnessCancels
  <2>8. CASE HubChanges
    <3>1. /\ hub' \in Hub
          /\ hub'.registration = hub.registration /\ hub'.commands = hub.commands
      BY <1>0, <2>8 DEF HubChanges, Hub
    <3> QED
      BY <1>0, <2>1, <2>8, <3>1 DEF HubChanges, ServiceInv, Ready
  <2>9. CASE StartProcess
    BY <1>0, <2>1, <2>9 DEF StartProcess, ServiceInv, Phases, Requests
  <2>10. CASE UNCHANGED vars
    BY <1>0, <2>1, <2>10 DEF vars, serviceVars, ServiceInv, Ready
  <2>11. GroupEnds \/ ServerFails => phase = "serving" /\ CloseAdapter
    BY DEF GroupEnds, ServerFails
  <2> QED
    BY <1>1, <1>2, <1>3, <1>4, <1>5, <2>2, <2>3, <2>4, <2>5, <2>6, <2>7, <2>8, <2>9, <2>10,
       <2>11
       DEF Next, ServiceStep, LoopStep
<1> QED
  BY <1>1, <1>2, <1>3, <1>4, <1>5, <1>6
     DEF Next, ServiceStep, LoopStep, RequestSucceeds, RequestFails, TickEnds, Wakes,
         ServerEnds, GroupEnds, ServerFails, CloseAdapter, AskToStop, HarnessCancels,
         HubChanges, StartProcess, vars

\* The coherence of file, connection and startup, after any sequence of
\* interrupted, refused and repeated starts.
THEOREM ServiceCoherent == Spec => []ServiceInv
<1>1. Init => ServiceInv
  <2> SUFFICES ASSUME Init PROVE ServiceInv
    OBVIOUS
  <2>1. MigrationInv /\ ~connection.open
    BY MigrationInitial DEF Init, MigrationInit, Closed
  <2>2. hub \in Hub /\ phase = "down"
    BY DEF Init, Hub
  <2> QED
    BY <2>1, <2>2 DEF ServiceInv, Phases, Requests
<1> QED
  BY <1>1, ServiceStepInv, PTL DEF Spec

\* socratic_partner_service serves only with the schema of its version, the
\* singleton row, a channel registered for deletion and published commands.
THEOREM ServesReady == Spec => []ServesWhenReady
<1>1. ServiceInv => ServesWhenReady
  BY DEF ServiceInv, ServesWhenReady
<1> QED
  BY <1>1, ServiceCoherent, PTL

\* What a statement of a migration commits by itself holds the row and the
\* conversations that were there.
LEMMA ExecuteKeepsData ==
  ASSUME MigrationInv, Execute
  PROVE  /\ disk.state # "none" => disk'.state = disk.state
         /\ disk.archive => disk'.archive
<1> DEFINE db == connection.sees
<1>1. /\ connection.open /\ db \in File /\ disk \in File
      /\ ~connection.inTransaction => disk = db
  BY DEF Execute, Pending, MigrationInv, Migrating, Resting, Sound
<1>2. CASE disk' = disk
  BY <1>2
<1>3. CASE /\ ~connection.inTransaction /\ Statement.op # "insert"
           /\ disk' = Executed
  <2>1. Statement.op \in {"add", "version"}
    <3> DEFINE m == db.version + 1
    <3>1. m \in 1..4 /\ connection.at \in 1..Len(Migration[m])
      BY <1>1 DEF Execute, Pending, SchemaVersion, File, MigrationInv, Migrating, Reached
    <3>2. Statement = Migration[m][connection.at]
      BY DEF Statement
    <3> HIDE DEF m
    <3>3. \/ Migration[m][connection.at].op \in {"add", "insert"}
          \/ Migration[m][connection.at] = SetsVersion(m)
      BY <3>1, Statements
    <3> QED
      BY <1>3, <3>2, <3>3 DEF SetsVersion
  <2>2. Executed.state = db.state /\ Executed.archive = db.archive
    BY <1>1, <2>1 DEF Executed, File
  <2> QED
    BY <1>1, <1>3, <2>2
<1> QED
  BY <1>2, <1>3 DEF Execute

\* No start, however it ends, replaces the application's row or loses a
\* completed conversation.
THEOREM UserDataKept == Spec => UserDataSurvives
<1> DEFINE A == /\ disk.state # "none" => disk'.state = disk.state
                /\ disk.archive => disk'.archive
<1>1. ServiceInv /\ [Next]_vars => A
  <2> SUFFICES ASSUME ServiceInv, [Next]_vars
               PROVE  A
    OBVIOUS
  <2>1. MigrationInv
    BY DEF ServiceInv
  <2>2. CASE disk' = disk
    BY <2>2
  <2>3. CASE Migrate
    BY <2>1, <2>3, ExecuteKeepsData DEF Migrate
  <2>4. CASE InitializeReturns
    BY <2>1, <2>4 DEF InitializeReturns, Initialized, MigrationInv, Migrating
  <2> QED
    BY <2>2, <2>3, <2>4
       DEF Next, ServiceStep, LoopStep, Launch, Open, InitializeRaises, DatabaseFails,
           Refused, WriteRefused, Disconnect, Crash, RequestSucceeds, RequestFails,
           TickEnds, Wakes, ServerEnds, GroupEnds, ServerFails, CloseAdapter, AskToStop,
           HarnessCancels, HubChanges, StartProcess, vars, migrationVars
<1> QED
  BY <1>1, ServiceCoherent, PTL DEF Spec, UserDataSurvives
====
