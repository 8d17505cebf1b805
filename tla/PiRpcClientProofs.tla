------------------------- MODULE PiRpcClientProofs --------------------------
(***************************************************************************)
(* Theorems about PiRpcClient, for any number of processes, of events and  *)
(* of calls.  Whether an answer is the prompt's own, and whether a call    *)
(* may fail, depend on what is in the pipes and in the queue when events   *)
(* are taken, so the invariant speaks of the order of what is in them: one *)
(* request at most is on its way, one response at most comes back, nothing *)
(* but the prompt of the call runs, and nothing of a run is left once it   *)
(* has settled or its reader is over.                                      *)
(***************************************************************************)
EXTENDS PiRpcClient, TLAPS, FiniteSetTheorems, SequenceTheorems

-----------------------------------------------------------------------------
(* Fresh numbers.                                                          *)

\* A number that is not in use can always be found, whatever is in use.
LEMMA FreshIsNew ==
  ASSUME NEW used, IsFiniteSet(used)
  PROVE  Fresh(used) \in Nat \ {0}
<1> DEFINE n == Cardinality(used) + 1
<1>1. Cardinality(used) \in Nat
  BY FS_CardinalityType
<1>2. \E k \in 1..n : k \notin used
  <2> SUFFICES ASSUME 1..n \subseteq used
               PROVE  FALSE
    OBVIOUS
  <2>1. Cardinality(1..n) = n
    BY <1>1, FS_Interval
  <2>2. Cardinality(1..n) <= Cardinality(used)
    BY FS_Subset
  <2> QED
    BY <1>1, <2>1, <2>2
<1>3. Fresh(used) \in 1..n
  BY <1>2 DEF Fresh
<1> QED
  BY <1>1, <1>3

\* What a function takes a finite set to is finite.
LEMMA FiniteRange ==
  ASSUME NEW S, IsFiniteSet(S), NEW f, DOMAIN f = S
  PROVE  IsFiniteSet({f[x] : x \in S})
<1> DEFINE T == {f[x] : x \in S}
<1>1. [x \in S |-> f[x]] \in Surjection(S, T)
  BY DEF Surjection
<1> QED
  BY <1>1, FS_Surjection

LEMMA FiniteElements ==
  ASSUME NEW T, NEW s \in Seq(T)
  PROVE  IsFiniteSet(Elements(s))
<1>1. DOMAIN s = 1..Len(s) /\ Len(s) \in Nat
  BY LenProperties
<1>2. IsFiniteSet(1..Len(s))
  BY <1>1, FS_Interval
<1> QED
  BY <1>1, <1>2, FiniteRange DEF Elements

\* A union over the processes is finite if each part is.
LEMMA FiniteOverProcs ==
  ASSUME NEW f, DOMAIN f = Procs, \A g \in Procs : IsFiniteSet(f[g])
  PROVE  IsFiniteSet(UNION {f[g] : g \in Procs})
<1>1. IsFiniteSet(Procs)
  BY PiRpcAssumption, FS_Interval DEF Procs
<1>2. IsFiniteSet({f[g] : g \in Procs})
  BY <1>1, FiniteRange
<1> QED
  BY <1>2, FS_UNION

\* The numbers of what is in the pipes are finitely many.
LEMMA FiniteNumbers ==
  ASSUME proc \in [Procs -> Proc]
  PROVE  IsFiniteSet(Ids) /\ IsFiniteSet(Runs) /\ IsFiniteSet(Refs)
<1>1. ASSUME NEW g \in Procs
      PROVE  /\ IsFiniteSet(Elements(proc[g].inbox))
             /\ IsFiniteSet(Elements(proc[g].pipe))
  BY FiniteElements DEF Proc
<1>2. ASSUME NEW g \in Procs
      PROVE  /\ IsFiniteSet({r.id : r \in Elements(proc[g].inbox)})
             /\ IsFiniteSet({r.run : r \in Elements(proc[g].inbox)})
             /\ IsFiniteSet({l.ref : l \in Elements(proc[g].pipe)})
  <2> DEFINE ids  == [r \in Elements(proc[g].inbox) |-> r.id]
             runs == [r \in Elements(proc[g].inbox) |-> r.run]
             refs == [l \in Elements(proc[g].pipe) |-> l.ref]
  <2>1. /\ IsFiniteSet({ids[r] : r \in Elements(proc[g].inbox)})
        /\ IsFiniteSet({runs[r] : r \in Elements(proc[g].inbox)})
        /\ IsFiniteSet({refs[l] : l \in Elements(proc[g].pipe)})
    BY <1>1, FiniteRange, Zenon
  <2>2. /\ {ids[r] : r \in Elements(proc[g].inbox)} = {r.id : r \in Elements(proc[g].inbox)}
        /\ {runs[r] : r \in Elements(proc[g].inbox)} = {r.run : r \in Elements(proc[g].inbox)}
        /\ {refs[l] : l \in Elements(proc[g].pipe)} = {l.ref : l \in Elements(proc[g].pipe)}
    OBVIOUS
  <2> QED
    BY <2>1, <2>2
<1> DEFINE ids  == [g \in Procs |-> {r.id : r \in Elements(proc[g].inbox)}]
           runs == [g \in Procs |-> {r.run : r \in Elements(proc[g].inbox)}]
           refs == [g \in Procs |-> {l.ref : l \in Elements(proc[g].pipe)}]
<1>3. /\ \A g \in Procs : IsFiniteSet(ids[g]) /\ IsFiniteSet(runs[g]) /\ IsFiniteSet(refs[g])
      /\ DOMAIN ids = Procs /\ DOMAIN runs = Procs /\ DOMAIN refs = Procs
  BY <1>2
<1>4. /\ Ids = UNION {ids[g] : g \in Procs}
      /\ Runs = UNION {runs[g] : g \in Procs}
      /\ Refs = UNION {refs[g] : g \in Procs}
  BY DEF Ids, Runs, Refs
<1> HIDE DEF ids, runs, refs
<1>5. /\ IsFiniteSet(UNION {ids[g] : g \in Procs})
      /\ IsFiniteSet(UNION {runs[g] : g \in Procs})
      /\ IsFiniteSet(UNION {refs[g] : g \in Procs})
  BY <1>3, FiniteOverProcs, Zenon
<1> QED
  BY <1>4, <1>5, Zenon

\* The number of a new request or run is one, and none of the others is 0.
LEMMA FreshNumbers ==
  ASSUME PiTypeOK
  PROVE  FreshId \in Nat \ {0} /\ FreshRun \in Nat \ {0}
<1>1. proc \in [Procs -> Proc] /\ queue \in Seq(Event)
  BY DEF PiTypeOK
<1>2. IsFiniteSet({call.id})
  BY FS_Singleton
<1>3. IsFiniteSet({proc[g].run : g \in Procs})
  <2> DEFINE runs == [g \in Procs |-> proc[g].run]
  <2>1. IsFiniteSet(Procs)
    BY PiRpcAssumption, FS_Interval DEF Procs
  <2>2. IsFiniteSet({runs[g] : g \in Procs})
    BY <2>1, FiniteRange, Zenon
  <2> QED
    BY <2>2
<1>4. IsFiniteSet({e.ref : e \in Elements(queue)})
  <2> DEFINE refs == [e \in Elements(queue) |-> e.ref]
  <2>1. IsFiniteSet({refs[e] : e \in Elements(queue)})
    BY <1>1, FiniteElements, FiniteRange, Zenon
  <2>2. {refs[e] : e \in Elements(queue)} = {e.ref : e \in Elements(queue)}
    OBVIOUS
  <2> QED
    BY <2>1, <2>2
<1> DEFINE running == {proc[g].run : g \in Procs}
           events  == {e.ref : e \in Elements(queue)}
<1>5. IsFiniteSet(Ids) /\ IsFiniteSet(Runs) /\ IsFiniteSet(Refs)
  BY <1>1, FiniteNumbers
<1>6. FreshId = Fresh({call.id} \cup Ids \cup Refs)
      /\ FreshRun = Fresh(running \cup events \cup Runs \cup Refs)
  BY DEF FreshId, FreshRun
<1> HIDE DEF running, events
<1>7. /\ IsFiniteSet({call.id} \cup Ids)
      /\ IsFiniteSet(running \cup events) /\ IsFiniteSet(running \cup events \cup Runs)
  BY <1>2, <1>3, <1>4, <1>5, FS_Union, Zenon DEF running, events
<1>8. /\ IsFiniteSet({call.id} \cup Ids \cup Refs)
      /\ IsFiniteSet(running \cup events \cup Runs \cup Refs)
  BY <1>5, <1>7, FS_Union, Zenon
<1> QED
  BY <1>6, <1>8, FreshIsNew

-----------------------------------------------------------------------------
(* What is where in a pipe or in the queue.                                *)

\* s has a line or event of one of these kinds.
Has(s, kinds) == \E i \in DOMAIN s : s[i].kind \in kinds

\* After one of these kinds there is nothing of those.
NoneAfter(s, kinds, those) ==
  \A i, j \in DOMAIN s : i < j /\ s[i].kind \in kinds => s[j].kind \notin those

\* Every message in s is of this run.
MessagesOf(s, run) == \A i \in DOMAIN s : s[i].kind = "message" => s[i].ref = run

LEMMA NothingInEmpty ==
  ASSUME NEW kinds, NEW those, NEW run
  PROVE  ~Has(<<>>, kinds) /\ NoneAfter(<<>>, kinds, those) /\ MessagesOf(<<>>, run)
  BY DEF Has, NoneAfter, MessagesOf

\* What is read from the head is all that is missing afterwards.
LEMMA AfterHead ==
  ASSUME NEW T, NEW s \in Seq(T), s # <<>>
  PROVE  /\ Head(s) \in T /\ Tail(s) \in Seq(T)
         /\ \A kinds : Has(s, kinds) <=> Head(s).kind \in kinds \/ Has(Tail(s), kinds)
         /\ \A kinds, those : NoneAfter(s, kinds, those) =>
              /\ NoneAfter(Tail(s), kinds, those)
              /\ Head(s).kind \in kinds => ~Has(Tail(s), those)
         /\ \A run : MessagesOf(s, run) =>
              /\ MessagesOf(Tail(s), run)
              /\ Head(s).kind = "message" => Head(s).ref = run
<1> DEFINE t == Tail(s)
<1>1. /\ Head(s) \in T /\ t \in Seq(T) /\ Len(t) = Len(s) - 1
      /\ \A i \in 1..Len(t) : t[i] = s[i + 1]
      /\ Head(s) = s[1]
  BY HeadTailProperties
<1>2. /\ DOMAIN s = 1..Len(s) /\ DOMAIN t = 1..Len(t)
      /\ Len(s) \in Nat /\ Len(t) \in Nat /\ Len(s) # 0
  BY <1>1, LenProperties, EmptySeq
<1> HIDE DEF t
<1>3. /\ 1 \in DOMAIN s
      /\ \A i \in DOMAIN t : i \in Nat /\ i >= 1 /\ i + 1 \in DOMAIN s /\ s[i + 1] = t[i] /\ 1 < i + 1
      /\ \A i \in DOMAIN s : i = 1 \/ (i - 1 \in DOMAIN t /\ s[i] = t[i - 1])
  BY <1>1, <1>2
<1>4. ASSUME NEW kinds
      PROVE  Has(s, kinds) <=> Head(s).kind \in kinds \/ Has(t, kinds)
  <2>1. ASSUME Has(s, kinds)
        PROVE  Head(s).kind \in kinds \/ Has(t, kinds)
    BY <1>1, <1>3, <2>1 DEF Has
  <2>2. ASSUME Head(s).kind \in kinds \/ Has(t, kinds)
        PROVE  Has(s, kinds)
    BY <1>1, <1>3, <2>2 DEF Has
  <2> QED
    BY <2>1, <2>2
<1>5. ASSUME NEW kinds, NEW those, NoneAfter(s, kinds, those)
      PROVE  /\ NoneAfter(t, kinds, those)
             /\ Head(s).kind \in kinds => ~Has(t, those)
  <2>1. \A i, j \in DOMAIN t : i < j => i + 1 < j + 1
    BY <1>3
  <2>2. NoneAfter(t, kinds, those)
    BY <1>3, <1>5, <2>1 DEF NoneAfter
  <2>3. Head(s).kind \in kinds => ~Has(t, those)
    BY <1>1, <1>3, <1>5 DEF NoneAfter, Has
  <2> QED
    BY <2>2, <2>3
<1>6. ASSUME NEW run, MessagesOf(s, run)
      PROVE  /\ MessagesOf(t, run)
             /\ Head(s).kind = "message" => Head(s).ref = run
  BY <1>1, <1>3, <1>6 DEF MessagesOf
<1> QED
  BY <1>1, <1>4, <1>5, <1>6 DEF t

\* What is put at the end is all that is new.
LEMMA AtTheEnd ==
  ASSUME NEW T, NEW s \in Seq(T), NEW x \in T
  PROVE  /\ Append(s, x) \in Seq(T) /\ Append(s, x) # <<>>
         /\ \A kinds : Has(Append(s, x), kinds) <=> Has(s, kinds) \/ x.kind \in kinds
         /\ \A kinds, those : NoneAfter(s, kinds, those) /\ (Has(s, kinds) => x.kind \notin those)
              => NoneAfter(Append(s, x), kinds, those)
         /\ \A run : MessagesOf(s, run) /\ (x.kind = "message" => x.ref = run)
              => MessagesOf(Append(s, x), run)
<1> DEFINE t == Append(s, x)
           n == Len(s) + 1
<1>1. /\ t \in Seq(T) /\ t # <<>> /\ Len(t) = n
      /\ \A i \in 1..Len(s) : t[i] = s[i]
      /\ t[n] = x
  BY AppendProperties
<1>2. DOMAIN s = 1..Len(s) /\ DOMAIN t = 1..Len(t) /\ Len(s) \in Nat
  BY <1>1, LenProperties
<1> HIDE DEF t
<1>3. /\ n \in DOMAIN t
      /\ \A i \in DOMAIN s : i \in DOMAIN t /\ t[i] = s[i] /\ i < n
      /\ \A i \in DOMAIN t : i \in DOMAIN s \/ i = n
      /\ \A i, j \in DOMAIN t : i < j => i # n /\ i \in DOMAIN s
  BY <1>1, <1>2
<1> HIDE DEF n
<1>4. ASSUME NEW kinds
      PROVE  Has(t, kinds) <=> Has(s, kinds) \/ x.kind \in kinds
  <2>1. ASSUME Has(t, kinds)
        PROVE  Has(s, kinds) \/ x.kind \in kinds
    BY <1>1, <1>3, <2>1 DEF Has
  <2>2. ASSUME Has(s, kinds) \/ x.kind \in kinds
        PROVE  Has(t, kinds)
    BY <1>1, <1>3, <2>2 DEF Has
  <2> QED
    BY <2>1, <2>2
<1>5. ASSUME NEW kinds, NEW those, NoneAfter(s, kinds, those),
             Has(s, kinds) => x.kind \notin those
      PROVE  NoneAfter(t, kinds, those)
  <2> SUFFICES ASSUME NEW i \in DOMAIN t, NEW j \in DOMAIN t, i < j, t[i].kind \in kinds
               PROVE  t[j].kind \notin those
    BY DEF NoneAfter
  <2>1. i \in DOMAIN s /\ t[i] = s[i]
    BY <1>3
  <2>2. CASE j \in DOMAIN s
    BY <1>3, <1>5, <2>1, <2>2 DEF NoneAfter
  <2>3. CASE j = n
    BY <1>1, <1>5, <2>1, <2>3 DEF Has
  <2> QED
    BY <1>3, <2>2, <2>3
<1>6. ASSUME NEW run, MessagesOf(s, run), x.kind = "message" => x.ref = run
      PROVE  MessagesOf(t, run)
  BY <1>1, <1>3, <1>6 DEF MessagesOf
<1> QED
  BY <1>1, <1>4, <1>5, <1>6 DEF t

\* Lines that are said at once are put at the end one after the other.
LEMMA SaidAtTheEnd ==
  ASSUME NEW T, NEW s \in Seq(T), NEW x \in T, NEW y \in T
  PROVE  /\ s \o <<x>> = Append(s, x)
         /\ s \o <<x, y>> = Append(Append(s, x), y)
<1>1. s \o <<x>> = Append(s, x)
  BY AppendIsConcat
<1>2. Append(s, x) \in Seq(T)
  BY AppendProperties
<1>3. Append(Append(s, x), y) = (s \o <<x>>) \o <<y>>
  BY <1>1, <1>2, AppendIsConcat
<1>4. <<x>> \in Seq(T) /\ <<y>> \in Seq(T)
  OBVIOUS
<1>5. (s \o <<x>>) \o <<y>> = s \o (<<x>> \o <<y>>)
  BY <1>4, ConcatAssociative
<1>6. <<x>> \o <<y>> = <<x, y>>
  <2> DEFINE two == <<x>> \o <<y>>
  <2>1. /\ two \in Seq(T) /\ Len(two) = 1 + 1
        /\ \A i \in 1..(1 + 1) : two[i] = IF i <= 1 THEN x ELSE <<y>>[i - 1]
    BY <1>4, ConcatProperties
  <2>2. two[1] = x /\ two[2] = y
    BY <2>1
  <2>3. /\ <<x, y>> \in Seq(T) /\ Len(<<x, y>>) = 2
        /\ <<x, y>>[1] = x /\ <<x, y>>[2] = y
    OBVIOUS
  <2> HIDE DEF two
  <2>4. Len(two) = Len(<<x, y>>) /\ \A i \in 1..Len(two) : two[i] = <<x, y>>[i]
    BY <2>1, <2>2, <2>3
  <2>5. two = <<x, y>>
    BY <2>1, <2>3, <2>4, SeqEqual
  <2> QED
    BY <2>5 DEF two
<1> QED
  BY <1>1, <1>3, <1>5, <1>6

-----------------------------------------------------------------------------
(* The invariant, part one: what holds however many readers there are.     *)

Scripts == {Script.prompt, Script.newSession, Script.command,
            <<"state", "stats">>, <<"stats">>, <<"state">>}

\* A request that had to start Pi has its get_state before it.
Booting == {<<"boot">> \o todo : todo \in Scripts}

\* Call c has the rest of its script before it.
Follows(c) ==
  /\ c.pc = "ready" => c.todo \in Scripts
  /\ c.pc = "waiting" => c.todo \in Scripts \cup Booting
  /\ c.pc = "settling" => c.todo = <<"state", "stats">>

\* Nothing is left of a reader that is over.
OverIsOver == \A g \in Procs : ~proc[g].reading =>
                /\ proc[g].run = 0 /\ proc[g].inbox = <<>> /\ proc[g].pipe = <<>>

\* The prompt of call c is with Pi.
InRun(c) ==
  \/ c.pc = "settling"
  \/ c.pc = "waiting" /\ c.todo = Script.prompt /\ c.fate \in {"none", "answered"}

\* Whoever waits has been told that the reader is over.
EndIsReported ==
  process # 0 /\ ~proc[process].reading =>
    /\ ~(call.pc = "waiting" /\ call.fate = "none")
    /\ InRun(call) => Has(queue, {"exited", "failed"})

BaseInv == PiTypeOK /\ Follows(call) /\ OverIsOver /\ EndIsReported

\* What the scripts begin with, and what is left of them.
LEMMA Steps ==
  /\ Head(Script.prompt) = "prompt" /\ Tail(Script.prompt) = <<"state", "stats">>
  /\ Head(Script.newSession) = "newSession" /\ Tail(Script.newSession) = <<"state">>
  /\ Head(Script.command) = "command" /\ Tail(Script.command) = <<>>
  /\ Head(<<"state", "stats">>) = "state" /\ Tail(<<"state", "stats">>) = <<"stats">>
  /\ Head(<<"stats">>) = "stats" /\ Tail(<<"stats">>) = <<>>
  /\ Head(<<"state">>) = "state" /\ Tail(<<"state">>) = <<>>
  BY DEF Script

\* The scripts are made of requests, and only one begins with a prompt.
LEMMA ScriptFacts ==
  ASSUME NEW todo \in Scripts
  PROVE  /\ todo \in Seq(Requests) /\ todo # <<>>
         /\ Tail(todo) = <<>> \/ Tail(todo) \in Scripts
         /\ Head(todo) # "boot"
         /\ Head(todo) = "prompt" <=> todo = Script.prompt
         /\ Tail(todo) # Script.prompt
<1>1. /\ Script.prompt \in Seq(Requests) /\ Script.newSession \in Seq(Requests)
      /\ Script.command \in Seq(Requests)
      /\ Script.prompt # <<>> /\ Script.newSession # <<>> /\ Script.command # <<>>
  BY DEF Script, Requests
<1>2. /\ <<"state", "stats">> \in Seq(Requests) /\ <<"stats">> \in Seq(Requests)
      /\ <<"state">> \in Seq(Requests)
  BY DEF Requests
<1>3. CASE todo = Script.prompt
  <2>1. <<"state", "stats">> # Script.prompt
    BY Steps
  <2> QED
    BY <1>1, <1>3, <2>1, Steps DEF Scripts
<1>4. CASE todo = Script.newSession
  BY <1>1, <1>4, Steps DEF Scripts
<1>5. CASE todo = Script.command
  BY <1>1, <1>5, Steps DEF Scripts
<1>6. /\ <<"state", "stats">> # Script.prompt /\ <<"stats">> # Script.prompt
      /\ <<"state">> # Script.prompt /\ <<"stats">> \in Scripts
      /\ <<"state", "stats">> # <<>> /\ <<"stats">> # <<>> /\ <<"state">> # <<>>
  BY Steps DEF Scripts
<1>7. CASE todo = <<"state", "stats">>
  BY <1>1, <1>2, <1>6, <1>7, Steps
<1>8. CASE todo = <<"stats">>
  BY <1>1, <1>2, <1>6, <1>8, Steps
<1>9. CASE todo = <<"state">>
  BY <1>1, <1>2, <1>6, <1>9, Steps
<1> QED
  BY <1>3, <1>4, <1>5, <1>7, <1>8, <1>9 DEF Scripts

LEMMA BootFacts ==
  ASSUME NEW todo \in Scripts
  PROVE  LET booted == <<"boot">> \o todo IN
         /\ booted \in Seq(Requests) /\ booted # <<>>
         /\ Head(booted) = "boot" /\ Tail(booted) = todo
         /\ booted \notin Scripts
<1> DEFINE booted == <<"boot">> \o todo
<1>1. todo \in Seq(Requests) /\ <<"boot">> \in Seq(Requests)
  BY ScriptFacts DEF Requests
<1>2. /\ booted \in Seq(Requests) /\ Len(booted) = 1 + Len(todo)
      /\ \A i \in 1..(1 + Len(todo)) :
           booted[i] = IF i <= 1 THEN "boot" ELSE todo[i - 1]
  BY <1>1, ConcatProperties
<1>3. Len(todo) \in Nat
  BY <1>1, LenProperties
<1> HIDE DEF booted
<1>4. booted # <<>> /\ Head(booted) = "boot"
  BY <1>2, <1>3
<1>5. /\ Tail(booted) \in Seq(Requests) /\ Len(Tail(booted)) = Len(todo)
      /\ \A i \in 1..Len(Tail(booted)) : Tail(booted)[i] = booted[i + 1]
  BY <1>2, <1>3, <1>4, HeadTailProperties
<1>6. \A i \in 1..Len(todo) : booted[i + 1] = todo[i]
  BY <1>2, <1>3
<1>7. Tail(booted) = todo
  BY <1>1, <1>5, <1>6, SeqEqual
<1>8. booted \notin Scripts
  BY <1>4, ScriptFacts
<1> QED
  BY <1>2, <1>4, <1>7, <1>8 DEF booted

\* What a waiting call sent, and what is left of its script.
LEMMA WaitingFacts ==
  ASSUME NEW c, Follows(c), c.pc = "waiting"
  PROVE  \/ c.todo \in Scripts /\ Head(c.todo) # "boot"
         \/ /\ Head(c.todo) = "boot" /\ Tail(c.todo) \in Scripts /\ c.todo \notin Scripts
            /\ c.todo = <<"boot">> \o Tail(c.todo) /\ c.todo # <<>>
<1>1. CASE c.todo \in Scripts
  BY <1>1, ScriptFacts
<1>2. CASE c.todo \in Booting
  <2>1. PICK todo \in Scripts : c.todo = <<"boot">> \o todo
    BY <1>2 DEF Booting
  <2> QED
    BY <2>1, BootFacts
<1> QED
  BY <1>1, <1>2 DEF Follows

LEMMA SomethingToDo ==
  ASSUME NEW c, Follows(c), c.pc \in {"ready", "waiting"}
  PROVE  c.todo # <<>>
  BY WaitingFacts, ScriptFacts DEF Follows

-----------------------------------------------------------------------------
(* The types.                                                              *)

Typed == PiTypeOK /\ Follows(call)

\* A process that is gone, or was just started.
LEMMA GoneTyped ==
  Gone \in Proc /\ \A id \in Nat : Started(id) \in Proc
<1>1. Gone \in Proc
  BY DEF Gone, Proc
<1>2. ASSUME NEW id \in Nat
      PROVE  Started(id) \in Proc
  <2> DEFINE inbox == <<[request |-> "boot", id |-> id, run |-> 0]>>
  <2>1. inbox \in Seq([request : Requests, id : Nat, run : Nat])
    BY DEF Requests
  <2>2. Started(id) = [state |-> "alive", reading |-> TRUE, run |-> 0, pipe |-> <<>>,
                       inbox |-> inbox]
    BY DEF Started
  <2> HIDE DEF inbox
  <2> QED
    BY <2>1, <2>2 DEF Proc
<1> QED
  BY <1>1, <1>2

LEMMA ReturnTyped ==
  ASSUME Typed, NEW out \in {"ok", "failed"}, Return(out)
  PROVE  call' \in Call /\ Follows(call') /\ call'.pc = "idle"
<1>1. call' = [pc |-> "idle", stage |-> "enter", todo |-> <<>>, id |-> 0, fate |-> "none",
               run |-> call.run, answer |-> call.answer, outcome |-> out]
  BY DEF Return, Idle
<1>2. call.run \in Nat /\ call.answer \in Nat /\ <<>> \in Seq(Requests)
  BY DEF Typed, PiTypeOK, Call
<1>3. call' \in Call
  BY <1>1, <1>2 DEF Call
<1>4. call'.pc = "idle"
  BY <1>1
<1> QED
  BY <1>3, <1>4 DEF Follows

LEMMA CloseTyped ==
  ASSUME Typed, Close
  PROVE  /\ process' = 0
         /\ proc' \in [Procs -> Proc]
         /\ queue' \in Seq(Event)
<1>1. /\ Gone \in Proc /\ proc \in [Procs -> Proc]
      /\ process \in Procs \cup {0}
      /\ queue \in Seq(Event)
  BY GoneTyped DEF Typed, PiTypeOK
<1>2. CASE process = 0 /\ UNCHANGED <<process, proc, queue>>
  BY <1>1, <1>2
<1>3. CASE process' = 0 /\ proc' = [proc EXCEPT ![process] = Gone] /\ queue' = <<>>
  <2>1. queue' \in Seq(Event)
    BY <1>3, EmptySeq
  <2>2. proc' \in [Procs -> Proc]
    BY <1>1, <1>3
  <2> QED
    BY <1>3, <2>1, <2>2
<1> QED
  BY <1>2, <1>3 DEF Close

LEMMA ResolveTyped ==
  ASSUME Typed, NEW fate \in {"answered", "refused", "failed"}, call' = Resolve(fate)
  PROVE  /\ call' \in Call /\ Follows(call')
         /\ call'.pc = call.pc /\ call'.todo = call.todo
  BY DEF Typed, PiTypeOK, Resolve, Call, Follows

\* Process g is replaced by a record of its type and with its state.
LEMMA ProcTyped ==
  ASSUME Typed, NEW g \in Procs, NEW p \in Proc, proc' = [proc EXCEPT ![g] = p],
         p.state \in {proc[g].state, "alive", "dead", "reaped"}, process' = process,
         call' \in Call, Follows(call'),
         queue' \in Seq(Event), UNCHANGED overtaken,
         fault' \in BOOLEAN, earlier' \in BOOLEAN
  PROVE  Typed'
<1>1. call'.pc \in {"ready", "waiting"} => call'.todo # <<>>
  BY SomethingToDo
<1> QED
  BY <1>1 DEF Typed, PiTypeOK

\* The present process and its pipes are as they were, or it is gone.
LEMMA RestTyped ==
  ASSUME Typed, (process' = process /\ proc' = proc) \/ Close,
         call' \in Call, Follows(call'),
         queue' \in Seq(Event), overtaken' \in 0..(MaxAfter + 1),
         fault' \in BOOLEAN, earlier' \in BOOLEAN
  PROVE  Typed'
<1>1. call'.pc \in {"ready", "waiting"} => call'.todo # <<>>
  BY SomethingToDo
<1>2. CASE process' = process /\ proc' = proc
  BY <1>1, <1>2 DEF Typed, PiTypeOK
<1>3. CASE Close
  BY <1>1, <1>3, CloseTyped DEF Typed, PiTypeOK
<1> QED
  BY <1>2, <1>3

LEMMA DiscardedTyped ==
  ASSUME Typed
  PROVE  Discarded \in Seq(Event) /\ <<>> \in Seq(Event)
  BY DEF Typed, PiTypeOK, Discarded

\* A line that is said joins the pipe.
LEMMA SaysTyped ==
  ASSUME Typed, NEW g \in Procs, NEW x \in Line, NEW y \in Line
  PROVE  /\ Says(g, <<x>>) = Append(proc[g].pipe, x)
         /\ Says(g, <<x, y>>) = Append(Append(proc[g].pipe, x), y)
         /\ Says(g, <<x>>) \in Seq(Line)
         /\ Says(g, <<x, y>>) \in Seq(Line)
<1>1. proc[g].pipe \in Seq(Line)
  BY DEF Typed, PiTypeOK, Proc
<1>2. Append(proc[g].pipe, x) \in Seq(Line)
  BY <1>1, AppendProperties
<1>3. Append(Append(proc[g].pipe, x), y) \in Seq(Line)
  BY <1>2, AppendProperties
<1> QED
  BY <1>1, <1>2, <1>3, SaidAtTheEnd DEF Says

\* The steps of a call.
LEMMA CallStepTyped ==
  ASSUME Typed, CallStep
  PROVE  Typed'
<1>0. /\ call \in Call /\ queue \in Seq(Event) /\ proc \in [Procs -> Proc]
      /\ process \in Procs \cup {0}
      /\ fault \in BOOLEAN /\ earlier \in BOOLEAN /\ overtaken \in 0..(MaxAfter + 1)
      /\ Follows(call) /\ Discarded \in Seq(Event)
      /\ MaxAfter \in Nat
  BY DiscardedTyped, PiRpcAssumption DEF Typed, PiTypeOK
<1>1. FreshId \in Nat /\ FreshRun \in Nat
  BY FreshNumbers DEF Typed
<1>2. CASE Start
  <2>1. PICK g \in Unread : process' = g /\ proc' = [proc EXCEPT ![g] = Started(FreshId)]
    BY <1>2 DEF Start
  <2>2. g \in Procs /\ Started(FreshId) \in Proc /\ Started(FreshId).state = "alive"
    BY <1>1, <2>1, GoneTyped DEF Unread, Started
  <2>3. call.pc = "ready" /\ call.todo \in Scripts
    BY <1>0, <1>2 DEF Start, MustStart, Follows
  <2>4. <<"boot">> \o call.todo \in Seq(Requests) /\ <<"boot">> \o call.todo \in Booting
    BY <2>3, BootFacts DEF Booting
  <2>5. /\ call'.pc = "waiting" /\ call'.todo = <<"boot">> \o call.todo
        /\ call' \in Call
    BY <1>0, <1>1, <1>2, <2>4 DEF Start, Call
  <2>6. Follows(call')
    BY <2>4, <2>5 DEF Follows
  <2>7. call'.todo # <<>>
    BY <2>5, <2>6, SomethingToDo
  <2>8. queue' \in Seq(Event) /\ overtaken' \in 0..(MaxAfter + 1)
        /\ fault' \in BOOLEAN /\ earlier' \in BOOLEAN
    BY <1>0, <1>2 DEF Start
  <2>9. process' \in Procs \cup {0} /\ proc' \in [Procs -> Proc]
        /\ (process' # 0 => proc'[process'].state # "none")
    BY <1>0, <2>1, <2>2
  <2> QED
    BY <2>5, <2>6, <2>7, <2>8, <2>9 DEF Typed, PiTypeOK
<1>3. CASE StartFails \/ WriteFails
  <2>1. call' \in Call /\ Follows(call')
    BY <1>3, ReturnTyped DEF StartFails, WriteFails
  <2> QED
    BY <1>0, <1>3, <2>1, RestTyped DEF StartFails, WriteFails, Seen
<1>4. CASE WithoutPi
  <2>1. call' \in Call /\ Follows(call')
    BY <1>4, ReturnTyped DEF WithoutPi
  <2> QED
    BY <1>0, <1>4, <2>1, RestTyped DEF WithoutPi, NothingSeen
<1>5. CASE ReaderIsOver
  <2>1. call' \in Call /\ Follows(call') /\ Close
    BY <1>5, ReturnTyped DEF ReaderIsOver
  <2>2. queue' \in Seq(Event)
    BY <2>1, CloseTyped
  <2> QED
    BY <1>0, <1>5, <2>1, <2>2, RestTyped DEF ReaderIsOver, NothingSeen
<1>6. CASE Send
  <2> DEFINE id == FreshId
             run == FreshRun
             request == [request |-> Sending, id |-> id,
                         run |-> IF Sending = "prompt" THEN run ELSE 0]
             inbox == IF proc[process].state = "alive"
                      THEN Append(proc[process].inbox, request) ELSE proc[process].inbox
             p == [proc[process] EXCEPT !.inbox = inbox]
  <2>1. call.pc = "ready" /\ call.todo \in Scripts /\ process \in Procs
    BY <1>0, <1>6 DEF Send, MaySend, Follows
  <2>2. Sending \in Requests
    BY <2>1, ScriptFacts, HeadTailProperties DEF Sending
  <2>3. /\ call' = [call EXCEPT !.pc = "waiting", !.id = id, !.fate = "none",
                                !.run = IF Sending = "prompt" THEN run ELSE call.run]
        /\ proc' = [proc EXCEPT ![process].inbox =
                      IF proc[process].state = "alive" THEN Append(@, request) ELSE @]
    BY <1>6 DEF Send
  <2>4. id \in Nat /\ run \in Nat
    BY <1>1
  <2> HIDE DEF id, run
  <2>5. request \in [request : Requests, id : Nat, run : Nat]
    BY <2>2, <2>4
  <2>6. proc' = [proc EXCEPT ![process] = p]
    BY <1>0, <2>1, <2>3
  <2> HIDE DEF request
  <2>7. proc[process] \in Proc /\ inbox \in Seq([request : Requests, id : Nat, run : Nat])
    BY <1>0, <2>1, <2>5, AppendProperties DEF Proc
  <2> HIDE DEF inbox
  <2>8. p \in Proc /\ p.state = proc[process].state
    BY <2>7 DEF Proc
  <2>9. call' \in Call /\ call'.pc = "waiting" /\ call'.todo = call.todo
    BY <1>0, <2>3, <2>4 DEF Call
  <2>10. Follows(call')
    BY <2>1, <2>9 DEF Follows
  <2> HIDE DEF p
  <2> QED
    BY <1>0, <1>6, <2>1, <2>6, <2>8, <2>9, <2>10, ProcTyped DEF Send, NothingSeen
<1>7. CASE Answered
  <2> DEFINE rest == Tail(call.todo)
             stage == IF Sending = "boot" /\ call.stage = "inner" THEN "inner" ELSE "body"
  <2>0. call.todo # <<>> /\ call.todo \in Seq(Requests) /\ rest \in Seq(Requests)
    BY <1>0, <1>7, SomethingToDo, HeadTailProperties DEF Answered, Call
  <2>1. call' \in Call /\ Follows(call')
    <3>1. CASE Sending = "prompt"
      <4>1. call.todo = Script.prompt
        BY <1>0, <1>7, <3>1, WaitingFacts, ScriptFacts DEF Answered, Sending
      <4>2. rest = <<"state", "stats">> /\ rest # <<>>
        BY <4>1, Steps
      <4>3. call' = [call EXCEPT !.pc = "settling", !.todo = rest]
        BY <1>7, <3>1, <4>2 DEF Answered
      <4> HIDE DEF rest
      <4>4. call' \in Call /\ call'.pc = "settling" /\ call'.todo = rest
        BY <1>0, <2>0, <4>3 DEF Call
      <4> QED
        BY <4>2, <4>4 DEF Follows
    <3>2. CASE Sending # "prompt" /\ rest = <<>>
      BY <1>7, <3>2, ReturnTyped DEF Answered
    <3>3. CASE Sending # "prompt" /\ rest # <<>>
      <4>1. call' = [call EXCEPT !.pc = "ready", !.todo = rest, !.stage = stage]
        BY <1>7, <3>3 DEF Answered
      <4>2. rest \in Scripts
        BY <1>0, <1>7, <3>3, WaitingFacts, ScriptFacts DEF Answered, Sending
      <4> HIDE DEF rest
      <4>3. stage \in {"body", "inner"}
        OBVIOUS
      <4> HIDE DEF stage
      <4>4. call' \in Call /\ call'.pc = "ready" /\ call'.todo = rest
        BY <1>0, <2>0, <4>1, <4>3 DEF Call
      <4> QED
        BY <4>2, <4>4 DEF Follows
    <3> QED
      BY <3>1, <3>2, <3>3
  <2> QED
    BY <1>0, <1>7, <2>1, RestTyped DEF Answered, NothingSeen
<1>8. CASE NotAnswered
  <2>1. call' \in Call /\ Follows(call')
    BY <1>8, ReturnTyped DEF NotAnswered
  <2>2. queue' \in Seq(Event) /\ ((process' = process /\ proc' = proc) \/ Close)
    BY <1>0, <1>8, CloseTyped DEF NotAnswered
  <2> QED
    BY <1>0, <1>8, <2>1, <2>2, RestTyped DEF NotAnswered, NothingSeen
<1>9. CASE BadRun
  <2>1. call' \in Call /\ Follows(call')
    BY <1>9, ReturnTyped DEF BadRun
  <2>2. call.pc = "settling" => queue # <<>>
    BY <1>9 DEF BadRun
  <2>3. queue' \in Seq(Event)
    BY <1>0, <1>9, <2>2, HeadTailProperties DEF BadRun
  <2> QED
    BY <1>0, <1>9, <2>1, <2>3, RestTyped DEF BadRun, Seen
<1>10. CASE TakeEvent
  <2>1. queue # <<>> /\ Head(queue) \in Event /\ Tail(queue) \in Seq(Event)
        /\ call.pc = "settling" /\ queue' = Tail(queue)
    BY <1>0, <1>10, HeadTailProperties DEF TakeEvent
  <2>2. call' \in Call /\ Follows(call')
    <3>1. CASE call' = [call EXCEPT !.answer = Head(queue).ref]
      <4>1. Head(queue).ref \in Nat
        BY <2>1 DEF Event
      <4>2. call' \in Call /\ call'.pc = call.pc /\ call'.todo = call.todo
        BY <1>0, <3>1, <4>1 DEF Call
      <4> QED
        BY <1>0, <4>2 DEF Follows
    <3>2. CASE call' = [call EXCEPT !.pc = "ready", !.stage = "body"]
      <4>1. call' \in Call /\ call'.pc = "ready" /\ call'.todo = call.todo
        BY <1>0, <3>2 DEF Call
      <4> QED
        BY <1>0, <2>1, <4>1 DEF Follows, Scripts
    <3>3. CASE Return("failed")
      BY <3>3, ReturnTyped
    <3> QED
      BY <1>10, <3>1, <3>2, <3>3 DEF TakeEvent
  <2> QED
    BY <1>0, <1>10, <2>1, <2>2, RestTyped DEF TakeEvent, NothingSeen
<1>11. CASE TimesOut
  <2>1. call' \in Call /\ Follows(call') /\ Close /\ queue' \in Seq(Event)
    BY <1>11, ReturnTyped, CloseTyped DEF TimesOut
  <2> QED
    BY <1>0, <1>11, <2>1, RestTyped DEF TimesOut, Seen
<1> QED
  BY <1>2, <1>3, <1>4, <1>5, <1>6, <1>7, <1>8, <1>9, <1>10, <1>11 DEF CallStep

\* The steps of a process and of the task that reads it.
ReaderStep(g) == ReadLine(g) \/ ReaderBreaks(g) \/ ReaderEnds(g)

PiStep(g) ==
  \/ PiAnswers(g) \/ PiRefuses(g) \/ PiGarbles(g)
  \/ PiSettles(g) \/ PiSettlesWithoutMessage(g)
  \/ PiDies(g) \/ ExitSeen(g)

\* What a reader does: p is its process from then on.
LEMMA ReaderStepIs ==
  ASSUME Typed, NEW g \in Procs, ReaderStep(g)
  PROVE  /\ proc[g].reading /\ UNCHANGED process
         /\ \/ /\ proc[g].pipe # <<>>
               /\ proc' = [proc EXCEPT ![g] = [proc[g] EXCEPT !.pipe = Tail(proc[g].pipe)]]
               /\ NothingSeen
               /\ \/ /\ Head(proc[g].pipe).kind \in {"answered", "refused"}
                     /\ call' \in {call, Resolve(Head(proc[g].pipe).kind)}
                     /\ UNCHANGED queue
                  \/ /\ Head(proc[g].pipe).kind \in {"message", "settled"}
                     /\ Head(proc[g].pipe) \in Event
                     /\ queue' = Append(queue, Head(proc[g].pipe))
                     /\ UNCHANGED call
            \/ /\ proc' = [proc EXCEPT ![g] = [proc[g] EXCEPT !.reading = FALSE, !.run = 0,
                                                 !.inbox = <<>>, !.pipe = <<>>]]
               /\ call' = Resolve("failed")
               /\ \E kind \in {"exited", "failed"} :
                    queue' = Append(queue, [kind |-> kind, ref |-> 0])
               /\ Seen \/ (NothingSeen /\ proc[g].state = "reaped")
<1>1. proc \in [Procs -> Proc] /\ proc[g] \in Proc /\ proc[g].pipe \in Seq(Line)
  BY DEF Typed, PiTypeOK, Proc
<1>2. CASE ReadLine(g)
  <2> DEFINE line == Head(proc[g].pipe)
  <2>1. proc[g].pipe # <<>> /\ proc[g].reading /\ UNCHANGED process
    BY <1>2 DEF ReadLine
  <2>2. line \in Line
    BY <1>1, <2>1, HeadTailProperties
  <2>3. proc' = [proc EXCEPT ![g] = [proc[g] EXCEPT !.pipe = Tail(proc[g].pipe)]]
    BY <1>1, <1>2 DEF ReadLine
  <2>4. CASE line.kind \in {"answered", "refused"}
    <3>1. call' \in {call, Resolve(line.kind)} /\ UNCHANGED queue
      BY <1>2, <2>4 DEF ReadLine
    <3> QED
      BY <1>2, <2>1, <2>3, <2>4, <3>1 DEF ReadLine
  <2>5. CASE line.kind \notin {"answered", "refused"}
    <3>1. line.kind \in {"message", "settled"} /\ line \in Event
      BY <1>2, <2>2, <2>5 DEF ReadLine, Line, Event
    <3>2. queue' = Append(queue, line) /\ UNCHANGED call
      BY <1>2, <2>5 DEF ReadLine
    <3> QED
      BY <1>2, <2>1, <2>3, <3>1, <3>2 DEF ReadLine
  <2> QED
    BY <2>4, <2>5
<1>3. ASSUME NEW kind \in {"exited", "failed"}, ReaderStops(g, kind)
      PROVE  /\ proc' = [proc EXCEPT ![g] = [proc[g] EXCEPT !.reading = FALSE, !.run = 0,
                                                 !.inbox = <<>>, !.pipe = <<>>]]
             /\ call' = Resolve("failed") /\ UNCHANGED process
             /\ queue' = Append(queue, [kind |-> kind, ref |-> 0])
  BY <1>1, <1>3 DEF ReaderStops
<1>4. CASE ReaderBreaks(g)
  BY <1>3, <1>4 DEF ReaderBreaks
<1>5. CASE ReaderEnds(g)
  BY <1>3, <1>5 DEF ReaderEnds
<1> QED
  BY <1>2, <1>4, <1>5 DEF ReaderStep

\* What Pi does: it touches its process only, and records what goes wrong.
PiChanges(g, p) ==
  /\ proc' = [proc EXCEPT ![g] = p]
  /\ UNCHANGED <<process, call, queue, overtaken, earlier>>
  /\ fault' \in {fault, TRUE}

LEMMA PiStepIs ==
  ASSUME Typed, NEW g \in Procs, PiStep(g)
  PROVE  \E p \in Proc :
           /\ PiChanges(g, p)
           /\ p.reading = proc[g].reading
           /\ p.state \in {proc[g].state, "dead", "reaped"}
           /\ \/ PiAnswers(g) /\ p = [proc[g] EXCEPT
                   !.inbox = Tail(proc[g].inbox),
                   !.run = IF Head(proc[g].inbox).request = "prompt"
                           THEN Head(proc[g].inbox).run ELSE proc[g].run,
                   !.pipe = Append(proc[g].pipe,
                                   [kind |-> "answered", ref |-> Head(proc[g].inbox).id])]
              \/ PiRefuses(g) /\ p = [proc[g] EXCEPT
                   !.inbox = Tail(proc[g].inbox),
                   !.pipe = Append(proc[g].pipe,
                                   [kind |-> "refused", ref |-> Head(proc[g].inbox).id])]
              \/ PiGarbles(g) /\ p = [proc[g] EXCEPT
                   !.pipe = Append(proc[g].pipe, [kind |-> "garbled", ref |-> 0])]
              \/ PiSettles(g) /\ p = [proc[g] EXCEPT
                   !.run = 0,
                   !.pipe = Append(Append(proc[g].pipe,
                                   [kind |-> "message", ref |-> proc[g].run]),
                                   [kind |-> "settled", ref |-> 0])]
              \/ PiSettlesWithoutMessage(g) /\ p = [proc[g] EXCEPT
                   !.run = 0,
                   !.pipe = Append(proc[g].pipe, [kind |-> "settled", ref |-> 0])]
              \/ PiDies(g) /\ p = [proc[g] EXCEPT
                   !.state = "dead", !.run = 0, !.inbox = <<>>]
              \/ ExitSeen(g) /\ p = [proc[g] EXCEPT !.state = "reaped"]
<1> DEFINE old == proc[g]
<1>1. /\ proc \in [Procs -> Proc] /\ old \in Proc /\ fault \in BOOLEAN
      /\ old.pipe \in Seq(Line) /\ old.run \in Nat
      /\ old.inbox \in Seq([request : Requests, id : Nat, run : Nat])
  BY DEF Typed, PiTypeOK, Proc
<1>2. [kind |-> "garbled", ref |-> 0] \in Line /\ [kind |-> "settled", ref |-> 0] \in Line
      /\ [kind |-> "message", ref |-> old.run] \in Line
  BY <1>1 DEF Line
<1>3. ASSUME old.inbox # <<>>
      PROVE  /\ Head(old.inbox).run \in Nat
             /\ [kind |-> "answered", ref |-> Head(old.inbox).id] \in Line
             /\ [kind |-> "refused", ref |-> Head(old.inbox).id] \in Line
             /\ Tail(old.inbox) \in Seq([request : Requests, id : Nat, run : Nat])
  <2>1. /\ Head(old.inbox) \in [request : Requests, id : Nat, run : Nat]
        /\ Tail(old.inbox) \in Seq([request : Requests, id : Nat, run : Nat])
    BY <1>1, <1>3, HeadTailProperties
  <2> QED
    BY <2>1 DEF Line
<1>4. CASE PiAnswers(g)
  <2> DEFINE pipe == Append(old.pipe, [kind |-> "answered", ref |-> Head(old.inbox).id])
             run == IF Head(old.inbox).request = "prompt" THEN Head(old.inbox).run ELSE old.run
             inbox == Tail(old.inbox)
             p == [old EXCEPT !.inbox = inbox, !.run = run, !.pipe = pipe]
  <2>1. old.inbox # <<>>
    BY <1>4 DEF PiAnswers
  <2>2. pipe = Says(g, <<[kind |-> "answered", ref |-> Head(old.inbox).id]>>)
        /\ pipe \in Seq(Line)
    BY <1>3, <2>1, SaysTyped
  <2>3. proc' = [proc EXCEPT ![g] = p]
    BY <1>1, <1>4, <2>2 DEF PiAnswers
  <2>4. run \in Nat /\ inbox \in Seq([request : Requests, id : Nat, run : Nat])
    BY <1>1, <1>3, <2>1
  <2>5. PiChanges(g, p)
    BY <1>4, <2>3 DEF PiAnswers, PiChanges
  <2> HIDE DEF run, pipe, inbox
  <2>6. p \in Proc /\ p.reading = old.reading /\ p.state = old.state
    BY <1>1, <2>2, <2>4 DEF Proc
  <2> HIDE DEF p
  <2> QED
    BY <1>4, <2>5, <2>6 DEF p, run, pipe, inbox
<1>5. CASE PiRefuses(g)
  <2> DEFINE pipe == Append(old.pipe, [kind |-> "refused", ref |-> Head(old.inbox).id])
             inbox == Tail(old.inbox)
             p == [old EXCEPT !.inbox = inbox, !.pipe = pipe]
  <2>1. old.inbox # <<>>
    BY <1>5 DEF PiRefuses
  <2>2. pipe = Says(g, <<[kind |-> "refused", ref |-> Head(old.inbox).id]>>)
        /\ pipe \in Seq(Line)
    BY <1>3, <2>1, SaysTyped
  <2>3. proc' = [proc EXCEPT ![g] = p]
    BY <1>1, <1>5, <2>2 DEF PiRefuses
  <2>4. inbox \in Seq([request : Requests, id : Nat, run : Nat])
    BY <1>1, <1>3, <2>1
  <2>5. PiChanges(g, p)
    BY <1>5, <2>3 DEF PiRefuses, PiChanges, Seen
  <2> HIDE DEF pipe, inbox
  <2>6. p \in Proc /\ p.reading = old.reading /\ p.state = old.state
    BY <1>1, <2>2, <2>4 DEF Proc
  <2> HIDE DEF p
  <2> QED
    BY <1>5, <2>5, <2>6 DEF p, pipe, inbox
<1>6. CASE PiGarbles(g)
  <2> DEFINE pipe == Append(old.pipe, [kind |-> "garbled", ref |-> 0])
             p == [old EXCEPT !.pipe = pipe]
  <2>1. pipe = Says(g, <<[kind |-> "garbled", ref |-> 0]>>) /\ pipe \in Seq(Line)
    BY <1>2, SaysTyped
  <2>2. PiChanges(g, p)
    BY <1>1, <1>6, <2>1 DEF PiGarbles, PiChanges
  <2> HIDE DEF pipe
  <2>3. p \in Proc /\ p.reading = old.reading /\ p.state = old.state
    BY <1>1, <2>1 DEF Proc
  <2> HIDE DEF p
  <2> QED
    BY <1>6, <2>2, <2>3 DEF p, pipe
<1>7. CASE PiSettles(g)
  <2> DEFINE pipe == Append(Append(old.pipe, [kind |-> "message", ref |-> old.run]),
                            [kind |-> "settled", ref |-> 0])
             p == [old EXCEPT !.run = 0, !.pipe = pipe]
  <2>1. pipe = Says(g, <<[kind |-> "message", ref |-> old.run],
                         [kind |-> "settled", ref |-> 0]>>) /\ pipe \in Seq(Line)
    BY <1>2, SaysTyped
  <2>2. PiChanges(g, p)
    BY <1>1, <1>7, <2>1 DEF PiSettles, PiChanges
  <2> HIDE DEF pipe
  <2>3. p \in Proc /\ p.reading = old.reading /\ p.state = old.state
    BY <1>1, <2>1 DEF Proc
  <2> HIDE DEF p
  <2> QED
    BY <1>7, <2>2, <2>3 DEF p, pipe
<1>8. CASE PiSettlesWithoutMessage(g)
  <2> DEFINE pipe == Append(old.pipe, [kind |-> "settled", ref |-> 0])
             p == [old EXCEPT !.run = 0, !.pipe = pipe]
  <2>1. pipe = Says(g, <<[kind |-> "settled", ref |-> 0]>>) /\ pipe \in Seq(Line)
    BY <1>2, SaysTyped
  <2>2. PiChanges(g, p)
    BY <1>1, <1>8, <2>1 DEF PiSettlesWithoutMessage, PiChanges, Seen
  <2> HIDE DEF pipe
  <2>3. p \in Proc /\ p.reading = old.reading /\ p.state = old.state
    BY <1>1, <2>1 DEF Proc
  <2> HIDE DEF p
  <2> QED
    BY <1>8, <2>2, <2>3 DEF p, pipe
<1>9. CASE PiDies(g)
  <2> DEFINE p == [old EXCEPT !.state = "dead", !.run = 0, !.inbox = <<>>]
  <2>1. PiChanges(g, p)
    BY <1>1, <1>9 DEF PiDies, PiChanges
  <2>2. <<>> \in Seq([request : Requests, id : Nat, run : Nat])
    BY EmptySeq
  <2>3. p \in Proc /\ p.reading = old.reading /\ p.state = "dead"
    BY <1>1, <2>2 DEF Proc
  <2> HIDE DEF p
  <2> QED
    BY <1>9, <2>1, <2>3 DEF p
<1>10. CASE ExitSeen(g)
  <2> DEFINE p == [old EXCEPT !.state = "reaped"]
  <2>1. PiChanges(g, p)
    BY <1>1, <1>10 DEF ExitSeen, PiChanges, Seen
  <2>2. p \in Proc /\ p.reading = old.reading /\ p.state = "reaped"
    BY <1>1 DEF Proc
  <2> HIDE DEF p
  <2> QED
    BY <1>10, <2>1, <2>2 DEF p
<1> QED
  BY <1>4, <1>5, <1>6, <1>7, <1>8, <1>9, <1>10 DEF PiStep

LEMMA NextIs ==
  ASSUME [Next]_vars
  PROVE  \/ \E op \in DOMAIN Script : Begin(op)
         \/ CallStep
         \/ \E g \in Procs : ReaderStep(g) \/ PiStep(g)
         \/ ClosedByService \/ Restart \/ UNCHANGED vars
  BY DEF Next, ReaderStep, PiStep

LEMMA InitTyped ==
  /\ Gone \in Proc /\ Idle \in Call /\ <<>> \in Seq(Event)
  /\ Follows(Idle) /\ Idle.pc = "idle"
  /\ 0 \in 0..(MaxAfter + 1)
<1>1. <<>> \in Seq(Requests) /\ <<>> \in Seq(Event)
  BY EmptySeq
<1>2. Idle \in Call
  BY <1>1 DEF Idle, Call
<1>3. Idle.pc = "idle"
  BY DEF Idle
<1>4. 0 \in 0..(MaxAfter + 1)
  BY PiRpcAssumption
<1> QED
  BY <1>1, <1>2, <1>3, <1>4, GoneTyped DEF Follows

LEMMA BeginIs ==
  ASSUME NEW op \in DOMAIN Script, Begin(op)
  PROVE  /\ call' \in Call /\ call'.todo \in Scripts
         /\ call'.pc = "ready" /\ call'.stage = "enter"
         /\ call'.run = 0 /\ call'.answer = 0 /\ call'.outcome = "none"
         /\ UNCHANGED <<process, proc, queue>>
<1> DEFINE todo == Script[op]
<1>1. todo \in Scripts
  BY DEF Script, Scripts
<1>2. todo \in Seq(Requests)
  BY <1>1, ScriptFacts
<1>3. call' = [Idle EXCEPT !.pc = "ready", !.todo = todo] /\ UNCHANGED <<process, proc, queue>>
  BY DEF Begin
<1>4. Idle \in Call /\ Idle.stage = "enter" /\ Idle.run = 0 /\ Idle.answer = 0
      /\ Idle.outcome = "none"
  BY InitTyped DEF Idle
<1> HIDE DEF todo
<1> QED
  BY <1>1, <1>2, <1>3, <1>4 DEF Call

\* Every step keeps the types.
LEMMA TypedStep ==
  ASSUME Typed, [Next]_vars
  PROVE  Typed'
<1>0. /\ call \in Call /\ queue \in Seq(Event) /\ proc \in [Procs -> Proc]
      /\ process \in Procs \cup {0}
      /\ fault \in BOOLEAN /\ earlier \in BOOLEAN /\ overtaken \in 0..(MaxAfter + 1)
      /\ Follows(call) /\ MaxAfter \in Nat
  BY PiRpcAssumption DEF Typed, PiTypeOK
<1>1. ASSUME NEW op \in DOMAIN Script, Begin(op)
      PROVE  Typed'
  <2>1. call' \in Call /\ call'.todo \in Scripts /\ call'.pc = "ready"
    BY <1>1, BeginIs
  <2>2. Follows(call')
    BY <2>1 DEF Follows
  <2>4. overtaken' \in 0..(MaxAfter + 1)
    BY <1>0, <1>1 DEF Begin
  <2>5. queue' = queue /\ process' = process /\ proc' = proc
        /\ fault' \in BOOLEAN /\ earlier' \in BOOLEAN
    BY <1>0, <1>1 DEF Begin
  <2> QED
    BY <1>0, <2>1, <2>2, <2>4, <2>5, RestTyped
<1>2. CASE CallStep
  BY <1>2, CallStepTyped
<1>3. ASSUME NEW g \in Procs, ReaderStep(g)
      PROVE  Typed'
  <2> DEFINE line == Head(proc[g].pipe)
             pipe == Tail(proc[g].pipe)
  <2>1. proc[g] \in Proc /\ proc[g].pipe \in Seq(Line) /\ process' = process
    BY <1>0, <1>3, ReaderStepIs DEF Proc
  <2>2. CASE /\ proc[g].pipe # <<>>
             /\ proc' = [proc EXCEPT ![g] = [proc[g] EXCEPT !.pipe = pipe]]
             /\ NothingSeen
             /\ \/ /\ line.kind \in {"answered", "refused"}
                   /\ call' \in {call, Resolve(line.kind)}
                   /\ UNCHANGED queue
                \/ /\ line.kind \in {"message", "settled"}
                   /\ line \in Event
                   /\ queue' = Append(queue, line)
                   /\ UNCHANGED call
    <3> DEFINE p == [proc[g] EXCEPT !.pipe = pipe]
    <3>1. pipe \in Seq(Line)
      BY <2>1, <2>2, HeadTailProperties
    <3>2. call' \in Call /\ Follows(call')
      BY <1>0, <2>2, ResolveTyped
    <3>3. queue' \in Seq(Event)
      BY <1>0, <2>2, AppendProperties
    <3>4. proc' = [proc EXCEPT ![g] = p]
      BY <2>2
    <3> HIDE DEF pipe
    <3>5. p \in Proc /\ p.state = proc[g].state
      BY <2>1, <3>1 DEF Proc
    <3> HIDE DEF p
    <3> QED
      BY <1>0, <2>1, <2>2, <3>2, <3>3, <3>4, <3>5, ProcTyped DEF NothingSeen
  <2>3. CASE /\ proc' = [proc EXCEPT ![g] = [proc[g] EXCEPT !.reading = FALSE, !.run = 0,
                                               !.inbox = <<>>, !.pipe = <<>>]]
             /\ call' = Resolve("failed")
             /\ \E kind \in {"exited", "failed"} :
                  queue' = Append(queue, [kind |-> kind, ref |-> 0])
             /\ Seen \/ NothingSeen
    <3> DEFINE p == [proc[g] EXCEPT !.reading = FALSE, !.run = 0, !.inbox = <<>>, !.pipe = <<>>]
    <3>1. call' \in Call /\ Follows(call')
      BY <2>3, ResolveTyped
    <3>2. queue' \in Seq(Event)
      <4>1. PICK kind \in {"exited", "failed"} : queue' = Append(queue, [kind |-> kind, ref |-> 0])
        BY <2>3
      <4>2. [kind |-> kind, ref |-> 0] \in Event
        BY DEF Event
      <4> QED
        BY <1>0, <4>1, <4>2, AppendProperties
    <3>3. proc' = [proc EXCEPT ![g] = p]
      BY <2>3
    <3>4. <<>> \in Seq(Line) /\ <<>> \in Seq([request : Requests, id : Nat, run : Nat])
      BY EmptySeq
    <3>5. p \in Proc /\ p.state = proc[g].state
      BY <2>1, <3>4 DEF Proc
    <3>6. fault' \in BOOLEAN /\ earlier' \in BOOLEAN /\ UNCHANGED overtaken
      BY <1>0, <2>3 DEF Seen, NothingSeen
    <3> HIDE DEF p
    <3> QED
      BY <2>1, <3>1, <3>2, <3>3, <3>5, <3>6, ProcTyped
  <2> QED
    BY <1>3, <2>2, <2>3, ReaderStepIs
<1>4. ASSUME NEW g \in Procs, PiStep(g)
      PROVE  Typed'
  <2>1. PICK p \in Proc : PiChanges(g, p) /\ p.state \in {proc[g].state, "dead", "reaped"}
    BY <1>4, PiStepIs
  <2> QED
    BY <1>0, <2>1, ProcTyped DEF PiChanges
<1>5. CASE ClosedByService
  <2>1. call' \in Call /\ Follows(call')
    BY <1>5, ReturnTyped, ResolveTyped DEF ClosedByService
  <2>2. Close /\ queue' \in Seq(Event) /\ overtaken' \in 0..(MaxAfter + 1)
        /\ fault' \in BOOLEAN /\ earlier' \in BOOLEAN
    BY <1>0, <1>5, CloseTyped DEF ClosedByService, Seen
  <2> QED
    BY <2>1, <2>2, RestTyped
<1>6. CASE Restart
  BY <1>6, InitTyped DEF Restart, Typed, PiTypeOK
<1>7. CASE UNCHANGED vars
  BY <1>7 DEF vars, Typed, PiTypeOK
<1> QED
  BY <1>1, <1>2, <1>3, <1>4, <1>5, <1>6, <1>7, NextIs

\* What becomes of the processes: one is replaced, or it is as it was.
Cleared(p) == ~p.reading => p.run = 0 /\ p.inbox = <<>> /\ p.pipe = <<>>

LEMMA OverStep ==
  ASSUME BaseInv, [Next]_vars
  PROVE  OverIsOver'
<1>0. proc \in [Procs -> Proc] /\ OverIsOver /\ Typed /\ Cleared(Gone)
  BY DEF BaseInv, PiTypeOK, Typed, Cleared, Gone
<1>1. ASSUME NEW g \in Procs, NEW p, Cleared(p), proc' = [proc EXCEPT ![g] = p]
      PROVE  OverIsOver'
  BY <1>0, <1>1 DEF OverIsOver, Cleared
<1>2. ASSUME UNCHANGED proc
      PROVE  OverIsOver'
  BY <1>0, <1>2 DEF OverIsOver
<1>3. ASSUME Close
      PROVE  OverIsOver'
  <2>1. process \in Procs \cup {0}
    BY DEF BaseInv, PiTypeOK
  <2> QED
    BY <1>0, <1>1, <1>2, <1>3, <2>1 DEF Close
<1>4. CASE CallStep
  <2>1. CASE Start
    <3>1. PICK g \in Unread : proc' = [proc EXCEPT ![g] = Started(FreshId)]
      BY <2>1 DEF Start
    <3>2. Cleared(Started(FreshId)) /\ g \in Procs
      BY DEF Started, Cleared, Unread
    <3> QED
      BY <1>1, <3>1, <3>2
  <2>2. CASE Send
    <3> DEFINE inbox == IF proc[process].state = "alive"
                        THEN Append(proc[process].inbox,
                               [request |-> Sending, id |-> FreshId,
                                run |-> IF Sending = "prompt" THEN FreshRun ELSE 0])
                        ELSE proc[process].inbox
               p == [proc[process] EXCEPT !.inbox = inbox]
    <3>1. process \in Procs /\ proc[process] \in Proc /\ proc[process].reading
      BY <1>0, <2>2 DEF Send, MaySend, BaseInv, PiTypeOK
    <3>2. proc' = [proc EXCEPT ![process] = p]
      BY <1>0, <2>2, <3>1 DEF Send
    <3> HIDE DEF inbox
    <3>3. p.reading
      BY <3>1 DEF Proc
    <3> QED
      BY <1>1, <3>1, <3>2, <3>3 DEF Cleared
  <2>3. CASE ReaderIsOver \/ NotAnswered \/ TimesOut
    BY <1>2, <1>3, <2>3 DEF ReaderIsOver, NotAnswered, TimesOut
  <2>4. CASE StartFails \/ WithoutPi \/ WriteFails \/ Answered \/ BadRun \/ TakeEvent
    BY <1>2, <2>4 DEF StartFails, WithoutPi, WriteFails, Answered, BadRun, TakeEvent
  <2> QED
    BY <1>4, <2>1, <2>2, <2>3, <2>4 DEF CallStep
<1>5. ASSUME NEW g \in Procs, ReaderStep(g)
      PROVE  OverIsOver'
  <2>1. proc[g] \in Proc /\ proc[g].reading
    BY <1>0, <1>5, ReaderStepIs
  <2>2. \/ proc' = [proc EXCEPT ![g] = [proc[g] EXCEPT !.pipe = Tail(proc[g].pipe)]]
        \/ proc' = [proc EXCEPT ![g] = [proc[g] EXCEPT !.reading = FALSE, !.run = 0,
                                          !.inbox = <<>>, !.pipe = <<>>]]
    BY <1>0, <1>5, ReaderStepIs
  <2>3. Cleared([proc[g] EXCEPT !.pipe = Tail(proc[g].pipe)])
    BY <2>1 DEF Proc, Cleared
  <2>4. Cleared([proc[g] EXCEPT !.reading = FALSE, !.run = 0, !.inbox = <<>>, !.pipe = <<>>])
    BY <2>1 DEF Proc, Cleared
  <2> QED
    BY <1>1, <2>2, <2>3, <2>4
<1>6. ASSUME NEW g \in Procs, PiStep(g)
      PROVE  OverIsOver'
  <2>1. PICK p \in Proc :
          /\ PiChanges(g, p)
          /\ p.reading = proc[g].reading
          /\ \/ Alive(g)
             \/ p = [proc[g] EXCEPT !.state = "dead", !.run = 0, !.inbox = <<>>]
             \/ p = [proc[g] EXCEPT !.state = "reaped"]
    BY <1>0, <1>6, PiStepIs
       DEF PiAnswers, PiRefuses, PiGarbles, PiSettles, PiSettlesWithoutMessage
  <2>2. proc[g] \in Proc /\ Cleared(proc[g])
    BY <1>0 DEF OverIsOver, Cleared
  <2>3. Cleared(p)
    BY <2>1, <2>2 DEF Cleared, Alive, Proc
  <2> QED
    BY <1>1, <2>1, <2>3 DEF PiChanges
<1>7. CASE Restart
  BY <1>7 DEF Restart, OverIsOver, Gone
<1>8. ASSUME NEW op \in DOMAIN Script, Begin(op)
      PROVE  OverIsOver'
  BY <1>2, <1>8 DEF Begin
<1>9. CASE ClosedByService
  BY <1>3, <1>9 DEF ClosedByService
<1>10. CASE UNCHANGED vars
  BY <1>2, <1>10 DEF vars
<1> QED
  BY <1>4, <1>5, <1>6, <1>7, <1>8, <1>9, <1>10, NextIs

\* A call in none of these states waits for nobody.
LEMMA NotWaiting ==
  ASSUME NEW c, c.pc \in {"idle", "ready"}
  PROVE  ~InRun(c) /\ ~(c.pc = "waiting" /\ c.fate = "none")
  BY DEF InRun

LEMMA ReturnEnds ==
  ASSUME NEW out, Return(out)
  PROVE  /\ call'.pc = "idle" /\ call'.outcome = out /\ call'.stage = "enter"
         /\ call'.run = call.run /\ call'.answer = call.answer
  BY DEF Return, Idle

LEMMA ReportedStep ==
  ASSUME BaseInv, [Next]_vars
  PROVE  EndIsReported'
<1>0. /\ proc \in [Procs -> Proc] /\ Typed /\ EndIsReported
      /\ call \in Call /\ queue \in Seq(Event) /\ process \in Procs \cup {0}
  BY DEF BaseInv, PiTypeOK, Typed
<1>1. ASSUME call'.pc \in {"idle", "ready"}
      PROVE  EndIsReported'
  BY <1>1, NotWaiting DEF EndIsReported
<1>2. ASSUME process' = 0
      PROVE  EndIsReported'
  BY <1>2 DEF EndIsReported
<1>3. CASE CallStep
  <2>1. CASE Start
    <3>1. PICK g \in Unread : process' = g /\ proc' = [proc EXCEPT ![g] = Started(FreshId)]
      BY <2>1 DEF Start
    <3>2. proc'[process'].reading
      BY <1>0, <3>1 DEF Started, Unread
    <3> QED
      BY <3>2 DEF EndIsReported
  <2>2. CASE Send
    <3>1. process \in Procs /\ proc[process] \in Proc /\ proc[process].reading
          /\ process' = process
      BY <1>0, <2>2 DEF Send, MaySend
    <3>2. \E inbox : proc' = [proc EXCEPT ![process] = [proc[process] EXCEPT !.inbox = inbox]]
      BY <1>0, <2>2, <3>1 DEF Send
    <3>3. proc'[process'].reading
      BY <1>0, <3>1, <3>2 DEF Proc
    <3> QED
      BY <3>3 DEF EndIsReported
  <2>3. CASE \E out \in {"ok", "failed"} : Return(out)
    BY <1>1, <2>3, ReturnEnds
  <2>4. CASE Answered /\ call'.pc # "idle"
    <3>1. UNCHANGED <<process, proc, queue>>
      BY <2>4 DEF Answered
    <3>2. CASE Sending = "prompt"
      <4>1. call.todo = Script.prompt
        BY <2>4, <3>2, WaitingFacts, ScriptFacts DEF Answered, Sending, BaseInv
      <4>2. InRun(call)
        BY <2>4, <4>1 DEF Answered, InRun
      <4>3. call' = [call EXCEPT !.pc = "settling", !.todo = Tail(call.todo)]
        BY <2>4, <3>2, <4>1, Steps DEF Answered
      <4>4. call'.pc = "settling"
        BY <1>0, <4>3 DEF Call
      <4> QED
        BY <1>0, <3>1, <4>2, <4>4 DEF EndIsReported
    <3>3. CASE Sending # "prompt"
      <4>1. \/ Return("ok")
            \/ \E stage : call' = [call EXCEPT !.pc = "ready", !.todo = Tail(call.todo),
                                               !.stage = stage]
        BY <2>4, <3>3 DEF Answered
      <4>2. call'.pc \in {"idle", "ready"}
        BY <1>0, <4>1, ReturnEnds DEF Call
      <4> QED
        BY <1>1, <4>2
    <3> QED
      BY <3>2, <3>3
  <2>5. CASE Answered /\ call'.pc = "idle"
    BY <1>1, <2>5
  <2>6. CASE TakeEvent
    <3>1. queue # <<>> /\ call.pc = "settling" /\ queue' = Tail(queue)
          /\ UNCHANGED <<process, proc>>
      BY <2>6 DEF TakeEvent
    <3>2. CASE Head(queue).kind = "message" /\ call' = [call EXCEPT !.answer = Head(queue).ref]
      <4>1. call'.pc = "settling" /\ InRun(call)
        BY <1>0, <3>1, <3>2 DEF Call, InRun
      <4>2. Has(queue, {"exited", "failed"}) => Has(queue', {"exited", "failed"})
        BY <1>0, <3>1, <3>2, AfterHead
      <4> QED
        BY <1>0, <3>1, <4>1, <4>2 DEF EndIsReported
    <3>3. CASE call' = [call EXCEPT !.pc = "ready", !.stage = "body"]
      <4>1. call'.pc = "ready"
        BY <1>0, <3>3 DEF Call
      <4> QED
        BY <1>1, <4>1
    <3>4. CASE Return("failed")
      BY <1>1, <3>4, ReturnEnds
    <3> QED
      BY <2>6, <3>2, <3>3, <3>4 DEF TakeEvent
  <2> QED
    BY <1>3, <2>1, <2>2, <2>3, <2>4, <2>5, <2>6
       DEF CallStep, StartFails, WithoutPi, ReaderIsOver, WriteFails, NotAnswered, BadRun, TimesOut
<1>4. ASSUME NEW g \in Procs, ReaderStep(g)
      PROVE  EndIsReported'
  <2>1. process' = process
    BY <1>0, <1>4, ReaderStepIs
  <2> SUFFICES ASSUME process # 0, ~proc'[process].reading
               PROVE  /\ ~(call'.pc = "waiting" /\ call'.fate = "none")
                      /\ InRun(call') => Has(queue', {"exited", "failed"})
    BY <2>1 DEF EndIsReported
  <2>2. CASE proc' = [proc EXCEPT ![g] = [proc[g] EXCEPT !.pipe = Tail(proc[g].pipe)]]
             /\ (\/ queue' = queue /\ \E fate \in {"answered", "refused"} :
                                        call' \in {call, Resolve(fate)}
                 \/ /\ Head(proc[g].pipe) \in Event
                    /\ queue' = Append(queue, Head(proc[g].pipe)) /\ call' = call)
    <3>1. ~proc[process].reading
      BY <1>0, <2>2 DEF Proc
    <3>2. ~(call.pc = "waiting" /\ call.fate = "none")
      BY <1>0, <3>1 DEF EndIsReported
    <3>3. call' = call
      BY <2>2, <3>2 DEF Resolve
    <3>4. Has(queue, {"exited", "failed"}) => Has(queue', {"exited", "failed"})
      BY <1>0, <2>2, AtTheEnd
    <3> QED
      BY <1>0, <3>1, <3>2, <3>3, <3>4 DEF EndIsReported
  <2>3. CASE /\ call' = Resolve("failed")
             /\ \E kind \in {"exited", "failed"} :
                  queue' = Append(queue, [kind |-> kind, ref |-> 0])
    <3>1. PICK kind \in {"exited", "failed"} : queue' = Append(queue, [kind |-> kind, ref |-> 0])
      BY <2>3
    <3>2. [kind |-> kind, ref |-> 0] \in Event
      BY DEF Event
    <3>3. Has(queue', {"exited", "failed"})
      BY <1>0, <3>1, <3>2, AtTheEnd
    <3>4. ~(call'.pc = "waiting" /\ call'.fate = "none")
      BY <1>0, <2>3 DEF Resolve, Call
    <3> QED
      BY <3>3, <3>4
  <2> QED
    BY <1>0, <1>4, <2>2, <2>3, ReaderStepIs
<1>5. ASSUME NEW g \in Procs, PiStep(g)
      PROVE  EndIsReported'
  <2>1. PICK p \in Proc : PiChanges(g, p) /\ p.reading = proc[g].reading
    BY <1>0, <1>5, PiStepIs
  <2>2. process # 0 => proc'[process].reading = proc[process].reading
    BY <1>0, <2>1 DEF PiChanges
  <2>3. process' = process /\ call' = call /\ queue' = queue
    BY <2>1 DEF PiChanges
  <2> QED
    BY <1>0, <2>2, <2>3 DEF EndIsReported
<1>6. ASSUME NEW op \in DOMAIN Script, Begin(op)
      PROVE  EndIsReported'
  BY <1>1, <1>6, BeginIs
<1>7. CASE ClosedByService \/ Restart
  BY <1>0, <1>2, <1>7, CloseTyped DEF ClosedByService, Restart
<1>8. CASE UNCHANGED vars
  BY <1>0, <1>8 DEF vars, EndIsReported
<1> QED
  BY <1>3, <1>4, <1>5, <1>6, <1>7, <1>8, NextIs

LEMMA BaseStep ==
  BaseInv /\ [Next]_vars => BaseInv'
  BY OverStep, ReportedStep, TypedStep DEF BaseInv, Typed

LEMMA BaseInit ==
  Init => BaseInv
<1> SUFFICES ASSUME Init PROVE BaseInv
  OBVIOUS
<1>1. PiTypeOK /\ Follows(call)
  BY InitTyped DEF Init, PiTypeOK
<1>2. OverIsOver /\ EndIsReported
  BY DEF Init, OverIsOver, EndIsReported, Gone
<1> QED
  BY <1>1, <1>2 DEF BaseInv

\* The Pi client is type correct whatever is overtaken: its present process is
\* one that was started, and a call that goes on has a request to send.
THEOREM PiTypeCorrect == Spec => []PiTypeOK
<1>1. BaseInv => PiTypeOK
  BY DEF BaseInv
<1> QED
  BY <1>1, BaseInit, BaseStep, PTL DEF Spec

\* A call that waits for its timeout waits for a reader that still reads: when
\* _read_stdout is over, _fail_pending or an event has told the call.
THEOREM ReaderFailureReported == Spec => ReaderFailureSurfaces
<1>1. BaseInv /\ [Next]_vars =>
        [TimesOut /\ process # 0 => proc[process].reading \/ queue # <<>>]_vars
  <2> SUFFICES ASSUME BaseInv, TimesOut, process # 0, ~proc[process].reading
               PROVE  queue # <<>>
    OBVIOUS
  <2>1. call.pc = "settling"
    BY DEF BaseInv, EndIsReported, TimesOut, TimedOut
  <2>2. Has(queue, {"exited", "failed"})
    BY <2>1 DEF BaseInv, EndIsReported, InRun
  <2> QED
    BY <2>2, NothingInEmpty
<1> QED
  BY <1>1, BaseInit, BaseStep, PTL DEF Spec, ReaderFailureSurfaces

-----------------------------------------------------------------------------
(* The invariant, part two: what holds until a process is started while    *)
(* another is still read.                                                  *)

Responses == {"answered", "refused"}
RunKinds  == {"message", "settled"}
Stops     == {"exited", "failed"}

\* The process that _process refers to.
Present == IF process = 0 THEN Gone ELSE proc[process]

\* The prompt is still before the call, which had to start Pi again for it.
Restarting(c) ==
  /\ c.stage = "inner"
  /\ \/ c.pc = "ready" /\ c.todo = Script.prompt
     \/ c.pc = "waiting" /\ c.todo = <<"boot">> \o Script.prompt

\* Something of a run is in process p or on its way from there.
Trace(p) == p.run # 0 \/ Has(p.pipe, RunKinds)

Quiet(p) == p.inbox = <<>> /\ ~Trace(p) /\ ~Has(p.pipe, Responses)

\* Only the request that the call waits for is on its way to Pi.
Requested(p, c) ==
  p.inbox # <<>> =>
    /\ c.pc = "waiting" /\ c.fate = "none" /\ Len(p.inbox) = 1
    /\ Head(p.inbox).request = "prompt" => c.todo = Script.prompt /\ Head(p.inbox).run = c.run
    /\ ~Trace(p) /\ ~Has(p.pipe, Responses)

\* At most one response is on its way back; what was refused never runs.
Responded(p, c, f) ==
  /\ Has(p.pipe, Responses) => c.pc = "waiting" /\ c.fate = "none"
  /\ NoneAfter(p.pipe, Responses, Responses)
  /\ Has(p.pipe, {"refused"}) => f /\ ~Trace(p)

\* Pi runs nothing but the prompt of the call, and says nothing after its end.
RunsPrompt(p, c) ==
  /\ Trace(p) => InRun(c)
  /\ p.run # 0 => p.run = c.run
  /\ MessagesOf(p.pipe, c.run)
  /\ NoneAfter(p.pipe, {"settled"}, RunKinds)
  /\ Has(p.pipe, {"settled"}) => p.run = 0

\* The queue is empty when the run begins, so it holds events of this run, and
\* one that the reader is over only if it is.  A run settles without a message
\* only if something went wrong.
Heard(p, c, q, f) ==
  /\ InRun(c) =>
       /\ MessagesOf(q, c.run)
       /\ NoneAfter(q, {"settled"}, RunKinds)
       /\ Has(q, {"settled"}) => ~Trace(p) /\ p.inbox = <<>>
       /\ Has(q, Stops) => ~p.reading
       /\ Has(q, {"settled"}) \/ Has(p.pipe, {"settled"}) =>
            f \/ c.answer # 0 \/ Has(q, {"message"}) \/ Has(p.pipe, {"message"})
  /\ Restarting(c) /\ p.reading => q = <<>>

Serves(p, c, q, f) ==
  Requested(p, c) /\ Responded(p, c, f) /\ RunsPrompt(p, c) /\ Heard(p, c, q, f)

\* A prompt has no answer before it has run, and none but its own after.
AnswerFits(c) ==
  LET prompt == c.todo \in {Script.prompt, <<"boot">> \o Script.prompt} IN
  /\ InRun(c) => c.run # 0
  /\ c.pc \in {"ready", "waiting"} /\ prompt => c.answer = 0
  /\ c.pc \in {"ready", "waiting"} /\ ~prompt => c.answer = c.run
  /\ c.pc = "settling" => c.answer \in {0, c.run}
  /\ c.outcome = "ok" => c.answer = c.run
  /\ c.pc # "idle" => c.outcome = "none"

Entering(c) == c.pc = "ready" /\ c.stage = "enter"

\* A call that finds its process dead, unread or gone knows why: only the
\* call before it may have left it like that.
FaultSeen ==
  /\ process # 0 /\ (~Present.reading \/ Present.state = "reaped") =>
       fault \/ (earlier /\ Entering(call))
  /\ process = 0 => fault \/ call.pc = "idle" \/ Entering(call)
  /\ call.pc = "waiting" /\ call.fate \in {"refused", "failed"} => fault
  /\ call.outcome = "failed" => fault \/ earlier

OneReader == \A g \in Procs : proc[g].reading => g = process

Sound ==
  /\ OneReader
  /\ AnswerFits(call)
  /\ FaultSeen
  /\ Serves(Present, call, queue, fault)

PiInv == BaseInv /\ (overtaken = 0 => Sound)

-----------------------------------------------------------------------------
(* What serves the call before a step serves it after it.                  *)

LEMMA HasMore ==
  ASSUME NEW s, NEW kinds, NEW more, kinds \subseteq more, Has(s, kinds)
  PROVE  Has(s, more)
  BY DEF Has

LEMMA NothingThere ==
  ASSUME NEW s, NEW kinds, NEW those, ~Has(s, kinds)
  PROVE  /\ NoneAfter(s, kinds, those)
         /\ \A one \in kinds : ~Has(s, {one})
         /\ "message" \in kinds => \A run : MessagesOf(s, run)
  BY DEF Has, NoneAfter, MessagesOf

LEMMA QuietServes ==
  ASSUME NEW p, NEW c, NEW q, NEW f, Quiet(p),
         q = <<>> \/ (~InRun(c) /\ ~(Restarting(c) /\ p.reading))
  PROVE  Serves(p, c, q, f)
<1>1. /\ ~Has(p.pipe, Responses) /\ ~Has(p.pipe, RunKinds) /\ p.run = 0 /\ p.inbox = <<>>
  BY DEF Quiet, Trace
<1>2. /\ NoneAfter(p.pipe, Responses, Responses) /\ ~Has(p.pipe, {"refused"})
      /\ MessagesOf(p.pipe, c.run) /\ ~Has(p.pipe, {"settled"})
  BY <1>1, NothingThere DEF Responses, RunKinds
<1>3. NoneAfter(p.pipe, {"settled"}, RunKinds)
  BY <1>2, NothingThere
<1>4. Requested(p, c) /\ Responded(p, c, f) /\ RunsPrompt(p, c)
  BY <1>1, <1>2, <1>3 DEF Requested, Responded, RunsPrompt, Trace
<1>5. CASE q = <<>>
  <2>1. MessagesOf(q, c.run) /\ NoneAfter(q, {"settled"}, RunKinds)
        /\ ~Has(q, {"settled"}) /\ ~Has(q, Stops)
    BY <1>5, NothingInEmpty
  <2> QED
    BY <1>2, <1>4, <1>5, <2>1 DEF Serves, Heard
<1>6. CASE ~InRun(c) /\ ~(Restarting(c) /\ p.reading)
  BY <1>4, <1>6 DEF Serves, Heard
<1> QED
  BY <1>5, <1>6

\* Nothing is on its way while nobody waits and no prompt runs.
LEMMA QuietBetween ==
  ASSUME NEW p, NEW c, NEW q, NEW f, Serves(p, c, q, f),
         ~InRun(c), ~(c.pc = "waiting" /\ c.fate = "none")
  PROVE  Quiet(p)
  BY DEF Serves, Requested, Responded, RunsPrompt, Quiet

\* Nor when the run has settled, or its reader is over.
LEMMA QuietAtTheEnd ==
  ASSUME NEW p, NEW c, NEW q, NEW f, Serves(p, c, q, f), c.pc = "settling", Cleared(p),
         Has(q, {"settled"} \cup Stops)
  PROVE  Quiet(p)
<1>1. InRun(c) /\ c.pc # "waiting"
  BY DEF InRun
<1>2. ~Has(p.pipe, Responses) /\ p.inbox = <<>>
  BY <1>1 DEF Serves, Requested, Responded
<1>3. CASE Has(q, {"settled"})
  BY <1>1, <1>2, <1>3 DEF Serves, Heard, Quiet
<1>4. CASE Has(q, Stops)
  <2>1. ~p.reading
    BY <1>1, <1>4 DEF Serves, Heard
  <2>2. p.run = 0 /\ p.pipe = <<>>
    BY <2>1 DEF Cleared
  <2> QED
    BY <1>2, <2>2, NothingInEmpty DEF Quiet, Trace
<1>5. Has(q, {"settled"}) \/ Has(q, Stops)
  BY DEF Has
<1> QED
  BY <1>3, <1>4, <1>5

LEMMA ClearedIsQuiet ==
  ASSUME NEW p, Cleared(p), ~p.reading
  PROVE  Quiet(p)
  BY NothingInEmpty DEF Cleared, Quiet, Trace

LEMMA GoneIsQuiet == Quiet(Gone) /\ ~Gone.reading
  BY NothingInEmpty DEF Gone, Quiet, Trace

\* The prompt is answered, or has its first message: the run goes on.
LEMMA RunGoesOn ==
  ASSUME NEW p, NEW c, NEW d, NEW q, NEW f, Serves(p, c, q, f), InRun(c), InRun(d),
         ~(c.pc = "waiting" /\ c.fate = "none"), ~Restarting(d),
         d.run = c.run, d.answer = c.answer
  PROVE  Serves(p, d, q, f)
<1>1. p.inbox = <<>> /\ ~Has(p.pipe, Responses)
  BY DEF Serves, Requested, Responded
<1>2. Requested(p, d) /\ Responded(p, d, f)
  BY <1>1 DEF Serves, Requested, Responded
<1>3. RunsPrompt(p, d) /\ Heard(p, d, q, f)
  BY DEF Serves, RunsPrompt, Heard
<1> QED
  BY <1>2, <1>3 DEF Serves

LEMMA MessageTaken ==
  ASSUME NEW p, NEW c, NEW d, NEW q \in Seq(Event), NEW f, Serves(p, c, q, f),
         c.pc = "settling", d.pc = "settling", q # <<>>, d.run = c.run, d.answer # 0
  PROVE  Serves(p, d, Tail(q), f)
<1>1. InRun(c) /\ InRun(d) /\ ~Restarting(d)
  BY DEF InRun, Restarting
<1>2. p.inbox = <<>> /\ ~Has(p.pipe, Responses)
  BY DEF Serves, Requested, Responded
<1>3. Requested(p, d) /\ Responded(p, d, f)
  BY <1>2 DEF Serves, Requested, Responded
<1>4. RunsPrompt(p, d)
  BY <1>1 DEF Serves, RunsPrompt
<1>5. /\ MessagesOf(Tail(q), d.run) /\ NoneAfter(Tail(q), {"settled"}, RunKinds)
      /\ \A kinds : Has(Tail(q), kinds) => Has(q, kinds)
  BY <1>1, AfterHead DEF Serves, Heard
<1>6. Heard(p, d, Tail(q), f)
  BY <1>1, <1>5 DEF Serves, Heard
<1> QED
  BY <1>3, <1>4, <1>6 DEF Serves

\* A request that Pi has not seen yet, of a call that has just sent it.
LEMMA RequestServes ==
  ASSUME NEW p, NEW c, NEW q, NEW f, ~Trace(p), ~Has(p.pipe, Responses),
         c.pc = "waiting", c.fate = "none",
         p.inbox # <<>> =>
           /\ Len(p.inbox) = 1
           /\ Head(p.inbox).request = "prompt" =>
                c.todo = Script.prompt /\ Head(p.inbox).run = c.run,
         q = <<>> \/ (~InRun(c) /\ ~Restarting(c))
  PROVE  Serves(p, c, q, f)
<1>1. /\ NoneAfter(p.pipe, Responses, Responses) /\ ~Has(p.pipe, {"refused"})
      /\ MessagesOf(p.pipe, c.run) /\ ~Has(p.pipe, {"settled"})
  BY NothingThere DEF Responses, RunKinds, Trace
<1>2. NoneAfter(p.pipe, {"settled"}, RunKinds)
  BY <1>1, NothingThere
<1>3. Requested(p, c) /\ Responded(p, c, f) /\ RunsPrompt(p, c)
  BY <1>1, <1>2 DEF Requested, Responded, RunsPrompt, Trace
<1>4. CASE q = <<>>
  <2>1. MessagesOf(q, c.run) /\ NoneAfter(q, {"settled"}, RunKinds)
        /\ ~Has(q, {"settled"}) /\ ~Has(q, Stops)
    BY <1>4, NothingInEmpty
  <2> QED
    BY <1>1, <1>3, <1>4, <2>1 DEF Serves, Heard
<1>5. CASE ~InRun(c) /\ ~Restarting(c)
  BY <1>3, <1>5 DEF Serves, Heard
<1> QED
  BY <1>4, <1>5

\* The response is read: there was but one, and what was refused did not run.
LEMMA ResponseRead ==
  ASSUME NEW p \in Proc, NEW c \in Call, NEW q, NEW f, Serves(p, c, q, f),
         p.pipe # <<>>, Head(p.pipe).kind \in Responses,
         NEW d, d \in {c, [c EXCEPT !.fate = Head(p.pipe).kind]}
  PROVE  /\ Serves([p EXCEPT !.pipe = Tail(p.pipe)], d, q, f)
         /\ d.pc = c.pc /\ d.stage = c.stage /\ d.todo = c.todo /\ d.run = c.run
         /\ d.answer = c.answer /\ d.outcome = c.outcome
         /\ d.fate = "refused" => f
         /\ d.fate # "failed" /\ c.pc = "waiting" /\ (InRun(d) => InRun(c))
<1> DEFINE pipe == Tail(p.pipe)
           after == [p EXCEPT !.pipe = pipe]
           kind == Head(p.pipe).kind
<1>0. p.pipe \in Seq(Line) /\ kind \in {"answered", "refused"} /\ kind \notin RunKinds
  BY DEF Proc, Responses, RunKinds
<1>1. /\ after.pipe = pipe /\ after.inbox = p.inbox /\ after.run = p.run
      /\ after.reading = p.reading
  BY DEF Proc
<1>2. /\ Has(p.pipe, Responses)
      /\ Has(pipe, RunKinds) <=> Has(p.pipe, RunKinds)
      /\ Has(pipe, {"settled"}) => Has(p.pipe, {"settled"})
      /\ Has(p.pipe, {"message"}) => Has(pipe, {"message"})
      /\ NoneAfter(p.pipe, {"settled"}, RunKinds) => NoneAfter(pipe, {"settled"}, RunKinds)
      /\ NoneAfter(p.pipe, Responses, Responses) =>
           NoneAfter(pipe, Responses, Responses) /\ ~Has(pipe, Responses)
      /\ MessagesOf(p.pipe, c.run) => MessagesOf(pipe, c.run)
      /\ kind = "refused" => Has(p.pipe, {"refused"})
  BY <1>0, AfterHead
<1>3. c.pc = "waiting" /\ c.fate = "none" /\ p.inbox = <<>> /\ ~Has(pipe, Responses)
  BY <1>2 DEF Serves, Requested, Responded
<1>4. ~Has(pipe, {"refused"})
  BY <1>3, NothingThere DEF Responses
<1>5. d.pc = c.pc /\ d.stage = c.stage /\ d.todo = c.todo /\ d.run = c.run
      /\ d.answer = c.answer /\ d.outcome = c.outcome /\ d.fate \in {"none", kind}
  BY <1>3 DEF Call
<1>6. kind = "refused" => f /\ ~Trace(p)
  BY <1>2 DEF Serves, Responded
<1> HIDE DEF pipe, after, kind
<1>7. Trace(after) <=> Trace(p)
  BY <1>1, <1>2 DEF Trace
<1>8. InRun(d) => InRun(c)
  BY <1>3, <1>5 DEF InRun
<1>9. Trace(p) => InRun(d)
  <2>1. ASSUME Trace(p)
        PROVE  InRun(d)
    <3>1. InRun(c)
      BY <2>1 DEF Serves, RunsPrompt
    <3>2. d.fate \in {"none", "answered"}
      BY <1>0, <1>5, <1>6, <2>1
    <3> QED
      BY <1>3, <1>5, <3>1, <3>2 DEF InRun
  <2> QED
    BY <2>1
<1>10. Requested(after, d) /\ Responded(after, d, f)
  BY <1>1, <1>2, <1>3, <1>4 DEF Requested, Responded, Serves
<1>11. RunsPrompt(after, d)
  BY <1>1, <1>2, <1>5, <1>7, <1>9 DEF RunsPrompt, Serves
<1>12. Restarting(d) => Restarting(c)
  BY <1>5 DEF Restarting
<1>13. Heard(after, d, q, f)
  BY <1>1, <1>2, <1>5, <1>7, <1>8, <1>12 DEF Heard, Serves
<1>14. Serves(after, d, q, f)
  BY <1>10, <1>11, <1>13 DEF Serves
<1> QED
  BY <1>0, <1>3, <1>5, <1>6, <1>8, <1>14 DEF after, pipe

\* A call with its prompt in Pi did not just have to start Pi for it.
LEMMA RunningIsNotRestarting ==
  ASSUME NEW c, InRun(c)
  PROVE  ~Restarting(c)
<1>1. Script.prompt \in Scripts
  BY DEF Scripts
<1>2. <<"boot">> \o Script.prompt # Script.prompt
  BY <1>1, BootFacts
<1> QED
  BY <1>2 DEF InRun, Restarting

\* An event moves from the pipe to the queue.
LEMMA EventRead ==
  ASSUME NEW p \in Proc, NEW c, NEW q \in Seq(Event), NEW f, Serves(p, c, q, f),
         p.pipe # <<>>, Head(p.pipe) \in Event, Head(p.pipe).kind \in RunKinds
  PROVE  Serves([p EXCEPT !.pipe = Tail(p.pipe)], c, Append(q, Head(p.pipe)), f)
<1> DEFINE pipe == Tail(p.pipe)
           after == [p EXCEPT !.pipe = pipe]
           line == Head(p.pipe)
           queued == Append(q, line)
<1>0. p.pipe \in Seq(Line) /\ line.kind \in {"message", "settled"}
  BY DEF Proc, RunKinds
<1>1. /\ after.pipe = pipe /\ after.inbox = p.inbox /\ after.run = p.run
      /\ after.reading = p.reading
  BY DEF Proc
<1>2. /\ Has(p.pipe, RunKinds)
      /\ \A kinds : Has(p.pipe, kinds) <=> line.kind \in kinds \/ Has(pipe, kinds)
      /\ NoneAfter(p.pipe, {"settled"}, RunKinds) =>
           /\ NoneAfter(pipe, {"settled"}, RunKinds)
           /\ line.kind = "settled" => ~Has(pipe, RunKinds)
      /\ NoneAfter(p.pipe, Responses, Responses) => NoneAfter(pipe, Responses, Responses)
      /\ MessagesOf(p.pipe, c.run) =>
           MessagesOf(pipe, c.run) /\ (line.kind = "message" => line.ref = c.run)
  BY <1>0, AfterHead
<1>3. Trace(p) /\ InRun(c) /\ p.inbox = <<>> /\ ~Has(q, {"settled"}) /\ ~Restarting(c)
  BY <1>2, RunningIsNotRestarting DEF Trace, Serves, RunsPrompt, Requested, Heard
<1>4. /\ \A kinds : Has(queued, kinds) <=> Has(q, kinds) \/ line.kind \in kinds
      /\ NoneAfter(queued, {"settled"}, RunKinds)
      /\ MessagesOf(q, c.run) /\ (line.kind = "message" => line.ref = c.run)
           => MessagesOf(queued, c.run)
  BY <1>3, AtTheEnd DEF Serves, Heard
<1> HIDE DEF pipe, after, line, queued
<1>5. Requested(after, c)
  BY <1>1, <1>3 DEF Requested
<1>6. Trace(after) => Trace(p)
  BY <1>3
<1>7. Responded(after, c, f)
  BY <1>1, <1>2, <1>6 DEF Responded, Serves
<1>8. RunsPrompt(after, c)
  BY <1>1, <1>2, <1>3 DEF RunsPrompt, Serves
<1>9. line.kind = "settled" => ~Trace(after)
  BY <1>1, <1>2 DEF Serves, RunsPrompt, Trace
<1>10. Has(queued, {"settled"}) => ~Trace(after) /\ after.inbox = <<>>
  BY <1>1, <1>3, <1>4, <1>9
<1>11. Has(queued, Stops) => ~after.reading
  <2>1. line.kind \notin Stops
    BY <1>0 DEF Stops
  <2> QED
    BY <1>1, <1>3, <1>4, <2>1 DEF Serves, Heard
<1>12. /\ Has(p.pipe, {"settled"}) <=> line.kind = "settled" \/ Has(pipe, {"settled"})
       /\ Has(p.pipe, {"message"}) <=> line.kind = "message" \/ Has(pipe, {"message"})
       /\ Has(queued, {"settled"}) <=> Has(q, {"settled"}) \/ line.kind = "settled"
       /\ Has(queued, {"message"}) <=> Has(q, {"message"}) \/ line.kind = "message"
  BY <1>2, <1>4
<1>13. Has(queued, {"settled"}) \/ Has(after.pipe, {"settled"}) =>
         f \/ c.answer # 0 \/ Has(queued, {"message"}) \/ Has(after.pipe, {"message"})
  BY <1>1, <1>3, <1>12 DEF Serves, Heard
<1>14. MessagesOf(queued, c.run)
  BY <1>2, <1>3, <1>4 DEF Serves, Heard, RunsPrompt
<1>15. Heard(after, c, queued, f)
  BY <1>3, <1>4, <1>10, <1>11, <1>13, <1>14 DEF Heard
<1> QED
  BY <1>5, <1>7, <1>8, <1>15 DEF Serves, after, pipe, line, queued

\* The reader is over, and says so.
LEMMA StopRead ==
  ASSUME NEW p \in Proc, NEW c, NEW q \in Seq(Event), NEW f, Serves(p, c, q, f),
         NEW kind \in Stops, NEW d, NEW g, f => g,
         d = c \/ ~InRun(d)
  PROVE  Serves([p EXCEPT !.reading = FALSE, !.run = 0, !.inbox = <<>>, !.pipe = <<>>],
                d, Append(q, [kind |-> kind, ref |-> 0]), g)
<1> DEFINE after == [p EXCEPT !.reading = FALSE, !.run = 0, !.inbox = <<>>, !.pipe = <<>>]
           event == [kind |-> kind, ref |-> 0]
           queued == Append(q, event)
<1>1. after.pipe = <<>> /\ after.inbox = <<>> /\ after.run = 0 /\ ~after.reading
  BY DEF Proc
<1>2. Quiet(after)
  BY <1>1, ClearedIsQuiet DEF Cleared
<1>3. event \in Event /\ event.kind = kind /\ kind \notin RunKinds
      /\ kind # "settled" /\ kind # "message"
  BY DEF Event, Stops, RunKinds
<1> HIDE DEF event
<1>4. /\ \A kinds : Has(queued, kinds) <=> Has(q, kinds) \/ kind \in kinds
      /\ NoneAfter(q, {"settled"}, RunKinds) => NoneAfter(queued, {"settled"}, RunKinds)
      /\ MessagesOf(q, c.run) => MessagesOf(queued, c.run)
  BY <1>3, AtTheEnd
<1> HIDE DEF after, queued
<1>5. CASE ~InRun(d)
  BY <1>1, <1>2, <1>5, QuietServes DEF after, queued, event
<1>6. CASE InRun(d) /\ d = c
  <2>1. Serves(after, c, <<>>, g)
    BY <1>2, QuietServes
  <2>2. MessagesOf(queued, c.run) /\ NoneAfter(queued, {"settled"}, RunKinds)
    BY <1>4, <1>6 DEF Serves, Heard
  <2>3. ~Trace(after) /\ ~Has(after.pipe, {"settled"})
    BY <1>1, <1>2, NothingInEmpty DEF Quiet
  <2>4. /\ Has(queued, {"settled"}) <=> Has(q, {"settled"})
        /\ Has(queued, {"message"}) <=> Has(q, {"message"})
    BY <1>3, <1>4
  <2>5. Has(q, {"settled"}) => f \/ c.answer # 0 \/ Has(q, {"message"})
    <3>1. Has(q, {"settled"}) => ~Has(p.pipe, {"message"})
      BY <1>6, NothingThere DEF Serves, Heard, Trace, RunKinds
    <3> QED
      BY <1>6, <3>1 DEF Serves, Heard
  <2>6. Heard(after, c, queued, g)
    BY <1>1, <2>2, <2>3, <2>4, <2>5 DEF Heard
  <2> QED
    BY <1>6, <2>1, <2>6 DEF Serves, after, queued, event
<1> QED
  BY <1>5, <1>6

\* Pi answers: if it is the prompt, the run begins.
LEMMA AnswerServes ==
  ASSUME NEW p \in Proc, NEW c, NEW q, NEW f, Serves(p, c, q, f), p.inbox # <<>>,
         NEW x \in Line, x.kind = "answered"
  PROVE  Serves([p EXCEPT !.inbox = Tail(p.inbox),
                          !.run = IF Head(p.inbox).request = "prompt"
                                  THEN Head(p.inbox).run ELSE p.run,
                          !.pipe = Append(p.pipe, x)], c, q, f)
<1> DEFINE inbox == Tail(p.inbox)
           run == IF Head(p.inbox).request = "prompt" THEN Head(p.inbox).run ELSE p.run
           pipe == Append(p.pipe, x)
           after == [p EXCEPT !.inbox = inbox, !.run = run, !.pipe = pipe]
<1>0. p.pipe \in Seq(Line) /\ p.inbox \in Seq([request : Requests, id : Nat, run : Nat])
  BY DEF Proc
<1>1. /\ c.pc = "waiting" /\ c.fate = "none" /\ Len(p.inbox) = 1
      /\ Head(p.inbox).request = "prompt" => c.todo = Script.prompt /\ Head(p.inbox).run = c.run
      /\ ~Trace(p) /\ ~Has(p.pipe, Responses)
  BY DEF Serves, Requested
<1>2. inbox = <<>>
  <2>1. inbox \in Seq([request : Requests, id : Nat, run : Nat]) /\ Len(inbox) = Len(p.inbox) - 1
    BY <1>0, HeadTailProperties
  <2>2. Len(inbox) = 0
    BY <1>1, <2>1
  <2> HIDE DEF inbox
  <2> QED
    BY <2>1, <2>2, EmptySeq
<1>3. /\ Has(pipe, RunKinds) <=> Has(p.pipe, RunKinds)
      /\ Has(pipe, {"settled"}) <=> Has(p.pipe, {"settled"})
      /\ Has(pipe, {"message"}) <=> Has(p.pipe, {"message"})
      /\ Has(pipe, {"refused"}) <=> Has(p.pipe, {"refused"})
      /\ NoneAfter(pipe, {"settled"}, RunKinds)
      /\ NoneAfter(pipe, Responses, Responses)
      /\ MessagesOf(pipe, c.run)
  BY <1>0, <1>1, AtTheEnd DEF RunKinds, Serves, RunsPrompt, Responded
<1>4. ~Has(p.pipe, RunKinds) /\ p.run = 0 /\ ~Has(p.pipe, {"settled"}) /\ ~Has(p.pipe, {"refused"})
  BY <1>1, NothingThere DEF Trace, RunKinds, Responses
<1>5. run # 0 => c.todo = Script.prompt /\ run = c.run
  BY <1>1, <1>4
<1> HIDE DEF inbox, run, pipe
<1>6. after.inbox = inbox /\ after.run = run /\ after.pipe = pipe /\ after.reading = p.reading
  BY DEF Proc
<1> HIDE DEF after
<1>7. Trace(after) => InRun(c)
  BY <1>1, <1>3, <1>4, <1>5, <1>6 DEF Trace, InRun
<1>8. Requested(after, c) /\ Responded(after, c, f)
  BY <1>1, <1>2, <1>3, <1>4, <1>6 DEF Requested, Responded
<1>9. RunsPrompt(after, c)
  BY <1>3, <1>4, <1>5, <1>6, <1>7 DEF RunsPrompt
<1>10. Heard(after, c, q, f)
  BY <1>3, <1>6 DEF Heard, Serves
<1> QED
  BY <1>8, <1>9, <1>10 DEF Serves, after, inbox, run, pipe

\* Pi refuses: that is a fault.
LEMMA RefusalServes ==
  ASSUME NEW p \in Proc, NEW c, NEW q, NEW f, Serves(p, c, q, f), p.inbox # <<>>,
         NEW x \in Line, x.kind = "refused"
  PROVE  Serves([p EXCEPT !.inbox = Tail(p.inbox), !.pipe = Append(p.pipe, x)], c, q, TRUE)
<1> DEFINE inbox == Tail(p.inbox)
           pipe == Append(p.pipe, x)
           after == [p EXCEPT !.inbox = inbox, !.pipe = pipe]
<1>0. p.pipe \in Seq(Line) /\ p.inbox \in Seq([request : Requests, id : Nat, run : Nat])
  BY DEF Proc
<1>1. /\ c.pc = "waiting" /\ c.fate = "none" /\ Len(p.inbox) = 1
      /\ ~Trace(p) /\ ~Has(p.pipe, Responses)
  BY DEF Serves, Requested
<1>2. inbox = <<>>
  <2>1. inbox \in Seq([request : Requests, id : Nat, run : Nat]) /\ Len(inbox) = Len(p.inbox) - 1
    BY <1>0, HeadTailProperties
  <2>2. Len(inbox) = 0
    BY <1>1, <2>1
  <2> HIDE DEF inbox
  <2> QED
    BY <2>1, <2>2, EmptySeq
<1>3. /\ Has(pipe, RunKinds) <=> Has(p.pipe, RunKinds)
      /\ Has(pipe, {"settled"}) <=> Has(p.pipe, {"settled"})
      /\ NoneAfter(pipe, {"settled"}, RunKinds)
      /\ NoneAfter(pipe, Responses, Responses)
      /\ MessagesOf(pipe, c.run)
  BY <1>0, <1>1, AtTheEnd DEF RunKinds, Serves, RunsPrompt, Responded
<1> HIDE DEF inbox, pipe
<1>4. after.inbox = inbox /\ after.run = p.run /\ after.pipe = pipe /\ after.reading = p.reading
  BY DEF Proc
<1> HIDE DEF after
<1>5. ~Trace(after)
  BY <1>1, <1>3, <1>4 DEF Trace
<1>6. Requested(after, c) /\ Responded(after, c, TRUE)
  BY <1>1, <1>2, <1>3, <1>4, <1>5 DEF Requested, Responded
<1>7. RunsPrompt(after, c)
  BY <1>3, <1>4, <1>5 DEF RunsPrompt, Serves
<1>8. Heard(after, c, q, TRUE)
  BY <1>2, <1>4, <1>5 DEF Heard, Serves
<1> QED
  BY <1>6, <1>7, <1>8 DEF Serves, after, inbox, pipe

LEMMA GarbageServes ==
  ASSUME NEW p \in Proc, NEW c, NEW q, NEW f, Serves(p, c, q, f),
         NEW x \in Line, x.kind = "garbled"
  PROVE  Serves([p EXCEPT !.pipe = Append(p.pipe, x)], c, q, f)
<1> DEFINE pipe == Append(p.pipe, x)
           after == [p EXCEPT !.pipe = pipe]
<1>0. p.pipe \in Seq(Line) /\ after.inbox = p.inbox /\ after.run = p.run /\ after.pipe = pipe
      /\ after.reading = p.reading
  BY DEF Proc
<1>1. /\ Has(pipe, RunKinds) <=> Has(p.pipe, RunKinds)
      /\ Has(pipe, Responses) <=> Has(p.pipe, Responses)
      /\ Has(pipe, {"settled"}) <=> Has(p.pipe, {"settled"})
      /\ Has(pipe, {"message"}) <=> Has(p.pipe, {"message"})
      /\ Has(pipe, {"refused"}) <=> Has(p.pipe, {"refused"})
      /\ NoneAfter(pipe, {"settled"}, RunKinds)
      /\ NoneAfter(pipe, Responses, Responses)
      /\ MessagesOf(pipe, c.run)
  BY <1>0, AtTheEnd DEF RunKinds, Responses, Serves, RunsPrompt, Responded
<1> HIDE DEF pipe, after
<1>2. Trace(after) <=> Trace(p)
  BY <1>0, <1>1 DEF Trace
<1> QED
  <2>1. Requested(after, c) /\ Responded(after, c, f)
    BY <1>0, <1>1, <1>2 DEF Serves, Requested, Responded
  <2>2. RunsPrompt(after, c)
    BY <1>0, <1>1, <1>2 DEF Serves, RunsPrompt
  <2>3. Heard(after, c, q, f)
    BY <1>0, <1>1, <1>2 DEF Serves, Heard
  <2> QED
    BY <2>1, <2>2, <2>3 DEF Serves, after, pipe

\* While Pi runs the prompt no request is under way and it has not settled.
LEMMA WhileItRuns ==
  ASSUME NEW p, NEW c, NEW q, NEW f, Serves(p, c, q, f), p.run # 0
  PROVE  /\ Trace(p) /\ InRun(c) /\ p.run = c.run /\ p.inbox = <<>> /\ ~Restarting(c)
         /\ ~Has(p.pipe, {"settled"}) /\ ~Has(p.pipe, {"refused"}) /\ ~Has(q, {"settled"})
  BY RunningIsNotRestarting
     DEF Serves, Trace, RunsPrompt, Requested, Responded, Heard

\* The run settles, with a message or, which is a fault, without.
LEMMA SettledServes ==
  ASSUME NEW p \in Proc, NEW c, NEW q, NEW f, Serves(p, c, q, f), p.run # 0,
         NEW x \in Line, x.kind = "settled"
  PROVE  /\ Serves([p EXCEPT !.run = 0, !.pipe = Append(p.pipe, x)], c, q, TRUE)
         /\ \A m \in Line : m.kind = "message" /\ m.ref = p.run =>
              Serves([p EXCEPT !.run = 0, !.pipe = Append(Append(p.pipe, m), x)], c, q, f)
<1>0. p.pipe \in Seq(Line)
  BY DEF Proc
<1>1. /\ Trace(p) /\ InRun(c) /\ p.run = c.run /\ p.inbox = <<>> /\ ~Restarting(c)
      /\ ~Has(p.pipe, {"settled"}) /\ ~Has(p.pipe, {"refused"}) /\ ~Has(q, {"settled"})
  BY WhileItRuns
<1>2. /\ NoneAfter(p.pipe, Responses, Responses) /\ MessagesOf(p.pipe, c.run)
      /\ Has(p.pipe, Responses) => c.pc = "waiting" /\ c.fate = "none"
      /\ MessagesOf(q, c.run) /\ NoneAfter(q, {"settled"}, RunKinds)
      /\ Has(q, Stops) => ~p.reading
  BY <1>1 DEF Serves, Responded, RunsPrompt, Heard
<1>3. ASSUME NEW pipe, NEW g,
             Has(pipe, Responses) <=> Has(p.pipe, Responses), ~Has(pipe, {"refused"}),
             NoneAfter(pipe, Responses, Responses), NoneAfter(pipe, {"settled"}, RunKinds),
             MessagesOf(pipe, c.run), g \/ Has(pipe, {"message"})
      PROVE  Serves([p EXCEPT !.run = 0, !.pipe = pipe], c, q, g)
  <2> DEFINE after == [p EXCEPT !.run = 0, !.pipe = pipe]
  <2>1. after.inbox = <<>> /\ after.run = 0 /\ after.pipe = pipe /\ after.reading = p.reading
    BY <1>1 DEF Proc
  <2> HIDE DEF after
  <2>2. Requested(after, c) /\ Responded(after, c, g)
    BY <1>2, <1>3, <2>1 DEF Requested, Responded
  <2>3. RunsPrompt(after, c)
    BY <1>1, <1>3, <2>1 DEF RunsPrompt
  <2>4. Heard(after, c, q, g)
    BY <1>1, <1>2, <1>3, <2>1 DEF Heard
  <2> QED
    BY <2>2, <2>3, <2>4 DEF Serves, after
<1>4. Serves([p EXCEPT !.run = 0, !.pipe = Append(p.pipe, x)], c, q, TRUE)
  <2> DEFINE pipe == Append(p.pipe, x)
  <2>1. /\ Has(pipe, Responses) <=> Has(p.pipe, Responses)
        /\ Has(pipe, {"refused"}) <=> Has(p.pipe, {"refused"})
        /\ NoneAfter(pipe, Responses, Responses) /\ NoneAfter(pipe, {"settled"}, RunKinds)
        /\ MessagesOf(pipe, c.run)
    <3>1. NoneAfter(p.pipe, {"settled"}, RunKinds)
      BY <1>1, NothingThere
    <3> QED
      BY <1>0, <1>1, <1>2, <3>1, AtTheEnd DEF Responses
  <2> HIDE DEF pipe
  <2>2. Serves([p EXCEPT !.run = 0, !.pipe = pipe], c, q, TRUE)
    BY <1>1, <1>3, <2>1
  <2> QED
    BY <2>2 DEF pipe
<1>5. ASSUME NEW m \in Line, m.kind = "message", m.ref = p.run
      PROVE  Serves([p EXCEPT !.run = 0, !.pipe = Append(Append(p.pipe, m), x)], c, q, f)
  <2> DEFINE said == Append(p.pipe, m)
             pipe == Append(said, x)
  <2>1. /\ Has(said, Responses) <=> Has(p.pipe, Responses)
        /\ Has(said, {"refused"}) <=> Has(p.pipe, {"refused"})
        /\ Has(said, {"settled"}) <=> Has(p.pipe, {"settled"})
        /\ Has(said, {"message"})
        /\ NoneAfter(said, Responses, Responses)
        /\ MessagesOf(said, c.run)
        /\ said \in Seq(Line)
    BY <1>0, <1>1, <1>2, <1>5, AtTheEnd DEF Responses
  <2> HIDE DEF said
  <2>2. NoneAfter(said, {"settled"}, RunKinds)
    BY <1>1, <2>1, NothingThere
  <2>3. /\ Has(pipe, Responses) <=> Has(said, Responses)
        /\ Has(pipe, {"refused"}) <=> Has(said, {"refused"})
        /\ Has(pipe, {"message"})
        /\ NoneAfter(pipe, Responses, Responses) /\ NoneAfter(pipe, {"settled"}, RunKinds)
        /\ MessagesOf(pipe, c.run)
    BY <1>1, <2>1, <2>2, AtTheEnd DEF Responses
  <2> HIDE DEF pipe
  <2>4. Serves([p EXCEPT !.run = 0, !.pipe = pipe], c, q, f)
    BY <1>1, <1>3, <2>1, <2>3
  <2> QED
    BY <2>4 DEF pipe, said
<1> QED
  BY <1>4, <1>5

\* A process that ends answers nothing any more; what it said is still read.
LEMMA LessServes ==
  ASSUME NEW p, NEW c, NEW q, NEW f, Serves(p, c, q, f), NEW r, NEW g, f => g,
         r.pipe = p.pipe, r.reading = p.reading,
         r.run \in {p.run, 0}, r.inbox \in {p.inbox, <<>>}
  PROVE  Serves(r, c, q, g)
<1>1. Trace(r) => Trace(p)
  BY DEF Trace
<1>2. Requested(r, c) /\ Responded(r, c, g)
  BY <1>1 DEF Serves, Requested, Responded
<1>3. RunsPrompt(r, c)
  BY <1>1 DEF Serves, RunsPrompt
<1>4. Heard(r, c, q, g)
  BY <1>1 DEF Serves, Heard
<1> QED
  BY <1>2, <1>3, <1>4 DEF Serves

-----------------------------------------------------------------------------
(* The steps of a call.                                                    *)

SoundInv == BaseInv /\ Sound

LEMMA SoundTypes ==
  ASSUME SoundInv
  PROVE  /\ Typed /\ call \in Call /\ queue \in Seq(Event) /\ proc \in [Procs -> Proc]
         /\ process \in Procs \cup {0} /\ 0 \notin Procs
         /\ fault \in BOOLEAN /\ earlier \in BOOLEAN
         /\ Follows(call) /\ Present \in Proc /\ Cleared(Present)
         /\ Serves(Present, call, queue, fault)
<1>1. /\ Typed /\ call \in Call /\ queue \in Seq(Event) /\ proc \in [Procs -> Proc]
      /\ process \in Procs \cup {0} /\ 0 \notin Procs
      /\ fault \in BOOLEAN /\ earlier \in BOOLEAN
      /\ Follows(call) /\ Serves(Present, call, queue, fault)
  BY DEF SoundInv, BaseInv, Typed, PiTypeOK, Sound, Procs
<1>2. Present \in Proc
  BY <1>1, GoneTyped DEF Present
<1>3. Cleared(Present)
  <2>1. Cleared(Gone)
    BY DEF Cleared, Gone
  <2>2. process # 0 => Cleared(proc[process])
    BY <1>1 DEF SoundInv, BaseInv, OverIsOver, Cleared
  <2> QED
    BY <2>1, <2>2 DEF Present
<1> QED
  BY <1>1, <1>2, <1>3

\* The call is over, and the process as it was.
LEMMA ReturnSound ==
  ASSUME SoundInv, NEW out \in {"ok", "failed"}, Return(out),
         UNCHANGED <<process, proc>>, fault' \in {fault, TRUE}, Quiet(Present),
         Entering(call) => fault',
         out = "failed" => fault' \/ earlier',
         out = "ok" => call.answer = call.run
  PROVE  Sound'
<1>1. /\ call'.pc = "idle" /\ call'.outcome = out /\ call'.stage = "enter"
      /\ call'.run = call.run /\ call'.answer = call.answer
  BY ReturnEnds
<1>2. ~InRun(call') /\ ~Restarting(call')
  BY <1>1 DEF InRun, Restarting
<1>3. Present' = Present
  BY DEF Present
<1>4. Serves(Present', call', queue', fault')
  BY <1>2, <1>3, QuietServes
<1>5. OneReader'
  BY DEF SoundInv, Sound, OneReader
<1>6. AnswerFits(call')
  BY <1>1, <1>2 DEF AnswerFits
<1>7. FaultSeen'
  BY <1>1, <1>3, SoundTypes DEF SoundInv, Sound, FaultSeen
<1> QED
  BY <1>4, <1>5, <1>6, <1>7 DEF Sound

\* The call is over, and so is the process.
LEMMA ClosedSound ==
  ASSUME SoundInv, Return("failed"), Close, fault' \/ earlier'
  PROVE  Sound'
<1>1. /\ call'.pc = "idle" /\ call'.outcome = "failed"
      /\ ~InRun(call') /\ ~Restarting(call')
  BY ReturnEnds DEF InRun, Restarting
<1>2. process' = 0 /\ Present' = Gone
  BY DEF Close, Present
<1>3. Serves(Present', call', queue', fault')
  BY <1>1, <1>2, GoneIsQuiet, QuietServes
<1>4. OneReader'
  BY SoundTypes, GoneIsQuiet DEF Close, SoundInv, Sound, OneReader
<1>5. AnswerFits(call')
  BY <1>1 DEF AnswerFits
<1>6. FaultSeen'
  BY <1>1, <1>2 DEF FaultSeen
<1> QED
  BY <1>3, <1>4, <1>5, <1>6 DEF Sound

\* Which requests have a prompt before them.
LEMMA PromptFacts ==
  ASSUME NEW todo \in Scripts
  PROVE  /\ todo \in {Script.prompt, <<"boot">> \o Script.prompt} <=> todo = Script.prompt
         /\ <<"boot">> \o todo \in {Script.prompt, <<"boot">> \o Script.prompt}
              <=> todo = Script.prompt
         /\ <<"boot">> \o todo # Script.prompt
         /\ <<"state", "stats">> \in Scripts /\ <<"state", "stats">> # Script.prompt
<1>1. Script.prompt \in Scripts /\ <<"state", "stats">> \in Scripts
  BY DEF Scripts
<1>2. <<"boot">> \o Script.prompt \notin Scripts /\ <<"boot">> \o todo \notin Scripts
      /\ Tail(<<"boot">> \o Script.prompt) = Script.prompt
      /\ Tail(<<"boot">> \o todo) = todo
  BY <1>1, BootFacts
<1>3. <<"state", "stats">> # Script.prompt
  BY Steps
<1> QED
  BY <1>1, <1>2, <1>3

LEMMA StartSound ==
  ASSUME SoundInv, Start, overtaken = 0, overtaken' = 0
  PROVE  Sound'
<1>0. /\ call \in Call /\ proc \in [Procs -> Proc] /\ call.pc = "ready" /\ call.todo \in Scripts
      /\ FreshId \in Nat /\ call.stage \in {"enter", "body"}
  BY SoundTypes, FreshNumbers DEF Start, MustStart, Follows, SoundInv, BaseInv
<1>1. PICK g \in Unread : process' = g /\ proc' = [proc EXCEPT ![g] = Started(FreshId)]
  BY DEF Start
<1>2. g \in Procs /\ g # 0 /\ \A h \in Procs : ~proc[h].reading
  BY <1>0, <1>1, SoundTypes DEF Start, Unread
<1>3. Present' = Started(FreshId)
  BY <1>0, <1>1, <1>2 DEF Present
<1> DEFINE id == FreshId
<1>4. call' = [call EXCEPT !.pc = "waiting", !.todo = <<"boot">> \o call.todo, !.id = id,
                 !.fate = "none", !.stage = IF call.stage = "enter" THEN "enter" ELSE "inner"]
  BY DEF Start
<1> DEFINE todo == <<"boot">> \o call.todo
           stage == IF call.stage = "enter" THEN "enter" ELSE "inner"
<1> HIDE DEF id, todo, stage
<1>5. /\ call'.pc = "waiting" /\ call'.todo = todo /\ call'.fate = "none"
      /\ call'.stage = stage /\ call'.run = call.run /\ call'.answer = call.answer
      /\ call'.outcome = call.outcome
  BY <1>0, <1>4 DEF Call, todo, stage
<1>6. /\ todo # Script.prompt
      /\ todo \in {Script.prompt, <<"boot">> \o Script.prompt} <=> call.todo = Script.prompt
      /\ call.todo \in {Script.prompt, <<"boot">> \o Script.prompt} <=> call.todo = Script.prompt
  BY <1>0, PromptFacts DEF todo
<1>7. ~InRun(call')
  BY <1>5, <1>6 DEF InRun
<1>8. queue' = <<>> \/ ~Restarting(call')
  <2>1. ASSUME Restarting(call')
        PROVE  queue' = <<>>
    <3>1. stage = "inner" /\ call.todo = Script.prompt
      BY <1>5, <1>6, <2>1 DEF Restarting
    <3>2. call.stage = "body" /\ Sending = "prompt"
      BY <1>0, <3>1, ScriptFacts DEF stage, Sending
    <3> QED
      BY <3>2 DEF Start, Discarded
  <2> QED
    BY <2>1
<1>9. Serves(Present', call', queue', fault')
  <2> DEFINE p == Started(FreshId)
             request == [request |-> "boot", id |-> FreshId, run |-> 0]
  <2>1. p.run = 0 /\ p.pipe = <<>> /\ p.inbox = <<request>>
    BY DEF Started
  <2>2. Len(p.inbox) = 1 /\ Head(p.inbox) = request /\ request.request = "boot"
    BY <2>1
  <2> HIDE DEF p, request
  <2>3. ~Trace(p) /\ ~Has(p.pipe, Responses)
    BY <2>1, NothingInEmpty DEF Trace
  <2>4. Serves(p, call', queue', fault')
    BY <1>5, <1>7, <1>8, <2>2, <2>3, RequestServes
  <2> QED
    BY <1>3, <2>4 DEF p
<1>10. OneReader'
  BY <1>0, <1>1, <1>2 DEF OneReader
<1>11. AnswerFits(call')
  BY <1>0, <1>5, <1>6, <1>7 DEF SoundInv, Sound, AnswerFits
<1>12. FaultSeen'
  <2>1. Present'.reading /\ Present'.state = "alive"
    BY <1>3 DEF Started
  <2> QED
    BY <1>0, <1>1, <1>2, <1>5, <2>1 DEF FaultSeen, SoundInv, Sound, AnswerFits
<1> QED
  BY <1>9, <1>10, <1>11, <1>12 DEF Sound

LEMMA SendSound ==
  ASSUME SoundInv, Send
  PROVE  Sound'
<1> DEFINE id == FreshId
           run == IF Sending = "prompt" THEN FreshRun ELSE call.run
           request == [request |-> Sending, id |-> FreshId,
                       run |-> IF Sending = "prompt" THEN FreshRun ELSE 0]
           inbox == IF Present.state = "alive" THEN Append(Present.inbox, request)
                    ELSE Present.inbox
           p == [Present EXCEPT !.inbox = inbox]
<1>0. /\ call \in Call /\ proc \in [Procs -> Proc] /\ call.pc = "ready" /\ call.todo \in Scripts
      /\ process \in Procs /\ process # 0 /\ Present = proc[process] /\ Present \in Proc
      /\ Present.reading /\ FreshRun # 0
  BY SoundTypes, FreshNumbers DEF Send, MaySend, Follows, SoundInv, BaseInv, Present
<1>1. Quiet(Present)
  BY <1>0, SoundTypes, QuietBetween, NotWaiting
<1>2. /\ call' = [call EXCEPT !.pc = "waiting", !.id = id, !.fate = "none", !.run = run]
      /\ proc' = [proc EXCEPT ![process] = p] /\ process' = process
      /\ queue' = Discarded /\ NothingSeen
  BY <1>0 DEF Send
<1>3. Present' = p
  BY <1>0, <1>2 DEF Present
<1>4. (Sending = "prompt" => run = FreshRun /\ request.run = run)
      /\ (Sending # "prompt" => run = call.run) /\ request.request = Sending
      /\ (Sending = "prompt" <=> call.todo = Script.prompt)
  BY <1>0, ScriptFacts DEF Sending
<1>5. inbox # <<>> => Len(inbox) = 1 /\ Head(inbox) = request
  <2>1. Present.inbox = <<>>
    BY <1>1 DEF Quiet
  <2> HIDE DEF request
  <2>2. Append(<<>>, request) = <<request>>
    OBVIOUS
  <2> QED
    BY <2>1, <2>2
<1> HIDE DEF id, run, request, inbox
<1>6. /\ call'.pc = "waiting" /\ call'.todo = call.todo /\ call'.fate = "none"
      /\ call'.stage = call.stage /\ call'.run = run /\ call'.answer = call.answer
      /\ call'.outcome = call.outcome
  BY <1>0, <1>2 DEF Call
<1>7. p.inbox = inbox /\ p.run = Present.run /\ p.pipe = Present.pipe
      /\ p.reading /\ p.state = Present.state
  BY <1>0 DEF Proc
<1> HIDE DEF p
<1>8. queue' = <<>> \/ (~InRun(call') /\ ~Restarting(call'))
  <2>1. ~Restarting(call')
    <3>1. <<"boot">> \o Script.prompt \notin Scripts
      BY BootFacts DEF Scripts
    <3> QED
      BY <1>0, <1>6, <3>1 DEF Restarting
  <2>2. CASE call.todo = Script.prompt
    <3>1. CASE call.stage = "inner"
      <4>1. Restarting(call)
        BY <1>0, <2>2, <3>1 DEF Restarting
      <4>2. queue = <<>>
        BY <1>0, <4>1, SoundTypes DEF Serves, Heard
      <4> QED
        BY <1>2, <4>2 DEF Discarded
    <3>2. CASE call.stage # "inner"
      BY <1>2, <1>4, <2>2, <3>2 DEF Discarded
    <3> QED
      BY <3>1, <3>2
  <2>3. CASE call.todo # Script.prompt
    BY <1>6, <2>1, <2>3 DEF InRun
  <2> QED
    BY <2>2, <2>3
<1>9. Serves(Present', call', queue', fault')
  <2>1. ~Trace(p) /\ ~Has(p.pipe, Responses)
    BY <1>1, <1>7 DEF Quiet, Trace
  <2>2. p.inbox # <<>> =>
          /\ Len(p.inbox) = 1
          /\ Head(p.inbox).request = "prompt" =>
               call'.todo = Script.prompt /\ Head(p.inbox).run = call'.run
    BY <1>4, <1>5, <1>6, <1>7
  <2>3. Serves(p, call', queue', fault')
    BY <1>6, <1>8, <2>1, <2>2, RequestServes
  <2> QED
    BY <1>3, <2>3
<1>10. OneReader'
  BY <1>0, <1>2 DEF SoundInv, Sound, OneReader
<1>11. AnswerFits(call')
  <2>1. InRun(call') => call'.run # 0
    BY <1>0, <1>4, <1>6 DEF InRun
  <2>2. call.todo \in {Script.prompt, <<"boot">> \o Script.prompt} <=> call.todo = Script.prompt
    BY <1>0, PromptFacts
  <2> QED
    BY <1>0, <1>4, <1>6, <2>1, <2>2 DEF SoundInv, Sound, AnswerFits
<1>12. FaultSeen'
  <2>1. Present.state = "reaped" => fault
    <3>1. ASSUME Present.state = "reaped"
          PROVE  ~Entering(call)
      BY <1>0, <3>1 DEF Send, MaySend, Running, Entering
    <3> QED
      BY <1>0, <3>1 DEF SoundInv, Sound, FaultSeen
  <2>2. fault' = fault
    BY <1>2 DEF NothingSeen
  <2> QED
    BY <1>0, <1>2, <1>3, <1>6, <1>7, <2>1, <2>2 DEF FaultSeen, SoundInv, Sound, AnswerFits
<1> QED
  BY <1>9, <1>10, <1>11, <1>12 DEF Sound

\* The call goes on in another state, with the same process.
LEMMA GoesOnSound ==
  ASSUME SoundInv, UNCHANGED <<process, proc, fault, earlier>>,
         call'.pc \in {"ready", "settling"}, ~Entering(call), ~Entering(call'),
         call.pc # "idle",
         AnswerFits(call'), Serves(Present, call', queue', fault)
  PROVE  Sound'
<1>1. Present' = Present
  BY DEF Present
<1>2. OneReader'
  BY DEF SoundInv, Sound, OneReader
<1>3. FaultSeen'
  BY <1>1, SoundTypes DEF SoundInv, Sound, FaultSeen, AnswerFits
<1> QED
  BY <1>1, <1>2, <1>3 DEF Sound

LEMMA AnsweredSound ==
  ASSUME SoundInv, Answered
  PROVE  Sound'
<1> DEFINE rest == Tail(call.todo)
<1>0. /\ call \in Call /\ call.pc = "waiting" /\ call.fate = "answered" /\ Follows(call)
      /\ UNCHANGED <<process, proc, queue, fault, earlier>>
      /\ ~Entering(call) /\ AnswerFits(call)
      /\ Serves(Present, call, queue, fault)
  BY SoundTypes DEF Answered, NothingSeen, Entering, SoundInv, Sound
<1>1. CASE Sending = "prompt"
  <2>1. call.todo = Script.prompt
    BY <1>0, <1>1, WaitingFacts, ScriptFacts DEF Sending
  <2>2. rest # <<>>
    BY <2>1, Steps
  <2>3. call' = [call EXCEPT !.pc = "settling", !.todo = rest]
    BY <1>1, <2>2 DEF Answered
  <2> HIDE DEF rest
  <2>4. call'.pc = "settling" /\ call'.run = call.run /\ call'.answer = call.answer
        /\ call'.outcome = call.outcome
    BY <1>0, <2>3 DEF Call
  <2>5. InRun(call) /\ InRun(call') /\ ~Restarting(call') /\ ~Entering(call')
    BY <1>0, <2>1, <2>4 DEF InRun, Restarting, Entering
  <2>6. Serves(Present, call', queue', fault)
    BY <1>0, <2>4, <2>5, RunGoesOn
  <2>7. AnswerFits(call')
    BY <1>0, <2>1, <2>4, <2>5 DEF AnswerFits
  <2> QED
    BY <1>0, <2>4, <2>5, <2>6, <2>7, GoesOnSound
<1>2. CASE Sending # "prompt"
  <2>1. \/ call.todo \in Scripts /\ Head(call.todo) # "boot" /\ call.todo # Script.prompt
           /\ rest # Script.prompt /\ (rest = <<>> \/ rest \in Scripts)
        \/ /\ Head(call.todo) = "boot" /\ rest \in Scripts /\ call.todo \notin Scripts
           /\ call.todo = <<"boot">> \o rest
    BY <1>0, <1>2, WaitingFacts, ScriptFacts DEF Sending
  <2>2. ~InRun(call)
    <3>1. Script.prompt \in Scripts
      BY DEF Scripts
    <3> QED
      BY <1>0, <2>1, <3>1 DEF InRun
  <2>3. Quiet(Present)
    BY <1>0, <2>2, QuietBetween
  <2>4. call.todo \in {Script.prompt, <<"boot">> \o Script.prompt} <=> rest = Script.prompt
    BY <2>1, PromptFacts
  <2>5. CASE rest = <<>>
    <3>1. Return("ok")
      BY <1>2, <2>5 DEF Answered
    <3>2. rest # Script.prompt
      BY <2>5, ScriptFacts DEF Scripts
    <3>3. call.answer = call.run
      BY <1>0, <2>4, <3>2 DEF AnswerFits
    <3> QED
      BY <1>0, <2>3, <3>1, <3>3, ReturnSound
  <2>6. CASE rest # <<>>
    <3> DEFINE stage == IF Sending = "boot" /\ call.stage = "inner" THEN "inner" ELSE "body"
    <3>1. call' = [call EXCEPT !.pc = "ready", !.todo = rest, !.stage = stage]
      BY <1>2, <2>6 DEF Answered
    <3>2. /\ stage \in {"inner", "body"}
          /\ stage = "inner" => Sending = "boot" /\ call.stage = "inner"
      OBVIOUS
    <3>3. rest \in Scripts
      BY <2>1, <2>6
    <3> HIDE DEF rest, stage
    <3>4. /\ call'.pc = "ready" /\ call'.todo = rest /\ call'.stage = stage
          /\ call'.run = call.run /\ call'.answer = call.answer
          /\ call'.outcome = call.outcome
      BY <1>0, <3>1 DEF Call
    <3>5. ~InRun(call') /\ ~Entering(call')
      BY <3>2, <3>4 DEF InRun, Entering
    <3>6. Restarting(call') => Restarting(call)
      BY <1>0, <2>1, <3>2, <3>4 DEF Restarting, Sending
    <3>7. queue = <<>> \/ ~(Restarting(call') /\ Present.reading)
      BY <1>0, <3>6 DEF Serves, Heard
    <3>8. Serves(Present, call', queue', fault)
      BY <1>0, <2>3, <3>5, <3>7, QuietServes
    <3>9. rest \in {Script.prompt, <<"boot">> \o Script.prompt} <=> rest = Script.prompt
      BY <3>3, PromptFacts
    <3>10. AnswerFits(call')
      BY <1>0, <2>4, <3>4, <3>5, <3>9 DEF AnswerFits
    <3> QED
      BY <1>0, <3>4, <3>5, <3>8, <3>10, GoesOnSound
  <2> QED
    BY <2>5, <2>6
<1> QED
  BY <1>1, <1>2

\* A run that settled without a message, or was cut off: something went wrong.
LEMMA FailedRunHasFault ==
  ASSUME SoundInv, call.pc = "settling", queue # <<>>,
         (Head(queue).kind = "settled" /\ call.answer = 0) \/ Head(queue).kind \in Stops
  PROVE  fault
<1>0. queue \in Seq(Event) /\ Serves(Present, call, queue, fault) /\ InRun(call) /\ FaultSeen
      /\ ~Entering(call)
  BY SoundTypes DEF SoundInv, Sound, InRun, Entering
<1>1. CASE Head(queue).kind = "settled" /\ call.answer = 0
  <2>1. Has(queue, {"settled"})
    BY <1>0, <1>1, AfterHead
  <2>2. NoneAfter(queue, {"settled"}, RunKinds) /\ ~Trace(Present)
    BY <1>0, <2>1 DEF Serves, Heard
  <2>3. ~Has(Tail(queue), RunKinds)
    BY <1>0, <1>1, <2>2, AfterHead
  <2>4. ~Has(Tail(queue), {"message"}) /\ ~Has(Present.pipe, {"message"})
    BY <2>2, <2>3, NothingThere DEF RunKinds, Trace
  <2>5. ~Has(queue, {"message"})
    BY <1>0, <1>1, <2>4, AfterHead
  <2> QED
    BY <1>0, <1>1, <2>1, <2>4, <2>5 DEF Serves, Heard
<1>2. CASE Head(queue).kind \in Stops
  <2>1. Has(queue, Stops)
    BY <1>0, <1>2, AfterHead
  <2>2. ~Present.reading
    BY <1>0, <2>1 DEF Serves, Heard
  <2> QED
    BY <1>0, <2>2 DEF FaultSeen
<1> QED
  BY <1>1, <1>2

LEMMA EventEnds ==
  ASSUME SoundInv, call.pc = "settling", queue # <<>>, Head(queue).kind # "message"
  PROVE  Quiet(Present)
<1>1. Head(queue) \in Event /\ queue \in Seq(Event)
  BY SoundTypes, AfterHead
<1>2. Head(queue).kind \in {"settled"} \cup Stops
  BY <1>1 DEF Event, Stops
<1>3. Has(queue, {"settled"} \cup Stops)
  BY <1>1, <1>2, AfterHead
<1> QED
  BY <1>3, SoundTypes, QuietAtTheEnd

LEMMA TakeEventSound ==
  ASSUME SoundInv, TakeEvent
  PROVE  Sound'
<1> DEFINE event == Head(queue)
<1>0. /\ call \in Call /\ call.pc = "settling" /\ Follows(call) /\ queue \in Seq(Event)
      /\ queue # <<>> /\ queue' = Tail(queue)
      /\ UNCHANGED <<process, proc, fault, earlier>>
      /\ ~Entering(call) /\ AnswerFits(call) /\ InRun(call)
      /\ Serves(Present, call, queue, fault)
  BY SoundTypes DEF TakeEvent, NothingSeen, Entering, InRun, SoundInv, Sound
<1>1. CASE event.kind = "message" /\ call' = [call EXCEPT !.answer = event.ref]
  <2>1. event.ref = call.run /\ call.run # 0
    BY <1>0, <1>1, AfterHead DEF Serves, Heard, AnswerFits
  <2>2. call'.pc = "settling" /\ call'.run = call.run /\ call'.answer = call.run
        /\ call'.outcome = call.outcome
    BY <1>0, <1>1, <2>1 DEF Call
  <2>3. Serves(Present, call', queue', fault)
    BY <1>0, <2>1, <2>2, MessageTaken
  <2>4. AnswerFits(call') /\ ~Entering(call')
    BY <1>0, <2>1, <2>2 DEF AnswerFits, Entering
  <2> QED
    BY <1>0, <2>2, <2>3, <2>4, GoesOnSound
<1>2. CASE event.kind = "settled" /\ call.answer # 0
           /\ call' = [call EXCEPT !.pc = "ready", !.stage = "body"]
  <2>1. /\ call'.pc = "ready" /\ call'.stage = "body" /\ call'.todo = <<"state", "stats">>
        /\ call'.run = call.run /\ call'.answer = call.run
        /\ call'.outcome = call.outcome
    BY <1>0, <1>2 DEF Call, AnswerFits, Follows
  <2>2. ~InRun(call') /\ ~Restarting(call') /\ ~Entering(call')
    BY <2>1 DEF InRun, Restarting, Entering
  <2>3. Quiet(Present)
    BY <1>0, <1>2, EventEnds
  <2>4. Serves(Present, call', queue', fault)
    BY <2>2, <2>3, QuietServes
  <2>5. call'.todo \notin {Script.prompt, <<"boot">> \o Script.prompt}
    <3>1. <<"state", "stats">> \in Scripts /\ <<"state", "stats">> # Script.prompt
      BY PromptFacts DEF Scripts
    <3> QED
      BY <2>1, <3>1, PromptFacts
  <2>6. AnswerFits(call')
    BY <1>0, <2>1, <2>2, <2>5 DEF AnswerFits
  <2> QED
    BY <1>0, <2>1, <2>2, <2>4, <2>6, GoesOnSound
<1>3. CASE Return("failed") /\ ((event.kind = "settled" /\ call.answer = 0)
                                  \/ event.kind \in {"exited", "failed"})
  <2>1. event.kind # "message" /\ fault
    BY <1>0, <1>3, FailedRunHasFault DEF Stops
  <2>2. Quiet(Present)
    BY <1>0, <2>1, EventEnds
  <2> QED
    BY <1>0, <1>3, <2>1, <2>2, ReturnSound
<1> QED
  BY <1>1, <1>2, <1>3 DEF TakeEvent

LEMMA CallStepSound ==
  ASSUME SoundInv, CallStep, overtaken = 0, overtaken' = 0
  PROVE  Sound'
<1>0. /\ Serves(Present, call, queue, fault) /\ FaultSeen /\ fault \in BOOLEAN
      /\ process \in Procs \cup {0} /\ 0 \notin Procs
  BY SoundTypes DEF SoundInv, Sound
<1>1. ASSUME call.pc = "ready"
      PROVE  Quiet(Present)
  BY <1>0, <1>1, QuietBetween, NotWaiting
<1>2. CASE Start
  BY <1>2, StartSound
<1>3. CASE StartFails \/ WriteFails
  <2>1. call.pc = "ready"
    BY <1>3 DEF StartFails, WriteFails, MustStart, MaySend
  <2> QED
    BY <1>1, <1>3, <2>1, ReturnSound DEF StartFails, WriteFails, Seen
<1>4. CASE WithoutPi
  <2>1. call.pc = "ready" /\ ~Entering(call)
    BY <1>4 DEF WithoutPi, Entering
  <2>2. process = 0 => fault
    BY <1>0, <2>1 DEF FaultSeen
  <2>3. process # 0 /\ ~Running => Present.state \notin {"alive", "dead"}
    BY DEF Running, Present
  <2>4. Present.state = "none" => process = 0
    BY DEF SoundInv, BaseInv, PiTypeOK, Present
  <2>5. Present.state \in {"none", "alive", "dead", "reaped"}
    BY SoundTypes DEF Proc
  <2>6. fault
    <3>1. process # 0 /\ ~Running => Present.state = "reaped"
      BY <2>3, <2>4, <2>5
    <3> QED
      BY <1>0, <1>4, <2>1, <2>2, <3>1 DEF FaultSeen, WithoutPi
  <2> QED
    BY <1>1, <1>4, <2>1, <2>6, ReturnSound DEF WithoutPi, NothingSeen
<1>5. CASE ReaderIsOver
  <2>1. process # 0 /\ ~Present.reading
    BY <1>5 DEF ReaderIsOver, MaySend, Present
  <2>2. fault \/ earlier
    BY <1>0, <2>1 DEF FaultSeen
  <2> QED
    BY <1>5, <2>2, ClosedSound DEF ReaderIsOver, NothingSeen
<1>6. CASE Send
  BY <1>6, SendSound
<1>7. CASE Answered
  BY <1>7, AnsweredSound
<1>8. CASE NotAnswered
  <2>1. call.pc = "waiting" /\ call.fate \in {"refused", "failed"} /\ Return("failed")
        /\ fault' = fault /\ ~Entering(call)
    BY <1>8 DEF NotAnswered, NothingSeen, Entering
  <2>2. fault
    BY <1>0, <2>1 DEF FaultSeen
  <2>3. ~InRun(call) /\ Quiet(Present)
    BY <1>0, <2>1, QuietBetween DEF InRun
  <2>4. Close \/ UNCHANGED <<process, proc>>
    BY <1>8 DEF NotAnswered
  <2> QED
    BY <2>1, <2>2, <2>3, <2>4, ReturnSound, ClosedSound
<1>9. CASE BadRun
  <2>1. Return("failed") /\ fault' = TRUE /\ UNCHANGED <<process, proc>> /\ ~Entering(call)
    BY <1>9 DEF BadRun, Seen, Entering
  <2>2. CASE call.pc = "settling" /\ queue # <<>> /\ Head(queue).kind = "settled"
    BY <2>1, <2>2, EventEnds, ReturnSound
  <2>3. CASE call.pc = "waiting" /\ call.fate = "answered" /\ call.todo = <<"stats">>
    <3>1. <<"stats">> # Script.prompt
      BY Steps
    <3>2. ~InRun(call)
      BY <2>3, <3>1 DEF InRun
    <3> QED
      BY <1>0, <2>1, <2>3, <3>2, QuietBetween, ReturnSound
  <2> QED
    BY <1>9, <2>2, <2>3 DEF BadRun
<1>10. CASE TakeEvent
  BY <1>10, TakeEventSound
<1>11. CASE TimesOut
  BY <1>11, ClosedSound DEF TimesOut, Seen
<1> QED
  BY <1>2, <1>3, <1>4, <1>5, <1>6, <1>7, <1>8, <1>9, <1>10, <1>11 DEF CallStep

-----------------------------------------------------------------------------
(* The steps of readers, of Pi and of the service.                         *)

LEMMA BeginSound ==
  ASSUME SoundInv, NEW op \in DOMAIN Script, Begin(op)
  PROVE  Sound'
<1>1. /\ call'.todo \in Scripts /\ call'.pc = "ready" /\ call'.stage = "enter"
      /\ call'.run = 0 /\ call'.answer = 0 /\ call'.outcome = "none"
      /\ UNCHANGED <<process, proc, queue>>
  BY BeginIs
<1>2. call.pc = "idle" /\ earlier' = fault /\ fault' = FALSE
  BY DEF Begin
<1>3. ~InRun(call') /\ ~Restarting(call') /\ Entering(call') /\ ~Entering(call)
  BY <1>1, <1>2 DEF InRun, Restarting, Entering
<1>4. Quiet(Present) /\ Present' = Present
  BY <1>1, <1>2, SoundTypes, QuietBetween, NotWaiting DEF Present
<1>5. Serves(Present', call', queue', fault')
  BY <1>3, <1>4, QuietServes
<1>6. OneReader' /\ AnswerFits(call')
  BY <1>1, <1>3 DEF SoundInv, Sound, OneReader, AnswerFits
<1>7. FaultSeen'
  BY <1>1, <1>2, <1>3, <1>4 DEF SoundInv, Sound, FaultSeen
<1> QED
  BY <1>5, <1>6, <1>7 DEF Sound

LEMMA ReaderSound ==
  ASSUME SoundInv, NEW g \in Procs, ReaderStep(g)
  PROVE  Sound'
<1> DEFINE p == proc[g]
           line == Head(p.pipe)
<1>0. /\ call \in Call /\ queue \in Seq(Event) /\ proc \in [Procs -> Proc] /\ p \in Proc
      /\ fault \in BOOLEAN /\ p.reading /\ process' = process /\ g = process
      /\ process # 0 /\ Present = p /\ Serves(p, call, queue, fault)
      /\ AnswerFits(call) /\ FaultSeen
  BY SoundTypes, ReaderStepIs DEF Present, SoundInv, Sound, OneReader
<1>1. CASE /\ p.pipe # <<>>
           /\ proc' = [proc EXCEPT ![g] = [p EXCEPT !.pipe = Tail(p.pipe)]]
           /\ NothingSeen
           /\ \/ /\ line.kind \in {"answered", "refused"}
                 /\ call' \in {call, Resolve(line.kind)}
                 /\ UNCHANGED queue
              \/ /\ line.kind \in {"message", "settled"}
                 /\ line \in Event
                 /\ queue' = Append(queue, line)
                 /\ UNCHANGED call
  <2> DEFINE after == [p EXCEPT !.pipe = Tail(p.pipe)]
  <2>1. after.reading /\ after.state = p.state
    BY <1>0 DEF Proc
  <2>2. Present' = after
    BY <1>0, <1>1 DEF Present
  <2>3. OneReader'
    BY <1>0, <1>1 DEF SoundInv, Sound, OneReader
  <2>4. fault' = fault /\ earlier' = earlier
    BY <1>1 DEF NothingSeen
  <2> HIDE DEF after
  <2>5. CASE /\ line.kind \in {"answered", "refused"}
             /\ call' \in {call, Resolve(line.kind)}
             /\ UNCHANGED queue
    <3>1. call' \in {call, [call EXCEPT !.fate = line.kind]}
      BY <2>5 DEF Resolve
    <3>2. /\ Serves(after, call', queue, fault)
          /\ call'.pc = call.pc /\ call'.stage = call.stage /\ call'.todo = call.todo
          /\ call'.run = call.run /\ call'.answer = call.answer /\ call'.outcome = call.outcome
          /\ call'.fate = "refused" => fault
          /\ call'.fate # "failed" /\ call.pc = "waiting" /\ (InRun(call') => InRun(call))
      <4>1. line.kind \in Responses /\ queue' = queue
        BY <2>5 DEF Responses
      <4>2. line.kind = Head(p.pipe).kind
        OBVIOUS
      <4> DEFINE d == call'
      <4>3. d \in {call, [call EXCEPT !.fate = Head(p.pipe).kind]}
        BY <3>1
      <4> HIDE DEF d, p
      <4>4. /\ Serves([p EXCEPT !.pipe = Tail(p.pipe)], d, queue, fault)
            /\ d.pc = call.pc /\ d.stage = call.stage /\ d.todo = call.todo
            /\ d.run = call.run /\ d.answer = call.answer /\ d.outcome = call.outcome
            /\ d.fate = "refused" => fault
            /\ d.fate # "failed" /\ call.pc = "waiting" /\ (InRun(d) => InRun(call))
        <5>1. p \in Proc /\ call \in Call /\ Serves(p, call, queue, fault) /\ p.pipe # <<>>
          BY <1>0, <1>1
        <5>2. Head(p.pipe).kind \in Responses
          BY <4>1
        <5> QED
          BY <4>3, <5>1, <5>2, ResponseRead
      <4> QED
        BY <4>1, <4>4 DEF d, p, after
    <3>3. AnswerFits(call')
      BY <1>0, <3>2 DEF AnswerFits
    <3>4. FaultSeen'
      BY <1>0, <2>1, <2>2, <2>4, <3>2 DEF FaultSeen, Entering
    <3> QED
      BY <2>2, <2>3, <2>4, <2>5, <3>2, <3>3, <3>4 DEF Sound
  <2>6. CASE /\ line.kind \in {"message", "settled"}
             /\ line \in Event
             /\ queue' = Append(queue, line)
             /\ UNCHANGED call
    <3>1. Serves(after, call, queue', fault)
      BY <1>0, <1>1, <2>6, EventRead DEF RunKinds, after
    <3>2. FaultSeen'
      BY <1>0, <2>1, <2>2, <2>4, <2>6 DEF FaultSeen, Entering
    <3> QED
      BY <1>0, <2>2, <2>3, <2>4, <2>6, <3>1, <3>2 DEF Sound
  <2> QED
    BY <1>1, <2>5, <2>6
<1>2. CASE /\ proc' = [proc EXCEPT ![g] = [p EXCEPT !.reading = FALSE, !.run = 0,
                                             !.inbox = <<>>, !.pipe = <<>>]]
           /\ call' = Resolve("failed")
           /\ \E kind \in {"exited", "failed"} :
                queue' = Append(queue, [kind |-> kind, ref |-> 0])
           /\ Seen \/ (NothingSeen /\ p.state = "reaped")
  <2> DEFINE after == [p EXCEPT !.reading = FALSE, !.run = 0, !.inbox = <<>>, !.pipe = <<>>]
  <2>1. ~after.reading
    BY <1>0 DEF Proc
  <2>2. Present' = after
    BY <1>0, <1>2 DEF Present
  <2>3. OneReader'
    BY <1>0, <1>2, <2>1, <2>2 DEF SoundInv, Sound, OneReader, Present
  <2>4. fault => fault'
    BY <1>2 DEF Seen, NothingSeen
  <2>5. fault' \/ (earlier' /\ Entering(call))
    <3>1. CASE Seen
      BY <3>1 DEF Seen
    <3>2. CASE NothingSeen /\ p.state = "reaped"
      BY <1>0, <3>2 DEF FaultSeen, NothingSeen
    <3> QED
      BY <1>2, <3>1, <3>2
  <2>6. \/ call' = call /\ ~(call.pc = "waiting" /\ call.fate = "none")
        \/ /\ call.pc = "waiting" /\ call'.pc = "waiting" /\ call'.fate = "failed"
           /\ call'.todo = call.todo /\ call'.run = call.run /\ call'.answer = call.answer
           /\ call'.outcome = call.outcome
    BY <1>0, <1>2 DEF Resolve, Call
  <2>7. call' = call \/ ~InRun(call')
    BY <2>6 DEF InRun
  <2>8. AnswerFits(call')
    BY <1>0, <2>6, <2>7 DEF AnswerFits
  <2>9. Serves(after, call', queue', fault')
    <3>1. PICK kind \in {"exited", "failed"} : queue' = Append(queue, [kind |-> kind, ref |-> 0])
      BY <1>2
    <3> QED
      BY <1>0, <2>4, <2>7, <3>1, StopRead DEF Stops, after
  <2>10. FaultSeen'
    <3>1. Entering(call) => call' = call
      BY <2>6 DEF Entering
    <3>2. call'.pc = "idle" => call' = call
      BY <2>6
    <3>3. call'.pc = "idle" => fault'
      BY <2>5, <3>2 DEF Entering
    <3>4. call'.pc = "waiting" => fault'
      BY <2>5, <2>6 DEF Entering
    <3>5. call'.outcome # "none" => call'.pc = "idle"
      BY <2>8 DEF AnswerFits
    <3> QED
      BY <1>0, <2>5, <3>1, <3>3, <3>4, <3>5 DEF FaultSeen
  <2> QED
    BY <2>2, <2>3, <2>8, <2>9, <2>10 DEF Sound
<1> QED
  BY <1>1, <1>2, SoundTypes, ReaderStepIs

LEMMA PiSound ==
  ASSUME SoundInv, NEW g \in Procs, PiStep(g)
  PROVE  Sound'
<1> DEFINE old == proc[g]
<1>0. /\ proc \in [Procs -> Proc] /\ old \in Proc /\ Typed
      /\ process \in Procs \cup {0} /\ 0 \notin Procs
      /\ fault \in BOOLEAN /\ Serves(Present, call, queue, fault)
      /\ AnswerFits(call) /\ FaultSeen
  BY SoundTypes DEF SoundInv, Sound
<1>1. PICK p \in Proc :
        /\ PiChanges(g, p) /\ p.reading = old.reading
        /\ \/ p.state = old.state
           \/ PiDies(g) /\ p.state = "dead"
           \/ ExitSeen(g) /\ p.state = "reaped"
        /\ Serves(old, call, queue, fault) =>
             \/ g # process
             \/ Serves(p, call, queue, fault')
  <2> SUFFICES \E p \in Proc :
        /\ PiChanges(g, p) /\ p.reading = old.reading
        /\ \/ p.state = old.state
           \/ PiDies(g) /\ p.state = "dead"
           \/ ExitSeen(g) /\ p.state = "reaped"
        /\ Serves(old, call, queue, fault) => Serves(p, call, queue, fault')
    OBVIOUS
  <2>1. PICK p \in Proc :
           /\ PiChanges(g, p)
           /\ p.reading = old.reading
           /\ \/ PiAnswers(g) /\ p = [old EXCEPT
                   !.inbox = Tail(old.inbox),
                   !.run = IF Head(old.inbox).request = "prompt"
                           THEN Head(old.inbox).run ELSE old.run,
                   !.pipe = Append(old.pipe,
                                   [kind |-> "answered", ref |-> Head(old.inbox).id])]
              \/ PiRefuses(g) /\ p = [old EXCEPT
                   !.inbox = Tail(old.inbox),
                   !.pipe = Append(old.pipe,
                                   [kind |-> "refused", ref |-> Head(old.inbox).id])]
              \/ PiGarbles(g) /\ p = [old EXCEPT
                   !.pipe = Append(old.pipe, [kind |-> "garbled", ref |-> 0])]
              \/ PiSettles(g) /\ p = [old EXCEPT
                   !.run = 0,
                   !.pipe = Append(Append(old.pipe,
                                   [kind |-> "message", ref |-> old.run]),
                                   [kind |-> "settled", ref |-> 0])]
              \/ PiSettlesWithoutMessage(g) /\ p = [old EXCEPT
                   !.run = 0,
                   !.pipe = Append(old.pipe, [kind |-> "settled", ref |-> 0])]
              \/ PiDies(g) /\ p = [old EXCEPT
                   !.state = "dead", !.run = 0, !.inbox = <<>>]
              \/ ExitSeen(g) /\ p = [old EXCEPT !.state = "reaped"]
    BY <1>0, PiStepIs
  <2>2. SUFFICES ASSUME Serves(old, call, queue, fault)
                 PROVE  /\ \/ p.state = old.state
                           \/ PiDies(g) /\ p.state = "dead"
                           \/ ExitSeen(g) /\ p.state = "reaped"
                        /\ Serves(p, call, queue, fault')
    <3>1. \/ p.state = old.state
          \/ PiDies(g) /\ p.state = "dead"
          \/ ExitSeen(g) /\ p.state = "reaped"
      BY <1>0, <2>1 DEF Proc
    <3> QED
      BY <2>1, <3>1
  <2>3. \/ p.state = old.state
        \/ PiDies(g) /\ p.state = "dead"
        \/ ExitSeen(g) /\ p.state = "reaped"
    BY <1>0, <2>1 DEF Proc
  <2>4. old.run \in Nat /\ old.inbox \in Seq([request : Requests, id : Nat, run : Nat])
    BY <1>0 DEF Proc
  <2>5. [kind |-> "garbled", ref |-> 0] \in Line /\ [kind |-> "settled", ref |-> 0] \in Line
        /\ [kind |-> "message", ref |-> old.run] \in Line
    BY <2>4 DEF Line
  <2>6. ASSUME old.inbox # <<>>
        PROVE  /\ [kind |-> "answered", ref |-> Head(old.inbox).id] \in Line
               /\ [kind |-> "refused", ref |-> Head(old.inbox).id] \in Line
    <3>1. Head(old.inbox) \in [request : Requests, id : Nat, run : Nat]
      BY <2>4, <2>6, HeadTailProperties
    <3> QED
      BY <3>1 DEF Line
  <2>7. CASE PiAnswers(g) /\ p = [old EXCEPT
                   !.inbox = Tail(old.inbox),
                   !.run = IF Head(old.inbox).request = "prompt"
                           THEN Head(old.inbox).run ELSE old.run,
                   !.pipe = Append(old.pipe,
                                   [kind |-> "answered", ref |-> Head(old.inbox).id])]
    <3> DEFINE x == [kind |-> "answered", ref |-> Head(old.inbox).id]
    <3>1. old.inbox # <<>> /\ fault' = fault
      BY <2>7 DEF PiAnswers
    <3>2. x \in Line /\ x.kind = "answered"
      BY <2>6, <3>1
    <3>3. p = [old EXCEPT !.inbox = Tail(old.inbox),
                          !.run = IF Head(old.inbox).request = "prompt"
                                  THEN Head(old.inbox).run ELSE old.run,
                          !.pipe = Append(old.pipe, x)]
      BY <2>7
    <3> HIDE DEF x
    <3>4. Serves(p, call, queue, fault)
      BY <1>0, <2>2, <3>1, <3>2, <3>3, AnswerServes
    <3> QED
      BY <2>3, <3>1, <3>4
  <2>8. CASE PiRefuses(g) /\ p = [old EXCEPT
                   !.inbox = Tail(old.inbox),
                   !.pipe = Append(old.pipe,
                                   [kind |-> "refused", ref |-> Head(old.inbox).id])]
    <3> DEFINE x == [kind |-> "refused", ref |-> Head(old.inbox).id]
    <3>1. old.inbox # <<>> /\ fault' = TRUE
      BY <2>8 DEF PiRefuses, Seen
    <3>2. x \in Line /\ x.kind = "refused"
      BY <2>6, <3>1
    <3>3. p = [old EXCEPT !.inbox = Tail(old.inbox), !.pipe = Append(old.pipe, x)]
      BY <2>8
    <3> HIDE DEF x
    <3>4. Serves(p, call, queue, TRUE)
      BY <1>0, <2>2, <3>1, <3>2, <3>3, RefusalServes
    <3> QED
      BY <2>3, <3>1, <3>4
  <2>9. CASE PiGarbles(g) /\ p = [old EXCEPT
                   !.pipe = Append(old.pipe, [kind |-> "garbled", ref |-> 0])]
    <3> DEFINE x == [kind |-> "garbled", ref |-> 0]
    <3>1. fault' = fault /\ x \in Line /\ x.kind = "garbled"
      BY <2>5, <2>9 DEF PiGarbles
    <3>2. p = [old EXCEPT !.pipe = Append(old.pipe, x)]
      BY <2>9
    <3> HIDE DEF x
    <3>3. Serves(p, call, queue, fault)
      BY <1>0, <2>2, <3>1, <3>2, GarbageServes
    <3> QED
      BY <2>3, <3>1, <3>3
  <2>10. CASE PiSettles(g) /\ p = [old EXCEPT
                   !.run = 0,
                   !.pipe = Append(Append(old.pipe,
                                   [kind |-> "message", ref |-> old.run]),
                                   [kind |-> "settled", ref |-> 0])]
    <3> DEFINE m == [kind |-> "message", ref |-> old.run]
               x == [kind |-> "settled", ref |-> 0]
    <3>1. fault' = fault /\ old.run # 0
      BY <2>10 DEF PiSettles
    <3>2. m \in Line /\ m.kind = "message" /\ m.ref = old.run /\ x \in Line /\ x.kind = "settled"
      BY <2>5
    <3>3. p = [old EXCEPT !.run = 0, !.pipe = Append(Append(old.pipe, m), x)]
      BY <2>10
    <3> HIDE DEF m, x
    <3>4. Serves(p, call, queue, fault)
      BY <1>0, <2>2, <3>1, <3>2, <3>3, SettledServes
    <3> QED
      BY <2>3, <3>1, <3>4
  <2>11. CASE PiSettlesWithoutMessage(g) /\ p = [old EXCEPT
                   !.run = 0,
                   !.pipe = Append(old.pipe, [kind |-> "settled", ref |-> 0])]
    <3> DEFINE x == [kind |-> "settled", ref |-> 0]
    <3>1. fault' = TRUE /\ old.run # 0
      BY <2>11 DEF PiSettlesWithoutMessage, Seen
    <3>2. x \in Line /\ x.kind = "settled"
      BY <2>5
    <3>3. p = [old EXCEPT !.run = 0, !.pipe = Append(old.pipe, x)]
      BY <2>11
    <3> HIDE DEF x
    <3>4. Serves(p, call, queue, TRUE)
      BY <1>0, <2>2, <3>1, <3>2, <3>3, SettledServes
    <3> QED
      BY <2>3, <3>1, <3>4
  <2>12. CASE (PiDies(g) /\ p = [old EXCEPT !.state = "dead", !.run = 0, !.inbox = <<>>])
              \/ (ExitSeen(g) /\ p = [old EXCEPT !.state = "reaped"])
    <3>1. /\ p.pipe = old.pipe /\ p.reading = old.reading
          /\ p.run \in {old.run, 0} /\ p.inbox \in {old.inbox, <<>>}
      BY <1>0, <2>12 DEF Proc
    <3>2. fault => fault'
      BY <2>1 DEF PiChanges
    <3>3. Serves(p, call, queue, fault')
      BY <2>2, <3>1, <3>2, LessServes
    <3> QED
      BY <2>3, <3>3
  <2> QED
    BY <2>1, <2>7, <2>8, <2>9, <2>10, <2>11, <2>12
<1>2. /\ proc' = [proc EXCEPT ![g] = p] /\ fault' \in {fault, TRUE}
      /\ UNCHANGED <<process, call, queue, earlier>>
  BY <1>1 DEF PiChanges
<1>3. Present' = IF g = process THEN p ELSE Present
  BY <1>0, <1>2 DEF Present
<1>4. Serves(Present', call', queue', fault')
  <2>1. CASE g = process
    BY <1>0, <1>1, <1>2, <1>3, <2>1 DEF Present
  <2>2. CASE g # process
    BY <1>0, <1>2, <1>3, <2>2, LessServes
  <2> QED
    BY <2>1, <2>2
<1>5. OneReader'
  BY <1>0, <1>1, <1>2 DEF SoundInv, Sound, OneReader
<1>6. FaultSeen'
  <2>1. CASE g # process \/ p.state = old.state
    <3>1. Present'.reading = Present.reading /\ Present'.state = Present.state
      BY <1>0, <1>1, <1>3, <2>1 DEF Present
    <3> QED
      BY <1>0, <1>2, <3>1 DEF FaultSeen
  <2>2. CASE PiDies(g) /\ p.state = "dead" /\ g = process
    <3>1. Present'.reading = Present.reading /\ Present'.state # "reaped"
      BY <1>0, <1>1, <1>3, <2>2 DEF Present
    <3> QED
      BY <1>0, <1>2, <3>1 DEF FaultSeen
  <2>3. CASE ExitSeen(g)
    BY <2>3 DEF ExitSeen, Seen, FaultSeen
  <2> QED
    BY <1>1, <2>1, <2>2, <2>3
<1> QED
  BY <1>0, <1>2, <1>4, <1>5, <1>6 DEF Sound

LEMMA ClosedByServiceSound ==
  ASSUME SoundInv, ClosedByService
  PROVE  Sound'
<1>0. call \in Call /\ process \in Procs /\ AnswerFits(call)
  BY SoundTypes DEF ClosedByService, SoundInv, Sound
<1>1. /\ process' = 0 /\ queue' = <<>> /\ proc' = [proc EXCEPT ![process] = Gone]
      /\ fault' = TRUE
  BY DEF ClosedByService, Close, Seen
<1>2. Present' = Gone
  BY <1>1 DEF Present
<1>3. Serves(Present', call', queue', fault')
  BY <1>1, <1>2, GoneIsQuiet, QuietServes
<1>4. OneReader'
  BY <1>0, <1>1, SoundTypes, GoneIsQuiet DEF SoundInv, Sound, OneReader
<1>5. AnswerFits(call')
  <2>1. CASE call' = Resolve("failed")
    <3>1. \/ call' = call
          \/ /\ call.pc = "waiting" /\ call'.pc = "waiting" /\ call'.fate = "failed"
             /\ call'.todo = call.todo /\ call'.run = call.run /\ call'.answer = call.answer
             /\ call'.outcome = call.outcome
      BY <1>0, <2>1 DEF Resolve, Call
    <3>2. call' = call \/ ~InRun(call')
      BY <3>1 DEF InRun
    <3> QED
      BY <1>0, <3>1, <3>2 DEF AnswerFits
  <2>2. CASE Return("failed")
    <3>1. call'.pc = "idle" /\ call'.outcome = "failed" /\ ~InRun(call')
      BY <2>2, ReturnEnds DEF InRun
    <3> QED
      BY <3>1 DEF AnswerFits
  <2> QED
    BY <2>1, <2>2 DEF ClosedByService
<1>6. FaultSeen'
  BY <1>1 DEF FaultSeen
<1> QED
  BY <1>3, <1>4, <1>5, <1>6 DEF Sound

\* A client that has done nothing yet.
LEMMA NewClient ==
  /\ Serves(Gone, Idle, <<>>, FALSE) /\ AnswerFits(Idle)
  /\ Idle.pc = "idle" /\ Idle.outcome = "none" /\ ~Gone.reading
<1>1. Idle.pc = "idle" /\ Idle.outcome = "none" /\ ~InRun(Idle)
  BY DEF Idle, InRun
<1> QED
  BY <1>1, GoneIsQuiet, QuietServes DEF AnswerFits

-----------------------------------------------------------------------------
(* The invariant is inductive.                                             *)

LEMMA PiInvInit == Init => PiInv
<1> SUFFICES ASSUME Init PROVE PiInv
  OBVIOUS
<1>1. Present = Gone
  BY DEF Init, Present
<1>2. Sound
  BY <1>1, NewClient DEF Init, Sound, OneReader, FaultSeen
<1> QED
  BY <1>2, BaseInit DEF PiInv

LEMMA PiInvStep == PiInv /\ [Next]_vars => PiInv'
<1> SUFFICES ASSUME PiInv, [Next]_vars, overtaken' = 0
             PROVE  Sound'
  BY BaseStep DEF PiInv
<1>0. overtaken \in Nat
  BY PiRpcAssumption DEF PiInv, BaseInv, PiTypeOK
<1>1. CASE Restart
  <2>1. Present' = Gone
    BY <1>1 DEF Restart, Present
  <2> QED
    BY <1>1, <2>1, NewClient DEF Restart, Sound, OneReader, FaultSeen
<1>2. CASE ~Restart
  <2>1. overtaken = 0
    <3>1. ASSUME NEW op \in DOMAIN Script, Begin(op)
          PROVE  overtaken = 0
      BY <1>0, <3>1 DEF Begin
    <3>2. CASE CallStep
      BY <1>0, <3>2 DEF CallStep, Start, StartFails, WithoutPi, ReaderIsOver, Send, WriteFails,
           Answered, NotAnswered, BadRun, TakeEvent, TimesOut, Seen, NothingSeen
    <3>3. ASSUME NEW g \in Procs, ReaderStep(g)
          PROVE  overtaken = 0
      BY <3>3 DEF ReaderStep, ReadLine, ReaderBreaks, ReaderEnds, Seen, NothingSeen
    <3>4. ASSUME NEW g \in Procs, PiStep(g)
          PROVE  overtaken = 0
      BY <3>4 DEF PiStep, PiAnswers, PiRefuses, PiGarbles, PiSettles,
           PiSettlesWithoutMessage, PiDies, ExitSeen, Seen
    <3>5. CASE ClosedByService \/ UNCHANGED vars
      BY <3>5 DEF ClosedByService, Seen, vars
    <3> QED
      BY <1>2, <3>1, <3>2, <3>3, <3>4, <3>5, NextIs
  <2>2. SoundInv
    BY <2>1 DEF PiInv, SoundInv
  <2>3. CASE CallStep
    BY <2>1, <2>2, <2>3, CallStepSound
  <2>4. ASSUME NEW g \in Procs, ReaderStep(g) \/ PiStep(g)
        PROVE  Sound'
    BY <2>2, <2>4, ReaderSound, PiSound
  <2>5. ASSUME NEW op \in DOMAIN Script, Begin(op)
        PROVE  Sound'
    BY <2>2, <2>5, BeginSound
  <2>6. CASE ClosedByService
    BY <2>2, <2>6, ClosedByServiceSound
  <2>7. CASE UNCHANGED vars
    <3>1. Present' = Present
      BY <2>7 DEF vars, Present
    <3> QED
      BY <2>2, <2>7, <3>1 DEF vars, SoundInv, Sound, OneReader, FaultSeen
  <2> QED
    BY <1>2, <2>3, <2>4, <2>5, <2>6, <2>7, NextIs
<1> QED
  BY <1>1, <1>2

\* The queue, the pipes and the call fit each other after any sequence of
\* calls, failures of Pi and restarts.
THEOREM PiCoherent == Spec => []PiInv
  BY PiInvInit, PiInvStep, PTL DEF Spec

\* As long as every process is read to its end before the next is started:
\* prompt returns what its own run answered and not what an earlier run, still
\* in the queue or a pipe, did.
THEOREM AnswersCorrect == Spec => []AnswerBelongsToRun
<1>1. PiInv => AnswerBelongsToRun
  <2> SUFFICES ASSUME PiInv, ~(overtaken > 0), call.outcome = "ok"
               PROVE  call.answer = call.run
    BY DEF AnswerBelongsToRun
  <2>1. overtaken = 0
    BY PiRpcAssumption DEF PiInv, BaseInv, PiTypeOK
  <2> QED
    BY <2>1 DEF PiInv, Sound, AnswerFits
<1> QED
  BY <1>1, PiCoherent, PTL

\* As long as every process is read to its end before the next is started:
\* close and _discard_queued_events leave nothing of a failure to the call
\* after the next.
THEOREM FailuresCorrect == Spec => []FailuresPass
<1>1. PiInv => FailuresPass
  <2> SUFFICES ASSUME PiInv, ~(overtaken > 0), call.outcome = "failed"
               PROVE  fault \/ earlier
    BY DEF FailuresPass
  <2>1. overtaken = 0
    BY PiRpcAssumption DEF PiInv, BaseInv, PiTypeOK
  <2> QED
    BY <2>1 DEF PiInv, Sound, FaultSeen
<1> QED
  BY <1>1, PiCoherent, PTL

=============================================================================
