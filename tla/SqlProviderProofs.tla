------------------------- MODULE SqlProviderProofs --------------------------
(***************************************************************************)
(* Proofs about SqlProvider, for any number of calls and loads, any size   *)
(* of the pools and of COLNAME_CACHE, and any session settings.            *)
(***************************************************************************)
EXTENDS SqlProvider, TLAPS, FiniteSetTheorems, SequenceTheorems

\* The kind of provider a call record is about.
KindOf(r) == IF r.direct THEN "sqlite" ELSE provider[r.gen].kind

\* The schema that the load of a generation began under.
Since(g) == IF g = 0 THEN 0 ELSE provider[g].since

\* Names that may label rows of query q under generation g: they are of the query
\* and of the provider or of a direct call; a server's are not older than its
\* provider.
Fits(names, g, q) ==
    /\ names.q = q
    /\ names.from \in {0, g}
    /\ q \in Starred /\ names.from # 0 /\ ServerPool(g) => Since(g) <= names.version

NamesFit(r) == Fits(r.names, r.gen, r.q)

\* Loads come one after the other, each newer than all before; a provider
\* begins under a schema that has been.
LoadOK ==
    /\ slot # 0 => slot \in Taken
    /\ \A g \in Taken, h \in Generations : h < g => h \in Taken
    /\ load.pc # "idle" => load.gen \in Taken /\ slot < load.gen
    /\ \A g \in Generations : provider[g].since <= schema

\* What a call knows on its way.
CallOK(r) ==
    /\ r.gen \in 0 .. slot
    /\ r.pc # "idle" /\ ~ r.direct => r.gen # 0
    /\ r.direct => /\ r.conn = 0
                   /\ r.pc \in {"idle", "prepare", "scope", "peek", "put", "step", "done"}
    /\ r.pc = "scope" => r.direct /\ r.names.q = r.q /\ r.names.from = 0
    /\ r.pc = "rows" => KindOf(r) # "sqlite"
    /\ r.pc = "prepare" => KindOf(r) = "sqlite"
    /\ r.conn # 0 => /\ r.gen # 0
                     /\ \/ r.pc \in {"rows", "describe"}
                        \/ r.pc \in {"prepare", "peek", "put", "step"} /\ KindOf(r) = "sqlite"
    /\ ~ r.direct /\ r.row # NoRow => Since(r.gen) <= r.row
    /\ \/ r.pc \in {"put", "step"}
       \/ r.pc = "peek" /\ KindOf(r) = "sqlite"
       \/ r.pc = "done" /\ r.out = "rows"
       => NamesFit(r)
    /\ r.waiting => r.out # "cancelled"

Holds(t, g, c) == task[t].gen = g /\ task[t].conn = c

\* A connection in use has its session, and one holder.
PoolOK ==
    \A g \in Generations, c \in Connections :
        /\ pool[g][c].st \in {"idle", "busy"} => pool[g][c].set = Session(g)
        /\ g \notin Taken => pool[g][c].st = "closed"
        /\ pool[g][c].st = "busy" <=> \E t \in Tasks : Holds(t, g, c)
        /\ \A t, u \in Tasks : Holds(t, g, c) /\ Holds(u, g, c) => t = u

\* Entries of COLNAME_CACHE: their names fit their key.
GoodNames ==
    {e \in [key : [gen : 0..MaxGeneration, q : Queries], names : NameType] :
        /\ e.key.gen \in 0 .. slot
        /\ Fits(e.names, e.key.gen, e.key.q)}

\* The inductive invariant.
ProviderIInv ==
    /\ TypeOK /\ LoadOK /\ PoolOK
    /\ \A t \in Tasks : CallOK(task[t])
    /\ colNames \in Seq(GoodNames)

-----------------------------------------------------------------------------
(***************************************************************************)
(* Operators                                                               *)
(***************************************************************************)

LEMMA NoTaskFacts ==
    /\ NoTask \in TaskType /\ NoTask.pc = "idle" /\ NoTask.gen = 0 /\ NoTask.conn = 0
    /\ NoTask.direct = FALSE /\ NoTask.waiting = FALSE /\ NoTask.row = NoRow
    /\ NoTask.out = "none"
  <1>1. (CHOOSE q \in Queries : TRUE) \in Queries
    BY StarredAssumption
  <1>2. /\ 0 \in 0..MaxGeneration /\ 0 \in 0..PoolSize /\ 0 \in 0..MaxVersion
        /\ NoRow \in 0..NoRow
    BY PoolAssumption, ProviderBounds DEF NoRow
  <1> QED
    BY <1>1, <1>2 DEF NoTask, TaskType, NameType, NamesAt

\* LruCache::put brings in nothing but the new entry, within the capacity.
LEMMA StoredFacts ==
    ASSUME NEW S, colNames \in Seq(S), Len(colNames) <= NamesCap,
           NEW key, NEW names, [key |-> key, names |-> names] \in S
    PROVE  Stored(key, names) \in Seq(S) /\ Len(Stored(key, names)) <= NamesCap
  <1> DEFINE e == [key |-> key, names |-> names]
             i == CHOOSE j \in Entries(key) : TRUE
             kept == IF Entries(key) = {} THEN colNames ELSE RemoveAt(colNames, i)
             rest == IF Len(kept) = NamesCap THEN Tail(kept) ELSE kept
  <1>1. Stored(key, names) = rest \o <<e>>
    BY DEF Stored
  <1>2. Len(colNames) \in Nat
    BY LenProperties
  <1>3. kept \in Seq(S) /\ Len(kept) <= NamesCap
    <2>1. CASE Entries(key) # {}
      <3>1. i \in 1 .. Len(colNames)
        BY <2>1 DEF Entries
      <3> HIDE DEF i
      <3>2. /\ SubSeq(colNames, 1, i - 1) \in Seq(S) /\ Len(SubSeq(colNames, 1, i - 1)) = i - 1
            /\ SubSeq(colNames, i + 1, Len(colNames)) \in Seq(S)
            /\ Len(SubSeq(colNames, i + 1, Len(colNames))) = Len(colNames) - i
        BY <3>1, <1>2, SubSeqProperties
      <3>3. /\ RemoveAt(colNames, i) \in Seq(S)
            /\ Len(RemoveAt(colNames, i)) = (i - 1) + (Len(colNames) - i)
        BY <3>2, ConcatProperties DEF RemoveAt
      <3> QED
        BY <2>1, <3>1, <3>3, <1>2, PoolAssumption
    <2> QED
      BY <2>1
  <1> HIDE DEF kept
  <1>4. rest \in Seq(S) /\ Len(rest) < NamesCap /\ Len(rest) \in Nat
    <2>1. Len(kept) \in Nat
      BY <1>3, LenProperties
    <2>2. CASE Len(kept) = NamesCap
      <3>1. kept # << >>
        BY <2>2, PoolAssumption, EmptySeq
      <3>2. Tail(kept) \in Seq(S) /\ Len(Tail(kept)) = Len(kept) - 1
        BY <3>1, <1>3, HeadTailProperties
      <3> QED
        BY <2>1, <2>2, <3>2, PoolAssumption
    <2>3. CASE Len(kept) # NamesCap
      BY <2>1, <2>3, <1>3, PoolAssumption
    <2> QED
      BY <2>2, <2>3
  <1> HIDE DEF rest
  <1>5. <<e>> \in Seq(S) /\ Len(<<e>>) = 1
    OBVIOUS
  <1>6. (rest \o <<e>>) \in Seq(S) /\ Len(rest \o <<e>>) = Len(rest) + 1
    BY <1>4, <1>5, ConcatProperties
  <1> QED
    BY <1>1, <1>4, <1>6, PoolAssumption

\* The initial state.
LEMMA ProviderInitially == Init => ProviderIInv
  <1> SUFFICES ASSUME Init PROVE ProviderIInv
    OBVIOUS
  <1> USE DEF Init
  <1>1. /\ 0 \in 0..MaxGeneration /\ 0 \in 0..SessionSize /\ 0 \in 0..MaxVersion
    BY ProviderBounds
  <1>2. colNames \in Seq(GoodNames) /\ Len(colNames) = 0
    BY EmptySeq
  <1>3. pool \in [Generations -> [Connections -> ConnType]]
    BY <1>1 DEF Closed, ConnType
  <1>4. provider \in [Generations -> [kind : Kinds \cup {NoKind}, since : 0..MaxVersion]]
    BY <1>1
  <1>5. load \in [pc : {"idle", "connect", "validate", "install"}, gen : 0..MaxGeneration]
    BY <1>1
  <1>6. TypeOK
    BY <1>1, <1>2, <1>3, <1>4, <1>5, NoTaskFacts, EmptySeq, PoolAssumption DEF TypeOK
  <1>7. Taken = {}
    BY DEF Taken
  <1>8. LoadOK
    BY <1>7 DEF LoadOK
  <1>9. PoolOK
    BY <1>7, NoTaskFacts DEF PoolOK, Holds, Closed, Connections
  <1>10. ASSUME NEW t \in Tasks PROVE CallOK(task[t])
    BY NoTaskFacts DEF CallOK
  <1> QED
    BY <1>2, <1>6, <1>8, <1>9, <1>10 DEF ProviderIInv

-----------------------------------------------------------------------------
(***************************************************************************)
(* Steps of calls: what all of them have in common                         *)
(***************************************************************************)

\* The record r of call t is new, and fits; the others are as before.
LEMMA TaskFrame ==
    ASSUME ProviderIInv, NEW t \in Tasks, NEW r \in TaskType, CallOK(r),
           task' = [task EXCEPT ![t] = r],
           slot' = slot, provider' = provider, load' = load, schema' = schema,
           pool' \in [Generations -> [Connections -> ConnType]], PoolOK',
           colNames' \in Seq(GoodNames), Len(colNames') <= NamesCap
    PROVE  ProviderIInv'
  <1>1. task' \in [Tasks -> TaskType] /\ \A u \in Tasks : task'[u] = IF u = t THEN r ELSE task[u]
    BY DEF ProviderIInv, TypeOK
  <1>2. colNames' \in Seq([key : [gen : 0..MaxGeneration, q : Queries], names : NameType])
    <2> DEFINE S == [key : [gen : 0..MaxGeneration, q : Queries], names : NameType]
    <2>1. GoodNames \subseteq S
      BY DEF GoodNames
    <2> HIDE DEF S
    <2>2. colNames' \in Seq(S)
      BY <2>1, SeqMonotonic
    <2> QED
      BY <2>2 DEF S
  <1>3. TypeOK'
    BY <1>1, <1>2 DEF ProviderIInv, TypeOK
  <1>4. LoadOK'
    BY DEF ProviderIInv, LoadOK, Taken
  <1>5. ASSUME NEW u \in Tasks PROVE CallOK(task'[u])
    BY <1>1 DEF ProviderIInv
  <1>6. \A u \in Tasks : CallOK(task[u])'
    BY <1>5 DEF CallOK, KindOf, NamesFit, Fits, ServerPool, Since
  <1>7. GoodNames' = GoodNames
    BY DEF GoodNames, Fits, ServerPool, Since
  <1> QED
    BY <1>3, <1>4, <1>6, <1>7 DEF ProviderIInv

\* A step of a call that keeps its connection, or has none.
LEMMA Keeps ==
    ASSUME ProviderIInv, NEW t \in Tasks, NEW r \in TaskType, CallOK(r),
           task' = [task EXCEPT ![t] = r],
           slot' = slot, provider' = provider, load' = load, schema' = schema, pool' = pool,
           r.conn = task[t].conn, r.gen = task[t].gen \/ r.conn = 0,
           colNames' \in Seq(GoodNames), Len(colNames') <= NamesCap
    PROVE  ProviderIInv'
  <1>1. \A u \in Tasks : task'[u] = IF u = t THEN r ELSE task[u]
    BY DEF ProviderIInv, TypeOK
  <1>2. ASSUME NEW u \in Tasks, NEW g \in Generations, NEW c \in Connections
        PROVE  Holds(u, g, c)' <=> Holds(u, g, c)
    <2>1. c # 0
      BY PoolAssumption DEF Connections
    <2> QED
      BY <2>1, <1>1 DEF Holds
  <1>3. PoolOK'
    <2> SUFFICES ASSUME NEW g \in Generations, NEW c \in Connections
                 PROVE  /\ pool'[g][c].st \in {"idle", "busy"} => pool'[g][c].set = Session(g)'
                        /\ g \notin Taken' => pool'[g][c].st = "closed"
                        /\ pool'[g][c].st = "busy" <=> \E u \in Tasks : Holds(u, g, c)'
                        /\ \A u, v \in Tasks : Holds(u, g, c)' /\ Holds(v, g, c)' => u = v
      BY DEF PoolOK
    <2>1. Session(g)' = Session(g) /\ Taken' = Taken
      BY DEF Session, Taken
    <2> QED
      BY <2>1, <1>2 DEF ProviderIInv, PoolOK
  <1>4. pool' \in [Generations -> [Connections -> ConnType]]
    BY DEF ProviderIInv, TypeOK
  <1> QED
    BY <1>3, <1>4, TaskFrame

\* A step of a call that gives its connection back as k, if it has one.
LEMMA Releases ==
    ASSUME ProviderIInv, NEW t \in Tasks, NEW r \in TaskType, CallOK(r),
           task' = [task EXCEPT ![t] = r],
           slot' = slot, provider' = provider, load' = load, schema' = schema,
           colNames' = colNames,
           r.conn = 0, r.gen = task[t].gen,
           NEW k, pool' = Released(t, k),
           task[t].conn # 0 => /\ k \in ConnType /\ k.st \in {"idle", "closed"}
                               /\ k.st = "idle" => k.set = Session(task[t].gen)
    PROVE  ProviderIInv'
  <1>0. colNames' \in Seq(GoodNames) /\ Len(colNames') <= NamesCap
    BY DEF ProviderIInv, TypeOK
  <1>1. CASE task[t].conn = 0
    <2>1. pool' = pool
      BY <1>1 DEF Released
    <2> QED
      BY <2>1, <1>0, <1>1, Keeps
  <1>2. CASE task[t].conn # 0
    <2> DEFINE h == task[t].gen
               d == task[t].conn
    <2>1. task[t] \in TaskType /\ CallOK(task[t])
      BY DEF ProviderIInv, TypeOK
    <2>2. h \in Generations /\ d \in Connections
      <3>1. h \in 0..MaxGeneration /\ d \in 0..PoolSize /\ h # 0
        BY <2>1, <1>2 DEF TaskType, CallOK
      <3> QED
        BY <3>1, <1>2, ProviderBounds, PoolAssumption DEF Generations, Connections
    <2>3. pool' = [pool EXCEPT ![h][d] = k]
      BY <1>2 DEF Released
    <2> HIDE DEF h, d
    <2>4. /\ pool' \in [Generations -> [Connections -> ConnType]]
          /\ \A g \in Generations, c \in Connections :
                pool'[g][c] = IF g = h /\ c = d THEN k ELSE pool[g][c]
      BY <2>2, <2>3, <1>2 DEF ProviderIInv, TypeOK
    <2>5. \A u \in Tasks : task'[u] = IF u = t THEN r ELSE task[u]
      BY DEF ProviderIInv, TypeOK
    <2>6. ASSUME NEW u \in Tasks, NEW g \in Generations, NEW c \in Connections
          PROVE  Holds(u, g, c)' <=> Holds(u, g, c) /\ u # t
      <3>1. c # 0
        BY PoolAssumption DEF Connections
      <3> QED
        BY <3>1, <2>5 DEF Holds
    <2>7. Holds(t, h, d) /\ \A g \in Generations, c \in Connections : Holds(t, g, c) => g = h /\ c = d
      BY DEF Holds, h, d
    <2>8. PoolOK'
      <3> SUFFICES ASSUME NEW g \in Generations, NEW c \in Connections
                   PROVE  /\ pool'[g][c].st \in {"idle", "busy"} => pool'[g][c].set = Session(g)'
                          /\ g \notin Taken' => pool'[g][c].st = "closed"
                          /\ pool'[g][c].st = "busy" <=> \E u \in Tasks : Holds(u, g, c)'
                          /\ \A u, v \in Tasks : Holds(u, g, c)' /\ Holds(v, g, c)' => u = v
        BY DEF PoolOK
      <3>1. Session(g)' = Session(g) /\ Taken' = Taken
        BY DEF Session, Taken
      <3>2. /\ pool[g][c].st \in {"idle", "busy"} => pool[g][c].set = Session(g)
            /\ g \notin Taken => pool[g][c].st = "closed"
            /\ pool[g][c].st = "busy" <=> \E u \in Tasks : Holds(u, g, c)
            /\ \A u, v \in Tasks : Holds(u, g, c) /\ Holds(v, g, c) => u = v
        BY DEF ProviderIInv, PoolOK
      <3>3. CASE g = h /\ c = d
        <4>1. pool'[g][c] = k /\ Holds(t, g, c)
          BY <3>3, <2>4, <2>7
        <4>2. k.st # "busy" /\ (k.st = "idle" => k.set = Session(g))
          BY <1>2, <3>3 DEF h
        <4>3. ~ \E u \in Tasks : Holds(u, g, c)'
          BY <4>1, <3>2, <2>6
        <4>4. g \in Taken
          BY <4>1, <3>2
        <4> QED
          BY <4>1, <4>2, <4>3, <4>4, <3>1
      <3>4. CASE ~ (g = h /\ c = d)
        <4>1. pool'[g][c] = pool[g][c] /\ ~ Holds(t, g, c)
          BY <3>4, <2>4, <2>7
        <4>2. \A u \in Tasks : Holds(u, g, c)' <=> Holds(u, g, c)
          BY <4>1, <2>6
        <4> QED
          BY <4>1, <4>2, <3>1, <3>2
      <3> QED
        BY <3>3, <3>4
    <2> QED
      BY <2>4, <2>8, <1>0, TaskFrame
  <1> QED
    BY <1>1, <1>2

\* What is known of a call in any state.
LEMMA CallFacts ==
    ASSUME ProviderIInv, NEW t \in Tasks
    PROVE  /\ task[t] \in TaskType /\ CallOK(task[t])
           /\ task[t].gen \in 0..MaxGeneration /\ task[t].q \in Queries
           /\ task[t].row \in 0..NoRow
           /\ task[t].conn \in 0..PoolSize
           /\ \A g \in 0 .. slot : Since(g) <= schema /\ Since(g) \in Nat
           /\ schema \in 0..MaxVersion /\ slot \in 0..MaxGeneration
           /\ colNames \in Seq(GoodNames) /\ Len(colNames) <= NamesCap
  <1>1. task[t] \in TaskType /\ CallOK(task[t]) /\ schema \in 0..MaxVersion
    BY DEF ProviderIInv, TypeOK
  <1>2. ASSUME NEW g \in 0 .. slot PROVE Since(g) <= schema /\ Since(g) \in Nat
    <2>1. CASE g = 0
      BY <2>1, <1>1, ProviderBounds DEF Since
    <2>2. CASE g # 0
      <3>1. g \in Generations
        BY <2>2, ProviderBounds DEF ProviderIInv, TypeOK, Generations
      <3>2. provider[g].since \in 0..MaxVersion /\ provider[g].since <= schema
        BY <3>1 DEF ProviderIInv, TypeOK, LoadOK
      <3> QED
        BY <2>2, <3>2, ProviderBounds DEF Since
    <2> QED
      BY <2>1, <2>2
  <1> QED
    BY <1>1, <1>2 DEF ProviderIInv, TypeOK, TaskType

\* What the queries of a schema name is of the schema.
LEMMA NamesFacts ==
    ASSUME NEW q \in Queries, NEW v \in 0..MaxVersion, NEW g \in 0..MaxGeneration
    PROVE  /\ NamesAt(q, v, g) \in NameType /\ NamesAt(q, v, g).q = q
           /\ NamesAt(q, v, g).from = g
           /\ q \in Starred => NamesAt(q, v, g).version = v
  <1>1. 0 \in 0..MaxVersion
    BY ProviderBounds
  <1> QED
    BY <1>1 DEF NamesAt, NameType

\* A connection that a call gives back in order.
LEMMA IdleFacts ==
    ASSUME ProviderIInv, NEW t \in Tasks, task[t].conn # 0
    PROVE  /\ Idle(t) \in ConnType /\ Idle(t).st = "idle"
           /\ Idle(t).set = Session(task[t].gen)
  <1> DEFINE h == task[t].gen
             d == task[t].conn
  <1>1. h \in Generations /\ d \in Connections
    <2>1. h \in 0..MaxGeneration /\ d \in 0..PoolSize /\ h # 0
      BY CallFacts DEF CallOK
    <2> QED
      BY <2>1, ProviderBounds, PoolAssumption DEF Generations, Connections
  <1>2. Holds(t, h, d)
    BY DEF Holds
  <1> DEFINE k == pool[h][d]
  <1>3. k.st = "busy" /\ k.set = Session(h) /\ k \in ConnType
    BY <1>1, <1>2 DEF ProviderIInv, PoolOK, TypeOK
  <1>4. Idle(t) = [k EXCEPT !.st = "idle"]
    BY DEF Idle
  <1> HIDE DEF k
  <1> QED
    BY <1>3, <1>4 DEF ConnType

LEMMA ClosedFacts == Closed \in ConnType /\ Closed.st = "closed"
  BY ProviderBounds DEF Closed, ConnType

-----------------------------------------------------------------------------
(***************************************************************************)
(* Steps of calls                                                          *)
(***************************************************************************)

\* A query begins with the provider that is installed.
LEMMA CallPreserves ==
    ASSUME ProviderIInv, NEW t \in Tasks, NEW q \in Queries, slot # 0, Call(t, q)
    PROVE  ProviderIInv'
  <1> DEFINE r == [NoTask EXCEPT !.pc = "acquire", !.gen = slot, !.q = q, !.waiting = TRUE]
  <1>1. slot \in 0..MaxGeneration
    BY CallFacts
  <1>2. /\ r \in TaskType /\ r.pc = "acquire" /\ r.gen = slot /\ r.direct = FALSE
        /\ r.conn = 0 /\ r.row = NoRow /\ r.out = "none"
    BY <1>1, NoTaskFacts DEF TaskType
  <1>3. task' = [task EXCEPT ![t] = r]
    BY DEF Call
  <1> HIDE DEF r
  <1>4. CallOK(r)
    BY <1>1, <1>2, ProviderBounds DEF CallOK
  <1>5. task[t].conn = 0
    BY CallFacts DEF Call, CallOK
  <1> QED
    BY <1>2, <1>3, <1>4, <1>5, CallFacts, Keeps DEF Call

LEMMA CallUnscopedPreserves ==
    ASSUME ProviderIInv, NEW t \in Tasks, NEW q \in Queries, CallUnscoped(t, q)
    PROVE  ProviderIInv'
  <1> DEFINE r == [NoTask EXCEPT !.pc = "prepare", !.q = q, !.direct = TRUE, !.waiting = TRUE]
  <1>1. /\ r \in TaskType /\ r.pc = "prepare" /\ r.gen = 0 /\ r.direct = TRUE
        /\ r.conn = 0 /\ r.out = "none" /\ r.q = q
    BY NoTaskFacts DEF TaskType
  <1>2. task' = [task EXCEPT ![t] = r]
    BY DEF CallUnscoped
  <1> HIDE DEF r
  <1>3. CallOK(r)
    BY <1>1, CallFacts, ProviderBounds DEF CallOK, KindOf
  <1>4. task[t].conn = 0
    BY CallFacts DEF CallUnscoped, CallOK
  <1> QED
    BY <1>1, <1>2, <1>3, <1>4, CallFacts, Keeps DEF CallUnscoped

\* The end of a call without its connection.
LEMMA EndsFacts ==
    ASSUME ProviderIInv, NEW t \in Tasks, NEW out \in {"rows", "error", "cancelled"},
           task[t].pc # "idle",
           task[t].pc = "done" => FALSE,
           task[t].direct => task[t].pc \in {"prepare", "scope", "peek", "put", "step"},
           out = "cancelled" => ~ task[t].waiting,
           out = "rows" => NamesFit(task[t])
    PROVE  /\ Ends(t, out) \in TaskType /\ CallOK(Ends(t, out))
           /\ Ends(t, out).conn = 0 /\ Ends(t, out).gen = task[t].gen
           /\ Ends(t, out).pc = "done" /\ Ends(t, out).out = out
           /\ Ends(t, out).q = task[t].q /\ Ends(t, out).direct = task[t].direct
           /\ Ends(t, out).names = task[t].names /\ Ends(t, out).waiting = task[t].waiting
  <1> DEFINE o == task[t]
             r == Ends(t, out)
  <1>1. o \in TaskType /\ CallOK(o)
    BY CallFacts
  <1>2. r = [o EXCEPT !.pc = "done", !.conn = 0, !.out = out]
    BY DEF Ends
  <1>3. 0 \in 0..PoolSize
    BY PoolAssumption
  <1> HIDE DEF o, r
  <1>4. /\ r \in TaskType /\ r.pc = "done" /\ r.conn = 0 /\ r.out = out
        /\ r.gen = o.gen /\ r.q = o.q /\ r.direct = o.direct /\ r.waiting = o.waiting
        /\ r.row = o.row /\ r.names = o.names
    BY <1>1, <1>2, <1>3 DEF TaskType
  <1>5. out = "rows" => NamesFit(r)
    BY <1>4 DEF NamesFit, o
  <1>6. o.pc # "idle" /\ (out = "cancelled" => ~ o.waiting)
    BY DEF o
  <1>7. CallOK(r)
    BY <1>1, <1>4, <1>5, <1>6 DEF CallOK
  <1> QED
    BY <1>4, <1>7 DEF o, r

LEMMA AcquireTimeoutPreserves ==
    ASSUME ProviderIInv, NEW t \in Tasks, AcquireTimeout(t)
    PROVE  ProviderIInv'
  <1>1. task[t].pc \in {"acquire", "acquire2"} /\ CallOK(task[t])
    BY CallFacts DEF AcquireTimeout
  <1>2. task[t].conn = 0 /\ ~ task[t].direct
    BY <1>1 DEF CallOK
  <1> DEFINE r == Ends(t, "error")
  <1>3. r \in TaskType /\ CallOK(r) /\ r.conn = 0
    BY <1>1, <1>2, EndsFacts
  <1>4. task' = [task EXCEPT ![t] = r]
    BY DEF AcquireTimeout
  <1> HIDE DEF r
  <1> QED
    BY <1>2, <1>3, <1>4, CallFacts, Keeps DEF AcquireTimeout

\* A failed query gives its connection back, or breaks it.
LEMMA QueryFailsPreserves ==
    ASSUME ProviderIInv, NEW t \in Tasks, QueryFails(t)
    PROVE  ProviderIInv'
  <1>1. task[t].pc \in {"rows", "describe", "prepare", "step"} /\ CallOK(task[t])
    BY CallFacts DEF QueryFails
  <1>2. task[t].direct => task[t].pc \in {"prepare", "step"}
    BY <1>1 DEF CallOK
  <1> DEFINE r == Ends(t, "error")
  <1>3. r \in TaskType /\ CallOK(r) /\ r.conn = 0 /\ r.gen = task[t].gen
    BY <1>1, <1>2, EndsFacts
  <1>4. /\ task' = [task EXCEPT ![t] = r]
        /\ pool' = Released(t, Idle(t)) \/ pool' = Released(t, Closed)
        /\ slot' = slot /\ provider' = provider /\ load' = load
        /\ colNames' = colNames /\ schema' = schema
    BY DEF QueryFails
  <1> HIDE DEF r
  <1>5. CASE pool' = Released(t, Idle(t))
    BY <1>3, <1>4, <1>5, IdleFacts, Releases
  <1>6. CASE pool' = Released(t, Closed)
    BY <1>3, <1>4, <1>6, ClosedFacts, Releases
  <1> QED
    BY <1>4, <1>5, <1>6

\* The runtime is gone: so is the caller, who would have kept the provider.
LEMMA CancelPreserves ==
    ASSUME ProviderIInv, NEW t \in Tasks, Cancel(t)
    PROVE  ProviderIInv'
  <1>1. task[t].pc \notin {"idle", "done"} /\ CallOK(task[t]) /\ ~ Runs(t)
    BY CallFacts DEF Cancel
  <1>2. ~ task[t].direct /\ ~ task[t].waiting
    BY <1>1 DEF Runs, Alive
  <1> DEFINE r == Ends(t, "cancelled")
  <1>3. r \in TaskType /\ CallOK(r) /\ r.conn = 0 /\ r.gen = task[t].gen
    BY <1>1, <1>2, EndsFacts
  <1>4. /\ task' = [task EXCEPT ![t] = r] /\ pool' = Released(t, Closed)
        /\ slot' = slot /\ provider' = provider /\ load' = load
        /\ colNames' = colNames /\ schema' = schema
    BY DEF Cancel
  <1> HIDE DEF r
  <1> QED
    BY <1>3, <1>4, ClosedFacts, Releases

LEMMA ReturnPreserves ==
    ASSUME ProviderIInv, NEW t \in Tasks, Return(t)
    PROVE  ProviderIInv'
  <1>1. task[t].conn = 0
    BY CallFacts DEF Return, CallOK
  <1>2. CallOK(NoTask)
    BY NoTaskFacts, CallFacts DEF CallOK
  <1> QED
    BY <1>1, <1>2, NoTaskFacts, CallFacts, Keeps DEF Return

LEMMA AbandonPreserves ==
    ASSUME ProviderIInv, NEW t \in Tasks, Abandon(t)
    PROVE  ProviderIInv'
  <1> DEFINE o == task[t]
             r == [o EXCEPT !.waiting = FALSE]
  <1>1. o \in TaskType /\ CallOK(o)
    BY CallFacts
  <1>2. task' = [task EXCEPT ![t] = r]
    BY DEF Abandon
  <1>3. /\ r \in TaskType /\ r.pc = o.pc /\ r.conn = o.conn /\ r.out = o.out
        /\ r.gen = o.gen /\ r.q = o.q /\ r.direct = o.direct /\ r.waiting = FALSE
        /\ r.row = o.row /\ r.names = o.names
    BY <1>1 DEF TaskType
  <1> HIDE DEF r
  <1>4. CallOK(r)
    BY <1>1, <1>3 DEF CallOK, KindOf, NamesFit
  <1> QED
    BY <1>2, <1>3, <1>4, CallFacts, Keeps DEF Abandon

LEMMA FetchRowsPreserves ==
    ASSUME ProviderIInv, NEW t \in Tasks, FetchRows(t)
    PROVE  ProviderIInv'
  <1> DEFINE o == task[t]
  <1>1. o \in TaskType /\ CallOK(o) /\ o.pc = "rows"
    BY CallFacts DEF FetchRows
  <1>2. PICK row \in {schema, NoRow} :
           task' = [task EXCEPT ![t].pc = "peek", ![t].row = row, ![t].conn = 0]
    BY DEF FetchRows
  <1> DEFINE r == [o EXCEPT !.pc = "peek", !.row = row, !.conn = 0]
  <1>3. task' = [task EXCEPT ![t] = r]
    BY <1>2
  <1>4. row \in 0..NoRow /\ 0 \in 0..PoolSize
    BY CallFacts, ProviderBounds, PoolAssumption DEF NoRow
  <1>5. /\ r \in TaskType /\ r.pc = "peek" /\ r.conn = 0 /\ r.out = o.out
        /\ r.gen = o.gen /\ r.q = o.q /\ r.direct = o.direct /\ r.waiting = o.waiting
        /\ r.row = row /\ r.names = o.names
    BY <1>1, <1>4 DEF TaskType
  <1> HIDE DEF r
  <1>6. ~ o.direct /\ o.gen \in 0 .. slot /\ o.gen # 0
    BY <1>1 DEF CallOK
  <1>7. row # NoRow => Since(o.gen) <= row
    BY <1>2, <1>6, CallFacts
  <1>8. KindOf(r) # "sqlite"
    BY <1>1, <1>5 DEF CallOK, KindOf
  <1>9. CallOK(r)
    BY <1>1, <1>5, <1>6, <1>7, <1>8 DEF CallOK
  <1> QED
    BY <1>3, <1>5, <1>9, IdleFacts, Releases DEF FetchRows

LEMMA DescribePreserves ==
    ASSUME ProviderIInv, NEW t \in Tasks, Describe(t)
    PROVE  ProviderIInv'
  <1> DEFINE o == task[t]
             names == NamesAt(o.q, schema, o.gen)
             r == [o EXCEPT !.pc = "put", !.conn = 0, !.names = names]
  <1>1. /\ o \in TaskType /\ CallOK(o) /\ o.pc = "describe" /\ o.q \in Queries
        /\ o.gen \in 0..MaxGeneration
    BY CallFacts DEF Describe
  <1>2. task' = [task EXCEPT ![t] = r]
    BY DEF Describe
  <1>3. /\ names \in NameType /\ names.q = o.q /\ names.from = o.gen
        /\ o.q \in Starred => names.version = schema
    BY <1>1, NamesFacts, CallFacts
  <1>4. 0 \in 0..PoolSize
    BY PoolAssumption
  <1> HIDE DEF names
  <1>5. /\ r \in TaskType /\ r.pc = "put" /\ r.conn = 0 /\ r.out = o.out
        /\ r.gen = o.gen /\ r.q = o.q /\ r.direct = o.direct /\ r.waiting = o.waiting
        /\ r.row = o.row /\ r.names = names
    BY <1>1, <1>3, <1>4 DEF TaskType
  <1> HIDE DEF r
  <1>6. ~ o.direct /\ o.gen \in 0 .. slot /\ o.gen # 0
    BY <1>1 DEF CallOK
  <1>7. NamesFit(r)
    BY <1>3, <1>5, <1>6, CallFacts DEF NamesFit, Fits
  <1>8. CallOK(r)
    BY <1>1, <1>5, <1>6, <1>7 DEF CallOK
  <1> QED
    BY <1>2, <1>5, <1>8, IdleFacts, Releases DEF Describe

\* The statement of a provider has names of SQLite, of whatever schema.
LEMMA PreparePreserves ==
    ASSUME ProviderIInv, NEW t \in Tasks, Prepare(t)
    PROVE  ProviderIInv'
  <1> DEFINE o == task[t]
             from == IF o.direct THEN 0 ELSE o.gen
             p == IF o.direct THEN "scope" ELSE "peek"
  <1>1. /\ o \in TaskType /\ CallOK(o) /\ o.pc = "prepare" /\ o.q \in Queries
        /\ o.gen \in 0..MaxGeneration /\ KindOf(o) = "sqlite"
    BY CallFacts DEF Prepare, CallOK
  <1>2. PICK version \in 0..schema :
           task' = [task EXCEPT ![t].pc = p, ![t].names = NamesAt(o.q, version, from)]
    BY DEF Prepare
  <1> DEFINE names == NamesAt(o.q, version, from)
             r == [o EXCEPT !.pc = p, !.names = names]
  <1>3. /\ names \in NameType /\ names.q = o.q /\ names.from = from
    <2>1. version \in 0..MaxVersion /\ from \in 0..MaxGeneration
      BY <1>1, CallFacts, ProviderBounds
    <2> HIDE DEF from
    <2> QED
      BY <1>1, <2>1, NamesFacts
  <1>4. task' = [task EXCEPT ![t] = r]
    BY <1>2
  <1> HIDE DEF names
  <1>5. /\ r \in TaskType /\ r.pc = p /\ r.conn = o.conn /\ r.out = o.out
        /\ r.gen = o.gen /\ r.q = o.q /\ r.direct = o.direct /\ r.waiting = o.waiting
        /\ r.row = o.row /\ r.names = names
    BY <1>1, <1>3 DEF TaskType
  <1> HIDE DEF r
  <1>6. KindOf(r) = "sqlite"
    BY <1>1, <1>5 DEF KindOf
  <1>7. CallOK(r)
    <2>1. CASE o.direct
      BY <2>1, <1>1, <1>3, <1>5, <1>6 DEF CallOK, KindOf
    <2>2. CASE ~ o.direct
      <3>1. ~ ServerPool(o.gen)
        BY <2>2, <1>1 DEF KindOf, ServerPool
      <3>2. NamesFit(r)
        BY <3>1, <2>2, <1>3, <1>5 DEF NamesFit, Fits
      <3> QED
        BY <2>2, <3>2, <1>1, <1>5, <1>6 DEF CallOK
    <2> QED
      BY <2>1, <2>2
  <1> QED
    BY <1>4, <1>5, <1>7, CallFacts, Keeps DEF Prepare

\* An unscoped call gets the scope of the moment.
LEMMA ReadScopePreserves ==
    ASSUME ProviderIInv, NEW t \in Tasks, ReadScope(t)
    PROVE  ProviderIInv'
  <1> DEFINE o == task[t]
             r == [o EXCEPT !.pc = "peek", !.gen = slot]
  <1>1. o \in TaskType /\ CallOK(o) /\ o.pc = "scope" /\ slot \in 0..MaxGeneration
    BY CallFacts DEF ReadScope
  <1>2. task' = [task EXCEPT ![t] = r]
    BY DEF ReadScope
  <1>3. /\ r \in TaskType /\ r.pc = "peek" /\ r.conn = o.conn /\ r.out = o.out
        /\ r.gen = slot /\ r.q = o.q /\ r.direct = o.direct /\ r.waiting = o.waiting
        /\ r.row = o.row /\ r.names = o.names
    BY <1>1 DEF TaskType
  <1> HIDE DEF r
  <1>4. o.direct /\ o.conn = 0 /\ o.names.q = o.q /\ o.names.from = 0
    BY <1>1 DEF CallOK
  <1>5. NamesFit(r)
    BY <1>3, <1>4 DEF NamesFit, Fits
  <1>6. CallOK(r)
    BY <1>1, <1>3, <1>4, <1>5, ProviderBounds DEF CallOK
  <1> QED
    BY <1>2, <1>3, <1>4, <1>6, CallFacts, Keeps DEF ReadScope

LEMMA SqliteRowPreserves ==
    ASSUME ProviderIInv, NEW t \in Tasks, SqliteRow(t)
    PROVE  ProviderIInv'
  <1> DEFINE o == task[t]
             e == Ends(t, "rows")
  <1>1. o \in TaskType /\ CallOK(o) /\ o.pc = "step"
    BY CallFacts DEF SqliteRow
  <1>2. /\ e \in TaskType /\ CallOK(e) /\ e.conn = 0 /\ e.gen = o.gen /\ e.pc = "done"
        /\ e.out = "rows" /\ e.q = o.q
    <2>1. NamesFit(o)
      BY <1>1 DEF CallOK
    <2> QED
      BY <2>1, <1>1, EndsFacts
  <1> HIDE DEF e
  <1>3. PICK row \in {schema, NoRow} : task' = [task EXCEPT ![t] = [e EXCEPT !.row = row]]
    BY DEF SqliteRow, e
  <1> DEFINE r == [e EXCEPT !.row = row]
  <1>4. row \in 0..NoRow
    BY CallFacts, ProviderBounds DEF NoRow
  <1>5. /\ r \in TaskType /\ r.pc = "done" /\ r.conn = 0 /\ r.out = "rows"
        /\ r.gen = e.gen /\ r.q = e.q /\ r.direct = e.direct /\ r.waiting = e.waiting
        /\ r.row = row /\ r.names = e.names
    BY <1>2, <1>4 DEF TaskType
  <1> HIDE DEF r
  <1>6. row # NoRow => Since(e.gen) <= row
    <2>1. e.gen \in 0 .. slot
      BY <1>2 DEF CallOK
    <2> QED
      BY <2>1, <1>3, CallFacts
  <1>7. NamesFit(r)
    BY <1>2, <1>5 DEF CallOK, NamesFit
  <1>8. CallOK(r)
    BY <1>2, <1>5, <1>6, <1>7 DEF CallOK
  <1>9. task' = [task EXCEPT ![t] = r]
    BY <1>3 DEF r
  <1> QED
    BY <1>2, <1>5, <1>8, <1>9, IdleFacts, Releases DEF SqliteRow

\* With names that fit, a call of SQLite runs its statement, another is done.
LEMMA MappedFacts ==
    ASSUME ProviderIInv, NEW t \in Tasks, task[t].pc \in {"peek", "put"},
           NEW names \in NameType, Fits(names, task[t].gen, task[t].q),
           NEW r, r = [Mapped(t) EXCEPT !.names = names]
    PROVE  /\ r \in TaskType /\ CallOK(r)
           /\ r.conn = task[t].conn /\ r.gen = task[t].gen
  <1> DEFINE o == task[t]
  <1>1. o \in TaskType /\ CallOK(o) /\ Kind(t) = KindOf(o)
    BY CallFacts DEF Kind, KindOf
  <1>2. 0 \in 0..PoolSize
    BY PoolAssumption
  <1>3. CASE Kind(t) = "sqlite"
    <2>1. r = [[o EXCEPT !.pc = "step"] EXCEPT !.names = names]
      BY <1>3 DEF Mapped
    <2>2. /\ r \in TaskType /\ r.pc = "step" /\ r.conn = o.conn /\ r.out = o.out
          /\ r.gen = o.gen /\ r.q = o.q /\ r.direct = o.direct /\ r.waiting = o.waiting
          /\ r.row = o.row /\ r.names = names
      BY <1>1, <2>1 DEF TaskType
    <2>3. NamesFit(r) /\ KindOf(r) = "sqlite"
      BY <2>2, <1>1, <1>3 DEF NamesFit, KindOf
    <2>4. CallOK(r)
      BY <2>2, <2>3, <1>1 DEF CallOK
    <2> QED
      BY <2>2, <2>4
  <1>4. CASE Kind(t) # "sqlite"
    <2>1. r = [[o EXCEPT !.pc = "done", !.conn = 0, !.out = "rows"] EXCEPT !.names = names]
      BY <1>4 DEF Mapped, Ends
    <2>2. /\ r \in TaskType /\ r.pc = "done" /\ r.conn = 0 /\ r.out = "rows"
          /\ r.gen = o.gen /\ r.q = o.q /\ r.direct = o.direct /\ r.waiting = o.waiting
          /\ r.row = o.row /\ r.names = names
      BY <1>1, <1>2, <2>1 DEF TaskType
    <2>3. NamesFit(r)
      BY <2>2 DEF NamesFit
    <2>4. o.conn = 0
      BY <1>1, <1>4 DEF CallOK
    <2>5. CallOK(r)
      BY <2>2, <2>3, <1>1 DEF CallOK
    <2> QED
      BY <2>2, <2>4, <2>5
  <1> QED
    BY <1>3, <1>4

\* What is in the cache under the key of a call fits the call.
LEMMA PeekHitPreserves ==
    ASSUME ProviderIInv, NEW t \in Tasks, PeekHit(t)
    PROVE  ProviderIInv'
  <1>1. PICK i \in Entries(Key(t)) :
           task' = [task EXCEPT ![t] = [Mapped(t) EXCEPT !.names = colNames[i].names]]
    BY DEF PeekHit
  <1> DEFINE e == colNames[i]
             names == e.names
             r == [Mapped(t) EXCEPT !.names = names]
  <1>2. e \in GoodNames /\ e.key = Key(t)
    <2>1. i \in 1 .. Len(colNames)
      BY DEF Entries
    <2> QED
      BY <2>1, CallFacts, ElementOfSeq DEF Entries
  <1>3. e.key.gen = task[t].gen /\ e.key.q = task[t].q
    BY <1>2 DEF Key
  <1>4. names \in NameType /\ Fits(names, task[t].gen, task[t].q)
    BY <1>2, <1>3 DEF GoodNames
  <1>5. task' = [task EXCEPT ![t] = r]
    BY <1>1
  <1> HIDE DEF e, names
  <1>6. r \in TaskType /\ CallOK(r) /\ r.conn = task[t].conn /\ r.gen = task[t].gen
    BY <1>4, MappedFacts DEF PeekHit
  <1> HIDE DEF r
  <1> QED
    BY <1>5, <1>6, CallFacts, Keeps DEF PeekHit

\* The names of the first row are of the schema the row was read under.
LEMMA PeekMissPreserves ==
    ASSUME ProviderIInv, NEW t \in Tasks, PeekMiss(t)
    PROVE  ProviderIInv'
  <1> DEFINE o == task[t]
  <1>1. /\ o \in TaskType /\ CallOK(o) /\ o.pc = "peek" /\ Kind(t) = KindOf(o)
        /\ o.q \in Queries /\ o.row \in 0..NoRow /\ o.gen \in 0..MaxGeneration
    BY CallFacts DEF PeekMiss, Kind, KindOf
  <1>2. CASE Kind(t) = "sqlite"
    <2> DEFINE r == [o EXCEPT !.pc = "put"]
    <2>1. task' = [task EXCEPT ![t] = r]
      BY <1>2 DEF PeekMiss
    <2>2. /\ r \in TaskType /\ r.pc = "put" /\ r.conn = o.conn /\ r.out = o.out
          /\ r.gen = o.gen /\ r.q = o.q /\ r.direct = o.direct /\ r.waiting = o.waiting
          /\ r.row = o.row /\ r.names = o.names
      BY <1>1 DEF TaskType
    <2> HIDE DEF r
    <2>3. NamesFit(r) /\ KindOf(r) = "sqlite"
      BY <2>2, <1>1, <1>2 DEF NamesFit, KindOf, CallOK
    <2>4. CallOK(r)
      BY <2>2, <2>3, <1>1 DEF CallOK
    <2> QED
      BY <2>1, <2>2, <2>4, CallFacts, Keeps DEF PeekMiss
  <1>3. CASE Kind(t) # "sqlite" /\ o.row # NoRow
    <2> DEFINE names == NamesAt(o.q, o.row, o.gen)
               r == [o EXCEPT !.pc = "put", !.names = names]
    <2>1. task' = [task EXCEPT ![t] = r]
      BY <1>3 DEF PeekMiss
    <2>2. o.row \in 0..MaxVersion
      BY <1>1, <1>3, ProviderBounds DEF NoRow
    <2>3. /\ names \in NameType /\ names.q = o.q /\ names.from = o.gen
          /\ o.q \in Starred => names.version = o.row
      BY <1>1, <2>2, NamesFacts
    <2> HIDE DEF names
    <2>4. /\ r \in TaskType /\ r.pc = "put" /\ r.conn = o.conn /\ r.out = o.out
          /\ r.gen = o.gen /\ r.q = o.q /\ r.direct = o.direct /\ r.waiting = o.waiting
          /\ r.row = o.row /\ r.names = names
      BY <1>1, <2>3 DEF TaskType
    <2> HIDE DEF r
    <2>5. ~ o.direct /\ Since(o.gen) <= o.row
      BY <1>1, <1>3 DEF CallOK, KindOf
    <2>6. NamesFit(r)
      BY <2>3, <2>4, <2>5 DEF NamesFit, Fits
    <2>7. CallOK(r)
      BY <2>4, <2>5, <2>6, <1>1, <1>3 DEF CallOK
    <2> QED
      BY <2>1, <2>4, <2>7, CallFacts, Keeps DEF PeekMiss
  <1>4. CASE Kind(t) # "sqlite" /\ o.row = NoRow
    <2> DEFINE r == [o EXCEPT !.pc = "acquire2"]
    <2>1. task' = [task EXCEPT ![t] = r]
      BY <1>4 DEF PeekMiss
    <2>2. /\ r \in TaskType /\ r.pc = "acquire2" /\ r.conn = o.conn /\ r.out = o.out
          /\ r.gen = o.gen /\ r.q = o.q /\ r.direct = o.direct /\ r.waiting = o.waiting
          /\ r.row = o.row /\ r.names = o.names
      BY <1>1 DEF TaskType
    <2> HIDE DEF r
    <2>3. ~ o.direct /\ o.conn = 0
      BY <1>1, <1>4 DEF CallOK, KindOf
    <2>4. CallOK(r)
      BY <2>2, <2>3, <1>1 DEF CallOK
    <2> QED
      BY <2>1, <2>2, <2>4, CallFacts, Keeps DEF PeekMiss
  <1> QED
    BY <1>2, <1>3, <1>4

LEMMA PutNamesPreserves ==
    ASSUME ProviderIInv, NEW t \in Tasks, PutNames(t)
    PROVE  ProviderIInv'
  <1> DEFINE o == task[t]
             names == o.names
             key == Key(t)
  <1>1. /\ o \in TaskType /\ CallOK(o) /\ o.pc = "put" /\ o.q \in Queries
        /\ o.gen \in 0..MaxGeneration /\ names \in NameType
    BY CallFacts DEF PutNames, TaskType
  <1>2. o.gen \in 0 .. slot /\ Fits(names, o.gen, o.q)
    BY <1>1 DEF CallOK, NamesFit
  <1>3. [key |-> key, names |-> names] \in GoodNames
    <2>1. key = [gen |-> o.gen, q |-> o.q]
      BY DEF Key
    <2> QED
      BY <2>1, <1>1, <1>2 DEF GoodNames
  <1>4. colNames' \in Seq(GoodNames) /\ Len(colNames') <= NamesCap
    <2> HIDE DEF key, names
    <2>1. Stored(key, names) \in Seq(GoodNames) /\ Len(Stored(key, names)) <= NamesCap
      BY <1>3, CallFacts, StoredFacts
    <2> QED
      BY <2>1 DEF PutNames, key, names
  <1> DEFINE r == [Mapped(t) EXCEPT !.names = names]
  <1>5. r \in TaskType /\ CallOK(r) /\ r.conn = o.conn /\ r.gen = o.gen
    BY <1>1, <1>2, MappedFacts
  <1>6. r = Mapped(t)
    <2>1. CASE Kind(t) = "sqlite"
      BY <2>1, <1>1 DEF Mapped, TaskType
    <2>2. CASE Kind(t) # "sqlite"
      BY <2>2, <1>1 DEF Mapped, Ends, TaskType
    <2> QED
      BY <2>1, <2>2
  <1>7. task' = [task EXCEPT ![t] = r]
    BY <1>6 DEF PutNames
  <1> HIDE DEF r
  <1> QED
    BY <1>4, <1>5, <1>7, CallFacts, Keeps DEF PutNames

\* Only an idle connection is taken, which has no holder yet.
LEMMA AcquirePreserves ==
    ASSUME ProviderIInv, NEW t \in Tasks, Acquire(t)
    PROVE  ProviderIInv'
  <1> DEFINE o == task[t]
             h == o.gen
             p == IF Kind(t) = "sqlite" THEN "prepare"
                  ELSE IF o.pc = "acquire2" THEN "describe" ELSE "rows"
  <1>1. /\ o \in TaskType /\ CallOK(o) /\ o.pc \in {"acquire", "acquire2"}
        /\ Kind(t) = KindOf(o) /\ h \in 0..MaxGeneration
    BY CallFacts DEF Acquire, Kind, KindOf
  <1>2. ~ o.direct /\ o.conn = 0 /\ h # 0
    BY <1>1 DEF CallOK
  <1>3. h \in Generations
    BY <1>1, <1>2, ProviderBounds DEF Generations
  <1>4. PICK d \in Connections :
           /\ pool[h][d].st = "idle"
           /\ pool' = [pool EXCEPT ![h][d].st = "busy"]
           /\ task' = [task EXCEPT ![t].conn = d, ![t].pc = p]
    BY DEF Acquire
  <1> DEFINE r == [o EXCEPT !.conn = d, !.pc = p]
             k == pool[h][d]
             b == [k EXCEPT !.st = "busy"]
  <1>5. task' = [task EXCEPT ![t] = r]
    BY <1>4
  <1>6. d \in 0..PoolSize /\ d # 0
    BY PoolAssumption DEF Connections
  <1>7. /\ r \in TaskType /\ r.pc = p /\ r.conn = d /\ r.out = o.out
        /\ r.gen = o.gen /\ r.q = o.q /\ r.direct = o.direct /\ r.waiting = o.waiting
        /\ r.row = o.row /\ r.names = o.names
    BY <1>1, <1>6 DEF TaskType
  <1>8. k \in ConnType /\ k.set = Session(h)
    BY <1>3, <1>4 DEF ProviderIInv, PoolOK, TypeOK
  <1>9. b \in ConnType /\ b.st = "busy" /\ b.set = Session(h)
    <2> HIDE DEF k
    <2> QED
      BY <1>8 DEF ConnType
  <1>10. pool' = [pool EXCEPT ![h][d] = b]
    BY <1>4
  <1> HIDE DEF b
  <1>11. /\ pool' \in [Generations -> [Connections -> ConnType]]
         /\ \A g \in Generations, c \in Connections :
               pool'[g][c] = IF g = h /\ c = d THEN b ELSE pool[g][c]
    BY <1>3, <1>9, <1>10 DEF ProviderIInv, TypeOK
  <1> HIDE DEF r
  <1>12. KindOf(r) = Kind(t)
    BY <1>1, <1>7 DEF KindOf
  <1>13. CallOK(r)
    <2>1. p \in {"prepare", "describe", "rows"} /\ (p = "prepare" <=> Kind(t) = "sqlite")
      OBVIOUS
    <2> HIDE DEF p
    <2> QED
      BY <2>1, <1>1, <1>2, <1>7, <1>12 DEF CallOK
  <1>14. \A u \in Tasks : task'[u] = IF u = t THEN r ELSE task[u]
    BY <1>5 DEF ProviderIInv, TypeOK
  <1>15. ASSUME NEW u \in Tasks, NEW g \in Generations, NEW c \in Connections
         PROVE  Holds(u, g, c)' <=> Holds(u, g, c) \/ (u = t /\ g = h /\ c = d)
    <2>1. c # 0
      BY PoolAssumption DEF Connections
    <2> QED
      BY <2>1, <1>2, <1>7, <1>14 DEF Holds
  <1>16. PoolOK'
    <2> SUFFICES ASSUME NEW g \in Generations, NEW c \in Connections
                 PROVE  /\ pool'[g][c].st \in {"idle", "busy"} => pool'[g][c].set = Session(g)'
                        /\ g \notin Taken' => pool'[g][c].st = "closed"
                        /\ pool'[g][c].st = "busy" <=> \E u \in Tasks : Holds(u, g, c)'
                        /\ \A u, v \in Tasks : Holds(u, g, c)' /\ Holds(v, g, c)' => u = v
      BY DEF PoolOK
    <2>1. Session(g)' = Session(g) /\ Taken' = Taken
      BY DEF Acquire, Session, Taken
    <2>2. /\ pool[g][c].st \in {"idle", "busy"} => pool[g][c].set = Session(g)
          /\ g \notin Taken => pool[g][c].st = "closed"
          /\ pool[g][c].st = "busy" <=> \E u \in Tasks : Holds(u, g, c)
          /\ \A u, v \in Tasks : Holds(u, g, c) /\ Holds(v, g, c) => u = v
      BY DEF ProviderIInv, PoolOK
    <2>3. CASE g = h /\ c = d
      <3>1. pool'[g][c] = b /\ pool[g][c].st = "idle"
        BY <2>3, <1>4, <1>11
      <3>2. \A u \in Tasks : Holds(u, g, c)' <=> u = t
        BY <3>1, <2>2, <2>3, <1>15
      <3> QED
        BY <3>1, <3>2, <2>1, <2>2, <2>3, <1>9
    <2>4. CASE ~ (g = h /\ c = d)
      <3>1. pool'[g][c] = pool[g][c]
        BY <2>4, <1>11
      <3>2. \A u \in Tasks : Holds(u, g, c)' <=> Holds(u, g, c)
        BY <2>4, <1>15
      <3> QED
        BY <3>1, <3>2, <2>1, <2>2
    <2> QED
      BY <2>3, <2>4
  <1> QED
    BY <1>5, <1>7, <1>11, <1>13, <1>16, CallFacts, TaskFrame DEF Acquire

-----------------------------------------------------------------------------
(***************************************************************************)
(* Steps of the pools, of loads and of the database                        *)
(***************************************************************************)

\* A connection that is not in use changes to k.
LEMMA ConnectionChanges ==
    ASSUME ProviderIInv, NEW h \in Generations, NEW d \in Connections, NEW k \in ConnType,
           pool' = [pool EXCEPT ![h][d] = k],
           UNCHANGED <<slot, provider, load, task, colNames, schema>>,
           pool[h][d].st # "busy", k.st # "busy",
           k.st = "idle" => k.set = Session(h),
           h \in Taken \/ k.st = "closed"
    PROVE  ProviderIInv'
  <1>1. /\ pool' \in [Generations -> [Connections -> ConnType]]
        /\ \A g \in Generations, c \in Connections :
              pool'[g][c] = IF g = h /\ c = d THEN k ELSE pool[g][c]
    BY DEF ProviderIInv, TypeOK
  <1>2. TypeOK' /\ LoadOK' /\ GoodNames' = GoodNames
    BY <1>1 DEF ProviderIInv, TypeOK, LoadOK, Taken, GoodNames, Fits,
           ServerPool, Since
  <1>3. \A t \in Tasks : CallOK(task[t])'
    BY DEF ProviderIInv, CallOK, KindOf, NamesFit, Fits, ServerPool, Since
  <1>4. PoolOK'
    <2> SUFFICES ASSUME NEW g \in Generations, NEW c \in Connections
                 PROVE  /\ pool'[g][c].st \in {"idle", "busy"} => pool'[g][c].set = Session(g)'
                        /\ g \notin Taken' => pool'[g][c].st = "closed"
                        /\ pool'[g][c].st = "busy" <=> \E u \in Tasks : Holds(u, g, c)'
                        /\ \A u, v \in Tasks : Holds(u, g, c)' /\ Holds(v, g, c)' => u = v
      BY DEF PoolOK
    <2>1. Session(g)' = Session(g) /\ Taken' = Taken
      BY DEF Session, Taken
    <2>2. /\ pool[g][c].st \in {"idle", "busy"} => pool[g][c].set = Session(g)
          /\ g \notin Taken => pool[g][c].st = "closed"
          /\ pool[g][c].st = "busy" <=> \E u \in Tasks : Holds(u, g, c)
          /\ \A u, v \in Tasks : Holds(u, g, c) /\ Holds(v, g, c) => u = v
      BY DEF ProviderIInv, PoolOK
    <2>3. \A u \in Tasks : Holds(u, g, c)' <=> Holds(u, g, c)
      BY DEF Holds
    <2> QED
      BY <1>1, <2>1, <2>2, <2>3
  <1> QED
    BY <1>2, <1>3, <1>4 DEF ProviderIInv

LEMMA SessionType ==
    ASSUME ProviderIInv, NEW g \in Generations
    PROVE  Session(g) \in 0..SessionSize
  BY ProviderBounds DEF Session

LEMMA PoolStepPreserves ==
    ASSUME ProviderIInv, PoolStep
    PROVE  ProviderIInv'
  <1>1. PICK h \in Generations, d \in Connections :
           Dial(h, d) \/ ApplySet(h, d) \/ Connected(h, d) \/ Close(h, d)
    BY DEF PoolStep
  <1> DEFINE o == pool[h][d]
  <1>2. o \in ConnType /\ (h \notin Taken => o.st = "closed")
    BY DEF ProviderIInv, TypeOK, PoolOK
  <1>3. ServerPool(h) => h \in Taken
    BY DEF ServerPool, Taken, NoKind
  <1>4. CASE Dial(h, d)
    <2>1. Opening \in ConnType /\ Opening.st = "opening"
      BY ProviderBounds DEF Opening, ConnType
    <2> QED
      BY <1>3, <1>4, <2>1, ConnectionChanges DEF Dial
  <1>5. CASE ApplySet(h, d)
    <2> DEFINE k == [o EXCEPT !.set = o.set + 1]
    <2>1. o.st = "opening" /\ o.set < Session(h) /\ pool' = [pool EXCEPT ![h][d] = k]
      BY <1>5 DEF ApplySet
    <2>2. o.set \in 0..SessionSize /\ o.set + 1 \in 0..SessionSize
      BY <1>2, <2>1, SessionType, ProviderBounds DEF ConnType
    <2>3. k \in ConnType /\ k.st = "opening"
      <3> HIDE DEF o
      <3> QED
        BY <1>2, <2>1, <2>2 DEF ConnType
    <2> HIDE DEF k
    <2> QED
      BY <1>2, <1>5, <2>1, <2>3, ConnectionChanges DEF ApplySet
  <1>6. CASE Connected(h, d)
    <2> DEFINE k == [o EXCEPT !.st = "idle"]
    <2>1. o.st = "opening" /\ o.set = Session(h) /\ pool' = [pool EXCEPT ![h][d] = k]
      BY <1>6 DEF Connected, EntersPool
    <2>2. k \in ConnType /\ k.st = "idle" /\ k.set = o.set
      <3> HIDE DEF o
      <3> QED
        BY <1>2 DEF ConnType
    <2> HIDE DEF k
    <2> QED
      BY <1>2, <1>6, <2>1, <2>2, ConnectionChanges DEF Connected
  <1>7. CASE Close(h, d)
    BY <1>7, ClosedFacts, ConnectionChanges DEF Close
  <1> QED
    BY <1>1, <1>4, <1>5, <1>6, <1>7

\* A new generation is above the slot, and nothing is known of it yet.
LEMMA BeginsFacts ==
    ASSUME ProviderIInv, NEW kind \in Kinds, NEW pc \in {"connect", "install"},
           Begins(kind, pc)
    PROVE  \E g \in Generations :
              /\ slot < g /\ g \notin Taken
              /\ provider' = [provider EXCEPT ![g] = [kind |-> kind, since |-> schema]]
              /\ load' = [pc |-> pc, gen |-> g]
              /\ UNCHANGED <<slot, task, colNames, schema>>
              /\ Taken' = Taken \cup {g}
              /\ \A h \in Generations : h < g => h \in Taken
              /\ \A h \in Generations \ {g} : provider'[h] = provider[h]
              /\ provider'[g].kind = kind /\ provider'[g].since = schema
  <1>1. PICK g \in Generations \ Taken :
           /\ \A h \in Generations : h < g => h \in Taken
           /\ provider' = [provider EXCEPT ![g] = [kind |-> kind, since |-> schema]]
           /\ load' = [pc |-> pc, gen |-> g]
           /\ UNCHANGED <<slot, task, colNames, schema>>
    BY DEF Begins
  <1>2. slot < g
    <2>1. slot \in 0..MaxGeneration /\ g \in 1..MaxGeneration /\ g \notin Taken
      BY DEF ProviderIInv, TypeOK, Generations
    <2>2. slot = 0 \/ (slot \in Taken /\ slot \in Generations)
      BY DEF ProviderIInv, LoadOK, Taken
    <2>3. CASE slot = 0
      BY <2>1, <2>3
    <2>4. CASE slot \in Taken
      <3>1. ~ (g < slot) /\ g # slot
        BY <2>1, <2>4 DEF ProviderIInv, LoadOK
      <3> QED
        BY <3>1, <2>1
    <2> QED
      BY <2>2, <2>3, <2>4
  <1>3. /\ \A h \in Generations \ {g} : provider'[h] = provider[h]
        /\ provider'[g].kind = kind /\ provider'[g].since = schema
    BY <1>1 DEF ProviderIInv, TypeOK
  <1>4. kind # NoKind
    BY DEF Kinds, NoKind
  <1>5. Taken' = Taken \cup {g}
    BY <1>3, <1>4 DEF Taken
  <1> QED
    BY <1>1, <1>2, <1>3, <1>5

\* The calls, the cache and the pools of older providers do not notice a load.
LEMMA BeginsPreserves ==
    ASSUME ProviderIInv, NEW kind \in Kinds, NEW pc \in {"connect", "install"},
           Begins(kind, pc),
           pool' \in [Generations -> [Connections -> ConnType]],
           \A g \in Generations, c \in Connections :
              \/ pool'[g][c] = pool[g][c]
              \/ kind = "sqlite" /\ g = load'.gen /\ pool'[g][c] = [st |-> "idle", set |-> 0]
    PROVE  ProviderIInv'
  <1>1. PICK g \in Generations :
              /\ slot < g /\ g \notin Taken
              /\ provider' = [provider EXCEPT ![g] = [kind |-> kind, since |-> schema]]
              /\ load' = [pc |-> pc, gen |-> g]
              /\ UNCHANGED <<slot, task, colNames, schema>>
              /\ Taken' = Taken \cup {g}
              /\ \A h \in Generations : h < g => h \in Taken
              /\ \A h \in Generations \ {g} : provider'[h] = provider[h]
              /\ provider'[g].kind = kind /\ provider'[g].since = schema
    BY BeginsFacts
  <1>2. /\ slot \in 0..MaxGeneration /\ schema \in 0..MaxVersion
        /\ g \in 1..MaxGeneration /\ g \in 0..MaxGeneration
    BY ProviderBounds DEF ProviderIInv, TypeOK, Generations
  <1>3. TypeOK'
    <2>1. provider' \in [Generations -> [kind : Kinds \cup {NoKind}, since : 0..MaxVersion]]
      BY <1>1, <1>2 DEF ProviderIInv, TypeOK
    <2>2. load' \in [pc : {"idle", "connect", "validate", "install"}, gen : 0..MaxGeneration]
      BY <1>1, <1>2
    <2> QED
      BY <2>1, <2>2, <1>1 DEF ProviderIInv, TypeOK
  <1>4. LoadOK'
    <2>1. \A h \in Generations : provider'[h].since <= schema
      BY <1>1, <1>2 DEF ProviderIInv, LoadOK
    <2>2. \A i \in Taken', h \in Generations : h < i => h \in Taken'
      BY <1>1 DEF ProviderIInv, LoadOK
    <2>3. load'.gen = g /\ load'.gen \in Taken' /\ slot < load'.gen
      BY <1>1
    <2> QED
      BY <2>1, <2>2, <2>3, <1>1 DEF ProviderIInv, LoadOK
  <1>5. ASSUME NEW h \in 0 .. slot PROVE Since(h)' = Since(h) /\ (h # 0 => provider'[h] = provider[h])
    <2>0. slot < g
      BY <1>1
    <2>1. h = 0 \/ h \in Generations \ {g}
      BY <2>0, <1>2, ProviderBounds DEF Generations
    <2> QED
      BY <2>1, <1>1 DEF Since
  <1>6. ASSUME NEW t \in Tasks PROVE CallOK(task[t])'
    <2> DEFINE o == task[t]
    <2>1. CallOK(o) /\ task' = task /\ slot' = slot
      BY <1>1 DEF ProviderIInv
    <2>2. Since(o.gen)' = Since(o.gen) /\ (o.gen # 0 => provider'[o.gen] = provider[o.gen])
      BY <2>1, <1>5 DEF CallOK
    <2> HIDE DEF o
    <2>3. NamesFit(o) => NamesFit(o)'
      BY <2>1, <2>2 DEF NamesFit, Fits, ServerPool, o
    <2>4. o.gen # 0 \/ o.direct => KindOf(o)' = KindOf(o)
      BY <2>1, <2>2 DEF KindOf, o
    <2>5. o' = o
      BY <2>1 DEF o
    <2> QED
      BY <2>1, <2>2, <2>3, <2>4, <2>5 DEF CallOK, o
  <1>7. colNames' \in Seq(GoodNames')
    <2>1. GoodNames \subseteq GoodNames'
      BY <1>1, <1>5 DEF GoodNames, Fits, ServerPool
    <2>2. colNames \in Seq(GoodNames) /\ colNames' = colNames
      BY <1>1 DEF ProviderIInv
    <2> QED
      BY <2>1, <2>2, SeqMonotonic
  <1>8. PoolOK'
    <2> SUFFICES ASSUME NEW h \in Generations, NEW c \in Connections
                 PROVE  /\ pool'[h][c].st \in {"idle", "busy"} => pool'[h][c].set = Session(h)'
                        /\ h \notin Taken' => pool'[h][c].st = "closed"
                        /\ pool'[h][c].st = "busy" <=> \E u \in Tasks : Holds(u, h, c)'
                        /\ \A u, v \in Tasks : Holds(u, h, c)' /\ Holds(v, h, c)' => u = v
      BY DEF PoolOK
    <2>1. /\ pool[h][c].st \in {"idle", "busy"} => pool[h][c].set = Session(h)
          /\ h \notin Taken => pool[h][c].st = "closed"
          /\ pool[h][c].st = "busy" <=> \E u \in Tasks : Holds(u, h, c)
          /\ \A u, v \in Tasks : Holds(u, h, c) /\ Holds(v, h, c) => u = v
      BY DEF ProviderIInv, PoolOK
    <2>2. \A u \in Tasks : Holds(u, h, c)' <=> Holds(u, h, c)
      BY <1>1 DEF Holds
    <2>3. CASE h = g
      <3>1. pool[h][c].st = "closed" /\ load'.gen = g
        BY <2>1, <2>3, <1>1
      <3>2. \/ pool'[h][c].st = "closed"
            \/ kind = "sqlite" /\ pool'[h][c].st = "idle" /\ pool'[h][c].set = 0
        BY <3>1
      <3>3. kind = "sqlite" => Session(h)' = 0
        BY <2>3, <1>1 DEF Session
      <3> QED
        BY <3>1, <3>2, <3>3, <2>1, <2>2, <2>3, <1>1
    <2>4. CASE h # g
      <3>1. Session(h)' = Session(h) /\ pool'[h][c] = pool[h][c]
        BY <2>4, <1>1 DEF Session
      <3> QED
        BY <3>1, <2>1, <2>2, <2>4, <1>1
    <2> QED
      BY <2>3, <2>4
  <1> QED
    BY <1>3, <1>4, <1>6, <1>7, <1>8 DEF ProviderIInv

LEMMA LoadStepPreserves ==
    ASSUME ProviderIInv, LoadStep
    PROVE  ProviderIInv'
  <1>0. /\ pool \in [Generations -> [Connections -> ConnType]]
        /\ load \in [pc : {"idle", "connect", "validate", "install"}, gen : 0..MaxGeneration]
        /\ 0 \in 0..MaxGeneration /\ 1 \in Connections
    BY ProviderBounds, PoolAssumption DEF ProviderIInv, TypeOK, Connections
  <1>1. CASE ConnectPostgres
    BY <1>0, <1>1, BeginsPreserves DEF ConnectPostgres, Kinds
  <1>2. CASE ConnectMySql
    BY <1>0, <1>2, BeginsPreserves DEF ConnectMySql, Kinds
  <1>3. CASE OpenMemDB
    <2> DEFINE g == load'.gen
               k == [st |-> "idle", set |-> 0]
    <2>1. Begins("sqlite", "install") /\ pool' = [pool EXCEPT ![g][1] = k]
      BY <1>3 DEF OpenMemDB
    <2>2. g \in Generations
      BY <2>1 DEF Begins
    <2>3. k \in ConnType
      BY ProviderBounds DEF ConnType
    <2> HIDE DEF g
    <2>4. /\ pool' \in [Generations -> [Connections -> ConnType]]
          /\ \A h \in Generations, c \in Connections :
                pool'[h][c] = IF h = g /\ c = 1 THEN k ELSE pool[h][c]
      BY <2>1, <2>2, <2>3, <1>0
    <2>5. \A h \in Generations, c \in Connections :
              \/ pool'[h][c] = pool[h][c]
              \/ "sqlite" = "sqlite" /\ h = load'.gen /\ pool'[h][c] = [st |-> "idle", set |-> 0]
      BY <2>4 DEF g
    <2> QED
      BY <2>1, <2>4, <2>5, BeginsPreserves DEF Kinds
  <1>4. CASE PoolReady \/ ValidateStartup
    <2>1. load'.pc # "idle" /\ load'.gen = load.gen /\ load.pc # "idle"
          /\ load' \in [pc : {"idle", "connect", "validate", "install"}, gen : 0..MaxGeneration]
      BY <1>0, <1>4 DEF PoolReady, ValidateStartup
    <2>2. UNCHANGED <<slot, provider, pool, task, colNames, schema>>
      BY <1>4 DEF PoolReady, ValidateStartup
    <2> QED
      BY <2>1, <2>2 DEF ProviderIInv, TypeOK, LoadOK, PoolOK, Holds, Session, Taken, GoodNames, Fits, ServerPool,
         Since, CallOK, KindOf, NamesFit
  <1>5. CASE ConnectFails
    <2> DEFINE h == load.gen
               none == [c \in Connections |-> Closed]
    <2>1. /\ load.pc # "idle" /\ load' = [pc |-> "idle", gen |-> 0]
          /\ pool' = [pool EXCEPT ![h] = none]
          /\ UNCHANGED <<slot, provider, task, colNames, schema>>
      BY <1>5 DEF ConnectFails
    <2>2. h \in Generations /\ h \in Taken /\ slot < h
      BY <2>1 DEF ProviderIInv, LoadOK, Taken
    <2>3. /\ pool' \in [Generations -> [Connections -> ConnType]]
          /\ \A g \in Generations, c \in Connections :
                pool'[g][c] = IF g = h THEN Closed ELSE pool[g][c]
      BY <2>1, <2>2, <1>0, ClosedFacts
    <2>4. load' \in [pc : {"idle", "connect", "validate", "install"}, gen : 0..MaxGeneration]
          /\ load'.pc = "idle"
      BY <2>1, <1>0
    <2>5. TypeOK' /\ LoadOK' /\ GoodNames' = GoodNames /\ Taken' = Taken
      BY <2>1, <2>3, <2>4 DEF ProviderIInv, TypeOK, LoadOK, Taken, GoodNames, Fits,
             ServerPool, Since
    <2>6. \A t \in Tasks : CallOK(task[t])'
      BY <2>1 DEF ProviderIInv, CallOK, KindOf, NamesFit, Fits, ServerPool, Since
    <2>7. ASSUME NEW t \in Tasks PROVE task[t].gen # h
      <3>1. task[t].gen \in 0 .. slot /\ slot \in 0..MaxGeneration /\ h \in 1..MaxGeneration
        BY <2>2, CallFacts DEF CallOK, Generations
      <3> QED
        BY <3>1, <2>2
    <2>8. PoolOK'
      <3> SUFFICES ASSUME NEW g \in Generations, NEW c \in Connections
                   PROVE  /\ pool'[g][c].st \in {"idle", "busy"} => pool'[g][c].set = Session(g)'
                          /\ g \notin Taken' => pool'[g][c].st = "closed"
                          /\ pool'[g][c].st = "busy" <=> \E u \in Tasks : Holds(u, g, c)'
                          /\ \A u, v \in Tasks : Holds(u, g, c)' /\ Holds(v, g, c)' => u = v
        BY DEF PoolOK
      <3>1. Session(g)' = Session(g)
        BY <2>1 DEF Session
      <3>2. /\ pool[g][c].st \in {"idle", "busy"} => pool[g][c].set = Session(g)
            /\ g \notin Taken => pool[g][c].st = "closed"
            /\ pool[g][c].st = "busy" <=> \E u \in Tasks : Holds(u, g, c)
            /\ \A u, v \in Tasks : Holds(u, g, c) /\ Holds(v, g, c) => u = v
        BY DEF ProviderIInv, PoolOK
      <3>3. \A u \in Tasks : Holds(u, g, c)' <=> Holds(u, g, c)
        BY <2>1 DEF Holds
      <3>4. g = h => \A u \in Tasks : ~ Holds(u, g, c)
        BY <2>7 DEF Holds
      <3> QED
        BY <3>1, <3>2, <3>3, <3>4, <2>3, <2>5, ClosedFacts
    <2> QED
      BY <2>1, <2>5, <2>6, <2>8 DEF ProviderIInv
  <1>6. CASE Install
    <2>1. /\ load.pc # "idle" /\ load' = [pc |-> "idle", gen |-> 0] /\ slot' = load.gen
          /\ UNCHANGED <<provider, pool, task, colNames, schema>>
      BY <1>6 DEF Install
    <2>2. load.gen \in Taken /\ slot < load.gen /\ load.gen \in 0..MaxGeneration
      BY <2>1, <1>0 DEF ProviderIInv, LoadOK
    <2>3. load' \in [pc : {"idle", "connect", "validate", "install"}, gen : 0..MaxGeneration]
          /\ load'.pc = "idle"
      BY <2>1, <1>0
    <2>4. TypeOK' /\ LoadOK'
      BY <2>1, <2>2, <2>3 DEF ProviderIInv, TypeOK, LoadOK, Taken
    <2>5. slot \in 0..MaxGeneration /\ \A g \in 0 .. slot : g \in 0 .. slot'
      BY <2>1, <2>2 DEF ProviderIInv, TypeOK
    <2>6. \A g : Since(g)' = Since(g)
      BY <2>1 DEF Since
    <2>7. ASSUME NEW t \in Tasks PROVE CallOK(task[t])'
      <3>1. CallOK(task[t])
        BY DEF ProviderIInv
      <3> QED
        BY <3>1, <2>1, <2>5 DEF CallOK, KindOf, NamesFit, Fits, ServerPool, Since
    <2>8. PoolOK'
      BY <2>1 DEF ProviderIInv, PoolOK, Holds, Session, Taken
    <2>9. colNames' \in Seq(GoodNames')
      <3>1. GoodNames \subseteq GoodNames'
        BY <2>1, <2>5, <2>6 DEF GoodNames, Fits, ServerPool
      <3> QED
        BY <2>1, <3>1, SeqMonotonic DEF ProviderIInv
    <2> QED
      BY <2>4, <2>7, <2>8, <2>9 DEF ProviderIInv
  <1> QED
    BY <1>1, <1>2, <1>3, <1>4, <1>5, <1>6 DEF LoadStep

LEMMA SchemaChangesPreserves ==
    ASSUME ProviderIInv, SchemaChanges
    PROVE  ProviderIInv'
  <1>1. /\ schema \in 0..MaxVersion /\ schema' = schema + 1 /\ schema' \in 0..MaxVersion
        /\ UNCHANGED <<slot, provider, load, pool, task, colNames>>
    BY ProviderBounds DEF SchemaChanges, ProviderIInv, TypeOK
  <1>2. \A g \in Generations : provider[g].since \in 0..MaxVersion
    BY DEF ProviderIInv, TypeOK
  <1>3. TypeOK' /\ LoadOK'
    BY <1>1, <1>2 DEF ProviderIInv, TypeOK, LoadOK, Taken
  <1> QED
    BY <1>1, <1>3 DEF ProviderIInv, PoolOK, Holds, Session, Taken, GoodNames, Fits, ServerPool,
       Since, CallOK, KindOf, NamesFit

LEMMA ProviderStep == ProviderIInv /\ [Next]_vars => ProviderIInv'
  <1> SUFFICES ASSUME ProviderIInv, [Next]_vars PROVE ProviderIInv'
    OBVIOUS
  <1>1. CASE LoadStep
    BY <1>1, LoadStepPreserves
  <1>2. CASE PoolStep
    BY <1>2, PoolStepPreserves
  <1>3. CASE SchemaChanges
    BY <1>3, SchemaChangesPreserves
  <1>4. ASSUME NEW t \in Tasks, Ask(t) PROVE ProviderIInv'
    BY <1>4, CallPreserves, CallUnscopedPreserves DEF Ask, CallPostgres, CallMySql, CallSqlite
  <1>5. ASSUME NEW t \in Tasks, TaskStep(t) PROVE ProviderIInv'
    BY <1>5, AcquirePreserves, AcquireTimeoutPreserves, FetchRowsPreserves,
       QueryFailsPreserves, DescribePreserves, PreparePreserves, ReadScopePreserves,
       SqliteRowPreserves, PeekHitPreserves, PeekMissPreserves, PutNamesPreserves,
       CancelPreserves, ReturnPreserves DEF TaskStep
  <1>6. ASSUME NEW t \in Tasks, Abandon(t) PROVE ProviderIInv'
    BY <1>6, AbandonPreserves
  <1>7. CASE UNCHANGED vars
    BY <1>7 DEF ProviderIInv, TypeOK, LoadOK, PoolOK, Holds, Session, Taken, GoodNames, Fits, ServerPool,
       Since, CallOK, KindOf, NamesFit, vars
  <1> QED
    BY <1>1, <1>2, <1>3, <1>4, <1>5, <1>6, <1>7 DEF Next

LEMMA ProviderInvariant == Spec => []ProviderIInv
  BY ProviderInitially, ProviderStep, PTL DEF Spec

-----------------------------------------------------------------------------
(***************************************************************************)
(* Theorems                                                                *)
(***************************************************************************)

\* No connection leaks, and COLNAME_CACHE stays within its capacity: a busy
\* connection is held by exactly one task, whatever fails, is abandoned or
\* cancelled (run_task of provider_runtime.rs, the pools of postgres.rs and
\* mysql.rs).
THEOREM NoConnectionLeaks == Spec => []PoolsInv
  <1>1. ASSUME ProviderIInv PROVE PoolsInv
    <2>1. TypeOK
      BY <1>1 DEF ProviderIInv
    <2>2. ASSUME NEW g \in Generations, NEW c \in Connections
          PROVE  Cardinality({t \in Tasks : task[t].gen = g /\ task[t].conn = c})
                   = IF pool[g][c].st = "busy" THEN 1 ELSE 0
      <3> DEFINE holders == {t \in Tasks : task[t].gen = g /\ task[t].conn = c}
      <3>1. /\ pool[g][c].st = "busy" <=> \E t \in Tasks : t \in holders
            /\ \A t, u \in holders : t = u
        BY <1>1 DEF ProviderIInv, PoolOK, Holds
      <3>2. CASE pool[g][c].st = "busy"
        <4>1. PICK t \in Tasks : holders = {t}
          BY <3>1, <3>2
        <4>2. Cardinality(holders) = 1
          BY <4>1, FS_Singleton
        <4> QED
          BY <3>2, <4>2
      <3>3. CASE pool[g][c].st # "busy"
        <4>1. holders = {}
          BY <3>1, <3>3
        <4>2. Cardinality(holders) = 0
          BY <4>1, FS_EmptySet
        <4> QED
          BY <3>3, <4>2
      <3> QED
        BY <3>2, <3>3
    <2> QED
      BY <2>1, <2>2 DEF PoolsInv, ConnectionsReturned
  <1> QED
    BY <1>1, ProviderInvariant, PTL

\* Every query of a PostgreSQL provider runs under all its session settings
\* (after_connect in postgres.rs).
THEOREM SessionAlwaysSet == Spec => []SessionOnEveryQuery
  <1>1. ASSUME ProviderIInv PROVE SessionOnEveryQuery
    <2> SUFFICES ASSUME NEW t \in Tasks, task[t].conn # 0
                 PROVE  pool[task[t].gen][task[t].conn].set = Session(task[t].gen)
      BY DEF SessionOnEveryQuery
    <2> DEFINE h == task[t].gen
               d == task[t].conn
    <2>1. h \in 0..MaxGeneration /\ d \in 0..PoolSize /\ h # 0
      BY <1>1, CallFacts DEF CallOK
    <2>2. h \in Generations /\ d \in Connections
      BY <2>1, ProviderBounds, PoolAssumption DEF Generations, Connections
    <2>3. Holds(t, h, d)
      BY DEF Holds
    <2> QED
      BY <1>1, <2>2, <2>3 DEF ProviderIInv, PoolOK
  <1> QED
    BY <1>1, ProviderInvariant, PTL

\* A caller that waits keeps its provider: it never gets a cancelled task
\* (Drop of the runtime in provider_runtime.rs).
THEOREM CallersAreNotCancelled == Spec => []NoCancelledAnswer
  <1>1. ProviderIInv => NoCancelledAnswer
    BY DEF ProviderIInv, CallOK, NoCancelledAnswer
  <1> QED
    BY <1>1, ProviderInvariant, PTL

\* Rows get the column names of their own query, given by their own provider or
\* by a direct call under its scope; the names that a server's provider gave are
\* from no schema older than its load (metadata_cache_key_for_scope in
\* query_util.rs).
THEOREM RowsAreLabelled == Spec => []RowsLabelledInGeneration
  <1>1. ASSUME ProviderIInv PROVE RowsLabelledInGeneration
    <2> SUFFICES ASSUME NEW t \in Tasks, task[t].pc = "done", task[t].out = "rows"
                 PROVE  /\ task[t].names.q = task[t].q
                        /\ task[t].names.from \in {0, task[t].gen}
                        /\ task[t].q \in Starred /\ task[t].names.from # 0
                             /\ ServerPool(task[t].names.from) =>
                             task[t].names.version >= provider[task[t].names.from].since
      BY DEF RowsLabelledInGeneration
    <2>1. NamesFit(task[t]) /\ task[t] \in TaskType /\ task[t].gen \in 0 .. slot
      BY <1>1, CallFacts DEF CallOK
    <2>2. task[t].names.version \in Nat /\ Since(task[t].gen) \in Nat
      <3>1. task[t].names.version \in 0..MaxVersion
        BY <2>1 DEF TaskType, NameType
      <3> QED
        BY <1>1, <2>1, <3>1, CallFacts
    <2> QED
      BY <2>1, <2>2 DEF NamesFit, Fits, Since
  <1> QED
    BY <1>1, ProviderInvariant, PTL
=============================================================================
