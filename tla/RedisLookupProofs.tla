------------------------- MODULE RedisLookupProofs --------------------------
(***************************************************************************)
(* Proofs about RedisLookup, for any callers and loaders, any questions,   *)
(* services and configurations, and any bounds.                            *)
(***************************************************************************)
EXTENDS RedisLookup, TLAPS, FiniteSetTheorems

\* The argument a question has when it is asked with this one.
ArgOf(q, arg) == IF q.cmd = "get" THEN NoWord ELSE arg

\* A cached lookup of q uses the entry of this tag and argument: the typed call
\* of its command, or a cached service of [fun].
KeptUnder(tag, arg, q) ==
    \/ tag = q.cmd /\ arg = q.arg
    \/ \E s \in Services :
         /\ funMap # NoService /\ funMap[s] # NoService /\ funMap[s].cache
         /\ arg \in Words
         /\ ServiceCall(funMap[s], arg).q = q /\ ServiceCall(funMap[s], arg).tag = tag

\* [fun] is set once.
ServicesStand == funMap # NoService => funMap' = funMap

\* What Redis said when a generation began is not newer than what it says.
BornBehind ==
    \A g \in 0 .. MaxGeneration, q \in Questions : born[g][q] <= server[q]

\* An entry answers a question that its key stands for, with something Redis
\* said since the generation of the key began.
EntryOK(e) ==
    /\ e.q \in Questions
    /\ e.q.key = e.key.key /\ e.q.arg = ArgOf(e.q, e.key.arg)
    /\ e.key.generation \in 0 .. generation
    /\ born[e.key.generation][e.q] <= e.version
    /\ KeptUnder(e.key.tag, e.key.arg, e.q)

EntriesOK == IsFiniteSet(cache) /\ \A e \in cache : EntryOK(e)

\* A load that has reached Redis has a url, one that has registered has the
\* registered url; pool and services come after the registration.
LoaderOK(i) ==
    /\ lpc[i] \in {"connect", "register", "newcache", "global", "fun"} =>
         conf[i] \in Confs /\ conf[i].url # NoUrl
    /\ lpc[i] \in {"newcache", "global", "fun"} => registered = conf[i].url

RegistryOK ==
    /\ registered # NoUrl => pools[registered] # NoUrl
    /\ funMap # NoService => registered # NoUrl
    /\ ServicesMatchPool

\* What AnswerFitsQuestion says of a call that got the answer to q.
SharedEntry(cl, q) ==
    /\ q = Question(OtherCommand[cl.q.cmd], cl.q.key, cl.arg)
    /\ cl.tag \in {"bf_exists", "get"} /\ cl.arg # NoWord
    /\ \E s \in Services :
         BorrowsTag(s) /\ ServiceCall(funMap[s], cl.arg).q \in {q, cl.q}

\* What a lookup knows on its way: it reads the cache only with a generation
\* and after it has seen the switch on, and stores only what Redis has said to
\* its own question since it began.
CallOK(c) ==
    /\ call[c].q \in Questions /\ call[c].q.arg = ArgOf(call[c].q, call[c].arg)
    /\ answered[c] \in Questions
    /\ gen[c] \in 0 .. generation
    /\ asked[c] <= server[call[c].q]
    /\ off[c] => ~ globalEnabled
    /\ pc[c] \in {"getglobal", "getenabled", "peek", "pop"} => gen[c] # 0
    /\ pc[c] \in {"getenabled", "peek", "pop"} => ~ off[c]
    /\ pc[c] \in {"putglobal", "putenabled", "put"} =>
         gen[c] # 0 /\ answered[c] = call[c].q /\ asked[c] <= answer[c]
    /\ pc[c] \in {"putglobal", "putenabled", "put", "done"} /\ gen[c] # 0 =>
         born[gen[c]][answered[c]] <= answer[c]
    /\ pc[c] = "done" /\ (gen[c] = 0 \/ off[c]) => asked[c] <= answer[c]
    /\ gen[c] # 0 => call[c].cached
    /\ call[c].cached => KeptUnder(call[c].tag, call[c].arg, call[c].q)
    /\ pc[c] = "done" /\ answered[c] # call[c].q => SharedEntry(call[c], answered[c])

\* The inductive invariant.
RedisIInv ==
    /\ TypeOK /\ BornBehind /\ EntriesOK /\ RegistryOK
    /\ \A i \in Loaders : LoaderOK(i)
    /\ \A c \in Callers : CallOK(c)

-----------------------------------------------------------------------------
(***************************************************************************)
(* Operators                                                               *)
(***************************************************************************)

\* LruCache::put keeps the cache within its capacity and brings in nothing but
\* the new entry.
LEMMA StoredFacts ==
    ASSUME NEW es, IsFiniteSet(es), NEW cap \in Nat \ {0}, Cardinality(es) <= cap,
           NEW e, NEW new \in Stored(es, cap, e)
    PROVE  /\ IsFiniteSet(new) /\ Cardinality(new) <= cap
           /\ new \subseteq es \cup {e}
  <1> DEFINE others == {x \in es : x.key # e.key}
  <1>1. others \subseteq es /\ e \notin others
    OBVIOUS
  <1>2. IsFiniteSet(others) /\ Cardinality(others) <= cap /\ Cardinality(others) \in Nat
    BY <1>1, FS_Subset, FS_CardinalityType
  <1>3. CASE Cardinality(others) < cap
    <2>1. new = others \cup {e}
      BY <1>3 DEF Stored
    <2>2. IsFiniteSet(new) /\ Cardinality(new) = Cardinality(others) + 1
      BY <2>1, <1>1, <1>2, FS_AddElement
    <2> QED
      BY <2>1, <2>2, <1>1, <1>2, <1>3
  <1>4. CASE ~ (Cardinality(others) < cap)
    <2>1. PICK victim \in others : new = (others \ {victim}) \cup {e}
      BY <1>4 DEF Stored
    <2> DEFINE rest == others \ {victim}
    <2>2. IsFiniteSet(rest) /\ Cardinality(rest) = Cardinality(others) - 1
      BY <1>2, FS_RemoveElement
    <2>3. e \notin rest
      BY <1>1
    <2>4. IsFiniteSet(new) /\ Cardinality(new) = Cardinality(rest) + 1
      BY <2>1, <2>2, <2>3, FS_AddElement
    <2> QED
      BY <2>1, <2>2, <2>4, <1>1, <1>2
  <1> QED
    BY <1>3, <1>4

LEMMA TypedCallFacts ==
    ASSUME NEW q \in Questions
    PROVE  /\ TypedCall(q) \in CallType /\ TypedCall(q).q = q
           /\ q.arg = ArgOf(q, TypedCall(q).arg)
           /\ KeptUnder(TypedCall(q).tag, TypedCall(q).arg, q)
  BY QuestionsAssumption DEF TypedCall, CallType, QuestionType, ArgOf, KeptUnder

LEMMA NullCallFacts ==
    /\ NullCall \in CallType /\ NullCall.q \in Questions
    /\ NullCall.q.arg = ArgOf(NullCall.q, NullCall.arg)
    /\ KeptUnder(NullCall.tag, NullCall.arg, NullCall.q)
  <1>1. (CHOOSE q \in Questions : TRUE) \in Questions
    BY QuestionsAssumption
  <1> QED
    BY <1>1, TypedCallFacts DEF NullCall

LEMMA ServiceCallFacts ==
    ASSUME NEW spec \in SpecType, NEW arg \in Words, ServiceCall(spec, arg).q \in Questions
    PROVE  /\ ServiceCall(spec, arg) \in CallType
           /\ ServiceCall(spec, arg).q.arg =
                ArgOf(ServiceCall(spec, arg).q, ServiceCall(spec, arg).arg)
  <1> DEFINE cl == ServiceCall(spec, arg)
  <1>1. /\ cl = [q |-> cl.q, tag |-> cl.tag, arg |-> arg, cached |-> spec.cache,
                 ttl |-> spec.ttl]
        /\ cl.q = Question(spec.call, IF spec.key = NoWord THEN arg ELSE spec.key, arg)
    BY DEF ServiceCall
  <1>2. cl.q \in QuestionType
    BY QuestionsAssumption
  <1>3. cl.tag \in Commands
    BY DEF ServiceCall, Commands, BoolCommands
  <1>4. spec.cache \in BOOLEAN /\ spec.ttl \in Nat
    BY DEF SpecType
  <1>5. cl \in CallType
    BY <1>1, <1>2, <1>3, <1>4 DEF CallType
  <1>6. cl.q.arg = ArgOf(cl.q, cl.arg)
    BY <1>1 DEF Question, ArgOf
  <1> QED
    BY <1>5, <1>6

\* Two questions of one entry: they are the same, or one of them is that of a
\* service which borrows the tag of the other.
LEMMA OneEntry ==
    ASSUME NEW cl \in CallType, NEW q \in Questions, cl.q \in Questions,
           funMap \in {NoService} \cup [Services -> SpecType \cup {NoService}],
           KeptUnder(cl.tag, cl.arg, cl.q), KeptUnder(cl.tag, cl.arg, q),
           q.key = cl.q.key, q.arg = ArgOf(q, cl.arg), cl.q.arg = ArgOf(cl.q, cl.arg),
           q # cl.q
    PROVE  SharedEntry(cl, q)
  <1> DEFINE r == cl.q
  <1>1. q \in QuestionType /\ r \in QuestionType
    BY QuestionsAssumption
  <1>2. q.cmd # r.cmd
    <2> SUFFICES ASSUME q.cmd = r.cmd PROVE FALSE
      OBVIOUS
    <2>1. q.arg = r.arg
      BY DEF ArgOf
    <2> QED
      BY <2>1, <1>1 DEF QuestionType
  <1>3. ASSUME NEW x \in QuestionType, KeptUnder(cl.tag, cl.arg, x), cl.tag # x.cmd
        PROVE  /\ x.cmd \in {"sismember", "hget"} /\ cl.arg \in Words
               /\ cl.tag = OtherCommand[x.cmd]
               /\ \E s \in Services : BorrowsTag(s) /\ ServiceCall(funMap[s], cl.arg).q = x
    <2>1. PICK s \in Services :
             /\ funMap # NoService /\ funMap[s] # NoService /\ funMap[s].cache
             /\ cl.arg \in Words /\ ServiceCall(funMap[s], cl.arg).q = x
             /\ ServiceCall(funMap[s], cl.arg).tag = cl.tag
      BY <1>3 DEF KeptUnder
    <2>2. funMap[s].call \in Commands
      BY <2>1 DEF SpecType
    <2>3. /\ x.cmd = funMap[s].call
          /\ cl.tag = IF funMap[s].call \in BoolCommands THEN "bf_exists" ELSE "get"
      BY <2>1 DEF ServiceCall, Question
    <2>4. x.cmd \in {"sismember", "hget"} /\ cl.tag = OtherCommand[x.cmd]
      BY <2>2, <2>3, <1>3 DEF Commands, BoolCommands, OtherCommand
    <2> QED
      BY <2>1, <2>3, <2>4 DEF BorrowsTag
  <1>4. q = Question(q.cmd, r.key, cl.arg)
    <2>1. q = [cmd |-> q.cmd, key |-> q.key, arg |-> q.arg]
      BY <1>1 DEF QuestionType
    <2> QED
      BY <2>1 DEF Question, ArgOf
  <1>5. CASE cl.tag # q.cmd
    <2>1. /\ q.cmd \in {"sismember", "hget"} /\ cl.arg \in Words /\ cl.tag = OtherCommand[q.cmd]
          /\ \E s \in Services : BorrowsTag(s) /\ ServiceCall(funMap[s], cl.arg).q = q
      BY <1>1, <1>3, <1>5
    <2>2. r.cmd = cl.tag
      <3> SUFFICES ASSUME cl.tag # r.cmd PROVE FALSE
        OBVIOUS
      <3>1. r.cmd \in {"sismember", "hget"} /\ cl.tag = OtherCommand[r.cmd]
        BY <1>1, <1>3
      <3> QED
        BY <3>1, <2>1, <1>2 DEF OtherCommand
    <2>3. q.cmd = OtherCommand[r.cmd] /\ cl.tag \in {"bf_exists", "get"}
      BY <2>1, <2>2 DEF OtherCommand
    <2>4. cl.arg # NoWord
      BY <2>1, QuestionsAssumption
    <2> QED
      BY <2>1, <2>3, <2>4, <1>4 DEF SharedEntry
  <1>6. CASE cl.tag = q.cmd
    <2>1. /\ r.cmd \in {"sismember", "hget"} /\ cl.arg \in Words /\ cl.tag = OtherCommand[r.cmd]
          /\ \E s \in Services : BorrowsTag(s) /\ ServiceCall(funMap[s], cl.arg).q = r
      BY <1>1, <1>2, <1>3, <1>6
    <2>2. q.cmd = OtherCommand[r.cmd] /\ cl.tag \in {"bf_exists", "get"}
      BY <2>1, <1>6 DEF OtherCommand
    <2>3. cl.arg # NoWord
      BY <2>1, QuestionsAssumption
    <2> QED
      BY <2>1, <2>2, <2>3, <1>4 DEF SharedEntry
  <1> QED
    BY <1>5, <1>6

\* Where an entry comes from stays true while [fun] stands.
LEMMA KeptUnderStands ==
    ASSUME ServicesStand, NEW tag, NEW arg, NEW q, KeptUnder(tag, arg, q)
    PROVE  KeptUnder(tag, arg, q)'
  BY DEF ServicesStand, KeptUnder

LEMMA NullConfType == NullConf \in ConfType
  BY DEF NullConf, ConfType

\* The initial state.
LEMMA RedisInitially == Init => RedisIInv
  <1> SUFFICES ASSUME Init PROVE RedisIInv
    OBVIOUS
  <1> USE RedisBounds DEF Init
  <1>1. IsFiniteSet(cache) /\ Cardinality(cache) = 0
    BY FS_EmptySet
  <1>2. TypeOK
    BY <1>1, NullConfType, NullCallFacts, QuestionsAssumption DEF TypeOK
  <1>3. BornBehind /\ EntriesOK
    BY <1>1 DEF BornBehind, EntriesOK
  <1>4. RegistryOK /\ \A i \in Loaders : LoaderOK(i)
    BY DEF RegistryOK, ServicesMatchPool, LoaderOK
  <1>5. \A c \in Callers : CallOK(c)
    BY NullCallFacts DEF CallOK
  <1> QED
    BY <1>2, <1>3, <1>4, <1>5 DEF RedisIInv

-----------------------------------------------------------------------------
(***************************************************************************)
(* Lookups                                                                 *)
(***************************************************************************)

\* The other callers, the loaders and the registry do not notice the step of
\* a caller.
LEMMA CallerFrame ==
    ASSUME RedisIInv, NEW c \in Callers,
           UNCHANGED <<dataVars, switchVars, registryVars, loaderVars>>,
           \A d \in Callers \ {c} :
              /\ pc'[d] = pc[d] /\ call'[d] = call[d] /\ gen'[d] = gen[d]
              /\ answer'[d] = answer[d] /\ answered'[d] = answered[d]
              /\ asked'[d] = asked[d] /\ off'[d] = off[d],
           TypeOK', EntriesOK', CallOK(c)'
    PROVE  RedisIInv'
  <1> USE DEF RedisIInv, dataVars, switchVars, registryVars, loaderVars
  <1>1. BornBehind'
    BY DEF BornBehind
  <1>2. RegistryOK' /\ \A i \in Loaders : LoaderOK(i)'
    BY DEF RegistryOK, ServicesMatchPool, LoaderOK
  <1>3. ASSUME NEW d \in Callers PROVE CallOK(d)'
    <2>1. CASE d = c
      BY <2>1
    <2>2. CASE d # c
      <3>1. CallOK(d)
        OBVIOUS
      <3>2. d \in Callers \ {c}
        BY <2>2
      <3> QED
        BY <3>1, <3>2 DEF CallOK, KeptUnder, SharedEntry, BorrowsTag
    <2> QED
      BY <2>1, <2>2
  <1> QED
    BY <1>1, <1>2, <1>3

\* Steps that only go on, to a label whose part of CallOK holds.
LEMMA GoesOn ==
    ASSUME RedisIInv, NEW c \in Callers, NEW label, To(c, label),
           label \in {"getenabled", "peek", "pop", "command", "putenabled", "put", "done"},
           UNCHANGED <<cacheVars, call, gen, answer, answered, asked, off>>,
           UNCHANGED <<dataVars, switchVars, registryVars, loaderVars>>,
           label \in {"getenabled", "peek", "pop"} => gen[c] # 0 /\ ~ off[c],
           label \in {"putenabled", "put", "done"} => pc[c] \in {"putglobal", "putenabled"}
    PROVE  RedisIInv'
  <1>1. TypeOK'
    BY DEF RedisIInv, TypeOK, To, cacheVars, dataVars, switchVars, registryVars, loaderVars
  <1>2. EntriesOK'
    BY DEF RedisIInv, EntriesOK, EntryOK, KeptUnder, cacheVars, dataVars, registryVars
  <1>3. CallOK(c)'
    <2>1. CallOK(c) /\ pc'[c] = label
      BY DEF RedisIInv, TypeOK, To
    <2> QED
      BY <2>1 DEF CallOK, KeptUnder, SharedEntry, BorrowsTag,
        dataVars, switchVars, registryVars
  <1>4. \A d \in Callers \ {c} : pc'[d] = pc[d]
    BY DEF RedisIInv, TypeOK, To
  <1> QED
    BY <1>1, <1>2, <1>3, <1>4, CallerFrame

\* A call that begins, or the state after one that failed.
LEMMA Resets ==
    ASSUME RedisIInv, NEW c \in Callers, NEW label \in {"idle", "generation"},
           NEW cl \in CallType, NEW version \in Nat, NEW isOff \in BOOLEAN,
           To(c, label), Locals(c, cl, version, isOff),
           UNCHANGED cacheVars,
           UNCHANGED <<dataVars, switchVars, registryVars, loaderVars>>,
           cl.q \in Questions, cl.q.arg = ArgOf(cl.q, cl.arg),
           version <= server[cl.q], isOff => ~ globalEnabled,
           cl.cached => KeptUnder(cl.tag, cl.arg, cl.q)
    PROVE  RedisIInv'
  <1>1. TypeOK'
    <2>1. cl.q \in QuestionType
      BY QuestionsAssumption
    <2> QED
      BY <2>1, RedisBounds
      DEF RedisIInv, TypeOK, To, Locals, cacheVars, dataVars, switchVars, registryVars, loaderVars
  <1>2. EntriesOK'
    BY DEF RedisIInv, EntriesOK, EntryOK, KeptUnder, cacheVars, dataVars, registryVars
  <1>3. /\ pc'[c] = label /\ call'[c] = cl /\ gen'[c] = 0 /\ answer'[c] = 0
        /\ answered'[c] = cl.q /\ asked'[c] = version /\ off'[c] = isOff
    BY DEF RedisIInv, TypeOK, To, Locals
  <1>4. CallOK(c)'
    BY <1>3, RedisBounds DEF CallOK, KeptUnder, RedisIInv, TypeOK, dataVars, switchVars, registryVars
  <1>5. \A d \in Callers \ {c} :
              /\ pc'[d] = pc[d] /\ call'[d] = call[d] /\ gen'[d] = gen[d]
              /\ answer'[d] = answer[d] /\ answered'[d] = answered[d]
              /\ asked'[d] = asked[d] /\ off'[d] = off[d]
    BY DEF RedisIInv, TypeOK, To, Locals
  <1> QED
    BY <1>1, <1>2, <1>4, <1>5, CallerFrame

LEMMA AskPreserves ==
    ASSUME RedisIInv, NEW c \in Callers, Ask(c),
           UNCHANGED <<dataVars, switchVars, registryVars, loaderVars>>
    PROVE  RedisIInv'
  <1>1. PICK q \in Questions : Starts(c, TypedCall(q))
    BY DEF Ask
  <1>2. server[q] \in Nat /\ (~ globalEnabled) \in BOOLEAN
    BY DEF RedisIInv, TypeOK
  <1>3. /\ To(c, "generation") /\ UNCHANGED cacheVars
        /\ Locals(c, TypedCall(q), server[q], ~ globalEnabled)
    BY <1>1, TypedCallFacts DEF Ask, Starts
  <1>4. server[q] <= server[q]
    BY <1>2
  <1> QED
    BY <1>2, <1>3, <1>4, TypedCallFacts, Resets

LEMMA AskServicePreserves ==
    ASSUME RedisIInv, NEW c \in Callers, AskService(c),
           UNCHANGED <<dataVars, switchVars, registryVars, loaderVars>>
    PROVE  RedisIInv'
  <1>1. PICK s \in Services, arg \in Words :
           /\ funMap # NoService /\ funMap[s] # NoService
           /\ ServiceCall(funMap[s], arg).q \in Questions
           /\ Starts(c, ServiceCall(funMap[s], arg))
    BY DEF AskService
  <1> DEFINE spec == funMap[s]
             cl == ServiceCall(spec, arg)
  <1>2. spec \in SpecType
    BY <1>1 DEF RedisIInv, TypeOK
  <1>3. cl \in CallType /\ cl.q \in Questions /\ cl.q.arg = ArgOf(cl.q, cl.arg)
    BY <1>1, <1>2, ServiceCallFacts
  <1>4. server[cl.q] \in Nat /\ server[cl.q] <= server[cl.q] /\ (~ globalEnabled) \in BOOLEAN
    BY <1>3 DEF RedisIInv, TypeOK
  <1>5. To(c, "generation") /\ UNCHANGED cacheVars /\ Locals(c, cl, server[cl.q], ~ globalEnabled)
    BY <1>1 DEF AskService, Starts
  <1>6. cl.cached => KeptUnder(cl.tag, cl.arg, cl.q)
    <2>1. cl.cached = funMap[s].cache /\ cl.arg = arg
      BY DEF ServiceCall
    <2> QED
      BY <1>1, <2>1 DEF KeptUnder
  <1> HIDE DEF cl
  <1> QED
    BY <1>3, <1>4, <1>5, <1>6, Resets

\* The call fails.
LEMMA FailsPreserves ==
    ASSUME RedisIInv, NEW c \in Callers, Fails(c), UNCHANGED cacheVars,
           UNCHANGED <<dataVars, switchVars, registryVars, loaderVars>>
    PROVE  RedisIInv'
  <1>1. 0 <= server[NullCall.q]
    BY NullCallFacts DEF RedisIInv, TypeOK
  <1> QED
    BY <1>1, NullCallFacts, Resets DEF Fails

LEMMA ReadGenerationPreserves ==
    ASSUME RedisIInv, NEW c \in Callers, ReadGeneration(c),
           UNCHANGED <<dataVars, switchVars, registryVars, loaderVars>>
    PROVE  RedisIInv'
  <1> USE DEF ReadGeneration
  <1> DEFINE g == IF call[c].cached THEN generation ELSE 0
  <1>1. g \in 0 .. generation /\ g \in 0 .. MaxGeneration /\ generation \in Nat
    BY RedisBounds DEF RedisIInv, TypeOK
  <1>2. gen'[c] = g /\ gen' = [gen EXCEPT ![c] = g]
    BY DEF RedisIInv, TypeOK
  <1>3. PICK label \in {"command", "getglobal"} :
           To(c, label) /\ (label = "getglobal" => g # 0)
    BY <1>2
  <1> HIDE DEF g
  <1>4. TypeOK'
    BY <1>1, <1>2, <1>3
    DEF RedisIInv, TypeOK, To, cacheVars, dataVars, switchVars, registryVars, loaderVars
  <1>5. EntriesOK'
    BY DEF RedisIInv, EntriesOK, EntryOK, KeptUnder, cacheVars, dataVars, registryVars
  <1>6. CallOK(c)'
    <2>1. CallOK(c) /\ pc'[c] = label
      BY <1>3 DEF RedisIInv, TypeOK, To
    <2> QED
      BY <2>1, <1>1, <1>2, <1>3 DEF CallOK, KeptUnder, SharedEntry, BorrowsTag,
        dataVars, switchVars, registryVars
  <1>7. \A d \in Callers \ {c} : pc'[d] = pc[d] /\ gen'[d] = gen[d]
    BY <1>2, <1>3 DEF RedisIInv, TypeOK, To
  <1> QED
    BY <1>4, <1>5, <1>6, <1>7, CallerFrame

\* A hit answers with something Redis has said since the generation of the key
\* began, which is the generation the call has read.
LEMMA HitPreserves ==
    ASSUME RedisIInv, NEW c \in Callers, Hit(c),
           UNCHANGED <<dataVars, switchVars, registryVars, loaderVars>>
    PROVE  RedisIInv'
  <1> USE DEF Hit
  <1>1. PICK e \in Found(c) : /\ answer' = [answer EXCEPT ![c] = e.version]
                              /\ answered' = [answered EXCEPT ![c] = e.q]
    OBVIOUS
  <1>2. e \in cache /\ e.key = CacheKey(call[c], gen[c])
    BY DEF Found
  <1>3. EntryOK(e) /\ e.version \in Nat /\ e.q \in QuestionType
    BY <1>2 DEF RedisIInv, TypeOK, EntriesOK, Entry
  <1>4. TypeOK'
    BY <1>1, <1>3
    DEF RedisIInv, TypeOK, To, cacheVars, dataVars, switchVars, registryVars, loaderVars
  <1>5. EntriesOK'
    BY DEF RedisIInv, EntriesOK, EntryOK, KeptUnder, cacheVars, dataVars, registryVars
  <1>6. /\ CallOK(c) /\ pc[c] = "peek" /\ pc'[c] = "done"
        /\ answer'[c] = e.version /\ answered'[c] = e.q
    BY <1>1 DEF RedisIInv, TypeOK, To
  <1>7. /\ e.key.generation = gen[c] /\ e.key.key = call[c].q.key
        /\ e.key.arg = call[c].arg
    BY <1>2 DEF CacheKey
  <1>8. born[gen[c]][e.q] <= e.version /\ e.q \in Questions
    BY <1>3, <1>7 DEF EntryOK
  <1>9. e.q # call[c].q => SharedEntry(call[c], e.q)
    <2>1. call[c] \in CallType /\ call[c].cached
      BY <1>6 DEF RedisIInv, TypeOK, CallOK
    <2>2. e.key.tag = call[c].tag
      BY <1>2 DEF CacheKey
    <2>3. /\ e.q.key = call[c].q.key /\ e.q.arg = ArgOf(e.q, call[c].arg)
          /\ KeptUnder(call[c].tag, call[c].arg, e.q)
      BY <2>2, <1>3, <1>7 DEF EntryOK
    <2>4. /\ call[c].q \in Questions /\ call[c].q.arg = ArgOf(call[c].q, call[c].arg)
          /\ KeptUnder(call[c].tag, call[c].arg, call[c].q)
      BY <2>1, <1>6 DEF CallOK
    <2> QED
      BY <2>1, <2>3, <2>4, <1>8, OneEntry DEF RedisIInv, TypeOK
  <1>10. CallOK(c)'
    BY <1>6, <1>8, <1>9 DEF CallOK, KeptUnder, SharedEntry, BorrowsTag,
        dataVars, switchVars, registryVars
  <1>11. \A d \in Callers \ {c} :
            pc'[d] = pc[d] /\ answer'[d] = answer[d] /\ answered'[d] = answered[d]
    BY <1>1 DEF RedisIInv, TypeOK, To
  <1> QED
    BY <1>4, <1>5, <1>10, <1>11, CallerFrame

\* Redis answers with what it says now.
LEMMA CommandPreserves ==
    ASSUME RedisIInv, NEW c \in Callers, Command(c),
           UNCHANGED <<dataVars, switchVars, registryVars, loaderVars>>
    PROVE  RedisIInv'
  <1> USE DEF Command
  <1>1. CallOK(c)
    BY DEF RedisIInv
  <1> DEFINE q == call[c].q
             v == server[q]
  <1>2. q \in Questions /\ q \in QuestionType /\ v \in Nat
    BY <1>1, QuestionsAssumption DEF CallOK, RedisIInv, TypeOK
  <1>3. PICK label \in {"done", "putglobal"} :
           To(c, label) /\ (label = "putglobal" <=> gen[c] # 0)
    OBVIOUS
  <1>4. TypeOK'
    BY <1>2, <1>3
    DEF RedisIInv, TypeOK, To, cacheVars, dataVars, switchVars, registryVars, loaderVars
  <1>5. EntriesOK'
    BY DEF RedisIInv, EntriesOK, EntryOK, KeptUnder, cacheVars, dataVars, registryVars
  <1>6. pc'[c] = label /\ answer'[c] = v /\ answered'[c] = q
    BY <1>3 DEF RedisIInv, TypeOK, To
  <1>7. gen[c] \in 0 .. MaxGeneration /\ born[gen[c]][q] <= v
    BY <1>2 DEF RedisIInv, BornBehind, TypeOK
  <1>8. CallOK(c)'
    BY <1>1, <1>2, <1>3, <1>6, <1>7 DEF CallOK, KeptUnder, SharedEntry, BorrowsTag,
        dataVars, switchVars, registryVars
  <1>9. \A d \in Callers \ {c} :
           pc'[d] = pc[d] /\ answer'[d] = answer[d] /\ answered'[d] = answered[d]
    BY <1>3 DEF RedisIInv, TypeOK, To
  <1> QED
    BY <1>4, <1>5, <1>8, <1>9, CallerFrame

LEMMA PopExpiredPreserves ==
    ASSUME RedisIInv, NEW c \in Callers, PopExpired(c),
           UNCHANGED <<dataVars, switchVars, registryVars, loaderVars>>
    PROVE  RedisIInv'
  <1> USE DEF PopExpired
  <1>1. cache' \subseteq cache
    OBVIOUS
  <1>2. IsFiniteSet(cache') /\ Cardinality(cache') <= Cardinality(cache)
    BY <1>1, FS_Subset DEF RedisIInv, EntriesOK
  <1>3. EntriesOK'
    BY <1>1, <1>2 DEF RedisIInv, EntriesOK, EntryOK, KeptUnder, dataVars, registryVars
  <1>4. Cardinality(cache') <= cacheCap
    BY <1>2, FS_CardinalityType DEF RedisIInv, EntriesOK, TypeOK
  <1>5. TypeOK'
    BY <1>1, <1>4 DEF RedisIInv, TypeOK, To, dataVars, switchVars, registryVars, loaderVars
  <1>6. CallOK(c) /\ pc'[c] = "command"
    BY DEF RedisIInv, TypeOK, To
  <1>7. CallOK(c)'
    BY <1>6 DEF CallOK, KeptUnder, SharedEntry, BorrowsTag,
        dataVars, switchVars, registryVars
  <1>8. \A d \in Callers \ {c} : pc'[d] = pc[d]
    BY DEF RedisIInv, TypeOK, To
  <1> QED
    BY <1>3, <1>5, <1>7, <1>8, CallerFrame

\* The new entry is about the call's own question, under the generation the
\* call has read.
LEMMA PutPreserves ==
    ASSUME RedisIInv, NEW c \in Callers, Put(c),
           UNCHANGED <<dataVars, switchVars, registryVars, loaderVars>>
    PROVE  RedisIInv'
  <1> USE DEF Put
  <1> DEFINE cl == call[c]
             k == CacheKey(cl, gen[c])
             e == [key |-> k, q |-> answered[c], version |-> answer[c], ttl |-> cl.ttl]
  <1>1. CallOK(c) /\ pc[c] = "put" /\ pc'[c] = "done"
    BY DEF RedisIInv, TypeOK, To
  <1>2. cl \in CallType /\ gen[c] \in Nat /\ answered[c] \in QuestionType /\ answer[c] \in Nat
    BY DEF RedisIInv, TypeOK
  <1>3. cl.tag \in Commands /\ cl.q.key \in Words /\ cl.arg \in Words \cup {NoWord} /\ cl.ttl \in Nat
    BY <1>2 DEF CallType, QuestionType
  <1>4. /\ k = [tag |-> cl.tag, generation |-> gen[c], key |-> cl.q.key, arg |-> cl.arg]
        /\ k \in KeyType
    BY <1>2, <1>3 DEF CacheKey, KeyType
  <1>5. e \in Entry
    BY <1>2, <1>3, <1>4 DEF Entry
  <1>6. EntryOK(e)
    BY <1>1, <1>4 DEF CallOK, EntryOK
  <1>7. cache' \in Stored(cache, cacheCap, e)
    OBVIOUS
  <1> HIDE DEF e
  <1>8. IsFiniteSet(cache') /\ Cardinality(cache') <= cacheCap /\ cache' \subseteq cache \cup {e}
    BY <1>7, StoredFacts DEF RedisIInv, TypeOK, EntriesOK
  <1>9. \A x \in cache' : EntryOK(x)
    BY <1>6, <1>8 DEF RedisIInv, EntriesOK
  <1>10. EntriesOK'
    BY <1>8, <1>9 DEF EntriesOK, EntryOK, KeptUnder, dataVars, registryVars
  <1>11. TypeOK'
    BY <1>5, <1>8 DEF RedisIInv, TypeOK, To, dataVars, switchVars, registryVars, loaderVars
  <1>12. CallOK(c)'
    BY <1>1 DEF CallOK, KeptUnder, SharedEntry, BorrowsTag,
        dataVars, switchVars, registryVars
  <1>13. \A d \in Callers \ {c} : pc'[d] = pc[d]
    BY DEF RedisIInv, TypeOK, To
  <1> QED
    BY <1>10, <1>11, <1>12, <1>13, CallerFrame

LEMMA CallerStepPreserves ==
    ASSUME RedisIInv, NEW c \in Callers, CallerStep(c),
           UNCHANGED <<dataVars, switchVars, registryVars, loaderVars>>
    PROVE  RedisIInv'
  <1>0. CallOK(c)
    BY DEF RedisIInv
  <1>1. CASE Ask(c)
    BY <1>1, AskPreserves
  <1>2. CASE AskService(c)
    BY <1>2, AskServicePreserves
  <1>3. CASE ResolveFails(c)
    BY <1>3, FailsPreserves DEF ResolveFails
  <1>4. CASE ReadGeneration(c)
    BY <1>4, ReadGenerationPreserves
  <1>5. CASE GetGlobal(c)
    <2>1. CASE globalEnabled
      <3>1. gen[c] # 0 /\ ~ off[c]
        BY <2>1, <1>0, <1>5 DEF CallOK, GetGlobal
      <3> QED
        BY <3>1, <2>1, <1>5, GoesOn DEF GetGlobal
    <2>2. CASE ~ globalEnabled
      BY <2>2, <1>5, GoesOn DEF GetGlobal
    <2> QED
      BY <2>1, <2>2
  <1>6. CASE GetEnabled(c)
    <2>1. gen[c] # 0 /\ ~ off[c]
      BY <1>0, <1>6 DEF CallOK, GetEnabled
    <2> QED
      BY <2>1, <1>6, GoesOn DEF GetEnabled
  <1>7. CASE Hit(c)
    BY <1>7, HitPreserves
  <1>8. CASE Miss(c)
    BY <1>8, GoesOn DEF Miss
  <1>9. CASE Expired(c)
    <2>1. gen[c] # 0 /\ ~ off[c]
      BY <1>0, <1>9 DEF CallOK, Expired
    <2> QED
      BY <2>1, <1>9, GoesOn DEF Expired
  <1>10. CASE PopExpired(c)
    BY <1>10, PopExpiredPreserves
  <1>11. CASE Command(c)
    BY <1>11, CommandPreserves
  <1>12. CASE CommandFails(c)
    BY <1>12, FailsPreserves DEF CommandFails
  <1>13. CASE PutGlobal(c)
    BY <1>13, GoesOn DEF PutGlobal
  <1>14. CASE PutEnabled(c)
    BY <1>14, GoesOn DEF PutEnabled
  <1>15. CASE Put(c)
    BY <1>15, PutPreserves
  <1> QED
    BY <1>1, <1>2, <1>3, <1>4, <1>5, <1>6, <1>7, <1>8, <1>9, <1>10, <1>11, <1>12,
       <1>13, <1>14, <1>15 DEF CallerStep

-----------------------------------------------------------------------------
(***************************************************************************)
(* Loads and the server                                                    *)
(***************************************************************************)

\* Callers notice a load only by generations that are new to them, and by the
\* switch; other loaders do not notice it at all, for a registration stands.
LEMMA LoaderFrame ==
    ASSUME RedisIInv, NEW i \in Loaders, NoticeSwitch,
           server' = server, generation' \in generation .. MaxGeneration,
           \A g \in 0 .. generation : born'[g] = born[g],
           registered # NoUrl => registered' = registered, ServicesStand,
           \A j \in Loaders \ {i} : lpc'[j] = lpc[j] /\ conf'[j] = conf[j],
           TypeOK', BornBehind', EntriesOK', RegistryOK', LoaderOK(i)'
    PROVE  RedisIInv'
  <1>1. ASSUME NEW j \in Loaders PROVE LoaderOK(j)'
    <2>1. CASE j = i
      BY <2>1
    <2>2. CASE j # i
      <3>1. LoaderOK(j) /\ lpc'[j] = lpc[j] /\ conf'[j] = conf[j]
        BY <2>2 DEF RedisIInv
      <3> QED
        BY <3>1 DEF LoaderOK
    <2> QED
      BY <2>1, <2>2
  <1>2. ASSUME NEW c \in Callers PROVE CallOK(c)'
    <2>1. /\ CallOK(c) /\ off'[c] = (off[c] /\ ~ globalEnabled')
          /\ UNCHANGED <<pc, call, gen, answer, answered, asked>>
      BY DEF RedisIInv, NoticeSwitch
    <2>2. gen[c] \in 0 .. generation /\ gen[c] \in 0 .. generation'
      BY <2>1 DEF CallOK, RedisIInv, TypeOK
    <2>3. born'[gen[c]] = born[gen[c]]
      BY <2>2
    <2> QED
      BY <2>1, <2>2, <2>3 DEF CallOK, ServicesStand, KeptUnder, SharedEntry, BorrowsTag
  <1> QED
    BY <1>1, <1>2 DEF RedisIInv

\* A step of a load that changes neither data nor cache nor registry.
LEMMA LoaderMoves ==
    ASSUME RedisIInv, NEW i \in Loaders, NoticeSwitch, NEW label, Goes(i, label),
           label \in {"idle", "install", "switch", "connect", "register",
                      "newcache", "global", "fun", "loaded"},
           conf' \in [Loaders -> ConfType], \A j \in Loaders \ {i} : conf'[j] = conf[j],
           UNCHANGED <<dataVars, cacheVars, registryVars>>,
           resultEnabled' \in BOOLEAN, globalEnabled' \in BOOLEAN,
           label \in {"connect", "register", "newcache", "global", "fun"} =>
              conf'[i] \in Confs /\ conf'[i].url # NoUrl,
           label \in {"newcache", "global", "fun"} => registered = conf'[i].url
    PROVE  RedisIInv'
  <1>1. TypeOK'
    <2>1. off' \in [Callers -> BOOLEAN]
      BY DEF NoticeSwitch
    <2> QED
      BY <2>1 DEF RedisIInv, TypeOK, Goes, NoticeSwitch, dataVars, cacheVars, registryVars
  <1>2. BornBehind' /\ EntriesOK' /\ RegistryOK'
    BY DEF RedisIInv, BornBehind, EntriesOK, EntryOK, KeptUnder, RegistryOK, ServicesMatchPool,
           dataVars, cacheVars, registryVars
  <1>3. lpc'[i] = label
    BY DEF RedisIInv, TypeOK, Goes
  <1>4. LoaderOK(i)'
    BY <1>3 DEF LoaderOK, registryVars
  <1>5. \A j \in Loaders \ {i} : lpc'[j] = lpc[j] /\ conf'[j] = conf[j]
    BY DEF RedisIInv, TypeOK, Goes
  <1>6. /\ server' = server /\ generation' \in generation .. MaxGeneration
        /\ \A g \in 0 .. generation : born'[g] = born[g]
        /\ registered' = registered /\ ServicesStand
    BY DEF RedisIInv, TypeOK, ServicesStand, dataVars, registryVars
  <1> QED
    BY <1>1, <1>2, <1>4, <1>5, <1>6, LoaderFrame

LEMMA ReturnsPreserves ==
    ASSUME RedisIInv, NEW i \in Loaders, NoticeSwitch, Returns(i),
           UNCHANGED <<dataVars, switchVars, cacheVars, registryVars>>
    PROVE  RedisIInv'
  <1>1. resultEnabled' \in BOOLEAN /\ globalEnabled' \in BOOLEAN
    BY DEF RedisIInv, TypeOK, switchVars
  <1>2. /\ Goes(i, "idle") /\ conf' \in [Loaders -> ConfType]
        /\ \A j \in Loaders \ {i} : conf'[j] = conf[j]
    BY NullConfType DEF Returns, RedisIInv, TypeOK
  <1>3. UNCHANGED <<dataVars, cacheVars, registryVars>>
    OBVIOUS
  <1> QED
    BY <1>1, <1>2, <1>3, LoaderMoves

LEMMA BeginLoadPreserves ==
    ASSUME RedisIInv, NEW i \in Loaders, NoticeSwitch, BeginLoad(i)
    PROVE  RedisIInv'
  <1>1. PICK cf \in Confs :
           /\ conf' = [conf EXCEPT ![i] = cf]
           /\ Goes(i, IF cf.sqldb \/ cf.url = NoUrl THEN "install" ELSE "connect")
    BY DEF BeginLoad
  <1>2. /\ conf' \in [Loaders -> ConfType] /\ conf'[i] = cf
        /\ \A j \in Loaders \ {i} : conf'[j] = conf[j]
    BY <1>1, ConfsAssumption DEF RedisIInv, TypeOK
  <1>3. resultEnabled' \in BOOLEAN /\ globalEnabled' \in BOOLEAN
    BY DEF RedisIInv, TypeOK, switchVars, BeginLoad
  <1>4. UNCHANGED <<dataVars, cacheVars, registryVars>>
    BY DEF BeginLoad
  <1>5. CASE cf.sqldb \/ cf.url = NoUrl
    <2>1. Goes(i, "install")
      BY <1>1, <1>5
    <2> QED
      BY <2>1, <1>2, <1>3, <1>4, LoaderMoves
  <1>6. CASE ~ (cf.sqldb \/ cf.url = NoUrl)
    <2>1. Goes(i, "connect") /\ cf \in Confs /\ cf.url # NoUrl
      BY <1>1, <1>6
    <2> QED
      BY <2>1, <1>2, <1>3, <1>4, LoaderMoves
  <1> QED
    BY <1>5, <1>6

\* The new generation begins with what Redis says now; no entry is under it yet.
LEMMA InstallDefaultPreserves ==
    ASSUME RedisIInv, NEW i \in Loaders, NoticeSwitch, InstallDefault(i)
    PROVE  RedisIInv'
  <1> USE DEF InstallDefault
  <1>1. /\ generation \in Nat /\ generation' = generation + 1
        /\ generation' \in generation .. MaxGeneration
        /\ generation' \in 0 .. MaxGeneration
    BY RedisBounds DEF RedisIInv, TypeOK
  <1>2. /\ born' \in [0 .. MaxGeneration -> [Questions -> Nat]]
        /\ born'[generation + 1] = server
        /\ \A g \in 0 .. MaxGeneration : g # generation + 1 => born'[g] = born[g]
    BY <1>1 DEF RedisIInv, TypeOK
  <1>3. \A g \in 0 .. generation : born'[g] = born[g]
    BY <1>1, <1>2
  <1>4. TypeOK'
    <2>1. off' \in [Callers -> BOOLEAN]
      BY DEF NoticeSwitch
    <2> QED
      BY <1>1, <1>2, <2>1
      DEF RedisIInv, TypeOK, Goes, NoticeSwitch, cacheVars, switchVars, registryVars
  <1>5. BornBehind'
    <2> SUFFICES ASSUME NEW g \in 0 .. MaxGeneration, NEW q \in Questions
                 PROVE  born'[g][q] <= server[q]
      BY DEF BornBehind
    <2>1. server[q] \in Nat /\ born[g][q] <= server[q]
      BY DEF RedisIInv, TypeOK, BornBehind
    <2> QED
      BY <2>1, <1>2
  <1>6. EntriesOK'
    <2>1. IsFiniteSet(cache') /\ cache' = cache
      BY DEF RedisIInv, EntriesOK, cacheVars
    <2>2. ASSUME NEW e \in cache PROVE EntryOK(e)'
      <3>1. EntryOK(e)
        BY DEF RedisIInv, EntriesOK
      <3>2. e.key.generation \in 0 .. generation /\ e.key.generation \in 0 .. generation'
        BY <3>1, <1>1 DEF EntryOK
      <3>3. born'[e.key.generation] = born[e.key.generation]
        BY <3>2, <1>3
      <3> QED
        BY <3>1, <3>2, <3>3 DEF EntryOK, KeptUnder, registryVars
    <2> QED
      BY <2>1, <2>2 DEF EntriesOK
  <1>7. RegistryOK'
    BY DEF RedisIInv, RegistryOK, ServicesMatchPool, registryVars
  <1>8. LoaderOK(i)' /\ \A j \in Loaders \ {i} : lpc'[j] = lpc[j] /\ conf'[j] = conf[j]
    BY DEF RedisIInv, TypeOK, LoaderOK, Goes
  <1>9. server' = server /\ registered' = registered /\ ServicesStand
    BY DEF ServicesStand, registryVars
  <1> QED
    BY <1>1, <1>3, <1>4, <1>5, <1>6, <1>7, <1>8, <1>9, LoaderFrame

LEMMA RegisterPreserves ==
    ASSUME RedisIInv, NEW i \in Loaders, NoticeSwitch, Register(i)
    PROVE  RedisIInv'
  <1> USE DEF Register
  <1> DEFINE u == conf[i].url
  <1>1. LoaderOK(i) /\ lpc[i] = "register" /\ conf[i] \in Confs /\ u # NoUrl
    BY DEF RedisIInv, LoaderOK
  <1>2. u \in Urls
    BY <1>1, ConfsAssumption DEF ConfType
  <1>3. /\ pools' \in [Urls -> Loaders \cup {NoUrl}] /\ pools'[u] # NoUrl
        /\ registered' = u
    BY <1>2, ConfsAssumption DEF RedisIInv, TypeOK
  <1>4. TypeOK'
    <2>1. off' \in [Callers -> BOOLEAN]
      BY DEF NoticeSwitch
    <2> QED
      BY <1>2, <1>3, <2>1
      DEF RedisIInv, TypeOK, Goes, NoticeSwitch, dataVars, cacheVars, switchVars
  <1>5. BornBehind' /\ EntriesOK'
    BY DEF RedisIInv, BornBehind, EntriesOK, EntryOK, KeptUnder, dataVars, cacheVars
  <1>6. RegistryOK'
    <2>1. funMap' = funMap /\ funMap = NoService
      BY DEF RedisIInv, RegistryOK
    <2> QED
      BY <2>1, <1>3 DEF RegistryOK, ServicesMatchPool
  <1>7. LoaderOK(i)' /\ \A j \in Loaders \ {i} : lpc'[j] = lpc[j] /\ conf'[j] = conf[j]
    BY <1>1, <1>3 DEF RedisIInv, TypeOK, LoaderOK, Goes
  <1>8. /\ server' = server /\ generation' \in generation .. MaxGeneration
        /\ \A g \in 0 .. generation : born'[g] = born[g]
        /\ ServicesStand
    BY DEF RedisIInv, TypeOK, ServicesStand, dataVars
  <1> QED
    BY <1>4, <1>5, <1>6, <1>7, <1>8, LoaderFrame

LEMMA NewRedisCachePreserves ==
    ASSUME RedisIInv, NEW i \in Loaders, NoticeSwitch, NewRedisCache(i)
    PROVE  RedisIInv'
  <1> USE DEF NewRedisCache
  <1>1. IsFiniteSet(cache') /\ Cardinality(cache') = 0 /\ cache' = {}
    BY FS_EmptySet
  <1>2. cacheCap' \in Nat \ {0}
    <2>1. conf[i].capacity \in Nat
      BY DEF RedisIInv, TypeOK, ConfType
    <2> QED
      BY <2>1
  <1>3. TypeOK'
    <2>1. off' \in [Callers -> BOOLEAN]
      BY DEF NoticeSwitch
    <2> QED
      BY <1>1, <1>2, <2>1
      DEF RedisIInv, TypeOK, Goes, NoticeSwitch, dataVars, switchVars, registryVars
  <1>4. BornBehind' /\ EntriesOK' /\ RegistryOK'
    BY <1>1 DEF RedisIInv, BornBehind, EntriesOK, RegistryOK, ServicesMatchPool,
                dataVars, registryVars
  <1>5. LoaderOK(i)' /\ \A j \in Loaders \ {i} : lpc'[j] = lpc[j] /\ conf'[j] = conf[j]
    <2>1. LoaderOK(i) /\ lpc'[i] = "global" /\ conf' = conf
      BY DEF RedisIInv, TypeOK, Goes
    <2> QED
      BY <2>1 DEF RedisIInv, TypeOK, LoaderOK, Goes, registryVars
  <1>6. /\ server' = server /\ generation' \in generation .. MaxGeneration
        /\ \A g \in 0 .. generation : born'[g] = born[g]
        /\ registered' = registered /\ ServicesStand
    BY DEF RedisIInv, TypeOK, ServicesStand, dataVars, registryVars
  <1> QED
    BY <1>3, <1>4, <1>5, <1>6, LoaderFrame

\* The services are those of a load whose url is the registered one.
LEMMA RegisterFunMapPreserves ==
    ASSUME RedisIInv, NEW i \in Loaders, NoticeSwitch, RegisterFunMap(i)
    PROVE  RedisIInv'
  <1> USE DEF RegisterFunMap
  <1>1. LoaderOK(i) /\ conf[i] \in Confs /\ conf[i].url # NoUrl /\ registered = conf[i].url
    BY DEF RedisIInv, LoaderOK
  <1>2. funMap' \in {NoService} \cup [Services -> SpecType \cup {NoService}]
    <2>1. conf[i].fun \in [Services -> SpecType \cup {NoService}]
      BY DEF RedisIInv, TypeOK, ConfType
    <2> QED
      BY <2>1 DEF RedisIInv, TypeOK
  <1>3. TypeOK'
    <2>1. off' \in [Callers -> BOOLEAN]
      BY DEF NoticeSwitch
    <2> QED
      BY <1>2, <2>1 DEF RedisIInv, TypeOK, Goes, NoticeSwitch, dataVars, switchVars, cacheVars
  <1>4. BornBehind' /\ EntriesOK'
    <2>1. ServicesStand
      BY DEF ServicesStand
    <2>2. ASSUME NEW e \in cache PROVE EntryOK(e)'
      BY <2>1, KeptUnderStands DEF RedisIInv, EntriesOK, EntryOK, dataVars
    <2> QED
      BY <2>2 DEF RedisIInv, BornBehind, EntriesOK, dataVars, cacheVars
  <1>5. RegistryOK'
    BY <1>1 DEF RedisIInv, RegistryOK, ServicesMatchPool
  <1>6. LoaderOK(i)' /\ \A j \in Loaders \ {i} : lpc'[j] = lpc[j] /\ conf'[j] = conf[j]
    BY DEF RedisIInv, TypeOK, LoaderOK, Goes
  <1>7. /\ server' = server /\ generation' \in generation .. MaxGeneration
        /\ \A g \in 0 .. generation : born'[g] = born[g]
        /\ registered' = registered /\ ServicesStand
    BY DEF RedisIInv, TypeOK, ServicesStand, dataVars
  <1> QED
    BY <1>3, <1>4, <1>5, <1>6, <1>7, LoaderFrame

LEMMA LoaderStepPreserves ==
    ASSUME RedisIInv, NEW i \in Loaders, LoaderStep(i), NoticeSwitch
    PROVE  RedisIInv'
  <1>0. /\ LoaderOK(i) /\ conf \in [Loaders -> ConfType] /\ conf[i].enabled \in BOOLEAN
        /\ resultEnabled \in BOOLEAN /\ globalEnabled \in BOOLEAN
    BY DEF RedisIInv, TypeOK, ConfType
  <1>1. CASE BeginLoad(i)
    BY <1>1, BeginLoadPreserves
  <1>2. CASE InstallDefault(i)
    BY <1>2, InstallDefaultPreserves
  <1>3. CASE StoreResultEnabled(i)
    BY <1>0, <1>3, LoaderMoves DEF StoreResultEnabled
  <1>4. CASE Connect(i)
    <2>1. conf[i] \in Confs /\ conf[i].url # NoUrl
      BY <1>0, <1>4 DEF Connect, LoaderOK
    <2> QED
      BY <2>1, <1>0, <1>4, LoaderMoves DEF Connect, switchVars
  <1>5. CASE LoadFails(i)
    BY <1>5, ReturnsPreserves DEF LoadFails
  <1>6. CASE Register(i)
    BY <1>6, RegisterPreserves
  <1>7. CASE AlreadyRegistered(i)
    BY <1>7, ReturnsPreserves DEF AlreadyRegistered
  <1>8. CASE NewRedisCache(i)
    BY <1>8, NewRedisCachePreserves
  <1>9. CASE StoreGlobalEnabled(i)
    <2>1. conf[i] \in Confs /\ conf[i].url # NoUrl /\ registered = conf[i].url
      BY <1>0, <1>9 DEF StoreGlobalEnabled, LoaderOK
    <2> QED
      BY <2>1, <1>0, <1>9, LoaderMoves DEF StoreGlobalEnabled
  <1>10. CASE RegisterFunMap(i)
    BY <1>10, RegisterFunMapPreserves
  <1>11. CASE EndLoad(i)
    BY <1>11, ReturnsPreserves DEF EndLoad
  <1> QED
    BY <1>1, <1>2, <1>3, <1>4, <1>5, <1>6, <1>7, <1>8, <1>9, <1>10, <1>11, <1>0
    DEF LoaderStep

\* An answer of Redis only gets younger.
LEMMA ServerChangesPreserves ==
    ASSUME RedisIInv, NEW q \in Changing, ServerChanges(q),
           UNCHANGED <<switchVars, cacheVars, registryVars, loaderVars, callerVars>>
    PROVE  RedisIInv'
  <1> USE DEF ServerChanges, switchVars, cacheVars, registryVars, loaderVars, callerVars
  <1>1. q \in Questions
    BY QuestionsAssumption
  <1>2. /\ server' \in [Questions -> Nat]
        /\ \A r \in Questions : server[r] \in Nat /\ server'[r] \in Nat /\ server[r] <= server'[r]
    BY <1>1 DEF RedisIInv, TypeOK
  <1>3. TypeOK'
    BY <1>2 DEF RedisIInv, TypeOK
  <1>4. BornBehind'
    BY <1>2 DEF RedisIInv, TypeOK, BornBehind
  <1>5. EntriesOK' /\ RegistryOK' /\ \A i \in Loaders : LoaderOK(i)'
    BY DEF RedisIInv, EntriesOK, EntryOK, KeptUnder, RegistryOK, ServicesMatchPool, LoaderOK
  <1>6. ASSUME NEW c \in Callers PROVE CallOK(c)'
    <2>1. CallOK(c) /\ asked[c] \in Nat
      BY DEF RedisIInv, TypeOK
    <2>2. asked[c] <= server'[call[c].q]
      BY <2>1, <1>2 DEF CallOK
    <2> QED
      BY <2>1, <2>2 DEF CallOK, KeptUnder, SharedEntry, BorrowsTag
  <1> QED
    BY <1>3, <1>4, <1>5, <1>6 DEF RedisIInv

LEMMA RedisStep == RedisIInv /\ [Next]_vars => RedisIInv'
  <1> SUFFICES ASSUME RedisIInv, [Next]_vars PROVE RedisIInv'
    OBVIOUS
  <1>1. CASE \E i \in Loaders : LoaderStep(i) /\ NoticeSwitch
    BY <1>1, LoaderStepPreserves
  <1>2. CASE \E c \in Callers :
               CallerStep(c) /\ UNCHANGED <<dataVars, switchVars, registryVars, loaderVars>>
    BY <1>2, CallerStepPreserves
  <1>3. CASE \E q \in Changing :
               /\ ServerChanges(q)
               /\ UNCHANGED <<switchVars, cacheVars, registryVars, loaderVars, callerVars>>
    BY <1>3, ServerChangesPreserves
  <1>4. CASE UNCHANGED vars
    BY <1>4 DEF RedisIInv, TypeOK, BornBehind, EntriesOK, EntryOK, KeptUnder, SharedEntry, BorrowsTag, RegistryOK,
                ServicesMatchPool, LoaderOK, CallOK, vars, dataVars, switchVars,
                cacheVars, registryVars, loaderVars, callerVars
  <1> QED
    BY <1>1, <1>2, <1>3, <1>4 DEF Next

LEMMA RedisInvariant == Spec => []RedisIInv
  BY RedisInitially, RedisStep, PTL DEF Spec

-----------------------------------------------------------------------------
(***************************************************************************)
(* Theorems                                                                *)
(***************************************************************************)

\* The services of [fun] are those of the load whose pool answers them, and the
\* Redis cache stays within its capacity, whichever loads and lookups race
\* (RedisRegistry::register, register_fun_map, save_redis_cache).
THEOREM ServicesOfThePool == Spec => []ServicesInv
  <1>1. RedisIInv => ServicesInv
    BY DEF RedisIInv, RegistryOK, ServicesInv
  <1> QED
    BY <1>1, RedisInvariant, PTL

\* No lookup returns what Redis said before the generation it read began
\* (redis_cache_key has the generation; facade.rs reads it before the cache).
THEOREM LookupsOfTheirGeneration == Spec => []AnswerOfThisGeneration
  <1>1. RedisIInv => AnswerOfThisGeneration
    BY DEF RedisIInv, TypeOK, CallOK, AnswerOfThisGeneration
  <1> QED
    BY <1>1, RedisInvariant, PTL

\* A lookup that found the Redis cache off all along answers with what Redis
\* says (redis_cache_get's check of redis_global_enabled).
THEOREM DisabledCacheIsBypassed == Spec => []DisabledBypassesCache
  <1>1. RedisIInv => DisabledBypassesCache
    BY DEF RedisIInv, TypeOK, CallOK, DisabledBypassesCache
  <1> QED
    BY <1>1, RedisInvariant, PTL

\* A lookup gets the answer to its own question, or that of the other command of
\* its result type to the same key and argument, and then only because a cached
\* sismember or hget service shares the entry (the tags of facade.rs:431 and 453).
THEOREM LookupsAnswerTheirQuestion == Spec => []AnswerFitsQuestion
  <1>1. RedisIInv => AnswerFitsQuestion
    BY DEF RedisIInv, CallOK, SharedEntry, AnswerFitsQuestion
  <1> QED
    BY <1>1, RedisInvariant, PTL

\* The first registration of "knowdb" stands, and its pool is not exchanged.
THEOREM PoolStands == Spec => PoolIsStable
  <1>1. RedisIInv /\ [Next]_vars =>
          [registered # NoUrl => /\ registered' = registered
                                 /\ pools[registered] # NoUrl
                                 /\ pools'[registered] = pools[registered]]_vars
    <2> SUFFICES ASSUME RedisIInv, Next, registered # NoUrl
                 PROVE  registered' = registered /\ pools[registered] # NoUrl
                        /\ pools'[registered] = pools[registered]
      OBVIOUS
    <2>1. pools[registered] # NoUrl
      BY DEF RedisIInv, RegistryOK
    <2>2. CASE \E i \in Loaders : LoaderStep(i) /\ NoticeSwitch
      BY <2>1, <2>2
      DEF LoaderStep, BeginLoad, InstallDefault, StoreResultEnabled, Connect, LoadFails,
          Register, AlreadyRegistered, NewRedisCache, StoreGlobalEnabled, RegisterFunMap,
          EndLoad, registryVars
    <2> QED
      BY <2>1, <2>2 DEF Next, registryVars
  <1> QED
    BY <1>1, RedisInvariant, PTL DEF Spec, PoolIsStable
=============================================================================
