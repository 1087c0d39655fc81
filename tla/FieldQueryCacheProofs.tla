------------------------ MODULE FieldQueryCacheProofs -----------------------
(***************************************************************************)
(* Proofs about FieldQueryCache, for any scopes, values and tables, any    *)
(* limit of the interning tables and any capacity of the cache.            *)
(***************************************************************************)
EXTENDS FieldQueryCache, TLAPS, SequenceTheorems

\* NumbersDistinct of any cache.
Distinct(c) ==
    \A k, l \in Keys : c.idx[k] # 0 =>
        /\ c.idx[k] <= c.idx_num
        /\ c.idx[k] = c.idx[l] => k = l

\* LabelledRowsHonest of any cache.
Honest(c) ==
    \A e \in c.data : c.generations[e.scope] # 0 /\ e.scope \in Prepared =>
        /\ e.row.scope = e.scope
        /\ Len(e.idxs) = Len(e.row.params)
        /\ \A k \in 1 .. Len(e.idxs) : e.idxs[k] = GetIdx(c, e.row.params[k])
        /\ c.generations[e.scope] <= e.row.generation
        /\ e.row.generation <= generation[e.scope]

\* Labels and rows are of generations that have been.
LabelsBehind ==
    /\ \A s \in Scopes : local.generations[s] <= generation[s]
    /\ \A e \in local.data : generation[e.scope] # 0

\* What a call knows on its way: nothing is answered before its query, its
\* window is what was current since it began, and the scope it prepared has its
\* label, or none after a reset.
CallInv ==
    /\ pc \in {"lookup", "query"} => answer = NoRow
    /\ pc # "idle" => /\ call.label <= generation[call.scope]
                      /\ window = call.label .. generation[call.scope]
    /\ pc = "lookup" =>
         /\ local.generations[call.scope] <= call.label
         /\ call.label = 0 => \A e \in local.data : e.scope # call.scope
    /\ pc \in {"query", "intern"} /\ call.scope \in Prepared =>
         local.generations[call.scope] \in {0, call.label}

\* A row on its way into the cache is the call's own, with the numbers its
\* parameters have now, unless a reset has taken the label off.
SaveInv ==
    pc = "intern" =>
        /\ answer \in Row
        /\ answer.scope = call.scope /\ answer.params = call.params
        /\ call.label <= answer.generation /\ answer.generation <= generation[call.scope]
        /\ generation[call.scope] # 0
        /\ Len(idxs) <= Len(call.params)
        /\ call.scope \in Prepared /\ local.generations[call.scope] # 0 =>
             \A k \in 1 .. Len(idxs) :
                /\ idxs[k] = GetIdx(local, call.params[k])
                /\ InternKey[call.params[k]] # NoKey => idxs[k] # 0

PreparedAnswerMatches == call.scope \in Prepared => AnswerMatchesCall

\* The inductive invariant.
CacheIInv ==
    /\ CacheInv /\ LabelsBehind /\ CallInv /\ SaveInv
    /\ PreparedAnswerMatches /\ AnswerIsFresh

-----------------------------------------------------------------------------
(***************************************************************************)
(* The operations on the cache                                             *)
(***************************************************************************)

LEMMA TupleType ==
    ASSUME NEW ps \in Tuples
    PROVE  /\ ps \in Seq(Params) /\ Len(ps) \in Arities /\ Len(ps) \in Nat
           /\ \A k \in 1 .. Len(ps) : ps[k] \in Params
  <1>1. PICK n \in Arities : ps \in [1 .. n -> Params]
    BY DEF Tuples
  <1>2. n \in Nat
    BY LocalBounds
  <1>3. ps \in Seq(Params)
    BY <1>1, <1>2, SeqDef
  <1>4. Len(ps) = n
    BY <1>1, <1>2, <1>3, LenProperties
  <1> QED
    BY <1>1, <1>2, <1>3, <1>4

LEMMA TuplesExist == (CHOOSE ps \in Tuples : TRUE) \in Tuples
  <1>1. PICK n \in Arities, p \in Params : TRUE
    BY LocalBounds, InternAssumption
  <1>2. [k \in 1 .. n |-> p] \in Tuples
    BY <1>1 DEF Tuples
  <1> QED
    BY <1>2

LEMMA KeyType ==
    ASSUME NEW p \in Params, InternKey[p] # NoKey
    PROVE  InternKey[p] \in Keys
  BY DEF Keys

LEMMA GetIdxType ==
    ASSUME NEW c \in CacheType, NEW p \in Params
    PROVE  GetIdx(c, p) \in 0 .. MaxLocalIdx
  BY LocalBounds, KeyType DEF GetIdx, CacheType

\* EmptyCache is the cache after a reset, too: no numbers, rows or labels.
LEMMA EmptyCacheFacts ==
    /\ EmptyCache \in CacheType /\ Distinct(EmptyCache)
    /\ EmptyCache.data = {} /\ EmptyCache.idx_num = 0
    /\ \A k \in Keys : EmptyCache.idx[k] = 0
    /\ \A s \in Scopes : EmptyCache.generations[s] = 0
  BY LocalBounds DEF EmptyCache, CacheType, Distinct

\* Values with one nonzero number have one key.
LEMMA SameNumberSameKey ==
    ASSUME NEW c \in CacheType, Distinct(c), NEW p \in Params, NEW q \in Params,
           GetIdx(c, p) # 0, GetIdx(c, p) = GetIdx(c, q)
    PROVE  InternKey[p] = InternKey[q]
  BY KeyType DEF GetIdx, Distinct

\* try_up_idx gives its value a number, if the type has a table.  It keeps all
\* numbers, rows and labels, or a reset forgets all rows and labels.
LEMMA TryUpIdxFacts ==
    ASSUME NEW c \in CacheType, Distinct(c), NEW p \in Params
    PROVE  LET d == TryUpIdx(c, p)
           IN  /\ d \in CacheType /\ Distinct(d)
               /\ InternKey[p] # NoKey => GetIdx(d, p) # 0
               /\ \/ d.data = {} /\ \A s \in Scopes : d.generations[s] = 0
                  \/ /\ d.data = c.data /\ d.generations = c.generations
                     /\ \A q \in Params : GetIdx(c, q) # 0 => GetIdx(d, q) = GetIdx(c, q)
  <1> DEFINE r == ResetAtLimit(c)
             d == TryUpIdx(c, p)
  <1>1. /\ r \in CacheType /\ Distinct(r)
        /\ r.idx_num < MaxLocalIdx
        /\ r = c \/ (r.data = {} /\ \A s \in Scopes : r.generations[s] = 0)
    <2>1. CASE c.idx_num >= MaxLocalIdx
      BY <2>1, EmptyCacheFacts, LocalBounds DEF ResetAtLimit
    <2>2. CASE ~ (c.idx_num >= MaxLocalIdx)
      BY <2>2, LocalBounds DEF ResetAtLimit, CacheType
    <2> QED
      BY <2>1, <2>2
  <1>2. CASE InternKey[p] = NoKey \/ GetIdx(r, p) # 0
    BY <1>1, <1>2 DEF TryUpIdx
  <1>3. CASE InternKey[p] # NoKey /\ GetIdx(r, p) = 0
    <2> DEFINE key == InternKey[p]
               n == r.idx_num + 1
    <2>1. key \in Keys /\ r.idx[key] = 0
      BY <1>3, KeyType DEF GetIdx
    <2>2. d = [r EXCEPT !.idx_num = n, !.idx[key] = n]
      BY <1>3 DEF TryUpIdx
    <2>3. n \in 1 .. MaxLocalIdx /\ r.idx_num \in Nat /\ n > r.idx_num
      BY <1>1, LocalBounds DEF CacheType
    <2> HIDE DEF r, d, n, key
    <2>4. /\ d.data = r.data /\ d.generations = r.generations /\ d.idx_num = n
          /\ d.idx = [r.idx EXCEPT ![key] = n]
          /\ d \in CacheType
      <3>1. [r.idx EXCEPT ![key] = n] \in [Keys -> 0 .. MaxLocalIdx] /\ n \in 0 .. MaxLocalIdx
        BY <1>1, <2>1, <2>3, LocalBounds DEF CacheType
      <3>2. d = [idx |-> [r.idx EXCEPT ![key] = n], idx_num |-> n, data |-> r.data,
                 generations |-> r.generations]
        BY <1>1, <2>2 DEF CacheType
      <3> QED
        BY <1>1, <3>1, <3>2 DEF CacheType
    <2>5. \A k \in Keys : d.idx[k] = IF k = key THEN n ELSE r.idx[k]
      BY <1>1, <2>1, <2>4 DEF CacheType
    <2>6. \A k \in Keys : r.idx[k] \in Nat
      BY <1>1, LocalBounds DEF CacheType
    <2>7. Distinct(d)
      BY <1>1, <2>3, <2>4, <2>5, <2>6 DEF Distinct
    <2>8. GetIdx(d, p) # 0
      BY <1>3, <2>1, <2>3, <2>5 DEF GetIdx, key
    <2>9. \A q \in Params : GetIdx(r, q) # 0 => GetIdx(d, q) = GetIdx(r, q)
      BY <2>1, <2>5, KeyType DEF GetIdx
    <2> QED
      BY <1>1, <2>4, <2>7, <2>8, <2>9 DEF d
  <1> QED
    BY <1>2, <1>3

LEMMA PutEntries ==
    ASSUME NEW es, NEW e, NEW res \in Put(es, e)
    PROVE  res \subseteq es \cup {e}
  BY DEF Put

\* A scope is labelled, and emptied if it had another label or none.
LEMMA PrepareFacts ==
    ASSUME NEW c \in CacheType, NEW s \in Scopes, NEW g \in Nat, NEW d,
           d = PrepareGeneration(c, s, g)
    PROVE  /\ d \in CacheType
           /\ d.idx = c.idx /\ d.idx_num = c.idx_num
           /\ d.data \subseteq c.data
           /\ \A u \in Scopes : d.generations[u] = IF u = s THEN g ELSE c.generations[u]
           /\ c.generations[s] # g => \A e \in d.data : e.scope # s
  <1>1. CASE c.generations[s] = g
    BY <1>1 DEF PrepareGeneration, CacheType
  <1>2. CASE c.generations[s] # g
    <2> DEFINE kept == {e \in c.data : e.scope # s}
    <2>1. d = [c EXCEPT !.generations[s] = g, !.data = kept]
      BY <1>2 DEF PrepareGeneration
    <2>2. kept \in SUBSET Entry /\ kept \subseteq c.data /\ \A e \in kept : e.scope # s
      BY DEF CacheType
    <2> HIDE DEF kept
    <2>3. /\ d \in CacheType /\ d.data = kept
          /\ d.idx = c.idx /\ d.idx_num = c.idx_num
          /\ d.generations = [c.generations EXCEPT ![s] = g]
      BY <2>1, <2>2 DEF CacheType
    <2>4. \A u \in Scopes : d.generations[u] = IF u = s THEN g ELSE c.generations[u]
      BY <2>3 DEF CacheType
    <2> QED
      BY <2>2, <2>3, <2>4
  <1> QED
    BY <1>1, <1>2

-----------------------------------------------------------------------------
(***************************************************************************)
(* The steps                                                               *)
(***************************************************************************)

LEMMA EntryType ==
    ASSUME NEW e \in Entry
    PROVE  /\ e.scope \in Scopes /\ e.row \in Row /\ e.row.generation \in Nat
           /\ e.row.params \in Tuples
           /\ e.idxs \in Seq(Nat) /\ Len(e.idxs) \in Nat
           /\ \A k \in 1 .. Len(e.idxs) : e.idxs[k] \in Nat \ {0}
  <1>1. e.scope \in Scopes /\ e.row \in Row
    BY DEF Entry
  <1>2. e.row.generation \in Nat /\ e.row.params \in Tuples
    BY <1>1 DEF Row
  <1>3. PICK n \in Arities : e.idxs \in [1 .. n -> Nat \ {0}]
    BY DEF Entry
  <1>4. n \in Nat
    BY LocalBounds
  <1>5. e.idxs \in Seq(Nat \ {0}) /\ Len(e.idxs) = n
    BY <1>3, <1>4, SeqDef, LenProperties
  <1>6. e.idxs \in Seq(Nat)
    BY <1>5, SeqMonotonic
  <1> QED
    BY <1>1, <1>2, <1>3, <1>4, <1>5, <1>6

LEMMA CacheInvInit == Init => CacheIInv
  <1> SUFFICES ASSUME Init PROVE CacheIInv
    OBVIOUS
  <1>1. (CHOOSE s \in Scopes : TRUE) \in Scopes
    BY ScopesAssumption
  <1>2. call \in [scope : Scopes, params : Tuples, label : Nat]
    BY <1>1, TuplesExist DEF Init, NoCall
  <1>3. TypeOK
    BY <1>2, EmptyCacheFacts DEF Init, TypeOK
  <1>4. NumbersDistinct /\ LabelledRowsHonest /\ LabelsBehind
    BY EmptyCacheFacts DEF Init, NumbersDistinct, LabelledRowsHonest, LabelsBehind
  <1> QED
    BY <1>3, <1>4 DEF Init, CacheIInv, CacheInv, CallInv, SaveInv, PreparedAnswerMatches,
                      AnswerMatchesCall, AnswerIsFresh

LEMMA LoadInv ==
    ASSUME CacheIInv, NEW s \in Scopes, Load(s)
    PROVE  CacheIInv'
  <1> USE DEF CacheIInv, CacheInv
  <1>1. /\ UNCHANGED <<local, pc, call, answer, idxs>>
        /\ generation' \in [Scopes -> Nat]
        /\ \A u \in Scopes : generation'[u] = IF u = s THEN generation[u] + 1 ELSE generation[u]
        /\ window' = IF call.scope = s THEN window \cup {generation[s] + 1} ELSE window
    BY DEF Load, TypeOK
  <1>2. \A u \in Scopes : /\ generation[u] \in Nat /\ generation'[u] \in Nat
                          /\ generation[u] <= generation'[u]
    BY <1>1 DEF TypeOK
  <1>3. call.scope \in Scopes /\ call.label \in Nat
    BY DEF TypeOK
  <1>4. \A e \in local.data : e \in Entry /\ e.scope \in Scopes /\ e.row.generation \in Nat
    BY EntryType DEF TypeOK, CacheType
  <1>5. \A u \in Scopes : local.generations[u] \in Nat
    BY DEF TypeOK, CacheType
  <1>6. TypeOK'
    <2>1. window' \subseteq Nat
      BY <1>1, <1>2 DEF TypeOK
    <2> QED
      BY <1>1, <2>1 DEF TypeOK
  <1>7. NumbersDistinct'
    BY <1>1 DEF NumbersDistinct
  <1>8. LabelledRowsHonest'
    BY <1>1, <1>2, <1>4 DEF LabelledRowsHonest, GetIdx
  <1>9. LabelsBehind'
    BY <1>1, <1>2, <1>4, <1>5 DEF LabelsBehind
  <1>10. CallInv'
    <2>1. ASSUME pc # "idle"
          PROVE  /\ call.label <= generation'[call.scope]
                 /\ window' = call.label .. generation'[call.scope]
      <3>1. call.label <= generation[call.scope] /\ window = call.label .. generation[call.scope]
        BY <2>1 DEF CallInv
      <3>2. CASE call.scope = s
        <4>1. generation'[s] = generation[s] + 1 /\ window' = window \cup {generation[s] + 1}
          BY <1>1, <3>2
        <4> QED
          BY <1>2, <1>3, <3>1, <3>2, <4>1
      <3>3. CASE call.scope # s
        BY <1>1, <1>3, <3>1, <3>3
      <3> QED
        BY <3>2, <3>3
    <2> QED
      BY <1>1, <2>1 DEF CallInv
  <1>11. SaveInv'
    <2> SUFFICES ASSUME pc = "intern"
                 PROVE  /\ answer.generation <= generation'[call.scope]
                        /\ generation'[call.scope] # 0
      BY <1>1 DEF SaveInv, GetIdx
    <2>1. answer.generation \in Nat
      BY DEF SaveInv, Row
    <2> QED
      BY <1>2, <1>3, <2>1 DEF SaveInv
  <1>12. PreparedAnswerMatches' /\ AnswerIsFresh'
    BY <1>1 DEF PreparedAnswerMatches, AnswerMatchesCall, SameKeys, AnswerIsFresh
  <1> QED
    BY <1>6, <1>7, <1>8, <1>9, <1>10, <1>11, <1>12

LEMMA BeginInv ==
    ASSUME CacheIInv, NEW s \in Scopes, NEW ps \in Tuples, Begin(s, ps)
    PROVE  CacheIInv'
  <1> USE DEF CacheIInv, CacheInv
  <1>1. /\ UNCHANGED <<generation, local, idxs>> /\ pc' = "lookup" /\ answer' = NoRow
        /\ call' = [scope |-> s, params |-> ps, label |-> generation[s]]
        /\ window' = {generation[s]} /\ generation[s] \in Nat
    BY DEF Begin, TypeOK
  <1>2. TypeOK'
    BY <1>1 DEF TypeOK
  <1>3. NumbersDistinct' /\ LabelledRowsHonest' /\ LabelsBehind'
    BY <1>1 DEF NumbersDistinct, LabelledRowsHonest, LabelsBehind, GetIdx
  <1>4. CallInv'
    BY <1>1 DEF CallInv, LabelsBehind
  <1>5. SaveInv' /\ PreparedAnswerMatches' /\ AnswerIsFresh'
    BY <1>1 DEF SaveInv, PreparedAnswerMatches, AnswerMatchesCall, AnswerIsFresh
  <1> QED
    BY <1>2, <1>3, <1>4, <1>5

\* The cache that a lookup sees.
LEMMA AnnouncedFacts ==
    ASSUME CacheIInv, pc = "lookup"
    PROVE  /\ Announced \in CacheType /\ Distinct(Announced) /\ Honest(Announced)
           /\ \A s \in Scopes : Announced.generations[s] <= generation[s]
           /\ Announced.data \subseteq local.data
           /\ call.scope \in Prepared => Announced.generations[call.scope] = call.label
           /\ call.label = 0 => \A e \in Announced.data : e.scope # call.scope
  <1> USE DEF CacheIInv, CacheInv
  <1>1. /\ local \in CacheType /\ call.scope \in Scopes /\ call.label \in Nat
        /\ generation \in [Scopes -> Nat]
    BY DEF TypeOK
  <1>2. /\ local.generations[call.scope] <= call.label
        /\ call.label = 0 => \A e \in local.data : e.scope # call.scope
        /\ call.label <= generation[call.scope]
    BY DEF CallInv
  <1>3. Distinct(local) /\ Honest(local) /\ \A s \in Scopes : local.generations[s] <= generation[s]
    BY DEF NumbersDistinct, Distinct, LabelledRowsHonest, Honest, LabelsBehind
  <1>4. CASE ~ (call.scope \in Prepared /\ call.label # 0)
    <2>1. Announced = local
      BY <1>4 DEF Announced
    <2>2. local.generations[call.scope] \in Nat
      BY <1>1 DEF CacheType
    <2> QED
      BY <1>1, <1>2, <1>3, <1>4, <2>1, <2>2
  <1>5. CASE call.scope \in Prepared /\ call.label # 0
    <2> DEFINE d == Announced
    <2>1. d = PrepareGeneration(local, call.scope, call.label)
      BY <1>5 DEF Announced
    <2> HIDE DEF d
    <2>2. /\ d \in CacheType
          /\ d.idx = local.idx /\ d.idx_num = local.idx_num
          /\ d.data \subseteq local.data
          /\ \A u \in Scopes : d.generations[u] = IF u = call.scope THEN call.label
                                                   ELSE local.generations[u]
          /\ local.generations[call.scope] # call.label => \A e \in d.data : e.scope # call.scope
      <3> HIDE DEF CacheIInv, CacheInv
      <3> DEFINE sc == call.scope
                 lb == call.label
      <3>1. local \in CacheType /\ sc \in Scopes /\ lb \in Nat /\ d = PrepareGeneration(local, sc, lb)
        BY <1>1, <2>1
      <3> HIDE DEF sc, lb
      <3>2. /\ d \in CacheType
            /\ d.idx = local.idx /\ d.idx_num = local.idx_num
            /\ d.data \subseteq local.data
            /\ \A u \in Scopes : d.generations[u] = IF u = sc THEN lb ELSE local.generations[u]
            /\ local.generations[sc] # lb => \A e \in d.data : e.scope # sc
        BY <3>1, PrepareFacts
      <3> QED
        BY <3>2 DEF sc, lb
    <2>3. Distinct(d)
      BY <1>3, <2>2 DEF Distinct
    <2>4. \A e \in d.data : e \in local.data /\ e.scope \in Scopes
                           /\ d.generations[e.scope] = local.generations[e.scope]
      BY <1>1, <2>2, EntryType DEF CacheType
    <2>5. \A p : GetIdx(d, p) = GetIdx(local, p)
      BY <2>2 DEF GetIdx
    <2>6. Honest(d)
      BY <1>3, <2>4, <2>5 DEF Honest
    <2> QED
      BY <1>1, <1>2, <1>3, <1>5, <2>2, <2>3, <2>6 DEF d
  <1> QED
    BY <1>4, <1>5

\* The cache that a lookup leaves, whatever it found.
LEMMA LookupCacheInv ==
    ASSUME CacheIInv, pc = "lookup", local' = Announced, UNCHANGED <<generation, call>>
    PROVE  NumbersDistinct' /\ LabelledRowsHonest' /\ LabelsBehind'
  <1>1. Distinct(local') /\ Honest(local')
    BY AnnouncedFacts
  <1>2. NumbersDistinct' /\ LabelledRowsHonest'
    BY <1>1 DEF Distinct, Honest, NumbersDistinct, LabelledRowsHonest
  <1>3. LabelsBehind'
    BY AnnouncedFacts DEF LabelsBehind, CacheIInv
  <1> QED
    BY <1>2, <1>3

\* The entry that a prepared call finds is of its own parameters and window.
LEMMA HitFacts ==
    ASSUME CacheIInv, pc = "lookup", call.scope \in Prepared,
           NEW e \in FetchScoped(Announced, call.scope, call.params)
    PROVE  /\ e.row.scope = call.scope
           /\ SameKeys(e.row.params, call.params)
           /\ e.row.generation \in window
  <1> DEFINE ps == call.params
             nums == [k \in 1 .. Len(ps) |-> GetIdx(Announced, ps[k])]
  <1>1. /\ e \in Announced.data /\ e.scope = call.scope /\ e.idxs = nums
        /\ \A k \in 1 .. Len(nums) : nums[k] # 0
    BY DEF FetchScoped, Known
  <1>2. /\ ps \in Tuples /\ call.scope \in Scopes /\ call.label \in Nat
        /\ generation[call.scope] \in Nat
    BY DEF CacheIInv, CacheInv, TypeOK
  <1>3. Len(ps) \in Nat /\ \A k \in 1 .. Len(ps) : ps[k] \in Params
    BY <1>2, TupleType
  <1>4. Announced \in CacheType /\ Distinct(Announced) /\ Honest(Announced)
    BY AnnouncedFacts
  <1>5. e \in Entry
    BY <1>1, <1>4 DEF CacheType
  <1>6. call.label # 0 /\ Announced.generations[call.scope] = call.label
    BY <1>1, AnnouncedFacts
  <1>7. /\ e.row.scope = e.scope
        /\ Len(e.idxs) = Len(e.row.params)
        /\ \A k \in 1 .. Len(e.idxs) : e.idxs[k] = GetIdx(Announced, e.row.params[k])
        /\ call.label <= e.row.generation
        /\ e.row.generation <= generation[e.scope]
    BY <1>1, <1>4, <1>6 DEF Honest
  <1>8. Len(nums) = Len(ps)
    <2>1. nums \in Seq(Nat)
      <3>1. \A k \in 1 .. Len(ps) : GetIdx(Announced, ps[k]) \in Nat
        BY <1>3, <1>4, GetIdxType, LocalBounds
      <3>2. nums \in [1 .. Len(ps) -> Nat]
        BY <3>1
      <3> QED
        BY <1>3, <3>2, SeqDef
    <2> QED
      BY <1>3, <2>1, LenProperties
  <1>9. \A k \in 1 .. Len(ps) : e.row.params[k] \in Params
    BY <1>1, <1>5, <1>7, <1>8, EntryType, TupleType
  <1>10. ASSUME NEW k \in 1 .. Len(ps) PROVE InternKey[e.row.params[k]] = InternKey[ps[k]]
    <2>1. nums[k] = GetIdx(Announced, ps[k]) /\ nums[k] # 0
      BY <1>1, <1>8
    <2>2. nums[k] = GetIdx(Announced, e.row.params[k])
      BY <1>1, <1>7, <1>8
    <2> QED
      BY <1>3, <1>4, <1>9, <2>1, <2>2, SameNumberSameKey
  <1>11. SameKeys(e.row.params, ps)
    BY <1>1, <1>7, <1>8, <1>10 DEF SameKeys
  <1>12. e.row.generation \in window
    <2>1. window = call.label .. generation[call.scope]
      BY DEF CacheIInv, CallInv
    <2> QED
      BY <1>1, <1>2, <1>5, <1>7, <2>1, EntryType
  <1> QED
    BY <1>1, <1>7, <1>11, <1>12

LEMMA LookupHitInv ==
    ASSUME CacheIInv, LookupHit
    PROVE  CacheIInv'
  <1> USE DEF CacheIInv, CacheInv
  <1>1. /\ pc = "lookup" /\ pc' = "idle" /\ local' = Announced
        /\ UNCHANGED <<generation, call, idxs, window>>
    BY DEF LookupHit
  <1>2. PICK e \in FetchScoped(Announced, call.scope, call.params) : answer' = e.row
    BY DEF LookupHit
  <1>3. Announced \in CacheType
    BY <1>1, AnnouncedFacts
  <1>4. answer' \in Row
    BY <1>2, <1>3, EntryType DEF FetchScoped, CacheType
  <1>5. TypeOK'
    BY <1>1, <1>3, <1>4 DEF TypeOK
  <1>6. NumbersDistinct' /\ LabelledRowsHonest' /\ LabelsBehind'
    BY <1>1, LookupCacheInv
  <1>7. CallInv' /\ SaveInv'
    BY <1>1 DEF CallInv, SaveInv
  <1>8. PreparedAnswerMatches' /\ AnswerIsFresh'
    BY <1>1, <1>2, HitFacts DEF PreparedAnswerMatches, AnswerMatchesCall, SameKeys, AnswerIsFresh
  <1> QED
    BY <1>5, <1>6, <1>7, <1>8

LEMMA LookupMissInv ==
    ASSUME CacheIInv, LookupMiss
    PROVE  CacheIInv'
  <1> USE DEF CacheIInv, CacheInv
  <1>1. /\ pc = "lookup" /\ pc' = "query" /\ local' = Announced
        /\ UNCHANGED <<generation, call, answer, idxs, window>>
    BY DEF LookupMiss
  <1>2. Announced \in CacheType
    BY <1>1, AnnouncedFacts
  <1>3. TypeOK'
    BY <1>1, <1>2 DEF TypeOK
  <1>4. NumbersDistinct' /\ LabelledRowsHonest' /\ LabelsBehind'
    BY <1>1, LookupCacheInv
  <1>5. CallInv'
    BY <1>1, AnnouncedFacts DEF CallInv
  <1>6. SaveInv' /\ PreparedAnswerMatches' /\ AnswerIsFresh'
    BY <1>1 DEF SaveInv, PreparedAnswerMatches, AnswerMatchesCall, AnswerIsFresh
  <1> QED
    BY <1>3, <1>4, <1>5, <1>6

LEMMA QueryInv ==
    ASSUME CacheIInv, Query
    PROVE  CacheIInv'
  <1> USE DEF CacheIInv, CacheInv
  <1>1. /\ pc = "query" /\ pc' = "intern" /\ idxs' = << >>
        /\ UNCHANGED <<generation, local, call, window>>
        /\ generation[call.scope] # 0
        /\ answer' = [scope |-> call.scope, params |-> call.params,
                      generation |-> generation[call.scope]]
    BY DEF Query
  <1>2. call.scope \in Scopes /\ call.params \in Tuples /\ generation[call.scope] \in Nat
    BY DEF TypeOK
  <1>3. answer' \in Row
    BY <1>1, <1>2 DEF Row
  <1>4. TypeOK'
    BY <1>1, <1>3 DEF TypeOK
  <1>5. NumbersDistinct' /\ LabelledRowsHonest' /\ LabelsBehind'
    BY <1>1 DEF NumbersDistinct, LabelledRowsHonest, LabelsBehind, GetIdx
  <1>6. CallInv'
    BY <1>1 DEF CallInv
  <1>7. SaveInv'
    <2>1. Len(call.params) \in Nat
      BY <1>2, TupleType
    <2> QED
      BY <1>1, <1>2, <1>3, <2>1 DEF SaveInv, CallInv
  <1>8. PreparedAnswerMatches' /\ AnswerIsFresh'
    BY <1>1 DEF PreparedAnswerMatches, AnswerMatchesCall, AnswerIsFresh
  <1> QED
    BY <1>4, <1>5, <1>6, <1>7, <1>8

\* A row that was queried answers its call, saved or not.
LEMMA SavedAnswer ==
    ASSUME CacheIInv, pc = "intern"
    PROVE  /\ answer.scope = call.scope /\ SameKeys(answer.params, call.params)
           /\ answer.generation \in window
  <1>1. /\ answer.scope = call.scope /\ answer.params = call.params /\ answer \in Row
        /\ call.label <= answer.generation /\ answer.generation <= generation[call.scope]
        /\ window = call.label .. generation[call.scope]
    BY DEF CacheIInv, SaveInv, CallInv
  <1>2. answer.generation \in Nat /\ call.label \in Nat /\ generation[call.scope] \in Nat
    BY <1>1 DEF Row, CacheIInv, CacheInv, TypeOK
  <1> QED
    BY <1>1, <1>2 DEF SameKeys

LEMMA ReturnInv ==
    ASSUME CacheIInv, QueryFails \/ SkipRow
    PROVE  CacheIInv'
  <1> USE DEF CacheIInv, CacheInv
  <1>1. /\ pc \in {"query", "intern"} /\ pc' = "idle"
        /\ UNCHANGED <<generation, local, call, answer, window, idxs>>
    BY DEF QueryFails, SkipRow
  <1>2. TypeOK'
    BY <1>1 DEF TypeOK
  <1>3. NumbersDistinct' /\ LabelledRowsHonest' /\ LabelsBehind' /\ CallInv' /\ SaveInv'
    BY <1>1 DEF NumbersDistinct, LabelledRowsHonest, LabelsBehind, GetIdx, CallInv, SaveInv
  <1>4. PreparedAnswerMatches' /\ AnswerIsFresh'
    BY <1>1, SavedAnswer DEF PreparedAnswerMatches, AnswerMatchesCall, AnswerIsFresh, CallInv, SameKeys
  <1> QED
    BY <1>2, <1>3, <1>4

LEMMA InternParamInv ==
    ASSUME CacheIInv, InternParam
    PROVE  CacheIInv'
  <1> USE DEF CacheIInv, CacheInv
  <1> DEFINE n == Len(idxs) + 1
             p == call.params[n]
  <1>1. /\ pc = "intern" /\ Len(idxs) < Len(call.params)
        /\ local' = TryUpIdx(local, p) /\ idxs' = Append(idxs, GetIdx(local', p))
        /\ UNCHANGED <<generation, pc, call, answer, window>>
    BY DEF InternParam
  <1>2. /\ call.params \in Tuples /\ call.scope \in Scopes /\ local \in CacheType
        /\ idxs \in Seq(Nat) /\ call.label \in Nat /\ generation \in [Scopes -> Nat]
    BY DEF TypeOK
  <1>3. n \in Nat /\ n \in 1 .. Len(call.params) /\ p \in Params
    <2>1. Len(call.params) \in Nat /\ \A k \in 1 .. Len(call.params) : call.params[k] \in Params
      BY <1>2, TupleType
    <2>2. Len(idxs) \in Nat
      BY <1>2
    <2> QED
      BY <1>1, <2>1, <2>2
  <1> HIDE DEF p
  <1>4. /\ local' \in CacheType /\ Distinct(local')
        /\ InternKey[p] # NoKey => GetIdx(local', p) # 0
        /\ \/ local'.data = {} /\ \A s \in Scopes : local'.generations[s] = 0
           \/ /\ local'.data = local.data /\ local'.generations = local.generations
              /\ \A q \in Params : GetIdx(local, q) # 0 => GetIdx(local', q) = GetIdx(local, q)
    <2>1. Distinct(local)
      BY DEF NumbersDistinct, Distinct
    <2> QED
      BY <1>1, <1>2, <1>3, <2>1, TryUpIdxFacts
  <1>5. GetIdx(local', p) \in Nat
    BY <1>3, <1>4, GetIdxType, LocalBounds
  <1>6. /\ idxs' \in Seq(Nat) /\ Len(idxs') = n /\ idxs'[n] = GetIdx(local', p)
        /\ \A k \in 1 .. Len(idxs) : idxs'[k] = idxs[k]
    BY <1>1, <1>2, <1>5
  <1>7. TypeOK'
    BY <1>1, <1>4, <1>6 DEF TypeOK
  <1>8. NumbersDistinct'
    BY <1>4 DEF NumbersDistinct, Distinct
  <1>9. CASE local'.data = {} /\ \A s \in Scopes : local'.generations[s] = 0
    <2>1. LabelledRowsHonest' /\ LabelsBehind'
      BY <1>1, <1>2, <1>9 DEF LabelledRowsHonest, LabelsBehind
    <2>2. CallInv'
      BY <1>1, <1>2, <1>9 DEF CallInv
    <2>3. SaveInv'
      BY <1>1, <1>2, <1>3, <1>6, <1>9 DEF SaveInv
    <2> QED
      BY <1>1, <1>7, <1>8, <2>1, <2>2, <2>3 DEF PreparedAnswerMatches, AnswerMatchesCall, AnswerIsFresh
  <1>10. CASE /\ local'.data = local.data /\ local'.generations = local.generations
              /\ \A q \in Params : GetIdx(local, q) # 0 => GetIdx(local', q) = GetIdx(local, q)
    <2>1. LabelledRowsHonest'
      <3> SUFFICES ASSUME NEW e \in local.data, local.generations[e.scope] # 0, e.scope \in Prepared,
                          NEW k \in 1 .. Len(e.idxs)
                   PROVE  e.idxs[k] = GetIdx(local', e.row.params[k])
        BY <1>1, <1>10 DEF LabelledRowsHonest
      <3>1. e \in Entry
        BY <1>2 DEF CacheType
      <3>2. e.idxs[k] # 0 /\ Len(e.idxs) = Len(e.row.params) /\ e.idxs[k] = GetIdx(local, e.row.params[k])
        BY <3>1, EntryType DEF LabelledRowsHonest
      <3>3. e.row.params[k] \in Params
        BY <3>1, <3>2, EntryType, TupleType
      <3> QED
        BY <1>10, <3>2, <3>3
    <2>2. LabelsBehind' /\ CallInv'
      BY <1>1, <1>10 DEF LabelsBehind, CallInv
    <2>3. SaveInv'
      <3> SUFFICES ASSUME call.scope \in Prepared, local.generations[call.scope] # 0,
                          NEW k \in 1 .. n
                   PROVE  /\ idxs'[k] = GetIdx(local', call.params[k])
                          /\ InternKey[call.params[k]] # NoKey => idxs'[k] # 0
        BY <1>1, <1>3, <1>6, <1>10 DEF SaveInv
      <3>1. CASE k = n
        BY <1>4, <1>6, <3>1 DEF p
      <3>2. CASE k # n
        <4>1. k \in 1 .. Len(idxs) /\ idxs'[k] = idxs[k]
          BY <1>2, <1>3, <1>6, <3>2
        <4>2. /\ idxs[k] = GetIdx(local, call.params[k])
              /\ InternKey[call.params[k]] # NoKey => idxs[k] # 0
          BY <1>1, <4>1 DEF SaveInv
        <4>3. call.params[k] \in Params
          BY <1>2, <1>3, TupleType
        <4>4. InternKey[call.params[k]] = NoKey =>
                GetIdx(local', call.params[k]) = GetIdx(local, call.params[k])
          BY DEF GetIdx
        <4> QED
          BY <1>10, <4>1, <4>2, <4>3, <4>4
      <3> QED
        BY <3>1, <3>2
    <2> QED
      BY <1>1, <1>7, <1>8, <2>1, <2>2, <2>3 DEF PreparedAnswerMatches, AnswerMatchesCall, AnswerIsFresh
  <1> QED
    BY <1>4, <1>9, <1>10

LEMMA StoreRowInv ==
    ASSUME CacheIInv, StoreRow
    PROVE  CacheIInv'
  <1> USE DEF CacheIInv, CacheInv
  <1> DEFINE new == [scope |-> call.scope, idxs |-> idxs, row |-> answer]
  <1>1. /\ pc = "intern" /\ pc' = "idle" /\ Len(idxs) = Len(call.params)
        /\ \A k \in 1 .. Len(idxs) : idxs[k] # 0
        /\ UNCHANGED <<generation, call, answer, window, idxs>>
    BY DEF StoreRow, Known
  <1>2. PICK es \in Put(local.data, new) : local' = [local EXCEPT !.data = es]
    BY DEF StoreRow
  <1>3. es \subseteq local.data \cup {new}
    BY <1>2, PutEntries
  <1>4. /\ call.params \in Tuples /\ call.scope \in Scopes /\ local \in CacheType
        /\ idxs \in Seq(Nat) /\ generation \in [Scopes -> Nat]
    BY DEF TypeOK
  <1>5. new \in Entry
    <2>1. idxs \in [1 .. Len(idxs) -> Nat] /\ Len(idxs) \in Arities
      BY <1>1, <1>4, LenProperties, TupleType
    <2>2. idxs \in [1 .. Len(idxs) -> Nat \ {0}]
      BY <1>1, <2>1
    <2>3. idxs \in UNION {[1 .. m -> Nat \ {0}] : m \in Arities}
      BY <2>1, <2>2
    <2> QED
      BY <1>1, <1>4, <2>3 DEF Entry, SaveInv
  <1>6. /\ local'.data = es /\ local'.idx = local.idx /\ local'.idx_num = local.idx_num
        /\ local'.generations = local.generations /\ local' \in CacheType
    <2>1. es \in SUBSET Entry
      BY <1>3, <1>4, <1>5 DEF CacheType
    <2> QED
      BY <1>2, <1>4, <2>1 DEF CacheType
  <1>7. TypeOK'
    BY <1>1, <1>6 DEF TypeOK
  <1>8. NumbersDistinct'
    BY <1>6 DEF NumbersDistinct
  <1>9. \A q : GetIdx(local', q) = GetIdx(local, q)
    BY <1>6 DEF GetIdx
  <1>10. /\ answer.scope = call.scope /\ answer.params = call.params
         /\ call.label <= answer.generation /\ answer.generation <= generation[call.scope]
         /\ generation[call.scope] # 0
    BY <1>1 DEF SaveInv
  <1>11. /\ new.scope = call.scope /\ new.idxs = idxs /\ new.row = answer
    OBVIOUS
  <1> HIDE DEF new
  <1>12. LabelledRowsHonest'
    <2> SUFFICES ASSUME NEW e \in es, local.generations[e.scope] # 0, e.scope \in Prepared
                 PROVE  /\ e.row.scope = e.scope
                        /\ Len(e.idxs) = Len(e.row.params)
                        /\ \A k \in 1 .. Len(e.idxs) : e.idxs[k] = GetIdx(local, e.row.params[k])
                        /\ local.generations[e.scope] <= e.row.generation
                        /\ e.row.generation <= generation[e.scope]
      BY <1>1, <1>6, <1>9 DEF LabelledRowsHonest
    <2>1. CASE e \in local.data
      BY <2>1 DEF LabelledRowsHonest
    <2>2. CASE e = new
      <3>1. \A k \in 1 .. Len(idxs) : idxs[k] = GetIdx(local, call.params[k])
        BY <1>1, <1>11, <2>2 DEF SaveInv
      <3>2. local.generations[call.scope] = call.label
        BY <1>1, <1>11, <2>2 DEF CallInv
      <3> QED
        BY <1>1, <1>10, <1>11, <2>2, <3>1, <3>2
    <2> QED
      BY <1>3, <2>1, <2>2
  <1>13. LabelsBehind'
    BY <1>1, <1>3, <1>6, <1>10, <1>11 DEF LabelsBehind
  <1>14. CallInv' /\ SaveInv'
    BY <1>1 DEF CallInv, SaveInv
  <1>15. PreparedAnswerMatches' /\ AnswerIsFresh'
    BY <1>1, SavedAnswer DEF PreparedAnswerMatches, AnswerMatchesCall, AnswerIsFresh, SameKeys
  <1> QED
    BY <1>7, <1>8, <1>12, <1>13, <1>14, <1>15

LEMMA CacheInvNext == CacheIInv /\ [Next]_vars => CacheIInv'
  <1> SUFFICES ASSUME CacheIInv, [Next]_vars PROVE CacheIInv'
    OBVIOUS
  <1>1. CASE UNCHANGED vars
    BY <1>1 DEF vars, CacheIInv, CacheInv, TypeOK, NumbersDistinct, LabelledRowsHonest, GetIdx,
                LabelsBehind, CallInv, SaveInv, PreparedAnswerMatches, AnswerMatchesCall, SameKeys,
                AnswerIsFresh
  <1> QED
    BY <1>1, LoadInv, BeginInv, LookupHitInv, LookupMissInv, QueryInv, ReturnInv,
       InternParamInv, StoreRowInv DEF Next

LEMMA CacheIInvHolds == Spec => []CacheIInv
  BY CacheInvInit, CacheInvNext, PTL DEF Spec

-----------------------------------------------------------------------------

\* Resets of the interning tables and reloads leave nothing behind that a
\* labelled scope could serve: its rows are under the current numbers of their
\* own parameters and no older than the label.
THEOREM LocalCacheSound == Spec => []CacheInv
  <1>1. CacheIInv => CacheInv
    BY DEF CacheIInv
  <1> QED
    BY <1>1, CacheIInvHolds, PTL

\* Through the facade, a call is answered with a row of its own query and
\* parameters, in spite of resets between two parameters of one save.
THEOREM FacadeAnswersMatch == Spec => [](call.scope \in Prepared => AnswerMatchesCall)
  <1>1. CacheIInv => (call.scope \in Prepared => AnswerMatchesCall)
    BY DEF CacheIInv, PreparedAnswerMatches
  <1> QED
    BY <1>1, CacheIInvHolds, PTL

\* Through the facade, a row of a generation that was replaced before the call
\* began is never returned.
THEOREM FacadeAnswersFresh == Spec => []AnswerIsFresh
  <1>1. CacheIInv => AnswerIsFresh
    BY DEF CacheIInv
  <1> QED
    BY <1>1, CacheIInvHolds, PTL
=============================================================================
