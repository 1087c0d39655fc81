--------------------------- MODULE FieldQueryCache --------------------------
(***************************************************************************)
(* The local cache (cache.rs) under its two kinds of callers: the facade's *)
(* cache_query_fields* (facade.rs), which announce the generation first,   *)
(* and cache_query_impl (cache_util.rs), which does not.                   *)
(*                                                                         *)
(* The cache has one owner (&mut), so its operations do not interleave;    *)
(* loads do, between the steps of a call: reading the generation, looking  *)
(* the local cache up, querying, saving.  Of the registry this module      *)
(* uses what ProviderRegistry shows for loads that do not overlap: a       *)
(* provider's generation only grows, and current_generation() is atomic.   *)
(*                                                                         *)
(* Parameters are interned: each distinct value gets a number, and a cached *)
(* row is found under the tuple of its parameters' numbers.  When the      *)
(* numbers run out (MAX_LOCAL_IDX) everything is forgotten, and this may   *)
(* happen between two parameters of one row.                               *)
(***************************************************************************)
EXTENDS Naturals, Sequences, FiniteSets

CONSTANTS
    Scopes,         \* scope hashes: one for each query text and provider
    Prepared,       \* scopes used through the facade; the others are direct
    Params,         \* parameter values
    InternKey,      \* value -> its key in the table of its type, or NoKey
    NoKey,          \* get_idx and try_up_idx know no table for the type
    Arities,        \* numbers of parameters in use
    MaxLocalIdx,    \* MAX_LOCAL_IDX
    Capacity,       \* of cache_data
    MaxGeneration   \* bound on the loads

Keys == {InternKey[p] : p \in Params} \ {NoKey}

ASSUME InternAssumption == DOMAIN InternKey = Params /\ Params # {}
ASSUME ScopesAssumption == Prepared \subseteq Scopes /\ Scopes # {}
ASSUME LocalBounds ==
    /\ Arities \subseteq Nat \ {0} /\ Arities # {}
    /\ MaxLocalIdx \in Nat \ {0}
    /\ Capacity \in Nat \ {0}
    /\ MaxGeneration \in Nat

VARIABLES
    generation,     \* scope -> generation of its provider, 0 before the first load
    local,          \* the FieldQueryCache
    pc,             \* where the owner is in a call
    call,           \* the call: scope, params and the generation it announces
    answer,         \* the row it returned, or NoRow
    idxs,           \* the numbers of the parameters it has interned
    window          \* history: generations current during the call

vars == <<generation, local, pc, call, answer, idxs, window>>

Tuples == UNION {[1 .. n -> Params] : n \in Arities}

\* A row is named by the query, the parameters and the generation it is from.
Row == [scope : Scopes, params : Tuples, generation : Nat]
NoRow == [scope |-> NoKey, params |-> << >>, generation |-> 0]

\* A cached row under its LocalCacheKey.
Entry == [scope : Scopes, idxs : UNION {[1 .. n -> Nat \ {0}] : n \in Arities}, row : Row]

CacheType ==
    [idx : [Keys -> 0 .. MaxLocalIdx], idx_num : 0 .. MaxLocalIdx, data : SUBSET Entry,
     generations : [Scopes -> Nat]]

\* FieldQueryCache::with_capacity.  Number 0 and generation 0 mean absent.
EmptyCache ==
    [idx |-> [k \in Keys |-> 0], idx_num |-> 0, data |-> {},
     generations |-> [s \in Scopes |-> 0]]

-----------------------------------------------------------------------------
(***************************************************************************)
(* Operations on the cache                                                 *)
(***************************************************************************)

\* get_idx
GetIdx(c, p) == IF InternKey[p] = NoKey THEN 0 ELSE c.idx[InternKey[p]]

\* Mutant: the numbers start again, but the rows and labels are kept.
ForgetNumbersOnly(c) ==
    IF c.idx_num >= MaxLocalIdx
      THEN [c EXCEPT !.idx = [k \in Keys |-> 0], !.idx_num = 0] ELSE c

\* The reset at the top of try_up_idx.
ResetAtLimit(c) == IF c.idx_num >= MaxLocalIdx THEN EmptyCache ELSE c

\* try_up_idx: the cache afterwards, in which GetIdx gives the number returned.
TryUpIdx(c, p) ==
    LET r == ResetAtLimit(c)
    IN  IF InternKey[p] = NoKey \/ GetIdx(r, p) # 0
          THEN r
          ELSE [r EXCEPT !.idx_num = r.idx_num + 1,
                         !.idx[InternKey[p]] = r.idx_num + 1]

\* No parameter of the tuple was of a type without a table.
Known(nums) == \A k \in 1 .. Len(nums) : nums[k] # 0

\* LruCache::put, with any entry as the victim of a full cache.
Put(es, e) ==
    LET others == {x \in es : x.scope # e.scope \/ x.idxs # e.idxs}
    IN  IF Cardinality(others) < Capacity
          THEN {others \cup {e}}
          ELSE {(others \ {victim}) \cup {e} : victim \in others}

\* fetch_scoped: the entry found, if any.
FetchScoped(c, scope, ps) ==
    LET nums == [k \in 1 .. Len(ps) |-> GetIdx(c, ps[k])]
    IN  {e \in c.data : Known(nums) /\ e.scope = scope /\ e.idxs = nums}

\* Mutant: the new label is set but the rows of the scope stay.
PrepareLabelOnly(c, scope, g) == [c EXCEPT !.generations[scope] = g]

\* Mutant: a scope that was never labelled is taken to be clean.
PrepareTrustsUnlabelled(c, scope, g) ==
    IF c.generations[scope] \in {0, g}
      THEN [c EXCEPT !.generations[scope] = g]
      ELSE [c EXCEPT !.generations[scope] = g,
                     !.data = {e \in c.data : e.scope # scope}]

\* prepare_generation_scoped
PrepareGeneration(c, scope, g) ==
    IF c.generations[scope] = g
      THEN c
      ELSE [c EXCEPT !.generations[scope] = g,
                     !.data = {e \in c.data : e.scope # scope}]

-----------------------------------------------------------------------------
(***************************************************************************)
(* Calls and loads                                                         *)
(***************************************************************************)

NoCall == [scope |-> CHOOSE s \in Scopes : TRUE,
           params |-> CHOOSE ps \in Tuples : TRUE, label |-> 0]

Init ==
    /\ generation = [s \in Scopes |-> 0]
    /\ local = EmptyCache
    /\ pc = "idle"
    /\ call = NoCall
    /\ answer = NoRow
    /\ idxs = << >>
    /\ window = {}

\* A load replaces the provider of a scope.
Load(s) ==
    /\ generation[s] < MaxGeneration
    /\ generation' = [generation EXCEPT ![s] = generation[s] + 1]
    /\ window' = IF call.scope = s THEN window \cup {generation[s] + 1} ELSE window
    /\ UNCHANGED <<local, pc, call, answer, idxs>>

\* A call reads the generation it will announce (the facade's callers only).
Begin(s, ps) ==
    /\ pc = "idle"
    /\ call' = [scope |-> s, params |-> ps, label |-> generation[s]]
    /\ window' = {generation[s]}
    /\ answer' = NoRow
    /\ pc' = "lookup"
    /\ UNCHANGED <<generation, local, idxs>>

\* The cache a lookup of this call sees: labelled, if the call knows a label.
Announced ==
    IF call.scope \in Prepared /\ call.label # 0
      THEN PrepareGeneration(local, call.scope, call.label) ELSE local

\* local_cache_hit (or cache_query_impl's fetch) returns a row.
LookupHit ==
    /\ pc = "lookup"
    /\ local' = Announced
    /\ \E e \in FetchScoped(Announced, call.scope, call.params) : answer' = e.row
    /\ pc' = "idle"
    /\ UNCHANGED <<generation, call, idxs, window>>

LookupMiss ==
    /\ pc = "lookup"
    /\ local' = Announced
    /\ FetchScoped(Announced, call.scope, call.params) = {}
    /\ pc' = "query"
    /\ UNCHANGED <<generation, call, answer, idxs, window>>

\* The query takes the provider of this moment; its row is going to be saved.
Query ==
    /\ pc = "query"
    /\ generation[call.scope] # 0
    /\ answer' = [scope |-> call.scope, params |-> call.params,
                  generation |-> generation[call.scope]]
    /\ idxs' = << >>
    /\ pc' = "intern"
    /\ UNCHANGED <<generation, local, call, window>>

\* A query that fails is answered with an empty row, which is not saved.
QueryFails ==
    /\ pc = "query"
    /\ pc' = "idle"
    /\ UNCHANGED <<generation, local, call, answer, window, idxs>>

\* save_scoped interns the parameters from left to right.  A number it has got
\* is not looked at again when a later parameter resets the tables.
InternParam ==
    /\ pc = "intern"
    /\ Len(idxs) < Len(call.params)
    /\ LET p == call.params[Len(idxs) + 1]
       IN  /\ local' = TryUpIdx(local, p)
           /\ idxs' = Append(idxs, GetIdx(local', p))
    /\ UNCHANGED <<generation, pc, call, answer, window>>

\* save_scoped stores the row if every parameter has a number.
StoreRow ==
    /\ pc = "intern"
    /\ Len(idxs) = Len(call.params)
    /\ Known(idxs)
    /\ \E es \in Put(local.data, [scope |-> call.scope, idxs |-> idxs, row |-> answer]) :
         local' = [local EXCEPT !.data = es]
    /\ pc' = "idle"
    /\ UNCHANGED <<generation, call, answer, window, idxs>>

SkipRow ==
    /\ pc = "intern"
    /\ Len(idxs) = Len(call.params)
    /\ ~ Known(idxs)
    /\ pc' = "idle"
    /\ UNCHANGED <<generation, local, call, answer, window, idxs>>

Next ==
    \/ \E s \in Scopes : Load(s)
    \/ \E s \in Scopes, ps \in Tuples : Begin(s, ps)
    \/ LookupHit \/ LookupMiss \/ Query \/ QueryFails
    \/ InternParam \/ StoreRow \/ SkipRow

Spec == Init /\ [][Next]_vars

-----------------------------------------------------------------------------
(***************************************************************************)
(* Properties                                                              *)
(***************************************************************************)

\* Types; no number goes past MAX_LOCAL_IDX.
TypeOK ==
    /\ generation \in [Scopes -> Nat]
    /\ local \in CacheType
    /\ pc \in {"idle", "lookup", "query", "intern"}
    /\ call \in [scope : Scopes, params : Tuples, label : Nat]
    /\ answer \in Row \cup {NoRow}
    /\ idxs \in Seq(Nat)
    /\ window \subseteq Nat

SameKeys(ps, qs) ==
    Len(ps) = Len(qs) /\ \A k \in 1 .. Len(ps) : InternKey[ps[k]] = InternKey[qs[k]]

\* A call is answered with a row of its own query and of parameters the
\* provider cannot tell from its own, and never with a row cached under a
\* number that has changed hands since.
AnswerMatchesCall ==
    pc = "idle" /\ answer # NoRow =>
        answer.scope = call.scope /\ SameKeys(answer.params, call.params)

\* A call through the facade never returns a row of a generation that had
\* been replaced before the call began, wherever loads fall into it.
AnswerIsFresh ==
    pc = "idle" /\ answer # NoRow /\ call.scope \in Prepared =>
        answer.generation \in window

\* Distinct parameters have distinct numbers, all of them handed out.
NumbersDistinct ==
    \A k, l \in Keys : local.idx[k] # 0 =>
        /\ local.idx[k] <= local.idx_num
        /\ local.idx[k] = local.idx[l] => k = l

\* Rows of a labelled scope are found under the current numbers of their own
\* parameters and are no older than the label: a scope whose rows may be
\* stranded by a reset is never labelled.
LabelledRowsHonest ==
    \A e \in local.data : local.generations[e.scope] # 0 /\ e.scope \in Prepared =>
        /\ e.row.scope = e.scope
        /\ Len(e.idxs) = Len(e.row.params)
        /\ \A k \in 1 .. Len(e.idxs) : e.idxs[k] = GetIdx(local, e.row.params[k])
        /\ local.generations[e.scope] <= e.row.generation
        /\ e.row.generation <= generation[e.scope]

\* The state of the cache between calls, from which the two properties of
\* answers follow: types, numbers, and the rows of labelled scopes, whatever the
\* resets of the interning tables and the reloads leave behind.
CacheInv == TypeOK /\ NumbersDistinct /\ LabelledRowsHonest

\* cache.rs:94 and the tests of cache.rs ("any parameter changes: miss"): the
\* price of the reset is an empty cache, for direct callers as well.
DirectAnswerMatchesCall ==
    pc = "idle" /\ answer # NoRow /\ call.scope \notin Prepared =>
        SameKeys(answer.params, call.params)
=============================================================================
