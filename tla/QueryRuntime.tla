----------------------------- MODULE QueryRuntime ---------------------------
(***************************************************************************)
(* Queries through KnowledgeRuntime and its global result cache            *)
(* (runtime.rs), beside the registry whose handles they use.               *)
(*                                                                         *)
(* A caller captures a handle, then works with that handle whatever is     *)
(* installed meanwhile: it reads result_cache_enabled, looks the key up    *)
(* under the read lock, may find the entry too old and remove it under the *)
(* write lock, asks the provider, and stores the answer under the write    *)
(* lock.  Each of these is a step; loads, and the configure_result_cache   *)
(* at the end of a load, run in between.                                   *)
(*                                                                         *)
(* A query stands for (sql, params, mode), whose hashes the key holds; a   *)
(* row is named by the handle and the query that produced it.  No property *)
(* speaks of time, so an entry met in the cache may or may not have        *)
(* outlived the ttl.                                                       *)
(***************************************************************************)
EXTENDS ProviderRegistry

CONSTANTS
    Callers,        \* threads inside execute* and its async variants
    Queries,
    Configs         \* the [cache] sections a load may bring

ASSUME ConfigsAssumption ==
    /\ Configs \subseteq [enabled : BOOLEAN, capacity : Nat, ttl : Nat]
    /\ Queries # {}

VARIABLES
    cacheConfig,    \* result_cache_config
    cacheEnabled,   \* result_cache_enabled
    cacheTtl,       \* result_cache_ttl_ms
    cache,          \* result_cache: its entries
    cacheCap,       \* the capacity that LruCache was made with
    cpc,            \* where each loader is in configure_result_cache
    cconf,          \* its new_config
    creset,         \* its should_reset_cache
    qpc,            \* what each caller does next
    qhandle,        \* the handle it captured
    qquery,         \* what it asks
    qglobal,        \* its use_global_cache (before the gate: the policy)
    qrow            \* the row it got from the cache or the provider

configVars == <<cacheConfig, cacheEnabled, cacheTtl>>
cacheVars == <<cache, cacheCap>>
configurerVars == <<cpc, cconf, creset>>
callerVars == <<qpc, qhandle, qquery, qglobal, qrow>>
queryVars == <<vars, configVars, cacheVars, configurerVars, callerVars>>

\* An answer.  NoRow is held by callers that have none yet.
Row == [handle : Handle, query : Queries]
RowOf(h, q) == [handle |-> h, query |-> q]
NoRow == RowOf(NoHandle, CHOOSE q \in Queries : TRUE)

\* Mutant: the key of a cached answer forgets the generation.
KeyWithoutGeneration(h, q) ==
    [datasource_id |-> h.datasource_id, generation |-> 0, query |-> q]

\* result_cache_key and result_cache_key_fields
Key(h, q) ==
    [datasource_id |-> h.datasource_id, generation |-> h.generation, query |-> q]

KeyType == [datasource_id : Names \cup {NoName}, generation : Nat, query : Queries]
Entry == [key : KeyType, row : Row]

\* ResultCacheConfig::default(), at the scale of the model.
DefaultConfig == [enabled |-> TRUE, capacity |-> 1, ttl |-> 1]

Max1(n) == IF n = 0 THEN 1 ELSE n

\* Mutant: a zero capacity or ttl is taken as it is.
NotClamped(conf) == conf

\* The new_config of configure_result_cache.
Clamped(conf) ==
    [enabled |-> conf.enabled, capacity |-> Max1(conf.capacity), ttl |-> Max1(conf.ttl)]

QueryInit ==
    /\ Init
    /\ cacheConfig = DefaultConfig
    /\ cacheEnabled = TRUE
    /\ cacheTtl = 1
    /\ cache = {}
    /\ cacheCap = 1
    /\ cpc = [i \in Loaders |-> "config"]
    /\ cconf = [i \in Loaders |-> DefaultConfig]
    /\ creset = [i \in Loaders |-> FALSE]
    /\ qpc = [c \in Callers |-> "idle"]
    /\ qhandle = [c \in Callers |-> NoHandle]
    /\ qquery = [c \in Callers |-> NoRow.query]
    /\ qglobal = [c \in Callers |-> FALSE]
    /\ qrow = [c \in Callers |-> NoRow]

-----------------------------------------------------------------------------
(***************************************************************************)
(* configure_result_cache, the part of a load between its last install and *)
(* its prune.  A [provider.redis] load has no such part.                   *)
(***************************************************************************)

Configures(i) == pc[i] = "prune" /\ plan[i].specs # << >>

\* Mutant: only disabling the cache resets it.
ResetOnDisableOnly(old, new) == ~ new.enabled /\ old.enabled

\* should_reset_cache
ShouldReset(old, new) ==
    old.capacity # new.capacity \/ (~ new.enabled /\ old.enabled)

\* The configuration cell is compared and replaced under its write lock.
WriteConfig(i) ==
    /\ Configures(i) /\ cpc[i] = "config"
    /\ \E conf \in Configs :
         /\ cconf' = [cconf EXCEPT ![i] = Clamped(conf)]
         /\ creset' = [creset EXCEPT ![i] = ShouldReset(cacheConfig, Clamped(conf))]
         /\ cacheConfig' = Clamped(conf)
    /\ cpc' = [cpc EXCEPT ![i] = "enabled"]
    /\ UNCHANGED <<cacheEnabled, cacheTtl, cacheVars>>

StoreEnabled(i) ==
    /\ Configures(i) /\ cpc[i] = "enabled"
    /\ cacheEnabled' = cconf[i].enabled
    /\ cpc' = [cpc EXCEPT ![i] = "ttl"]
    /\ UNCHANGED <<cacheConfig, cacheTtl, cacheVars, cconf, creset>>

StoreTtl(i) ==
    /\ Configures(i) /\ cpc[i] = "ttl"
    /\ cacheTtl' = cconf[i].ttl
    /\ cpc' = [cpc EXCEPT ![i] = IF creset[i] THEN "reset" ELSE "done"]
    /\ UNCHANGED <<cacheConfig, cacheEnabled, cacheVars, cconf, creset>>

\* A new, empty LruCache of the configured capacity.
ResetCache(i) ==
    /\ Configures(i) /\ cpc[i] = "reset"
    /\ cache' = {}
    /\ cacheCap' = cconf[i].capacity
    /\ cpc' = [cpc EXCEPT ![i] = "done"]
    /\ UNCHANGED <<configVars, cconf, creset>>

ConfigureStep(i) == WriteConfig(i) \/ StoreEnabled(i) \/ StoreTtl(i) \/ ResetCache(i)

\* The registry's steps; a load prunes when it has configured the cache.
RegistryStep(i) ==
    /\ LoaderStep(i)
    /\ Configures(i) => cpc[i] = "done"
    /\ cpc' = [cpc EXCEPT ![i] = "config"]
    /\ UNCHANGED <<configVars, cacheVars, cconf, creset>>

-----------------------------------------------------------------------------
(***************************************************************************)
(* Callers                                                                 *)
(***************************************************************************)

Pending(c) == qpc[c] \in {"gate", "recheck", "peek", "expiry", "pop", "query", "save"}

Step(c, label) == qpc' = [qpc EXCEPT ![c] = label]

\* current_handle (no name) or provider_by_name.
Handed(name) == IF name = NoName THEN provider ELSE namedProviders[name]

\* A call that finds a provider keeps its handle.
Capture(c) ==
    /\ ~ Pending(c)
    /\ \E name \in Names \cup {NoName}, q \in Queries, useGlobal \in BOOLEAN :
         /\ Handed(name) # NoHandle
         /\ qhandle' = [qhandle EXCEPT ![c] = Handed(name)]
         /\ qquery' = [qquery EXCEPT ![c] = q]
         /\ qglobal' = [qglobal EXCEPT ![c] = useGlobal]
    /\ qrow' = [qrow EXCEPT ![c] = NoRow]
    /\ Step(c, "gate")
    /\ UNCHANGED cacheVars

\* "knowledge provider not initialized"
NotInitialized(c) ==
    /\ ~ Pending(c)
    /\ \E name \in Names \cup {NoName} : Handed(name) = NoHandle
    /\ Step(c, "failed")
    /\ UNCHANGED <<cacheVars, qhandle, qquery, qglobal, qrow>>

\* use_global_cache
Gate(c) ==
    /\ qpc[c] = "gate"
    /\ qglobal' = [qglobal EXCEPT ![c] = qglobal[c] /\ cacheEnabled]
    /\ Step(c, IF qglobal[c] /\ cacheEnabled THEN "recheck" ELSE "query")
    /\ UNCHANGED <<cacheVars, qhandle, qquery, qrow>>

\* fetch_result_cache_by_key reads the switch once more.
Recheck(c) ==
    /\ qpc[c] = "recheck"
    /\ Step(c, IF cacheEnabled THEN "peek" ELSE "query")
    /\ UNCHANGED <<cacheVars, qhandle, qquery, qglobal, qrow>>

\* The entry is cloned under the read lock.
Peek(c) ==
    /\ qpc[c] = "peek"
    /\ \/ \E e \in cache :
            /\ e.key = Key(qhandle[c], qquery[c])
            /\ qrow' = [qrow EXCEPT ![c] = e.row]
            /\ Step(c, "expiry")
       \/ /\ \A e \in cache : e.key # Key(qhandle[c], qquery[c])
          /\ Step(c, "query")
          /\ UNCHANGED qrow
    /\ UNCHANGED <<cacheVars, qhandle, qquery, qglobal>>

\* A clone young enough is the answer.
Hit(c) ==
    /\ qpc[c] = "expiry"
    /\ Step(c, "done")
    /\ UNCHANGED <<cacheVars, qhandle, qquery, qglobal, qrow>>

Expired(c) ==
    /\ qpc[c] = "expiry"
    /\ Step(c, "pop")
    /\ UNCHANGED <<cacheVars, qhandle, qquery, qglobal, qrow>>

\* Removes whatever is under the key by now, then goes on as a miss.
PopExpired(c) ==
    /\ qpc[c] = "pop"
    /\ cache' = {e \in cache : e.key # Key(qhandle[c], qquery[c])}
    /\ Step(c, "query")
    /\ UNCHANGED <<cacheCap, qhandle, qquery, qglobal, qrow>>

\* The provider behind the captured handle answers, even if it was replaced.
QueryProvider(c) ==
    /\ qpc[c] = "query"
    /\ qrow' = [qrow EXCEPT ![c] = RowOf(qhandle[c], qquery[c])]
    /\ Step(c, IF qglobal[c] THEN "save" ELSE "done")
    /\ UNCHANGED <<cacheVars, qhandle, qquery, qglobal>>

QueryFails(c) ==
    /\ qpc[c] = "query"
    /\ Step(c, "failed")
    /\ UNCHANGED <<cacheVars, qhandle, qquery, qglobal, qrow>>

\* LruCache::put, with any entry as the victim of a full cache.
Stored(es, cap, e) ==
    LET others == {x \in es : x.key # e.key}
    IN  IF Cardinality(others) < cap
          THEN {others \cup {e}}
          ELSE {(others \ {victim}) \cup {e} : victim \in others}

\* Mutant: the answer is stored under the handle that is current by now.
SaveUnderCurrent(c) ==
    /\ qpc[c] = "save"
    /\ cache' \in Stored(cache, cacheCap,
                         [key |-> Key(provider, qquery[c]), row |-> qrow[c]])
    /\ Step(c, "done")
    /\ UNCHANGED <<cacheCap, qhandle, qquery, qglobal, qrow>>

\* save_result_cache_by_key: no look at the switch, which may be off by now.
Save(c) ==
    /\ qpc[c] = "save"
    /\ cache' \in Stored(cache, cacheCap,
                         [key |-> Key(qhandle[c], qquery[c]), row |-> qrow[c]])
    /\ Step(c, "done")
    /\ UNCHANGED <<cacheCap, qhandle, qquery, qglobal, qrow>>

CallerStep(c) ==
    \/ Capture(c) \/ NotInitialized(c) \/ Gate(c) \/ Recheck(c) \/ Peek(c) \/ Hit(c)
    \/ Expired(c) \/ PopExpired(c) \/ QueryProvider(c) \/ QueryFails(c) \/ Save(c)

QueryNext ==
    \/ \E i \in Loaders : RegistryStep(i) /\ UNCHANGED <<readerVars, callerVars>>
    \/ \E i \in Loaders : ConfigureStep(i) /\ UNCHANGED <<vars, callerVars>>
    \/ \E c \in Callers : CallerStep(c) /\ UNCHANGED <<vars, configVars, configurerVars>>

QuerySpec == QueryInit /\ [][QueryNext]_queryVars

-----------------------------------------------------------------------------
(***************************************************************************)
(* Properties                                                              *)
(***************************************************************************)

ConfigType == [enabled : BOOLEAN, capacity : Nat \ {0}, ttl : Nat \ {0}]

\* Types of the cache, its configuration and the callers; NonZeroUsize::new
\* in configure_result_cache never sees a zero.
QueryTypeOK ==
    /\ cacheConfig \in ConfigType
    /\ cacheEnabled \in BOOLEAN
    /\ cacheTtl \in Nat \ {0}
    /\ cache \subseteq Entry
    /\ cacheCap \in Nat \ {0}
    /\ cpc \in [Loaders -> {"config", "enabled", "ttl", "reset", "done"}]
    /\ cconf \in [Loaders -> ConfigType]
    /\ creset \in [Loaders -> BOOLEAN]
    /\ qpc \in [Callers -> {"idle", "gate", "recheck", "peek", "expiry", "pop", "query",
                            "save", "done", "failed"}]
    /\ qhandle \in [Callers -> Handle]
    /\ qquery \in [Callers -> Queries]
    /\ qglobal \in [Callers -> BOOLEAN]
    /\ qrow \in [Callers -> Row]

\* Every entry of the result cache holds what the handle its key names said of
\* the query its key names, however the save was delayed and whatever was
\* installed, disabled or reset meanwhile.
CacheHonest ==
    \A e \in cache : e.key = Key(e.row.handle, e.row.query)

\* Loads that do not overlap: once configure_result_cache is through, the three
\* cells, the capacity of the LruCache and what it holds agree with the
\* configuration that snapshot() reports.
ConfigurationSettles ==
    (\A i \in Loaders : ~ Configures(i) \/ cpc[i] \in {"config", "done"}) =>
        /\ cacheEnabled = cacheConfig.enabled
        /\ cacheTtl = cacheConfig.ttl
        /\ cacheCap = cacheConfig.capacity
        /\ Cardinality(cache) <= cacheConfig.capacity

StatusOf(label) ==
    CASE label = "idle"   -> "idle"
      [] label = "done"   -> "answered"
      [] label = "failed" -> "failed"
      [] OTHER            -> "pending"

Direct == INSTANCE DirectQuery WITH
    Handles  <- Handle,
    NoAnswer <- NoRow,
    status   <- [c \in Callers |-> StatusOf(qpc[c])],
    asked    <- [c \in Callers |-> RowOf(qhandle[c], qquery[c])],
    answer   <- [c \in Callers |-> IF qpc[c] = "done" THEN qrow[c] ELSE NoRow]

\* The result cache is transparent: seen from its callers, the runtime with
\* the cache is one in which every call asks the provider it captured.
CacheTransparent == Direct!Spec
=============================================================================
