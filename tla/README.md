# A TLA+ verification of wp-knowledge

wp-knowledge is a library that answers lookups for a log pipeline: it holds one
or several *providers* (in-memory SQLite, PostgreSQL, MySQL, Redis), replaces
them while queries are running, and puts three caches in front of them. Its code
is called from many threads at once and few of its operations hold a lock from
beginning to end. This project models the parts in which that matters, checks
them with TLC on small instances, and proves the central properties with TLAPS
for instances of every size.

Paths such as `runtime.rs` are under `src/src/`, and `provider-cache.md`,
`refresh.md`, `redis-provider.md` are the documents under `src/docs/en/`.

## 1. Inventory

### Components

| component | state it keeps | operations | used by |
|---|---|---|---|
| Provider registry (`runtime.rs`, filled by `facade.rs`) | `next_generation`, `named_providers` and its epoch, the default slot `provider`, `provider_epoch`, `current_generation_value`, reload counters | `install_provider_named`, `prune_named_providers_except`, `current_generation`, `provider_by_name`, `provider_exists` | everything below |
| SQL routing (`sql_route.rs`) | a process-wide memo labelled with the registry's epoch | `route_provider_sql` | facade queries |
| Query runtime and result cache (`runtime.rs`) | `result_cache`, its configuration and two atomics that mirror it | `execute*`, `execute*_async`, `configure_result_cache` | facade queries, `init_thread_cloned_from_knowdb` |
| Local query cache (`cache.rs`, `cache_util.rs`) | interning tables, an LRU of rows, a generation label per scope | `prepare_generation_scoped`, `fetch_scoped`, `save_scoped` | `cache_query_fields*` (facade), `cache_query_impl` |
| Refresh service (`refresh.rs`) | `TableStore`, one task per table, a bounded signal channel | `spawn`, `run_spec`, `snapshot`, `shutdown` | the host |
| Redis lookups and `[fun]` services (`redis.rs`, `fun.rs`, `facade.rs`, `runtime.rs`) | connection registry, `FUN_MAP`, Redis result cache and its switch | `redis_*`, `external_*`, `configure_redis_cache`, `init_with_opts` | pipeline functions |
| Configuration and table loader (`loader.rs`) | the authority database file | `parse_knowdb_conf`, `build_authority_from_knowdb`, `reload_table_rows` | facade init, refresh |
| SQLite providers (`mem/`) | in-memory database, per-thread clones, column metadata cache | `MemDB::*`, `ThreadClonedMDB::*` | registry |
| PostgreSQL, MySQL providers (`postgres.rs`, `mysql.rs`, `provider_runtime.rs`, `pool_config.rs`) | a runtime and a pool per provider | `connect`, `query*`, placeholder rewriting, value conversion | registry |
| Variable evaluation language (`vel.rs`) | none | `parse`, `eval`, `resolve_vars`, `render` | refresh |
| Parameters and formats (`param.rs`, `field_format.rs`), SQLite functions (`sqlite_ext.rs`) | none | pure functions | providers |
| Intranet networks (`intranet_nets.rs`) | the parsed section, and a set of networks frozen at first use | `set_intranet_nets_conf`, `is_intranet`, `init_intranet_nets` | pipeline functions |
| Telemetry (`telemetry.rs`), errors (`error.rs`) | a callback slot; none | | |

### How they interact

A load (`init_thread_cloned_from_knowdb`, or one of the direct `init_*` calls)
installs one provider after the other, configures the result cache and prunes
the registry; nothing makes two loads exclude each other. A query first routes
its text (registry epoch, memo, registry), then captures a handle and keeps it
whatever is installed meanwhile; the result cache is shared by all queries and
keyed by the handle's generation. The local cache belongs to one caller and sits
in front of all that, labelled with the generation read before the query. Redis
lookups use the generation of the default *SQL* provider in their cache keys and
obey two switches, one of them the SQL result cache's. The refresh service runs
beside all of it on the tokio runtime. Local loads and table refreshes write the same
authority file, which every querying thread copies for itself when it first meets a
generation.

### What is hard

* **Concurrency without a common lock**: the swap of the default slot and its
  lock-free reader; the registry and its epoch, which move one after the other;
  three configuration cells and the cache they describe; answers that are stored
  long after the state they were computed from is gone.
* **Failure part-way**: a load with several providers fails at a later one, a table load
  fails after the table was cleaned.
* **Ordering**: older rows after newer ones, signals before the data they announce.
* **Limits**: the interning tables run out of numbers in the middle of a row, the
  memo and the caches are full, the signal channel is full because the host stalls.
* **Termination**: shutdown with tasks in the middle of a reload; a provider dropped while
  tasks run on its runtime.
* **Boundaries of pure functions**: literals and comments in SQL, names that prefix one
  another, periods that end, integers past `i64`, the ends of the address space.

### What makes each component correct

* Registry: a generation names one handle; a lock-free read returns a generation
  the slot really had; a completed load leaves exactly its configuration.
* Routing: an answer the registry would have given during the call.
* Result cache: invisible to callers.
* Local cache: a row of the caller's own parameters, of a generation current
  during the call.
* Refresh: the store only goes forward, signals are not ahead of it, a stalled
  host does not stop it, a live host catches up, shutdown ends it.
* Redis: an answer to the caller's own question (beside a service that borrows a cache
  tag: to it or to the other command with its result type), not older than the current
  generation; a cache that is off is not used; the pool is never exchanged.
* Authority: what a thread answers under a generation is not older than what that
  generation's load read, and whole; a refresh returns one whole version.
* SQL providers: rows under the names of their own query and provider, session settings
  on every connection, connections that come back, callers that are not cut off.
* Statements: every name gets its own value and nothing else changes; the text a provider
  is sent still names the table that chose the provider.
* Templates, values, ranges: whole names, labels that last a bucket, values that mean
  afterwards what they meant before, ranges that are the blocks.
* Intranet networks: a host never changes sides.

The hazards, each at its line, are listed in `PROJECT.json`.

## 2. The modules

```
ProviderRegistry ──┬── RouteMemo ───────── MCRouteMemo          QueryPathProofs
                   ├── QueryRuntime ────── MCQueryRuntime       QueryPathProofs
                   │      └ implements DirectQuery
                   └── MCProviderRegistry                       ProviderRegistryProofs
FieldQueryCache ────────── MCFieldQueryCache                    FieldQueryCacheProofs
Refresh ────────────────── MCRefresh                            RefreshProofs
RedisLookup ────────────── MCRedisLookup                        RedisLookupProofs
Authority ──────────────── MCAuthority                          AuthorityProofs
SqlProvider ────────────── MCSqlProvider                        SqlProviderProofs
SqlText ─── Vel ──┐
IntranetNets ─────┼─ HostFunctions ── MCHostFunctions           HostFunctionsProofs
SqlValues ────────┤
SqliteExt ────────┘
```

`RouteMemo` and `QueryRuntime` extend `ProviderRegistry`: their next-state
relations contain the registry's own loader steps, so every interleaving of a
query with a load is one of the model. `FieldQueryCache`, `RedisLookup` and `Authority`
use of the registry only what is shown there (a provider's generation grows with loads);
`Refresh` uses of `Authority` that a reload returns one version of its source
(`ReloadReturnsSource`). `SqlProvider` takes the load of a provider from the registry as one
step and leaves texts and values to `SqlText` and `SqlValues`. `QueryPathProofs` holds the theorems about the two things a query
meets before its provider, the routing memo and the result cache: both rest on the same facts about
the registry's steps.

Conventions. Every access to an atomic or to the content of a lock is one
action. `pc`-like variables name the next access. A generation or number 0 stands
for `None`, as it does in the atomics of the code. Definitions commented
`Mutant:` are broken variants of the definition after them, one for every
property, with which it is shown that the property can fail; no specification
uses them. Variables commented `history` record what a property needs and
influence nothing.

### ProviderRegistry

A *plan* is what one init call does: the specs it installs in order, the one
that becomes the default, whether it prunes and what it keeps
(`SqldbPlan`, `RedisPlan`, `LocalPlan`, `DirectPlan` compute it from the
configuration as `facade.rs` does). `TakeGeneration` to `EndSwap` are
`install_provider_named` access by access: the generation counter, the build, the
registry, the registry's epoch, then for a default provider the odd epoch, the
slot, the published generation and the even epoch. `BuildFails` leaves the init
call through `?`, with the specs before it installed. `ReadEpochBefore`,
`ReadValue`, `CheckEpochAfter` and `ReadProviderSlot` are `current_generation()`.
The datasource id is the provider's name; the executor is told apart by the
loader that built it.

### RouteMemo

`route_provider_sql` in four steps: epoch, memo under its read lock, registry,
memo under its write lock. The text scanner is here a function `FirstSegment` from
texts to names; what it computes is in `SqlText`.

### QueryRuntime and DirectQuery

`Capture` to `Save` are `execute*_with_handle`: both reads of
`result_cache_enabled`, the clone under the read lock, the expiry, the pop by key
under the write lock, the provider, the store. `WriteConfig` to `ResetCache` are
`configure_result_cache`. `DirectQuery` is the promise: a call is bound to one
handle and fails or answers with what that handle says of the query. A query
stands for (sql, params, mode): their hashes are taken to be injective. A dropped
async call is a caller that takes no more steps.

### FieldQueryCache

One cache and its owner. `TryUpIdx` interns one parameter and may reset
everything first; `InternParam` is one turn of the loop in `save_scoped`, so the
reset may come between two parameters of a row. Scopes in `Prepared` are used
through the facade, which announces the generation; the others directly. Named
providers that are unavailable end a routed call before it touches the cache and
are not modelled.

### Refresh

One task per kept spec, the store, the channel and the host. The rows of a table
are named by the version of the source they were read from. An aborted task may
end at each of its awaits, that is anywhere but between `insert` and `try_send`;
the read of the source and the swap into the store are separate steps.

### RedisLookup

A *question* is a Redis command with its key and argument; the server keeps a
version of its answer. Typed calls and `[fun]` services differ in their cache tag,
argument, ttl and switch, as in `facade.rs`: a cached `sismember` service uses the entries
of `bf_exists`, and a cached `hget` service those of `get` (`facade.rs:431`, `:453`). Loads take one of the three branches
of `init_thread_cloned_from_knowdb`. `redis_bf_add` and other clients are
`ServerChanges`.

### Authority

The authority file and the threads' copies of it. A writer is a call of
`build_authority_from_knowdb` (all enabled tables in order, then a provider of a new
generation) or of `reload_table_rows` (one table, then its rows are selected). `Clean`,
`Open`, `CommitBatch` and `TableDone` are `load_one_table`: the table is cleaned, and that
is committed, before the data file is looked for; the rows are committed in batches;
`Fails` leaves from any of these points with what was committed. The rows of a table are
named by the version of the data file and the batch they came in; skipped bad rows are not
part of a version. `Capture`, `Reuse`, `Rebuild` and `RebuildFails` are `with_tls_conn` of one
thread. A SQLite backup starts again when another connection commits under it, so a copy
is one step. There is one authority path.

### SqlProvider

The default provider through its life: dialling, validation, installation, calls, and the
drop of its runtime when nobody holds it any more. `Alive` says who does: the slot, the
load, and every caller that waits; a spawned task does not (`run_task` clones the pool, not
the provider). `Abandon` is a dropped future, after which `Cancel` may strike the task once
the provider is gone. `Dial`, `ApplySet`, `Connected` and `Close` are the pool as the code
sets it up, with `after_connect` statement by statement. `PeekHit`, `PeekMiss` and `PutNames`
are the column metadata cache, keyed by generation and query, around `Describe` (an empty
result of a server), the first row (a result with rows) or `Prepare` (SQLite).
`Prepare` is `prepare_cached`: the statement may be one that was kept since any earlier
schema. `CallUnscoped` is a direct call of a `MemDB`, with any statement; it prepares, then
reads the scope of the moment in a step of its own. Rows and names carry the version of the
schema they came from, names also the provider that gave them, or 0 for a direct call.
`Plans` are the kinds of provider that are installed one after the other.

### SqlText

Texts are sequences of symbols, each a byte or a word. `Lexemes` cuts a text for one of the
three scans the code has; they differ in what they take for a quote. On it stand
`rewrite_postgres` and `rewrite_mysql`, `find_keyword`, `matching_paren`,
`first_table_name`, `strip_provider_prefix` and `compute_route`. A character of two bytes is
copied as two characters where the code does so (`bytes[i] as char`).

### Vel

A code of assignments, its errors, evaluation at a time, resolution in a template. `MaxU64`
is small enough for the saturating products to saturate.

### IntranetNets

`INTRANET_NETS_CONF`, replaced by every parse of a configuration, and
`INTRANET_NETS_SET`, built from it by the first judgement and never again.

### SqlValues

How a field is bound by each database, directly, through named parameters or through a
`QueryRequest`, and how a column is decoded. A value carries its form: itself, its digits,
its text, its debug text, hex.

### SqliteExt

The functions on IPv4 addresses and CIDR blocks, for addresses of `Bits` bits.

### HostFunctions

One state space for the five modules before it. An initial state chooses what is exercised:
statements grow by fragments, a clock ticks for a phase, each value and each block is a state, and
the intranet networks take their steps. `DriverScan`, `PgMarks` and `MySqlMarks` are how a
database reads what it is sent, in as far as the rewriter relies on it.

What the models make plain, without a run of their own:

* statements with characters of several bytes are garbled by `rewrite_sql` (`postgres.rs:606`,
  outside names) and, when they are routed, by `strip_provider_prefix` (`sql_route.rs:336`,
  outside literals); the properties about texts exclude them (`Plain`);
* a comment between `FROM` and the table is taken for the table, although `sql_route.rs:230`
  says comments are skipped: such a statement goes to the default provider;
* nested comments and numbered placeholders of PostgreSQL, and backslash escapes of MySQL, are not
  known to the scans; the driver's own placeholders are excluded by `Plain`;
* the scan that strips a prefix does not know dollar quotes and takes the prefix out of them too;
  `RoutedTextKeepsItsTable` says that literals in quotes, backticks and brackets stay whole;
* a placeholder written right behind a `$` or a name grows together with it (excluded by `Plain`);
* `init_intranet_nets` reports the section of now, also when it is disabled or came after the
  set was built (`intranet_nets.rs:174`);
* a load that fails after parsing has replaced the intranet section (`loader.rs:532`);
* with a bucket that does not divide the period, `phase_next` can pass over the short last slot;
* an address that does not parse lies in every range that reaches 255.255.255.255, and a
  block that does not parse holds 0.0.0.0 (`sqlite_ext.rs:73`, `:32`); `RangesMatchBlocks` says
  that these are the only differences;
* a big integer is bound as a text by SQLite and through named parameters and requests, a
  boolean comes back from SQLite and MySQL as an integer;

* a load whose second spec fails has replaced the default provider already
  (`facade.rs:940`; the comment at `facade.rs:937` accepts it, `provider-cache.md:131` does not);
* a cached `false` of `redis_bf_exists` outlives the addition of the item, also the one
  through `redis_bf_add`, although `facade.rs:336` says "definitely does not";
* a table refresh rewrites the authority without a new generation, so two threads may
  answer differently under one generation;
* two writers of one table at a time interleave clean and insert and double its rows;
  an aborted refresh leaves such a writer running (`spawn_blocking`, `refresh.rs:285`);
* with a Redis-only configuration `current_generation()` is `None`, so the Redis
  cache is never used;
* a second load with `[provider.redis]` always ends with "already registered", and
  `[fun]` is fixed by the first one;
* `[provider.redis]` beside `[provider.sqldb]` (`redis-provider.md:28-41`) is skipped,
  since the sqldb branch returns (`facade.rs:973`);
* a configuration without a spec called `default` leaves nothing registered under
  that name (`facade.rs:935`, cf. the comment at `runtime.rs:271`);
* a cached `sismember` service and the lookups that use the entries of `bf_exists`, and a
  cached `hget` service and those that use the entries of `get`, answer one another's question on the
  same key and argument; `AnswerFitsQuestion` says that nobody else is touched;
* the names of a direct `MemDB` call are kept under the generation of the moment, where the
  provider's calls with the same text find them, and a statement that SQLite kept can have
  its columns from before a load. So "metadata cache invalidates naturally when generation
  changes" (`provider-cache.md:129`) holds of the names that a server's provider put there itself.

## 3. The runs

| run | instance | what it shows |
|---|---|---|
| `registry_serial` | 1 loader, 1 reader, 2 names, all 8 init calls, no new load after generation 3 | `CurrentGenerationLinearizable`, `DefaultOnlyGetsYounger`, `LoadEstablishesConfiguration` |
| `route_memo` | 2 loaders that install and prune one name, 2 routers, 2 texts, memo of 1 | `TypeOK`, `GenerationIdentifiesHandle`, `ReloadsAccounted` with overlapping loads; `MemoFresh`, `RouteLinearizable`, `MemoWithinCap` |
| `query_cache` | 1 loader, 2 callers, 1 query, 3 configurations (larger, off, zeros) | `QueryTypeOK`, `CacheHonest`, `ConfigurationSettles`, and the refinement `CacheTransparent` |
| `local_cache_facade` | 2 scopes, 3 internable values and one of a type without a table, numbers up to 2, 2 rows | `CacheInv`, `AnswerMatchesCall`, `AnswerIsFresh` |
| `refresh` | a table given twice, one with a zero interval, channel of 2, 3 versions | `RefreshInv`, `StoreNeverGoesBack`, `StoreFollowsSource`, `HostFollowsSource`, `ShutdownCloses` |
| `redis` | 1 caller, 2 loaders, one key asked with all four commands by typed calls, four cached services and an uncached one, 2 urls, SQL and Redis loads with the cache on and off, 2 generations | `ServicesInv`, `AnswerOfThisGeneration`, `DisabledBypassesCache`, `AnswerFitsQuestion`, `PoolIsStable` |
| `authority` | 1 writer, 1 thread, 2 tables of 2 batches, 2 versions of each data file, 2 generations | `CopiesInv`, `ReloadIsSeen`, `ReloadReturnsSource` |
| `sql_provider` | 2 calls, 2 queries, PostgreSQL replaced by SQLite or SQLite by MySQL, direct calls of a `MemDB`, a pool of 1, one SET, metadata cache of 1, one change of the schema | `PoolsInv`, `RowsLabelledInGeneration`, `SessionOnEveryQuery`, `NoCancelledAnswer` |
| `host_functions` | all texts of up to 5 fragments, every instant of a `u64` of 0..20, a second of 2 ticks, periods and buckets up to 12 s, integers of 4 bits, addresses of 3, 4 sections of networks | `PlaceholdersBindTheirNames`, `RoutedTextKeepsItsTable`, `LabelsServeABucket`, `ValuesKeepTheirMeaning`, `RangesMatchBlocks`, `OneAnswerPerHost`, `BuiltinStayInside` |
| `registry_overlap` | 2 loaders | **violated**: `GenerationIsCurrent` |
| `local_cache_direct` | 1 direct scope, 4 values, numbers up to 3 | **violated**: `DirectAnswerMatchesCall` |
| `authority_failed_load` | as `authority` | **violated**: `FailedLoadKeepsData` |

A property called `…Inv` is the module's type invariant together with the invariant the other
properties rest on: `CacheInv` adds `NumbersDistinct` and `LabelledRowsHonest`, `RefreshInv`
`SignalNeverAhead`, `ServicesInv` `ServicesMatchPool`, `CopiesInv` `CopiesWhole`, `PoolsInv`
`ConnectionsReturned`. `SlotAgrees` and `RouteTypeOK` are proved (section 4) and not checked again.

Why the bounds are enough to be interesting:

* Two names cover every shape of an init call: with and without `default`, one or two
  specs, pruning something, nothing, everything. Three generations let a load fail
  between two that succeed; two overlapping loads are enough to put every step of one
  between any two of the other.
* A memo of one entry is at its cap with the first answer. Two routers let a slow one
  write after a fast one, backwards in epoch.
* Capacity 1 growing to 2 makes the result cache evict, reset and be reset under a
  caller; two generations let an answer arrive under a replaced handle.
* Numbers up to 2 run out inside a row of two parameters. In `local_cache_direct` a
  number must be stranded, handed out again and asked for, hence 3 numbers and 4 values.
* A channel of 2 can be full while the host is pulling; 3 versions let a source change
  before and after a signal is dropped.
* Threads only read the authority, so one thread beside a writer shows what any number
  would; two tables let one be broken or half loaded while the other is whole, two batches
  let a copy see one of them.
* One Redis caller makes calls one after the other beside two loads, so that its entries
  of one generation are there when it asks under the next, and the entry a typed call left is there
  when a service that borrows its tag asks. With a second caller beside two
  loaders the instance is out of reach.
* A pool of one connection makes a second call wait, time out, or be abandoned while it
  waits; two calls let a task of the replaced provider put its names while a call of the new
  one looks for its own; a metadata cache of one entry evicts with every second name.
  A server replaced by a server is too large for TLC beside the direct calls and is left to the
  theorems, which hold for any `Plans`.
* Five fragments open a quote, a comment or a dollar quote, put a name and its repetition in
  it, and close it; or open a subquery with its own `FROM` and a table behind it. A clock of 10
  seconds passes the end of every short period several times, periods and buckets of 11 and 12
  seconds saturate, and four bits hold the integers on both sides of `i64::MAX`.
* Symmetry is used for callers, loaders, routers and tasks only, in runs without liveness.
* Deadlock is checked in all passing runs but `refresh`, where the service really ends, and
  `host_functions`, where texts and clocks end at their bounds.

### Disagreements met while modelling

* `registry_overlap`: between the slot swap and the store of the published generation of
  one load, another load can do both; afterwards `current_generation()` reports a
  generation the default provider does not have, with no load in progress, until the next
  install. The parity of `provider_epoch` cannot show it: two increments make it even.
* `local_cache_direct`: a reset of the interning tables between two parameters of one save
  stores the row under a number of before the reset; without announced generations the
  row is found later by a call with other parameters. Through the facade this cannot
  happen (`LabelledRowsHonest`): the reset also removes the label, and an unlabelled scope
  is emptied by the next announcement.
* `authority_failed_load`: a load or table refresh that fails after the cleaning (no data
  file, a bad record, too few rows) leaves the authority with an empty or partly filled table
  while the old provider stays installed; a thread that copies it now answers without those
  rows. `provider-cache.md:131`: "reload failure must keep the old provider alive; runtime must
  not enter a half-initialized state".

As long as loads do not overlap, dropping the second read of `provider_epoch` from
`current_generation()` leaves `CurrentGenerationLinearizable` true in the instance of
`registry_serial`: a value that moves after an even epoch was read was current at the
beginning of the call or is current later in it.

### Fairness

Only `Refresh` has liveness properties. `FairTasks` is what tokio gives: a task that can
move is polled again, an interval ticks, an aborted task ends at an await, and, as strong
fairness, a reload that is tried for ever is not unsuccessful for ever. Nothing is assumed
of the host in `StoreFollowsSource`; `HostFollowsSource` and `ShutdownCloses` are stated
under `FairHost`, a host that goes on receiving and pulling. Sources change at most
`MaxVersion - 1` times, so "catches up" is "for good, once the source is stable".

`HostFollowsSource` is checked with one refreshed table. With several it is false: the
signals of one table can find the channel full of another's again and again. `refresh.md`
leaves that to the next signal or to the host's own polling (24, 155-160, 188-190).

## 4. What is proved

TLAPS checks the following for every value of the constants: any number of loaders, readers,
routers, callers, tasks and threads, any names, texts, queries, parameters, tables, networks,
configurations and init calls, integers and addresses of any width, and any capacities and bounds.

| theorem | statement | argument |
|---|---|---|
| **Registry** | | |
| `TypeCorrect` | `Spec => []TypeOK` | inductive as it stands |
| `GenerationsIdentifyHandles` | `Spec => []GenerationIdentifiesHandle` | inductive with types: only `TakeGeneration` makes a handle live, and with a generation above all others (`LiveShrinks`, `LiveGrows`) |
| `ReloadsAreAccounted` | `Spec => []ReloadsAccounted` | the set of installs in progress is finite (each step adds or removes one loader), so its cardinality follows the counters |
| `GenerationReadsLinearizable` | `OneLoader => (Spec => [](SlotAgrees /\ CurrentGenerationLinearizable))` | `SwapInv` (the epoch is odd during a swap; slot and published value agree but between the two stores) and `ReadInv` (an unmoved even epoch means an unmoved value) |
| `DefaultGetsYounger` | `OneLoader => (Spec => DefaultOnlyGetsYounger)` | `AgeInv`: a load before its swap holds a generation above the slot's |
| `LoadsEstablishTheirConfiguration` | `OneLoader => (Spec => LoadEstablishesConfiguration)` | `Progress(i)`: the specs behind a load are registered under their own names, the default among them is in the slot |
| **Routing** | | |
| `RouteTypeCorrect` | `RouteSpec => [](TypeOK /\ RouteTypeOK)` | with `TypeOK` |
| `MemoNeverStale`, `RoutesAreFresh` | `RouteSpec => []MemoFresh`, `RouteSpec => []RouteLinearizable` | `RouteInv`: an answer under label *e* is right as long as the epoch is *e* and no install is half-published; the same is carried for routers between their reads and their write |
| `MemoStaysWithinCap` | `RouteSpec => []MemoWithinCap` | finiteness of the memo's domain is carried along |
| **Result cache** | | |
| `QueryTypeCorrect` | `QuerySpec => []QueryTypeOK` | with `TypeOK` |
| `CacheStaysHonest` | `QuerySpec => []CacheHonest` | `QueryInv`, below |
| `ResultCacheTransparent` | `QuerySpec => CacheTransparent` | refinement of `DirectQuery` under `QueryInv`, one case per action |
| `ConfigurationsSettle` | `OneLoader => (QuerySpec => []ConfigurationSettles)` | `ConfigInv`: which cells agree after each write; a cache that is not reset has the right capacity already; a store never takes a cache past its capacity |
| **Local cache** | | |
| `LocalCacheSound` | `Spec => []CacheInv` | `CacheIInv`, below |
| `FacadeAnswersMatch` | `Spec => [](call.scope \in Prepared => AnswerMatchesCall)` | from it |
| `FacadeAnswersFresh` | `Spec => []AnswerIsFresh` | from it |
| **Refresh** | | |
| `SignalsFollowRows` | `Spec => []RefreshInv` | `RefreshIInv`: what a task has read lies between the store and the source, and no two tasks serve one table |
| `StoreMovesForward` | `Spec => StoreNeverGoesBack` | from the same |
| **Redis** | | |
| `ServicesOfThePool` | `Spec => []ServicesInv` | `RedisIInv`, below |
| `LookupsOfTheirGeneration` | `Spec => []AnswerOfThisGeneration` | an entry is not older than the beginning of the generation in its key (`EntriesOK`), whichever lookup is about to store it (`CallOK`) |
| `DisabledCacheIsBypassed` | `Spec => []DisabledBypassesCache` | a lookup that found the switch off never looks into the cache |
| `LookupsAnswerTheirQuestion` | `Spec => []AnswerFitsQuestion` | an entry came from a typed call of its tag or from a service of `[fun]`, which is set once (`KeptUnder`, `KeptUnderStands`); two questions kept under one tag, key and argument are the same, or one is of a service that borrows the tag (`OneEntry`) |
| `PoolStands` | `Spec => PoolIsStable` | what is registered has a pool, and both are written only where there was none |
| **SQL providers** | | |
| `NoConnectionLeaks` | `Spec => []PoolsInv` | `ProviderIInv`, below |
| `SessionAlwaysSet` | `Spec => []SessionOnEveryQuery` | an open connection has the SETs it was given so far, an idle or busy one all of them |
| `CallersAreNotCancelled` | `Spec => []NoCancelledAnswer` | a caller that waits keeps its provider, and so the runtime of its task, alive |
| `RowsAreLabelled` | `Spec => []RowsLabelledInGeneration` | `GoodNames`: an entry has names of its query that the provider of its generation gave, or a direct call; those of a server come from its rows or a describe, so not from before its load (`Fits`) |
| **Loader** | | |
| `CopiesAreWhole` | `OneWriter => (Spec => []CopiesInv)` | `AuthorityIInv`, below |
| `QueriesSeeTheReload` | `OneWriter => (Spec => []ReloadIsSeen)` | nothing in the file is older than what any load read (`FileOK`), and a copy is one of the file |
| `ReloadsReturnTheSource` | `OneWriter => (Spec => []ReloadReturnsSource)` | the table being filled holds the first parts of one version (`PresentOK`), opened after the reload began |
| **Intranet networks** | | |
| `HostsKeepTheirSide` | `NetsSpec => []OneAnswerPerHost` | `NetsInv`: all answers are answers of the one set |
| `BuiltinHostsStayInside` | `NetsSpec => []BuiltinStayInside` | the set holds the builtin networks or is that of a replacing section (`BuiltNets`) |
| `FunctionsImplementNets` | `FunctionsSpec => NetsSpec` | every other step of the host leaves the networks alone |
| **Templates, values, ranges** | | |
| `LabelsServe` | `FunctionsSpec => []LabelsServeABucket` | a slot is the number of its bucket, counted round the period (`SlotIsBucket`), and an instant up to a bucket later lies in the same bucket or the next (`NextBucket`, `SlotServesABucket`) |
| `MeaningSurvives` | `FunctionsSpec => []ValuesKeepTheirMeaning` | by the forms a value takes on each way; only integers past `i64::MAX` change theirs |
| `BoundsAgreeWithBlocks` | `FunctionsSpec => []RangesMatchBlocks` | a block is aligned because its size divides the address space: 2^(i+j) = 2^i 2^j (`PowerSum`), below |
| **Statements, for any text** | | |
| `ScansCoverTheText` | every symbol is in exactly one lexeme of any of the scans, and none runs past the end | a lexeme ends in the text wherever it begins (`LexemeEndWithin`), and one more lexeme in front of a cut of the rest is a cut (`OneMoreLexeme`) |
| `LexemesAreTheText` | the pieces put together are the text | each lexeme begins where the one before ends (`LexemesAdjoin`) |
| `PlaceholdersOfAnyText` | what `rewrite_postgres` and `rewrite_mysql` return: the error, or the text with `$n` or `?` for each name, and the values bound | `LoopInv`, below |
| `RewritersRefuseTheSame` | both return the error just when a name has no parameter | from the last |
| `NamelessStatementsUnchanged` | a text without names, of one-byte symbols, is returned as it is | nothing is written but the pieces, which are the text |

The inductive invariants, and why the properties do not do without them:

* `QueryInv`: a caller may hold a handle, and the cache a row, of a provider that nothing in the
  registry knows any more. That a generation identifies a handle must therefore be known of *all*
  handles ever captured or cached (`KnownIdentified`), not only of the live ones.
* `CacheIInv`: a reset in the middle of a save leaves numbers in `idxs` that mean other parameters
  by now. The invariant says that this strands only callers whose scope has lost its label:
  while a scope is labelled, the numbers of a save in progress are the numbers of its parameters
  (`SaveInv`), and labels are never ahead of the provider (`LabelsBehind`).
* `RedisIInv`: an entry may stem from any lookup that shares its tag, key and argument, so the
  invariant keeps for each entry and each lookup which they are (`KeptUnder`). Entries and answers are compared with what Redis said when the generation *began*
  (`born`), which is only comparable because it never overtakes the server (`BornBehind`); a
  load that registered a url is the one whose services may be set (`LoaderOK`).
* `ProviderIInv`: one record per task says which connection it holds, in which state the pool has
  it, whether a caller still waits and which provider it keeps alive (`CallOK`), and the pool side
  says the converse (`PoolOK`); a leak is a state that one side knows and the other does not.
* `AuthorityIInv`: a table is whole unless somebody is at work on it or broke it; what the
  writer at work has done is described step by step (`WriterOK`, `PresentOK`), since a thread may
  copy the file after each of its commits.
* The pure functions need only that their inputs stay what `FunctionsInit` chose (`InputInv`); the
  work is in the lemmas. The provers know no powers, so `PowerSum` counts: the subsets of a union of
  two disjoint sets are as many as the pairs of subsets. Resolving the template of two
  placeholders is unfolded symbol by symbol (`FlattenSix`, `ResolvedTemplate`).
* `LoopInv`: after each lexeme the names bound are the names met so far, without repetition for
  PostgreSQL and in the order of the occurrences for MySQL, and the list of names only ever grows at
  its end. Without that last part a number written early would say nothing about the list that is
  bound at the end (`NumbersStand`). The library's induction theorems cannot be instantiated by the
  provers, so the inductions go through the least number outside a set (`LeastNatural`,
  `AllNaturals`); and since TLA+ takes a recursive function to be whatever satisfies its equation, the scan,
  the fold and the flattening are first shown to exist (`ScanExists`, `FoldExists`,
  `FlattenExists`).

Assumptions on the constants, beside their types: `Default` is a name and `NoName` is not; an
init call that prunes keeps the names of its specs and has its default among them
(`facade.rs:930-935`: `validate_specs`, and a non-empty list); sets of texts, queries, parameters,
scopes, tables and questions are not empty; capacities that the code clamps or writes as constants
are positive; a Redis `GET` has no argument; a network holds addresses of its own version;
the symbols of the template are letters, digits and marks as in the code; an address that does not
parse is no address; and the values that stand for "none" are none of the others. TLC evaluates all of them in the runs.

Hypotheses of single theorems:

* `OneLoader`, loads do not overlap. `registry_overlap` shows that `SlotAgrees` needs it; two
  configurations of the cache at once leave cells of both.
* `OneWriter`, loads and refreshes of the authority do not overlap: two writers double rows.
* `Prepared`, calls through the facade: `local_cache_direct` shows what happens to the others.

Only model-checked:

* the liveness properties `StoreFollowsSource`, `HostFollowsSource` and `ShutdownCloses`: fairness
  and `ENABLED` are out of the prover's reach;
* `PlaceholdersBindTheirNames` and `RoutedTextKeepsItsTable`. What the rewriters write is proved for every
  text (`PlaceholdersOfAnyText`), and so is that they refuse the same ones, a part of the first.
  How the database reads it back is not: that compares the scan of the statement with the scan
  of another text, lexeme by lexeme, and reads a number back from its digits, about which the provers know
  nothing. The second compares a statement with the stripped one in the same way, down into subqueries.

The attempt to prove `LabelsServeABucket` corrected it. It used to say that a bucket longer than its
period is always an error; with a period that saturates at `u64::MAX` the bucket saturates to the
same value and is accepted (`vel.rs` compares the products, not the seconds). The bounds of
`host_functions` now reach that case.

## 5. What is not modelled

* Inside the databases, their drivers and pools: a query answers or fails, a pool opens and
  closes connections, TLS and protocols are third-party.
* Parsing of configuration files and the substitution of names in the loader's SQL
  (`loader.rs`): conversions of text around serde and files.
* `MemDB::table_load` and `check_data`, which the loader does not use; `trim_quotes`;
  `check_intranet_nets_config` and the generated default section.
* Telemetry and errors: a callback slot and types on which no other state depends.
* Hash collisions of cache keys, counters, wording of errors.
* Time: an entry met in a cache may always be too old (if it has a ttl), an interval may
  always be over.
* `redis::close` has no caller.
* Weak memory: the atomics are interleaved. The stores and loads of `current_generation`
  are acquire/release and sequentially consistent reasoning is assumed for them.

## 6. Plan

Done, in this order: registry, routing, query runtime, local cache, refresh, Redis, the
authority file with its copies, the proofs about the first three, the SQL providers with the
metadata cache, the pure algorithms with the intranet networks, the proofs of the safety
properties of every stateful component, those of templates, values and ranges, and those of the scans
and rewriters of statements.

Left, for the proofs:

1. `SqlText`: how the scan of a rewritten or stripped text follows the scan of the statement.
2. `Refresh`: the enabling conditions that its liveness rests on, as invariants (a running task
   always has a step; the channel closes with the last task).
