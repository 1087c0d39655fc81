----------------------------- MODULE RedisLookup ----------------------------
(***************************************************************************)
(* Redis lookups: the facade's redis_* and external_* calls (facade.rs),   *)
(* the [fun] services (fun.rs), the connection registry (redis.rs) and the *)
(* Redis result cache of the runtime (runtime.rs), with configuration      *)
(* loads (init_thread_cloned_from_knowdb) going on beside them.            *)
(*                                                                         *)
(* A question is a Redis command with its key and argument; the server     *)
(* gives a version of the answer, which other clients may change.  Of the  *)
(* SQL side only what lookups see is here: the generation of the default   *)
(* provider, part of every cache key, and the switch of the SQL result     *)
(* cache, which the Redis cache obeys as well.                             *)
(***************************************************************************)
EXTENDS Naturals, FiniteSets

CONSTANTS
    Callers,        \* threads that look up
    Loaders,        \* threads that load configurations
    Words,          \* keys and arguments
    NoWord,         \* no key, or no argument
    Questions,      \* what callers ask Redis
    Changing,       \* the questions whose answers change
    Services,       \* names in [fun]
    NoService,      \* the spec of a name that is not in [fun]
    Confs,          \* configurations: see ConfType
    Urls, NoUrl,    \* connection_uri of [provider.redis]
    MaxGeneration,  \* bound on the SQL loads
    MaxVersion      \* bound on the changes of an answer

BoolCommands == {"bf_exists", "sismember"}
Commands == BoolCommands \cup {"hget", "get"}

\* The other command with the same type of result.
OtherCommand == [bf_exists |-> "sismember", sismember |-> "bf_exists",
                 hget |-> "get", get |-> "hget"]

QuestionType == [cmd : Commands, key : Words, arg : Words \cup {NoWord}]

\* FunSpec; ttl 0 is "no ttl_ms".
SpecType == [call : Commands, key : Words \cup {NoWord}, cache : BOOLEAN, ttl : Nat]

\* What of a configuration matters here: whether it has SQL providers or local
\* tables (sqldb, local), a Redis endpoint, the [cache] section, and [fun].
ConfType ==
    [sqldb : BOOLEAN, url : Urls \cup {NoUrl}, enabled : BOOLEAN, capacity : Nat,
     fun : [Services -> SpecType \cup {NoService}]]

ASSUME QuestionsAssumption ==
    /\ Questions \subseteq QuestionType /\ Questions # {}
    /\ \A q \in Questions : q.cmd = "get" => q.arg = NoWord
    /\ Changing \subseteq Questions
    /\ NoWord \notin Words
ASSUME ConfsAssumption == Confs \subseteq ConfType /\ NoUrl \notin Loaders
ASSUME RedisBounds == MaxGeneration \in Nat /\ MaxVersion \in Nat

VARIABLES
    server,         \* Redis: question -> version of its answer
    generation,     \* current_generation(), 0 for None
    born,           \* history: generation -> what Redis said when it began
    resultEnabled,  \* result_cache_enabled
    globalEnabled,  \* redis_global_enabled
    cache,          \* redis_cache: its entries
    cacheCap,       \* the capacity it was made with
    registered,     \* the url of "knowdb" in RedisRegistry.names, or NoUrl
    pools,          \* RedisRegistry.pools: url -> the loader that connected, or NoUrl
    funMap,         \* FUN_MAP: [fun], or NoService before it is set
    lpc,            \* what each loader does next
    conf,           \* the configuration it loads
    pc,             \* what each caller does next
    call,           \* its question, cache tag and argument, switch and ttl
    gen,            \* the generation it read
    answer,         \* the version it got
    answered,       \* history: the question that version answers
    asked,          \* history: the version current when the call began
    off             \* history: the Redis cache has been off since the call began

dataVars == <<server, generation, born>>
switchVars == <<resultEnabled, globalEnabled>>
cacheVars == <<cache, cacheCap>>
registryVars == <<registered, pools, funMap>>
loaderVars == <<lpc, conf>>
callerVars == <<pc, call, gen, answer, answered, asked, off>>
vars == <<dataVars, switchVars, cacheVars, registryVars, loaderVars, callerVars>>

-----------------------------------------------------------------------------
(***************************************************************************)
(* Calls and cache keys                                                    *)
(***************************************************************************)

\* get has no argument beside its key.
Question(cmd, key, arg) ==
    [cmd |-> cmd, key |-> key, arg |-> IF cmd = "get" THEN NoWord ELSE arg]

\* redis_bf_exists, redis_hget, redis_get, redis_set_exists
TypedCall(q) == [q |-> q, tag |-> q.cmd, arg |-> q.arg, cached |-> TRUE, ttl |-> 0]

\* external_exists and external_value: one tag for each kind of result, and the
\* argument also where the command does not use it.
ServiceCall(spec, arg) ==
    [q      |-> Question(spec.call, IF spec.key = NoWord THEN arg ELSE spec.key, arg),
     tag    |-> IF spec.call \in BoolCommands THEN "bf_exists" ELSE "get",
     arg    |-> arg, cached |-> spec.cache, ttl |-> spec.ttl]

CallType == [q : QuestionType, tag : Commands, arg : Words \cup {NoWord},
             cached : BOOLEAN, ttl : Nat]

\* Mutant: the argument is left out of the key.
CacheKeyWithoutArg(c, g) ==
    [tag |-> c.tag, generation |-> g, key |-> c.q.key, arg |-> NoWord]

\* redis_cache_key
CacheKey(c, g) == [tag |-> c.tag, generation |-> g, key |-> c.q.key, arg |-> c.arg]

KeyType == [tag : Commands, generation : Nat, key : Words, arg : Words \cup {NoWord}]
Entry == [key : KeyType, q : QuestionType, version : Nat, ttl : Nat]

NullConf == [sqldb |-> FALSE, url |-> NoUrl, enabled |-> TRUE, capacity |-> 1,
             fun |-> [s \in Services |-> NoService]]
NullCall == TypedCall(CHOOSE q \in Questions : TRUE)

Init ==
    /\ server = [q \in Questions |-> 0]
    /\ generation = 0
    /\ born = [g \in 0 .. MaxGeneration |-> server]
    /\ resultEnabled = TRUE /\ globalEnabled = TRUE
    /\ cache = {} /\ cacheCap = 1
    /\ registered = NoUrl
    /\ pools = [u \in Urls |-> NoUrl]
    /\ funMap = NoService
    /\ lpc = [i \in Loaders |-> "idle"]
    /\ conf = [i \in Loaders |-> NullConf]
    /\ pc = [c \in Callers |-> "idle"]
    /\ call = [c \in Callers |-> NullCall]
    /\ gen = [c \in Callers |-> 0]
    /\ answer = [c \in Callers |-> 0]
    /\ answered = [c \in Callers |-> NullCall.q]
    /\ asked = [c \in Callers |-> 0]
    /\ off = [c \in Callers |-> FALSE]

-----------------------------------------------------------------------------
(***************************************************************************)
(* Loads                                                                   *)
(***************************************************************************)

Goes(i, label) == lpc' = [lpc EXCEPT ![i] = label]

\* The load returns.
Returns(i) == Goes(i, "idle") /\ conf' = [conf EXCEPT ![i] = NullConf]

\* init_thread_cloned_from_knowdb: SQL providers, else Redis, else local tables.
\* The first branch taken ends the call.
BeginLoad(i) ==
    /\ lpc[i] = "idle"
    /\ \E cf \in Confs :
         /\ cf.sqldb \/ cf.url = NoUrl => generation < MaxGeneration
         /\ conf' = [conf EXCEPT ![i] = cf]
         /\ Goes(i, IF cf.sqldb \/ cf.url = NoUrl THEN "install" ELSE "connect")
    /\ UNCHANGED <<dataVars, switchVars, cacheVars, registryVars>>

\* The default provider gets the next generation (see ProviderRegistry).
InstallDefault(i) ==
    /\ lpc[i] = "install"
    /\ generation < MaxGeneration
    /\ generation' = generation + 1
    /\ born' = [born EXCEPT ![generation + 1] = server]
    /\ Goes(i, "switch")
    /\ UNCHANGED <<server, switchVars, cacheVars, registryVars, conf>>

\* configure_result_cache stores the switch that Redis lookups read, too.
StoreResultEnabled(i) ==
    /\ lpc[i] = "switch"
    /\ resultEnabled' = conf[i].enabled
    /\ Goes(i, "loaded")
    /\ UNCHANGED <<dataVars, globalEnabled, cacheVars, registryVars, conf>>

\* init_with_opts: a pool for this url is there, or a connection is made.
Connect(i) ==
    /\ lpc[i] = "connect"
    /\ Goes(i, "register")
    /\ UNCHANGED <<dataVars, switchVars, cacheVars, registryVars, conf>>

\* The scheme is wrong, the client cannot be made or cannot connect; or an SQL
\* provider cannot be built: the load ends with an error.
LoadFails(i) ==
    /\ lpc[i] \in {"connect", "install"}
    /\ Returns(i)
    /\ UNCHANGED <<dataVars, switchVars, cacheVars, registryVars>>

\* Mutant: a second registration replaces the first.
RegisterAnew(i) ==
    /\ lpc[i] = "register"
    /\ registered' = conf[i].url
    /\ pools' = [pools EXCEPT ![conf[i].url] = i]
    /\ Goes(i, "newcache")
    /\ UNCHANGED <<dataVars, switchVars, cacheVars, funMap, conf>>

\* RedisRegistry::register under the lock; a pool another thread made for the
\* url meanwhile is used instead of the own one.
Register(i) ==
    /\ lpc[i] = "register"
    /\ registered = NoUrl
    /\ registered' = conf[i].url
    /\ pools' = [pools EXCEPT ![conf[i].url] = IF @ = NoUrl THEN i ELSE @]
    /\ Goes(i, "newcache")
    /\ UNCHANGED <<dataVars, switchVars, cacheVars, funMap, conf>>

\* Mutant: a load that comes second goes on to its [fun] section.
AlreadyRegisteredGoesOn(i) ==
    /\ lpc[i] = "register"
    /\ registered # NoUrl
    /\ Goes(i, "fun")
    /\ UNCHANGED <<dataVars, switchVars, cacheVars, registryVars, conf>>

\* "redis provider 'knowdb' already registered": the load ends here.
AlreadyRegistered(i) ==
    /\ lpc[i] = "register"
    /\ registered # NoUrl
    /\ Returns(i)
    /\ UNCHANGED <<dataVars, switchVars, cacheVars, registryVars>>

\* configure_redis_cache: a new cache, then the switch.
NewRedisCache(i) ==
    /\ lpc[i] = "newcache"
    /\ cache' = {}
    /\ cacheCap' = IF conf[i].capacity = 0 THEN 1 ELSE conf[i].capacity
    /\ Goes(i, "global")
    /\ UNCHANGED <<dataVars, switchVars, registryVars, conf>>

StoreGlobalEnabled(i) ==
    /\ lpc[i] = "global"
    /\ globalEnabled' = conf[i].enabled
    /\ Goes(i, "fun")
    /\ UNCHANGED <<dataVars, resultEnabled, cacheVars, registryVars, conf>>

\* register_fun_map: FUN_MAP is set once and for all.
RegisterFunMap(i) ==
    /\ lpc[i] = "fun"
    /\ funMap' = IF funMap = NoService THEN conf[i].fun ELSE funMap
    /\ Goes(i, "loaded")
    /\ UNCHANGED <<dataVars, switchVars, cacheVars, registered, pools, conf>>

\* The load returns Ok.
EndLoad(i) ==
    /\ lpc[i] = "loaded"
    /\ Returns(i)
    /\ UNCHANGED <<dataVars, switchVars, cacheVars, registryVars>>

LoaderStep(i) ==
    \/ BeginLoad(i) \/ InstallDefault(i) \/ StoreResultEnabled(i) \/ Connect(i)
    \/ LoadFails(i) \/ Register(i) \/ AlreadyRegistered(i) \/ NewRedisCache(i)
    \/ StoreGlobalEnabled(i) \/ RegisterFunMap(i) \/ EndLoad(i)

-----------------------------------------------------------------------------
(***************************************************************************)
(* Lookups                                                                 *)
(***************************************************************************)

Pending(c) == pc[c] \notin {"idle", "done"}

To(c, label) == pc' = [pc EXCEPT ![c] = label]

\* The locals of a call that begins, or of no call at all.
Locals(c, cl, version, isOff) ==
    /\ call' = [call EXCEPT ![c] = cl]
    /\ gen' = [gen EXCEPT ![c] = 0]
    /\ answer' = [answer EXCEPT ![c] = 0]
    /\ answered' = [answered EXCEPT ![c] = cl.q]
    /\ asked' = [asked EXCEPT ![c] = version]
    /\ off' = [off EXCEPT ![c] = isOff]

Starts(c, cl) == To(c, "generation") /\ Locals(c, cl, server[cl.q], ~ globalEnabled)

\* The call returns an error.
Fails(c) == To(c, "idle") /\ Locals(c, NullCall, 0, FALSE)

\* A typed lookup begins.
Ask(c) ==
    /\ ~ Pending(c)
    /\ \E q \in Questions : Starts(c, TypedCall(q))
    /\ UNCHANGED cacheVars

\* A lookup of a service that is known begins.
AskService(c) ==
    /\ ~ Pending(c)
    /\ funMap # NoService
    /\ \E s \in Services, arg \in Words :
         /\ funMap[s] # NoService
         /\ ServiceCall(funMap[s], arg).q \in Questions
         /\ Starts(c, ServiceCall(funMap[s], arg))
    /\ UNCHANGED cacheVars

\* No [fun], no such service, or one of the other result type.
ResolveFails(c) ==
    /\ ~ Pending(c)
    /\ Fails(c)
    /\ UNCHANGED cacheVars

\* Without a generation, or for a service with cache = false, Redis is asked.
ReadGeneration(c) ==
    /\ pc[c] = "generation"
    /\ gen' = [gen EXCEPT ![c] = IF call[c].cached THEN generation ELSE 0]
    /\ To(c, IF gen'[c] = 0 THEN "command" ELSE "getglobal")
    /\ UNCHANGED <<cacheVars, call, answer, answered, asked, off>>

\* Mutant: redis_cache_get does not look at the switch.
GetIgnoresGlobal(c) ==
    /\ pc[c] = "getglobal"
    /\ To(c, "getenabled")
    /\ UNCHANGED <<cacheVars, call, gen, answer, answered, asked, off>>

\* redis_cache_get reads redis_global_enabled, fetch_redis_cache the other one.
GetGlobal(c) ==
    /\ pc[c] = "getglobal"
    /\ To(c, IF globalEnabled THEN "getenabled" ELSE "command")
    /\ UNCHANGED <<cacheVars, call, gen, answer, answered, asked, off>>

GetEnabled(c) ==
    /\ pc[c] = "getenabled"
    /\ To(c, IF resultEnabled THEN "peek" ELSE "command")
    /\ UNCHANGED <<cacheVars, call, gen, answer, answered, asked, off>>

Found(c) == {e \in cache : e.key = CacheKey(call[c], gen[c])}

\* A cached answer; without ttl it is never too old.
Hit(c) ==
    /\ pc[c] = "peek"
    /\ \E e \in Found(c) :
         /\ answer' = [answer EXCEPT ![c] = e.version]
         /\ answered' = [answered EXCEPT ![c] = e.q]
    /\ To(c, "done")
    /\ UNCHANGED <<cacheVars, call, gen, asked, off>>

Miss(c) ==
    /\ pc[c] = "peek"
    /\ Found(c) = {}
    /\ To(c, "command")
    /\ UNCHANGED <<cacheVars, call, gen, answer, answered, asked, off>>

Expired(c) ==
    /\ pc[c] = "peek"
    /\ \E e \in Found(c) : e.ttl > 0
    /\ To(c, "pop")
    /\ UNCHANGED <<cacheVars, call, gen, answer, answered, asked, off>>

\* Removes whatever is under the key by now.
PopExpired(c) ==
    /\ pc[c] = "pop"
    /\ cache' = cache \ Found(c)
    /\ To(c, "command")
    /\ UNCHANGED <<cacheCap, call, gen, answer, answered, asked, off>>

\* Redis answers.
Command(c) ==
    /\ pc[c] = "command"
    /\ registered # NoUrl
    /\ answer' = [answer EXCEPT ![c] = server[call[c].q]]
    /\ answered' = [answered EXCEPT ![c] = call[c].q]
    /\ To(c, IF gen[c] = 0 THEN "done" ELSE "putglobal")
    /\ UNCHANGED <<cacheVars, call, gen, asked, off>>

\* "knowdb" is not registered, the command fails, or it times out.
CommandFails(c) ==
    /\ pc[c] = "command"
    /\ Fails(c)
    /\ UNCHANGED cacheVars

\* redis_cache_put_with_ttl and save_redis_cache read a switch each.
PutGlobal(c) ==
    /\ pc[c] = "putglobal"
    /\ To(c, IF globalEnabled THEN "putenabled" ELSE "done")
    /\ UNCHANGED <<cacheVars, call, gen, answer, answered, asked, off>>

PutEnabled(c) ==
    /\ pc[c] = "putenabled"
    /\ To(c, IF resultEnabled THEN "put" ELSE "done")
    /\ UNCHANGED <<cacheVars, call, gen, answer, answered, asked, off>>

\* LruCache::put, with any entry as the victim of a full cache.
Stored(es, cap, e) ==
    LET others == {x \in es : x.key # e.key}
    IN  IF Cardinality(others) < cap
          THEN {others \cup {e}}
          ELSE {(others \ {victim}) \cup {e} : victim \in others}

\* Mutant: the answer is stored under the generation of this moment.
PutUnderCurrent(c) ==
    /\ pc[c] = "put"
    /\ cache' \in Stored(cache, cacheCap,
                         [key |-> CacheKey(call[c], generation), q |-> answered[c],
                          version |-> answer[c], ttl |-> call[c].ttl])
    /\ To(c, "done")
    /\ UNCHANGED <<cacheCap, call, gen, answer, answered, asked, off>>

Put(c) ==
    /\ pc[c] = "put"
    /\ cache' \in Stored(cache, cacheCap,
                         [key |-> CacheKey(call[c], gen[c]), q |-> answered[c],
                          version |-> answer[c], ttl |-> call[c].ttl])
    /\ To(c, "done")
    /\ UNCHANGED <<cacheCap, call, gen, answer, answered, asked, off>>

CallerStep(c) ==
    \/ Ask(c) \/ AskService(c) \/ ResolveFails(c) \/ ReadGeneration(c)
    \/ GetGlobal(c) \/ GetEnabled(c) \/ Hit(c) \/ Miss(c) \/ Expired(c)
    \/ PopExpired(c) \/ Command(c) \/ CommandFails(c) \/ PutGlobal(c)
    \/ PutEnabled(c) \/ Put(c)

\* An answer of Redis changes: by another client, or by redis_bf_add, which
\* writes past the cache.  An item of a Bloom filter is added once (0 to 1).
ServerChanges(q) ==
    /\ server[q] < MaxVersion
    /\ q.cmd = "bf_exists" => server[q] = 0
    /\ server' = [server EXCEPT ![q] = server[q] + 1]
    /\ UNCHANGED <<generation, born>>

\* History: a call notices that the Redis cache is switched on.
NoticeSwitch ==
    /\ off' = [c \in Callers |-> off[c] /\ ~ globalEnabled']
    /\ UNCHANGED <<pc, call, gen, answer, answered, asked>>

Next ==
    \/ \E i \in Loaders : LoaderStep(i) /\ NoticeSwitch
    \/ \E c \in Callers :
         CallerStep(c) /\ UNCHANGED <<dataVars, switchVars, registryVars, loaderVars>>
    \/ \E q \in Changing :
         /\ ServerChanges(q)
         /\ UNCHANGED <<switchVars, cacheVars, registryVars, loaderVars, callerVars>>

Spec == Init /\ [][Next]_vars

-----------------------------------------------------------------------------
(***************************************************************************)
(* Properties                                                              *)
(***************************************************************************)

\* Types of the data, the registry, the cache and the threads.
TypeOK ==
    /\ server \in [Questions -> Nat]
    /\ generation \in 0 .. MaxGeneration
    /\ born \in [0 .. MaxGeneration -> [Questions -> Nat]]
    /\ resultEnabled \in BOOLEAN /\ globalEnabled \in BOOLEAN
    /\ cache \subseteq Entry /\ Cardinality(cache) <= cacheCap
    /\ cacheCap \in Nat \ {0}
    /\ registered \in Urls \cup {NoUrl}
    /\ pools \in [Urls -> Loaders \cup {NoUrl}]
    /\ funMap \in {NoService} \cup [Services -> SpecType \cup {NoService}]
    /\ conf \in [Loaders -> ConfType]
    /\ lpc \in [Loaders -> {"idle", "install", "switch", "connect", "register",
                            "newcache", "global", "fun", "loaded"}]
    /\ pc \in [Callers -> {"idle", "generation", "getglobal", "getenabled", "peek",
                           "pop", "command", "putglobal", "putenabled", "put",
                           "done"}]
    /\ call \in [Callers -> CallType]
    /\ gen \in [Callers -> 0 .. MaxGeneration]
    /\ answer \in [Callers -> Nat]
    /\ answered \in [Callers -> QuestionType]
    /\ asked \in [Callers -> Nat]
    /\ off \in [Callers -> BOOLEAN]

\* A lookup never returns what Redis said before the generation it read began,
\* however late the answers under that generation were stored: a reload of the
\* default provider evicts every older Redis answer (redis-provider.md:75).
AnswerOfThisGeneration ==
    \A c \in Callers : pc[c] = "done" =>
        answer[c] >= IF gen[c] = 0 THEN asked[c] ELSE born[gen[c]][answered[c]]

\* A service that caches its answers under the tag of the other command.
BorrowsTag(s) ==
    /\ funMap # NoService /\ funMap[s] # NoService
    /\ funMap[s].cache /\ funMap[s].call \in {"sismember", "hget"}

\* A lookup is answered with what Redis said of its own question, whoever
\* cached it, with one exception, which is all that the shared tags of
\* external_exists and external_value cost: a cached sismember or hget service
\* uses the entries of bf_exists or get.  Then the answer may be that of the
\* other command of the same result type, but to the same key and argument, and
\* it is the service or a lookup that shares its entry that gets it: never
\* redis_hget or redis_set_exists, which have tags of their own, nor redis_get,
\* whose key has no argument.
AnswerFitsQuestion ==
    \A c \in Callers : pc[c] = "done" /\ answered[c] # call[c].q =>
        LET cl == call[c]
        IN  /\ answered[c] = Question(OtherCommand[cl.q.cmd], cl.q.key, cl.arg)
            /\ cl.tag \in {"bf_exists", "get"} /\ cl.arg # NoWord
            /\ \E s \in Services :
                 BorrowsTag(s) /\ ServiceCall(funMap[s], cl.arg).q \in {answered[c], cl.q}

\* While the Redis cache is switched off, a lookup asks Redis, whatever racing
\* calls have left in the cache.
DisabledBypassesCache ==
    \A c \in Callers : pc[c] = "done" /\ off[c] => answer[c] >= asked[c]

\* Whichever loads race, the first registration of "knowdb" stands, and the
\* pool lookups use is never exchanged under them.
PoolIsStable ==
    [][registered # NoUrl => /\ registered' = registered
                             /\ pools[registered] # NoUrl
                             /\ pools'[registered] = pools[registered]]_vars

\* The services callers can name are those of the load whose pool answers them,
\* although pool and [fun] are set once each, in two steps, by racing loads.
ServicesMatchPool ==
    funMap # NoService => \E cf \in Confs : cf.url = registered /\ cf.fun = funMap

\* With the types of cells, cache (never past its capacity), loaders and callers.
ServicesInv == TypeOK /\ ServicesMatchPool
=============================================================================
