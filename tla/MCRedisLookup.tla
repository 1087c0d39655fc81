---------------------------- MODULE MCRedisLookup ---------------------------
(***************************************************************************)
(* An instance of RedisLookup for TLC: one key that typed calls, cached    *)
(* services and an uncached one ask with all four commands.  (A Redis key  *)
(* has one type at a time, but it can be missing, which both commands of a *)
(* result type answer, or be made anew with another type; WRONGTYPE is one *)
(* of the errors of CommandFails.)                                         *)
(***************************************************************************)
EXTENDS RedisLookup, TLC

CONSTANTS k, a, passwords, members, names, page, live, u1, u2

Bloom == [cmd |-> "bf_exists", key |-> k, arg |-> a]
OneItem == {Bloom}
Asked == {Bloom, [Bloom EXCEPT !.cmd = "sismember"], [Bloom EXCEPT !.cmd = "hget", !.arg = k],
          [Bloom EXCEPT !.cmd = "get", !.arg = NoWord]}

Service(cmd, ttl) == [call |-> cmd, key |-> k, cache |-> TRUE, ttl |-> ttl]

\* [fun]: each command as a service of the key, one with a ttl, one with the key
\* for its argument, and the filter again without a cache.
Fun == passwords :> Service("bf_exists", 1) @@ members :> Service("sismember", 0)
       @@ names :> Service("hget", 0) @@ page :> [Service("get", 0) EXCEPT !.key = NoWord]
       @@ live :> [Service("bf_exists", 0) EXCEPT !.cache = FALSE]

Local == [NullConf EXCEPT !.capacity = 2]
LocalOff == [Local EXCEPT !.enabled = FALSE]
Redis == [NullConf EXCEPT !.url = u1, !.fun = Fun]
RedisOff == [Redis EXCEPT !.url = u2, !.enabled = FALSE, !.capacity = 0,
                         !.fun = [s \in Services |->
                                    IF s = passwords THEN Fun[s] ELSE NoService]]

AllConfs == {Local, LocalOff, Redis, RedisOff}

Symmetry == Permutations(Loaders)
=============================================================================
