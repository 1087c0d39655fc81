----------------------------- MODULE MCRouteMemo ----------------------------
(***************************************************************************)
(* Instances of RouteMemo for TLC: two texts, one naming a provider that   *)
(* comes and goes and one naming no provider, and a memo that can hold     *)
(* only one of them.                                                       *)
(***************************************************************************)
EXTENDS RouteMemo, TLC

CONSTANTS geo, dflt, geoSql, plainSql

MCNames == {dflt, geo}
MCSqls == {geoSql, plainSql}
MCFirstSegment == [s \in MCSqls |-> IF s = geoSql THEN geo ELSE NoName]

\* geo is installed beside the default provider and pruned again.  Routing
\* does not look at the default slot, so no load here touches it.
MCPlans == {DirectPlan(geo, FALSE), RedisPlan}

ActorSymmetry == Permutations(Loaders) \cup Permutations(Routers)
=============================================================================
