--------------------------- MODULE MCQueryRuntime ---------------------------
(***************************************************************************)
(* Instances of QueryRuntime for TLC.                                      *)
(***************************************************************************)
EXTENDS QueryRuntime, TLC

CONSTANTS geo, dflt

MCNames == {dflt, geo}

\* A default provider that is replaced, and a named one beside it.
MCPlans == {SqldbPlan(<<dflt>>), DirectPlan(dflt, TRUE), DirectPlan(geo, FALSE)}

\* The cache is made larger, is switched off, and is configured with zeros.
MCConfigs == {[enabled |-> TRUE, capacity |-> 2, ttl |-> 2],
              [enabled |-> FALSE, capacity |-> 2, ttl |-> 1],
              [enabled |-> TRUE, capacity |-> 0, ttl |-> 0]}

CallerSymmetry == Permutations(Callers)
=============================================================================
