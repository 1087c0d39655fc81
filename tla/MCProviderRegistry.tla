------------------------- MODULE MCProviderRegistry -------------------------
(***************************************************************************)
(* Instances of ProviderRegistry for TLC.  Two names are enough for every  *)
(* shape of an init call: with and without a spec called "default", one or *)
(* two specs, pruning something, nothing or everything.                    *)
(***************************************************************************)
EXTENDS ProviderRegistry

CONSTANT geo, dflt

MCNames == {dflt, geo}

\* Every init call of the facade over the two names.
AllPlans ==
    {SqldbPlan(s) : s \in {<<dflt>>, <<geo>>, <<geo, dflt>>, <<dflt, geo>>}}
      \cup {RedisPlan, LocalPlan, DirectPlan(dflt, TRUE), DirectPlan(geo, FALSE)}

\* A multi-provider configuration beside a single local one.
ReloadPlans == {SqldbPlan(<<dflt, geo>>), LocalPlan}
=============================================================================
