-------------------------- MODULE QueryPathProofs ---------------------------
(***************************************************************************)
(* Proofs about what a query meets on its way: the memo of routes          *)
(* (RouteMemo), for any number of overlapping loads and calls, any texts   *)
(* and any capacity of the memo; and the result cache (QueryRuntime), for  *)
(* any number of overlapping loads, callers, queries and configurations.   *)
(***************************************************************************)
EXTENDS RouteMemo, QueryRuntime, ProviderRegistryProofs

\* No install is between its insertion and its epoch increment.
Quiet == \A i \in Loaders : ~ HalfPublished(i)

\* A router inside its call.
Routing(t) == tpc[t] \in {"probe", "compute", "record"}

RouteStateOK == TypeOK /\ RouteTypeOK

-----------------------------------------------------------------------------
(***************************************************************************)
(* Type correctness                                                        *)
(***************************************************************************)

LEMMA RouteInType ==
    ASSUME NEW reg, NEW s \in Sqls
    PROVE  RouteIn(reg, s) \in Routes
  BY RoutesAssumption DEF RouteIn, Routes, Registered

LEMMA RouteStateInit == RouteInit => RouteStateOK
  <1> SUFFICES ASSUME RouteInit PROVE RouteTypeOK
    BY InitType DEF RouteInit, RouteStateOK
  <1>1. (CHOOSE s \in Sqls : TRUE) \in Sqls
    BY RoutesAssumption
  <1> QED
    BY <1>1 DEF RouteInit, RouteTypeOK, Routes

\* What RecordRoute leaves in the memo: its own answer, and possibly what was
\* there under the same label.
LEMMA RecordedMemo ==
    ASSUME RouteTypeOK, NEW t \in Routers, RecordRoute(t)
    PROVE  /\ memo' \in [DOMAIN memo' -> Routes]
           /\ DOMAIN memo' \subseteq Sqls
           /\ memo'[tsql[t]] = troute[t]
           /\ tsql[t] \in DOMAIN memo'
           /\ \A s \in DOMAIN memo' : s # tsql[t] =>
                 /\ memoEpoch = tepoch[t]
                 /\ s \in DOMAIN memo
                 /\ memo'[s] = memo[s]
           /\ \/ DOMAIN memo' = {tsql[t]}
              \/ /\ ~ (Cardinality(DOMAIN memo) >= MemoCap)
                 /\ DOMAIN memo' = DOMAIN memo \cup {tsql[t]}
  <1> DEFINE known == IF memoEpoch = tepoch[t] THEN memo ELSE EmptyMemo
             room  == IF Cardinality(DOMAIN known) >= MemoCap THEN EmptyMemo ELSE known
  <1>1. memo' = Memoized(room, tsql[t], troute[t])
    BY DEF RecordRoute
  <1>2. DOMAIN EmptyMemo = {} /\ EmptyMemo \in [{} -> Routes]
    BY DEF EmptyMemo
  <1>3. tsql[t] \in Sqls /\ troute[t] \in Routes
    BY DEF RouteTypeOK
  <1>4. \/ room = EmptyMemo
        \/ /\ room = memo
           /\ memoEpoch = tepoch[t]
           /\ ~ (Cardinality(DOMAIN memo) >= MemoCap)
    OBVIOUS
  <1>5. DOMAIN room \subseteq Sqls /\ room \in [DOMAIN room -> Routes]
    BY <1>2, <1>4 DEF RouteTypeOK
  <1> HIDE DEF room
  <1>6. /\ DOMAIN memo' = DOMAIN room \cup {tsql[t]}
        /\ memo' \in [DOMAIN room \cup {tsql[t]} -> Routes]
        /\ memo'[tsql[t]] = troute[t]
        /\ \A k \in DOMAIN room : k # tsql[t] => memo'[k] = room[k]
    BY <1>1, <1>3, <1>5 DEF Memoized
  <1> QED
    BY <1>2, <1>3, <1>4, <1>5, <1>6

LEMMA RouterStepType ==
    ASSUME RouteStateOK, NEW t \in Routers, RouterStep(t), UNCHANGED vars
    PROVE  RouteTypeOK'
  <1> USE DEF RouteStateOK, RouteTypeOK
  <1>1. CASE ReadEpoch(t)
    <2>1. namedProviderEpoch \in Nat /\ NoName \in Routes
      BY DEF TypeOK, LoadersTypeOK, Routes
    <2>2. PICK s \in Sqls : /\ tsql' = [tsql EXCEPT ![t] = s]
                            /\ tseen' = [tseen EXCEPT ![t] = {RouteIn(namedProviders, s)}]
      BY <1>1 DEF ReadEpoch
    <2>3. RouteIn(namedProviders, s) \in Routes
      BY RouteInType
    <2> QED
      BY <1>1, <2>1, <2>2, <2>3 DEF ReadEpoch, memoVars
  <1>2. CASE ProbeMemo(t)
    BY <1>2 DEF ProbeMemo, memoVars
  <1>3. CASE ComputeRoute(t)
    <2>1. RouteIn(namedProviders, tsql[t]) \in Routes
      BY RouteInType
    <2> QED
      BY <1>3, <2>1 DEF ComputeRoute, memoVars
  <1>4. CASE RecordRoute(t)
    <2>1. memo' \in [DOMAIN memo' -> Routes] /\ DOMAIN memo' \subseteq Sqls
      BY <1>4, RecordedMemo
    <2> QED
      BY <1>4, <2>1 DEF RecordRoute
  <1> QED
    BY <1>1, <1>2, <1>3, <1>4 DEF RouterStep

LEMMA RouteStateNext == RouteStateOK /\ [RouteNext]_routeVars => RouteStateOK'
  <1> SUFFICES ASSUME RouteStateOK, [RouteNext]_routeVars PROVE RouteStateOK'
    OBVIOUS
  <1>1. ASSUME NEW i \in Loaders, LoaderStep(i), RecordAnswers, UNCHANGED readerVars
        PROVE  RouteStateOK'
    <2>1. LoadersTypeOK'
      BY <1>1, LoaderStepType DEF RouteStateOK, TypeOK
    <2>2. ReadersTypeOK'
      BY <1>1 DEF RouteStateOK, TypeOK, ReadersTypeOK, readerVars
    <2>3. \A t \in Routers : RouteIn(namedProviders', tsql[t]) \in Routes
      BY RouteInType DEF RouteStateOK, RouteTypeOK
    <2>4. RouteTypeOK'
      BY <1>1, <2>3 DEF RecordAnswers, RouteStateOK, RouteTypeOK, memoVars
    <2> QED BY <2>1, <2>2, <2>4 DEF RouteStateOK, TypeOK
  <1>2. TypeOK /\ UNCHANGED vars => TypeOK'
    BY NextType
  <1>3. ASSUME NEW t \in Routers, RouterStep(t), UNCHANGED vars
        PROVE  RouteStateOK'
    BY <1>2, <1>3, RouterStepType DEF RouteStateOK
  <1>4. CASE UNCHANGED routeVars
    BY <1>2, <1>4 DEF RouteStateOK, RouteTypeOK, routeVars, memoVars, routerVars
  <1> QED BY <1>1, <1>3, <1>4 DEF RouteNext

\* The memo, the routers and the registry beneath them keep their types.
THEOREM RouteTypeCorrect == RouteSpec => [](TypeOK /\ RouteTypeOK)
  BY RouteStateInit, RouteStateNext, PTL DEF RouteSpec, RouteStateOK

-----------------------------------------------------------------------------
(***************************************************************************)
(* Freshness.  The invariant ties every answer that is in the memo or on   *)
(* its way there to the epoch it is labelled with, and, for calls that may *)
(* still take it from the memo, to the answers of that call's window.      *)
(***************************************************************************)

\* Labels never run ahead of the registry.
LabelsBehind ==
    /\ memoEpoch <= namedProviderEpoch
    /\ \A t \in Routers : tepoch[t] <= namedProviderEpoch

\* An answer about to be recorded under the current label is still right.
InFlightFresh ==
    Quiet => \A t \in Routers :
       tpc[t] = "record" /\ tepoch[t] = namedProviderEpoch
         => troute[t] = RouteIn(namedProviders, tsql[t])

\* The window of a call holds the present answer, and the one it computed.
WindowHolds ==
    \A t \in Routers :
      /\ Routing(t) => RouteIn(namedProviders, tsql[t]) \in tseen[t]
      /\ tpc[t] = "record" => troute[t] \in tseen[t]

\* What a clean call may still find in the memo is an answer of its window:
\* what is there now, and what other calls are about to put there.
ProbeSound ==
    \A t \in Routers : tpc[t] = "probe" /\ tclean[t] =>
      /\ memoEpoch = tepoch[t] /\ tsql[t] \in DOMAIN memo
            => memo[tsql[t]] \in tseen[t]
      /\ \A u \in Routers :
            tpc[u] = "record" /\ tepoch[u] = tepoch[t] /\ tsql[u] = tsql[t]
               => troute[u] \in tseen[t]

RouteInv ==
    /\ LabelsBehind
    /\ MemoFresh
    /\ InFlightFresh
    /\ WindowHolds
    /\ ProbeSound
    /\ RouteLinearizable

\* Equal sets of registered names give equal answers.
LEMMA SameNamesSameRoute ==
    ASSUME NEW reg1, NEW reg2, Registered(reg1) = Registered(reg2), NEW s
    PROVE  RouteIn(reg1, s) = RouteIn(reg2, s)
  BY DEF RouteIn

\* A loader step that leaves the epoch where it is, and nobody half-published,
\* leaves the set of registered names where it is.
LEMMA RegistryStepRoutes ==
    ASSUME TypeOK, NEW i \in Loaders, LoaderStep(i)
    PROVE  /\ namedProviderEpoch' \in {namedProviderEpoch, namedProviderEpoch + 1}
           /\ namedProviderEpoch' = namedProviderEpoch /\ Quiet' =>
                Quiet /\ Registered(namedProviders') = Registered(namedProviders)
  <1> USE DEF GoTo, sharedVars, namedVars, Quiet, HalfPublished
  <1>0. LoadersTypeOK
    BY DEF TypeOK
  <1>1. CASE BeginLoad(i)
    BY <1>0, <1>1 DEF BeginLoad, LoadersTypeOK
  <1>2. CASE TakeGeneration(i)
    BY <1>0, <1>2 DEF TakeGeneration, LoadersTypeOK
  <1>3. CASE BuildFails(i)
    BY <1>0, <1>3 DEF BuildFails, LoadersTypeOK
  <1>4. CASE InsertNamed(i)
    BY <1>0, <1>4 DEF InsertNamed, LoadersTypeOK
  <1>5. CASE BumpNamedEpoch(i)
    BY <1>0, <1>5 DEF BumpNamedEpoch, LoadersTypeOK
  <1>6. CASE BeginSwap(i)
    BY <1>0, <1>6 DEF BeginSwap, LoadersTypeOK
  <1>7. CASE SwapProvider(i)
    BY <1>0, <1>7 DEF SwapProvider, LoadersTypeOK
  <1>8. CASE PublishGeneration(i)
    BY <1>0, <1>8 DEF PublishGeneration, LoadersTypeOK
  <1>9. CASE EndSwap(i)
    BY <1>0, <1>9 DEF EndSwap, FinishInstall, LoadersTypeOK
  <1>10. CASE Prune(i)
    <2>1. namedProviderEpoch' = namedProviderEpoch
            => Registered(namedProviders) \subseteq plan[i].keep
      BY <1>0, <1>10 DEF Prune, LoadersTypeOK
    <2>2. Registered(namedProviders) \subseteq plan[i].keep
            => Registered(namedProviders') = Registered(namedProviders)
      BY <1>10 DEF Prune, Registered
    <2>3. \A j \in Loaders : pc[j] = "bump" => pc'[j] = "bump"
      BY <1>0, <1>10 DEF Prune, LoadersTypeOK
    <2> QED
      BY <1>10, <2>1, <2>2, <2>3 DEF Prune
  <1> QED
    BY <1>1, <1>2, <1>3, <1>4, <1>5, <1>6, <1>7, <1>8, <1>9, <1>10 DEF LoaderStep

\* Loads keep the invariant.
LEMMA RouteInvLoader ==
    ASSUME RouteStateOK, RouteInv,
           NEW i \in Loaders, LoaderStep(i), RecordAnswers
    PROVE  RouteInv'
  <1>1. /\ namedProviderEpoch' \in {namedProviderEpoch, namedProviderEpoch + 1}
        /\ namedProviderEpoch' = namedProviderEpoch /\ Quiet' =>
             Quiet /\ Registered(namedProviders') = Registered(namedProviders)
    BY RegistryStepRoutes DEF RouteStateOK
  <1>2. UNCHANGED <<memoEpoch, memo, tpc, tsql, tepoch, troute, tclean>>
    BY DEF RecordAnswers, memoVars
  <1>3. \A t \in Routers : tseen[t] \subseteq tseen'[t]
    BY DEF RecordAnswers
  <1>4. \A t \in Routers : Routing(t) => RouteIn(namedProviders', tsql[t]) \in tseen'[t]
    BY DEF RecordAnswers, Routing
  <1>5. /\ namedProviderEpoch \in Nat
        /\ memoEpoch \in Nat
        /\ tepoch \in [Routers -> Nat]
    BY DEF RouteStateOK, TypeOK, LoadersTypeOK, RouteTypeOK
  <1>6. LabelsBehind'
    BY <1>1, <1>2, <1>5 DEF RouteInv, LabelsBehind
  <1>7. Quiet' /\ namedProviderEpoch' = namedProviderEpoch =>
           \A s : RouteIn(namedProviders', s) = RouteIn(namedProviders, s)
    BY <1>1, SameNamesSameRoute
  <1>8. memoEpoch = namedProviderEpoch' => namedProviderEpoch' = namedProviderEpoch
    BY <1>1, <1>5 DEF RouteInv, LabelsBehind
  <1>9. \A t \in Routers : tepoch[t] = namedProviderEpoch'
                             => namedProviderEpoch' = namedProviderEpoch
    BY <1>1, <1>5 DEF RouteInv, LabelsBehind
  <1>10. MemoFresh'
    BY <1>1, <1>2, <1>7, <1>8 DEF RouteInv, MemoFresh, Quiet
  <1>11. InFlightFresh'
    BY <1>1, <1>2, <1>7, <1>9 DEF RouteInv, InFlightFresh
  <1>12. WindowHolds'
    BY <1>2, <1>3, <1>4 DEF RouteInv, WindowHolds, Routing
  <1>13. ProbeSound'
    BY <1>2, <1>3 DEF RouteInv, ProbeSound
  <1>14. RouteLinearizable'
    BY <1>2, <1>3 DEF RouteInv, RouteLinearizable
  <1> QED
    BY <1>6, <1>10, <1>11, <1>12, <1>13, <1>14 DEF RouteInv

\* Beginning a call keeps the invariant: this is where freshness pays.
LEMMA RouteInvReadEpoch ==
    ASSUME RouteStateOK, RouteInv, NEW t \in Routers, ReadEpoch(t), UNCHANGED vars
    PROVE  RouteInv'
  <1>1. PICK s \in Sqls : /\ tsql' = [tsql EXCEPT ![t] = s]
                          /\ tseen' = [tseen EXCEPT ![t] = {RouteIn(namedProviders, s)}]
    BY DEF ReadEpoch
  <1>2. UNCHANGED <<namedProviders, namedProviderEpoch, pc, memoEpoch, memo>>
    BY DEF ReadEpoch, memoVars, vars, registryVars, sharedVars, namedVars, loaderVars
  <1>3. /\ tclean' = [tclean EXCEPT ![t] = Quiet]
        /\ tepoch' = [tepoch EXCEPT ![t] = namedProviderEpoch]
        /\ troute' = [troute EXCEPT ![t] = NoName]
        /\ tpc' = [tpc EXCEPT ![t] = "probe"]
    BY DEF ReadEpoch, Quiet
  <1>4. RouteTypeOK /\ namedProviderEpoch \in Nat
    BY DEF RouteStateOK, TypeOK, LoadersTypeOK
  <1>5. Quiet' <=> Quiet
    BY <1>2 DEF Quiet, HalfPublished
  <1>7. \A k : RouteIn(namedProviders', k) = RouteIn(namedProviders, k)
    BY <1>2
  <1>8. LabelsBehind'
    BY <1>2, <1>3, <1>4 DEF RouteInv, LabelsBehind, RouteTypeOK
  <1>9. MemoFresh'
    BY <1>2, <1>5, <1>7 DEF RouteInv, MemoFresh, Quiet
  <1>10. InFlightFresh'
    BY <1>1, <1>2, <1>3, <1>4, <1>5, <1>7 DEF RouteInv, InFlightFresh, RouteTypeOK
  <1>11. WindowHolds'
    BY <1>1, <1>3, <1>4, <1>7 DEF RouteInv, WindowHolds, Routing, RouteTypeOK
  <1>12. ProbeSound'
    <2> SUFFICES ASSUME NEW r \in Routers, tpc'[r] = "probe", tclean'[r]
                 PROVE  /\ memoEpoch' = tepoch'[r] /\ tsql'[r] \in DOMAIN memo'
                              => memo'[tsql'[r]] \in tseen'[r]
                        /\ \A u \in Routers :
                             tpc'[u] = "record" /\ tepoch'[u] = tepoch'[r]
                                 /\ tsql'[u] = tsql'[r]
                               => troute'[u] \in tseen'[r]
      BY DEF ProbeSound
    <2>1. CASE r = t
      <3>1. /\ Quiet
            /\ tepoch'[r] = namedProviderEpoch
            /\ tsql'[r] = s
            /\ tseen'[r] = {RouteIn(namedProviders, s)}
        BY <1>1, <1>3, <1>4, <2>1 DEF RouteTypeOK
      <3>2. memoEpoch = namedProviderEpoch /\ s \in DOMAIN memo
              => memo[s] = RouteIn(namedProviders, s)
        BY <3>1 DEF RouteInv, MemoFresh, Quiet
      <3>3. \A u \in Routers : tpc[u] = "record" /\ tepoch[u] = namedProviderEpoch
               => troute[u] = RouteIn(namedProviders, tsql[u])
        BY <3>1 DEF RouteInv, InFlightFresh
      <3>4. \A u \in Routers : tpc'[u] = "record" =>
               /\ tpc[u] = "record"
               /\ tepoch'[u] = tepoch[u] /\ tsql'[u] = tsql[u] /\ troute'[u] = troute[u]
        BY <1>1, <1>3, <1>4 DEF RouteTypeOK
      <3> QED
        BY <1>2, <3>1, <3>2, <3>3, <3>4
    <2>2. CASE r # t
      BY <1>1, <1>2, <1>3, <1>4, <2>2 DEF RouteInv, ProbeSound, RouteTypeOK
    <2> QED BY <2>1, <2>2
  <1>13. RouteLinearizable'
    BY <1>1, <1>3, <1>4 DEF RouteInv, RouteLinearizable, RouteTypeOK
  <1> QED
    BY <1>8, <1>9, <1>10, <1>11, <1>12, <1>13 DEF RouteInv

\* The other steps of a call keep the invariant.
LEMMA RouteInvRouter ==
    ASSUME RouteStateOK, RouteInv, NEW t \in Routers, RouterStep(t), UNCHANGED vars
    PROVE  RouteInv'
  <1>1. UNCHANGED <<namedProviders, namedProviderEpoch, pc>>
    BY DEF vars, registryVars, sharedVars, namedVars, loaderVars
  <1>2. RouteTypeOK
    BY DEF RouteStateOK
  <1>3. Quiet' <=> Quiet
    BY <1>1 DEF Quiet, HalfPublished
  <1>4. \A k : RouteIn(namedProviders', k) = RouteIn(namedProviders, k)
    BY <1>1
  <1>5. CASE ReadEpoch(t)
    BY <1>5, RouteInvReadEpoch
  <1>6. CASE ProbeMemo(t)
    <2>1. /\ UNCHANGED <<memoEpoch, memo, tsql, tepoch, tseen, tclean>>
          /\ tpc[t] = "probe"
          /\ \/ /\ memoEpoch = tepoch[t] /\ tsql[t] \in DOMAIN memo
                /\ troute' = [troute EXCEPT ![t] = memo[tsql[t]]]
                /\ tpc' = [tpc EXCEPT ![t] = "done"]
             \/ /\ tpc' = [tpc EXCEPT ![t] = "compute"]
                /\ UNCHANGED troute
      BY <1>6 DEF ProbeMemo, memoVars
    <2>2. LabelsBehind'
      BY <1>1, <2>1 DEF RouteInv, LabelsBehind
    <2>3. MemoFresh'
      BY <1>1, <1>3, <1>4, <2>1 DEF RouteInv, MemoFresh, Quiet
    <2>4. \A u \in Routers : tpc'[u] = "record" => tpc[u] = "record" /\ troute'[u] = troute[u]
      BY <1>2, <2>1 DEF RouteTypeOK
    <2>5. InFlightFresh'
      BY <1>1, <1>3, <1>4, <2>1, <2>4 DEF RouteInv, InFlightFresh
    <2>6. \A u \in Routers : Routing(u)' => Routing(u)
      BY <1>2, <2>1 DEF RouteTypeOK, Routing
    <2>7. WindowHolds'
      BY <1>4, <2>1, <2>4, <2>6 DEF RouteInv, WindowHolds
    <2>8. \A u \in Routers : tpc'[u] = "probe" => tpc[u] = "probe"
      BY <1>2, <2>1 DEF RouteTypeOK
    <2>9. ProbeSound'
      BY <2>1, <2>4, <2>8 DEF RouteInv, ProbeSound
    <2>10. RouteLinearizable'
      BY <1>2, <2>1 DEF RouteInv, RouteLinearizable, ProbeSound, RouteTypeOK
    <2> QED
      BY <2>2, <2>3, <2>5, <2>7, <2>9, <2>10 DEF RouteInv
  <1>7. CASE ComputeRoute(t)
    <2>1. /\ UNCHANGED <<memoEpoch, memo, tsql, tepoch, tseen, tclean>>
          /\ tpc[t] = "compute"
          /\ troute' = [troute EXCEPT ![t] = RouteIn(namedProviders, tsql[t])]
          /\ tpc' = [tpc EXCEPT ![t] = "record"]
      BY <1>7 DEF ComputeRoute, memoVars
    <2>2. LabelsBehind'
      BY <1>1, <2>1 DEF RouteInv, LabelsBehind
    <2>3. MemoFresh'
      BY <1>1, <1>3, <1>4, <2>1 DEF RouteInv, MemoFresh, Quiet
    <2>4. \A u \in Routers : tpc'[u] = "record" =>
             \/ tpc[u] = "record" /\ troute'[u] = troute[u]
             \/ troute'[u] = RouteIn(namedProviders, tsql[u])
      BY <1>2, <2>1 DEF RouteTypeOK
    <2>5. InFlightFresh'
      BY <1>1, <1>3, <1>4, <2>1, <2>4 DEF RouteInv, InFlightFresh
    <2>6. \A u \in Routers : Routing(u)' => Routing(u)
      BY <1>2, <2>1 DEF RouteTypeOK, Routing
    <2>7. \A u \in Routers : Routing(u) => RouteIn(namedProviders, tsql[u]) \in tseen[u]
      BY DEF RouteInv, WindowHolds
    <2>8. WindowHolds'
      <3>1. \A u \in Routers : tpc'[u] = "record" => Routing(u)
        BY <1>2, <2>1 DEF RouteTypeOK, Routing
      <3> QED
        BY <1>4, <2>1, <2>4, <2>6, <2>7, <3>1 DEF RouteInv, WindowHolds
    <2>9. \A u \in Routers : tpc'[u] = "probe" => tpc[u] = "probe" /\ Routing(u)
      BY <1>2, <2>1 DEF RouteTypeOK, Routing
    <2>10. ProbeSound'
      BY <2>1, <2>4, <2>7, <2>9 DEF RouteInv, ProbeSound
    <2>11. \A u \in Routers : tpc'[u] = "done" => tpc[u] = "done" /\ troute'[u] = troute[u]
      BY <1>2, <2>1 DEF RouteTypeOK
    <2>12. RouteLinearizable'
      BY <2>1, <2>11 DEF RouteInv, RouteLinearizable
    <2> QED
      BY <2>2, <2>3, <2>5, <2>8, <2>10, <2>12 DEF RouteInv
  <1>8. CASE RecordRoute(t)
    <2>1. /\ UNCHANGED <<tsql, tepoch, troute, tseen, tclean>>
          /\ tpc[t] = "record"
          /\ memoEpoch' = tepoch[t]
          /\ tpc' = [tpc EXCEPT ![t] = "done"]
      BY <1>8 DEF RecordRoute
    <2>2. /\ memo'[tsql[t]] = troute[t]
          /\ \A s \in DOMAIN memo' : s # tsql[t] =>
                memoEpoch = tepoch[t] /\ s \in DOMAIN memo /\ memo'[s] = memo[s]
      BY <1>2, <1>8, RecordedMemo
    <2>3. LabelsBehind'
      BY <1>1, <2>1 DEF RouteInv, LabelsBehind
    <2>4. MemoFresh'
      <3> SUFFICES ASSUME tepoch[t] = namedProviderEpoch, Quiet, NEW s \in DOMAIN memo'
                   PROVE  memo'[s] = RouteIn(namedProviders, s)
        BY <1>1, <1>3, <1>4, <2>1 DEF MemoFresh, Quiet
      <3>1. CASE s = tsql[t]
        BY <2>1, <2>2, <3>1 DEF RouteInv, InFlightFresh
      <3>2. CASE s # tsql[t]
        BY <2>2, <3>2 DEF RouteInv, MemoFresh, Quiet
      <3> QED BY <3>1, <3>2
    <2>5. \A u \in Routers : /\ tpc'[u] = "record" => tpc[u] = "record"
                             /\ tpc'[u] = "probe" => tpc[u] = "probe"
                             /\ Routing(u)' => Routing(u)
      BY <1>2, <2>1 DEF RouteTypeOK, Routing
    <2>6. InFlightFresh'
      BY <1>1, <1>3, <1>4, <2>1, <2>5 DEF RouteInv, InFlightFresh
    <2>7. WindowHolds'
      BY <1>4, <2>1, <2>5 DEF RouteInv, WindowHolds
    <2>8. ProbeSound'
      <3> SUFFICES ASSUME NEW r \in Routers, tpc'[r] = "probe", tclean'[r]
                   PROVE  /\ memoEpoch' = tepoch'[r] /\ tsql'[r] \in DOMAIN memo'
                                => memo'[tsql'[r]] \in tseen'[r]
                          /\ \A u \in Routers :
                               tpc'[u] = "record" /\ tepoch'[u] = tepoch'[r]
                                   /\ tsql'[u] = tsql'[r]
                                 => troute'[u] \in tseen'[r]
        BY DEF ProbeSound
      <3>1. tpc[r] = "probe" /\ tclean[r]
        BY <2>1, <2>5
      <3>2. /\ memoEpoch = tepoch[r] /\ tsql[r] \in DOMAIN memo
                 => memo[tsql[r]] \in tseen[r]
            /\ \A u \in Routers :
                 tpc[u] = "record" /\ tepoch[u] = tepoch[r] /\ tsql[u] = tsql[r]
                    => troute[u] \in tseen[r]
        BY <3>1 DEF RouteInv, ProbeSound
      <3> QED
        BY <2>1, <2>2, <2>5, <3>2
    <2>9. RouteLinearizable'
      BY <1>2, <2>1 DEF RouteInv, RouteLinearizable, WindowHolds, RouteTypeOK
    <2> QED
      BY <2>3, <2>4, <2>6, <2>7, <2>8, <2>9 DEF RouteInv
  <1> QED
    BY <1>5, <1>6, <1>7, <1>8 DEF RouterStep

LEMMA RouteInvInit == RouteInit => RouteInv
  <1> SUFFICES ASSUME RouteInit PROVE RouteInv
    OBVIOUS
  <1>1. /\ memoEpoch = 0 /\ namedProviderEpoch = 0 /\ DOMAIN memo = {}
        /\ \A t \in Routers : tepoch[t] = 0 /\ tpc[t] = "idle"
    BY DEF RouteInit, Init
  <1> QED
    BY <1>1 DEF RouteInv, LabelsBehind, MemoFresh, InFlightFresh, WindowHolds,
       ProbeSound, RouteLinearizable, Routing

\* The invariant of the memo and of the calls in flight holds for any number of
\* overlapping loads, prunes and calls.
LEMMA RouteInvHolds == RouteSpec => []RouteInv
  <1>1. RouteStateOK /\ RouteInv /\ [RouteNext]_routeVars => RouteInv'
    <2> SUFFICES ASSUME RouteStateOK, RouteInv, [RouteNext]_routeVars
                 PROVE  RouteInv'
      OBVIOUS
    <2>1. ASSUME NEW i \in Loaders, LoaderStep(i), RecordAnswers PROVE RouteInv'
      BY <2>1, RouteInvLoader
    <2>2. ASSUME NEW t \in Routers, RouterStep(t), UNCHANGED vars PROVE RouteInv'
      BY <2>2, RouteInvRouter
    <2>3. CASE UNCHANGED routeVars
      <3>1. UNCHANGED <<namedProviders, namedProviderEpoch, pc, memoEpoch, memo,
                        tpc, tsql, tepoch, troute, tseen, tclean>>
        BY <2>3 DEF routeVars, memoVars, routerVars, vars, registryVars,
           sharedVars, namedVars, loaderVars
      <3> QED
        BY <3>1 DEF RouteInv, LabelsBehind, MemoFresh, InFlightFresh, WindowHolds,
           ProbeSound, RouteLinearizable, Routing, Quiet, HalfPublished, RouteIn
    <2> QED BY <2>1, <2>2, <2>3 DEF RouteNext
  <1>2. RouteSpec => []RouteStateOK
    BY RouteTypeCorrect DEF RouteStateOK
  <1> QED
    BY RouteInvInit, <1>1, <1>2, PTL DEF RouteSpec

\* A memo labelled with the registry's epoch agrees with the registry whenever
\* nothing is half-published: an answer computed before a load is dropped, or
\* recorded under a label the epoch has left behind.
THEOREM MemoNeverStale == RouteSpec => []MemoFresh
  <1>1. RouteInv => MemoFresh
    BY DEF RouteInv
  <1> QED
    BY RouteInvHolds, <1>1, PTL

\* Every call of route_provider_sql that begins while nothing is half-published
\* returns an answer of its own window, for any number of overlapping loads,
\* prunes and calls.
THEOREM RoutesAreFresh == RouteSpec => []RouteLinearizable
  <1>1. RouteInv => RouteLinearizable
    BY DEF RouteInv
  <1> QED
    BY RouteInvHolds, <1>1, PTL

-----------------------------------------------------------------------------
(***************************************************************************)
(* The memo's capacity.  A memo is finite and within its capacity before   *)
(* an answer is added: either it was emptied or it had room for one more.  *)
(***************************************************************************)
MemoBounded == IsFiniteSet(DOMAIN memo) /\ Cardinality(DOMAIN memo) <= MemoCap

\* The memo stays within ROUTE_MEMO_CAP whatever the texts and the reloads.
THEOREM MemoStaysWithinCap == RouteSpec => []MemoWithinCap
  <1>1. RouteInit => MemoBounded
    <2> SUFFICES ASSUME RouteInit PROVE MemoBounded
      OBVIOUS
    <2>1. DOMAIN memo = {}
      BY DEF RouteInit
    <2> QED
      BY <2>1, FS_EmptySet, MemoCapAssumption DEF MemoBounded
  <1>2. RouteStateOK /\ MemoBounded /\ [RouteNext]_routeVars => MemoBounded'
    <2> SUFFICES ASSUME RouteStateOK, MemoBounded, [RouteNext]_routeVars
                 PROVE  MemoBounded'
      OBVIOUS
    <2>1. ASSUME NEW t \in Routers, RecordRoute(t) PROVE MemoBounded'
      <3>1. \/ DOMAIN memo' = {tsql[t]}
            \/ /\ ~ (Cardinality(DOMAIN memo) >= MemoCap)
               /\ DOMAIN memo' = DOMAIN memo \cup {tsql[t]}
        BY <2>1, RecordedMemo DEF RouteStateOK
      <3>2. CASE DOMAIN memo' = {tsql[t]}
        <4>1. IsFiniteSet({tsql[t]}) /\ Cardinality({tsql[t]}) = 1
          BY FS_Singleton
        <4> QED
          BY <3>2, <4>1, MemoCapAssumption DEF MemoBounded
      <3>3. CASE /\ ~ (Cardinality(DOMAIN memo) >= MemoCap)
                 /\ DOMAIN memo' = DOMAIN memo \cup {tsql[t]}
        <4>1. IsFiniteSet(DOMAIN memo) /\ Cardinality(DOMAIN memo) \in Nat
          BY FS_CardinalityType DEF MemoBounded
        <4>2. /\ IsFiniteSet(DOMAIN memo \cup {tsql[t]})
              /\ \/ Cardinality(DOMAIN memo \cup {tsql[t]}) = Cardinality(DOMAIN memo)
                 \/ Cardinality(DOMAIN memo \cup {tsql[t]}) = Cardinality(DOMAIN memo) + 1
          BY <4>1, FS_AddElement
        <4> QED
          BY <3>3, <4>1, <4>2, MemoCapAssumption DEF MemoBounded
      <3> QED BY <3>1, <3>2, <3>3
    <2>2. CASE UNCHANGED memo
      BY <2>2 DEF MemoBounded
    <2>3. RecordAnswers => UNCHANGED memo
      BY DEF RecordAnswers, memoVars
    <2>4. \A t \in Routers : RouterStep(t) => RecordRoute(t) \/ UNCHANGED memo
      BY DEF RouterStep, ReadEpoch, ProbeMemo, ComputeRoute, memoVars
    <2>5. UNCHANGED routeVars => UNCHANGED memo
      BY DEF routeVars, memoVars
    <2> QED BY <2>1, <2>2, <2>3, <2>4, <2>5 DEF RouteNext
  <1>3. MemoBounded => MemoWithinCap
    BY DEF MemoBounded, MemoWithinCap
  <1>4. RouteSpec => []RouteStateOK
    BY RouteTypeCorrect DEF RouteStateOK
  <1> QED
    BY <1>1, <1>2, <1>3, <1>4, PTL DEF RouteSpec

-----------------------------------------------------------------------------
(***************************************************************************)
(* The result cache is transparent.                                        *)
(*                                                                         *)
(* A hit is right because the key holds a generation and a generation      *)
(* identifies a handle.  That must hold of handles nobody can be handed    *)
(* any more, too: a caller may hold one across any number of loads, and    *)
(* the cache may hold rows of one.  So the invariant speaks of all known   *)
(* handles, not only of the live ones of the registry.                     *)
(***************************************************************************)

\* Handles the registry, a caller or a cached row knows of.
Known ==
    LiveHandles \cup ({qhandle[c] : c \in Callers} \ {NoHandle})
                \cup {e.row.handle : e \in cache}

KnownIdentified ==
    /\ \A h1, h2 \in Known : h1.generation = h2.generation => h1 = h2
    /\ \A h \in Known : h.generation \in 1 .. nextGeneration

\* What a caller holds: its handle is a real one from the capture on, and a
\* row it is about to return or to store is that handle's answer.
CallersHonest ==
    \A c \in Callers :
      /\ Pending(c) \/ qpc[c] = "done" => qhandle[c] # NoHandle
      /\ qpc[c] \in {"expiry", "save", "done"} => qrow[c] = RowOf(qhandle[c], qquery[c])

\* The inductive invariant.
QueryInv ==
    /\ TypeOK /\ QueryTypeOK
    /\ KnownIdentified
    /\ CacheHonest
    /\ CallersHonest

-----------------------------------------------------------------------------
(***************************************************************************)
(* Type correctness                                                        *)
(***************************************************************************)

\* The placeholder row of a caller has the type of a row.
LEMMA NoRowType == NoRow \in Row /\ NoRow.query \in Queries
  <1>1. (CHOOSE q \in Queries : TRUE) \in Queries
    BY ConfigsAssumption
  <1> QED
    BY <1>1, NoHandleType DEF NoRow, RowOf, Row

\* configure_result_cache never builds a cache of capacity zero.
LEMMA ClampedType == ASSUME NEW conf \in Configs PROVE Clamped(conf) \in ConfigType
  BY ConfigsAssumption DEF Clamped, Max1, ConfigType

\* The initial state of the runtime is well typed.
LEMMA QueryInitType == QueryInit => TypeOK /\ QueryTypeOK
  <1> SUFFICES ASSUME QueryInit PROVE TypeOK /\ QueryTypeOK
    OBVIOUS
  <1>1. TypeOK
    BY InitType DEF QueryInit
  <1>2. DefaultConfig \in ConfigType
    BY DEF DefaultConfig, ConfigType
  <1>3. QueryTypeOK
    BY <1>2, NoRowType, NoHandleType DEF QueryInit, QueryTypeOK
  <1> QED BY <1>1, <1>3

\* What a store leaves in the cache: old entries and the new one.
LEMMA StoredEntries ==
    ASSUME NEW es, NEW cap, NEW e, NEW res \in Stored(es, cap, e)
    PROVE  res \subseteq es \cup {e}
  BY DEF Stored

\* The key of a typed handle and query is typed, and so is a row of theirs.
LEMMA KeyRowType ==
    ASSUME NEW h \in Handle, NEW q \in Queries
    PROVE  Key(h, q) \in KeyType /\ RowOf(h, q) \in Row
  BY DEF Key, KeyType, RowOf, Row, Handle

\* What the registry hands out is a handle.
LEMMA HandedType ==
    ASSUME TypeOK, NEW name \in Names \cup {NoName}
    PROVE  Handed(name) \in Handle
  BY DEF TypeOK, LoadersTypeOK, Handed

\* Every step of a caller keeps the types of the cache and the callers.
LEMMA CallerStepType ==
    ASSUME TypeOK, QueryTypeOK, NEW c \in Callers, CallerStep(c),
           UNCHANGED <<vars, configVars, configurerVars>>
    PROVE  QueryTypeOK'
  <1> USE DEF QueryTypeOK, Step, cacheVars, configVars, configurerVars
  <1>0. /\ qhandle[c] \in Handle /\ qquery[c] \in Queries
        /\ Key(qhandle[c], qquery[c]) \in KeyType
        /\ RowOf(qhandle[c], qquery[c]) \in Row
    BY KeyRowType
  <1>1. CASE Capture(c)
    <2>1. PICK name \in Names \cup {NoName}, q \in Queries, useGlobal \in BOOLEAN :
             /\ qhandle' = [qhandle EXCEPT ![c] = Handed(name)]
             /\ qquery' = [qquery EXCEPT ![c] = q]
             /\ qglobal' = [qglobal EXCEPT ![c] = useGlobal]
      BY <1>1 DEF Capture
    <2>2. Handed(name) \in Handle
      BY HandedType
    <2> QED BY <1>1, <2>1, <2>2, NoRowType DEF Capture
  <1>2. CASE NotInitialized(c)
    BY <1>2 DEF NotInitialized
  <1>3. CASE Gate(c)
    <2>1. qglobal' \in [Callers -> BOOLEAN]
      BY <1>3 DEF Gate
    <2>2. qpc' \in [Callers -> {"idle", "gate", "recheck", "peek", "expiry", "pop",
                                "query", "save", "done", "failed"}]
      BY <1>3 DEF Gate
    <2> QED BY <1>3, <2>1, <2>2 DEF Gate
  <1>4. CASE Recheck(c)
    BY <1>4 DEF Recheck
  <1>5. CASE Peek(c)
    BY <1>5 DEF Peek, Entry
  <1>6. CASE Hit(c)
    BY <1>6 DEF Hit
  <1>7. CASE Expired(c)
    BY <1>7 DEF Expired
  <1>8. CASE PopExpired(c)
    BY <1>8 DEF PopExpired
  <1>9. CASE QueryProvider(c)
    BY <1>0, <1>9 DEF QueryProvider
  <1>10. CASE QueryFails(c)
    BY <1>10 DEF QueryFails
  <1>11. CASE Save(c)
    <2>1. [key |-> Key(qhandle[c], qquery[c]), row |-> qrow[c]] \in Entry
      BY <1>0 DEF Entry
    <2>2. cache' \subseteq Entry
      BY <1>11, <2>1, StoredEntries DEF Save
    <2> QED BY <1>11, <2>2 DEF Save
  <1> QED
    BY <1>1, <1>2, <1>3, <1>4, <1>5, <1>6, <1>7, <1>8, <1>9, <1>10, <1>11
    DEF CallerStep

\* Every step of configure_result_cache keeps the types.
LEMMA ConfigureStepType ==
    ASSUME QueryTypeOK, NEW i \in Loaders, ConfigureStep(i), UNCHANGED callerVars
    PROVE  QueryTypeOK'
  <1> USE DEF QueryTypeOK, cacheVars, configVars, callerVars
  <1>0. cconf[i] \in ConfigType
    OBVIOUS
  <1>1. CASE WriteConfig(i)
    <2>1. PICK conf \in Configs :
             /\ cconf' = [cconf EXCEPT ![i] = Clamped(conf)]
             /\ creset' = [creset EXCEPT ![i] = ShouldReset(cacheConfig, Clamped(conf))]
             /\ cacheConfig' = Clamped(conf)
      BY <1>1 DEF WriteConfig
    <2>2. Clamped(conf) \in ConfigType
      BY ClampedType
    <2>3. ShouldReset(cacheConfig, Clamped(conf)) \in BOOLEAN
      BY DEF ShouldReset
    <2> QED BY <1>1, <2>1, <2>2, <2>3 DEF WriteConfig
  <1>2. CASE StoreEnabled(i)
    BY <1>0, <1>2 DEF StoreEnabled, ConfigType
  <1>3. CASE StoreTtl(i)
    BY <1>0, <1>3 DEF StoreTtl, ConfigType
  <1>4. CASE ResetCache(i)
    BY <1>0, <1>4 DEF ResetCache, ConfigType
  <1> QED BY <1>1, <1>2, <1>3, <1>4 DEF ConfigureStep

\* A step of the registry keeps the types.
LEMMA RegistryStepType ==
    ASSUME TypeOK, QueryTypeOK, NEW i \in Loaders, RegistryStep(i),
           UNCHANGED <<readerVars, callerVars>>
    PROVE  TypeOK' /\ QueryTypeOK'
  <1>1. LoadersTypeOK'
    BY LoaderStepType DEF RegistryStep, TypeOK
  <1>2. ReadersTypeOK'
    BY DEF TypeOK, ReadersTypeOK, readerVars
  <1>3. QueryTypeOK'
    BY DEF RegistryStep, QueryTypeOK, configVars, cacheVars, callerVars
  <1> QED BY <1>1, <1>2, <1>3 DEF TypeOK

-----------------------------------------------------------------------------
(***************************************************************************)
(* The invariant                                                           *)
(***************************************************************************)

\* The empty runtime knows no handle.
LEMMA QueryInvInit == QueryInit => QueryInv
  <1> SUFFICES ASSUME QueryInit PROVE QueryInv
    OBVIOUS
  <1>1. Known = {}
    BY DEF QueryInit, Init, Known, LiveHandles, Installing
  <1> QED
    BY <1>1, QueryInitType DEF QueryInv, QueryInit, KnownIdentified, CacheHonest,
       CallersHonest, Pending

\* A step of the registry knows at most one handle more, of a new generation.
LEMMA RegistryStepInv ==
    ASSUME QueryInv, NEW i \in Loaders, RegistryStep(i),
           UNCHANGED <<readerVars, callerVars>>
    PROVE  QueryInv'
  <1>1. TypeOK' /\ QueryTypeOK'
    BY RegistryStepType DEF QueryInv
  <1>2. UNCHANGED <<cache, qpc, qhandle, qquery, qrow>> /\ LoaderStep(i)
    BY DEF RegistryStep, callerVars, cacheVars
  <1>3. CacheHonest' /\ CallersHonest'
    BY <1>2 DEF QueryInv, CacheHonest, CallersHonest, Pending
  <1>4. GenerationIdentifiesHandle
    BY DEF QueryInv, KnownIdentified, Known, GenerationIdentifiesHandle
  <1>5. KnownIdentified'
    <2>1. CASE TakeGeneration(i)
      <3>1. /\ nextGeneration' = nextGeneration + 1
            /\ \A h \in LiveHandles' : h \in LiveHandles \/ h = BuiltHandle(i)'
            /\ BuiltHandle(i)'.generation = nextGeneration + 1
        BY <2>1, LiveGrows DEF QueryInv
      <3>2. \A h \in Known' : h \in Known \/ h = BuiltHandle(i)'
        BY <1>2, <3>1 DEF Known
      <3>3. nextGeneration \in Nat
        BY DEF QueryInv, TypeOK, LoadersTypeOK
      <3> QED
        BY <3>1, <3>2, <3>3 DEF QueryInv, KnownIdentified
    <2>2. CASE ~ TakeGeneration(i)
      <3>1. LiveHandles' \subseteq LiveHandles /\ nextGeneration' = nextGeneration
        BY <1>2, <1>4, <2>2, LiveShrinks DEF QueryInv
      <3>2. Known' \subseteq Known
        BY <1>2, <3>1 DEF Known
      <3> QED
        BY <3>1, <3>2 DEF QueryInv, KnownIdentified
    <2> QED BY <2>1, <2>2
  <1> QED BY <1>1, <1>3, <1>5 DEF QueryInv

\* Steps that leave the registry alone keep its live handles.
LEMMA SameLive ==
    ASSUME UNCHANGED vars
    PROVE  LiveHandles' = LiveHandles /\ nextGeneration' = nextGeneration
  BY DEF vars, registryVars, sharedVars, slotVars, namedVars, loaderVars,
     LiveHandles, Installing, BuiltHandle, SpecName

\* Steps that leave the registry alone keep its types.
LEMMA SameTypes == ASSUME TypeOK, UNCHANGED vars PROVE TypeOK'
  BY DEF TypeOK, LoadersTypeOK, ReadersTypeOK, Installing, vars, registryVars,
     sharedVars, slotVars, namedVars, countVars, loaderVars, readerVars

\* configure_result_cache at most empties the cache.
LEMMA ConfigureStepInv ==
    ASSUME QueryInv, NEW i \in Loaders, ConfigureStep(i), UNCHANGED <<vars, callerVars>>
    PROVE  QueryInv'
  <1>1. TypeOK' /\ QueryTypeOK'
    BY SameTypes, ConfigureStepType DEF QueryInv
  <1>2. cache' \subseteq cache
    BY DEF ConfigureStep, WriteConfig, StoreEnabled, StoreTtl, ResetCache, cacheVars
  <1>3. Known' \subseteq Known /\ nextGeneration' = nextGeneration
    BY <1>2, SameLive DEF Known, callerVars
  <1>4. KnownIdentified'
    BY <1>3 DEF QueryInv, KnownIdentified
  <1>5. CacheHonest' /\ CallersHonest'
    BY <1>2 DEF QueryInv, CacheHonest, CallersHonest, Pending, callerVars
  <1> QED BY <1>1, <1>4, <1>5 DEF QueryInv

\* The heart of the matter: a row found under the key of a captured handle is
\* that handle's row.
LEMMA HitIsHonest ==
    ASSUME QueryInv, NEW c \in Callers, qhandle[c] # NoHandle, NEW e \in cache,
           e.key = Key(qhandle[c], qquery[c])
    PROVE  e.row = RowOf(qhandle[c], qquery[c])
  <1>1. e \in Entry /\ e.row \in Row /\ qhandle[c] \in Handle
    BY DEF QueryInv, QueryTypeOK, Entry
  <1>2. e.key = Key(e.row.handle, e.row.query)
    BY DEF QueryInv, CacheHonest
  <1>3. e.row.handle.generation = qhandle[c].generation /\ e.row.query = qquery[c]
    BY <1>2 DEF Key
  <1>4. e.row.handle \in Known /\ qhandle[c] \in Known
    BY DEF Known
  <1>5. e.row.handle = qhandle[c]
    BY <1>3, <1>4 DEF QueryInv, KnownIdentified
  <1> QED BY <1>1, <1>3, <1>5 DEF Row, RowOf

\* Every step of a caller keeps the invariant.
LEMMA CallerStepInv ==
    ASSUME QueryInv, NEW c \in Callers, CallerStep(c),
           UNCHANGED <<vars, configVars, configurerVars>>
    PROVE  QueryInv'
  <1> USE DEF Step, cacheVars
  <1>1. TypeOK' /\ QueryTypeOK'
    BY SameTypes, CallerStepType DEF QueryInv
  <1>2. LiveHandles' = LiveHandles /\ nextGeneration' = nextGeneration
    BY SameLive
  <1>3. /\ qpc \in [Callers -> {"idle", "gate", "recheck", "peek", "expiry", "pop",
                                "query", "save", "done", "failed"}]
        /\ qhandle \in [Callers -> Handle] /\ qquery \in [Callers -> Queries]
        /\ qrow \in [Callers -> Row]
    BY DEF QueryInv, QueryTypeOK
  <1>4. CASE Capture(c)
    <2>1. PICK name \in Names \cup {NoName}, q \in Queries :
             /\ Handed(name) # NoHandle
             /\ qhandle' = [qhandle EXCEPT ![c] = Handed(name)]
             /\ qquery' = [qquery EXCEPT ![c] = q]
      BY <1>4 DEF Capture
    <2>2. Handed(name) \in LiveHandles
      BY <2>1 DEF Handed, LiveHandles
    <2>3. Known' \subseteq Known
      BY <1>2, <1>3, <1>4, <2>1, <2>2 DEF Known, Capture
    <2>4. KnownIdentified'
      BY <1>2, <2>3 DEF QueryInv, KnownIdentified
    <2>5. CacheHonest' /\ CallersHonest'
      BY <1>3, <1>4, <2>1 DEF QueryInv, CacheHonest, CallersHonest, Pending, Capture
    <2> QED BY <1>1, <2>4, <2>5 DEF QueryInv
  <1>5. ASSUME UNCHANGED <<qhandle, qquery>>, cache' \subseteq cache
        PROVE  KnownIdentified' /\ CacheHonest'
    <2>1. Known' \subseteq Known
      BY <1>2, <1>5 DEF Known
    <2> QED
      BY <1>2, <1>5, <2>1 DEF QueryInv, KnownIdentified, CacheHonest
  <1>6. CASE Peek(c)
    <2>1. qhandle[c] # NoHandle
      BY <1>6 DEF QueryInv, CallersHonest, Pending, Peek
    <2>2. CASE \E e \in cache : /\ e.key = Key(qhandle[c], qquery[c])
                                /\ qrow' = [qrow EXCEPT ![c] = e.row]
                                /\ qpc' = [qpc EXCEPT ![c] = "expiry"]
      <3>1. PICK e \in cache : /\ e.key = Key(qhandle[c], qquery[c])
                               /\ qrow' = [qrow EXCEPT ![c] = e.row]
                               /\ qpc' = [qpc EXCEPT ![c] = "expiry"]
        BY <2>2
      <3>2. e.row = RowOf(qhandle[c], qquery[c])
        BY <2>1, <3>1, HitIsHonest
      <3>3. CallersHonest'
        BY <1>3, <1>6, <2>1, <3>1, <3>2 DEF QueryInv, CallersHonest, Pending, Peek
      <3> QED BY <1>1, <1>5, <1>6, <3>3 DEF QueryInv, Peek
    <2>3. CASE qpc' = [qpc EXCEPT ![c] = "query"] /\ UNCHANGED qrow
      <3>1. CallersHonest'
        BY <1>3, <1>6, <2>1, <2>3 DEF QueryInv, CallersHonest, Pending, Peek
      <3> QED BY <1>1, <1>5, <1>6, <3>1 DEF QueryInv, Peek
    <2> QED BY <1>6, <2>2, <2>3 DEF Peek
  <1>7. CASE QueryProvider(c)
    <2>1. CallersHonest'
      BY <1>3, <1>7 DEF QueryInv, CallersHonest, Pending, QueryProvider
    <2> QED BY <1>1, <1>5, <1>7, <2>1 DEF QueryInv, QueryProvider
  <1>8. CASE Save(c)
    <2>1. qrow[c] = RowOf(qhandle[c], qquery[c]) /\ qhandle[c] # NoHandle
      BY <1>8 DEF QueryInv, CallersHonest, Pending, Save
    <2> DEFINE new == [key |-> Key(qhandle[c], qquery[c]), row |-> qrow[c]]
    <2>2. cache' \subseteq cache \cup {new}
      BY <1>8, StoredEntries DEF Save
    <2>3. new.row.handle = qhandle[c] /\ new.key = Key(new.row.handle, new.row.query)
      BY <2>1 DEF RowOf
    <2>4. Known' \subseteq Known
      BY <1>2, <1>8, <2>1, <2>2, <2>3 DEF Known, Save
    <2>5. KnownIdentified'
      BY <1>2, <2>4 DEF QueryInv, KnownIdentified
    <2>6. CacheHonest'
      BY <2>2, <2>3 DEF QueryInv, CacheHonest
    <2>7. CallersHonest'
      BY <1>3, <1>8, <2>1 DEF QueryInv, CallersHonest, Pending, Save
    <2> QED BY <1>1, <2>5, <2>6, <2>7 DEF QueryInv
  <1>9. CASE NotInitialized(c) \/ Gate(c) \/ Recheck(c) \/ Hit(c) \/ Expired(c)
               \/ PopExpired(c) \/ QueryFails(c)
    <2>1. UNCHANGED <<qhandle, qquery, qrow>> /\ cache' \subseteq cache
      BY <1>9 DEF NotInitialized, Gate, Recheck, Hit, Expired, PopExpired, QueryFails
    <2>2. \/ qpc[c] = "expiry" /\ qpc' = [qpc EXCEPT ![c] = "done"]
          \/ Pending(c) /\ \E l \in {"recheck", "query", "peek", "pop", "failed"} :
                qpc' = [qpc EXCEPT ![c] = l]
          \/ qpc' = [qpc EXCEPT ![c] = "failed"]
      BY <1>9 DEF NotInitialized, Gate, Recheck, Hit, Expired, PopExpired, QueryFails,
         Pending
    <2>3. CallersHonest'
      BY <1>3, <2>1, <2>2 DEF QueryInv, CallersHonest, Pending
    <2> QED BY <1>1, <1>5, <2>1, <2>3 DEF QueryInv
  <1> QED
    BY <1>4, <1>6, <1>7, <1>8, <1>9 DEF CallerStep

\* Every step of the runtime keeps the invariant.
LEMMA QueryInvNext == QueryInv /\ [QueryNext]_queryVars => QueryInv'
  <1> SUFFICES ASSUME QueryInv, [QueryNext]_queryVars PROVE QueryInv'
    OBVIOUS
  <1>1. CASE UNCHANGED queryVars
    <2>1. UNCHANGED vars
      BY <1>1 DEF queryVars
    <2>2. TypeOK' /\ LiveHandles' = LiveHandles /\ nextGeneration' = nextGeneration
      BY <2>1, SameTypes, SameLive DEF QueryInv
    <2>3. /\ UNCHANGED <<cache, qpc, qhandle, qquery, qrow>>
          /\ UNCHANGED <<configVars, cacheVars, configurerVars, callerVars>>
      BY <1>1 DEF queryVars, cacheVars, callerVars
    <2>4. QueryTypeOK'
      BY <2>3 DEF QueryInv, QueryTypeOK, configVars, cacheVars, configurerVars, callerVars
    <2>5. KnownIdentified' /\ CacheHonest' /\ CallersHonest'
      BY <2>2, <2>3 DEF QueryInv, KnownIdentified, Known, CacheHonest, CallersHonest, Pending
    <2> QED BY <2>2, <2>4, <2>5 DEF QueryInv
  <1> QED
    BY <1>1, RegistryStepInv, ConfigureStepInv, CallerStepInv DEF QueryNext

\* The invariant holds throughout.
LEMMA QueryInvHolds == QuerySpec => []QueryInv
  BY QueryInvInit, QueryInvNext, PTL DEF QuerySpec

\* The cache, its configuration and the callers keep their types, the capacity
\* and the ttl stay above zero.
THEOREM QueryTypeCorrect == QuerySpec => []QueryTypeOK
  <1>1. QueryInv => QueryTypeOK
    BY DEF QueryInv
  <1> QED BY <1>1, QueryInvHolds, PTL

\* Every entry of the result cache belongs to the handle and the query of its
\* key, whatever loads and reconfigurations overlapped with its save.
THEOREM CacheStaysHonest == QuerySpec => []CacheHonest
  <1>1. QueryInv => CacheHonest
    BY DEF QueryInv
  <1> QED BY <1>1, QueryInvHolds, PTL

-----------------------------------------------------------------------------
(***************************************************************************)
(* Refinement                                                              *)
(***************************************************************************)

\* The mapping of a control point is determined by where a call stands.
LEMMA StatusCases ==
    /\ StatusOf("idle") = "idle" /\ StatusOf("done") = "answered"
    /\ StatusOf("failed") = "failed"
    /\ \A l \in {"gate", "recheck", "peek", "expiry", "pop", "query", "save"} :
          StatusOf(l) = "pending"
  BY DEF StatusOf

\* Every step of a caller is a step of a direct query, or none.
LEMMA CallerStepRefines ==
    ASSUME QueryInv, NEW c \in Callers, CallerStep(c), QueryTypeOK'
    PROVE  [Direct!Next]_(Direct!vars)
  <1> USE DEF Step
  <1> DEFINE st  == [d \in Callers |-> StatusOf(qpc[d])]
             ask == [d \in Callers |-> RowOf(qhandle[d], qquery[d])]
             ans == [d \in Callers |-> IF qpc[d] = "done" THEN qrow[d] ELSE NoRow]
  <1>1. /\ qpc \in [Callers -> {"idle", "gate", "recheck", "peek", "expiry", "pop",
                                "query", "save", "done", "failed"}]
        /\ qhandle \in [Callers -> Handle] /\ qquery \in [Callers -> Queries]
        /\ qrow \in [Callers -> Row]
        /\ qhandle' \in [Callers -> Handle] /\ qquery' \in [Callers -> Queries]
    BY DEF QueryInv, QueryTypeOK
  <1>2. CASE Capture(c)
    <2>1. /\ st[c] # "pending"
          /\ st' = [st EXCEPT ![c] = "pending"]
          /\ ans' = [ans EXCEPT ![c] = NoRow]
      BY <1>1, <1>2, StatusCases DEF Capture, Pending
    <2>2. ask'[c] \in [handle : Handle, query : Queries]
      BY <1>1 DEF RowOf
    <2>3. PICK h, q : qhandle' = [qhandle EXCEPT ![c] = h] /\ qquery' = [qquery EXCEPT ![c] = q]
      BY <1>2 DEF Capture
    <2>4. ask' = [ask EXCEPT ![c] = ask'[c]]
      BY <1>1, <2>3 DEF RowOf
    <2>5. Direct!Ask(c)
      BY <2>1, <2>2, <2>4 DEF Direct!Ask, Direct!Question
    <2> QED BY <2>5 DEF Direct!Next
  <1>3. CASE NotInitialized(c)
    <2>1. /\ st[c] # "pending"
          /\ st' = [st EXCEPT ![c] = "failed"]
          /\ ans' = [ans EXCEPT ![c] = NoRow]
          /\ ask' = ask
      BY <1>1, <1>3, StatusCases DEF NotInitialized, Pending
    <2>2. Direct!Refuse(c)
      BY <2>1 DEF Direct!Refuse
    <2> QED BY <2>2 DEF Direct!Next
  <1>4. ASSUME Pending(c), UNCHANGED <<qhandle, qquery>>,
               qpc' = [qpc EXCEPT ![c] = "done"], qrow'[c] = RowOf(qhandle[c], qquery[c]),
               \A d \in Callers \ {c} : qrow'[d] = qrow[d]
        PROVE  [Direct!Next]_(Direct!vars)
    <2>1. /\ st[c] = "pending"
          /\ st' = [st EXCEPT ![c] = "answered"]
          /\ ans' = [ans EXCEPT ![c] = ask[c]]
          /\ ask' = ask
      BY <1>1, <1>4, StatusCases DEF Pending
    <2>2. Direct!Answer(c)
      BY <2>1 DEF Direct!Answer
    <2> QED BY <2>2 DEF Direct!Next
  <1>5. ASSUME Pending(c), UNCHANGED <<qhandle, qquery>>,
               NEW l \in {"recheck", "peek", "expiry", "pop", "query", "save"},
               qpc' = [qpc EXCEPT ![c] = l],
               \A d \in Callers \ {c} : qrow'[d] = qrow[d]
        PROVE  [Direct!Next]_(Direct!vars)
    <2>1. st' = st /\ ans' = ans /\ ask' = ask
      BY <1>1, <1>5, StatusCases DEF Pending
    <2> QED BY <2>1 DEF Direct!vars
  <1>6. CASE Gate(c)
    BY <1>1, <1>5, <1>6 DEF Gate, Pending
  <1>7. CASE Recheck(c)
    BY <1>1, <1>5, <1>7 DEF Recheck, Pending
  <1>8. CASE Peek(c)
    BY <1>1, <1>5, <1>8 DEF Peek, Pending
  <1>9. CASE Hit(c)
    <2>1. qrow[c] = RowOf(qhandle[c], qquery[c])
      BY <1>9 DEF Hit, QueryInv, CallersHonest
    <2> QED BY <1>1, <1>4, <1>9, <2>1 DEF Hit, Pending
  <1>10. CASE Expired(c)
    BY <1>1, <1>5, <1>10 DEF Expired, Pending
  <1>11. CASE PopExpired(c)
    BY <1>1, <1>5, <1>11 DEF PopExpired, Pending
  <1>12. CASE QueryProvider(c)
    <2>1. /\ Pending(c) /\ UNCHANGED <<qhandle, qquery>>
          /\ qrow'[c] = RowOf(qhandle[c], qquery[c])
          /\ \A d \in Callers \ {c} : qrow'[d] = qrow[d]
      BY <1>1, <1>12 DEF QueryProvider, Pending
    <2>2. CASE qglobal[c]
      BY <1>5, <1>12, <2>1, <2>2 DEF QueryProvider
    <2>3. CASE ~ qglobal[c]
      BY <1>4, <1>12, <2>1, <2>3 DEF QueryProvider
    <2> QED BY <2>2, <2>3
  <1>13. CASE QueryFails(c)
    <2>1. /\ st[c] = "pending"
          /\ st' = [st EXCEPT ![c] = "failed"]
          /\ ans' = ans /\ ask' = ask
      BY <1>1, <1>13, StatusCases DEF QueryFails
    <2>2. Direct!Fail(c)
      BY <2>1 DEF Direct!Fail
    <2> QED BY <2>2 DEF Direct!Next
  <1>14. CASE Save(c)
    <2>1. qrow[c] = RowOf(qhandle[c], qquery[c])
      BY <1>14 DEF Save, QueryInv, CallersHonest
    <2> QED BY <1>1, <1>4, <1>14, <2>1 DEF Save, Pending
  <1> QED
    BY <1>2, <1>3, <1>6, <1>7, <1>8, <1>9, <1>10, <1>11, <1>12, <1>13, <1>14
    DEF CallerStep

\* The result cache is transparent: for every number of overlapping loads,
\* callers and configurations, the runtime with the cache implements the one
\* in which every call asks the provider it captured.
THEOREM ResultCacheTransparent == QuerySpec => CacheTransparent
  <1>1. QueryInit => Direct!Init
    <2> SUFFICES ASSUME QueryInit PROVE Direct!Init
      OBVIOUS
    <2>1. /\ [c \in Callers |-> StatusOf(qpc[c])] = [c \in Callers |-> "idle"]
          /\ [c \in Callers |-> IF qpc[c] = "done" THEN qrow[c] ELSE NoRow]
                = [c \in Callers |-> NoRow]
      BY StatusCases DEF QueryInit
    <2>2. [c \in Callers |-> RowOf(qhandle[c], qquery[c])]
             \in [Callers -> [handle : Handle, query : Queries]]
      BY NoHandleType, NoRowType DEF QueryInit, RowOf
    <2> QED BY <2>1, <2>2 DEF Direct!Init, Direct!Question
  <1>2. QueryInv /\ QueryInv' /\ [QueryNext]_queryVars => [Direct!Next]_(Direct!vars)
    <2> SUFFICES ASSUME QueryInv, QueryInv', [QueryNext]_queryVars
                 PROVE  [Direct!Next]_(Direct!vars)
      OBVIOUS
    <2>1. CASE UNCHANGED callerVars
      BY <2>1 DEF Direct!vars, callerVars
    <2>2. ASSUME NEW c \in Callers, CallerStep(c) PROVE [Direct!Next]_(Direct!vars)
      BY <2>2, CallerStepRefines DEF QueryInv
    <2> QED BY <2>1, <2>2 DEF QueryNext, queryVars
  <1> QED
    BY <1>1, <1>2, QueryInvHolds, PTL DEF QuerySpec, CacheTransparent, Direct!Spec

-----------------------------------------------------------------------------
(***************************************************************************)
(* The configuration of the cache, when loads do not overlap.              *)
(* configure_result_cache writes the configuration, the switch, the ttl    *)
(* and, if need be, a new cache one after the other; the invariant says    *)
(* which of them agree after each write.  A cache that is not reset has    *)
(* the right capacity because ShouldReset compares the capacities.         *)
(***************************************************************************)
Settled ==
    /\ cacheEnabled = cacheConfig.enabled
    /\ cacheTtl = cacheConfig.ttl
    /\ cacheCap = cacheConfig.capacity

\* Where a loader is in configure_result_cache, and what agrees by then.
Configuring(i) ==
    /\ ~ Configures(i) => cpc[i] = "config"
    /\ cpc[i] \in {"enabled", "ttl", "reset"} => cconf[i] = cacheConfig
    /\ cpc[i] \in {"enabled", "ttl"} =>
          creset[i] \/ cacheCap = cacheConfig.capacity
    /\ cpc[i] \in {"ttl", "reset"} => cacheEnabled = cacheConfig.enabled
    /\ cpc[i] = "reset" => cacheTtl = cacheConfig.ttl

\* No store takes the cache beyond the capacity it was made with.
CacheBounded == IsFiniteSet(cache) /\ Cardinality(cache) <= cacheCap

ConfigInv ==
    /\ \A i \in Loaders : Configuring(i)
    /\ (\A i \in Loaders : cpc[i] \in {"config", "done"}) => Settled
    /\ CacheBounded

\* LruCache::put keeps the cache within its capacity.
LEMMA StoredBounded ==
    ASSUME NEW es, IsFiniteSet(es), NEW cap \in Nat \ {0}, Cardinality(es) <= cap,
           NEW e, NEW res \in Stored(es, cap, e)
    PROVE  IsFiniteSet(res) /\ Cardinality(res) <= cap
  <1> DEFINE others == {x \in es : x.key # e.key}
  <1>1. Cardinality(es) \in Nat
    BY FS_CardinalityType
  <1>2. /\ IsFiniteSet(others) /\ Cardinality(others) <= Cardinality(es)
    BY FS_Subset
  <1>3. Cardinality(others) \in Nat
    BY <1>2, FS_CardinalityType
  <1>4. res \in IF Cardinality(others) < cap
                  THEN {others \cup {e}}
                  ELSE {(others \ {victim}) \cup {e} : victim \in others}
    BY DEF Stored
  <1> HIDE DEF others
  <1>5. CASE Cardinality(others) < cap
    <2>1. res = others \cup {e}
      BY <1>4, <1>5
    <2>2. /\ IsFiniteSet(others \cup {e})
          /\ Cardinality(others \cup {e}) \in {Cardinality(others), Cardinality(others) + 1}
      BY <1>2, FS_AddElement
    <2> QED BY <1>3, <1>5, <2>1, <2>2
  <1>6. CASE ~ (Cardinality(others) < cap)
    <2>1. PICK victim \in others : res = (others \ {victim}) \cup {e}
      BY <1>4, <1>6
    <2> DEFINE rest == others \ {victim}
    <2>2. IsFiniteSet(rest) /\ Cardinality(rest) = Cardinality(others) - 1
      BY <1>2, FS_RemoveElement
    <2>3. /\ IsFiniteSet(rest \cup {e})
          /\ Cardinality(rest \cup {e}) \in {Cardinality(rest), Cardinality(rest) + 1}
      BY <2>2, FS_AddElement
    <2>4. res = rest \cup {e}
      BY <2>1
    <2> HIDE DEF rest
    <2> QED BY <1>1, <1>2, <1>3, <2>2, <2>3, <2>4
  <1> QED BY <1>5, <1>6

\* A caller changes the cache only by removing entries or by a store.
LEMMA CallerKeepsBound ==
    ASSUME QueryTypeOK, CacheBounded, NEW c \in Callers, CallerStep(c)
    PROVE  CacheBounded' /\ cacheCap' = cacheCap
  <1>1. CASE UNCHANGED cacheVars
    BY <1>1 DEF CacheBounded, cacheVars
  <1>2. CASE PopExpired(c)
    <2>1. cache' \subseteq cache /\ cacheCap' = cacheCap
      BY <1>2 DEF PopExpired
    <2>2. /\ IsFiniteSet(cache') /\ Cardinality(cache') <= Cardinality(cache)
      BY <2>1, FS_Subset DEF CacheBounded
    <2>3. Cardinality(cache) \in Nat /\ Cardinality(cache') \in Nat /\ cacheCap \in Nat
      BY <2>2, FS_CardinalityType DEF CacheBounded, QueryTypeOK
    <2> QED BY <2>1, <2>2, <2>3 DEF CacheBounded
  <1>3. CASE Save(c)
    <2>1. /\ cache' \in Stored(cache, cacheCap,
                               [key |-> Key(qhandle[c], qquery[c]), row |-> qrow[c]])
          /\ cacheCap' = cacheCap
      BY <1>3 DEF Save
    <2>2. cacheCap \in Nat \ {0}
      BY DEF QueryTypeOK
    <2> QED BY <2>1, <2>2, StoredBounded DEF CacheBounded
  <1> QED
    BY <1>1, <1>2, <1>3 DEF CallerStep, Capture, NotInitialized, Gate, Recheck,
       Peek, Hit, Expired, QueryProvider, QueryFails

\* Every step of configure_result_cache, with no other load beside it.
LEMMA ConfigureStepSettles ==
    ASSUME OneLoader, QueryTypeOK, ConfigInv, NEW i \in Loaders, ConfigureStep(i),
           UNCHANGED vars
    PROVE  ConfigInv'
  <1>1. \A j \in Loaders : j = i
    BY DEF OneLoader
  <1>2. Configuring(i) /\ (cpc[i] \in {"config", "done"} => Settled) /\ CacheBounded
    BY <1>1 DEF ConfigInv
  <1>3. Configures(i) /\ Configures(i)'
    BY DEF ConfigureStep, WriteConfig, StoreEnabled, StoreTtl, ResetCache, Configures,
       vars, registryVars, loaderVars
  <1>4. SUFFICES /\ Configuring(i)'
                 /\ cpc'[i] \in {"config", "done"} => Settled'
                 /\ CacheBounded'
    BY <1>1 DEF ConfigInv
  <1>5. /\ cpc \in [Loaders -> {"config", "enabled", "ttl", "reset", "done"}]
        /\ cconf \in [Loaders -> ConfigType] /\ creset \in [Loaders -> BOOLEAN]
    BY DEF QueryTypeOK
  <1>6. UNCHANGED cacheVars => CacheBounded'
    BY <1>2 DEF CacheBounded, cacheVars
  <1>7. CASE WriteConfig(i)
    <2>1. PICK conf \in Configs :
             /\ cconf' = [cconf EXCEPT ![i] = Clamped(conf)]
             /\ creset' = [creset EXCEPT ![i] = ShouldReset(cacheConfig, Clamped(conf))]
             /\ cacheConfig' = Clamped(conf)
      BY <1>7 DEF WriteConfig
    <2>2. /\ cpc[i] = "config" /\ cpc'[i] = "enabled"
          /\ UNCHANGED <<cacheEnabled, cacheTtl, cache, cacheCap>>
      BY <1>5, <1>7 DEF WriteConfig, cacheVars
    <2>3. cconf'[i] = cacheConfig'
      BY <1>5, <2>1
    <2>4. creset'[i] \/ cacheCap' = cacheConfig'.capacity
      BY <1>2, <1>5, <2>1, <2>2 DEF ShouldReset, Settled
    <2> QED BY <1>3, <1>6, <2>2, <2>3, <2>4 DEF Configuring, cacheVars
  <1>8. CASE StoreEnabled(i)
    <2>1. /\ cpc[i] = "enabled" /\ cpc'[i] = "ttl" /\ cacheEnabled' = cconf[i].enabled
          /\ UNCHANGED <<cacheConfig, cacheTtl, cache, cacheCap, cconf, creset>>
      BY <1>5, <1>8 DEF StoreEnabled, cacheVars
    <2> QED BY <1>2, <1>3, <1>6, <2>1 DEF Configuring, cacheVars
  <1>9. CASE StoreTtl(i)
    <2>1. /\ cpc[i] = "ttl" /\ cpc'[i] = (IF creset[i] THEN "reset" ELSE "done")
          /\ cacheTtl' = cconf[i].ttl
          /\ UNCHANGED <<cacheConfig, cacheEnabled, cache, cacheCap, cconf, creset>>
      BY <1>5, <1>9 DEF StoreTtl, cacheVars
    <2> QED BY <1>2, <1>3, <1>6, <2>1 DEF Configuring, Settled, cacheVars
  <1>10. CASE ResetCache(i)
    <2>1. /\ cpc[i] = "reset" /\ cpc'[i] = "done"
          /\ cache' = {} /\ cacheCap' = cconf[i].capacity
          /\ UNCHANGED <<cacheConfig, cacheEnabled, cacheTtl, cconf, creset>>
      BY <1>5, <1>10 DEF ResetCache, configVars
    <2>2. cconf[i].capacity \in Nat
      BY <1>5 DEF ConfigType
    <2>3. CacheBounded'
      BY <2>1, <2>2, FS_EmptySet DEF CacheBounded
    <2> QED BY <1>2, <1>3, <2>1, <2>3 DEF Configuring, Settled
  <1> QED BY <1>7, <1>8, <1>9, <1>10 DEF ConfigureStep

\* Loads that do not overlap: outside configure_result_cache the switch, the
\* ttl, the capacity of the cache and its fill agree with the configuration
\* snapshot() reports, whatever callers store or remove meanwhile.
THEOREM ConfigurationsSettle == OneLoader => (QuerySpec => []ConfigurationSettles)
  <1> SUFFICES ASSUME OneLoader PROVE QuerySpec => []ConfigurationSettles
    OBVIOUS
  <1>1. QueryInit => ConfigInv
    <2> SUFFICES ASSUME QueryInit PROVE ConfigInv
      OBVIOUS
    <2>1. Settled /\ \A i \in Loaders : cpc[i] = "config"
      BY DEF QueryInit, Settled, DefaultConfig
    <2>2. CacheBounded
      BY FS_EmptySet DEF QueryInit, CacheBounded
    <2> QED BY <2>1, <2>2 DEF ConfigInv, Configuring
  <1>2. QueryTypeOK /\ ConfigInv /\ [QueryNext]_queryVars => ConfigInv'
    <2> SUFFICES ASSUME QueryTypeOK, ConfigInv, [QueryNext]_queryVars PROVE ConfigInv'
      OBVIOUS
    <2>1. ASSUME NEW i \in Loaders, RegistryStep(i) PROVE ConfigInv'
      <3>1. \A j \in Loaders : j = i
        BY DEF OneLoader
      <3>2. /\ Configures(i) => cpc[i] = "done"
            /\ cpc'[i] = "config"
            /\ UNCHANGED <<cacheConfig, cacheEnabled, cacheTtl, cache, cacheCap>>
        BY <2>1 DEF RegistryStep, configVars, cacheVars, QueryTypeOK
      <3>3. Settled /\ CacheBounded
        BY <3>1, <3>2 DEF ConfigInv, Configuring
      <3>4. Settled' /\ CacheBounded'
        BY <3>2, <3>3 DEF Settled, CacheBounded
      <3> QED BY <3>1, <3>2, <3>4 DEF ConfigInv, Configuring
    <2>2. ASSUME NEW i \in Loaders, ConfigureStep(i), UNCHANGED vars PROVE ConfigInv'
      BY <2>2, ConfigureStepSettles
    <2>3. ASSUME NEW c \in Callers, CallerStep(c),
                 UNCHANGED <<vars, configVars, configurerVars>>
          PROVE  ConfigInv'
      <3>1. CacheBounded' /\ cacheCap' = cacheCap
        BY <2>3, CallerKeepsBound DEF ConfigInv
      <3>2. UNCHANGED <<pc, plan, cpc, cconf, creset, cacheConfig, cacheEnabled, cacheTtl>>
        BY <2>3 DEF vars, registryVars, loaderVars, configVars, configurerVars
      <3> QED BY <3>1, <3>2 DEF ConfigInv, Configuring, Configures, Settled
    <2>4. CASE UNCHANGED queryVars
      <3>1. UNCHANGED <<pc, plan, cpc, cconf, creset, cacheConfig, cacheEnabled, cacheTtl,
                        cache, cacheCap>>
        BY <2>4 DEF queryVars, vars, registryVars, loaderVars, configVars,
           configurerVars, cacheVars
      <3> QED BY <3>1 DEF ConfigInv, Configuring, Configures, Settled, CacheBounded
    <2> QED BY <2>1, <2>2, <2>3, <2>4 DEF QueryNext
  <1>3. ConfigInv => ConfigurationSettles
    BY DEF ConfigInv, Configuring, Settled, CacheBounded, ConfigurationSettles
  <1> QED BY <1>1, <1>2, <1>3, QueryTypeCorrect, PTL DEF QuerySpec
=============================================================================
