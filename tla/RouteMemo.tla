------------------------------ MODULE RouteMemo -----------------------------
(***************************************************************************)
(* route_provider_sql (sql_route.rs) beside the registry it reads.         *)
(*                                                                         *)
(* A query text is routed to a named provider when the first segment of    *)
(* its first table reference is a registered name.  The answer is kept in  *)
(* a process-wide memo labelled with the registry's epoch.  A router reads *)
(* the epoch, probes the memo under its read lock, asks the registry on a  *)
(* miss, and writes the answer back under the write lock: four steps with  *)
(* loads going on in between.  The registry moves first and its epoch      *)
(* after (InsertNamed, BumpNamedEpoch).                                    *)
(***************************************************************************)
EXTENDS ProviderRegistry

CONSTANTS
    Routers,        \* threads that call route_provider_sql
    Sqls,           \* query texts
    FirstSegment,   \* text -> the name its first table starts with, or NoName
    MemoCap         \* ROUTE_MEMO_CAP

ASSUME RoutesAssumption == Sqls # {} /\ FirstSegment \in [Sqls -> Names \cup {NoName}]
ASSUME MemoCapAssumption == MemoCap \in Nat \ {0}

VARIABLES
    memoEpoch,      \* RouteMemo.epoch
    memo,           \* RouteMemo.map: a function on the texts it knows
    tpc,            \* what each router does next
    tsql,           \* the text it routes
    tepoch,         \* the epoch it read first
    troute,         \* the route it found: a name, or NoName for the default
    tseen,          \* history: the right answers during its call
    tclean          \* history: no install was half-published when it began

memoVars == <<memoEpoch, memo>>
routerVars == <<tpc, tsql, tepoch, troute, tseen, tclean>>
routeVars == <<vars, memoVars, routerVars>>

\* compute_route: what the registry says of a text.
RouteIn(reg, s) ==
    IF FirstSegment[s] \in Registered(reg) THEN FirstSegment[s] ELSE NoName

\* A loader whose insertion is visible but whose epoch increment is not.
HalfPublished(i) == pc[i] = "bump"

RouteInit ==
    /\ Init
    /\ memoEpoch = 0
    /\ memo = [s \in {} |-> NoName]
    /\ tpc = [t \in Routers |-> "idle"]
    /\ tsql = [t \in Routers |-> CHOOSE s \in Sqls : TRUE]
    /\ tepoch = [t \in Routers |-> 0]
    /\ troute = [t \in Routers |-> NoName]
    /\ tseen = [t \in Routers |-> {}]
    /\ tclean = [t \in Routers |-> FALSE]

\* A call begins by reading the registry's epoch.
ReadEpoch(t) ==
    /\ tpc[t] \in {"idle", "done"}
    /\ \E s \in Sqls :
         /\ tsql' = [tsql EXCEPT ![t] = s]
         /\ tseen' = [tseen EXCEPT ![t] = {RouteIn(namedProviders, s)}]
    /\ tclean' = [tclean EXCEPT ![t] = \A i \in Loaders : ~ HalfPublished(i)]
    /\ tepoch' = [tepoch EXCEPT ![t] = namedProviderEpoch]
    /\ troute' = [troute EXCEPT ![t] = NoName]
    /\ tpc' = [tpc EXCEPT ![t] = "probe"]
    /\ UNCHANGED memoVars

\* Mutant: the memo is trusted whatever epoch it is labelled with.
ProbeAnyEpoch(t) ==
    /\ tpc[t] = "probe"
    /\ IF tsql[t] \in DOMAIN memo
         THEN /\ troute' = [troute EXCEPT ![t] = memo[tsql[t]]]
              /\ tpc' = [tpc EXCEPT ![t] = "done"]
         ELSE /\ tpc' = [tpc EXCEPT ![t] = "compute"]
              /\ UNCHANGED troute
    /\ UNCHANGED <<memoVars, tsql, tepoch, tseen, tclean>>

\* The memo answers if it is labelled with the epoch the call read.
ProbeMemo(t) ==
    /\ tpc[t] = "probe"
    /\ \/ /\ memoEpoch = tepoch[t]
          /\ tsql[t] \in DOMAIN memo
          /\ troute' = [troute EXCEPT ![t] = memo[tsql[t]]]
          /\ tpc' = [tpc EXCEPT ![t] = "done"]
       \/ /\ memoEpoch # tepoch[t] \/ tsql[t] \notin DOMAIN memo
          /\ tpc' = [tpc EXCEPT ![t] = "compute"]
          /\ UNCHANGED troute
    /\ UNCHANGED <<memoVars, tsql, tepoch, tseen, tclean>>

\* compute_route asks the registry (provider_exists).
ComputeRoute(t) ==
    /\ tpc[t] = "compute"
    /\ troute' = [troute EXCEPT ![t] = RouteIn(namedProviders, tsql[t])]
    /\ tpc' = [tpc EXCEPT ![t] = "record"]
    /\ UNCHANGED <<memoVars, tsql, tepoch, tseen, tclean>>

\* The memo with one more answer.
Memoized(m, s, route) ==
    [k \in DOMAIN m \cup {s} |-> IF k = s THEN route ELSE m[k]]

EmptyMemo == [s \in {} |-> NoName]

\* Mutant: the capacity test lets one entry too many in.
RecordPastCap(t) ==
    /\ tpc[t] = "record"
    /\ LET known == IF memoEpoch = tepoch[t] THEN memo ELSE EmptyMemo
           room  == IF Cardinality(DOMAIN known) > MemoCap THEN EmptyMemo ELSE known
       IN  memo' = Memoized(room, tsql[t], troute[t])
    /\ memoEpoch' = tepoch[t]
    /\ tpc' = [tpc EXCEPT ![t] = "done"]
    /\ UNCHANGED <<tsql, tepoch, troute, tseen, tclean>>

\* Mutant: the epoch is read again when the answer is written.
RecordUnderCurrent(t) ==
    /\ tpc[t] = "record"
    /\ LET known == IF memoEpoch = namedProviderEpoch THEN memo ELSE EmptyMemo
           room  == IF Cardinality(DOMAIN known) >= MemoCap THEN EmptyMemo ELSE known
       IN  memo' = Memoized(room, tsql[t], troute[t])
    /\ memoEpoch' = namedProviderEpoch
    /\ tpc' = [tpc EXCEPT ![t] = "done"]
    /\ UNCHANGED <<tsql, tepoch, troute, tseen, tclean>>

\* The answer enters the memo under the label the call read; a memo with
\* another label, newer or older, or at its capacity, is emptied first.
RecordRoute(t) ==
    /\ tpc[t] = "record"
    /\ LET known == IF memoEpoch = tepoch[t] THEN memo ELSE EmptyMemo
           room  == IF Cardinality(DOMAIN known) >= MemoCap THEN EmptyMemo ELSE known
       IN  memo' = Memoized(room, tsql[t], troute[t])
    /\ memoEpoch' = tepoch[t]
    /\ tpc' = [tpc EXCEPT ![t] = "done"]
    /\ UNCHANGED <<tsql, tepoch, troute, tseen, tclean>>

RouterStep(t) ==
    ReadEpoch(t) \/ ProbeMemo(t) \/ ComputeRoute(t) \/ RecordRoute(t)

\* History: a call in progress sees every answer the registry would give.
RecordAnswers ==
    /\ tseen' = [t \in Routers |->
                   IF tpc[t] \in {"probe", "compute", "record"}
                     THEN tseen[t] \cup {RouteIn(namedProviders', tsql[t])}
                     ELSE tseen[t]]
    /\ UNCHANGED <<memoVars, tpc, tsql, tepoch, troute, tclean>>

RouteNext ==
    \/ \E i \in Loaders : LoaderStep(i) /\ RecordAnswers /\ UNCHANGED readerVars
    \/ \E t \in Routers : RouterStep(t) /\ UNCHANGED vars

RouteSpec == RouteInit /\ [][RouteNext]_routeVars

-----------------------------------------------------------------------------
(***************************************************************************)
(* Properties                                                              *)
(***************************************************************************)

Routes == Names \cup {NoName}

\* Types of the memo and the routers.
RouteTypeOK ==
    /\ memoEpoch \in Nat
    /\ DOMAIN memo \subseteq Sqls
    /\ memo \in [DOMAIN memo -> Routes]
    /\ tpc \in [Routers -> {"idle", "probe", "compute", "record", "done"}]
    /\ tsql \in [Routers -> Sqls]
    /\ tepoch \in [Routers -> Nat]
    /\ troute \in [Routers -> Routes]
    /\ tseen \in [Routers -> SUBSET Routes]
    /\ tclean \in [Routers -> BOOLEAN]

\* A memo that carries the registry's epoch says what the registry says,
\* unless an install is between its insertion and its epoch increment: no
\* slow router can leave a stale answer under a current label.
MemoFresh ==
    (memoEpoch = namedProviderEpoch /\ \A i \in Loaders : ~ HalfPublished(i))
      => \A s \in DOMAIN memo : memo[s] = RouteIn(namedProviders, s)

\* route_provider_sql is linearizable with installs and prunes: a call that
\* began when no install was half-published returns an answer the registry
\* would have given at some moment of the call, whether it came from the memo
\* or from the registry.
RouteLinearizable ==
    \A t \in Routers : tpc[t] = "done" /\ tclean[t] => troute[t] \in tseen[t]

\* The memo never outgrows ROUTE_MEMO_CAP.
MemoWithinCap == Cardinality(DOMAIN memo) <= MemoCap
=============================================================================
