-------------------------- MODULE ProviderRegistry --------------------------
(***************************************************************************)
(* The provider registry of KnowledgeRuntime (runtime.rs) and the facade   *)
(* entry points that fill it (facade.rs).                                  *)
(*                                                                         *)
(* A loader is a thread inside one facade init call.  Such a call installs *)
(* a list of providers one after the other (install_provider_named) and    *)
(* may end by pruning the registry.  Nothing in the code makes two init    *)
(* calls exclude each other, so every access to a shared cell (an atomic   *)
(* or the content of an RwLock) is a step of its own.                      *)
(*                                                                         *)
(* A reader is a thread inside current_generation(), which reads the       *)
(* generation of the default provider without a lock, in the manner of a   *)
(* sequence lock: provider_epoch is odd while the slot is being swapped.   *)
(***************************************************************************)
EXTENDS Naturals, Sequences, FiniteSets

CONSTANTS
    Loaders,         \* threads that run facade init calls
    Readers,         \* threads that call current_generation()
    Names,           \* provider names a configuration may use
    Default,         \* DEFAULT_PROVIDER_NAME
    NoName,          \* "no provider name"
    Plans,           \* the init calls a loader may make
    MaxGeneration    \* no init call starts once this many generations are used

(***************************************************************************)
(* What an init call does: the providers it installs in order, the one it  *)
(* installs with is_default, whether it prunes, and the names pruning      *)
(* keeps.                                                                  *)
(***************************************************************************)
PlanType == [specs : Seq(Names), default : Names \cup {NoName},
             prunes : BOOLEAN, keep : SUBSET Names]

Elements(s) == {s[k] : k \in 1 .. Len(s)}

\* init_thread_cloned_from_knowdb, [provider.sqldb]: the spec called "default"
\* is the default provider, the first one when there is none.
SqldbPlan(specs) ==
    [specs   |-> specs,
     default |-> IF Default \in Elements(specs) THEN Default ELSE specs[1],
     prunes  |-> TRUE, keep |-> Elements(specs)]

\* init_thread_cloned_from_knowdb, [provider.redis]: no SQL provider at all.
RedisPlan ==
    [specs |-> << >>, default |-> NoName, prunes |-> TRUE, keep |-> {}]

\* init_thread_cloned_from_knowdb, local authority file: the steps of a sqldb
\* configuration whose only spec is "default", but for the build, which cannot
\* fail (building the authority file comes before, and its failure leaves no
\* trace in the registry).
LocalPlan ==
    [specs |-> <<Default>>, default |-> Default, prunes |-> TRUE,
     keep  |-> {Default}]

\* init_postgres_provider, init_mysql_provider, init_mem_provider, ... replace
\* the default provider; the _named variants add a provider beside it.
DirectPlan(name, isDefault) ==
    [specs  |-> <<name>>, default |-> IF isDefault THEN name ELSE NoName,
     prunes |-> FALSE, keep |-> {}]

ASSUME NamesAssumption == Default \in Names /\ NoName \notin Names
\* An init call that prunes keeps exactly what it installed, and the default
\* it names is one of its specs.
ASSUME PlansAssumption ==
    /\ Plans \subseteq PlanType
    /\ \A p \in Plans : p.prunes =>
          /\ p.keep = Elements(p.specs)
          /\ p.default # NoName => p.default \in Elements(p.specs)
ASSUME BoundAssumption == MaxGeneration \in Nat

VARIABLES
    nextGeneration,         \* next_generation
    namedProviders,         \* named_providers: name -> handle
    namedProviderEpoch,     \* named_provider_epoch
    provider,               \* provider: the default handle
    providerEpoch,          \* provider_epoch
    currentGenerationValue, \* current_generation_value
    reloadSuccesses,        \* reload_successes
    reloadFailures,         \* reload_failures
    pc,                     \* what each loader does next
    plan,                   \* the init call it is in
    pos,                    \* index of the spec being installed
    gen,                    \* generation taken for that spec
    rpc,                    \* what each reader does next
    repoch,                 \* its epoch_before
    rvalue,                 \* what it read, and in the end returns
    seen                    \* history: default generations during its call

slotVars == <<provider, providerEpoch, currentGenerationValue>>
namedVars == <<namedProviders, namedProviderEpoch>>
countVars == <<reloadSuccesses, reloadFailures>>
sharedVars == <<nextGeneration, slotVars, namedVars, countVars>>
loaderVars == <<pc, plan, pos, gen>>
readerVars == <<rpc, repoch, rvalue, seen>>
registryVars == <<sharedVars, loaderVars>>
vars == <<registryVars, readerVars>>

(***************************************************************************)
(* A ProviderHandle.  Its executor is the connection or database object    *)
(* build made, told apart by the loader that made it.  Generation 0 is     *)
(* never handed out (fetch_add(1) + 1) and stands for Option::None, in the *)
(* atomics of the code as well.                                            *)
(***************************************************************************)
Handle == [generation : Nat, datasource_id : Names \cup {NoName},
           executor : Loaders \cup {NoName}]
NoHandle == [generation |-> 0, datasource_id |-> NoName, executor |-> NoName]

NullPlan == [specs |-> << >>, default |-> NoName, prunes |-> FALSE, keep |-> {}]

\* The name of the spec a loader is at, and the handle it builds for it.
SpecName(i) == plan[i].specs[pos[i]]
BuiltHandle(i) ==
    [generation |-> gen[i], datasource_id |-> SpecName(i), executor |-> i]

Registered(reg) == {n \in Names : reg[n] # NoHandle}

Init ==
    /\ nextGeneration = 0
    /\ namedProviders = [n \in Names |-> NoHandle]
    /\ namedProviderEpoch = 0
    /\ provider = NoHandle
    /\ providerEpoch = 0
    /\ currentGenerationValue = 0
    /\ reloadSuccesses = 0
    /\ reloadFailures = 0
    /\ pc = [i \in Loaders |-> "idle"]
    /\ plan = [i \in Loaders |-> NullPlan]
    /\ pos = [i \in Loaders |-> 1]
    /\ gen = [i \in Loaders |-> 0]
    /\ rpc = [r \in Readers |-> "idle"]
    /\ repoch = [r \in Readers |-> 0]
    /\ rvalue = [r \in Readers |-> 0]
    /\ seen = [r \in Readers |-> {}]

-----------------------------------------------------------------------------
(***************************************************************************)
(* Loaders                                                                 *)
(***************************************************************************)

\* Mutant: the loop over the specs runs once too often.
AfterOneTooMany(p, k) ==
    IF k <= Len(p.specs) + 1 THEN "take" ELSE IF p.prunes THEN "prune" ELSE "idle"

\* What an init call does when spec number k - 1 is installed.
After(p, k) ==
    IF k <= Len(p.specs) THEN "take" ELSE IF p.prunes THEN "prune" ELSE "idle"

GoTo(i, label) == pc' = [pc EXCEPT ![i] = label]

\* A loader enters a facade init call.
BeginLoad(i) ==
    /\ pc[i] = "idle"
    /\ nextGeneration < MaxGeneration
    /\ \E p \in Plans :
         /\ plan' = [plan EXCEPT ![i] = p]
         /\ GoTo(i, After(p, 1))
    /\ pos' = [pos EXCEPT ![i] = 1]
    /\ UNCHANGED <<sharedVars, gen>>

\* Mutant: the old value of the counter is used as the new generation.
TakeOldGeneration(i) ==
    /\ pc[i] = "take"
    /\ nextGeneration' = nextGeneration + 1
    /\ gen' = [gen EXCEPT ![i] = nextGeneration]
    /\ GoTo(i, "build")
    /\ UNCHANGED <<slotVars, namedVars, countVars, plan, pos>>

\* Mutant: the counter is advanced by the install, not by taking a number.
TakeWithoutAdvancing(i) ==
    /\ pc[i] = "take"
    /\ nextGeneration' = reloadSuccesses + reloadFailures + 1
    /\ gen' = [gen EXCEPT ![i] = nextGeneration']
    /\ GoTo(i, "build")
    /\ UNCHANGED <<slotVars, namedVars, countVars, plan, pos>>

\* next_generation.fetch_add(1) + 1
TakeGeneration(i) ==
    /\ pc[i] = "take"
    /\ nextGeneration' = nextGeneration + 1
    /\ gen' = [gen EXCEPT ![i] = nextGeneration + 1]
    /\ GoTo(i, "build")
    /\ UNCHANGED <<slotVars, namedVars, countVars, plan, pos>>

\* Mutant: the error path returns before it counts the failure.
BuildFailsUncounted(i) ==
    /\ pc[i] = "build"
    /\ GoTo(i, "idle")
    /\ UNCHANGED <<sharedVars, plan, pos, gen>>

\* build(generation) fails: the error leaves the init call through `?`.
BuildFails(i) ==
    /\ pc[i] = "build"
    /\ reloadFailures' = reloadFailures + 1
    /\ GoTo(i, "idle")
    /\ UNCHANGED <<nextGeneration, slotVars, namedVars, reloadSuccesses,
                   plan, pos, gen>>

\* build(generation) succeeds and the handle enters the named registry.
InsertNamed(i) ==
    /\ pc[i] = "build"
    /\ namedProviders' = [namedProviders EXCEPT ![SpecName(i)] = BuiltHandle(i)]
    /\ GoTo(i, "bump")
    /\ UNCHANGED <<nextGeneration, slotVars, namedProviderEpoch, countVars,
                   plan, pos, gen>>

\* The end of install_provider_named: the success counter, then the next spec.
FinishInstall(i) ==
    /\ reloadSuccesses' = reloadSuccesses + 1
    /\ pos' = [pos EXCEPT ![i] = pos[i] + 1]
    /\ GoTo(i, After(plan[i], pos[i] + 1))

\* named_provider_epoch.fetch_add(1), only now that the insertion is visible.
BumpNamedEpoch(i) ==
    /\ pc[i] = "bump"
    /\ namedProviderEpoch' = namedProviderEpoch + 1
    /\ \/ /\ SpecName(i) = plan[i].default
          /\ GoTo(i, "begin")
          /\ UNCHANGED <<reloadSuccesses, pos>>
       \/ /\ SpecName(i) # plan[i].default
          /\ FinishInstall(i)
    /\ UNCHANGED <<nextGeneration, slotVars, namedProviders, reloadFailures,
                   plan, gen>>

\* provider_epoch becomes odd.
BeginSwap(i) ==
    /\ pc[i] = "begin"
    /\ providerEpoch' = providerEpoch + 1
    /\ GoTo(i, "swap")
    /\ UNCHANGED <<nextGeneration, provider, currentGenerationValue, namedVars,
                   countVars, plan, pos, gen>>

\* *provider.write() = Some(handle)
SwapProvider(i) ==
    /\ pc[i] = "swap"
    /\ provider' = BuiltHandle(i)
    /\ GoTo(i, "publish")
    /\ UNCHANGED <<nextGeneration, providerEpoch, currentGenerationValue,
                   namedVars, countVars, plan, pos, gen>>

\* current_generation_value.store(generation)
PublishGeneration(i) ==
    /\ pc[i] = "publish"
    /\ currentGenerationValue' = gen[i]
    /\ GoTo(i, "end")
    /\ UNCHANGED <<nextGeneration, provider, providerEpoch, namedVars,
                   countVars, plan, pos, gen>>

\* provider_epoch becomes even again.
EndSwap(i) ==
    /\ pc[i] = "end"
    /\ providerEpoch' = providerEpoch + 1
    /\ FinishInstall(i)
    /\ UNCHANGED <<nextGeneration, provider, currentGenerationValue, namedVars,
                   reloadFailures, plan, gen>>

\* Mutant: the names of the configuration are dropped, not the others.
PruneKept(i) ==
    /\ pc[i] = "prune"
    /\ namedProviders' = [n \in Names |-> IF n \in plan[i].keep
                                           THEN NoHandle ELSE namedProviders[n]]
    /\ namedProviderEpoch' = namedProviderEpoch + 1
    /\ GoTo(i, "idle")
    /\ UNCHANGED <<nextGeneration, slotVars, countVars, plan, pos, gen>>

\* prune_named_providers_except(keep): the epoch moves under the write lock,
\* and only when a name really went away.  The default slot is not touched.
Prune(i) ==
    /\ pc[i] = "prune"
    /\ namedProviders' = [n \in Names |-> IF n \in plan[i].keep
                                           THEN namedProviders[n] ELSE NoHandle]
    /\ namedProviderEpoch' =
           IF Registered(namedProviders) \subseteq plan[i].keep
             THEN namedProviderEpoch ELSE namedProviderEpoch + 1
    /\ GoTo(i, "idle")
    /\ UNCHANGED <<nextGeneration, slotVars, countVars, plan, pos, gen>>

LoaderStep(i) ==
    \/ BeginLoad(i) \/ TakeGeneration(i) \/ BuildFails(i) \/ InsertNamed(i)
    \/ BumpNamedEpoch(i) \/ BeginSwap(i) \/ SwapProvider(i)
    \/ PublishGeneration(i) \/ EndSwap(i) \/ Prune(i)

-----------------------------------------------------------------------------
(***************************************************************************)
(* Readers of current_generation()                                         *)
(***************************************************************************)

Calling(r) == rpc[r] \in {"epoch", "value", "check", "slow"}

\* A call of current_generation() begins.
CallGeneration(r) ==
    /\ rpc[r] \in {"idle", "got"}
    /\ rpc' = [rpc EXCEPT ![r] = "epoch"]
    /\ seen' = [seen EXCEPT ![r] = {provider.generation}]
    /\ UNCHANGED <<repoch, rvalue>>

\* Mutant: an odd epoch is not taken for a swap under way.
ReadEpochIgnoringSwap(r) ==
    /\ rpc[r] = "epoch"
    /\ repoch' = [repoch EXCEPT ![r] = providerEpoch]
    /\ rpc' = [rpc EXCEPT ![r] = "value"]
    /\ UNCHANGED <<rvalue, seen>>

\* epoch_before: an odd one means that a swap is under way.
ReadEpochBefore(r) ==
    /\ rpc[r] = "epoch"
    /\ repoch' = [repoch EXCEPT ![r] = providerEpoch]
    /\ rpc' = [rpc EXCEPT ![r] = IF providerEpoch % 2 = 1 THEN "slow" ELSE "value"]
    /\ UNCHANGED <<rvalue, seen>>

ReadValue(r) ==
    /\ rpc[r] = "value"
    /\ rvalue' = [rvalue EXCEPT ![r] = currentGenerationValue]
    /\ rpc' = [rpc EXCEPT ![r] = "check"]
    /\ UNCHANGED <<repoch, seen>>

\* epoch_after: the value is returned only if the epoch did not move.
CheckEpochAfter(r) ==
    /\ rpc[r] = "check"
    /\ rpc' = [rpc EXCEPT ![r] = IF providerEpoch = repoch[r] THEN "got" ELSE "slow"]
    /\ UNCHANGED <<repoch, rvalue, seen>>

\* current_generation_from_provider: ask the slot itself, under its lock.
ReadProviderSlot(r) ==
    /\ rpc[r] = "slow"
    /\ rvalue' = [rvalue EXCEPT ![r] = provider.generation]
    /\ rpc' = [rpc EXCEPT ![r] = "got"]
    /\ UNCHANGED <<repoch, seen>>

ReaderStep(r) ==
    \/ CallGeneration(r) \/ ReadEpochBefore(r) \/ ReadValue(r)
    \/ CheckEpochAfter(r) \/ ReadProviderSlot(r)

\* History: a call in progress sees every generation the slot takes.
RecordSlot ==
    /\ seen' = [r \in Readers |-> IF Calling(r)
                                    THEN seen[r] \cup {provider'.generation}
                                    ELSE seen[r]]
    /\ UNCHANGED <<rpc, repoch, rvalue>>

Next ==
    \/ \E i \in Loaders : LoaderStep(i) /\ RecordSlot
    \/ \E r \in Readers : ReaderStep(r) /\ UNCHANGED registryVars

Spec == Init /\ [][Next]_vars

-----------------------------------------------------------------------------
(***************************************************************************)
(* Properties                                                              *)
(***************************************************************************)

LoaderPc == {"idle", "take", "build", "bump", "begin", "swap", "publish", "end",
             "prune"}

\* A loader between the fetch_add that took its generation and the end of
\* that install.
Installing(i) == pc[i] \in {"build", "bump", "begin", "swap", "publish", "end"}

\* A loader between the two increments of provider_epoch.
Swapping(i) == pc[i] \in {"swap", "publish", "end"}

\* Types of the shared cells and of the loaders.
LoadersTypeOK ==
    /\ nextGeneration \in Nat
    /\ namedProviders \in [Names -> Handle]
    /\ namedProviderEpoch \in Nat
    /\ provider \in Handle
    /\ providerEpoch \in Nat
    /\ currentGenerationValue \in Nat
    /\ reloadSuccesses \in Nat
    /\ reloadFailures \in Nat
    /\ pc \in [Loaders -> LoaderPc]
    /\ plan \in [Loaders -> PlanType]
    /\ pos \in [Loaders -> Nat]
    /\ gen \in [Loaders -> Nat]
    /\ \A i \in Loaders : pc[i] = "take" \/ Installing(i)
                             => pos[i] \in 1 .. Len(plan[i].specs)

\* Types of the readers.
ReadersTypeOK ==
    /\ rpc \in [Readers -> {"idle", "epoch", "value", "check", "slow", "got"}]
    /\ repoch \in [Readers -> Nat]
    /\ rvalue \in [Readers -> Nat]
    /\ seen \in [Readers -> SUBSET Nat]

\* Types of the registry's cells, the loaders and the readers.
TypeOK == LoadersTypeOK /\ ReadersTypeOK

\* Handles some part of the runtime can still hand out: the registered ones,
\* the default one, and the ones loaders are about to install.
LiveHandles ==
    ({namedProviders[n] : n \in Names} \cup {provider}
       \cup {BuiltHandle(i) : i \in {j \in Loaders : Installing(j)}}) \ {NoHandle}

\* The shared counter of install_provider_named makes a generation identify a
\* handle however many loads overlap (the result cache key relies on it), and
\* no handle carries a generation that was not handed out.
GenerationIdentifiesHandle ==
    /\ \A h1, h2 \in LiveHandles : h1.generation = h2.generation => h1 = h2
    /\ \A h \in LiveHandles : h.generation \in 1 .. nextGeneration

\* Every load that took a generation is counted exactly once as a success or a
\* failure, when it ends: the counters of snapshot() add up.
ReloadsAccounted ==
    reloadSuccesses + reloadFailures
      + Cardinality({i \in Loaders : Installing(i)}) = nextGeneration

\* current_generation() is linearizable with loads that do not overlap each
\* other: what it returns is the generation of the default provider at some
\* moment of the call, even when the call straddles a swap.
CurrentGenerationLinearizable ==
    \A r \in Readers : rpc[r] = "got" => rvalue[r] \in seen[r]

\* Whenever no loader is inside the swap, the published generation is the one
\* of the default provider and the epoch is even, so that the lock-free path
\* is open again.
SlotAgrees ==
    (\A i \in Loaders : ~ Swapping(i)) =>
        /\ currentGenerationValue = provider.generation
        /\ providerEpoch % 2 = 0

\* Loads that do not overlap: the default provider is only ever replaced by a
\* younger one, and is never lost, whichever builds fail in between.
DefaultOnlyGetsYounger ==
    [][provider'.generation > provider.generation]_provider

\* Loads that do not overlap: an init call that runs to its prune leaves
\* exactly the names of its configuration registered, each with a handle of
\* its own datasource, whatever earlier calls left behind or failed at.
LoadEstablishesConfiguration ==
    [][\A i \in Loaders : pc[i] = "prune" /\ pc'[i] = "idle" =>
          /\ Registered(namedProviders') = plan[i].keep
          /\ plan[i].default # NoName =>
                namedProviders'[plan[i].default] = provider'
          /\ \A n \in plan[i].keep : namedProviders'[n].datasource_id = n]_vars

\* docs/en/architecture/provider-cache.md:64: the generation "identifies the
\* current runtime version", read where no load is in progress.
GenerationIsCurrent ==
    (\A i \in Loaders : pc[i] = "idle") =>
        currentGenerationValue = provider.generation
=============================================================================
