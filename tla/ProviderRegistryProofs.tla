----------------------- MODULE ProviderRegistryProofs -----------------------
(***************************************************************************)
(* Proofs about ProviderRegistry, for any sets of loaders, readers, names  *)
(* and init calls.                                                         *)
(***************************************************************************)
EXTENDS ProviderRegistry, FiniteSetTheorems, TLAPS

(***************************************************************************)
(* Type correctness                                                        *)
(***************************************************************************)

\* The positions a loader can be sent to after a spec keep it inside its plan.
LEMMA AfterType ==
    ASSUME NEW p \in PlanType, NEW k \in Nat \ {0}
    PROVE  /\ After(p, k) \in {"take", "prune", "idle"}
           /\ After(p, k) = "take" => k \in 1 .. Len(p.specs)
  BY DEF After, PlanType

\* The handle a loader is installing has the type of a handle.
LEMMA BuiltHandleType ==
    ASSUME LoadersTypeOK, NEW i \in Loaders, Installing(i)
    PROVE  /\ SpecName(i) \in Names
           /\ BuiltHandle(i) \in Handle
  <1>1. plan[i] \in PlanType /\ pos[i] \in 1 .. Len(plan[i].specs)
    BY DEF LoadersTypeOK
  <1>2. SpecName(i) \in Names
    BY <1>1 DEF SpecName, PlanType
  <1>3. BuiltHandle(i) \in Handle
    BY <1>2 DEF BuiltHandle, Handle, LoadersTypeOK
  <1> QED BY <1>2, <1>3

LEMMA NoHandleType == NoHandle \in Handle
  BY DEF NoHandle, Handle

\* Every step of a loader keeps the types of the cells and the loaders.
LEMMA LoaderStepType ==
    ASSUME LoadersTypeOK, NEW i \in Loaders, LoaderStep(i)
    PROVE  LoadersTypeOK'
  <1> USE DEF GoTo, sharedVars, slotVars, namedVars, countVars
  <1>1. CASE BeginLoad(i)
    <2>1. PICK p \in Plans : /\ plan' = [plan EXCEPT ![i] = p]
                             /\ pc' = [pc EXCEPT ![i] = After(p, 1)]
      BY <1>1 DEF BeginLoad
    <2>2. /\ p \in PlanType
          /\ After(p, 1) \in {"take", "prune", "idle"}
          /\ After(p, 1) = "take" => 1 \in 1 .. Len(p.specs)
      BY AfterType, PlansAssumption
    <2> QED
      BY <1>1, <2>1, <2>2 DEF BeginLoad, LoadersTypeOK, LoaderPc, Installing
  <1>2. CASE TakeGeneration(i)
    BY <1>2 DEF TakeGeneration, LoadersTypeOK, LoaderPc, Installing
  <1>3. CASE BuildFails(i)
    BY <1>3 DEF BuildFails, LoadersTypeOK, LoaderPc, Installing
  <1>4. CASE InsertNamed(i)
    <2>1. SpecName(i) \in Names /\ BuiltHandle(i) \in Handle
      BY <1>4, BuiltHandleType DEF InsertNamed, Installing
    <2> QED
      BY <1>4, <2>1 DEF InsertNamed, LoadersTypeOK, LoaderPc, Installing
  <1>5. ASSUME FinishInstall(i), UNCHANGED plan, pc[i] \in {"bump", "end"}
        PROVE  /\ reloadSuccesses' \in Nat
               /\ pc' \in [Loaders -> LoaderPc]
               /\ pos' \in [Loaders -> Nat]
               /\ \A j \in Loaders : pc'[j] = "take" \/ Installing(j)'
                     => pos'[j] \in 1 .. Len(plan'[j].specs)
    <2>1. plan[i] \in PlanType /\ pos[i] \in Nat /\ pos[i] + 1 \in Nat \ {0}
      BY DEF LoadersTypeOK
    <2>2. /\ After(plan[i], pos[i] + 1) \in {"take", "prune", "idle"}
          /\ After(plan[i], pos[i] + 1) = "take"
                => pos[i] + 1 \in 1 .. Len(plan[i].specs)
      BY <2>1, AfterType
    <2> QED
      BY <1>5, <2>1, <2>2 DEF FinishInstall, LoadersTypeOK, LoaderPc, Installing
  <1>6. CASE BumpNamedEpoch(i)
    <2>1. CASE SpecName(i) # plan[i].default
      BY <1>5, <1>6, <2>1 DEF BumpNamedEpoch, LoadersTypeOK
    <2>2. CASE SpecName(i) = plan[i].default
      <3>1. /\ pc[i] = "bump"
            /\ pc' = [pc EXCEPT ![i] = "begin"]
            /\ namedProviderEpoch' = namedProviderEpoch + 1
            /\ UNCHANGED <<nextGeneration, slotVars, namedProviders, countVars,
                            plan, pos, gen>>
        BY <1>6, <2>2 DEF BumpNamedEpoch
      <3> QED
        BY <3>1 DEF LoadersTypeOK, LoaderPc, Installing
    <2> QED BY <2>1, <2>2
  <1>7. CASE BeginSwap(i)
    BY <1>7 DEF BeginSwap, LoadersTypeOK, LoaderPc, Installing
  <1>8. CASE SwapProvider(i)
    <2>1. BuiltHandle(i) \in Handle
      BY <1>8, BuiltHandleType DEF SwapProvider, Installing
    <2> QED
      BY <1>8, <2>1 DEF SwapProvider, LoadersTypeOK, LoaderPc, Installing
  <1>9. CASE PublishGeneration(i)
    BY <1>9 DEF PublishGeneration, LoadersTypeOK, LoaderPc, Installing
  <1>10. CASE EndSwap(i)
    BY <1>5, <1>10 DEF EndSwap, LoadersTypeOK
  <1>11. CASE Prune(i)
    BY <1>11, NoHandleType DEF Prune, LoadersTypeOK, LoaderPc, Installing
  <1> QED
    BY <1>1, <1>2, <1>3, <1>4, <1>6, <1>7, <1>8, <1>9, <1>10, <1>11
    DEF LoaderStep

\* Every step of a reader keeps the types of the readers.
LEMMA ReaderStepType ==
    ASSUME TypeOK, NEW r \in Readers, ReaderStep(r)
    PROVE  ReadersTypeOK'
  <1>1. provider.generation \in Nat /\ providerEpoch \in Nat
          /\ currentGenerationValue \in Nat
    BY DEF TypeOK, LoadersTypeOK, Handle
  <1> USE <1>1 DEF TypeOK, LoadersTypeOK, ReadersTypeOK
  <1>2. CASE CallGeneration(r)
    BY <1>2 DEF CallGeneration
  <1>3. CASE ReadEpochBefore(r)
    BY <1>3 DEF ReadEpochBefore
  <1>4. CASE ReadValue(r)
    BY <1>4 DEF ReadValue
  <1>5. CASE CheckEpochAfter(r)
    BY <1>5 DEF CheckEpochAfter
  <1>6. CASE ReadProviderSlot(r)
    BY <1>6 DEF ReadProviderSlot
  <1> QED
    BY <1>2, <1>3, <1>4, <1>5, <1>6 DEF ReaderStep

LEMMA NextType == TypeOK /\ [Next]_vars => TypeOK'
  <1> SUFFICES ASSUME TypeOK, [Next]_vars PROVE TypeOK'
    OBVIOUS
  <1>1. LoadersTypeOK /\ ReadersTypeOK
    BY DEF TypeOK
  <1>2. ASSUME NEW i \in Loaders, LoaderStep(i), RecordSlot PROVE TypeOK'
    <2>1. LoadersTypeOK'
      BY <1>1, <1>2, LoaderStepType
    <2>2. provider'.generation \in Nat
      BY <2>1 DEF LoadersTypeOK, Handle
    <2>3. ReadersTypeOK'
      BY <1>1, <1>2, <2>2 DEF RecordSlot, ReadersTypeOK
    <2> QED BY <2>1, <2>3 DEF TypeOK
  <1>3. ASSUME NEW r \in Readers, ReaderStep(r), UNCHANGED registryVars
        PROVE  TypeOK'
    <2>1. ReadersTypeOK'
      BY <1>3, ReaderStepType
    <2>2. LoadersTypeOK'
      BY <1>1, <1>3 DEF LoadersTypeOK, Installing, registryVars, sharedVars,
         slotVars, namedVars, countVars, loaderVars
    <2> QED BY <2>1, <2>2 DEF TypeOK
  <1>4. CASE UNCHANGED vars
    BY <1>4 DEF TypeOK, LoadersTypeOK, ReadersTypeOK, Installing, vars, registryVars, sharedVars, slotVars,
       namedVars, countVars, loaderVars, readerVars
  <1> QED BY <1>2, <1>3, <1>4 DEF Next

LEMMA InitType == Init => TypeOK
  <1>1. NullPlan \in PlanType
    BY DEF NullPlan, PlanType
  <1> QED
    BY <1>1, NoHandleType DEF Init, TypeOK, LoadersTypeOK, ReadersTypeOK, LoaderPc, Installing

\* The registry, its loaders and its readers keep their types in every
\* behaviour of the runtime.
THEOREM TypeCorrect == Spec => []TypeOK
  BY InitType, NextType, PTL DEF Spec

-----------------------------------------------------------------------------
(***************************************************************************)
(* A generation identifies a handle, for any number of overlapping loads.  *)
(* The invariant is inductive as it stands: taking a generation is the     *)
(* only step that adds a live handle, and its generation is above all      *)
(* others; every other step moves handles that were live already.          *)
(***************************************************************************)

\* A step that takes no generation makes no new handle live.
LEMMA LiveShrinks ==
    ASSUME TypeOK, GenerationIdentifiesHandle, NEW i \in Loaders, LoaderStep(i),
           ~ TakeGeneration(i)
    PROVE  LiveHandles' \subseteq LiveHandles /\ nextGeneration' = nextGeneration
  <1> USE DEF GoTo, sharedVars, slotVars, namedVars, countVars
  <1>0. LoadersTypeOK
    BY DEF TypeOK
  <1>1. ASSUME Installing(i) PROVE BuiltHandle(i) \in LiveHandles \/ BuiltHandle(i) = NoHandle
    BY <1>1 DEF LiveHandles
  <1>2. CASE BeginLoad(i)
    <2>1. PICK p \in Plans : /\ plan' = [plan EXCEPT ![i] = p]
                             /\ pc' = [pc EXCEPT ![i] = After(p, 1)]
      BY <1>2 DEF BeginLoad
    <2>2. After(p, 1) \in {"take", "prune", "idle"}
      BY AfterType, PlansAssumption
    <2>3. \A j \in Loaders : Installing(j)' => Installing(j) /\ BuiltHandle(j)' = BuiltHandle(j)
      BY <1>0, <1>2, <2>1, <2>2 DEF BeginLoad, Installing, BuiltHandle, SpecName, LoadersTypeOK
    <2> QED
      BY <1>2, <2>3 DEF BeginLoad, LiveHandles
  <1>3. CASE BuildFails(i)
    <2>1. \A j \in Loaders : Installing(j)' => Installing(j) /\ BuiltHandle(j)' = BuiltHandle(j)
      BY <1>0, <1>3 DEF BuildFails, Installing, BuiltHandle, SpecName, LoadersTypeOK
    <2> QED
      BY <1>3, <2>1 DEF BuildFails, LiveHandles
  <1>4. CASE InsertNamed(i)
    <2>1. \A j \in Loaders : Installing(j)' => Installing(j) /\ BuiltHandle(j)' = BuiltHandle(j)
      BY <1>0, <1>4 DEF InsertNamed, Installing, BuiltHandle, SpecName, LoadersTypeOK
    <2>2. BuiltHandle(i) \in LiveHandles \/ BuiltHandle(i) = NoHandle
      BY <1>1, <1>4 DEF InsertNamed, Installing
    <2>3. \A n \in Names : namedProviders'[n] \in {namedProviders[n], BuiltHandle(i)}
      BY <1>0, <1>4 DEF InsertNamed, LoadersTypeOK
    <2> QED
      BY <1>4, <2>1, <2>2, <2>3 DEF InsertNamed, LiveHandles
  <1>5. ASSUME FinishInstall(i), UNCHANGED <<plan, gen>>
        PROVE  \A j \in Loaders : Installing(j)' => Installing(j) /\ BuiltHandle(j)' = BuiltHandle(j)
    <2>1. After(plan[i], pos[i] + 1) \in {"take", "prune", "idle"}
      BY <1>0, AfterType DEF LoadersTypeOK
    <2> QED
      BY <1>0, <1>5, <2>1 DEF FinishInstall, Installing, BuiltHandle, SpecName, LoadersTypeOK
  <1>6. CASE BumpNamedEpoch(i)
    <2>1. CASE SpecName(i) # plan[i].default
      BY <1>5, <1>6, <2>1 DEF BumpNamedEpoch, LiveHandles
    <2>2. CASE SpecName(i) = plan[i].default
      <3>1. /\ pc[i] = "bump"
            /\ pc' = [pc EXCEPT ![i] = "begin"]
            /\ UNCHANGED <<nextGeneration, provider, namedProviders, plan, pos, gen>>
        BY <1>6, <2>2 DEF BumpNamedEpoch
      <3>2. \A j \in Loaders : Installing(j)' => Installing(j) /\ BuiltHandle(j)' = BuiltHandle(j)
        BY <1>0, <3>1 DEF Installing, BuiltHandle, SpecName, LoadersTypeOK
      <3> QED
        BY <3>1, <3>2 DEF LiveHandles
    <2> QED BY <2>1, <2>2
  <1>7. CASE BeginSwap(i)
    <2>1. \A j \in Loaders : Installing(j)' => Installing(j) /\ BuiltHandle(j)' = BuiltHandle(j)
      BY <1>0, <1>7 DEF BeginSwap, Installing, BuiltHandle, SpecName, LoadersTypeOK
    <2> QED
      BY <1>7, <2>1 DEF BeginSwap, LiveHandles
  <1>8. CASE SwapProvider(i)
    <2>1. \A j \in Loaders : Installing(j)' => Installing(j) /\ BuiltHandle(j)' = BuiltHandle(j)
      BY <1>0, <1>8 DEF SwapProvider, Installing, BuiltHandle, SpecName, LoadersTypeOK
    <2>2. BuiltHandle(i) \in LiveHandles \/ BuiltHandle(i) = NoHandle
      BY <1>1, <1>8 DEF SwapProvider, Installing
    <2> QED
      BY <1>8, <2>1, <2>2 DEF SwapProvider, LiveHandles
  <1>9. CASE PublishGeneration(i)
    <2>1. \A j \in Loaders : Installing(j)' => Installing(j) /\ BuiltHandle(j)' = BuiltHandle(j)
      BY <1>0, <1>9 DEF PublishGeneration, Installing, BuiltHandle, SpecName, LoadersTypeOK
    <2> QED
      BY <1>9, <2>1 DEF PublishGeneration, LiveHandles
  <1>10. CASE EndSwap(i)
    BY <1>5, <1>10 DEF EndSwap, LiveHandles
  <1>11. CASE Prune(i)
    <2>1. \A j \in Loaders : Installing(j)' => Installing(j) /\ BuiltHandle(j)' = BuiltHandle(j)
      BY <1>0, <1>11 DEF Prune, Installing, BuiltHandle, SpecName, LoadersTypeOK
    <2>2. \A n \in Names : namedProviders'[n] \in {namedProviders[n], NoHandle}
      BY <1>11 DEF Prune
    <2> QED
      BY <1>11, <2>1, <2>2 DEF Prune, LiveHandles
  <1> QED
    BY <1>2, <1>3, <1>4, <1>6, <1>7, <1>8, <1>9, <1>10, <1>11 DEF LoaderStep

\* Taking a generation adds one handle, of the generation just handed out.
LEMMA LiveGrows ==
    ASSUME TypeOK, NEW i \in Loaders, TakeGeneration(i)
    PROVE  /\ nextGeneration' = nextGeneration + 1
           /\ \A h \in LiveHandles' : h \in LiveHandles \/ h = BuiltHandle(i)'
           /\ BuiltHandle(i)'.generation = nextGeneration + 1
  <1>1. \A j \in Loaders : Installing(j)' =>
           j = i \/ (Installing(j) /\ BuiltHandle(j)' = BuiltHandle(j))
    BY DEF TakeGeneration, GoTo, Installing, BuiltHandle, SpecName, TypeOK, LoadersTypeOK
  <1>2. UNCHANGED <<namedProviders, provider>>
    BY DEF TakeGeneration, namedVars, slotVars
  <1>3. \A h \in LiveHandles' : h \in LiveHandles \/ h = BuiltHandle(i)'
    BY <1>1, <1>2 DEF LiveHandles
  <1> QED
    BY <1>3 DEF TakeGeneration, BuiltHandle, TypeOK, LoadersTypeOK

\* The generation of a handle identifies it in the whole runtime: the result
\* cache, the metadata cache and the thread snapshots may key on it, whatever
\* number of reloads overlap.
THEOREM GenerationsIdentifyHandles == Spec => []GenerationIdentifiesHandle
  <1>1. Init => GenerationIdentifiesHandle
    BY DEF Init, GenerationIdentifiesHandle, LiveHandles, Installing
  <1>2. TypeOK /\ GenerationIdentifiesHandle /\ [Next]_vars
          => GenerationIdentifiesHandle'
    <2> SUFFICES ASSUME TypeOK, GenerationIdentifiesHandle, [Next]_vars
                 PROVE  GenerationIdentifiesHandle'
      OBVIOUS
    <2>1. ASSUME NEW i \in Loaders, LoaderStep(i)
          PROVE  GenerationIdentifiesHandle'
      <3>1. CASE TakeGeneration(i)
        <4>1. /\ nextGeneration' = nextGeneration + 1
              /\ \A h \in LiveHandles' : h \in LiveHandles \/ h = BuiltHandle(i)'
              /\ BuiltHandle(i)'.generation = nextGeneration + 1
          BY <3>1, LiveGrows
        <4>2. nextGeneration \in Nat
          BY DEF TypeOK, LoadersTypeOK
        <4> QED
          BY <4>1, <4>2 DEF GenerationIdentifiesHandle
      <3>2. CASE ~ TakeGeneration(i)
        <4>1. LiveHandles' \subseteq LiveHandles /\ nextGeneration' = nextGeneration
          BY <2>1, <3>2, LiveShrinks
        <4> QED
          BY <4>1 DEF GenerationIdentifiesHandle
      <3> QED BY <3>1, <3>2
    <2>2. CASE UNCHANGED registryVars
      <3>1. LiveHandles' = LiveHandles /\ nextGeneration' = nextGeneration
        BY <2>2 DEF registryVars, sharedVars, slotVars, namedVars, loaderVars,
           LiveHandles, Installing, BuiltHandle, SpecName
      <3> QED BY <3>1 DEF GenerationIdentifiesHandle
    <2> QED BY <2>1, <2>2 DEF Next, vars
  <1> QED BY <1>1, <1>2, TypeCorrect, PTL DEF Spec

-----------------------------------------------------------------------------
(***************************************************************************)
(* The lock-free read of the current generation, when loads do not overlap *)
(* (the code leaves that to its callers).  OneLoader is the hypothesis, not *)
(* an assumption of the model: with two loaders the conclusion is false.   *)
(***************************************************************************)
OneLoader == \A i, j \in Loaders : i = j

\* The swap protocol: the epoch is odd exactly inside the swap, and the slot
\* and the published value differ only between their two assignments.
SwapInv ==
    /\ SlotAgrees
    /\ \A i \in Loaders :
         /\ Swapping(i) => providerEpoch % 2 = 1
         /\ pc[i] = "swap" => currentGenerationValue = provider.generation
         /\ pc[i] = "publish" => provider.generation = gen[i]
         /\ pc[i] = "end" => currentGenerationValue = provider.generation

\* What a reader knows: if the epoch has not moved since it read it, neither
\* has the value.
ReadInv ==
    \A r \in Readers :
      /\ rpc[r] \in {"value", "check"} =>
           repoch[r] <= providerEpoch /\ repoch[r] % 2 = 0
      /\ rpc[r] = "check" /\ repoch[r] = providerEpoch =>
           rvalue[r] = currentGenerationValue
      /\ Calling(r) => provider.generation \in seen[r]
      /\ rpc[r] = "got" => rvalue[r] \in seen[r]

\* Incrementing a natural number flips its parity.
LEMMA ParityFlips ==
    ASSUME NEW n \in Nat
    PROVE  /\ n % 2 = 0 => (n + 1) % 2 = 1
           /\ n % 2 = 1 => (n + 1) % 2 = 0
           /\ n % 2 \in {0, 1}
  OBVIOUS

\* A loader step follows the swap protocol.
LEMMA SwapStep ==
    ASSUME OneLoader, TypeOK, SwapInv, NEW i \in Loaders, LoaderStep(i)
    PROVE  SwapInv'
  <1>0. LoadersTypeOK
    BY DEF TypeOK
  <1>1. \A j \in Loaders : j = i
    BY DEF OneLoader
  <1>2. /\ providerEpoch \in Nat
        /\ providerEpoch % 2 = 0 => (providerEpoch + 1) % 2 = 1
        /\ providerEpoch % 2 = 1 => (providerEpoch + 1) % 2 = 0
    BY <1>0, ParityFlips DEF LoadersTypeOK
  <1>3. \A p \in PlanType, k \in Nat \ {0} : After(p, k) \in {"take", "prune", "idle"}
    BY AfterType
  <1> USE DEF GoTo, sharedVars, slotVars, Swapping, SlotAgrees, SwapInv
  <1>4. CASE BeginLoad(i)
    <2>1. PICK p \in Plans : pc' = [pc EXCEPT ![i] = After(p, 1)]
      BY <1>4 DEF BeginLoad
    <2>2. After(p, 1) \in {"take", "prune", "idle"}
      BY <1>3, PlansAssumption
    <2> QED
      BY <1>0, <1>1, <1>4, <2>1, <2>2 DEF BeginLoad, LoadersTypeOK
  <1>5. CASE TakeGeneration(i)
    BY <1>0, <1>1, <1>5 DEF TakeGeneration, LoadersTypeOK
  <1>6. CASE BuildFails(i)
    BY <1>0, <1>1, <1>6 DEF BuildFails, LoadersTypeOK
  <1>7. CASE InsertNamed(i)
    BY <1>0, <1>1, <1>7 DEF InsertNamed, LoadersTypeOK
  <1>8. ASSUME FinishInstall(i)
        PROVE  pc'[i] \in {"take", "prune", "idle"}
    <2>1. plan[i] \in PlanType /\ pos[i] + 1 \in Nat \ {0}
      BY <1>0 DEF LoadersTypeOK
    <2> QED
      BY <1>0, <1>3, <1>8, <2>1 DEF FinishInstall, LoadersTypeOK
  <1>9. CASE BumpNamedEpoch(i)
    <2>1. pc[i] = "bump" /\ UNCHANGED slotVars
      BY <1>9 DEF BumpNamedEpoch
    <2>2. pc'[i] \in {"begin", "take", "prune", "idle"}
      BY <1>0, <1>8, <1>9 DEF BumpNamedEpoch, LoadersTypeOK
    <2> QED
      BY <1>1, <2>1, <2>2
  <1>10. CASE BeginSwap(i)
    BY <1>0, <1>1, <1>2, <1>10 DEF BeginSwap, LoadersTypeOK
  <1>11. CASE SwapProvider(i)
    BY <1>0, <1>1, <1>11 DEF SwapProvider, BuiltHandle, LoadersTypeOK
  <1>12. CASE PublishGeneration(i)
    BY <1>0, <1>1, <1>12 DEF PublishGeneration, LoadersTypeOK
  <1>13. CASE EndSwap(i)
    <2>1. pc'[i] \in {"take", "prune", "idle"}
      BY <1>8, <1>13 DEF EndSwap
    <2> QED
      BY <1>1, <1>2, <1>13, <2>1 DEF EndSwap
  <1>14. CASE Prune(i)
    BY <1>0, <1>1, <1>14 DEF Prune, LoadersTypeOK
  <1> QED
    BY <1>4, <1>5, <1>6, <1>7, <1>9, <1>10, <1>11, <1>12, <1>13, <1>14
    DEF LoaderStep

\* A loader step moves the published value only while the epoch is odd.
LEMMA SlotStep ==
    ASSUME TypeOK, SwapInv, NEW i \in Loaders, LoaderStep(i)
    PROVE  /\ providerEpoch' \in {providerEpoch, providerEpoch + 1}
           /\ providerEpoch' = providerEpoch /\ providerEpoch % 2 = 0
                => currentGenerationValue' = currentGenerationValue
  BY DEF LoaderStep, BeginLoad, TakeGeneration, BuildFails, InsertNamed,
     BumpNamedEpoch, BeginSwap, SwapProvider, PublishGeneration, EndSwap, Prune,
     sharedVars, slotVars, SwapInv, Swapping

\* Loads that do not overlap and readers that straddle them.
LEMMA ReadStep ==
    ASSUME OneLoader, TypeOK, SwapInv, ReadInv, [Next]_vars
    PROVE  ReadInv'
  <1>1. ASSUME NEW i \in Loaders, LoaderStep(i), RecordSlot PROVE ReadInv'
    <2>1. /\ providerEpoch' \in {providerEpoch, providerEpoch + 1}
          /\ providerEpoch' = providerEpoch /\ providerEpoch % 2 = 0
                => currentGenerationValue' = currentGenerationValue
      BY <1>1, SlotStep
    <2>2. providerEpoch \in Nat /\ ReadersTypeOK
      BY DEF TypeOK, LoadersTypeOK
    <2>3. UNCHANGED <<rpc, repoch, rvalue>>
      BY <1>1 DEF RecordSlot
    <2>4. \A r \in Readers :
            seen'[r] = IF Calling(r) THEN seen[r] \cup {provider'.generation}
                       ELSE seen[r]
      BY <1>1 DEF RecordSlot
    <2>5. ASSUME NEW r \in Readers, rpc[r] \in {"value", "check"}
          PROVE  /\ repoch[r] <= providerEpoch' /\ repoch[r] % 2 = 0
                 /\ rpc[r] = "check" /\ repoch[r] = providerEpoch'
                       => rvalue[r] = currentGenerationValue'
      <3>1. repoch[r] \in Nat /\ repoch[r] <= providerEpoch /\ repoch[r] % 2 = 0
        BY <2>2, <2>5 DEF ReadInv, ReadersTypeOK
      <3>2. rpc[r] = "check" /\ repoch[r] = providerEpoch
              => rvalue[r] = currentGenerationValue
        BY DEF ReadInv
      <3> QED BY <2>1, <2>2, <3>1, <3>2
    <2> QED
      BY <2>3, <2>4, <2>5 DEF ReadInv, Calling
  <1>2. ASSUME NEW r \in Readers, ReaderStep(r), UNCHANGED registryVars
        PROVE  ReadInv'
    <2>1. UNCHANGED <<provider, providerEpoch, currentGenerationValue>>
      BY <1>2 DEF registryVars, sharedVars, slotVars
    <2>2. ReadersTypeOK /\ providerEpoch \in Nat /\ providerEpoch % 2 \in {0, 1}
      BY ParityFlips DEF TypeOK, LoadersTypeOK
    <2>3. providerEpoch % 2 = 0 => currentGenerationValue = provider.generation
      BY DEF SwapInv, SlotAgrees
    <2> USE DEF ReadInv, ReadersTypeOK, Calling
    <2>4. CASE CallGeneration(r)
      BY <2>1, <2>2, <2>4 DEF CallGeneration
    <2>5. CASE ReadEpochBefore(r)
      BY <2>1, <2>2, <2>5 DEF ReadEpochBefore
    <2>6. CASE ReadValue(r)
      BY <2>1, <2>2, <2>6 DEF ReadValue
    <2>7. CASE CheckEpochAfter(r)
      BY <2>1, <2>2, <2>3, <2>7 DEF CheckEpochAfter
    <2>8. CASE ReadProviderSlot(r)
      BY <2>1, <2>2, <2>8 DEF ReadProviderSlot
    <2> QED BY <1>2, <2>4, <2>5, <2>6, <2>7, <2>8 DEF ReaderStep
  <1>3. CASE UNCHANGED vars
    BY <1>3 DEF ReadInv, Calling, vars, registryVars, sharedVars, slotVars, readerVars
  <1> QED BY <1>1, <1>2, <1>3 DEF Next

\* When loads do not overlap, the swap protocol holds: the published value and
\* the slot agree outside the swap, and current_generation() returns a
\* generation the default provider had during the call.
THEOREM GenerationReadsLinearizable ==
    OneLoader => (Spec => [](SlotAgrees /\ CurrentGenerationLinearizable))
  <1> SUFFICES ASSUME OneLoader
               PROVE  Spec => [](SlotAgrees /\ CurrentGenerationLinearizable)
    OBVIOUS
  <1>1. Init => SwapInv /\ ReadInv
    BY DEF Init, SwapInv, SlotAgrees, Swapping, ReadInv, Calling, NoHandle
  <1>2. TypeOK /\ SwapInv /\ ReadInv /\ [Next]_vars => SwapInv' /\ ReadInv'
    <2> SUFFICES ASSUME TypeOK, SwapInv, ReadInv, [Next]_vars
                 PROVE  SwapInv' /\ ReadInv'
      OBVIOUS
    <2>1. ReadInv'
      BY ReadStep
    <2>2. ASSUME NEW i \in Loaders, LoaderStep(i) PROVE SwapInv'
      BY <2>2, SwapStep
    <2>3. CASE UNCHANGED registryVars
      <3>1. UNCHANGED <<provider, providerEpoch, currentGenerationValue, pc, gen>>
        BY <2>3 DEF registryVars, sharedVars, slotVars, loaderVars
      <3> QED
        BY <2>1, <3>1 DEF SwapInv, SlotAgrees, Swapping
    <2> QED BY <2>1, <2>2, <2>3 DEF Next, vars
  <1>3. SwapInv /\ ReadInv => SlotAgrees /\ CurrentGenerationLinearizable
    BY DEF SwapInv, ReadInv, CurrentGenerationLinearizable
  <1> QED BY <1>1, <1>2, <1>3, TypeCorrect, PTL DEF Spec

-----------------------------------------------------------------------------
(***************************************************************************)
(* The reload counters, for any number of overlapping loads.  The set of   *)
(* loads in progress is finite, as each step adds or removes one loader,   *)
(* so that its cardinality follows the counters step by step.              *)
(***************************************************************************)
InProgress == {i \in Loaders : Installing(i)}

CountInv == IsFiniteSet(InProgress) /\ ReloadsAccounted

\* What a loader step does to the loads in progress and to the counters: a load
\* that takes a generation joins, one that ends leaves and is counted once.
LEMMA CountedStep ==
    ASSUME TypeOK, NEW i \in Loaders, LoaderStep(i)
    PROVE  \/ /\ ~ Installing(i)
              /\ InProgress' = InProgress \cup {i}
              /\ nextGeneration' = nextGeneration + 1
              /\ UNCHANGED <<reloadSuccesses, reloadFailures>>
           \/ /\ Installing(i)
              /\ InProgress' = InProgress \ {i}
              /\ nextGeneration' = nextGeneration
              /\ reloadSuccesses' + reloadFailures' = reloadSuccesses + reloadFailures + 1
           \/ /\ InProgress' = InProgress
              /\ UNCHANGED <<nextGeneration, reloadSuccesses, reloadFailures>>
  <1> USE DEF GoTo, sharedVars, slotVars, namedVars, countVars
  <1>0. LoadersTypeOK
    BY DEF TypeOK
  <1>1. /\ reloadSuccesses \in Nat /\ reloadFailures \in Nat
        /\ pc \in [Loaders -> LoaderPc]
    BY <1>0 DEF LoadersTypeOK
  <1>2. ASSUME NEW l, pc' = [pc EXCEPT ![i] = l],
               l \in {"build", "bump", "begin", "swap", "publish", "end"}
        PROVE  InProgress' = InProgress \cup {i}
    BY <1>1, <1>2 DEF InProgress, Installing
  <1>3. ASSUME NEW l, pc' = [pc EXCEPT ![i] = l], l \in {"idle", "take", "prune"}
        PROVE  InProgress' = InProgress \ {i}
    BY <1>1, <1>3 DEF InProgress, Installing
  <1>4. Installing(i) => InProgress \cup {i} = InProgress
    BY DEF InProgress
  <1>5. ~ Installing(i) => InProgress \ {i} = InProgress
    BY DEF InProgress
  <1>6. CASE BeginLoad(i)
    <2>1. PICK p \in Plans : pc' = [pc EXCEPT ![i] = After(p, 1)]
      BY <1>6 DEF BeginLoad
    <2>2. After(p, 1) \in {"idle", "take", "prune"}
      BY AfterType, PlansAssumption
    <2>3. InProgress' = InProgress \ {i}
      BY <1>3, <2>1, <2>2
    <2> QED BY <1>5, <1>6, <2>3 DEF BeginLoad, Installing
  <1>7. CASE TakeGeneration(i)
    BY <1>2, <1>7 DEF TakeGeneration, Installing
  <1>8. CASE BuildFails(i)
    <2>1. InProgress' = InProgress \ {i}
      BY <1>3, <1>8 DEF BuildFails
    <2>2. /\ pc[i] = "build" /\ reloadFailures' = reloadFailures + 1
          /\ UNCHANGED <<nextGeneration, reloadSuccesses>>
      BY <1>8 DEF BuildFails
    <2> QED BY <1>1, <2>1, <2>2 DEF Installing
  <1>9. CASE InsertNamed(i)
    BY <1>2, <1>4, <1>9 DEF InsertNamed, Installing
  <1>10. ASSUME FinishInstall(i)
         PROVE  /\ InProgress' = InProgress \ {i}
                /\ reloadSuccesses' = reloadSuccesses + 1
    <2>1. After(plan[i], pos[i] + 1) \in {"idle", "take", "prune"}
      BY <1>0, AfterType DEF LoadersTypeOK
    <2> QED BY <1>3, <1>10, <2>1 DEF FinishInstall
  <1>11. CASE BumpNamedEpoch(i)
    <2>1. pc[i] = "bump" /\ UNCHANGED <<nextGeneration, reloadFailures>>
      BY <1>11 DEF BumpNamedEpoch
    <2>2. CASE FinishInstall(i)
      BY <1>1, <1>10, <2>1, <2>2 DEF Installing
    <2>3. CASE pc' = [pc EXCEPT ![i] = "begin"] /\ UNCHANGED reloadSuccesses
      BY <1>2, <1>4, <2>1, <2>3 DEF Installing
    <2> QED BY <1>11, <2>2, <2>3 DEF BumpNamedEpoch
  <1>12. CASE BeginSwap(i)
    BY <1>2, <1>4, <1>12 DEF BeginSwap, Installing
  <1>13. CASE SwapProvider(i)
    BY <1>2, <1>4, <1>13 DEF SwapProvider, Installing
  <1>14. CASE PublishGeneration(i)
    BY <1>2, <1>4, <1>14 DEF PublishGeneration, Installing
  <1>15. CASE EndSwap(i)
    BY <1>1, <1>10, <1>15 DEF EndSwap, Installing
  <1>16. CASE Prune(i)
    BY <1>3, <1>5, <1>16 DEF Prune, Installing
  <1> QED
    BY <1>6, <1>7, <1>8, <1>9, <1>11, <1>12, <1>13, <1>14, <1>15, <1>16
    DEF LoaderStep

\* Every generation that was handed out is a success, a failure or a load still
\* in progress, and only one of them, however many loads overlap and fail: the
\* counters of snapshot() add up.
THEOREM ReloadsAreAccounted == Spec => []ReloadsAccounted
  <1>1. Init => CountInv
    <2> SUFFICES ASSUME Init PROVE CountInv
      OBVIOUS
    <2>1. InProgress = {}
      BY DEF Init, InProgress, Installing
    <2>2. IsFiniteSet(InProgress) /\ Cardinality(InProgress) = 0
      BY <2>1, FS_EmptySet
    <2>3. reloadSuccesses = 0 /\ reloadFailures = 0 /\ nextGeneration = 0
      BY DEF Init
    <2> QED BY <2>2, <2>3 DEF CountInv, ReloadsAccounted, InProgress
  <1>2. TypeOK /\ CountInv /\ [Next]_vars => CountInv'
    <2> SUFFICES ASSUME TypeOK, CountInv, [Next]_vars PROVE CountInv'
      OBVIOUS
    <2>1. /\ reloadSuccesses \in Nat /\ reloadFailures \in Nat
          /\ nextGeneration \in Nat
      BY DEF TypeOK, LoadersTypeOK
    <2>2. /\ IsFiniteSet(InProgress) /\ Cardinality(InProgress) \in Nat
          /\ reloadSuccesses + reloadFailures + Cardinality(InProgress) = nextGeneration
      BY FS_CardinalityType DEF CountInv, ReloadsAccounted, InProgress
    <2>3. SUFFICES /\ IsFiniteSet(InProgress')
                   /\ reloadSuccesses' + reloadFailures' + Cardinality(InProgress')
                         = nextGeneration'
      BY DEF CountInv, ReloadsAccounted, InProgress
    <2>4. ASSUME NEW i \in Loaders, LoaderStep(i)
          PROVE  /\ IsFiniteSet(InProgress')
                 /\ reloadSuccesses' + reloadFailures' + Cardinality(InProgress')
                       = nextGeneration'
      <3>1. i \in InProgress <=> Installing(i)
        BY DEF InProgress
      <3>2. /\ IsFiniteSet(InProgress \cup {i})
            /\ ~ Installing(i) =>
                  Cardinality(InProgress \cup {i}) = Cardinality(InProgress) + 1
        BY <2>2, <3>1, FS_AddElement
      <3>3. /\ IsFiniteSet(InProgress \ {i})
            /\ Installing(i) =>
                  Cardinality(InProgress \ {i}) = Cardinality(InProgress) - 1
        BY <2>2, <3>1, FS_RemoveElement
      <3> HIDE DEF InProgress
      <3>4. CASE /\ ~ Installing(i)
                 /\ InProgress' = InProgress \cup {i}
                 /\ nextGeneration' = nextGeneration + 1
                 /\ UNCHANGED <<reloadSuccesses, reloadFailures>>
        BY <2>1, <2>2, <3>2, <3>4
      <3>5. CASE /\ Installing(i)
                 /\ InProgress' = InProgress \ {i}
                 /\ nextGeneration' = nextGeneration
                 /\ reloadSuccesses' + reloadFailures' = reloadSuccesses + reloadFailures + 1
        BY <2>1, <2>2, <3>3, <3>5
      <3>6. CASE /\ InProgress' = InProgress
                 /\ UNCHANGED <<nextGeneration, reloadSuccesses, reloadFailures>>
        BY <2>2, <3>6
      <3> QED BY <2>4, <3>4, <3>5, <3>6, CountedStep
    <2>5. CASE UNCHANGED registryVars
      <3>1. /\ InProgress' = InProgress
            /\ UNCHANGED <<nextGeneration, reloadSuccesses, reloadFailures>>
        BY <2>5 DEF registryVars, sharedVars, countVars, loaderVars, InProgress,
           Installing
      <3> QED BY <2>2, <3>1
    <2> QED BY <2>4, <2>5 DEF Next, vars
  <1>3. CountInv => ReloadsAccounted
    BY DEF CountInv
  <1> QED BY <1>1, <1>2, <1>3, TypeCorrect, PTL DEF Spec

-----------------------------------------------------------------------------
(***************************************************************************)
(* What loads that do not overlap establish, from any set of init calls    *)
(* and whichever builds fail.                                              *)
(***************************************************************************)

\* A load about to replace the default provider holds a younger generation.
AgeInv ==
    /\ provider.generation <= nextGeneration
    /\ \A i \in Loaders :
         pc[i] \in {"build", "bump", "begin", "swap"} =>
            provider.generation < gen[i] /\ gen[i] <= nextGeneration
    /\ \A i \in Loaders : gen[i] <= nextGeneration

\* Every loader step keeps the order of the generations.
LEMMA AgeStep ==
    ASSUME OneLoader, TypeOK, AgeInv, NEW i \in Loaders, LoaderStep(i)
    PROVE  /\ AgeInv'
           /\ provider' = provider \/ provider'.generation > provider.generation
  <1>0. LoadersTypeOK
    BY DEF TypeOK
  <1>1. \A j \in Loaders : j = i
    BY DEF OneLoader
  <1>2. /\ nextGeneration \in Nat /\ provider.generation \in Nat
        /\ pc \in [Loaders -> LoaderPc] /\ gen \in [Loaders -> Nat]
    BY <1>0 DEF LoadersTypeOK, Handle
  <1> USE DEF GoTo, sharedVars, slotVars, AgeInv
  <1>3. CASE BeginLoad(i)
    <2>1. PICK p \in Plans : pc' = [pc EXCEPT ![i] = After(p, 1)]
      BY <1>3 DEF BeginLoad
    <2>2. After(p, 1) \in {"take", "prune", "idle"}
      BY AfterType, PlansAssumption
    <2> QED BY <1>1, <1>2, <1>3, <2>1, <2>2 DEF BeginLoad
  <1>4. CASE TakeGeneration(i)
    BY <1>1, <1>2, <1>4 DEF TakeGeneration
  <1>5. CASE BuildFails(i)
    BY <1>1, <1>2, <1>5 DEF BuildFails
  <1>6. CASE InsertNamed(i)
    BY <1>1, <1>2, <1>6 DEF InsertNamed
  <1>7. ASSUME FinishInstall(i)
        PROVE  pc'[i] \in {"take", "prune", "idle"}
    <2>1. After(plan[i], pos[i] + 1) \in {"take", "prune", "idle"}
      BY <1>0, AfterType DEF LoadersTypeOK
    <2> QED BY <1>2, <1>7, <2>1 DEF FinishInstall
  <1>8. CASE BumpNamedEpoch(i)
    <2>1. pc[i] = "bump" /\ UNCHANGED <<nextGeneration, provider, gen>>
      BY <1>8 DEF BumpNamedEpoch
    <2>2. pc'[i] \in {"begin", "take", "prune", "idle"}
      BY <1>2, <1>7, <1>8 DEF BumpNamedEpoch
    <2> QED BY <1>1, <1>2, <2>1, <2>2
  <1>9. CASE BeginSwap(i)
    BY <1>1, <1>2, <1>9 DEF BeginSwap
  <1>10. CASE SwapProvider(i)
    <2>1. provider'.generation = gen[i] /\ provider.generation < gen[i]
      BY <1>10 DEF SwapProvider, BuiltHandle
    <2>2. pc'[i] = "publish" /\ UNCHANGED <<nextGeneration, gen>>
      BY <1>2, <1>10 DEF SwapProvider
    <2> QED BY <1>1, <1>2, <2>1, <2>2
  <1>11. CASE PublishGeneration(i)
    BY <1>1, <1>2, <1>11 DEF PublishGeneration
  <1>12. CASE EndSwap(i)
    <2>1. pc'[i] \in {"take", "prune", "idle"}
      BY <1>7, <1>12 DEF EndSwap
    <2> QED BY <1>1, <1>2, <1>12, <2>1 DEF EndSwap
  <1>13. CASE Prune(i)
    BY <1>1, <1>2, <1>13 DEF Prune
  <1> QED
    BY <1>3, <1>4, <1>5, <1>6, <1>8, <1>9, <1>10, <1>11, <1>12, <1>13
    DEF LoaderStep

\* Loads that do not overlap only ever replace the default provider by a
\* younger one, and never lose it, whichever builds fail in between.
THEOREM DefaultGetsYounger == OneLoader => (Spec => DefaultOnlyGetsYounger)
  <1> SUFFICES ASSUME OneLoader PROVE Spec => DefaultOnlyGetsYounger
    OBVIOUS
  <1>1. Init => AgeInv
    BY DEF Init, AgeInv, NoHandle
  <1>2. TypeOK /\ AgeInv /\ [Next]_vars =>
          AgeInv' /\ [provider'.generation > provider.generation]_provider
    <2> SUFFICES ASSUME TypeOK, AgeInv, [Next]_vars
                 PROVE  /\ AgeInv'
                        /\ [provider'.generation > provider.generation]_provider
      OBVIOUS
    <2>1. ASSUME NEW i \in Loaders, LoaderStep(i)
          PROVE  /\ AgeInv'
                 /\ [provider'.generation > provider.generation]_provider
      BY <2>1, AgeStep
    <2>2. CASE UNCHANGED registryVars
      <3>1. UNCHANGED <<nextGeneration, provider, pc, gen>>
        BY <2>2 DEF registryVars, sharedVars, slotVars, loaderVars
      <3> QED BY <3>1 DEF AgeInv
    <2> QED BY <2>1, <2>2 DEF Next, vars
  <1> QED BY <1>1, <1>2, TypeCorrect, PTL DEF Spec, DefaultOnlyGetsYounger

\* The specs behind a load are registered under their own names.
SpecsBehind(i) ==
    \A k \in 1 .. Len(plan[i].specs) : k < pos[i] =>
       namedProviders[plan[i].specs[k]].datasource_id = plan[i].specs[k]

\* If the default of the plan is behind the load, it is what the slot holds.
DefaultBehind(i) ==
    \A k \in 1 .. Len(plan[i].specs) :
       k < pos[i] /\ plan[i].specs[k] = plan[i].default =>
          namedProviders[plan[i].default] = provider

\* How far a load has come.
Progress(i) ==
    /\ plan[i] \in Plans \cup {NullPlan}
    /\ pc[i] = "prune" => plan[i].prunes /\ pos[i] > Len(plan[i].specs)
    /\ pc[i] # "idle" => SpecsBehind(i)
    /\ pc[i] \in {"take", "build", "prune"} => DefaultBehind(i)
    /\ pc[i] \in {"bump", "begin", "swap", "publish", "end"} =>
          namedProviders[SpecName(i)] = BuiltHandle(i)
    /\ pc[i] = "bump" => SpecName(i) = plan[i].default \/ DefaultBehind(i)
    /\ pc[i] \in {"begin", "swap", "publish", "end"} => SpecName(i) = plan[i].default
    /\ pc[i] \in {"publish", "end"} => provider = BuiltHandle(i)

InstalledInv == \A i \in Loaders : Progress(i)

\* The end of an install puts its spec behind the load.
LEMMA FinishedSpec ==
    ASSUME LoadersTypeOK, NEW i \in Loaders, FinishInstall(i),
           UNCHANGED <<namedProviders, provider, plan>>,
           pc[i] \in {"bump", "end"},
           plan[i] \in Plans \cup {NullPlan},
           SpecsBehind(i), namedProviders[SpecName(i)] = BuiltHandle(i),
           \/ SpecName(i) = plan[i].default /\ provider = BuiltHandle(i)
           \/ SpecName(i) # plan[i].default /\ DefaultBehind(i)
    PROVE  Progress(i)'
  <1>1. /\ plan[i] \in PlanType /\ pos[i] \in 1 .. Len(plan[i].specs)
        /\ pos[i] \in Nat /\ Len(plan[i].specs) \in Nat
    BY DEF LoadersTypeOK, Installing, PlanType
  <1>2. /\ pc'[i] = After(plan[i], pos[i] + 1)
        /\ pos'[i] = pos[i] + 1
        /\ plan'[i] = plan[i]
    BY DEF FinishInstall, GoTo, LoadersTypeOK
  <1>3. /\ pc'[i] \in {"take", "prune", "idle"}
        /\ pc'[i] = "prune" => plan[i].prunes /\ pos[i] + 1 > Len(plan[i].specs)
    BY <1>1, <1>2 DEF After
  <1>4. SpecsBehind(i)'
    <2> SUFFICES ASSUME NEW k \in 1 .. Len(plan[i].specs), k < pos[i] + 1
                 PROVE  namedProviders[plan[i].specs[k]].datasource_id = plan[i].specs[k]
      BY <1>2 DEF SpecsBehind
    <2>1. CASE k = pos[i]
      BY <2>1 DEF SpecName, BuiltHandle
    <2>2. CASE k < pos[i]
      BY <2>2 DEF SpecsBehind
    <2> QED BY <1>1, <2>1, <2>2
  <1>5. DefaultBehind(i)'
    <2> SUFFICES ASSUME NEW k \in 1 .. Len(plan[i].specs), k < pos[i] + 1,
                        plan[i].specs[k] = plan[i].default
                 PROVE  namedProviders[plan[i].default] = provider
      BY <1>2 DEF DefaultBehind
    <2>1. CASE SpecName(i) = plan[i].default /\ provider = BuiltHandle(i)
      BY <2>1
    <2>2. CASE SpecName(i) # plan[i].default /\ DefaultBehind(i)
      <3>1. k # pos[i]
        BY <2>2 DEF SpecName
      <3> QED BY <1>1, <2>2, <3>1 DEF DefaultBehind
    <2> QED BY <2>1, <2>2
  <1> QED
    BY <1>2, <1>3, <1>4, <1>5 DEF Progress

\* Every step of a load that no other load overlaps keeps its progress.
LEMMA ProgressStep ==
    ASSUME OneLoader, TypeOK, NEW i \in Loaders, Progress(i), LoaderStep(i)
    PROVE  Progress(i)'
  <1>0. LoadersTypeOK
    BY DEF TypeOK
  <1>1. /\ pc \in [Loaders -> LoaderPc] /\ pos \in [Loaders -> Nat]
        /\ plan \in [Loaders -> PlanType] /\ gen \in [Loaders -> Nat]
        /\ namedProviders \in [Names -> Handle]
    BY <1>0 DEF LoadersTypeOK
  <1> USE DEF GoTo, sharedVars, slotVars, namedVars
  <1>2. CASE BeginLoad(i)
    <2>1. PICK p \in Plans : /\ plan' = [plan EXCEPT ![i] = p]
                             /\ pc' = [pc EXCEPT ![i] = After(p, 1)]
      BY <1>2 DEF BeginLoad
    <2>2. /\ p \in PlanType /\ Len(p.specs) \in Nat
          /\ plan'[i] = p /\ pos'[i] = 1 /\ pc'[i] = After(p, 1)
      BY <1>1, <1>2, <2>1, PlansAssumption DEF BeginLoad, PlanType
    <2>3. /\ pc'[i] \in {"take", "prune", "idle"}
          /\ pc'[i] = "prune" => p.prunes /\ 1 > Len(p.specs)
      BY <2>2 DEF After
    <2>4. SpecsBehind(i)' /\ DefaultBehind(i)'
      BY <2>2 DEF SpecsBehind, DefaultBehind
    <2> QED BY <2>2, <2>3, <2>4 DEF Progress
  <1>3. ASSUME UNCHANGED <<namedProviders, provider, plan, pos>>
        PROVE  /\ plan'[i] \in Plans \cup {NullPlan}
               /\ SpecsBehind(i)' <=> SpecsBehind(i)
               /\ DefaultBehind(i)' <=> DefaultBehind(i)
               /\ SpecName(i)' = SpecName(i)
    BY <1>3 DEF Progress, SpecsBehind, DefaultBehind, SpecName
  <1>4. CASE TakeGeneration(i)
    <2>1. pc'[i] = "build" /\ UNCHANGED <<namedProviders, provider, plan, pos>>
      BY <1>1, <1>4 DEF TakeGeneration
    <2> QED BY <1>3, <1>4, <2>1 DEF TakeGeneration, Progress
  <1>5. CASE BuildFails(i)
    <2>1. pc'[i] = "idle" /\ UNCHANGED <<namedProviders, provider, plan, pos>>
      BY <1>1, <1>5 DEF BuildFails
    <2> QED BY <1>3, <2>1 DEF Progress
  <1>6. CASE InsertNamed(i)
    <2>1. /\ pc[i] = "build" /\ pc'[i] = "bump"
          /\ UNCHANGED <<provider, plan, pos, gen>>
          /\ namedProviders' = [namedProviders EXCEPT ![SpecName(i)] = BuiltHandle(i)]
      BY <1>1, <1>6 DEF InsertNamed
    <2>2. SpecName(i) \in Names
      BY <1>0, <2>1, BuiltHandleType DEF Installing
    <2>3. /\ namedProviders'[SpecName(i)] = BuiltHandle(i)
          /\ \A n \in Names \ {SpecName(i)} : namedProviders'[n] = namedProviders[n]
      BY <1>1, <2>1, <2>2
    <2>4. SpecName(i)' = SpecName(i) /\ BuiltHandle(i)' = BuiltHandle(i)
      BY <2>1 DEF SpecName, BuiltHandle
    <2>5. \A k \in 1 .. Len(plan[i].specs) : plan[i].specs[k] \in Names
      BY <1>1 DEF PlanType
    <2>6. SpecsBehind(i)'
      <3> SUFFICES ASSUME NEW k \in 1 .. Len(plan[i].specs), k < pos[i]
                   PROVE  namedProviders'[plan[i].specs[k]].datasource_id = plan[i].specs[k]
        BY <2>1 DEF SpecsBehind
      <3>1. CASE plan[i].specs[k] = SpecName(i)
        BY <2>3, <3>1 DEF BuiltHandle
      <3>2. CASE plan[i].specs[k] # SpecName(i)
        BY <2>1, <2>3, <2>5, <3>2 DEF Progress, SpecsBehind
      <3> QED BY <3>1, <3>2
    <2>7. SpecName(i) = plan[i].default \/ DefaultBehind(i)'
      <3> SUFFICES ASSUME SpecName(i) # plan[i].default,
                          NEW k \in 1 .. Len(plan[i].specs), k < pos[i],
                          plan[i].specs[k] = plan[i].default
                   PROVE  namedProviders'[plan[i].default] = provider
        BY <2>1 DEF DefaultBehind
      <3>1. namedProviders'[plan[i].default] = namedProviders[plan[i].default]
        BY <2>3, <2>5
      <3> QED BY <2>1, <3>1 DEF Progress, DefaultBehind
    <2> QED BY <2>1, <2>3, <2>4, <2>6, <2>7 DEF Progress
  <1>7. CASE BumpNamedEpoch(i)
    <2>1. pc[i] = "bump" /\ UNCHANGED <<namedProviders, provider, plan, gen>>
      BY <1>7 DEF BumpNamedEpoch
    <2>2. CASE SpecName(i) # plan[i].default
      <3>1. FinishInstall(i)
        BY <1>7, <2>2 DEF BumpNamedEpoch
      <3> QED BY <1>0, <2>1, <2>2, <3>1, FinishedSpec DEF Progress
    <2>3. CASE SpecName(i) = plan[i].default
      <3>1. pc'[i] = "begin" /\ UNCHANGED pos
        BY <1>1, <1>7, <2>3 DEF BumpNamedEpoch
      <3>2. BuiltHandle(i)' = BuiltHandle(i)
        BY <2>1, <3>1 DEF BuiltHandle, SpecName
      <3> QED BY <1>3, <2>1, <2>3, <3>1, <3>2 DEF Progress
    <2> QED BY <2>2, <2>3
  <1>8. CASE BeginSwap(i)
    <2>1. /\ pc[i] = "begin" /\ pc'[i] = "swap"
          /\ UNCHANGED <<namedProviders, provider, plan, pos, gen>>
      BY <1>1, <1>8 DEF BeginSwap
    <2>2. BuiltHandle(i)' = BuiltHandle(i)
      BY <2>1 DEF BuiltHandle, SpecName
    <2> QED BY <1>3, <2>1, <2>2 DEF Progress
  <1>9. CASE SwapProvider(i)
    <2>1. /\ pc[i] = "swap" /\ pc'[i] = "publish" /\ provider' = BuiltHandle(i)
          /\ UNCHANGED <<namedProviders, plan, pos, gen>>
      BY <1>1, <1>9 DEF SwapProvider
    <2>2. BuiltHandle(i)' = BuiltHandle(i) /\ SpecName(i)' = SpecName(i)
      BY <2>1 DEF BuiltHandle, SpecName
    <2>3. SpecsBehind(i)' <=> SpecsBehind(i)
      BY <2>1 DEF SpecsBehind
    <2> QED BY <2>1, <2>2, <2>3 DEF Progress
  <1>10. CASE PublishGeneration(i)
    <2>1. /\ pc[i] = "publish" /\ pc'[i] = "end"
          /\ UNCHANGED <<namedProviders, provider, plan, pos, gen>>
      BY <1>1, <1>10 DEF PublishGeneration
    <2>2. BuiltHandle(i)' = BuiltHandle(i)
      BY <2>1 DEF BuiltHandle, SpecName
    <2> QED BY <1>3, <2>1, <2>2 DEF Progress
  <1>11. CASE EndSwap(i)
    <2>1. /\ pc[i] = "end" /\ FinishInstall(i)
          /\ UNCHANGED <<namedProviders, provider, plan>>
      BY <1>11 DEF EndSwap
    <2> QED BY <1>0, <2>1, FinishedSpec DEF Progress
  <1>12. CASE Prune(i)
    <2>1. pc'[i] = "idle" /\ UNCHANGED plan
      BY <1>1, <1>12 DEF Prune
    <2> QED BY <2>1 DEF Progress
  <1> QED
    BY <1>2, <1>4, <1>5, <1>6, <1>7, <1>8, <1>9, <1>10, <1>11, <1>12
    DEF LoaderStep

\* What a load that no other load overlaps leaves when it prunes.
LEMMA PrunedConfiguration ==
    ASSUME TypeOK, NEW i \in Loaders, Progress(i), Prune(i)
    PROVE  /\ Registered(namedProviders') = plan[i].keep
           /\ plan[i].default # NoName =>
                 namedProviders'[plan[i].default] = provider'
           /\ \A n \in plan[i].keep : namedProviders'[n].datasource_id = n
  <1>1. /\ pc[i] = "prune" /\ provider' = provider
        /\ namedProviders' = [n \in Names |-> IF n \in plan[i].keep
                                               THEN namedProviders[n] ELSE NoHandle]
    BY DEF Prune, slotVars
  <1>2. /\ plan[i].prunes /\ pos[i] > Len(plan[i].specs)
        /\ SpecsBehind(i) /\ DefaultBehind(i)
        /\ plan[i] \in Plans \cup {NullPlan}
    BY <1>1 DEF Progress
  <1>3. /\ plan[i] \in PlanType /\ pos[i] \in Nat /\ Len(plan[i].specs) \in Nat
        /\ plan[i].keep \subseteq Names
    BY DEF TypeOK, LoadersTypeOK, PlanType
  <1>4. /\ plan[i].keep = Elements(plan[i].specs)
        /\ plan[i].default # NoName => plan[i].default \in Elements(plan[i].specs)
    BY <1>2, PlansAssumption DEF NullPlan
  <1>5. \A n \in plan[i].keep : namedProviders[n].datasource_id = n
    <2> SUFFICES ASSUME NEW n \in plan[i].keep
                 PROVE  namedProviders[n].datasource_id = n
      OBVIOUS
    <2>1. PICK k \in 1 .. Len(plan[i].specs) : n = plan[i].specs[k]
      BY <1>4 DEF Elements
    <2> QED BY <1>2, <1>3, <2>1 DEF SpecsBehind
  <1>6. \A n \in plan[i].keep : namedProviders'[n] = namedProviders[n]
    BY <1>1, <1>3
  <1>7. \A n \in plan[i].keep : namedProviders[n] # NoHandle
    BY <1>3, <1>5, NamesAssumption DEF NoHandle
  <1>8. Registered(namedProviders') = plan[i].keep
    BY <1>1, <1>3, <1>6, <1>7 DEF Registered
  <1>9. ASSUME plan[i].default # NoName
        PROVE  namedProviders'[plan[i].default] = provider'
    <2>1. PICK k \in 1 .. Len(plan[i].specs) : plan[i].default = plan[i].specs[k]
      BY <1>4, <1>9 DEF Elements
    <2>2. namedProviders[plan[i].default] = provider
      BY <1>2, <1>3, <2>1 DEF DefaultBehind
    <2> QED BY <1>1, <1>4, <1>6, <1>9, <2>2
  <1> QED BY <1>5, <1>6, <1>8, <1>9

\* Loads that do not overlap: an init call that runs to its prune leaves exactly
\* the names of its configuration registered, each with a handle of its own
\* datasource and the default one in the slot, whatever earlier calls left
\* behind or failed at.
THEOREM LoadsEstablishTheirConfiguration ==
    OneLoader => (Spec => LoadEstablishesConfiguration)
  <1> SUFFICES ASSUME OneLoader PROVE Spec => LoadEstablishesConfiguration
    OBVIOUS
  <1> DEFINE Established ==
        \A i \in Loaders : pc[i] = "prune" /\ pc'[i] = "idle" =>
          /\ Registered(namedProviders') = plan[i].keep
          /\ plan[i].default # NoName =>
                namedProviders'[plan[i].default] = provider'
          /\ \A n \in plan[i].keep : namedProviders'[n].datasource_id = n
  <1>1. Init => InstalledInv
    BY DEF Init, InstalledInv, Progress
  <1>2. TypeOK /\ InstalledInv /\ [Next]_vars => InstalledInv' /\ [Established]_vars
    <2> SUFFICES ASSUME TypeOK, InstalledInv, [Next]_vars
                 PROVE  InstalledInv' /\ [Established]_vars
      OBVIOUS
    <2>1. ASSUME NEW i \in Loaders, LoaderStep(i)
          PROVE  InstalledInv' /\ Established
      <3>1. \A j \in Loaders : j = i
        BY DEF OneLoader
      <3>2. Progress(i)
        BY DEF InstalledInv
      <3>3. Progress(i)'
        BY <2>1, <3>2, ProgressStep
      <3>4. pc[i] = "prune" => Prune(i)
        BY <2>1 DEF LoaderStep, BeginLoad, TakeGeneration, BuildFails, InsertNamed,
           BumpNamedEpoch, BeginSwap, SwapProvider, PublishGeneration, EndSwap
      <3>5. Established
        BY <3>1, <3>2, <3>4, PrunedConfiguration
      <3> QED BY <3>1, <3>3, <3>5 DEF InstalledInv
    <2>2. CASE UNCHANGED registryVars
      <3>1. UNCHANGED <<namedProviders, provider, pc, plan, pos, gen>>
        BY <2>2 DEF registryVars, sharedVars, slotVars, namedVars, loaderVars
      <3>2. InstalledInv'
        BY <3>1 DEF InstalledInv, Progress, SpecsBehind, DefaultBehind, SpecName,
           BuiltHandle
      <3> QED BY <3>1, <3>2
    <2> QED BY <2>1, <2>2 DEF Next, vars
  <1> QED
    BY <1>1, <1>2, TypeCorrect, PTL DEF Spec, LoadEstablishesConfiguration
=============================================================================
