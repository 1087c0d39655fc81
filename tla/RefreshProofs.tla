---------------------------- MODULE RefreshProofs ---------------------------
(***************************************************************************)
(* Proofs about Refresh, for any tables, any list of specs (with tables    *)
(* named several times) and any capacity of the channel.                   *)
(***************************************************************************)
EXTENDS Refresh, TLAPS

\* Rows are not from the future.
StoreBehindSource == \A t \in Tables : store[t] <= source[t]

\* Only kept specs have a task.  Between its read and its insert nobody else has
\* put newer rows in, and its own rows are in the store when it signals them.
TasksInOrder ==
    \A k \in SpecIds :
        /\ tpc[k] # "none" => Kept(k)
        /\ tpc[k] = "insert" => store[Name(k)] <= rows[k] /\ rows[k] <= source[Name(k)]
        /\ tpc[k] = "send" => rows[k] <= store[Name(k)]

\* The inductive invariant.
RefreshIInv == RefreshInv /\ StoreBehindSource /\ TasksInOrder

-----------------------------------------------------------------------------

LEMMA SpecType ==
    ASSUME NEW k \in SpecIds
    PROVE  Name(k) \in Tables
  <1> DEFINE SpecSet == [name : Tables, zero : BOOLEAN]
  <1>1. Specs[k] \in SpecSet
    <2>1. Specs \in Seq(SpecSet)
      BY SpecsAssumption
    <2> HIDE DEF SpecSet
    <2> QED
      BY <2>1 DEF SpecIds
  <1> QED
    BY <1>1 DEF Name

\* "One task per table": what spawn_with_store keeps has distinct names.
LEMMA KeptDistinct ==
    ASSUME NEW j \in SpecIds, NEW k \in SpecIds, Kept(j), Kept(k), Name(j) = Name(k)
    PROVE  j = k
  <1>1. j \in Nat /\ k \in Nat /\ 1 <= j /\ 1 <= k
    BY SpecsAssumption DEF SpecIds
  <1> QED
    BY <1>1 DEF Kept, Name

LEMMA RefreshInitInv == Init => RefreshIInv
  <1> SUFFICES ASSUME Init PROVE RefreshIInv
    OBVIOUS
  <1>1. (CHOOSE t \in Tables : TRUE) \in Tables
    BY SpecsAssumption
  <1>2. TypeOK
    <2>1. store \in [Tables -> Nat] /\ pulled \in [Tables -> Nat]
      BY DEF Init
    <2>2. tpc \in [SpecIds -> {"none", "start", "wait", "reload", "insert", "send", "ended"}]
      BY DEF Init
    <2>3. channel \in Seq(Signal) /\ Len(channel) <= Capacity
      BY RefreshBounds DEF Init
    <2> QED
      BY <1>1, <2>1, <2>2, <2>3 DEF Init, TypeOK, Signal
  <1>3. SignalNeverAhead
    BY DEF Init, SignalNeverAhead
  <1>4. StoreBehindSource
    BY DEF Init, StoreBehindSource
  <1>5. TasksInOrder
    BY DEF Init, TasksInOrder
  <1> QED
    BY <1>2, <1>3, <1>4, <1>5 DEF RefreshIInv, RefreshInv

\* What a task does to the store: only Insert writes, and never older rows.
LEMMA TaskStepStore ==
    ASSUME RefreshIInv, NEW k \in SpecIds, TaskStep(k)
    PROVE  \A t \in Tables : store'[t] >= store[t]
  <1>1. Name(k) \in Tables
    BY SpecType
  <1>2. CASE Insert(k)
    BY <1>1, <1>2 DEF Insert, RefreshIInv, RefreshInv, TypeOK, TasksInOrder
  <1>3. CASE ~ Insert(k)
    <2>1. UNCHANGED store
      BY <1>3 DEF TaskStep, Start, Tick, ReadSource, ReloadFails, Send, SendFull, SendClosed, Die
    <2> QED
      BY <2>1 DEF RefreshIInv, RefreshInv, TypeOK
  <1> QED
    BY <1>2, <1>3

LEMMA TaskStepType ==
    ASSUME TypeOK, NEW k \in SpecIds, TaskStep(k)
    PROVE  TypeOK'
  <1>1. Name(k) \in Tables
    BY SpecType
  <1> USE DEF TypeOK, TaskGoes, hostVars
  <1>2. CASE Start(k)
    BY <1>2 DEF Start
  <1>3. CASE Tick(k)
    BY <1>3 DEF Tick
  <1>4. CASE ReadSource(k)
    BY <1>1, <1>4 DEF ReadSource
  <1>5. CASE ReloadFails(k)
    BY <1>5 DEF ReloadFails
  <1>6. CASE Insert(k)
    BY <1>1, <1>6 DEF Insert
  <1>7. CASE Send(k)
    <2>1. [name |-> Name(k), version |-> rows[k]] \in Signal
      BY <1>1 DEF Signal
    <2>2. channel' \in Seq(Signal) /\ Len(channel') <= Capacity
      BY <1>7, <2>1, RefreshBounds DEF Send
    <2> QED
      BY <1>7, <2>2 DEF Send
  <1>8. CASE SendFull(k)
    BY <1>8 DEF SendFull
  <1>9. CASE SendClosed(k)
    BY <1>9 DEF SendClosed
  <1>10. CASE Die(k)
    BY <1>10 DEF Die
  <1> QED
    BY <1>2, <1>3, <1>4, <1>5, <1>6, <1>7, <1>8, <1>9, <1>10 DEF TaskStep

\* The other tasks have other tables.
LEMMA TaskStepOrder ==
    ASSUME RefreshIInv, NEW k \in SpecIds, TaskStep(k)
    PROVE  StoreBehindSource' /\ TasksInOrder'
  <1> USE DEF RefreshIInv, RefreshInv
  <1>1. \A j \in SpecIds : Name(j) \in Tables
    BY SpecType
  <1>2. Kept(k)
    BY DEF TasksInOrder, TaskStep, Start, Tick, ReadSource, ReloadFails, Insert, Send,
           SendFull, SendClosed, Die
  <1>3. CASE Insert(k)
    <2>1. \A t \in Tables : store'[t] = IF t = Name(k) THEN rows[k] ELSE store[t]
      BY <1>3 DEF Insert, TypeOK
    <2>2. UNCHANGED <<source, rows>> /\ tpc' = [tpc EXCEPT ![k] = "send"]
      BY <1>3 DEF Insert, TaskGoes
    <2>3. StoreBehindSource'
      BY <1>1, <1>3, <2>1, <2>2 DEF Insert, StoreBehindSource, TasksInOrder
    <2>4. ASSUME NEW j \in SpecIds, j # k, tpc[j] # "none"
          PROVE  Name(j) # Name(k)
      BY <1>2, <2>4, KeptDistinct DEF TasksInOrder
    <2>5. TasksInOrder'
      BY <1>1, <1>2, <2>1, <2>2, <2>4 DEF TasksInOrder, TypeOK
    <2> QED
      BY <2>3, <2>5
  <1>4. CASE ReadSource(k)
    BY <1>1, <1>2, <1>4 DEF ReadSource, TaskGoes, StoreBehindSource, TasksInOrder, TypeOK
  <1>5. CASE ~ Insert(k) /\ ~ ReadSource(k)
    <2>1. UNCHANGED <<source, store, rows>>
      BY <1>5 DEF TaskStep, Start, Tick, ReloadFails, Send, SendFull, SendClosed, Die
    <2>2. \E l \in {"wait", "reload", "ended"} : tpc' = [tpc EXCEPT ![k] = l]
      BY <1>5 DEF TaskStep, Start, Tick, ReloadFails, Send, SendFull, SendClosed, Die, TaskGoes
    <2> QED
      BY <1>2, <2>1, <2>2 DEF StoreBehindSource, TasksInOrder, TypeOK
  <1> QED
    BY <1>3, <1>4, <1>5

\* A signal follows its rows into the store, and the store only gets younger.
LEMMA TaskStepSignals ==
    ASSUME RefreshIInv, NEW k \in SpecIds, TaskStep(k)
    PROVE  SignalNeverAhead'
  <1> USE DEF RefreshIInv, RefreshInv
  <1>1. \A t \in Tables : store'[t] >= store[t]
    BY TaskStepStore
  <1>2. store \in [Tables -> Nat] /\ store' \in [Tables -> Nat]
    BY TaskStepType DEF TypeOK
  <1>3. UNCHANGED <<cpc, got>> /\ got \in Signal
    BY DEF TaskStep, Start, Tick, ReadSource, ReloadFails, Insert, Send, SendFull, SendClosed,
           Die, hostVars, TypeOK
  <1>4. cpc = "pull" => store'[got.name] >= got.version
    BY <1>1, <1>2, <1>3 DEF SignalNeverAhead, Signal
  <1>5. \A j \in 1 .. Len(channel) : store'[channel[j].name] >= channel[j].version
    <2> TAKE j \in 1 .. Len(channel)
    <2>1. channel[j] \in Signal
      BY DEF TypeOK
    <2> QED
      BY <1>1, <1>2, <2>1 DEF SignalNeverAhead, Signal
  <1>6. CASE Send(k)
    <2>1. Name(k) \in Tables /\ rows[k] <= store[Name(k)] /\ UNCHANGED store
      BY <1>6, SpecType DEF Send, TasksInOrder
    <2>2. channel' = Append(channel, [name |-> Name(k), version |-> rows[k]])
      BY <1>6 DEF Send
    <2>3. \A j \in 1 .. Len(channel') : store'[channel'[j].name] >= channel'[j].version
      BY <1>2, <1>5, <2>1, <2>2 DEF TypeOK
    <2> QED
      BY <1>3, <1>4, <2>3 DEF SignalNeverAhead
  <1>7. CASE ~ Send(k)
    <2>1. UNCHANGED channel
      BY <1>7 DEF TaskStep, Start, Tick, ReadSource, ReloadFails, Insert, SendFull, SendClosed, Die
    <2> QED
      BY <1>3, <1>4, <1>5, <2>1 DEF SignalNeverAhead
  <1> QED
    BY <1>6, <1>7

LEMMA HostStepInv ==
    ASSUME RefreshIInv, HostStep
    PROVE  RefreshIInv'
  <1> USE DEF RefreshIInv, RefreshInv
  <1>1. UNCHANGED <<source, store, tpc, rows>>
    BY DEF HostStep, Recv, RecvNone, Pull, Shutdown, CloseReceiver, taskVars
  <1>2. StoreBehindSource' /\ TasksInOrder'
    BY <1>1 DEF StoreBehindSource, TasksInOrder
  <1>3. CASE Recv
    <2>1. /\ got' = channel[1] /\ got' \in Signal
          /\ channel' \in Seq(Signal) /\ Len(channel') = Len(channel) - 1
          /\ \A j \in 1 .. Len(channel') : channel'[j] = channel[j + 1]
      BY <1>3 DEF Recv, TypeOK
    <2>2. TypeOK'
      BY <1>3, <2>1, RefreshBounds DEF Recv, TypeOK, taskVars
    <2>3. SignalNeverAhead'
      BY <1>1, <1>3, <2>1 DEF Recv, SignalNeverAhead, TypeOK
    <2> QED
      BY <1>2, <2>2, <2>3
  <1>4. CASE Pull
    BY <1>1, <1>2, <1>4 DEF Pull, TypeOK, Signal, SignalNeverAhead, taskVars
  <1>5. CASE RecvNone \/ Shutdown \/ CloseReceiver
    BY <1>1, <1>2, <1>5 DEF RecvNone, Shutdown, CloseReceiver, TypeOK, SignalNeverAhead,
                            taskVars, hostVars
  <1> QED
    BY <1>3, <1>4, <1>5 DEF HostStep

LEMMA SourceStepInv ==
    ASSUME RefreshIInv, NEW t \in Tables, SourceChanges(t)
    PROVE  RefreshIInv'
  <1> USE DEF RefreshIInv, RefreshInv, SourceChanges, taskVars, hostVars
  <1>1. TypeOK' /\ SignalNeverAhead'
    BY DEF TypeOK, SignalNeverAhead
  <1>2. \A u \in Tables : source'[u] \in Nat /\ source'[u] >= source[u]
    BY DEF TypeOK
  <1>3. StoreBehindSource'
    BY <1>2 DEF StoreBehindSource, TypeOK
  <1>4. \A k \in SpecIds : Name(k) \in Tables
    BY SpecType
  <1>5. TasksInOrder'
    BY <1>2, <1>4 DEF TasksInOrder, TypeOK
  <1> QED
    BY <1>1, <1>3, <1>5

LEMMA RefreshNextInv == RefreshIInv /\ [Next]_vars => RefreshIInv'
  <1> SUFFICES ASSUME RefreshIInv, [Next]_vars PROVE RefreshIInv'
    OBVIOUS
  <1>1. ASSUME NEW k \in SpecIds, TaskStep(k) PROVE RefreshIInv'
    BY <1>1, TaskStepType, TaskStepOrder, TaskStepSignals DEF RefreshIInv, RefreshInv
  <1>2. CASE UNCHANGED vars
    BY <1>2 DEF vars, taskVars, hostVars, RefreshIInv, RefreshInv, TypeOK, SignalNeverAhead,
                StoreBehindSource, TasksInOrder
  <1> QED
    BY <1>1, <1>2, HostStepInv, SourceStepInv DEF Next

\* The channel never holds more than its capacity, and a host that pulls on a
\* signal finds the rows that the signal announced or newer ones.
THEOREM SignalsFollowRows == Spec => []RefreshInv
  <1>1. RefreshIInv => RefreshInv
    BY DEF RefreshIInv
  <1> QED
    BY <1>1, RefreshInitInv, RefreshNextInv, PTL DEF Spec

\* TableStore never goes back to older rows, however many specs name a table
\* and wherever the source changes between a reload's read and its insert.
THEOREM StoreMovesForward == Spec => StoreNeverGoesBack
  <1>1. RefreshIInv /\ [Next]_vars => [\A t \in Tables : store'[t] >= store[t]]_store
    <2> SUFFICES ASSUME RefreshIInv, Next, store' # store
                 PROVE  \A t \in Tables : store'[t] >= store[t]
      BY DEF vars
    <2>1. PICK k \in SpecIds : TaskStep(k)
      BY DEF Next, HostStep, Recv, RecvNone, Pull, Shutdown, CloseReceiver, SourceChanges
    <2> QED
      BY <2>1, TaskStepStore
  <1> QED
    BY <1>1, RefreshInitInv, RefreshNextInv, PTL DEF Spec, StoreNeverGoesBack
=============================================================================
