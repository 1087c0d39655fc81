------------------------------- MODULE Refresh ------------------------------
(***************************************************************************)
(* The refresh service (refresh.rs): one task per table reloads it         *)
(* periodically, swaps the new rows into the shared TableStore and then    *)
(* sends a signal without payload over a bounded channel; the host         *)
(* receives signals and pulls snapshots.                                   *)
(*                                                                         *)
(* Tasks run in parallel and may be aborted at their await points.  The    *)
(* rows of a table are named by the version of the source they were read   *)
(* from; reading and swapping in are separate steps, and the source may    *)
(* change between them.  Intervals are abstracted to "some time later".    *)
(***************************************************************************)
EXTENDS Naturals, Sequences, FiniteSets

CONSTANTS
    Tables,     \* table names
    Specs,      \* the specs given to spawn: a name, and whether the interval is zero
    Capacity,   \* DEFAULT_SIGNAL_CAPACITY
    MaxVersion  \* bound on the changes of a source

ASSUME SpecsAssumption == Tables # {} /\ Specs \in Seq([name : Tables, zero : BOOLEAN])
ASSUME RefreshBounds == Capacity \in Nat \ {0} /\ MaxVersion \in Nat \ {0}

SpecIds == 1 .. Len(Specs)

VARIABLES
    source,     \* table -> version of its source
    store,      \* TableStore.current: table -> version, 0 when it has none
    tpc,        \* what each task does next
    rows,       \* the version a task has read
    aborted,    \* shutdown() was called: every task is to stop
    channel,    \* signals not received yet; their version is history
    rxOpen,     \* the receiver is open
    cpc,        \* what the host does next
    got,        \* the signal it received
    pulled      \* table -> version of the last snapshot the host pulled

taskVars == <<tpc, rows>>
hostVars == <<cpc, got, pulled>>
vars == <<source, store, taskVars, aborted, channel, rxOpen, hostVars>>

\* Mutant: every spec gets a task, the second one of a table too.
AllSpecs(k) == TRUE

\* spawn_with_store keeps the first spec of a name.
Kept(k) == \A j \in 1 .. k - 1 : Specs[j].name # Specs[k].name

Name(k) == Specs[k].name

\* A task holds a clone of the sender until it ends.
Ended(k) == tpc[k] \in {"none", "ended"}

\* Mutant: spawn_with_store forgets to drop its own sender.
OpenForever == FALSE

\* All senders are gone: spawn_with_store dropped its own.
SendersGone == \A k \in SpecIds : Ended(k)

\* The host seeds some of the tables before it spawns the service.
Init ==
    /\ source = [t \in Tables |-> 1]
    /\ store \in [Tables -> {0, 1}]
    /\ tpc = [k \in SpecIds |-> IF Kept(k) THEN "start" ELSE "none"]
    /\ rows = [k \in SpecIds |-> 0]
    /\ aborted = FALSE
    /\ channel = << >>
    /\ rxOpen = TRUE
    /\ cpc = "recv"
    /\ got = [name |-> CHOOSE t \in Tables : TRUE, version |-> 0]
    /\ pulled = store

-----------------------------------------------------------------------------
(***************************************************************************)
(* Tasks: run_spec                                                         *)
(***************************************************************************)

TaskGoes(k, label) == tpc' = [tpc EXCEPT ![k] = label]

\* A zero interval ends the task at once; otherwise the immediate first tick is
\* skipped.
Start(k) ==
    /\ tpc[k] = "start"
    /\ TaskGoes(k, IF Specs[k].zero THEN "ended" ELSE "wait")
    /\ UNCHANGED <<source, store, rows, aborted, channel, rxOpen, hostVars>>

\* The interval is over.
Tick(k) ==
    /\ tpc[k] = "wait" /\ ~ aborted
    /\ TaskGoes(k, "reload")
    /\ UNCHANGED <<source, store, rows, aborted, channel, rxOpen, hostVars>>

\* reload reads the source.  Its result has still to reach the task.
ReadSource(k) ==
    /\ tpc[k] = "reload"
    /\ rows' = [rows EXCEPT ![k] = source[Name(k)]]
    /\ TaskGoes(k, "insert")
    /\ UNCHANGED <<source, store, aborted, channel, rxOpen, hostVars>>

\* reload fails: this round is skipped.
ReloadFails(k) ==
    /\ tpc[k] = "reload"
    /\ TaskGoes(k, "wait")
    /\ UNCHANGED <<source, store, rows, aborted, channel, rxOpen, hostVars>>

\* Mutant: the signal is sent first.
SignalBeforeInsert(k) ==
    /\ tpc[k] = "insert"
    /\ IF rxOpen /\ Len(channel) < Capacity
         THEN channel' = Append(channel, [name |-> Name(k), version |-> rows[k]])
         ELSE UNCHANGED channel
    /\ TaskGoes(k, "send")
    /\ UNCHANGED <<source, store, rows, aborted, rxOpen, hostVars>>

\* TableStore::insert
Insert(k) ==
    /\ tpc[k] = "insert"
    /\ store' = [store EXCEPT ![Name(k)] = rows[k]]
    /\ TaskGoes(k, "send")
    /\ UNCHANGED <<source, rows, aborted, channel, rxOpen, hostVars>>

\* try_send puts the signal into the channel.
Send(k) ==
    /\ tpc[k] = "send"
    /\ rxOpen /\ Len(channel) < Capacity
    /\ channel' = Append(channel, [name |-> Name(k), version |-> rows[k]])
    /\ TaskGoes(k, "wait")
    /\ UNCHANGED <<source, store, rows, aborted, rxOpen, hostVars>>

\* Mutant: a full channel ends the task like a closed one.
SendFullEnds(k) ==
    /\ tpc[k] = "send"
    /\ rxOpen /\ Len(channel) >= Capacity
    /\ TaskGoes(k, "ended")
    /\ UNCHANGED <<source, store, rows, aborted, channel, rxOpen, hostVars>>

\* Mutant: the task waits for room in the channel.
SendFullWaits(k) ==
    /\ tpc[k] = "send"
    /\ rxOpen /\ Len(channel) >= Capacity
    /\ UNCHANGED vars

\* try_send finds the channel full: the signal is dropped.
SendFull(k) ==
    /\ tpc[k] = "send"
    /\ rxOpen /\ Len(channel) >= Capacity
    /\ TaskGoes(k, "wait")
    /\ UNCHANGED <<source, store, rows, aborted, channel, rxOpen, hostVars>>

\* try_send finds the receiver closed: the task returns.
SendClosed(k) ==
    /\ tpc[k] = "send"
    /\ ~ rxOpen
    /\ TaskGoes(k, "ended")
    /\ UNCHANGED <<source, store, rows, aborted, channel, rxOpen, hostVars>>

\* An aborted task ends where it awaits: never between insert and try_send.  A
\* task that is being polled may finish the round it is in.
Die(k) ==
    /\ aborted
    /\ tpc[k] \in {"start", "wait", "reload", "insert"}
    /\ TaskGoes(k, "ended")
    /\ UNCHANGED <<source, store, rows, aborted, channel, rxOpen, hostVars>>

-----------------------------------------------------------------------------
(***************************************************************************)
(* The host and the sources                                                *)
(***************************************************************************)

\* signals.recv().await yields a signal.
Recv ==
    /\ cpc = "recv"
    /\ channel # << >>
    /\ got' = Head(channel)
    /\ channel' = Tail(channel)
    /\ cpc' = "pull"
    /\ UNCHANGED <<source, store, taskVars, aborted, rxOpen, pulled>>

\* signals.recv().await yields None: nothing is left and nobody can send.
RecvNone ==
    /\ cpc = "recv"
    /\ channel = << >>
    /\ SendersGone \/ ~ rxOpen
    /\ cpc' = "closed"
    /\ UNCHANGED <<source, store, taskVars, aborted, channel, rxOpen, got, pulled>>

\* store.snapshot(name)
Pull ==
    /\ cpc = "pull"
    /\ pulled' = [pulled EXCEPT ![got.name] = store[got.name]]
    /\ cpc' = "recv"
    /\ UNCHANGED <<source, store, taskVars, aborted, channel, rxOpen, got>>

\* shutdown(), or the drop of the service.
Shutdown ==
    /\ ~ aborted
    /\ aborted' = TRUE
    /\ UNCHANGED <<source, store, taskVars, channel, rxOpen, hostVars>>

\* The host closes the receiver and keeps the service.
CloseReceiver ==
    /\ rxOpen
    /\ rxOpen' = FALSE
    /\ UNCHANGED <<source, store, taskVars, aborted, channel, hostVars>>

\* The data behind a table change.
SourceChanges(t) ==
    /\ source[t] < MaxVersion
    /\ source' = [source EXCEPT ![t] = source[t] + 1]
    /\ UNCHANGED <<store, taskVars, aborted, channel, rxOpen, hostVars>>

TaskStep(k) ==
    \/ Start(k) \/ Tick(k) \/ ReadSource(k) \/ ReloadFails(k) \/ Insert(k)
    \/ Send(k) \/ SendFull(k) \/ SendClosed(k) \/ Die(k)

HostStep == Recv \/ RecvNone \/ Pull \/ Shutdown \/ CloseReceiver

Next ==
    \/ \E k \in SpecIds : TaskStep(k)
    \/ HostStep
    \/ \E t \in Tables : SourceChanges(t)

\* The tokio scheduler runs every task that can move, timers fire, and a reload
\* that is tried again and again succeeds again and again.
FairTasks ==
    \A k \in SpecIds :
      /\ WF_vars(Start(k)) /\ WF_vars(Tick(k)) /\ WF_vars(Insert(k))
      /\ WF_vars(Send(k) \/ SendFull(k) \/ SendClosed(k)) /\ WF_vars(Die(k))
      /\ WF_vars(ReadSource(k) \/ ReloadFails(k)) /\ SF_vars(ReadSource(k))

\* A host that keeps receiving and pulling; an assumption of the properties that
\* need it, not of the specification.
FairHost == WF_vars(Recv) /\ WF_vars(RecvNone) /\ WF_vars(Pull)

Spec == Init /\ [][Next]_vars
FairSpec == Spec /\ FairTasks

-----------------------------------------------------------------------------
(***************************************************************************)
(* Properties                                                              *)
(***************************************************************************)

Signal == [name : Tables, version : Nat]

\* Types; the channel never holds more than its capacity.
TypeOK ==
    /\ source \in [Tables -> Nat]
    /\ store \in [Tables -> Nat]
    /\ tpc \in [SpecIds -> {"none", "start", "wait", "reload", "insert", "send", "ended"}]
    /\ rows \in [SpecIds -> Nat]
    /\ aborted \in BOOLEAN
    /\ channel \in Seq(Signal) /\ Len(channel) <= Capacity
    /\ rxOpen \in BOOLEAN
    /\ cpc \in {"recv", "pull", "closed"}
    /\ got \in Signal
    /\ pulled \in [Tables -> Nat]

\* The store never goes back to older rows, although reading a source and
\* swapping the rows in are separate steps and the source may change between
\* them: this is what "one task per table" is for (refresh.rs:152-154).
StoreNeverGoesBack == [][\A t \in Tables : store'[t] >= store[t]]_store

\* A signal is never ahead of the store: a host that pulls on a signal finds
\* the rows the signal announced, or newer ones.
SignalNeverAhead ==
    /\ \A j \in 1 .. Len(channel) : store[channel[j].name] >= channel[j].version
    /\ cpc = "pull" => store[got.name] >= got.version

\* With the types of store, tasks, channel (never past its capacity) and host.
RefreshInv == TypeOK /\ SignalNeverAhead

\* The tables whose first spec has an interval.
Refreshed == {Name(k) : k \in {j \in SpecIds : Kept(j) /\ ~ Specs[j].zero}}

\* A stalled host never stalls a refresh: while the service runs and the
\* receiver is open, the store catches up with every source for good, received
\* signals or not.
StoreFollowsSource ==
    <>(aborted \/ ~ rxOpen) \/ \A t \in Refreshed : <>[](store[t] = source[t])

\* With one refreshed table, dropping a signal is harmless (refresh.md:24): a
\* host that keeps receiving, and pulls the table a signal names, catches up
\* with the source for good, however often the channel was full.
HostFollowsSource ==
    FairHost =>
      \/ <>(aborted \/ ~ rxOpen)
      \/ \A t \in Refreshed : <>[](pulled[t] = source[t])

\* After shutdown() every task ends, and a host that keeps receiving sees the
\* end of the channel.
ShutdownCloses == FairHost => (aborted ~> (cpc = "closed" /\ SendersGone))
=============================================================================
