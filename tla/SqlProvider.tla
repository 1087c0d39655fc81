----------------------------- MODULE SqlProvider ----------------------------
(***************************************************************************)
(* The SQL providers and the column metadata cache: PostgreSQL and MySQL   *)
(* over connection pools in runtimes of their own (postgres.rs, mysql.rs,  *)
(* provider_runtime.rs), SQLite over a pool of one connection (memdb.rs),  *)
(* and COLNAME_CACHE, which all of them share (query_util.rs).             *)
(*                                                                         *)
(* A row is the version of the schema it was read under, and a list of     *)
(* column names is the query it belongs to with the version and provider   *)
(* it was read from; only queries in Starred ("SELECT *") have names that  *)
(* depend on the schema.  Decoding of values is in SqlValues, rewriting of           *)
(* placeholders in SqlText.                                                *)
(***************************************************************************)
EXTENDS Naturals, FiniteSets, Sequences, SequencesExt

CONSTANTS
    Tasks,          \* calls that can be in progress at once
    Queries,        \* SQL texts
    Starred,        \* those whose column names depend on the schema
    Plans,          \* generation -> the kind of provider its load brings
    PoolSize,       \* max_connections, at least 1
    SessionSize,    \* SET statements of [postgres_session]
    NamesCap,       \* capacity of COLNAME_CACHE (512 in the code)
    MaxGeneration,  \* bound on the loads
    MaxVersion      \* bound on the changes of the schema

Kinds == {"postgres", "mysql", "sqlite"}

ASSUME PlansAssumption == Plans \subseteq [1..MaxGeneration -> Kinds]
ASSUME StarredAssumption == Starred \subseteq Queries /\ Queries # {}
ASSUME PoolAssumption == PoolSize \in Nat \ {0} /\ NamesCap \in Nat \ {0}
ASSUME ProviderBounds == SessionSize \in Nat /\ MaxGeneration \in Nat /\ MaxVersion \in Nat

VARIABLES
    slot,       \* generation of the default provider, 0 for none
    provider,   \* generation -> its kind, and the schema its load began under
    load,       \* what the load of the newest generation does next
    pool,       \* generation -> connection -> its state
    task,       \* the calls, and the tasks spawned for them
    colNames,   \* COLNAME_CACHE, least recently put first
    schema      \* version of the database's schema

vars == <<slot, provider, load, pool, task, colNames, schema>>

Generations == 1..MaxGeneration
Connections == 1..PoolSize
NoKind == "none"
NoRow == MaxVersion + 1

Closed == [st |-> "closed", set |-> 0]
Opening == [st |-> "opening", set |-> 0]
ConnType == [st : {"closed", "opening", "idle", "busy"}, set : 0..SessionSize]

\* from is history: the generation of the provider that gave the names, 0 for a
\* MemDB that was asked directly.
NameType == [q : Queries, version : 0..MaxVersion, from : 0..MaxGeneration]
TaskType ==
    [pc      : {"idle", "acquire", "rows", "prepare", "scope", "peek", "acquire2",
                "describe", "put", "step", "done"},
     gen     : 0..MaxGeneration,
     q       : Queries,
     direct  : BOOLEAN,                       \* not through a provider
     waiting : BOOLEAN,                       \* the caller has not dropped its future
     conn    : 0..PoolSize,                   \* the connection it holds, or 0
     row     : 0..NoRow,
     names   : NameType,
     out     : {"none", "rows", "error", "cancelled"}]

\* What a query names its columns: the schema says, or the text alone does.
NamesAt(q, version, from) ==
    [q |-> q, version |-> IF q \in Starred THEN version ELSE 0, from |-> from]

\* The SET statements that after_connect runs on a connection.
Session(g) == IF provider[g].kind = "postgres" THEN SessionSize ELSE 0

NoTask == [pc |-> "idle", gen |-> 0, q |-> CHOOSE q \in Queries : TRUE, direct |-> FALSE,
           waiting |-> FALSE, conn |-> 0, row |-> NoRow,
           names |-> NamesAt(CHOOSE q \in Queries : TRUE, 0, 0), out |-> "none"]

Init ==
    /\ slot = 0
    /\ provider = [g \in Generations |-> [kind |-> NoKind, since |-> 0]]
    /\ load = [pc |-> "idle", gen |-> 0]
    /\ pool = [g \in Generations |-> [c \in Connections |-> Closed]]
    /\ task = [t \in Tasks |-> NoTask]
    /\ colNames = <<>>
    /\ schema = 0

-----------------------------------------------------------------------------
(***************************************************************************)
(* Who keeps a provider                                                    *)
(***************************************************************************)

\* Mutant: a provider goes when it is replaced, whoever still waits for it.
AliveInSlotOnly(g) == slot = g \/ (load.pc # "idle" /\ load.gen = g)

\* A provider lives in the slot, in its load, and in the calls that wait for an
\* answer: a spawned task holds the pool but not the provider.
Alive(g) ==
    \/ slot = g
    \/ load.pc # "idle" /\ load.gen = g
    \/ \E t \in Tasks : task[t].waiting /\ ~task[t].direct /\ task[t].gen = g

\* Drop shuts the runtime down: what was waiting for the server is dropped.
Runs(t) == task[t].direct \/ Alive(task[t].gen)

Kind(t) == IF task[t].direct THEN "sqlite" ELSE provider[task[t].gen].kind

-----------------------------------------------------------------------------
(***************************************************************************)
(* Loading a provider                                                      *)
(***************************************************************************)

Taken == {g \in Generations : provider[g].kind # NoKind}

Begins(kind, pc) ==
    \E g \in Generations \ Taken :
        /\ load.pc = "idle"
        /\ \A h \in Generations : h < g => h \in Taken
        /\ \E plan \in Plans :
             plan[g] = kind /\ \A h \in Taken : plan[h] = provider[h].kind
        /\ provider' = [provider EXCEPT ![g] = [kind |-> kind, since |-> schema]]
        /\ load' = [pc |-> pc, gen |-> g]
        /\ UNCHANGED <<slot, task, colNames, schema>>

\* PostgresProvider::connect, MySqlProvider::connect
ConnectPostgres == Begins("postgres", "connect") /\ UNCHANGED pool
ConnectMySql == Begins("mysql", "connect") /\ UNCHANGED pool

\* MemDB: one connection, there from the start.
OpenMemDB ==
    /\ Begins("sqlite", "install")
    /\ pool' = [pool EXCEPT ![load'.gen][1] = [st |-> "idle", set |-> 0]]

\* opts.connect has its first connection.
PoolReady ==
    /\ load.pc = "connect"
    /\ \E c \in Connections : pool[load.gen][c].st = "idle"
    /\ load' = [load EXCEPT !.pc = "validate"]
    /\ UNCHANGED <<slot, provider, pool, task, colNames, schema>>

\* SELECT 1, and for PostgreSQL every current_setting is as expected.
ValidateStartup ==
    /\ load.pc = "validate"
    /\ \E c \in Connections : pool[load.gen][c] = [st |-> "idle", set |-> Session(load.gen)]
    /\ load' = [load EXCEPT !.pc = "install"]
    /\ UNCHANGED <<slot, provider, pool, task, colNames, schema>>

\* No thread, no runtime, no connection in time, or a failed validation: the
\* runtime and its pool are dropped, the slot keeps what it has.
ConnectFails ==
    /\ load.pc \in {"connect", "validate"}
    /\ load' = [pc |-> "idle", gen |-> 0]
    /\ pool' = [pool EXCEPT ![load.gen] = [c \in Connections |-> Closed]]
    /\ UNCHANGED <<slot, provider, task, colNames, schema>>

\* install_provider; see ProviderRegistry for its steps.
Install ==
    /\ load.pc = "install"
    /\ slot' = load.gen
    /\ load' = [pc |-> "idle", gen |-> 0]
    /\ UNCHANGED <<provider, pool, task, colNames, schema>>

-----------------------------------------------------------------------------
(***************************************************************************)
(* Connections                                                             *)
(***************************************************************************)

Wanted(g) ==
    \/ load = [pc |-> "connect", gen |-> g]
    \/ load = [pc |-> "validate", gen |-> g]
    \/ \E t \in Tasks : task[t].gen = g /\ task[t].pc \in {"acquire", "acquire2"} /\ Runs(t)

ServerPool(g) == provider[g].kind \in {"postgres", "mysql"}

\* The pool dials: at the start, after an idle or broken connection was closed.
Dial(g, c) ==
    /\ ServerPool(g) /\ Wanted(g)
    /\ pool[g][c].st = "closed"
    /\ \A d \in Connections : pool[g][d].st \notin {"idle", "opening"}
    /\ pool' = [pool EXCEPT ![g][c] = Opening]
    /\ UNCHANGED <<slot, provider, load, task, colNames, schema>>

\* One SET of after_connect.
ApplySet(g, c) ==
    /\ pool[g][c].st = "opening" /\ pool[g][c].set < Session(g)
    /\ pool' = [pool EXCEPT ![g][c].set = @ + 1]
    /\ UNCHANGED <<slot, provider, load, task, colNames, schema>>

\* Mutant: after_connect only runs for the connections of the startup.
EntersPoolUnset(g, c) == pool[g][c].set = Session(g) \/ load.gen # g

\* A new connection is handed out only when after_connect has returned Ok.
EntersPool(g, c) == pool[g][c].set = Session(g)

Connected(g, c) ==
    /\ pool[g][c].st = "opening" /\ EntersPool(g, c)
    /\ pool' = [pool EXCEPT ![g][c].st = "idle"]
    /\ UNCHANGED <<slot, provider, load, task, colNames, schema>>

\* Dialling or a SET fails; an idle connection breaks, times out or is too old;
\* the pool of a provider that was dropped closes.
Close(g, c) ==
    /\ ServerPool(g)
    /\ pool[g][c].st \in {"opening", "idle"}
    /\ pool' = [pool EXCEPT ![g][c] = Closed]
    /\ UNCHANGED <<slot, provider, load, task, colNames, schema>>

-----------------------------------------------------------------------------
(***************************************************************************)
(* Calls                                                                   *)
(***************************************************************************)

Call(t, q) ==
    /\ task[t].pc = "idle"
    /\ task' = [task EXCEPT ![t] =
                  [NoTask EXCEPT !.pc = "acquire", !.gen = slot, !.q = q, !.waiting = TRUE]]
    /\ UNCHANGED <<slot, provider, load, pool, colNames, schema>>

\* query, query_row, query_fields, query_named_fields and their async forms
CallPostgres(t, q) == slot # 0 /\ provider[slot].kind = "postgres" /\ Call(t, q)
CallMySql(t, q) == slot # 0 /\ provider[slot].kind = "mysql" /\ Call(t, q)
CallSqlite(t, q) == slot # 0 /\ provider[slot].kind = "sqlite" /\ Call(t, q)

\* DBQuery for MemDB (query, query_row, query_row_params): any SQL, of a MemDB
\* that is not asked as a provider, and without a scope, as reload_table_rows
\* asks the table it has just loaded.
CallUnscoped(t, q) ==
    /\ task[t].pc = "idle"
    /\ task' = [task EXCEPT ![t] =
                  [NoTask EXCEPT !.pc = "prepare", !.q = q, !.direct = TRUE, !.waiting = TRUE]]
    /\ UNCHANGED <<slot, provider, load, pool, colNames, schema>>

Ends(t, out) == [task[t] EXCEPT !.pc = "done", !.conn = 0, !.out = out]

\* Gives back the connection task t holds, as `conn`.
Released(t, conn) ==
    IF task[t].conn = 0 THEN pool ELSE [pool EXCEPT ![task[t].gen][task[t].conn] = conn]
Idle(t) == [pool[task[t].gen][task[t].conn] EXCEPT !.st = "idle"]

Acquire(t) ==
    /\ task[t].pc \in {"acquire", "acquire2"} /\ Runs(t)
    /\ \E c \in Connections :
         /\ pool[task[t].gen][c].st = "idle"
         /\ pool' = [pool EXCEPT ![task[t].gen][c].st = "busy"]
         /\ task' = [task EXCEPT
              ![t].conn = c,
              ![t].pc = IF Kind(t) = "sqlite" THEN "prepare"
                        ELSE IF @ = "acquire2" THEN "describe" ELSE "rows"]
    /\ UNCHANGED <<slot, provider, load, colNames, schema>>

\* acquire_timeout is over, or the pool's get() gives up.
AcquireTimeout(t) ==
    /\ task[t].pc \in {"acquire", "acquire2"} /\ Runs(t)
    /\ task' = [task EXCEPT ![t] = Ends(t, "error")]
    /\ UNCHANGED <<slot, provider, load, pool, colNames, schema>>

\* fetch_all, fetch_optional: rows of the schema of now, or none.
FetchRows(t) ==
    /\ task[t].pc = "rows" /\ Runs(t)
    /\ \E row \in {schema, NoRow} : task' = [task EXCEPT ![t].pc = "peek", ![t].row = row, ![t].conn = 0]
    /\ pool' = Released(t, Idle(t))
    /\ UNCHANGED <<slot, provider, load, colNames, schema>>

\* Mutant: a failed query keeps its connection.
QueryFailsHolding(t) ==
    /\ task[t].pc \in {"rows", "describe", "prepare", "step"} /\ Runs(t)
    /\ task' = [task EXCEPT ![t] = Ends(t, "error")]
    /\ UNCHANGED <<slot, provider, load, pool, colNames, schema>>

\* The query, the describe or the statement fails, with the connection or
\* without it.
QueryFails(t) ==
    /\ task[t].pc \in {"rows", "describe", "prepare", "step"} /\ Runs(t)
    /\ task' = [task EXCEPT ![t] = Ends(t, "error")]
    /\ pool' \in {Released(t, Idle(t))}
                   \cup (IF Kind(t) = "sqlite" THEN {} ELSE {Released(t, Closed)})
    /\ UNCHANGED <<slot, provider, load, colNames, schema>>

\* No row to take the names from: pool.describe.
Describe(t) ==
    /\ task[t].pc = "describe" /\ Runs(t)
    /\ task' = [task EXCEPT ![t].pc = "put", ![t].conn = 0,
                            ![t].names = NamesAt(task[t].q, schema, task[t].gen)]
    /\ pool' = Released(t, Idle(t))
    /\ UNCHANGED <<slot, provider, load, colNames, schema>>

\* SQLite: the statement knows its columns before it runs.  prepare_cached takes
\* one that the connection has kept, if there is one: until it runs, it has the
\* columns of the schema it was compiled under, also one from before the load.
Prepare(t) ==
    /\ task[t].pc = "prepare"
    /\ \E version \in 0..schema :
         task' = [task EXCEPT
              ![t].pc = IF task[t].direct THEN "scope" ELSE "peek",
              ![t].names = NamesAt(task[t].q, version, IF task[t].direct THEN 0 ELSE task[t].gen)]
    /\ UNCHANGED <<slot, provider, load, pool, colNames, schema>>

\* runtime().current_metadata_scope()
ReadScope(t) ==
    /\ task[t].pc = "scope"
    /\ task' = [task EXCEPT ![t].pc = "peek", ![t].gen = slot]
    /\ UNCHANGED <<slot, provider, load, pool, colNames, schema>>

SqliteRow(t) ==
    /\ task[t].pc = "step"
    /\ \E row \in {schema, NoRow} :
         task' = [task EXCEPT ![t] = [Ends(t, "rows") EXCEPT !.row = row]]
    /\ pool' = Released(t, Idle(t))
    /\ UNCHANGED <<slot, provider, load, colNames, schema>>

-----------------------------------------------------------------------------
(***************************************************************************)
(* The column metadata cache                                               *)
(***************************************************************************)

\* Mutant: the scope is that of the default provider at the time.
KeyOfCurrentScope(t) == [gen |-> slot, q |-> task[t].q]

\* metadata_cache_key_for_scope: the datasource goes with the generation.
Key(t) == [gen |-> task[t].gen, q |-> task[t].q]

Entries(key) == {i \in 1..Len(colNames) : colNames[i].key = key}

\* With the names known the rows are mapped; SQLite runs its statement first.
Mapped(t) == IF Kind(t) = "sqlite" THEN [task[t] EXCEPT !.pc = "step"] ELSE Ends(t, "rows")

PeekHit(t) ==
    /\ task[t].pc = "peek"
    /\ \E i \in Entries(Key(t)) :
         task' = [task EXCEPT ![t] = [Mapped(t) EXCEPT !.names = colNames[i].names]]
    /\ UNCHANGED <<slot, provider, load, pool, colNames, schema>>

\* load(): the names are the statement's or the first row's, or must be asked for.
PeekMiss(t) ==
    /\ task[t].pc = "peek"
    /\ Entries(Key(t)) = {}
    /\ task' = [task EXCEPT ![t] =
         IF Kind(t) = "sqlite" THEN [@ EXCEPT !.pc = "put"]
         ELSE IF task[t].row # NoRow
           THEN [@ EXCEPT !.pc = "put", !.names = NamesAt(task[t].q, task[t].row, task[t].gen)]
           ELSE [@ EXCEPT !.pc = "acquire2"]]
    /\ UNCHANGED <<slot, provider, load, pool, colNames, schema>>

\* LruCache::put; peek does not count as a use.  A key has one entry.
Stored(key, names) ==
    LET kept == IF Entries(key) = {} THEN colNames
                ELSE RemoveAt(colNames, CHOOSE i \in Entries(key) : TRUE)
    IN  (IF Len(kept) = NamesCap THEN Tail(kept) ELSE kept) \o <<[key |-> key, names |-> names]>>

PutNames(t) ==
    /\ task[t].pc = "put"
    /\ colNames' = Stored(Key(t), task[t].names)
    /\ task' = [task EXCEPT ![t] = Mapped(t)]
    /\ UNCHANGED <<slot, provider, load, pool, schema>>

-----------------------------------------------------------------------------
(***************************************************************************)
(* Ends                                                                    *)
(***************************************************************************)

\* The caller of an async form drops its future; the spawned task goes on.  The
\* sync forms block, and SQLite runs on the caller's thread.
Abandon(t) ==
    /\ task[t].waiting /\ task[t].pc # "done" /\ Kind(t) # "sqlite"
    /\ task' = [task EXCEPT ![t].waiting = FALSE]
    /\ UNCHANGED <<slot, provider, load, pool, colNames, schema>>

\* The runtime is shut down under the task; a caller would get a join error.
Cancel(t) ==
    /\ task[t].pc \notin {"idle", "done"} /\ ~Runs(t)
    /\ task' = [task EXCEPT ![t] = Ends(t, "cancelled")]
    /\ pool' = Released(t, Closed)
    /\ UNCHANGED <<slot, provider, load, colNames, schema>>

\* run_task, block_on_task: the outcome reaches the caller, if there is one.
Return(t) ==
    /\ task[t].pc = "done"
    /\ task' = [task EXCEPT ![t] = NoTask]
    /\ UNCHANGED <<slot, provider, load, pool, colNames, schema>>

\* External: somebody alters a table.
SchemaChanges ==
    /\ schema < MaxVersion
    /\ schema' = schema + 1
    /\ UNCHANGED <<slot, provider, load, pool, task, colNames>>

-----------------------------------------------------------------------------
LoadStep ==
    \/ ConnectPostgres \/ ConnectMySql \/ OpenMemDB
    \/ PoolReady \/ ValidateStartup \/ ConnectFails \/ Install

PoolStep ==
    \E g \in Generations, c \in Connections :
        Dial(g, c) \/ ApplySet(g, c) \/ Connected(g, c) \/ Close(g, c)

Ask(t) ==
    \E q \in Queries :
        CallPostgres(t, q) \/ CallMySql(t, q) \/ CallSqlite(t, q) \/ CallUnscoped(t, q)

\* The steps of a call and of the task spawned for it.
TaskStep(t) ==
    \/ Acquire(t) \/ AcquireTimeout(t)
    \/ FetchRows(t) \/ QueryFails(t) \/ Describe(t)
    \/ Prepare(t) \/ ReadScope(t) \/ SqliteRow(t)
    \/ PeekHit(t) \/ PeekMiss(t) \/ PutNames(t)
    \/ Cancel(t) \/ Return(t)

Next ==
    \/ LoadStep \/ PoolStep \/ SchemaChanges
    \/ \E t \in Tasks : Ask(t) \/ TaskStep(t) \/ Abandon(t)

Spec == Init /\ [][Next]_vars

-----------------------------------------------------------------------------
(***************************************************************************)
(* Properties                                                              *)
(***************************************************************************)

\* Records, pools and cache keep their types, and COLNAME_CACHE its capacity.
TypeOK ==
    /\ slot \in 0..MaxGeneration
    /\ provider \in [Generations -> [kind : Kinds \cup {NoKind}, since : 0..MaxVersion]]
    /\ load \in [pc : {"idle", "connect", "validate", "install"}, gen : 0..MaxGeneration]
    /\ pool \in [Generations -> [Connections -> ConnType]]
    /\ task \in [Tasks -> TaskType]
    /\ colNames \in Seq([key : [gen : 0..MaxGeneration, q : Queries], names : NameType])
    /\ Len(colNames) <= NamesCap
    /\ schema \in 0..MaxVersion

\* A call's rows are never labelled with the names of another query, nor with
\* those another provider or generation gave, whatever abandoned tasks and
\* replaced providers put into COLNAME_CACHE meanwhile; and names that a
\* PostgreSQL or MySQL provider gave are not from before it was loaded.  (More
\* does not hold: a MemDB asked directly leaves its names under the scope of the
\* moment, where the provider's calls of the same text find them, and a
\* statement which SQLite has kept can have the columns from before the load.)
RowsLabelledInGeneration ==
    \A t \in Tasks :
        LET r == task[t]
        IN  r.pc = "done" /\ r.out = "rows" /\ r.row # NoRow
              => /\ r.names.q = r.q
                 /\ r.names.from \in {0, r.gen}
                 /\ r.q \in Starred /\ r.names.from # 0 /\ ServerPool(r.names.from)
                      => r.names.version >= provider[r.names.from].since

\* No query runs on a connection that lacks a setting of [postgres_session],
\* also not on one that replaces a lost or recycled connection.
SessionOnEveryQuery ==
    \A t \in Tasks :
        task[t].conn # 0 => pool[task[t].gen][task[t].conn].set = Session(task[t].gen)

\* No connection leaks: a busy one is held by exactly one task, whatever failed,
\* was abandoned or cancelled.
ConnectionsReturned ==
    \A g \in Generations, c \in Connections :
        LET holders == {t \in Tasks : task[t].gen = g /\ task[t].conn = c}
        IN  Cardinality(holders) = IF pool[g][c].st = "busy" THEN 1 ELSE 0

\* With the types of providers, pools, tasks and of COLNAME_CACHE (never past
\* its capacity).
PoolsInv == TypeOK /\ ConnectionsReturned

\* Replacing a provider does not disturb the calls it is answering: no caller is
\* told that its task was cancelled.
NoCancelledAnswer ==
    \A t \in Tasks : task[t].waiting => task[t].out # "cancelled"
=============================================================================
