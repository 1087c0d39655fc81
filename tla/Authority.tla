------------------------------ MODULE Authority -----------------------------
(***************************************************************************)
(* The authority database file (loader.rs) and the private copies that     *)
(* threads take of it (mem/thread_clone.rs).                               *)
(*                                                                         *)
(* A writer loads tables from their data files: all of them when a local   *)
(* configuration is loaded, which ends by installing a provider of a new   *)
(* generation; or one table when the refresh service reloads it, which     *)
(* ends by selecting its rows.  A table is cleaned, then filled in several *)
(* transactions, and every step may fail and leave what was committed.     *)
(*                                                                         *)
(* A thread keeps one copy, labelled with the generation of the provider   *)
(* it was made for, and makes a new one when a query comes with another.   *)
(*                                                                         *)
(* The rows of a table are the parts its data file is committed in, named  *)
(* by the version of the file they are from.                               *)
(***************************************************************************)
EXTENDS Naturals, Sequences, FiniteSets

CONSTANTS
    Writers,        \* threads that load or refresh
    Threads,        \* threads that query
    Tables,         \* the enabled tables of the configuration, in order
    Parts,          \* commits a data file is loaded in (batch_size)
    MaxVersion,     \* bound on the changes of a data file
    MaxGeneration   \* bound on the loads

Names == {Tables[k] : k \in 1 .. Len(Tables)}

ASSUME AuthorityBounds ==
    /\ Tables # << >> /\ Tables \in Seq(Names)
    /\ Parts \in Nat \ {0} /\ MaxVersion \in Nat \ {0} /\ MaxGeneration \in Nat

VARIABLES
    source,     \* table -> version of its data file
    file,       \* the authority: table -> the parts it holds
    generation, \* of the installed provider, 0 for none
    built,      \* history: generation -> table -> version its load read
    wpc,        \* what each writer does next
    wtodo,      \* the tables it has still to load
    wload,      \* whether it loads the configuration
    wvers,      \* table -> version it opened
    wcount,     \* parts committed of the present table
    wrows,      \* what its reload returned
    wbegan,     \* history: version of that table when the reload began
    broken,     \* history: tables whose last writer failed after cleaning
    copy,       \* TLS_DB: the copy of each thread
    qpc,        \* what each thread does next
    qgen        \* generation of the provider its query captured

writerVars == <<wpc, wtodo, wload, wvers, wcount, wrows, wbegan>>
threadVars == <<copy, qpc, qgen>>
vars == <<source, file, generation, built, writerVars, broken, threadVars>>

Part(v, k) == [version |-> v, part |-> k]

\* All parts of one version, each once.
Whole(rows) == \E v \in 1 .. MaxVersion : rows = [k \in 1 .. Parts |-> Part(v, k)]

\* A thread that has no copy has one of generation 0.
NoCopy == [generation |-> 0, data |-> [t \in Names |-> << >>], loading |-> {}, broken |-> {}]

Init ==
    /\ source = [t \in Names |-> 1]
    /\ file = [t \in Names |-> << >>]
    /\ generation = 0
    /\ built = [g \in 0 .. MaxGeneration |-> [t \in Names |-> 0]]
    /\ wpc = [w \in Writers |-> "idle"]
    /\ wtodo = [w \in Writers |-> << >>]
    /\ wload = [w \in Writers |-> FALSE]
    /\ wvers = [w \in Writers |-> [t \in Names |-> 0]]
    /\ wcount = [w \in Writers |-> 0]
    /\ wrows = [w \in Writers |-> << >>]
    /\ wbegan = [w \in Writers |-> 0]
    /\ broken = {}
    /\ copy = [x \in Threads |-> NoCopy]
    /\ qpc = [x \in Threads |-> "idle"]
    /\ qgen = [x \in Threads |-> 0]

-----------------------------------------------------------------------------
(***************************************************************************)
(* Writers                                                                 *)
(***************************************************************************)

Goes(w, label) == wpc' = [wpc EXCEPT ![w] = label]

Present(w) == Head(wtodo[w])

Begins(w, tables, isLoad) ==
    /\ wpc[w] \in {"idle", "returned"}
    /\ wtodo' = [wtodo EXCEPT ![w] = tables]
    /\ wload' = [wload EXCEPT ![w] = isLoad]
    /\ wrows' = [wrows EXCEPT ![w] = << >>]
    /\ wbegan' = [wbegan EXCEPT ![w] = IF isLoad THEN 0 ELSE source[Head(tables)]]
    /\ Goes(w, "clean")

\* The call returns; its locals are gone.
Ends(w, label) ==
    /\ Goes(w, label)
    /\ wtodo' = [wtodo EXCEPT ![w] = << >>]
    /\ wload' = [wload EXCEPT ![w] = FALSE]
    /\ wvers' = [wvers EXCEPT ![w] = [t \in Names |-> 0]]
    /\ wcount' = [wcount EXCEPT ![w] = 0]

\* build_authority_from_knowdb, called by init_thread_cloned_from_knowdb.
BeginLoad(w) ==
    /\ generation < MaxGeneration
    /\ Begins(w, Tables, TRUE)
    /\ UNCHANGED <<source, file, generation, built, wvers, wcount, broken>>

\* reload_table_rows, called by the refresh service.
BeginReload(w, t) ==
    /\ Begins(w, <<t>>, FALSE)
    /\ UNCHANGED <<source, file, generation, built, wvers, wcount, broken>>

\* Mutant: the table is not cleaned.
CleanNothing(w) ==
    /\ wpc[w] = "clean"
    /\ Goes(w, "open")
    /\ UNCHANGED <<source, file, generation, built, wtodo, wload, wvers, wcount,
                   wrows, wbegan, broken>>

\* load_one_table: create.sql and clean.sql, committed before anything else.
Clean(w) ==
    /\ wpc[w] = "clean"
    /\ file' = [file EXCEPT ![Present(w)] = << >>]
    /\ Goes(w, "open")
    /\ UNCHANGED <<source, generation, built, wtodo, wload, wvers, wcount, wrows,
                   wbegan, broken>>

\* The data file is there, is UTF-8 and has the columns.
Open(w) ==
    /\ wpc[w] = "open"
    /\ wvers' = [wvers EXCEPT ![w][Present(w)] = source[Present(w)]]
    /\ wcount' = [wcount EXCEPT ![w] = 0]
    /\ Goes(w, "insert")
    /\ UNCHANGED <<source, file, generation, built, wtodo, wload, wrows, wbegan, broken>>

\* A batch is full, or the file is at its end: the transaction commits.
CommitBatch(w) ==
    /\ wpc[w] = "insert"
    /\ wcount[w] < Parts
    /\ LET t == Present(w)
       IN  file' = [file EXCEPT ![t] = Append(file[t], Part(wvers[w][t], wcount[w] + 1))]
    /\ wcount' = [wcount EXCEPT ![w] = wcount[w] + 1]
    /\ UNCHANGED <<source, generation, built, wpc, wtodo, wload, wvers, wrows, wbegan,
                   broken>>

\* Mutant: the last batch is not waited for.
TableDoneEarly(w) ==
    /\ wpc[w] = "insert"
    /\ wcount[w] + 1 >= Parts
    /\ wtodo' = [wtodo EXCEPT ![w] = IF Len(wtodo[w]) = 1 THEN wtodo[w] ELSE Tail(wtodo[w])]
    /\ Goes(w, IF Len(wtodo[w]) > 1 THEN "clean" ELSE IF wload[w] THEN "install" ELSE "select")
    /\ broken' = broken \ {Present(w)}
    /\ UNCHANGED <<source, file, generation, built, wload, wvers, wcount, wrows, wbegan>>

\* The table has at least its minimum of rows; on to the next one, or to the end.
TableDone(w) ==
    /\ wpc[w] = "insert"
    /\ wcount[w] = Parts
    /\ wtodo' = [wtodo EXCEPT ![w] = IF Len(wtodo[w]) = 1 THEN wtodo[w] ELSE Tail(wtodo[w])]
    /\ Goes(w, IF Len(wtodo[w]) > 1 THEN "clean" ELSE IF wload[w] THEN "install" ELSE "select")
    /\ broken' = broken \ {Present(w)}
    /\ UNCHANGED <<source, file, generation, built, wload, wvers, wcount, wrows, wbegan>>

\* A file is missing, a statement fails, a record is bad (the open batch is
\* rolled back), or the rows are too few: the error leaves the whole call.
Fails(w) ==
    /\ wpc[w] \in {"clean", "open", "insert", "select"}
    /\ broken' = IF wpc[w] \in {"open", "insert"} THEN broken \cup {Present(w)} ELSE broken
    /\ Ends(w, "idle")
    /\ UNCHANGED <<source, file, generation, built, wrows, wbegan>>

\* init_thread_cloned_from_authority: nothing is copied yet.
Install(w) ==
    /\ wpc[w] = "install"
    /\ generation < MaxGeneration
    /\ generation' = generation + 1
    /\ built' = [built EXCEPT ![generation + 1] = wvers[w]]
    /\ Ends(w, "idle")
    /\ UNCHANGED <<source, file, wrows, wbegan, broken>>

\* The end of reload_table_rows: SELECT ... FROM the table.
Select(w) ==
    /\ wpc[w] = "select"
    /\ wrows' = [wrows EXCEPT ![w] = file[Present(w)]]
    /\ Ends(w, "returned")
    /\ UNCHANGED <<source, file, generation, built, wbegan, broken>>

WriterStep(w) ==
    \/ BeginLoad(w) \/ (\E t \in Names : BeginReload(w, t))
    \/ Clean(w) \/ Open(w) \/ CommitBatch(w) \/ TableDone(w) \/ Fails(w)
    \/ Install(w) \/ Select(w)

-----------------------------------------------------------------------------
(***************************************************************************)
(* Threads and data files                                                  *)
(***************************************************************************)

\* A query gets the installed provider.
Capture(x) ==
    /\ qpc[x] # "conn"
    /\ generation # 0
    /\ qgen' = [qgen EXCEPT ![x] = generation]
    /\ qpc' = [qpc EXCEPT ![x] = "conn"]
    /\ UNCHANGED copy

\* Mutant: any copy will do.
CurrentIfAny(x) == copy[x].generation # 0

\* should_rebuild says no.
Current(x) == copy[x].generation = qgen[x]

\* with_tls_conn answers from the copy there is.
Reuse(x) ==
    /\ qpc[x] = "conn"
    /\ Current(x)
    /\ qpc' = [qpc EXCEPT ![x] = "done"]
    /\ UNCHANGED <<copy, qgen>>

\* History: tables that a writer has cleaned and not yet filled.
Loading == {Present(w) : w \in {v \in Writers : wpc[v] \in {"open", "insert"}}}

\* The backup copies what is committed; it starts again when a writer commits
\* while it runs.
Rebuild(x) ==
    /\ qpc[x] = "conn"
    /\ ~ Current(x)
    /\ copy' = [copy EXCEPT ![x] = [generation |-> qgen[x], data |-> file,
                                     loading |-> Loading, broken |-> broken]]
    /\ qpc' = [qpc EXCEPT ![x] = "done"]
    /\ UNCHANGED qgen

\* The file cannot be opened or copied: the old copy stays.
RebuildFails(x) ==
    /\ qpc[x] = "conn"
    /\ ~ Current(x)
    /\ qpc' = [qpc EXCEPT ![x] = "idle"]
    /\ UNCHANGED <<copy, qgen>>

ThreadStep(x) == Capture(x) \/ Reuse(x) \/ Rebuild(x) \/ RebuildFails(x)

\* A data file is replaced by a newer one.
SourceChanges(t) ==
    /\ source[t] < MaxVersion
    /\ source' = [source EXCEPT ![t] = source[t] + 1]

Next ==
    \/ \E w \in Writers : WriterStep(w) /\ UNCHANGED threadVars
    \/ \E x \in Threads :
         ThreadStep(x) /\ UNCHANGED <<source, file, generation, built, writerVars, broken>>
    \/ \E t \in Names :
         /\ SourceChanges(t)
         /\ UNCHANGED <<file, generation, built, writerVars, broken, threadVars>>

Spec == Init /\ [][Next]_vars

-----------------------------------------------------------------------------
(***************************************************************************)
(* Properties                                                              *)
(***************************************************************************)

Rows == Seq([version : Nat, part : Nat])

\* Types of the files, the writers and the threads.
TypeOK ==
    /\ source \in [Names -> Nat]
    /\ file \in [Names -> Rows]
    /\ generation \in 0 .. MaxGeneration
    /\ built \in [0 .. MaxGeneration -> [Names -> Nat]]
    /\ wpc \in [Writers -> {"idle", "clean", "open", "insert", "install", "select",
                            "returned"}]
    /\ wtodo \in [Writers -> Seq(Names)]
    /\ wload \in [Writers -> BOOLEAN]
    /\ wvers \in [Writers -> [Names -> Nat]]
    /\ wcount \in [Writers -> 0 .. Parts]
    /\ wrows \in [Writers -> Rows]
    /\ wbegan \in [Writers -> Nat]
    /\ broken \subseteq Names
    /\ copy \in [Threads -> [generation : Nat, data : [Names -> Rows],
                             loading : SUBSET Names, broken : SUBSET Names]]
    /\ qpc \in [Threads -> {"idle", "conn", "done"}]
    /\ qgen \in [Threads -> Nat]

\* Writers one at a time: whatever a thread answers under a generation is not
\* older than what the load of that generation read, although the copy is made
\* later, of a file other calls go on changing (provider-cache.md:130).
ReloadIsSeen ==
    \A x \in Threads : qpc[x] = "done" =>
        \A t \in Names : \A k \in 1 .. Len(copy[x].data[t]) :
            copy[x].data[t][k].version >= built[qgen[x]][t]

\* Writers one at a time: a copy holds every table as one whole version, but
\* for the tables that were being loaded when it was made or that the last
\* load left broken.
CopiesWhole ==
    \A x \in Threads : copy[x].generation # 0 =>
        \A t \in Names \ (copy[x].loading \cup copy[x].broken) : Whole(copy[x].data[t])

\* With the types of file, copies, writers and threads.
CopiesInv == TypeOK /\ CopiesWhole

\* Writers one at a time: what the refresh service gets is one whole version,
\* not older than the data file was when the reload began.  Refresh takes a
\* reload to be one read of its source; this is why it may.
ReloadReturnsSource ==
    \A w \in Writers : wpc[w] = "returned" =>
        Whole(wrows[w]) /\ wrows[w][1].version >= wbegan[w]

\* provider-cache.md:131: "reload failure must keep the old provider alive;
\* runtime must not enter a half-initialized state": a table that nobody is
\* loading is whole in every copy, after a failed load too.
FailedLoadKeepsData ==
    \A x \in Threads : copy[x].generation # 0 =>
        \A t \in Names \ copy[x].loading : Whole(copy[x].data[t])
=============================================================================
