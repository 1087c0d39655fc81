--------------------------- MODULE AuthorityProofs --------------------------
(***************************************************************************)
(* Proofs about Authority, the authority file with the copies threads take *)
(* of it, for any tables, batches, threads and bounds and for writers that *)
(* come one at a time.                                                     *)
(***************************************************************************)
EXTENDS Authority, TLAPS, SequenceTheorems, FiniteSetTheorems

\* Loads and refreshes do not overlap: there is one that writes.
OneWriter == \A v, w \in Writers : v = w

\* The first n parts of a version, each once.
Filled(v, n) == [k \in 1 .. n |-> Part(v, k)]

Active == {"clean", "open", "insert", "install", "select"}

\* Table t has still to be loaded, or is being loaded.
Left(w, t) == \E j \in 1 .. Len(wtodo[w]) : wtodo[w][j] = t

\* Data files only get newer, and all loads have read what has been in them.
SourceOK ==
    \A t \in Names : /\ source[t] \in 1 .. MaxVersion
                     /\ \A g \in 0 .. MaxGeneration : built[g][t] <= source[t]

\* The file holds nothing older than what the loads of all generations read,
\* and since the first of them every table nobody works on is whole.
FileOK ==
    /\ \A g \in 0 .. MaxGeneration, t \in Names : \A k \in 1 .. Len(file[t]) :
          built[g][t] <= file[t][k].version
    /\ generation # 0 => \A t \in Names \ (Loading \cup broken) : Whole(file[t])

\* The table the writer works on.
PresentOK(w) ==
    LET t == Present(w)
    IN  /\ wpc[w] \in {"clean", "open"} => wbegan[w] <= source[t]
        /\ wpc[w] = "open" => file[t] = << >>
        /\ wpc[w] = "insert" => file[t] = Filled(wvers[w][t], wcount[w])
        /\ wpc[w] = "select" => file[t] = Filled(wvers[w][t], Parts)
        /\ wpc[w] \in {"insert", "select"} =>
             /\ wvers[w][t] \in 1 .. MaxVersion /\ wbegan[w] <= wvers[w][t]
             /\ \A g \in 0 .. MaxGeneration : built[g][t] <= wvers[w][t]

\* The call the writer is in: a load has filled every table it has left behind.
WriterOK(w) ==
    /\ wpc[w] \in Active =>
         /\ wtodo[w] # << >>
         /\ IF wload[w] THEN wbegan[w] = 0 ELSE Len(wtodo[w]) = 1
    /\ wpc[w] \in {"clean", "open", "insert"} /\ wload[w] =>
         \A t \in Names : Left(w, t) \/ Whole(file[t])
    /\ wpc[w] = "install" => \A t \in Names : Whole(file[t])
    /\ \A t \in Names :
         /\ wvers[w][t] <= source[t]
         /\ \A k \in 1 .. Len(file[t]) : wvers[w][t] <= file[t][k].version
    /\ PresentOK(w)
    /\ wpc[w] = "returned" => Whole(wrows[w]) /\ wbegan[w] <= wrows[w][1].version

\* A copy is of a generation that has been, and not older than its load.
ThreadOK(x) ==
    /\ copy[x].generation <= generation /\ qgen[x] <= generation
    /\ qpc[x] = "conn" => qgen[x] # 0
    /\ qpc[x] = "done" => copy[x].generation = qgen[x]
    /\ copy[x].generation # 0 =>
         \A t \in Names \ (copy[x].loading \cup copy[x].broken) : Whole(copy[x].data[t])
    /\ \A t \in Names : \A k \in 1 .. Len(copy[x].data[t]) :
          built[copy[x].generation][t] <= copy[x].data[t][k].version

\* The inductive invariant, for one writer.
AuthorityIInv ==
    /\ TypeOK /\ SourceOK /\ FileOK
    /\ \A w \in Writers : WriterOK(w)
    /\ \A x \in Threads : ThreadOK(x)

-----------------------------------------------------------------------------
(***************************************************************************)
(* Rows                                                                    *)
(***************************************************************************)

LEMMA FilledFacts ==
    ASSUME NEW v \in Nat, NEW n \in Nat
    PROVE  /\ Filled(v, n) \in Rows /\ Len(Filled(v, n)) = n
           /\ \A k \in 1 .. n : Filled(v, n)[k].version = v
  <1> DEFINE S == [version : Nat, part : Nat]
  <1>1. \A k \in 1 .. n : Part(v, k) \in S /\ Part(v, k).version = v
    BY DEF Part
  <1> HIDE DEF S
  <1>2. Filled(v, n) \in [1 .. n -> S]
    BY <1>1 DEF Filled
  <1>3. Filled(v, n) \in Seq(S)
    BY <1>2, SeqDef
  <1>4. Len(Filled(v, n)) = n
    BY <1>2, <1>3, LenProperties
  <1> QED
    BY <1>1, <1>3, <1>4 DEF Rows, S, Filled

LEMMA FilledEmpty ==
    ASSUME NEW v \in Nat
    PROVE  Filled(v, 0) = << >>
  <1>1. Filled(v, 0) \in Rows /\ Len(Filled(v, 0)) = 0
    BY FilledFacts
  <1> QED
    BY <1>1, EmptySeq DEF Rows

\* The next part makes a longer prefix.
LEMMA FilledAppend ==
    ASSUME NEW v \in Nat, NEW n \in Nat
    PROVE  Append(Filled(v, n), Part(v, n + 1)) = Filled(v, n + 1)
  <1> DEFINE S == [version : Nat, part : Nat]
             a == Filled(v, n)
             b == Filled(v, n + 1)
             e == Part(v, n + 1)
  <1>0. n + 1 \in Nat
    OBVIOUS
  <1>1. a \in Seq(S) /\ Len(a) = n /\ b \in Seq(S) /\ Len(b) = n + 1
    BY <1>0, FilledFacts DEF Rows
  <1>2. e \in S
    BY DEF Part
  <1>3. \A k \in 1 .. n : a[k] = Part(v, k)
    BY DEF Filled
  <1>4. \A k \in 1 .. n + 1 : b[k] = Part(v, k)
    BY DEF Filled
  <1> HIDE DEF S, a, b
  <1>5. /\ Append(a, e) \in Seq(S) /\ Len(Append(a, e)) = n + 1
        /\ \A k \in 1 .. n : Append(a, e)[k] = a[k]
        /\ Append(a, e)[n + 1] = e
    BY <1>1, <1>2, AppendProperties
  <1>6. \A k \in 1 .. n + 1 : Append(a, e)[k] = b[k]
    <2> SUFFICES ASSUME NEW k \in 1 .. n + 1 PROVE Append(a, e)[k] = b[k]
      OBVIOUS
    <2>1. CASE k = n + 1
      BY <2>1, <1>4, <1>5
    <2>2. CASE k # n + 1
      <3>1. k \in 1 .. n
        BY <2>2
      <3> QED
        BY <3>1, <1>3, <1>4, <1>5
    <2> QED
      BY <2>1, <2>2
  <1>7. Append(a, e) = b
    BY <1>1, <1>5, <1>6, SeqEqual
  <1> QED
    BY <1>7 DEF a, b

LEMMA FilledWhole ==
    ASSUME NEW v \in 1 .. MaxVersion
    PROVE  /\ Whole(Filled(v, Parts)) /\ Filled(v, Parts)[1].version = v
  BY AuthorityBounds, FilledFacts DEF Whole, Filled

LEMMA EmptyRows == << >> \in Rows /\ Len(<< >>) = 0
  BY EmptySeq DEF Rows

\* The initial state.
LEMMA AuthorityInitially == Init => AuthorityIInv
  <1> SUFFICES ASSUME Init PROVE AuthorityIInv
    OBVIOUS
  <1> USE AuthorityBounds DEF Init
  <1>1. NoCopy \in [generation : Nat, data : [Names -> Rows],
                    loading : SUBSET Names, broken : SUBSET Names]
    BY EmptyRows DEF NoCopy
  <1>2. << >> \in Seq(Names)
    BY EmptySeq
  <1>3. TypeOK
    BY <1>1, <1>2, EmptyRows DEF TypeOK
  <1>4. SourceOK
    BY DEF SourceOK
  <1>5. FileOK
    BY EmptyRows DEF FileOK
  <1>6. ASSUME NEW w \in Writers PROVE WriterOK(w)
    BY EmptyRows DEF WriterOK, PresentOK, Active
  <1>7. ASSUME NEW x \in Threads PROVE ThreadOK(x)
    BY EmptyRows DEF ThreadOK, NoCopy
  <1> QED
    BY <1>3, <1>4, <1>5, <1>6, <1>7 DEF AuthorityIInv

-----------------------------------------------------------------------------
(***************************************************************************)
(* Writers                                                                 *)
(***************************************************************************)

\* What is known of a writer in any state.
LEMMA WriterFacts ==
    ASSUME AuthorityIInv, NEW w \in Writers
    PROVE  /\ WriterOK(w) /\ SourceOK /\ FileOK
           /\ wtodo[w] \in Seq(Names) /\ wload[w] \in BOOLEAN
           /\ wvers[w] \in [Names -> Nat] /\ wcount[w] \in 0 .. Parts
           /\ wbegan[w] \in Nat /\ generation \in 0 .. MaxGeneration
           /\ \A t \in Names : wvers[w][t] \in Nat /\ source[t] \in Nat
           /\ \A g \in 0 .. MaxGeneration : \A t \in Names : built[g][t] \in Nat
           /\ wpc[w] \in Active => Present(w) \in Names
  <1>1. WriterOK(w) /\ wtodo[w] \in Seq(Names)
    BY DEF AuthorityIInv, TypeOK
  <1>2. wpc[w] \in Active => Present(w) \in Names
    <2> SUFFICES ASSUME wpc[w] \in Active PROVE Head(wtodo[w]) \in Names
      BY DEF Present
    <2>1. wtodo[w] # << >>
      BY <1>1 DEF WriterOK
    <2> QED
      BY <1>1, <2>1, HeadTailProperties
  <1> QED
    BY <1>1, <1>2 DEF AuthorityIInv, TypeOK

\* Threads notice a writer only by generations that are new to them.
LEMMA WriterFrame ==
    ASSUME AuthorityIInv, OneWriter, NEW w \in Writers, UNCHANGED threadVars,
           generation' \in generation .. MaxGeneration,
           \A g \in 0 .. generation : built'[g] = built[g],
           TypeOK', SourceOK', FileOK', WriterOK(w)'
    PROVE  AuthorityIInv'
  <1>1. \A v \in Writers : WriterOK(v)'
    BY DEF OneWriter
  <1>2. ASSUME NEW x \in Threads PROVE ThreadOK(x)'
    <2>1. /\ ThreadOK(x) /\ copy[x].generation \in Nat /\ qgen[x] \in Nat
          /\ generation \in Nat /\ generation' \in Nat /\ generation <= generation'
      BY DEF AuthorityIInv, TypeOK
    <2>2. /\ copy[x].generation <= generation' /\ qgen[x] <= generation'
          /\ copy[x].generation \in 0 .. generation
      BY <2>1 DEF ThreadOK
    <2>3. built'[copy[x].generation] = built[copy[x].generation]
      BY <2>2
    <2> QED
      BY <2>1, <2>2, <2>3 DEF ThreadOK, threadVars
  <1> QED
    BY <1>1, <1>2 DEF AuthorityIInv

\* Tables a single writer has cleaned and not yet filled.
LEMMA LoadingOfOne ==
    ASSUME OneWriter, NEW w \in Writers
    PROVE  Loading = IF wpc[w] \in {"open", "insert"} THEN {Present(w)} ELSE {}
  BY DEF OneWriter, Loading

LEMMA BeginsPreserves ==
    ASSUME AuthorityIInv, OneWriter, NEW w \in Writers, NEW tables \in Seq(Names),
           NEW isLoad \in BOOLEAN, Begins(w, tables, isLoad),
           UNCHANGED <<source, file, generation, built, wvers, wcount, broken>>,
           UNCHANGED threadVars, tables # << >>,
           IF isLoad THEN tables = Tables ELSE Len(tables) = 1
    PROVE  AuthorityIInv'
  <1> USE DEF Begins
  <1>1. Head(tables) \in Names
    BY HeadTailProperties
  <1>2. TypeOK'
    <2>1. (IF isLoad THEN 0 ELSE source[Head(tables)]) \in Nat
      BY <1>1, WriterFacts
    <2>2. wbegan' \in [Writers -> Nat]
      BY <2>1 DEF AuthorityIInv, TypeOK
    <2> QED
      BY <2>2, EmptyRows DEF AuthorityIInv, TypeOK, Goes, threadVars
  <1>3. /\ wpc'[w] = "clean" /\ wtodo'[w] = tables /\ wload'[w] = isLoad
        /\ wbegan'[w] = IF isLoad THEN 0 ELSE source[Head(tables)]
    BY DEF AuthorityIInv, TypeOK, Goes
  <1>4. SourceOK'
    BY DEF AuthorityIInv, SourceOK
  <1>5. FileOK'
    <2>1. Loading = {} /\ Loading' = {}
      BY <1>3 DEF OneWriter, Loading
    <2> QED
      BY <2>1 DEF AuthorityIInv, FileOK, Whole
  <1>6. WriterOK(w)'
    <2>1. WriterOK(w) /\ \A t \in Names : source[t] \in Nat
      BY WriterFacts
    <2>2. isLoad => \A t \in Names : Left(w, t)'
      BY <1>3 DEF Left, Names
    <2>3. PresentOK(w)'
      <3>1. Present(w)' = Head(tables)
        BY <1>3 DEF Present
      <3>2. wbegan'[w] <= source[Head(tables)]
        BY <1>1, <1>3, <2>1
      <3> QED
        BY <3>1, <3>2, <1>3 DEF PresentOK
    <2> QED
      BY <2>1, <2>2, <2>3, <1>3 DEF WriterOK, Active
  <1>7. generation' \in generation .. MaxGeneration /\ \A g \in 0 .. generation : built'[g] = built[g]
    BY WriterFacts
  <1> QED
    BY <1>2, <1>4, <1>5, <1>6, <1>7, WriterFrame

LEMMA BeginLoadPreserves ==
    ASSUME AuthorityIInv, OneWriter, NEW w \in Writers, BeginLoad(w), UNCHANGED threadVars
    PROVE  AuthorityIInv'
  BY AuthorityBounds, BeginsPreserves DEF BeginLoad

LEMMA BeginReloadPreserves ==
    ASSUME AuthorityIInv, OneWriter, NEW w \in Writers, NEW t \in Names, BeginReload(w, t),
           UNCHANGED threadVars
    PROVE  AuthorityIInv'
  <1>1. <<t>> \in Seq(Names) /\ <<t>> # << >> /\ Len(<<t>>) = 1
    OBVIOUS
  <1> QED
    BY <1>1, BeginsPreserves DEF BeginReload

\* Cleaning leaves nothing that could be old.
LEMMA CleanPreserves ==
    ASSUME AuthorityIInv, OneWriter, NEW w \in Writers, Clean(w), UNCHANGED threadVars
    PROVE  AuthorityIInv'
  <1> USE DEF Clean
  <1> DEFINE p == Present(w)
  <1>1. wpc[w] = "clean" /\ p \in Names /\ WriterOK(w)
    BY WriterFacts DEF Active
  <1>2. /\ file' \in [Names -> Rows]
        /\ \A t \in Names : file'[t] = IF t = p THEN << >> ELSE file[t]
    BY <1>1, EmptyRows DEF AuthorityIInv, TypeOK
  <1>3. wpc'[w] = "open" /\ Present(w)' = p
    BY DEF AuthorityIInv, TypeOK, Goes, Present
  <1> HIDE DEF p
  <1>4. TypeOK'
    BY <1>2 DEF AuthorityIInv, TypeOK, Goes, threadVars
  <1>5. SourceOK'
    BY DEF AuthorityIInv, SourceOK
  <1>6. FileOK'
    <2>1. Loading = {} /\ Loading' = {p}
      BY <1>1, <1>3 DEF OneWriter, Loading
    <2>2. \A g \in 0 .. MaxGeneration, t \in Names : \A k \in 1 .. Len(file'[t]) :
             built[g][t] <= file'[t][k].version
      <3> SUFFICES ASSUME NEW g \in 0 .. MaxGeneration, NEW t \in Names,
                          NEW k \in 1 .. Len(file'[t])
                   PROVE  built[g][t] <= file'[t][k].version
        OBVIOUS
      <3>1. t # p
        BY <1>2, EmptyRows
      <3> QED
        BY <1>2, <3>1, WriterFacts DEF FileOK
    <2>3. generation # 0 => \A t \in Names \ ({p} \cup broken) : Whole(file'[t])
      BY <1>2, <2>1, WriterFacts DEF FileOK
    <2> QED
      BY <2>1, <2>2, <2>3 DEF FileOK, Whole
  <1>7. WriterOK(w)'
    <2>1. PresentOK(w)'
      BY <1>1, <1>2, <1>3 DEF WriterOK, PresentOK, p
    <2>2. \E j \in 1 .. Len(wtodo'[w]) : wtodo'[w][j] = p
      <3>1. wtodo[w] # << >> /\ wtodo[w] \in Seq(Names)
        BY <1>1, WriterFacts DEF WriterOK, Active
      <3>2. 1 \in 1 .. Len(wtodo[w]) /\ wtodo[w][1] = p
        BY <3>1, EmptySeq, LenProperties, HeadTailProperties DEF p, Present
      <3> QED
        BY <3>2
    <2>3. wload[w] => \A t \in Names : Left(w, t)' \/ Whole(file'[t])
      BY <1>1, <1>2, <2>2 DEF WriterOK, Left
    <2>4. \A t \in Names : \A k \in 1 .. Len(file'[t]) : wvers[w][t] <= file'[t][k].version
      BY <1>1, <1>2, EmptyRows DEF WriterOK
    <2> QED
      BY <1>1, <1>3, <2>1, <2>3, <2>4 DEF WriterOK, Active, Whole
  <1>8. generation' \in generation .. MaxGeneration /\ \A g \in 0 .. generation : built'[g] = built[g]
    BY WriterFacts
  <1> QED
    BY <1>4, <1>5, <1>6, <1>7, <1>8, WriterFrame

\* The version that is opened is not older than what any load has read.
LEMMA OpenPreserves ==
    ASSUME AuthorityIInv, OneWriter, NEW w \in Writers, Open(w), UNCHANGED threadVars
    PROVE  AuthorityIInv'
  <1> USE DEF Open
  <1> DEFINE p == Present(w)
             v == source[p]
  <1>1. wpc[w] = "open" /\ p \in Names /\ WriterOK(w) /\ file[p] = << >>
    BY WriterFacts DEF Active, WriterOK, PresentOK
  <1>2. v \in 1 .. MaxVersion /\ v \in Nat /\ \A g \in 0 .. MaxGeneration : built[g][p] <= v
    BY <1>1, AuthorityBounds, WriterFacts DEF SourceOK
  <1>3. wvers' = [wvers EXCEPT ![w][p] = v]
    OBVIOUS
  <1>4. wpc'[w] = "insert" /\ Present(w)' = p /\ wcount'[w] = 0
    BY DEF AuthorityIInv, TypeOK, Goes, Present
  <1>5. wbegan[w] <= v
    BY <1>1 DEF WriterOK, PresentOK
  <1> HIDE DEF p, v
  <1>6. /\ wvers' \in [Writers -> [Names -> Nat]]
        /\ \A t \in Names : wvers'[w][t] = IF t = p THEN v ELSE wvers[w][t]
    <2>1. wvers \in [Writers -> [Names -> Nat]]
      BY DEF AuthorityIInv, TypeOK
    <2> DEFINE f == [wvers[w] EXCEPT ![p] = v]
    <2>2. f \in [Names -> Nat] /\ \A t \in Names : f[t] = IF t = p THEN v ELSE wvers[w][t]
      BY <2>1, <1>1, <1>2
    <2>3. wvers' = [wvers EXCEPT ![w] = f]
      BY <1>3
    <2> HIDE DEF f
    <2> QED
      BY <2>1, <2>2, <2>3
  <1>7. TypeOK'
    <2>1. wcount' \in [Writers -> 0 .. Parts]
      BY AuthorityBounds DEF AuthorityIInv, TypeOK
    <2> QED
      BY <1>6, <2>1 DEF AuthorityIInv, TypeOK, Goes, threadVars
  <1>8. SourceOK'
    BY DEF AuthorityIInv, SourceOK
  <1>9. FileOK'
    <2>1. Loading = {p} /\ Loading' = {p}
      BY <1>1, <1>4 DEF OneWriter, Loading, p
    <2> QED
      BY <2>1 DEF AuthorityIInv, FileOK, Whole
  <1>10. WriterOK(w)'
    <2>1. PresentOK(w)'
      <3>1. file[p] = Filled(v, 0)
        BY <1>1, <1>2, FilledEmpty
      <3>2. wvers'[w][p] = v
        BY <1>1, <1>6
      <3> QED
        BY <1>2, <1>4, <1>5, <3>1, <3>2 DEF PresentOK
    <2>2. ASSUME NEW t \in Names
          PROVE  /\ wvers'[w][t] <= source[t]
                 /\ \A k \in 1 .. Len(file[t]) : wvers'[w][t] <= file[t][k].version
      <3>1. CASE t = p
        BY <3>1, <1>1, <1>2, <1>6, EmptyRows DEF v
      <3>2. CASE t # p
        BY <3>2, <1>1, <1>6 DEF WriterOK
      <3> QED
        BY <3>1, <3>2
    <2> QED
      BY <1>1, <1>4, <2>1, <2>2 DEF WriterOK, Active, Left, Whole
  <1>11. generation' \in generation .. MaxGeneration /\ \A g \in 0 .. generation : built'[g] = built[g]
    BY WriterFacts
  <1> QED
    BY <1>7, <1>8, <1>9, <1>10, <1>11, WriterFrame

\* Each commit adds the next part of the version that is open.
LEMMA CommitBatchPreserves ==
    ASSUME AuthorityIInv, OneWriter, NEW w \in Writers, CommitBatch(w), UNCHANGED threadVars
    PROVE  AuthorityIInv'
  <1> USE DEF CommitBatch
  <1> DEFINE p == Present(w)
             v == wvers[w][p]
             n == wcount[w]
             rows == Filled(v, n + 1)
  <1>1. /\ wpc[w] = "insert" /\ p \in Names /\ WriterOK(w)
        /\ v \in 1 .. MaxVersion /\ v \in Nat /\ n \in Nat /\ n + 1 \in 0 .. Parts
        /\ n + 1 \in Nat
    <2>1. wpc[w] = "insert" /\ n < Parts
      OBVIOUS
    <2>2. p \in Names /\ WriterOK(w) /\ n \in Nat
      BY <2>1, WriterFacts DEF Active
    <2>3. v \in 1 .. MaxVersion
      BY <2>1, <2>2 DEF WriterOK, PresentOK
    <2> QED
      BY <2>1, <2>2, <2>3, AuthorityBounds
  <1>2. file[p] = Filled(v, n)
    BY <1>1 DEF WriterOK, PresentOK
  <1>3. Append(file[p], Part(v, n + 1)) = rows
    BY <1>1, <1>2, FilledAppend
  <1>4. file' = [file EXCEPT ![p] = rows]
    BY <1>3
  <1>5. /\ rows \in Rows /\ Len(rows) = n + 1
        /\ \A k \in 1 .. Len(rows) : rows[k].version = v
    BY <1>1, FilledFacts
  <1>6. wpc' = wpc /\ Present(w)' = p /\ wcount'[w] = n + 1
    BY DEF AuthorityIInv, TypeOK, Present
  <1> HIDE DEF p, v, n, rows
  <1>7. /\ file' \in [Names -> Rows]
        /\ \A t \in Names : file'[t] = IF t = p THEN rows ELSE file[t]
    BY <1>1, <1>4, <1>5 DEF AuthorityIInv, TypeOK
  <1>8. TypeOK'
    BY <1>1, <1>7 DEF AuthorityIInv, TypeOK, threadVars, n
  <1>9. SourceOK'
    BY DEF AuthorityIInv, SourceOK
  <1>10. FileOK'
    <2>1. Loading = {p} /\ Loading' = {p}
      BY <1>1, <1>6 DEF OneWriter, Loading, p
    <2>2. ASSUME NEW g \in 0 .. MaxGeneration, NEW t \in Names, NEW k \in 1 .. Len(file'[t])
          PROVE  built[g][t] <= file'[t][k].version
      <3>1. CASE t = p
        <4>1. built[g][p] <= v
          BY <1>1 DEF WriterOK, PresentOK, p, v
        <4> QED
          BY <3>1, <4>1, <1>5, <1>7
      <3>2. CASE t # p
        BY <3>2, <1>7, WriterFacts DEF FileOK
      <3> QED
        BY <3>1, <3>2
    <2>3. generation # 0 => \A t \in Names \ ({p} \cup broken) : Whole(file'[t])
      BY <1>7, <2>1, WriterFacts DEF FileOK
    <2> QED
      BY <2>1, <2>2, <2>3 DEF FileOK, Whole
  <1>11. WriterOK(w)'
    <2>1. PresentOK(w)'
      <3>1. file'[p] = Filled(v, n + 1)
        BY <1>1, <1>7 DEF rows
      <3>2. /\ wbegan[w] <= v /\ \A g \in 0 .. MaxGeneration : built[g][p] <= v
        BY <1>1 DEF WriterOK, PresentOK, p, v
      <3>3. wvers'[w][p] = v
        BY DEF v
      <3> QED
        BY <1>1, <1>6, <3>1, <3>2, <3>3 DEF PresentOK
    <2>2. \E j \in 1 .. Len(wtodo'[w]) : wtodo'[w][j] = p
      <3>1. wtodo[w] # << >> /\ wtodo[w] \in Seq(Names)
        BY <1>1, WriterFacts DEF WriterOK, Active
      <3>2. 1 \in 1 .. Len(wtodo[w]) /\ wtodo[w][1] = p
        BY <3>1, EmptySeq, LenProperties, HeadTailProperties DEF p, Present
      <3> QED
        BY <3>2
    <2>3. wload[w] => \A t \in Names : Left(w, t)' \/ Whole(file'[t])
      BY <1>1, <1>7, <2>2 DEF WriterOK, Left
    <2>4. ASSUME NEW t \in Names, NEW k \in 1 .. Len(file'[t])
          PROVE  wvers[w][t] <= file'[t][k].version
      <3>1. CASE t = p
        <4>1. wvers[w][t] = v
          BY <3>1 DEF v
        <4>2. file'[t][k].version = v
          BY <3>1, <1>5, <1>7
        <4> QED
          BY <4>1, <4>2, <1>1
      <3>2. CASE t # p
        BY <3>2, <1>1, <1>7 DEF WriterOK
      <3> QED
        BY <3>1, <3>2
    <2> QED
      BY <1>1, <1>6, <2>1, <2>3, <2>4 DEF WriterOK, Active, Whole
  <1>12. generation' \in generation .. MaxGeneration /\ \A g \in 0 .. generation : built'[g] = built[g]
    BY WriterFacts
  <1> QED
    BY <1>8, <1>9, <1>10, <1>11, <1>12, WriterFrame

\* A table that is done is whole; the last one leaves none behind.
LEMMA TableDonePreserves ==
    ASSUME AuthorityIInv, OneWriter, NEW w \in Writers, TableDone(w), UNCHANGED threadVars
    PROVE  AuthorityIInv'
  <1> USE DEF TableDone
  <1> DEFINE p == Present(w)
             v == wvers[w][p]
             todo == wtodo[w]
             l == Len(todo)
  <1>1. /\ wpc[w] = "insert" /\ p \in Names /\ WriterOK(w) /\ todo \in Seq(Names)
        /\ todo # << >> /\ v \in 1 .. MaxVersion
        /\ file[p] = Filled(v, Parts)
    BY WriterFacts DEF Active, WriterOK, PresentOK
  <1>2. Whole(file[p])
    BY <1>1, FilledWhole
  <1>3. l \in Nat /\ l > 0 /\ todo[1] = p
    BY <1>1, EmptySeq, LenProperties, HeadTailProperties DEF Present
  <1>4. /\ Tail(todo) \in Seq(Names) /\ Len(Tail(todo)) = l - 1
        /\ \A j \in 1 .. l - 1 : Tail(todo)[j] = todo[j + 1]
    BY <1>1, HeadTailProperties
  <1>5. /\ wtodo' \in [Writers -> Seq(Names)]
        /\ wtodo'[w] = IF l = 1 THEN todo ELSE Tail(todo)
        /\ wpc' \in [Writers -> {"idle", "clean", "open", "insert", "install", "select",
                                 "returned"}]
        /\ wpc'[w] = IF l > 1 THEN "clean" ELSE IF wload[w] THEN "install" ELSE "select"
    BY <1>1, <1>4 DEF AuthorityIInv, TypeOK, Goes
  <1>6. file' = file /\ broken' = broken \ {p}
    OBVIOUS
  <1> HIDE DEF p, v, todo, l
  <1>7. TypeOK'
    BY <1>5, <1>6 DEF AuthorityIInv, TypeOK, threadVars
  <1>8. SourceOK'
    BY DEF AuthorityIInv, SourceOK
  <1>9. FileOK'
    <2>1. Loading = {p}
      BY <1>1 DEF OneWriter, Loading, p
    <2>2. generation # 0 => \A t \in Names \ broken' : Whole(file[t])
      BY <1>2, <1>6, <2>1, WriterFacts DEF FileOK
    <2> QED
      BY <2>2, WriterFacts DEF FileOK, Whole
  <1>10. WriterOK(w)'
    <2>1. CASE l = 1
      <3>1. wtodo'[w] = todo /\ wpc'[w] = IF wload[w] THEN "install" ELSE "select"
        BY <1>5, <2>1
      <3>2. wload[w] => \A t \in Names : Whole(file[t])
        <4> SUFFICES ASSUME wload[w], NEW t \in Names PROVE Whole(file[t])
          OBVIOUS
        <4>1. Left(w, t) \/ Whole(file[t])
          BY <1>1 DEF WriterOK
        <4>2. Left(w, t) => t = p
          BY <1>3, <2>1 DEF Left, todo, l
        <4> QED
          BY <4>1, <4>2, <1>2
      <3>3. PresentOK(w)'
        <4>1. Present(w)' = p
          BY <3>1 DEF Present, p, todo
        <4>2. /\ wbegan[w] <= v /\ \A g \in 0 .. MaxGeneration : built[g][p] <= v
          BY <1>1 DEF WriterOK, PresentOK, p, v
        <4>3. wvers'[w][p] = v
          BY DEF v
        <4> QED
          BY <4>1, <4>2, <4>3, <3>1, <1>1 DEF PresentOK
      <3> QED
        BY <1>1, <3>1, <3>2, <3>3, <2>1 DEF WriterOK, Active, Whole, todo, l
    <2>2. CASE l # 1
      <3>1. l > 1 /\ wtodo'[w] = Tail(todo) /\ wpc'[w] = "clean"
        BY <1>3, <1>5, <2>2
      <3>2. wload[w] /\ wbegan[w] = 0
        BY <1>1, <2>2 DEF WriterOK, Active, todo, l
      <3>3. wtodo'[w] # << >>
        <4>1. Len(Tail(todo)) # 0
          BY <1>3, <1>4, <3>1
        <4> QED
          BY <4>1, <1>4, <3>1, EmptySeq
      <3>4. ASSUME NEW t \in Names PROVE Left(w, t)' \/ Whole(file[t])
        <4>1. CASE Left(w, t) /\ t # p
          <5>1. PICK j \in 1 .. l : todo[j] = t
            BY <4>1 DEF Left, todo, l
          <5>2. j # 1
            BY <5>1, <4>1, <1>3
          <5>3. j - 1 \in 1 .. l - 1 /\ (j - 1) + 1 = j
            BY <5>2, <1>3
          <5>4. Tail(todo)[j - 1] = t
            BY <5>1, <5>3, <1>4
          <5> QED
            BY <5>3, <5>4, <3>1, <1>4 DEF Left
        <4>2. CASE t = p
          BY <4>2, <1>2
        <4>3. CASE ~ Left(w, t)
          BY <4>3, <1>1, <3>2 DEF WriterOK
        <4> QED
          BY <4>1, <4>2, <4>3
      <3>5. PresentOK(w)'
        <4>1. Present(w)' \in Names
          BY <3>1, <3>3, <1>4, HeadTailProperties DEF Present
        <4> DEFINE q == Head(wtodo'[w])
        <4>2. Present(w)' = q /\ q \in Names /\ source[q] \in Nat
          BY <4>1, WriterFacts DEF Present
        <4> HIDE DEF q
        <4>3. wbegan'[w] <= source'[q]
          BY <4>2, <3>2
        <4> QED
          BY <4>2, <4>3, <3>1 DEF PresentOK
      <3> QED
        BY <1>1, <3>1, <3>2, <3>3, <3>4, <3>5 DEF WriterOK, Active, Whole
    <2> QED
      BY <2>1, <2>2
  <1>11. generation' \in generation .. MaxGeneration /\ \A g \in 0 .. generation : built'[g] = built[g]
    BY WriterFacts
  <1> QED
    BY <1>7, <1>8, <1>9, <1>10, <1>11, WriterFrame

\* What a call that ends leaves of its locals.
LEMMA EndsFacts ==
    ASSUME AuthorityIInv, NEW w \in Writers, NEW label \in {"idle", "returned"},
           Ends(w, label)
    PROVE  /\ wpc' \in [Writers -> {"idle", "clean", "open", "insert", "install", "select",
                                    "returned"}]
           /\ wtodo' \in [Writers -> Seq(Names)] /\ wload' \in [Writers -> BOOLEAN]
           /\ wvers' \in [Writers -> [Names -> Nat]] /\ wcount' \in [Writers -> 0 .. Parts]
           /\ wpc'[w] = label /\ \A t \in Names : wvers'[w][t] = 0
  <1>1. << >> \in Seq(Names)
    BY EmptySeq
  <1> QED
    BY <1>1, AuthorityBounds DEF AuthorityIInv, TypeOK, Ends, Goes

\* A call that ends promises nothing more, but for the rows it returns.
LEMMA EndsWriterOK ==
    ASSUME AuthorityIInv, NEW w \in Writers, NEW label \in {"idle", "returned"},
           Ends(w, label), file' = file, source' = source,
           label = "returned" => Whole(wrows'[w]) /\ wbegan'[w] <= wrows'[w][1].version
    PROVE  WriterOK(w)'
  <1>1. wpc'[w] = label /\ \A t \in Names : wvers'[w][t] = 0
    BY EndsFacts
  <1>2. \A t \in Names :
          /\ wvers'[w][t] <= source[t]
          /\ \A k \in 1 .. Len(file[t]) : wvers'[w][t] <= file[t][k].version
    <2>1. \A t \in Names : source[t] \in Nat /\ \A k \in 1 .. Len(file[t]) : file[t][k].version \in Nat
      <3> DEFINE S == [version : Nat, part : Nat]
      <3>1. ASSUME NEW t \in Names, NEW k \in 1 .. Len(file[t]) PROVE file[t][k].version \in Nat
        <4>1. file[t] \in Seq(S)
          BY DEF AuthorityIInv, TypeOK, Rows
        <4>2. file[t][k] \in S
          <5> HIDE DEF S
          <5> QED
            BY <4>1, ElementOfSeq
        <4> QED
          BY <4>2
      <3> QED
        BY <3>1, WriterFacts
    <2> QED
      BY <1>1, <2>1
  <1> QED
    BY <1>1, <1>2 DEF WriterOK, PresentOK, Active, Whole

\* A failed call leaves a broken table behind, if it had cleaned it.
LEMMA FailsPreserves ==
    ASSUME AuthorityIInv, OneWriter, NEW w \in Writers, Fails(w), UNCHANGED threadVars
    PROVE  AuthorityIInv'
  <1> USE DEF Fails
  <1>1. wpc[w] \in Active /\ Present(w) \in Names
    BY WriterFacts DEF Active
  <1>2. TypeOK'
    BY <1>1, EndsFacts DEF AuthorityIInv, TypeOK, threadVars
  <1>3. SourceOK'
    BY DEF AuthorityIInv, SourceOK
  <1>4. FileOK'
    <2>1. Loading \cup broken = broken'
      BY LoadingOfOne
    <2>2. broken' \subseteq (Loading' \cup broken')
      OBVIOUS
    <2> QED
      BY <2>1, <2>2, WriterFacts DEF FileOK, Whole
  <1>5. WriterOK(w)'
    BY EndsWriterOK
  <1>6. generation' \in generation .. MaxGeneration /\ \A g \in 0 .. generation : built'[g] = built[g]
    BY WriterFacts
  <1> QED
    BY <1>2, <1>3, <1>4, <1>5, <1>6, WriterFrame

\* A load that is through has made every table whole, from what it read.
LEMMA InstallPreserves ==
    ASSUME AuthorityIInv, OneWriter, NEW w \in Writers, Install(w), UNCHANGED threadVars
    PROVE  AuthorityIInv'
  <1> USE DEF Install
  <1>1. /\ WriterOK(w) /\ wpc[w] = "install" /\ generation \in 0 .. MaxGeneration
        /\ wvers[w] \in [Names -> Nat]
    BY WriterFacts
  <1>2. /\ generation' \in 0 .. MaxGeneration /\ generation' = generation + 1
        /\ generation' \in generation .. MaxGeneration
        /\ generation + 1 \in 0 .. MaxGeneration
    BY <1>1, AuthorityBounds
  <1>3. /\ built' \in [0 .. MaxGeneration -> [Names -> Nat]]
        /\ \A g \in 0 .. MaxGeneration :
             built'[g] = IF g = generation + 1 THEN wvers[w] ELSE built[g]
    BY <1>1, <1>2 DEF AuthorityIInv, TypeOK
  <1>4. TypeOK'
    BY <1>2, <1>3, EndsFacts DEF AuthorityIInv, TypeOK, threadVars
  <1>5. SourceOK'
    BY <1>1, <1>3, WriterFacts DEF SourceOK, WriterOK
  <1>6. FileOK'
    <2>1. \A t \in Names : Whole(file[t])
      BY <1>1 DEF WriterOK
    <2>2. ASSUME NEW g \in 0 .. MaxGeneration, NEW t \in Names, NEW k \in 1 .. Len(file[t])
          PROVE  built'[g][t] <= file[t][k].version
      BY <1>1, <1>3, WriterFacts DEF FileOK, WriterOK
    <2> QED
      BY <2>1, <2>2 DEF FileOK, Whole
  <1>7. WriterOK(w)'
    BY EndsWriterOK
  <1>8. \A g \in 0 .. generation : built'[g] = built[g]
    BY <1>1, <1>3
  <1> QED
    BY <1>2, <1>4, <1>5, <1>6, <1>7, <1>8, WriterFrame

LEMMA SelectPreserves ==
    ASSUME AuthorityIInv, OneWriter, NEW w \in Writers, Select(w), UNCHANGED threadVars
    PROVE  AuthorityIInv'
  <1> USE DEF Select
  <1> DEFINE p == Present(w)
             v == wvers[w][p]
  <1>1. /\ WriterOK(w) /\ wpc[w] = "select" /\ p \in Names
        /\ v \in 1 .. MaxVersion /\ wbegan[w] <= v /\ file[p] = Filled(v, Parts)
    BY WriterFacts DEF Active, WriterOK, PresentOK
  <1>2. wrows' = [wrows EXCEPT ![w] = file[p]]
    OBVIOUS
  <1> HIDE DEF p, v
  <1>3. wrows' \in [Writers -> Rows] /\ wrows'[w] = file[p]
    BY <1>1, <1>2 DEF AuthorityIInv, TypeOK
  <1>4. TypeOK'
    BY <1>3, EndsFacts DEF AuthorityIInv, TypeOK, threadVars
  <1>5. SourceOK'
    BY DEF AuthorityIInv, SourceOK
  <1>6. FileOK'
    <2>1. Loading = {}
      BY <1>1, LoadingOfOne
    <2>2. generation # 0 => \A t \in Names \ broken : Whole(file[t])
      BY <2>1, WriterFacts DEF FileOK
    <2>3. \A t \in Names : Whole(file[t])' <=> Whole(file[t])
      BY DEF Whole
    <2> QED
      BY <2>2, <2>3, WriterFacts DEF FileOK
  <1>7. Whole(wrows'[w]) /\ wbegan'[w] <= wrows'[w][1].version
    BY <1>1, <1>3, FilledWhole
  <1>8. WriterOK(w)'
    BY <1>7, EndsWriterOK
  <1>9. generation' \in generation .. MaxGeneration /\ \A g \in 0 .. generation : built'[g] = built[g]
    BY WriterFacts
  <1> QED
    BY <1>4, <1>5, <1>6, <1>8, <1>9, WriterFrame

LEMMA WriterStepPreserves ==
    ASSUME AuthorityIInv, OneWriter, NEW w \in Writers, WriterStep(w), UNCHANGED threadVars
    PROVE  AuthorityIInv'
  BY BeginLoadPreserves, BeginReloadPreserves, CleanPreserves, OpenPreserves,
     CommitBatchPreserves, TableDonePreserves, FailsPreserves, InstallPreserves,
     SelectPreserves DEF WriterStep

-----------------------------------------------------------------------------
(***************************************************************************)
(* Threads and data files                                                  *)
(***************************************************************************)

LEMMA ThreadStepPreserves ==
    ASSUME AuthorityIInv, NEW x \in Threads, ThreadStep(x),
           UNCHANGED <<source, file, generation, built, writerVars, broken>>
    PROVE  AuthorityIInv'
  <1>1. Loading' = Loading
    BY DEF Loading, Present, writerVars
  <1>2. SourceOK' /\ FileOK'
    BY <1>1 DEF AuthorityIInv, SourceOK, FileOK, Whole
  <1>3. \A w \in Writers : WriterOK(w)'
    BY DEF AuthorityIInv, WriterOK, PresentOK, Present, Left, Whole, writerVars
  <1>4. ThreadOK(x) /\ generation \in 0 .. MaxGeneration /\ qgen[x] \in Nat
    BY DEF AuthorityIInv, TypeOK
  <1>5. ASSUME copy' \in [Threads -> [generation : Nat, data : [Names -> Rows],
                             loading : SUBSET Names, broken : SUBSET Names]],
               qpc' \in [Threads -> {"idle", "conn", "done"}],
               qgen' \in [Threads -> Nat],
               ThreadOK(x)',
               \A y \in Threads \ {x} : copy'[y] = copy[y] /\ qpc'[y] = qpc[y] /\ qgen'[y] = qgen[y]
        PROVE  AuthorityIInv'
    <2>1. TypeOK'
      BY <1>5 DEF AuthorityIInv, TypeOK, writerVars
    <2>2. ASSUME NEW y \in Threads PROVE ThreadOK(y)'
      <3>1. CASE y = x
        BY <3>1, <1>5
      <3>2. CASE y # x
        <4>1. ThreadOK(y) /\ copy'[y] = copy[y] /\ qpc'[y] = qpc[y] /\ qgen'[y] = qgen[y]
          BY <3>2, <1>5 DEF AuthorityIInv
        <4> QED
          BY <4>1 DEF ThreadOK, Whole
      <3> QED
        BY <3>1, <3>2
    <2> QED
      BY <2>1, <2>2, <1>2, <1>3 DEF AuthorityIInv
  <1>6. CASE Capture(x)
    <2>1. /\ copy' = copy /\ qpc'[x] = "conn" /\ qgen'[x] = generation /\ generation # 0
          /\ qpc' \in [Threads -> {"idle", "conn", "done"}] /\ qgen' \in [Threads -> Nat]
          /\ \A y \in Threads \ {x} : qpc'[y] = qpc[y] /\ qgen'[y] = qgen[y]
      BY <1>4, <1>6 DEF Capture, AuthorityIInv, TypeOK
    <2>2. ThreadOK(x)'
      BY <2>1, <1>4 DEF ThreadOK, Whole
    <2> QED
      BY <2>1, <2>2, <1>5 DEF AuthorityIInv, TypeOK
  <1>7. CASE Reuse(x)
    <2>1. /\ copy' = copy /\ qpc'[x] = "done" /\ qgen' = qgen /\ copy[x].generation = qgen[x]
          /\ qpc' \in [Threads -> {"idle", "conn", "done"}]
          /\ \A y \in Threads \ {x} : qpc'[y] = qpc[y]
      BY <1>7 DEF Reuse, Current, AuthorityIInv, TypeOK
    <2>2. ThreadOK(x)'
      BY <2>1, <1>4 DEF ThreadOK, Whole
    <2> QED
      BY <2>1, <2>2, <1>5 DEF AuthorityIInv, TypeOK
  <1>8. CASE RebuildFails(x)
    <2>1. /\ copy' = copy /\ qpc'[x] = "idle" /\ qgen' = qgen
          /\ qpc' \in [Threads -> {"idle", "conn", "done"}]
          /\ \A y \in Threads \ {x} : qpc'[y] = qpc[y]
      BY <1>8 DEF RebuildFails, AuthorityIInv, TypeOK
    <2>2. ThreadOK(x)'
      BY <2>1, <1>4 DEF ThreadOK, Whole
    <2> QED
      BY <2>1, <2>2, <1>5 DEF AuthorityIInv, TypeOK
  <1>9. CASE Rebuild(x)
    <2> DEFINE cp == [generation |-> qgen[x], data |-> file, loading |-> Loading,
                      broken |-> broken]
    <2>1. Loading \subseteq Names
      <3> SUFFICES ASSUME NEW w \in Writers, wpc[w] \in {"open", "insert"}
                   PROVE  Present(w) \in Names
        BY DEF Loading
      <3> QED
        BY WriterFacts DEF Active
    <2>2. cp \in [generation : Nat, data : [Names -> Rows],
                  loading : SUBSET Names, broken : SUBSET Names]
      BY <2>1, <1>4 DEF AuthorityIInv, TypeOK
    <2>3. /\ copy' = [copy EXCEPT ![x] = cp] /\ qgen' = qgen /\ qpc'[x] = "done"
          /\ qpc' \in [Threads -> {"idle", "conn", "done"}]
          /\ \A y \in Threads \ {x} : qpc'[y] = qpc[y]
      BY <1>9 DEF Rebuild, AuthorityIInv, TypeOK
    <2>4. /\ cp.generation = qgen[x] /\ cp.data = file /\ cp.loading = Loading
          /\ cp.broken = broken
      OBVIOUS
    <2> HIDE DEF cp
    <2>5. /\ copy' \in [Threads -> [generation : Nat, data : [Names -> Rows],
                             loading : SUBSET Names, broken : SUBSET Names]]
          /\ copy'[x] = cp /\ \A y \in Threads \ {x} : copy'[y] = copy[y]
      BY <2>2, <2>3 DEF AuthorityIInv, TypeOK
    <2>6. qgen[x] # 0 /\ qgen[x] <= generation /\ generation # 0 /\ qgen[x] \in 0 .. MaxGeneration
      BY <1>4, <1>9, AuthorityBounds DEF ThreadOK, Rebuild
    <2>7. \A t \in Names \ (Loading \cup broken) : Whole(file[t])
      BY <2>6 DEF AuthorityIInv, FileOK
    <2>8. \A t \in Names : \A k \in 1 .. Len(file[t]) : built[qgen[x]][t] <= file[t][k].version
      BY <2>6 DEF AuthorityIInv, FileOK
    <2>9. ThreadOK(x)'
      BY <2>3, <2>4, <2>5, <2>6, <2>7, <2>8 DEF ThreadOK, Whole
    <2> QED
      BY <2>3, <2>5, <2>9, <1>5 DEF AuthorityIInv, TypeOK
  <1> QED
    BY <1>6, <1>7, <1>8, <1>9 DEF ThreadStep

LEMMA SourceChangesPreserves ==
    ASSUME AuthorityIInv, NEW t \in Names, SourceChanges(t),
           UNCHANGED <<file, generation, built, writerVars, broken, threadVars>>
    PROVE  AuthorityIInv'
  <1>1. /\ source' \in [Names -> Nat]
        /\ \A s \in Names : /\ source[s] \in Nat /\ source'[s] \in 1 .. MaxVersion
                            /\ source[s] <= source'[s]
    BY AuthorityBounds DEF SourceChanges, AuthorityIInv, TypeOK, SourceOK
  <1>2. TypeOK'
    BY <1>1 DEF AuthorityIInv, TypeOK, writerVars, threadVars
  <1>3. SourceOK'
    <2> SUFFICES ASSUME NEW s \in Names, NEW g \in 0 .. MaxGeneration
                 PROVE  built[g][s] <= source'[s]
      BY <1>1 DEF SourceOK
    <2>1. built[g][s] \in Nat /\ built[g][s] <= source[s] /\ source'[s] \in Nat
      BY <1>1 DEF AuthorityIInv, TypeOK, SourceOK
    <2> QED
      BY <2>1, <1>1
  <1>4. Loading' = Loading
    BY DEF Loading, Present, writerVars
  <1>5. FileOK' /\ \A x \in Threads : ThreadOK(x)'
    BY <1>4 DEF AuthorityIInv, FileOK, ThreadOK, Whole, threadVars
  <1>6. ASSUME NEW w \in Writers PROVE WriterOK(w)'
    <2>1. /\ WriterOK(w) /\ wbegan[w] \in Nat
          /\ \A s \in Names : wvers[w][s] \in Nat
          /\ wpc[w] \in Active => Present(w) \in Names
      BY WriterFacts
    <2>2. \A s \in Names : wvers[w][s] <= source'[s]
      <3> SUFFICES ASSUME NEW s \in Names PROVE wvers[w][s] <= source'[s]
        OBVIOUS
      <3>1. wvers[w][s] <= source[s] /\ wvers[w][s] \in Nat /\ source'[s] \in Nat
        BY <2>1, <1>1 DEF WriterOK
      <3> QED
        BY <3>1, <1>1
    <2>3. PresentOK(w)'
      <3> DEFINE p == Present(w)
      <3>1. Present(w)' = p /\ PresentOK(w)
        BY <2>1 DEF Present, writerVars, WriterOK
      <3>2. wpc[w] \in {"clean", "open"} => wbegan[w] <= source'[p]
        <4> SUFFICES ASSUME wpc[w] \in {"clean", "open"} PROVE wbegan[w] <= source'[p]
          OBVIOUS
        <4>1. p \in Names /\ wbegan[w] <= source[p]
          BY <2>1, <3>1 DEF Active, PresentOK
        <4>2. source'[p] \in Nat /\ source[p] \in Nat /\ source[p] <= source'[p]
          BY <4>1, <1>1
        <4> QED
          BY <4>1, <4>2, <2>1
      <3> QED
        BY <3>1, <3>2 DEF PresentOK, writerVars
    <2> QED
      BY <2>1, <2>2, <2>3 DEF WriterOK, Left, Whole, writerVars
  <1> QED
    BY <1>2, <1>3, <1>5, <1>6 DEF AuthorityIInv

LEMMA AuthorityStep ==
    ASSUME OneWriter
    PROVE  AuthorityIInv /\ [Next]_vars => AuthorityIInv'
  <1> SUFFICES ASSUME AuthorityIInv, [Next]_vars PROVE AuthorityIInv'
    OBVIOUS
  <1>1. CASE \E w \in Writers : WriterStep(w) /\ UNCHANGED threadVars
    BY <1>1, WriterStepPreserves
  <1>2. CASE \E x \in Threads :
               ThreadStep(x) /\ UNCHANGED <<source, file, generation, built, writerVars, broken>>
    BY <1>2, ThreadStepPreserves
  <1>3. CASE \E t \in Names :
               /\ SourceChanges(t)
               /\ UNCHANGED <<file, generation, built, writerVars, broken, threadVars>>
    BY <1>3, SourceChangesPreserves
  <1>4. CASE UNCHANGED vars
    <2>1. Loading' = Loading
      BY <1>4 DEF Loading, Present, vars, writerVars
    <2> QED
      BY <1>4, <2>1 DEF AuthorityIInv, TypeOK, SourceOK, FileOK, WriterOK, PresentOK, Present,
         Left, ThreadOK, Whole, vars, writerVars, threadVars
  <1> QED
    BY <1>1, <1>2, <1>3, <1>4 DEF Next

-----------------------------------------------------------------------------
(***************************************************************************)
(* Theorems                                                                *)
(***************************************************************************)

LEMMA AuthorityInvariant == OneWriter => (Spec => []AuthorityIInv)
  <1> SUFFICES ASSUME OneWriter PROVE Spec => []AuthorityIInv
    OBVIOUS
  <1>1. AuthorityIInv /\ [Next]_vars => AuthorityIInv'
    BY AuthorityStep
  <1> QED
    BY <1>1, AuthorityInitially, PTL DEF Spec

\* Writers one at a time: the copy a thread makes has every table whole, but
\* for those that were being loaded or were left broken (rebuild in
\* thread_clone.rs, load_one_table in loader.rs).
THEOREM CopiesAreWhole == OneWriter => (Spec => []CopiesInv)
  <1> SUFFICES ASSUME OneWriter PROVE Spec => []CopiesInv
    OBVIOUS
  <1>1. AuthorityIInv => CopiesInv
    BY DEF AuthorityIInv, ThreadOK, CopiesInv, CopiesWhole
  <1> QED
    BY <1>1, AuthorityInvariant, PTL

\* Writers one at a time: a query sees nothing older than what the load of its
\* generation read (should_rebuild in thread_clone.rs).
THEOREM QueriesSeeTheReload == OneWriter => (Spec => []ReloadIsSeen)
  <1> SUFFICES ASSUME OneWriter PROVE Spec => []ReloadIsSeen
    OBVIOUS
  <1>1. ASSUME AuthorityIInv PROVE ReloadIsSeen
    <2> SUFFICES ASSUME NEW x \in Threads, qpc[x] = "done", NEW t \in Names,
                        NEW k \in 1 .. Len(copy[x].data[t])
                 PROVE  copy[x].data[t][k].version >= built[qgen[x]][t]
      BY DEF ReloadIsSeen
    <2>1. built[qgen[x]][t] <= copy[x].data[t][k].version
      BY <1>1 DEF AuthorityIInv, ThreadOK
    <2> QED
      BY <2>1
  <1> QED
    BY <1>1, AuthorityInvariant, PTL

\* Writers one at a time: a reload returns one whole version of its table, not
\* older than the data file was when it began (reload_table_rows in loader.rs).
THEOREM ReloadsReturnTheSource == OneWriter => (Spec => []ReloadReturnsSource)
  <1> SUFFICES ASSUME OneWriter PROVE Spec => []ReloadReturnsSource
    OBVIOUS
  <1>1. ASSUME AuthorityIInv PROVE ReloadReturnsSource
    <2> SUFFICES ASSUME NEW w \in Writers, wpc[w] = "returned"
                 PROVE  Whole(wrows[w]) /\ wrows[w][1].version >= wbegan[w]
      BY DEF ReloadReturnsSource
    <2>1. Whole(wrows[w]) /\ wbegan[w] <= wrows[w][1].version
      BY <1>1 DEF AuthorityIInv, WriterOK
    <2> QED
      BY <2>1
  <1> QED
    BY <1>1, AuthorityInvariant, PTL
=============================================================================
