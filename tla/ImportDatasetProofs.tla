------------------------ MODULE ImportDatasetProofs ------------------------
(***************************************************************************)
(* Readers see whole datasets, for any number of datasets, keys, runs and  *)
(* versions: ImportInv is inductive, and the import implements the         *)
(* abstract publication.                                                   *)
(***************************************************************************)
EXTENDS ImportDataset, FiniteSetTheorems, SequenceTheorems, TLAPS

\* A set of keys has a number of elements.
LEMMA KeysCount == ASSUME NEW S, S \subseteq Keys PROVE Cardinality(S) \in Nat
BY KeysFinite, FS_Subset, FS_CardinalityType

\* The constants as members of their sets
LEMMA Domains ==
  /\ NoCsv \in Csvs /\ NoRow \in Rows /\ NoTx \in [open : BOOLEAN, statistics : [Keys -> Rows], runs : Seq(Runs)]
  /\ \A d \in Datasets : Scope(d) \subseteq Keys
BY MaxRunsAssumption, MaxVersionsAssumption DEF NoCsv, NoRow, NoTx, Csvs, Rows, Scope

\* A staged row is a row, and not a missing one.
LEMMA StagedRows ==
  ASSUME ImportInv, pc \in InTx
  PROVE  StagedRow \in Rows /\ StagedRow # NoRow /\ StagedRow.run = run /\ run \in 1..Len(runs)
<1>1. run \in 1..Len(runs) /\ run \in 0..MaxRuns /\ run # 0 /\ runs[run] \in Runs
  BY DEF ImportInv, TypeOK, RunIsOpen
<1> QED BY <1>1 DEF ImportInv, TypeOK, StagedRow, Rows, Runs, Csvs, NoRow

\* ImportInv holds initially.
LEMMA InitHasInv == Init => ImportInv
<1> SUFFICES ASSUME Init PROVE ImportInv
  OBVIOUS
<1>1. TypeOK
  BY Domains, MaxRunsAssumption DEF Init, TypeOK
<1>2. ServesLatestPublished
  <2>1. \A d \in Datasets : Present(d) = {} /\ Published(d) = {}
    BY Domains DEF Init, Present, Published
  <2> QED BY <2>1 DEF ServesLatestPublished
<1>3. KeysInScope /\ RunIsOpen /\ TxSoFar
  BY MaxRunsAssumption DEF Init, KeysInScope, RunIsOpen, TxSoFar, InTx, NoCsv
<1> QED BY <1>1, <1>2, <1>3 DEF ImportInv

-----------------------------------------------------------------------------
(* The steps *)

\* What is served depends on the committed tables only.
LEMMA TablesServe ==
  ASSUME ServesLatestPublished, UNCHANGED tables
  PROVE  ServesLatestPublished'
BY DEF ServesLatestPublished, Present, Published, tables

\* A new file keeps the invariant.
LEMMA ReplaceCsvKeepsInv ==
  ASSUME ImportInv, NEW d \in Datasets, ReplaceCsv(d)
  PROVE  ImportInv'
<1> USE DEF ReplaceCsv, ImportInv, locals, tables
<1>1. TypeOK'
  BY Domains, MaxVersionsAssumption DEF TypeOK, Csvs
<1>2. ServesLatestPublished'
  BY TablesServe
<1>3. KeysInScope'
  BY DEF KeysInScope, TypeOK, Scope
<1>4. RunIsOpen' /\ TxSoFar'
  BY DEF RunIsOpen, TxSoFar, Replaced, PublishedRun, StagedRow, Scope
<1> QED BY <1>1, <1>2, <1>3, <1>4

\* So do the steps up to the transaction.
LEMMA PrepareKeepsInv ==
  ASSUME ImportInv, (\E d \in Datasets : Open(d)) \/ LoadCsv \/ Stage \/ Begin
  PROVE  ImportInv'
<1> USE DEF ImportInv, locals, tables, files
<1>1. UNCHANGED <<csv, statistics, runs, run>>
  BY DEF Open, LoadCsv, Stage, Begin
<1>2. TypeOK'
  <2>1. CASE \E d \in Datasets : Open(d)
    BY <2>1 DEF TypeOK, Open, Before, InTx
  <2>2. CASE LoadCsv
    BY <2>2 DEF TypeOK, LoadCsv, Before, InTx
  <2>3. CASE Stage
    BY <2>3 DEF TypeOK, Stage, Before, InTx, Csvs
  <2>4. CASE Begin
    BY <2>4 DEF TypeOK, Begin, Before, InTx
  <2> QED BY <2>1, <2>2, <2>3, <2>4
<1>3. ServesLatestPublished'
  BY <1>1, TablesServe
<1>4. KeysInScope'
  <2>1. CASE \E d \in Datasets : Open(d)
    BY <2>1 DEF KeysInScope, Open, InTx, TypeOK, Scope
  <2>2. CASE LoadCsv
    BY <2>2 DEF KeysInScope, LoadCsv, InTx, TypeOK, Scope
  <2>3. CASE Stage
    BY <2>3 DEF KeysInScope, Stage, InTx, Scope
  <2>4. CASE Begin
    BY <2>4 DEF KeysInScope, Begin, InTx, Scope
  <2> QED BY <2>1, <2>2, <2>3, <2>4
<1>5. RunIsOpen'
  BY <1>1 DEF RunIsOpen, Open, LoadCsv, Stage, Begin, Before, InTx
<1>6. TxSoFar'
  BY <1>1 DEF TxSoFar, Open, LoadCsv, Stage, Begin, InTx
<1> QED BY <1>2, <1>3, <1>4, <1>5, <1>6

\* A new run is the newest.
LEMMA CreateRunKeepsInv == ASSUME ImportInv, CreateRun PROVE ImportInv'
<1> USE DEF CreateRun, ImportInv
<1> DEFINE new == [dataset |-> ds, dataVersion |-> csv[ds].version, status |-> "started", rowCount |-> 0]
<1>1. /\ new \in Runs /\ Len(runs) \in Nat /\ runs' = Append(runs, new)
      /\ Len(runs') = Len(runs) + 1 /\ Len(runs') <= MaxRuns
      /\ \A r \in 1..Len(runs) : runs'[r] = runs[r]
      /\ runs'[Len(runs')] = new
  <2>1. csv[ds] \in Csvs /\ runs \in Seq(Runs) /\ ds \in Datasets
    BY DEF TypeOK
  <2>2. new \in Runs
    BY <2>1 DEF Runs, Csvs
  <2>3. runs' = Append(runs, new) /\ Len(runs) < MaxRuns
    BY DEF RunIsOpen
  <2> HIDE DEF new
  <2> QED BY <2>1, <2>2, <2>3, MaxRunsAssumption
<1>2. TypeOK'
  BY <1>1, MaxRunsAssumption DEF TypeOK, Before, files, InTx
<1>3. ServesLatestPublished'
  <2>1. \A d \in Datasets : Present(d)' = Present(d) /\ Published(d)' = Published(d)
    BY <1>1 DEF Present, Published
  <2>2. \A d \in Datasets : Published(d) \subseteq 1..Len(runs)
    BY DEF Published
  <2> QED BY <1>1, <2>1, <2>2 DEF ServesLatestPublished
<1>4. KeysInScope'
  BY DEF KeysInScope, InTx, files, Scope
<1>5. RunIsOpen' /\ TxSoFar'
  BY <1>1 DEF RunIsOpen, TxSoFar, InTx, TypeOK
<1> QED BY <1>2, <1>3, <1>4, <1>5

\* The statements of the transaction build what is to be published, and touch
\* nothing that is served.
LEMMA InTxKeepsInv ==
  ASSUME ImportInv, InsertRows \/ DeleteStale \/ MarkPublished
  PROVE  ImportInv'
<1> USE DEF ImportInv
<1>1. UNCHANGED <<csv, tables, locals>>
  BY DEF InsertRows, DeleteStale, MarkPublished, files
<1>2. StagedRow \in Rows /\ run \in 1..Len(runs) /\ tx.runs = runs /\ pc \in InTx
  BY StagedRows DEF InsertRows, DeleteStale, MarkPublished, TxSoFar, InTx
<1>3. Cardinality(stage) \in Nat
  BY KeysCount DEF TypeOK
<1>4. TypeOK'
  <2>1. CASE InsertRows
    BY <1>1, <1>2, <2>1 DEF TypeOK, InsertRows, tables, locals, InTx
  <2>2. CASE DeleteStale
    BY <1>1, <2>2, Domains DEF TypeOK, DeleteStale, tables, locals, InTx
  <2>3. CASE MarkPublished
    <3>1. tx'.open = tx.open /\ tx'.statistics = tx.statistics /\ tx' \in [open : BOOLEAN, statistics : [Keys -> Rows], runs : Seq(Runs)]
      <4>1. runs[run] \in Runs
        BY <1>2 DEF TypeOK
      <4>2. PublishedRun(runs[run]) \in Runs
        BY <1>3, <4>1 DEF PublishedRun, Runs
      <4>3. runs \in Seq(Runs)
        BY DEF TypeOK
      <4> DEFINE marked == [runs EXCEPT ![run] = PublishedRun(runs[run])]
      <4>4. marked \in Seq(Runs)
        BY <1>2, <4>2, <4>3
      <4>5. tx' = [tx EXCEPT !.runs = marked]
        BY <1>2, <2>3 DEF MarkPublished
      <4> HIDE DEF marked
      <4> QED BY <4>4, <4>5 DEF TypeOK
    <3> QED BY <1>1, <2>3, <3>1 DEF TypeOK, MarkPublished, tables, locals, InTx
  <2> QED BY <2>1, <2>2, <2>3
<1>5. ServesLatestPublished'
  BY <1>1, TablesServe
<1>6. KeysInScope'
  BY <1>1, <1>2 DEF KeysInScope, locals, Scope, InTx, InsertRows, DeleteStale, MarkPublished
<1>7. RunIsOpen'
  BY <1>1, <1>2 DEF RunIsOpen, tables, locals, InTx, InsertRows, DeleteStale, MarkPublished
<1>8. TxSoFar'
  <2>1. CASE InsertRows
    BY <1>1, <1>2, <2>1 DEF TxSoFar, InsertRows, tables, locals, StagedRow, TypeOK
  <2>2. CASE DeleteStale
    BY <1>1, <1>2, <2>2 DEF TxSoFar, DeleteStale, tables, locals, Replaced, StagedRow, TypeOK, Scope
  <2>3. CASE MarkPublished
    <3>1. tx'.statistics = tx.statistics
      BY <2>3 DEF MarkPublished, TypeOK
    <3>2. tx'.runs = [runs EXCEPT ![run] = PublishedRun(runs[run])]
      BY <1>2, <2>3 DEF MarkPublished, TypeOK
    <3> QED BY <1>1, <2>3, <3>1, <3>2 DEF TxSoFar, MarkPublished, PublishedRun, tables, locals, Replaced, StagedRow, Scope
  <2> QED BY <2>1, <2>2, <2>3
<1> QED BY <1>4, <1>5, <1>6, <1>7, <1>8

\* What a commit does to the tables: the run's dataset is served from the run,
\* with the staged keys, and the others as before.
LEMMA CommitPublishes ==
  ASSUME ImportInv, Commit
  PROVE  /\ run = Len(runs) /\ run \in 1..Len(runs) /\ run \in 0..MaxRuns
         /\ runs[run].dataset = ds /\ runs[run].status = "started"
         /\ runs' = [runs EXCEPT ![run] = PublishedRun(runs[run])]
         /\ runs'[run].dataset = ds /\ runs'[run].status = "published"
         /\ runs'[run].rowCount = Cardinality(stage)
         /\ stage # {} /\ stage \subseteq Scope(ds)
         /\ \A k \in Keys : statistics'[k] = Replaced(k)
         /\ ds' = ds /\ Present(ds)' = stage
         /\ \A d \in Datasets \ {ds} : Present(d)' = Present(d) /\ Scope(d) \cap Scope(ds) = {}
<1> USE DEF ImportInv
<1>1. /\ pc \in InTx /\ pc = "marked" /\ statistics' = tx.statistics /\ runs' = tx.runs
      /\ UNCHANGED <<ds, run, stage, raw>>
  BY DEF Commit, InTx, locals
<1>2. /\ run = Len(runs) /\ run \in 1..Len(runs) /\ run \in 0..MaxRuns /\ runs[run] \in Runs
      /\ runs[run].dataset = ds /\ runs[run].status = "started"
  BY <1>1, StagedRows DEF RunIsOpen, TypeOK
<1>3. runs' = [runs EXCEPT ![run] = PublishedRun(runs[run])]
  BY <1>1 DEF TxSoFar
<1>4. runs'[run] = PublishedRun(runs[run])
  BY <1>2, <1>3 DEF TypeOK
<1>5. /\ runs'[run].dataset = ds /\ runs'[run].status = "published"
      /\ runs'[run].rowCount = Cardinality(stage)
  BY <1>2, <1>4 DEF PublishedRun, Runs
<1>6. stage # {} /\ stage \subseteq Scope(ds)
  BY <1>1 DEF KeysInScope
<1>7. \A k \in Keys : statistics'[k] = Replaced(k)
  BY <1>1 DEF TxSoFar
<1>8. StagedRow # NoRow
  BY <1>1, StagedRows
<1>9. Present(ds)' = stage
  <2>1. Present(ds)' = {k \in Scope(ds) : statistics'[k] # NoRow}
    BY <1>1 DEF Present, Scope
  <2>2. \A k \in Scope(ds) : k \in Keys /\ (statistics'[k] # NoRow <=> k \in stage)
    BY <1>7, <1>8 DEF Replaced, Scope
  <2> QED BY <1>6, <2>1, <2>2
<1>10. \A d \in Datasets \ {ds} : Scope(d) \cap Scope(ds) = {}
  BY DEF Scope
<1>11. \A d \in Datasets \ {ds} : Present(d)' = Present(d)
  BY <1>6, <1>7, <1>10, Domains DEF Present, Replaced
<1> QED BY <1>1, <1>2, <1>3, <1>5, <1>6, <1>7, <1>9, <1>10, <1>11

\* A commit serves the dataset of the run, and leaves the others alone.
LEMMA CommitKeepsInv == ASSUME ImportInv, Commit PROVE ImportInv'
<1> USE DEF ImportInv
<1>1. UNCHANGED <<csv, locals>> /\ pc' = "closing" /\ tx' = NoTx /\ runs' = tx.runs /\ statistics' = tx.statistics
  BY DEF Commit, files
<1>2. Len(runs') = Len(runs) /\ \A r \in 1..Len(runs) : r # run => runs'[r] = runs[r]
  BY CommitPublishes DEF TypeOK
<1>3. TypeOK'
  BY <1>1, Domains DEF TypeOK, locals
<1>4. ASSUME NEW d \in Datasets
      PROVE  /\ Present(d)' = {} <=> Published(d)' = {}
             /\ \A r \in Published(d)' :
                  \/ \E q \in Published(d)' : q > r
                  \/ /\ \A k \in Present(d)' : statistics'[k].run = r
                     /\ runs'[r].rowCount = Cardinality(Present(d)')
  <2>1. CASE d = ds
    <3>1. run \in Published(d)' /\ \A r \in Published(d)' : r # run => run > r
      BY <1>2, <2>1, CommitPublishes DEF Published, TypeOK
    <3>2. \A k \in stage : statistics'[k].run = run
      BY CommitPublishes, Domains, StagedRows DEF Replaced, StagedRow, Commit, InTx, TypeOK
    <3>3. Present(d)' = stage /\ stage # {} /\ runs'[run].rowCount = Cardinality(stage)
      BY <2>1, CommitPublishes DEF Present, Scope
    <3> QED BY <3>1, <3>2, <3>3
  <2>2. CASE d # ds
    <3>1. Published(d)' = Published(d) /\ \A r \in Published(d) : r # run /\ runs'[r] = runs[r]
      BY <1>2, <2>2, CommitPublishes DEF Published
    <3>2. Present(d)' = Present(d) /\ \A k \in Present(d) : k \in Keys /\ k \notin Scope(ds)
      BY <2>2, CommitPublishes, Domains DEF Present
    <3>3. \A k \in Present(d) : statistics'[k] = statistics[k]
      BY <3>2, CommitPublishes DEF Replaced
    <3> QED BY <3>1, <3>2, <3>3 DEF ServesLatestPublished
  <2> QED BY <2>1, <2>2
<1>5. ServesLatestPublished'
  BY <1>4 DEF ServesLatestPublished
<1>6. KeysInScope' /\ RunIsOpen' /\ TxSoFar'
  BY <1>1, <1>2 DEF KeysInScope, RunIsOpen, TxSoFar, InTx, locals, Scope
<1> QED BY <1>3, <1>5, <1>6

\* An await that rejects keeps the invariant.
LEMMA ThrowKeepsInv == ASSUME ImportInv, Throw \/ ThrowInTx PROVE ImportInv'
<1> USE DEF ImportInv
<1>1. /\ UNCHANGED <<csv, tables, locals>> /\ pc' \in {"failing", "closing"} /\ tx' \in {NoTx, tx}
      /\ pc' = "failing" => pc \in {"created", "loaded", "staged"} \cup InTx
  BY DEF Throw, ThrowInTx, files, Before
<1>2. TypeOK'
  BY <1>1, Domains DEF TypeOK, tables, locals
<1>3. ServesLatestPublished'
  BY <1>1, TablesServe
<1>4. KeysInScope' /\ RunIsOpen' /\ TxSoFar'
  BY <1>1 DEF KeysInScope, RunIsOpen, TxSoFar, InTx, tables, locals, Scope
<1> QED BY <1>2, <1>3, <1>4

\* Marking the run failed changes its status, which was not published.
LEMMA MarkFailedKeepsInv == ASSUME ImportInv, MarkFailed PROVE ImportInv'
<1> USE DEF ImportInv
<1>1. /\ UNCHANGED <<csv, statistics, tx, locals>> /\ pc = "failing" /\ pc' = "closing"
      /\ runs' = runs \/ runs' = [runs EXCEPT ![run] = [runs[run] EXCEPT !.status = "failed"]]
  BY DEF MarkFailed, files
<1>2. run \in 1..Len(runs) /\ runs[run] \in Runs /\ runs[run].status = "started"
  BY <1>1 DEF RunIsOpen, TypeOK
<1>3. /\ runs' \in Seq(Runs) /\ Len(runs') = Len(runs)
      /\ \A r \in 1..Len(runs) : r # run => runs'[r] = runs[r]
      /\ runs'[run].status # "published"
  <2> DEFINE failed == [runs[run] EXCEPT !.status = "failed"]
  <2>1. failed \in Runs /\ failed.status = "failed"
    BY <1>2 DEF Runs
  <2>2. runs' = runs \/ runs' = [runs EXCEPT ![run] = failed]
    BY <1>1
  <2>3. runs \in Seq(Runs)
    BY DEF TypeOK
  <2> HIDE DEF failed
  <2> QED BY <1>2, <2>1, <2>2, <2>3
<1>4. TypeOK'
  BY <1>1, <1>3 DEF TypeOK, locals
<1>5. \A d \in Datasets : Published(d)' = Published(d) /\ Present(d)' = Present(d)
  BY <1>1, <1>2, <1>3 DEF Published, Present
<1>6. \A d \in Datasets : \A r \in Published(d) : runs'[r] = runs[r]
  BY <1>2, <1>3 DEF Published
<1>7. ServesLatestPublished'
  BY <1>1, <1>5, <1>6 DEF ServesLatestPublished
<1>8. KeysInScope' /\ RunIsOpen' /\ TxSoFar'
  BY <1>1, <1>3 DEF KeysInScope, RunIsOpen, TxSoFar, InTx, locals, Scope
<1> QED BY <1>4, <1>7, <1>8

\* The end of an import, in whatever way, keeps the invariant.
LEMMA EndKeepsInv == ASSUME ImportInv, Close \/ Crash \/ UNCHANGED vars PROVE ImportInv'
<1> USE DEF ImportInv
<1>1. CASE Close \/ Crash
  <2>1. /\ UNCHANGED <<csv, tables, ds>> /\ pc' = "idle" /\ tx' = NoTx
        /\ run' = 0 /\ raw' = NoCsv /\ stage' = {}
    BY <1>1 DEF Close, Crash, files
  <2>2. TypeOK'
    BY <2>1, Domains, MaxRunsAssumption DEF TypeOK, tables
  <2>3. ServesLatestPublished'
    BY <2>1, TablesServe
  <2>4. KeysInScope' /\ RunIsOpen' /\ TxSoFar'
    BY <2>1 DEF KeysInScope, RunIsOpen, TxSoFar, InTx, tables, Scope, NoCsv
  <2> QED BY <2>2, <2>3, <2>4
<1>2. CASE UNCHANGED vars
  <2>1. ServesLatestPublished'
    BY <1>2, TablesServe DEF vars, tables
  <2>2. TypeOK'
    BY <1>2 DEF vars, TypeOK
  <2>3. KeysInScope' /\ RunIsOpen' /\ TxSoFar'
    BY <1>2 DEF vars, KeysInScope, RunIsOpen, TxSoFar, Replaced, PublishedRun, StagedRow, Scope
  <2> QED BY <2>1, <2>2, <2>3
<1> QED BY <1>1, <1>2

\* ImportInv is preserved by every step.
LEMMA NextKeepsInv == ImportInv /\ [Next]_vars => ImportInv'
<1> SUFFICES ASSUME ImportInv, [Next]_vars PROVE ImportInv'
  OBVIOUS
<1> QED
  BY ReplaceCsvKeepsInv, PrepareKeepsInv, CreateRunKeepsInv, InTxKeepsInv, CommitKeepsInv,
     ThrowKeepsInv, MarkFailedKeepsInv, EndKeepsInv DEF Next

-----------------------------------------------------------------------------
\* The inductive invariant of the import.
THEOREM ImportInvariant == Spec => []ImportInv
BY InitHasInv, NextKeepsInv, PTL DEF Spec

\* Every variable of the import stays in its domain.
THEOREM ImportTypes == Spec => []TypeOK
<1>1. ImportInv => TypeOK
  BY DEF ImportInv
<1> QED BY <1>1, ImportInvariant, PTL

\* Each dataset is served whole, from the run that published it last.
THEOREM ReadersSeeWholeDatasets == Spec => []ServesLatestPublished
<1>1. ImportInv => ServesLatestPublished
  BY DEF ImportInv
<1> QED BY <1>1, ImportInvariant, PTL

-----------------------------------------------------------------------------
(* The import implements the publication *)

\* What the readers see and the log of the runs, as the mapping has them
served == [d \in Datasets |-> {<<k, statistics[k].run>> : k \in Present(d)}]
log    == [r \in 1..Len(runs) |-> <<runs[r].dataset, runs[r].status>>]

\* Nothing is served and no run is known initially.
LEMMA InitMaps == Init => Store!Init
<1> SUFFICES ASSUME Init PROVE Store!Init
  OBVIOUS
<1>1. served = [d \in Datasets |-> {}]
  BY Domains DEF Init, served, Present
<1>2. log = <<>>
  BY DEF Init, log
<1> QED BY <1>1, <1>2 DEF Store!Init, served, log

\* Append as a function of the positions
LEMMA AppendIsFunction ==
  ASSUME NEW S, NEW seq \in Seq(S), NEW e
  PROVE  Append(seq, e) = [r \in 1..Len(seq) + 1 |-> IF r = Len(seq) + 1 THEN e ELSE seq[r]]
<1> DEFINE f == [r \in 1..Len(seq) + 1 |-> IF r = Len(seq) + 1 THEN e ELSE seq[r]]
<1>1. Append(seq, e) \in Seq(S \cup {e}) /\ Len(Append(seq, e)) = Len(seq) + 1
  OBVIOUS
<1>2. f \in Seq(S \cup {e}) /\ Len(f) = Len(seq) + 1
  OBVIOUS
<1>3. \A r \in 1..Len(seq) + 1 : Append(seq, e)[r] = f[r]
  OBVIOUS
<1> HIDE DEF f
<1>4. Append(seq, e) = f
  BY <1>1, <1>2, <1>3, SeqEqual
<1> QED BY <1>4 DEF f

\* A new run is a start.
LEMMA CreateRunMaps == ASSUME ImportInv, CreateRun PROVE Store!Start(ds)
<1> DEFINE new == [dataset |-> ds, dataVersion |-> csv[ds].version, status |-> "started", rowCount |-> 0]
<1>1. runs' = Append(runs, new) /\ runs \in Seq(Runs) /\ statistics' = statistics
  BY DEF CreateRun, ImportInv, TypeOK
<1>2. served' = served
  BY <1>1 DEF served, Present
<1>3. log' = Append(log, <<ds, "started">>)
  <2> DEFINE entry(r)  == <<runs[r].dataset, runs[r].status>>
             entries   == [r \in 1..Len(runs) |-> entry(r)]
             longer    == [r \in 1..Len(runs) + 1 |-> IF r = Len(runs) + 1 THEN <<ds, "started">> ELSE entry(r)]
  <2>1. Len(runs') = Len(runs) + 1 /\ Len(runs) \in Nat
        /\ runs'[Len(runs) + 1] = new /\ \A r \in 1..Len(runs) : runs'[r] = runs[r]
    BY <1>1
  <2>2. log' = longer
    <3>1. log' = [r \in 1..Len(runs') |-> <<runs'[r].dataset, runs'[r].status>>]
      BY DEF log
    <3>2. \A r \in 1..Len(runs') :
            <<runs'[r].dataset, runs'[r].status>> = IF r = Len(runs) + 1 THEN <<ds, "started">> ELSE entry(r)
      BY <2>1
    <3> HIDE DEF entry, new
    <3> QED BY <3>1, <3>2, <2>1
  <2>3. Append(entries, <<ds, "started">>) = longer
    <3> HIDE DEF entry
    <3>1. Len(runs) \in Nat
      BY <2>1
    <3>2. entries \in Seq({entry(r) : r \in 1..Len(runs)}) /\ Len(entries) = Len(runs)
      BY <3>1
    <3>3. Append(entries, <<ds, "started">>)
            = [r \in 1..Len(entries) + 1 |-> IF r = Len(entries) + 1 THEN <<ds, "started">> ELSE entries[r]]
      BY <3>2, AppendIsFunction
    <3> QED BY <3>2, <3>3
  <2>4. log = entries
    BY DEF log
  <2> QED BY <2>2, <2>3, <2>4
<1> QED BY <1>2, <1>3 DEF Store!Start, served, log

\* The log after a change of the newest run's status
LEMMA SettleMaps ==
  ASSUME runs \in Seq(Runs), run = Len(runs), run \in 1..Len(runs), runs[run].status = "started",
         NEW settled, settled.dataset = runs[run].dataset, runs' = [runs EXCEPT ![run] = settled]
  PROVE  Store!Settle(settled.status)
<1>1. Len(log) = Len(runs) /\ log # <<>> /\ log[Len(log)] = <<runs[run].dataset, "started">>
  BY DEF log
<1>2. Len(runs') = Len(runs) /\ runs'[run] = settled /\ \A r \in 1..Len(runs) : r # run => runs'[r] = runs[r]
  OBVIOUS
<1>3. log' = [log EXCEPT ![Len(log)] = <<runs[run].dataset, settled.status>>]
  <2> DEFINE entry(r)  == <<runs[r].dataset, runs[r].status>>
             changed   == <<runs[run].dataset, settled.status>>
             entryOf(r) == IF r = run THEN changed ELSE entry(r)
  <2>1. log' = [r \in 1..Len(runs) |-> entryOf(r)]
    <3>1. log' = [r \in 1..Len(runs') |-> <<runs'[r].dataset, runs'[r].status>>]
      BY DEF log
    <3>2. \A r \in 1..Len(runs) : <<runs'[r].dataset, runs'[r].status>> = entryOf(r)
      BY <1>2
    <3> HIDE DEF entryOf
    <3> QED BY <3>1, <3>2, <1>2
  <2>2. log = [r \in 1..Len(runs) |-> entry(r)]
    BY DEF log
  <2> HIDE DEF entry, changed
  <2>3. [log EXCEPT ![run] = changed] = [r \in 1..Len(runs) |-> entryOf(r)]
    BY <2>2
  <2>4. Len(log) = run
    BY <1>1
  <2> QED BY <2>1, <2>3, <2>4 DEF changed
<1> QED BY <1>1, <1>3 DEF Store!Settle, log

\* A commit is a publication.
LEMMA CommitMaps == ASSUME ImportInv, Commit PROVE Store!Publish
<1>1. runs \in Seq(Runs) /\ runs[run] \in Runs
  BY CommitPublishes DEF ImportInv, TypeOK
<1>2. PublishedRun(runs[run]).status = "published" /\ PublishedRun(runs[run]).dataset = runs[run].dataset
  BY <1>1 DEF PublishedRun, Runs
<1>3. Store!Settle("published")
  BY <1>1, <1>2, SettleMaps, CommitPublishes
<1>4. Len(log) = run /\ log[Len(log)][1] = ds
  BY <1>1, CommitPublishes DEF log
<1>5. \A k \in stage : k \in Keys /\ statistics'[k].run = run
  BY CommitPublishes, Domains, StagedRows DEF Replaced, StagedRow, Commit, InTx, ImportInv, TypeOK
<1>6. {<<k, statistics'[k].run>> : k \in stage} = stage \X {run}
  BY <1>5
<1>7. ASSUME NEW d \in Datasets \ {ds}
      PROVE  {<<k, statistics'[k].run>> : k \in Present(d)'} = {<<k, statistics[k].run>> : k \in Present(d)}
  <2>1. Present(d)' = Present(d) /\ \A k \in Present(d) : k \in Keys /\ k \notin Scope(ds)
    BY <1>7, CommitPublishes, Domains DEF Present
  <2>2. \A k \in Present(d) : statistics'[k] = statistics[k]
    BY <2>1, CommitPublishes DEF Replaced
  <2> QED BY <2>1, <2>2
<1>8. ds \in Datasets /\ Present(ds)' = stage /\ ds' = ds
  BY CommitPublishes DEF ImportInv, TypeOK
<1>9. served' = [served EXCEPT ![ds] = stage \X {run}]
  <2>1. ASSUME NEW d \in Datasets
        PROVE  served'[d] = IF d = ds THEN stage \X {run} ELSE served[d]
    <3>1. CASE d = ds
      BY <1>6, <1>8, <3>1 DEF served, Present, Scope
    <3>2. CASE d # ds
      BY <1>7, <3>2 DEF served
    <3> QED BY <3>1, <3>2
  <2> QED BY <2>1, <1>8 DEF served
<1>10. stage \in SUBSET Keys /\ stage # {}
  BY CommitPublishes, Domains DEF ImportInv, TypeOK
<1> QED BY <1>3, <1>4, <1>9, <1>10 DEF Store!Publish, served, log

\* Marking a run failed is a failure, or nothing if the mark is lost.
LEMMA MarkFailedMaps ==
  ASSUME ImportInv, MarkFailed
  PROVE  Store!Fail \/ UNCHANGED <<served, log>>
<1>1. runs \in Seq(Runs) /\ run = Len(runs) /\ run \in 1..Len(runs) /\ runs[run] \in Runs /\ runs[run].status = "started"
  BY DEF ImportInv, TypeOK, RunIsOpen, MarkFailed
<1>2. served' = served
  BY DEF MarkFailed, served, Present
<1>3. CASE runs' = runs
  BY <1>2, <1>3 DEF log
<1>4. CASE runs' # runs
  <2> DEFINE failed == [runs[run] EXCEPT !.status = "failed"]
  <2>1. runs' = [runs EXCEPT ![run] = failed]
    BY <1>4 DEF MarkFailed
  <2>2. failed.status = "failed" /\ failed.dataset = runs[run].dataset
    BY <1>1 DEF Runs
  <2> HIDE DEF failed
  <2>3. Store!Settle("failed")
    BY <1>1, <2>1, <2>2, SettleMaps
  <2> QED BY <1>2, <2>3 DEF Store!Fail, served
<1> QED BY <1>3, <1>4

\* Every step is a step of the publication, or none.
LEMMA NextMaps == ImportInv /\ [Next]_vars => [Store!Next]_(Store!vars)
<1> SUFFICES ASSUME ImportInv, [Next]_vars PROVE Store!Next \/ UNCHANGED <<served, log>>
  BY DEF Store!vars, served, log
<1>1. CASE CreateRun
  <2>1. Store!Start(ds) /\ ds \in Datasets
    BY <1>1, CreateRunMaps DEF ImportInv, TypeOK
  <2>2. \E d \in Datasets : Store!Start(d)
    BY <2>1, Zenon DEF Store!Start
  <2> QED BY <2>2 DEF Store!Next
<1>2. CASE Commit
  BY <1>2, CommitMaps DEF Store!Next
<1>3. CASE MarkFailed
  BY <1>3, MarkFailedMaps DEF Store!Next
<1>4. CASE ~CreateRun /\ ~Commit /\ ~MarkFailed
  <2>1. UNCHANGED tables
    BY <1>4 DEF Next, ReplaceCsv, Open, LoadCsv, Stage, Begin, InsertRows, DeleteStale, MarkPublished,
                Throw, ThrowInTx, Close, Crash, vars, tables
  <2> QED BY <2>1 DEF tables, served, log, Present
<1> QED BY <1>1, <1>2, <1>3, <1>4

\* The import implements the publication of whole datasets.
THEOREM ImportPublishes == Spec => ImplementsPublication
BY InitMaps, NextMaps, ImportInvariant, PTL DEF Spec, ImplementsPublication, Store!Spec

-----------------------------------------------------------------------------
(* What a step can never do *)

\* A dataset that has rows never loses the last of them, not for a moment: no
\* failure, crash or stale-row cleanup empties what is served.
THEOREM DatasetsStayServed == Spec => [][\A d \in Datasets : Present(d) # {} => Present(d)' # {}]_vars
<1> DEFINE Stays == \A d \in Datasets : Present(d) # {} => Present(d)' # {}
<1>1. ASSUME ImportInv, Next PROVE Stays
  <2>1. CASE Commit
    <3>1. ds' = ds /\ Present(ds)' # {} /\ \A d \in Datasets \ {ds} : Present(d)' = Present(d)
      BY <1>1, <2>1, CommitPublishes
    <3>2. \A d \in Datasets : d = ds => Present(d)' # {}
      BY <3>1 DEF Present, Scope
    <3> QED BY <3>1, <3>2
  <2>2. CASE ~Commit
    <3>1. statistics' = statistics
      BY <1>1, <2>2 DEF Next, ReplaceCsv, Open, CreateRun, LoadCsv, Stage, Begin, InsertRows, DeleteStale,
                        MarkPublished, Throw, ThrowInTx, MarkFailed, Close, Crash, tables
    <3> QED BY <3>1 DEF Present
  <2> QED BY <2>1, <2>2
<1>2. ImportInv /\ [Next]_vars => [Stays]_vars
  BY <1>1
<1> QED BY <1>2, ImportInvariant, PTL DEF Spec

\* A run that is published or failed stays so, with its file, and none is
\* forgotten: only the run of the importer changes, while it is started.
THEOREM SettledRunsStay ==
  Spec => [][/\ Len(runs') >= Len(runs)
             /\ \A r \in 1..Len(runs) : runs[r].status # "started" => runs'[r] = runs[r]]_vars
<1> DEFINE Stay == /\ Len(runs') >= Len(runs)
                   /\ \A r \in 1..Len(runs) : runs[r].status # "started" => runs'[r] = runs[r]
<1>1. ASSUME ImportInv, Next PROVE Stay
  <2>1. runs \in Seq(Runs) /\ Len(runs) \in Nat
    BY <1>1 DEF ImportInv, TypeOK
  <2>2. CASE Commit
    BY <1>1, <2>1, <2>2, CommitPublishes
  <2>3. CASE CreateRun
    <3>1. PICK new : runs' = Append(runs, new)
      BY <2>3 DEF CreateRun
    <3> QED BY <2>1, <3>1
  <2>4. CASE MarkFailed
    <3>1. PICK failed : runs' = runs \/ runs' = [runs EXCEPT ![run] = failed]
      BY <2>4 DEF MarkFailed
    <3>2. run \in 1..Len(runs) /\ runs[run].status = "started"
      BY <1>1, <2>1, <2>4 DEF ImportInv, RunIsOpen, MarkFailed
    <3> QED BY <2>1, <3>1, <3>2
  <2>5. CASE ~Commit /\ ~CreateRun /\ ~MarkFailed
    <3>1. runs' = runs
      BY <1>1, <2>5 DEF Next, ReplaceCsv, Open, LoadCsv, Stage, Begin, InsertRows, DeleteStale,
                        MarkPublished, Throw, ThrowInTx, Close, Crash, tables
    <3> QED BY <2>1, <3>1
  <2> QED BY <2>2, <2>3, <2>4, <2>5
<1>2. ImportInv /\ [Next]_vars => [Stay]_vars
  BY <1>1
<1> QED BY <1>2, ImportInvariant, PTL DEF Spec
=============================================================================
