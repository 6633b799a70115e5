-------------------------- MODULE MigrationsProofs --------------------------
(***************************************************************************)
(* What the migrate job and the start check guarantee for any releases,    *)
(* whatever their manifests: MigrationsInv is inductive, and from it the   *)
(* promises follow.                                                        *)
(***************************************************************************)
EXTENDS Migrations, TLAPS

\* MigrationsInv holds initially.
LEMMA InitHasInv == Init => MigrationsInv
<1> SUFFICES ASSUME Init PROVE MigrationsInv
  OBVIOUS
<1> USE DEF Init, NoRecord, NoSchema
<1>1. NoRecord \in [Versions -> Nat] /\ NoSchema \in [Versions -> Seq(Nat)]
  OBVIOUS
<1>2. TypeOK
  <2>1. tx \in [record : [Versions -> Nat], schema : [Versions -> Seq(Nat)]]
    BY <1>1
  <2>2. record \in [Versions -> Nat] /\ schema \in [Versions -> Seq(Nat)]
         /\ applied \in [Versions -> Nat]
    BY <1>1
  <2>3. release \in Releases /\ owner = "none" /\ hasTable = FALSE /\ pc = "idle" /\ at \in 0..MaxVersion
    BY MaxVersionAssumption
  <2> HIDE DEF Init
  <2> QED BY <2>1, <2>2, <2>3 DEF TypeOK
<1>3. RecordIsSchema
  BY DEF RecordIsSchema, Once
<1> QED
  BY <1>2, <1>3 DEF MigrationsInv, MigratedIsCurrent, ServingIsCurrent, TxAhead, LoopIsRight, InTx

\* A step that leaves the committed tables, the release and the loop's locals
\* alone, and ends the job or does not touch it, keeps the invariant.
LEMMA QuietKeepsInv ==
  ASSUME MigrationsInv,
         UNCHANGED <<release, table, tx, applied, at>>,
         \/ owner' = "none" /\ pc' = "idle"
         \/ pc' = pc /\ owner # "migrate" /\ owner' = "none"
         \/ pc' = pc /\ owner # "migrate" /\ owner' = "api" /\ UpToDate
         \/ pc' = pc /\ owner' = owner
         \/ pc \in {"idle", "done"} /\ pc' = "opened" /\ owner' = "migrate"
  PROVE  MigrationsInv'
<1> USE DEF MigrationsInv, table
<1>1. TypeOK'
  BY DEF TypeOK, InTx
<1>2. RecordIsSchema'
  BY DEF RecordIsSchema, Once
<1>3. MigratedIsCurrent' /\ ServingIsCurrent'
  BY DEF MigratedIsCurrent, ServingIsCurrent, UpToDate, Hash
<1>4. TxAhead' /\ LoopIsRight'
  <2>1. CASE pc' = pc
    BY <2>1 DEF TxAhead, LoopIsRight, Hash
  <2>2. CASE pc' \in {"idle", "opened"}
    BY <2>2 DEF TxAhead, LoopIsRight, InTx
  <2> QED BY <2>1, <2>2
<1>5. (owner = "migrate" <=> pc \notin {"idle", "done"})'
  BY DEF InTx
<1> QED BY <1>1, <1>2, <1>3, <1>4, <1>5

\* Deploying a release ends the processes of the last one.
LEMMA DeployKeepsInv == MigrationsInv /\ (\E r \in Releases : Deploy(r)) => MigrationsInv'
<1> SUFFICES ASSUME MigrationsInv, NEW r \in Releases, Deploy(r) PROVE MigrationsInv'
  OBVIOUS
<1> USE DEF MigrationsInv, Deploy, table
<1>1. TypeOK'
  BY DEF TypeOK, InTx
<1>2. RecordIsSchema'
  BY DEF RecordIsSchema, Once
<1> QED
  BY <1>1, <1>2 DEF MigratedIsCurrent, ServingIsCurrent, TxAhead, LoopIsRight, InTx

\* Making the table and reading it starts the loop on a true copy.
LEMMA PrepareKeepsInv == MigrationsInv /\ (CreateTable \/ ReadApplied) => MigrationsInv'
<1> SUFFICES ASSUME MigrationsInv, CreateTable \/ ReadApplied PROVE MigrationsInv'
  OBVIOUS
<1> USE DEF MigrationsInv, CreateTable, ReadApplied, table
<1>1. TypeOK'
  <2>1. CASE CreateTable
    BY <2>1 DEF TypeOK, InTx
  <2>2. CASE ReadApplied
    BY <2>2, MaxVersionAssumption DEF TypeOK, InTx
  <2> QED BY <2>1, <2>2
<1>2. RecordIsSchema'
  BY DEF RecordIsSchema, Once
<1>3. LoopIsRight'
  BY DEF LoopIsRight, InTx, TypeOK, Versions
<1> QED
  BY <1>1, <1>2, <1>3 DEF MigratedIsCurrent, ServingIsCurrent, TxAhead, InTx

\* A transaction begins for the first version that is missing.
LEMMA BeginKeepsInv == MigrationsInv /\ Begin => MigrationsInv'
<1> SUFFICES ASSUME MigrationsInv, Begin PROVE MigrationsInv'
  OBVIOUS
<1> USE DEF MigrationsInv, table
<1>1. PICK v \in Missing : First(v) /\ at' = v
  BY DEF Begin
<1>2. /\ pc = "loop" /\ pc' = "begun"
      /\ tx' = [record |-> record, schema |-> schema]
      /\ UNCHANGED <<release, owner, hasTable, record, schema, applied>>
  BY DEF Begin
<1>3. v \in Versions /\ v > at /\ Hash(v) # 0 /\ record[v] = 0
  BY <1>2, MaxVersionAssumption DEF Missing, LoopIsRight, TypeOK, Versions
<1>4. \A w \in Versions : w < v => (Hash(w) # 0 => record[w] = Hash(w))
  <2> SUFFICES ASSUME NEW w \in Versions, w < v, Hash(w) # 0 PROVE record[w] = Hash(w)
    OBVIOUS
  <2>1. CASE w <= at
    BY <1>2, <2>1 DEF LoopIsRight
  <2>2. CASE w > at
    <3>1. w \notin ToDo
      BY <1>1, <1>3 DEF First, Versions
    <3>2. applied[w] = Hash(w)
      BY <3>1, <2>2 DEF ToDo, Missing, Drifted
    <3>3. ~(w <= at)
      BY <2>2 DEF TypeOK, Versions
    <3> QED BY <1>2, <3>2, <3>3 DEF LoopIsRight
  <2> QED BY <2>1, <2>2 DEF TypeOK, Versions
<1>5. \A w \in Versions : w > v => applied[w] = record[w]
  BY <1>2, <1>3 DEF LoopIsRight, TypeOK, Versions
<1>6. TypeOK'
  BY <1>1, <1>2, <1>3 DEF TypeOK, InTx, Versions
<1>7. RecordIsSchema'
  BY <1>2 DEF RecordIsSchema, Once
<1>8. LoopIsRight'
  BY <1>1, <1>2, <1>4, <1>5 DEF LoopIsRight, InTx, Hash
<1>9. TxAhead'
  BY <1>1, <1>2, <1>3 DEF TxAhead, InTx, Hash
<1> QED
  BY <1>2, <1>6, <1>7, <1>8, <1>9 DEF MigratedIsCurrent, ServingIsCurrent, InTx

\* The statements and the record go to the transaction.
LEMMA InTxKeepsInv == MigrationsInv /\ (Execute \/ Record) => MigrationsInv'
<1> SUFFICES ASSUME MigrationsInv, Execute \/ Record PROVE MigrationsInv'
  OBVIOUS
<1> USE DEF MigrationsInv, table
<1>1. at \in Versions /\ Hash(at) # 0 /\ record[at] = 0 /\ Hash(at) \in Nat
  BY ManifestAssumption DEF Execute, Record, TxAhead, InTx, Hash, TypeOK
<1>2. TypeOK' /\ TxAhead'
  <2>1. CASE Execute
    <3>1. tx = [record |-> record, schema |-> schema]
      BY <2>1 DEF Execute, TxAhead, InTx
    <3>2. tx' = [record |-> record, schema |-> [schema EXCEPT ![at] = Append(@, Hash(at))]]
      BY <2>1, <3>1 DEF Execute
    <3>3. [schema EXCEPT ![at] = Append(@, Hash(at))] \in [Versions -> Seq(Nat)]
      BY <1>1 DEF TypeOK
    <3>4. tx' \in [record : [Versions -> Nat], schema : [Versions -> Seq(Nat)]]
      BY <3>2, <3>3 DEF TypeOK
    <3>5. TypeOK'
      BY <2>1, <3>4 DEF Execute, TypeOK, InTx
    <3> QED BY <2>1, <1>1, <3>2, <3>5 DEF Execute, TxAhead, InTx, Hash
  <2>2. CASE Record
    <3>1. tx = [record |-> record, schema |-> [schema EXCEPT ![at] = Append(@, Hash(at))]]
      BY <2>2 DEF Record, TxAhead, InTx
    <3>2. tx' = [record |-> [record EXCEPT ![at] = Hash(at)],
                 schema |-> [schema EXCEPT ![at] = Append(@, Hash(at))]]
      BY <2>2, <3>1 DEF Record
    <3>3. /\ [schema EXCEPT ![at] = Append(@, Hash(at))] \in [Versions -> Seq(Nat)]
          /\ [record EXCEPT ![at] = Hash(at)] \in [Versions -> Nat]
      BY <1>1 DEF TypeOK
    <3>4. tx' \in [record : [Versions -> Nat], schema : [Versions -> Seq(Nat)]]
      BY <3>2, <3>3
    <3>5. TypeOK'
      BY <2>2, <3>4 DEF Record, TypeOK, InTx
    <3> QED BY <2>2, <1>1, <3>2, <3>5 DEF Record, TxAhead, InTx, Hash
  <2> QED BY <2>1, <2>2
<1>3. RecordIsSchema'
  BY DEF Execute, Record, RecordIsSchema, Once
<1>4. LoopIsRight'
  BY DEF Execute, Record, LoopIsRight, InTx, Hash
<1> QED
  BY <1>2, <1>3, <1>4 DEF Execute, Record, MigratedIsCurrent, ServingIsCurrent, InTx

\* A commit executes one migration and records it.
LEMMA CommitKeepsInv == MigrationsInv /\ Commit => MigrationsInv'
<1> SUFFICES ASSUME MigrationsInv, Commit PROVE MigrationsInv'
  OBVIOUS
<1> USE DEF MigrationsInv, Commit
<1>1. /\ at \in Versions /\ Hash(at) # 0 /\ record[at] = 0
      /\ record' = [record EXCEPT ![at] = Hash(at)]
      /\ schema' = [schema EXCEPT ![at] = Append(@, Hash(at))]
  BY DEF TxAhead, InTx
<1>2. TypeOK'
  BY DEF TypeOK, InTx
<1>3. RecordIsSchema'
  <2> SUFFICES ASSUME NEW v \in Versions
               PROVE  schema'[v] = IF record'[v] = 0 THEN <<>> ELSE <<record'[v]>>
    BY DEF RecordIsSchema, Once
  <2>1. CASE v = at
    <3>1. schema[at] = <<>>
      BY <1>1 DEF RecordIsSchema, Once
    <3>2. Append(<<>>, Hash(at)) = <<Hash(at)>>
      OBVIOUS
    <3> QED BY <1>1, <2>1, <3>1, <3>2 DEF TypeOK
  <2>2. CASE v # at
    BY <1>1, <2>2 DEF TypeOK, RecordIsSchema, Once
  <2> QED BY <2>1, <2>2
<1>4. LoopIsRight'
  <2>1. \A v \in Versions : v < at => (Hash(v) # 0 => record[v] = Hash(v))
    BY DEF LoopIsRight, InTx
  <2>2. \A v \in Versions : v > at => applied[v] = record[v]
    BY DEF LoopIsRight, InTx
  <2> SUFFICES ASSUME NEW v \in Versions
               PROVE  IF v <= at THEN Hash(v) # 0 => record'[v] = Hash(v)
                                 ELSE applied[v] = record'[v]
    BY DEF LoopIsRight, InTx, Hash
  <2>3. CASE v = at
    BY <1>1, <2>3 DEF TypeOK, Versions
  <2>4. CASE v # at
    BY <1>1, <2>1, <2>2, <2>4 DEF TypeOK, Versions
  <2> QED BY <2>3, <2>4
<1> QED
  BY <1>2, <1>3, <1>4 DEF MigratedIsCurrent, ServingIsCurrent, TxAhead, InTx

\* The job succeeds only when nothing is left to do.
LEMMA FinishKeepsInv == MigrationsInv /\ Finish => MigrationsInv'
<1> SUFFICES ASSUME MigrationsInv, Finish PROVE MigrationsInv'
  OBVIOUS
<1> USE DEF MigrationsInv, Finish, table
<1>1. TypeOK'
  BY DEF TypeOK, InTx
<1>2. RecordIsSchema'
  BY DEF RecordIsSchema, Once
<1>3. \A v \in Versions : Hash(v) # 0 => record[v] = Hash(v)
  <2> SUFFICES ASSUME NEW v \in Versions, Hash(v) # 0 PROVE record[v] = Hash(v)
    OBVIOUS
  <2>1. CASE v <= at
    BY <2>1 DEF LoopIsRight
  <2>2. CASE ~(v <= at)
    <3>1. v > at
      BY <2>2 DEF TypeOK, Versions
    <3>2. applied[v] = Hash(v)
      BY <3>1 DEF ToDo, Missing, Drifted
    <3> QED BY <2>2, <3>2 DEF LoopIsRight
  <2> QED BY <2>1, <2>2
<1>4. MigratedIsCurrent'
  BY <1>3 DEF MigratedIsCurrent, Hash
<1> QED
  BY <1>1, <1>2, <1>4 DEF ServingIsCurrent, TxAhead, LoopIsRight, InTx

-----------------------------------------------------------------------------
\* MigrationsInv is preserved by every step.
LEMMA NextKeepsInv == MigrationsInv /\ [Next]_vars => MigrationsInv'
<1> SUFFICES ASSUME MigrationsInv, [Next]_vars PROVE MigrationsInv'
  OBVIOUS
<1>1. CASE Open
  BY <1>1, QuietKeepsInv DEF Open, table
<1>2. CASE Mismatch \/ Abort
  BY <1>2, QuietKeepsInv DEF Mismatch, Abort, table
<1>3. CASE StartApi
  BY <1>3, QuietKeepsInv DEF StartApi, table
<1>4. CASE StopApi
  BY <1>4, QuietKeepsInv DEF StopApi, table
<1>5. CASE UNCHANGED vars
  BY <1>5, QuietKeepsInv DEF vars, table
<1> QED
  BY <1>1, <1>2, <1>3, <1>4, <1>5, DeployKeepsInv, PrepareKeepsInv, BeginKeepsInv,
     InTxKeepsInv, CommitKeepsInv, FinishKeepsInv DEF Next, Migrate

\* The migrations keep their inductive invariant, and with it the types.
THEOREM MigrationsInvariant == Spec => []MigrationsInv
BY InitHasInv, NextKeepsInv, PTL DEF Spec

\* Every recorded migration has been executed once, as recorded, and no other.
THEOREM MigrationsAreAtomic == Spec => []RecordIsSchema
<1>1. MigrationsInv => RecordIsSchema
  BY DEF MigrationsInv
<1> QED BY <1>1, MigrationsInvariant, PTL

\* Every variable of the migrate job and the API stays in its domain.
THEOREM MigrationsTypes == Spec => []TypeOK
<1>1. MigrationsInv => TypeOK
  BY DEF MigrationsInv
<1> QED BY <1>1, MigrationsInvariant, PTL

\* A job that succeeds has brought its release's migrations in.
THEOREM JobsBringTheSchema == Spec => []MigratedIsCurrent
<1>1. MigrationsInv => MigratedIsCurrent
  BY DEF MigrationsInv
<1> QED BY <1>1, MigrationsInvariant, PTL

\* The API serves only from the schema of its release.
THEOREM ReleasesMatchTheSchema == Spec => []ServingIsCurrent
<1>1. MigrationsInv => ServingIsCurrent
  BY DEF MigrationsInv
<1> QED BY <1>1, MigrationsInvariant, PTL

\* A step changes the record by a commit only, and at one missing version.
LEMMA RecordSteps ==
  ASSUME MigrationsInv, Next
  PROVE  \/ record' = record
         \/ /\ pc \in InTx /\ at \in Versions /\ record[at] = 0
            /\ record' = [record EXCEPT ![at] = Hash(at)]
<1>1. CASE Commit
  BY <1>1 DEF Commit, MigrationsInv, TxAhead, InTx
<1> QED
  BY <1>1 DEF Next, Migrate, Open, CreateTable, ReadApplied, Begin, Execute, Record, Finish,
              Mismatch, Abort, StartApi, StopApi, Deploy, table

\* What has been recorded is never changed or forgotten.
THEOREM RecordsAreFinal == Spec => RecordsStay
<1> DEFINE Stay == \A v \in Versions : record[v] # 0 => record'[v] = record[v]
<1>1. MigrationsInv /\ [Next]_vars => [Stay]_vars
  <2> SUFFICES ASSUME MigrationsInv, Next PROVE Stay
    OBVIOUS
  <2> QED BY RecordSteps DEF MigrationsInv, TypeOK
<1> QED BY <1>1, MigrationsInvariant, PTL DEF Spec, RecordsStay

\* A migration is applied only on top of the lower ones of its release.
THEOREM MigrationsInOrder == Spec => LowerFirst
<1> DEFINE Lower == \A v \in Versions : record[v] = 0 /\ record'[v] # 0 =>
                      \A w \in 1..(v - 1) : Hash(w) # 0 => record[w] = Hash(w)
<1>1. MigrationsInv /\ [Next]_vars => [Lower]_vars
  <2> SUFFICES ASSUME MigrationsInv, Next, NEW v \in Versions, record[v] = 0, record'[v] # 0,
                      NEW w \in 1..(v - 1), Hash(w) # 0
               PROVE  record[w] = Hash(w)
    OBVIOUS
  <2>1. pc \in InTx /\ v = at
    BY RecordSteps DEF MigrationsInv, TypeOK
  <2>2. w \in Versions /\ w < at
    BY <2>1, MaxVersionAssumption DEF Versions
  <2> QED BY <2>1, <2>2 DEF MigrationsInv, LoopIsRight
<1> QED BY <1>1, MigrationsInvariant, PTL DEF Spec, LowerFirst
=============================================================================
