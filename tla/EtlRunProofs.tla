---------------------------- MODULE EtlRunProofs ----------------------------
(***************************************************************************)
(* The ETL, for any manifest, files, configurations and command lines.     *)
(* First the import of one file: every key with a usable cell gets one     *)
(* row, with a value that nothing outranks, and publishing replaces the    *)
(* dataset's scope and nothing else.  Then the runs: RunInv is inductive,  *)
(* and what it implies.                                                    *)
(***************************************************************************)
EXTENDS EtlRun, WellFoundedInduction, TLAPS

-----------------------------------------------------------------------------
(* The import of a file *)

\* A bounded, non-empty set of naturals has a largest element.
LEMMA LargestExists ==
  ASSUME NEW bound \in Nat, NEW T \in SUBSET (0..bound), T # {}
  PROVE  \E x \in T : \A y \in T : y <= x
<1> DEFINE Less == {ss \in Nat \X Nat : ss[1] < ss[2]}
           D == {bound - x : x \in T}
<1>1. IsWellFoundedOn(Less, Nat)
  BY NatLessThanWellFounded, Zenon DEF OpToRel
<1>2. D \subseteq Nat /\ D # {}
  <2>1. \A x \in T : bound - x \in Nat
    OBVIOUS
  <2> QED BY <2>1
<1>3. PICK z \in D : \A y \in D : <<y, z>> \notin Less
  BY <1>1, <1>2, WFMin, Zenon
<1>4. \A y \in D : z <= y
  <2>1. SUFFICES ASSUME NEW y \in D, y < z PROVE FALSE
    BY <1>2
  <2>2. <<y, z>> \in Nat \X Nat /\ <<y, z>>[1] < <<y, z>>[2]
    BY <1>2, <2>1
  <2>3. <<y, z>> \in Less
    BY <2>2, Zenon
  <2> QED BY <2>3, <1>3
<1>5. PICK x \in T : z = bound - x
  OBVIOUS
<1>6. \A y \in T : bound - x <= bound - y
  BY <1>4, <1>5
<1> QED BY <1>6

\* Readings of one group are of one key, or of one rank.
Ranked(readings, bound) ==
  /\ \A r \in readings : r.rank \in 0..bound
  /\ \A q, r \in readings : q.group = r.group => q.key = r.key \/ q.rank = r.rank

\* Picking one reading of each group leaves none of the keys out.
LEMMA EveryKeyIsKept ==
  ASSUME NEW readings, NEW bound \in Nat, Ranked(readings, bound), NEW r \in readings
  PROVE  \E k \in Kept(readings) : k.key = r.key
<1> DEFINE T == {q.rank : q \in {p \in readings : p.group = r.group}}
<1>1. T \in SUBSET (0..bound) /\ r.rank \in T
  BY DEF Ranked
<1>2. PICK m \in T : \A y \in T : y <= m
  BY <1>1, LargestExists
<1>3. PICK k \in readings : k.group = r.group /\ k.rank = m
  BY <1>2
<1>4. k \in Kept(readings)
  BY <1>2, <1>3 DEF Kept
<1>5. CASE k.key = r.key
  BY <1>4, <1>5
<1>6. CASE k.rank = r.rank
  BY <1>2, <1>3, <1>6 DEF Kept
<1> QED BY <1>3, <1>5, <1>6 DEF Ranked

\* The cells a format reads are ranked by their place in the file, and their
\* keys are in the dataset's scope.
LEMMA YearsAreRanked ==
  ASSUME NEW c, NEW header, NEW f, NEW bound \in Nat, DOMAIN header \subseteq 0..bound
  PROVE  Ranked(YearReadings(c, header, f), bound)
         /\ \A r \in YearReadings(c, header, f) : InScope(c, r.key)
<1>1. \A r \in YearReadings(c, header, f) :
        \E n \in DOMAIN f.rows, j \in YearColumns(c, header), spec \in c.specs : \E area, year, value :
          r = [key |-> Key(c, spec, area, year), value |-> value,
               group |-> <<Key(c, spec, area, year)>>, rank |-> j]
  <2>1. ASSUME NEW r \in YearReadings(c, header, f)
        PROVE  \E n \in DOMAIN f.rows, j \in YearColumns(c, header), spec \in c.specs :
                 r \in YearReading(c, header, f, n, j, spec)
    BY DEF YearReadings
  <2>2. SUFFICES ASSUME NEW r \in YearReadings(c, header, f)
                 PROVE  \E n \in DOMAIN f.rows, j \in YearColumns(c, header), spec \in c.specs :
                          \E area, year, value :
                            r = [key |-> Key(c, spec, area, year), value |-> value,
                                 group |-> <<Key(c, spec, area, year)>>, rank |-> j]
    OBVIOUS
  <2>3. PICK n \in DOMAIN f.rows, j \in YearColumns(c, header), spec \in c.specs :
          r \in YearReading(c, header, f, n, j, spec)
    BY <2>1
  <2>4. PICK area, year, value :
          r = [key |-> Key(c, spec, area, year), value |-> value,
               group |-> <<Key(c, spec, area, year)>>, rank |-> j]
    BY <2>3, Zenon DEF YearReading
  <2> QED BY <2>4, Zenon
<1>2. \A r \in YearReadings(c, header, f) :
        r.rank \in 0..bound /\ r.group = <<r.key>> /\ InScope(c, r.key)
  BY <1>1 DEF YearColumns, InScope, Key
<1> QED BY <1>2 DEF Ranked

LEMMA CategoriesAreRanked ==
  ASSUME NEW c, NEW header, NEW f, NEW bound \in Nat, DOMAIN f.rows \subseteq 0..bound
  PROVE  Ranked(CategoryReadings(c, header, f), bound)
         /\ \A r \in CategoryReadings(c, header, f) : InScope(c, r.key)
<1> DEFINE Group(n, key, text) == IF c.keepLast THEN <<key, RawArea(c, header, f.rows[n]), text>> ELSE <<n>>
<1>1. \A r \in CategoryReadings(c, header, f) :
        \E n \in DOMAIN f.rows, spec \in c.specs : \E area, year, value, text :
          r = [key |-> Key(c, spec, area, year), value |-> value, rank |-> n,
               group |-> Group(n, Key(c, spec, area, year), text)]
  <2>1. ASSUME NEW r \in CategoryReadings(c, header, f)
        PROVE  \E n \in DOMAIN f.rows, spec \in c.specs : r \in CategoryReading(c, header, f, n, spec)
    BY DEF CategoryReadings
  <2>2. SUFFICES ASSUME NEW r \in CategoryReadings(c, header, f)
                 PROVE  \E n \in DOMAIN f.rows, spec \in c.specs : \E area, year, value, text :
                          r = [key |-> Key(c, spec, area, year), value |-> value, rank |-> n,
                               group |-> Group(n, Key(c, spec, area, year), text)]
    OBVIOUS
  <2>3. PICK n \in DOMAIN f.rows, spec \in c.specs : r \in CategoryReading(c, header, f, n, spec)
    BY <2>1
  <2>4. PICK area, year, value, text :
          r = [key |-> Key(c, spec, area, year), value |-> value, rank |-> n,
               group |-> Group(n, Key(c, spec, area, year), text)]
    BY <2>3, Zenon DEF CategoryReading
  <2> HIDE DEF Group
  <2> QED BY <2>4, Zenon
<1>2. \A r \in CategoryReadings(c, header, f) : r.rank \in 0..bound /\ InScope(c, r.key)
  BY <1>1 DEF InScope, Key
<1>3. CASE c.keepLast
  <2>1. \A r \in CategoryReadings(c, header, f) : \E raw, text : r.group = <<r.key, raw, text>>
    BY <1>1, <1>3
  <2> QED BY <1>2, <2>1 DEF Ranked
<1>4. CASE ~c.keepLast
  <2>1. \A r \in CategoryReadings(c, header, f) : r.group = <<r.rank>>
    BY <1>1, <1>4
  <2> QED BY <1>2, <2>1 DEF Ranked
<1> QED BY <1>3, <1>4

LEMMA ReadingsAreRanked ==
  ASSUME NEW c, NEW header, NEW f, NEW bound \in Nat,
         DOMAIN header \subseteq 0..bound, DOMAIN f.rows \subseteq 0..bound
  PROVE  Ranked(Readings(c, header, f), bound)
         /\ \A r \in Readings(c, header, f) : InScope(c, r.key)
BY YearsAreRanked, CategoriesAreRanked DEF Readings

\* The header that is imported has as many columns as the file's, or none.
LEMMA HeaderIsBounded ==
  ASSUME NEW c, NEW f, DecodedHeader(c, f) \in Seq(STRING), f.rows \in Seq(Seq(STRING))
  PROVE  \E bound \in Nat : DOMAIN HeaderOf(c, f) \subseteq 0..bound /\ DOMAIN f.rows \subseteq 0..bound
<1>1. DOMAIN HeaderOf(c, f) = DOMAIN DecodedHeader(c, f) \/ HeaderOf(c, f) = <<>>
  BY Zenon DEF HeaderOf, Normalized
<1>2. DOMAIN HeaderOf(c, f) \subseteq 1..Len(DecodedHeader(c, f))
  BY <1>1
<1>3. PICK b \in Nat : Len(DecodedHeader(c, f)) <= b /\ Len(f.rows) <= b
  <2>1. Len(DecodedHeader(c, f)) \in Nat /\ Len(f.rows) \in Nat
    OBVIOUS
  <2> QED BY <2>1
<1>4. DOMAIN f.rows = 1..Len(f.rows)
  OBVIOUS
<1> QED BY <1>2, <1>3, <1>4

-----------------------------------------------------------------------------
\* The staging table has one row for each key of the kept readings, with the
\* value of one of them.
LEMMA StagingIsOneRowPerKey ==
  ASSUME NEW kept, NEW rows \in Stagings(kept)
  PROVE  /\ \A r \in kept : \E s \in rows : s.key = r.key
         /\ \A s \in rows : \E r \in kept : r.key = s.key /\ r.value = s.value
         /\ \A s, t \in rows : s.key = t.key => s = t
<1> DEFINE keys == {r.key : r \in kept}
<1>1. PICK t \in [keys -> {r.value : r \in kept}] :
        /\ \A k \in keys : \E r \in kept : r.key = k /\ r.value = t[k]
        /\ rows = {[key |-> k, value |-> t[k]] : k \in keys}
  BY Zenon DEF Stagings
<1>2. ASSUME NEW r \in kept PROVE \E s \in rows : s.key = r.key
  <2>1. [key |-> r.key, value |-> t[r.key]] \in rows
    BY <1>1
  <2> QED BY <2>1
<1>3. ASSUME NEW s \in rows PROVE \E k \in keys : s = [key |-> k, value |-> t[k]]
  BY <1>1
<1>4. ASSUME NEW s \in rows PROVE \E r \in kept : r.key = s.key /\ r.value = s.value
  BY <1>1, <1>3
<1>5. ASSUME NEW s \in rows, NEW q \in rows, s.key = q.key PROVE s = q
  BY <1>3, <1>5
<1> QED BY <1>2, <1>4, <1>5

\* A file mirrored: one row per key that is read, with a value not outranked.
Mirrors(rows, readings) ==
  /\ {s.key : s \in rows} = {r.key : r \in readings}
  /\ \A s \in rows : \E r \in readings :
       /\ r.key = s.key /\ r.value = s.value
       /\ ~\E q \in readings : q.group = r.group /\ q.rank > r.rank
  /\ \A s, t \in rows : s.key = t.key => s = t

\* What an import may publish mirrors its file, and lies in its scope.
THEOREM OutcomesMirrorTheFile ==
  ASSUME NEW c, NEW f, DecodedHeader(c, f) \in Seq(STRING), f.rows \in Seq(Seq(STRING)),
         NEW rows \in Outcomes(c, f) \ {{}}
  PROVE  /\ Mirrors(rows, Readings(c, HeaderOf(c, f), f))
         /\ \A s \in rows : InScope(c, s.key)
<1> DEFINE readings == Readings(c, HeaderOf(c, f), f)
<1>1. rows \in Stagings(Kept(readings))
  BY Zenon DEF Outcomes
<1>2. PICK bound \in Nat : Ranked(readings, bound) /\ \A r \in readings : InScope(c, r.key)
  BY HeaderIsBounded, ReadingsAreRanked
<1> HIDE DEF readings
<1>3. /\ \A r \in Kept(readings) : \E s \in rows : s.key = r.key
      /\ \A s \in rows : \E r \in Kept(readings) : r.key = s.key /\ r.value = s.value
      /\ \A s, t \in rows : s.key = t.key => s = t
  BY <1>1, StagingIsOneRowPerKey
<1>4. Kept(readings) \subseteq readings
  BY DEF Kept
<1>5. {s.key : s \in rows} = {r.key : r \in readings}
  <2>1. ASSUME NEW s \in rows PROVE \E r \in readings : r.key = s.key
    BY <1>3, <1>4
  <2>2. ASSUME NEW r \in readings PROVE \E s \in rows : s.key = r.key
    <3>1. PICK q \in Kept(readings) : q.key = r.key
      BY <1>2, EveryKeyIsKept
    <3>2. PICK s \in rows : s.key = q.key
      BY <1>3
    <3> QED BY <3>1, <3>2
  <2>3. {s.key : s \in rows} \subseteq {r.key : r \in readings}
    BY <2>1
  <2>4. {r.key : r \in readings} \subseteq {s.key : s \in rows}
    BY <2>2
  <2> QED BY Zenon, <2>3, <2>4
<1>6. ASSUME NEW s \in rows
      PROVE  \E r \in readings : /\ r.key = s.key /\ r.value = s.value
                                 /\ ~\E q \in readings : q.group = r.group /\ q.rank > r.rank
  <2>1. PICK r \in Kept(readings) : r.key = s.key /\ r.value = s.value
    BY <1>3
  <2>2. \A q \in readings : q.group = r.group => ~(q.rank > r.rank)
    BY <1>2, <1>4 DEF Kept, Ranked
  <2> QED BY <1>4, <2>1, <2>2
<1>7. \A s \in rows : InScope(c, s.key)
  BY <1>2, <1>3, <1>4
<1> QED BY <1>3, <1>5, <1>6, <1>7 DEF Mirrors, readings

\* Publishing rows of a scope leaves these rows in it, and what is outside it
\* alone.
THEOREM PublishingReplacesTheScope ==
  ASSUME NEW c, NEW table, NEW rows, \A s \in rows : InScope(c, s.key)
  PROVE  /\ {s \in Published(c, table, rows) : InScope(c, s.key)} = rows
         /\ \A s : ~InScope(c, s.key) => (s \in Published(c, table, rows) <=> s \in table)
<1> DEFINE Inside(k) == InScope(c, k)
<1>1. \A s : s \in Published(c, table, rows) <=>
        /\ s \in rows \/ (s \in table /\ \A r \in rows : r.key # s.key)
        /\ Inside(s.key) => \E r \in rows : r.key = s.key
  BY Zenon DEF Published, WithoutStale, Upsert
<1> HIDE DEF Inside
<1>2. \A s \in rows : Inside(s.key)
  BY DEF Inside
<1>3. \A s : Inside(s.key) => (s \in Published(c, table, rows) <=> s \in rows)
  BY <1>1
<1>4. \A s : ~Inside(s.key) => (s \in Published(c, table, rows) <=> s \in table)
  BY <1>1, <1>2
<1> QED BY <1>2, <1>3, <1>4 DEF Inside

-----------------------------------------------------------------------------
(* The request *)

\* A new request has its invariant.
LEMMA RequestStarts ==
  ASSUME NEW n \in 0..MaxRetries, Request(n)
  PROVE  RequestInv'
BY AnswersAssumption, MaxRetriesAssumption DEF Request, RequestInv, RequestTypeOK

\* Every step of a request keeps its invariant.
LEMMA RequestStepKeepsInv ==
  ASSUME RequestInv, RequestStep
  PROVE  RequestInv'
<1> USE AnswersAssumption, MaxRetriesAssumption DEF RequestInv, RequestTypeOK
<1>1. CASE Answered
  BY <1>1 DEF Answered, Return
<1>2. CASE ServerError
  BY <1>2 DEF ServerError, Retry, Return
<1>3. CASE Rejected
  BY <1>3 DEF Rejected, Retry
<1>4. CASE Slept
  BY <1>4 DEF Slept
<1> QED BY <1>1, <1>2, <1>3, <1>4 DEF RequestStep

\* The invariant says that no request fails before all its calls have failed.
LEMMA RequestInvExhausts == RequestInv => RetriesAreExhausted
BY DEF RequestInv, RequestTypeOK, RetriesAreExhausted

-----------------------------------------------------------------------------
(* The datasets of a run *)

\* The current dataset stands in the chosen ones right after those that the run
\* has passed, and is none of them.
LEMMA CurrentFollowsPassed ==
  ASSUME RunInv, rest # <<>>
  PROVE  /\ Len(chosen) - Len(rest) + 1 \in 1..Len(chosen)
         /\ chosen[Len(chosen) - Len(rest) + 1] = Current
         /\ Current \in Datasets /\ Current \notin Passed
<1>1. Len(rest) \in 1..Len(chosen) /\ Len(chosen) \in Nat /\ Current = rest[1] /\ rest[1] \in Datasets
  BY DEF RunInv, TypeOK, RestIsChosen, Current
<1>2. Len(chosen) - Len(rest) + 1 \in 1..Len(chosen) /\ chosen[Len(chosen) - Len(rest) + 1] = Current
  BY <1>1 DEF RunInv, RestIsChosen
<1>3. Current \notin Passed
  BY <1>1, <1>2 DEF RunInv, RestIsChosen, Passed
<1> QED BY <1>1, <1>2, <1>3

\* Going on to the next dataset, the run passes the current one, and only it.
LEMMA TailPassesCurrent ==
  ASSUME RunInv, rest # <<>>, rest' = Tail(rest), chosen' = chosen
  PROVE  /\ rest' \in Seq(Datasets) /\ Passed' = Passed \cup {Current}
         /\ Len(rest') <= Len(chosen')
         /\ \A n \in 1..Len(rest') : rest'[n] = chosen'[Len(chosen') - Len(rest') + n]
<1>1. Len(rest) \in 1..Len(chosen) /\ Len(chosen) \in Nat /\ rest \in Seq(Datasets)
  BY DEF RunInv, TypeOK, RestIsChosen
<1>2. /\ Len(rest') = Len(rest) - 1 /\ rest' \in Seq(Datasets)
      /\ \A n \in 1..Len(rest') : rest'[n] = rest[n + 1]
  BY <1>1
<1>3. \A n \in 1..Len(rest') : rest'[n] = chosen'[Len(chosen') - Len(rest') + n]
  BY <1>1, <1>2 DEF RunInv, RestIsChosen
<1>4. Passed' = Passed \cup {Current}
  <2>1. 1..(Len(chosen') - Len(rest')) =
          1..(Len(chosen) - Len(rest)) \cup {Len(chosen) - Len(rest) + 1}
    BY <1>1, <1>2
  <2> QED BY <2>1, CurrentFollowsPassed DEF Passed
<1> QED BY <1>1, <1>2, <1>3, <1>4

-----------------------------------------------------------------------------
(* The run *)

\* What may be chosen: datasets, none of them twice.
LEMMA SelectionIsChosen ==
  ASSUME NEW argv \in Argvs, ParsedArgs(argv).ok
  PROVE  LET some == Selection(ParsedArgs(argv)) IN
         /\ some \in Seq(Datasets) /\ some # <<>>
         /\ \A m, n \in 1..Len(some) : some[m] = some[n] => m = n
<1> DEFINE args == ParsedArgs(argv)
<1>1. args.selector \in {"--all"} \cup Datasets
  BY DEF ParsedArgs
<1>2. CASE args.selector = "--all"
  BY <1>2, ManifestAssumption DEF Selection, IsInjective
<1>3. CASE args.selector # "--all"
  BY <1>1, <1>3 DEF Selection
<1> QED BY <1>2, <1>3

\* A run starts with its invariant.
LEMMA StartKeepsInv == ASSUME RunInv, Start PROVE RunInv'
<1> USE DEF RunInv, TypeOK
<1>1. PICK argv \in Argvs :
        LET args == ParsedArgs(argv) IN
        IF args.ok
        THEN /\ chosen' = Selection(args)
             /\ Continue(chosen', args.retries)
        ELSE /\ chosen' = <<>> /\ rest' = <<>>
             /\ Exit("1") /\ UNCHANGED requests
  BY DEF Start
<1>2. confirmed' = {} /\ UNCHANGED stores
  BY DEF Start
<1>3. CASE ParsedArgs(argv).ok
  <2>1. chosen' \in Seq(Datasets) /\ chosen' # <<>> /\ rest' = chosen'
    BY <1>1, <1>3, SelectionIsChosen DEF Continue
  <2>2. \A m, n \in 1..Len(chosen') : chosen'[m] = chosen'[n] => m = n
    BY <1>1, <1>3, SelectionIsChosen
  <2>3. Request(ParsedArgs(argv).retries) /\ pc' = "fetch" /\ exit' = "none"
    BY <1>1, <1>3, <2>1 DEF Continue
  <2>4. RequestInv'
    BY <1>3, <2>3, ArgvsAssumption, RequestStarts
  <2>5. Passed' = {}
    BY <2>1 DEF Passed
  <2>6. TypeOK' /\ Stored'
    BY <1>2, <2>1, <2>3, <2>4 DEF stores, Stored, RequestInv
  <2>7. RestIsChosen'
    <3>1. Len(rest') = Len(chosen') /\ Len(chosen') \in Nat /\ pc' # "import"
      BY <2>1, <2>3
    <3>2. \A n \in 1..Len(rest') : rest'[n] = chosen'[Len(chosen') - Len(rest') + n]
      BY <2>1, <3>1
    <3> QED BY <2>2, <3>1, <3>2 DEF RestIsChosen
  <2>8. PassedAreFresh'
    BY <2>3, <2>5 DEF PassedAreFresh
  <2> QED BY <2>4, <2>6, <2>7, <2>8
<1>4. CASE ~ParsedArgs(argv).ok
  <2>1. chosen' = <<>> /\ rest' = <<>> /\ pc' = "off" /\ exit' = "1" /\ UNCHANGED requestVars
    BY <1>1, <1>4 DEF Exit, requests
  <2>2. RequestInv' /\ RequestTypeOK'
    BY <2>1 DEF requestVars, RequestInv, RequestTypeOK
  <2>3. TypeOK' /\ Stored'
    BY <1>2, <2>1, <2>2 DEF stores, Stored
  <2>4. RestIsChosen' /\ PassedAreFresh'
    BY <2>1 DEF RestIsChosen, PassedAreFresh, Passed
  <2> QED BY <2>2, <2>3, <2>4
<1> QED BY <1>3, <1>4

\* The steps of the request keep the invariant.
LEMMA CallingKeepsInv == ASSUME RunInv, Calling PROVE RunInv'
<1>1. UNCHANGED <<stores, run, pc, confirmed>> /\ RequestInv'
  BY RequestStepKeepsInv DEF Calling, RunInv
<1>2. Passed' = Passed
  BY <1>1 DEF Passed, run
<1> QED
  BY <1>1, <1>2 DEF RunInv, TypeOK, RequestInv, Stored, RestIsChosen, PassedAreFresh, stores, run, Current

\* The end of a request, in whatever way, keeps the invariant.
LEMMA FetchedKeepsInv ==
  ASSUME RunInv, NotModified \/ Updated \/ UpdatedHalf \/ FetchFails
  PROVE  RunInv'
<1> USE DEF RunInv, TypeOK
<1>1. /\ pc = "fetch" /\ rest # <<>> /\ UNCHANGED <<requestVars, statistics, source, chosen, rest>>
      /\ \/ pc' = "import" /\ exit' = exit /\ confirmed' = confirmed \cup {Current}
         \/ pc' = "off" /\ exit' = "1" /\ confirmed' = confirmed
  BY DEF NotModified, Updated, UpdatedHalf, FetchFails, Fetched, Exit, stores, run, requests
<1>2. /\ cache' = cache \/ \E file \in Files[Current] : cache' = [cache EXCEPT ![Current] = file]
      /\ validator' \in {validator, validator \ {Current}, validator \cup {Current}}
  BY DEF NotModified, Updated, UpdatedHalf, FetchFails, stores
<1>3. Current \in Datasets /\ Current \notin Passed
  BY <1>1, CurrentFollowsPassed
<1>4. RequestInv' /\ RequestTypeOK'
  BY <1>1 DEF requestVars, RequestInv, RequestTypeOK
<1>5. TypeOK' /\ Stored'
  BY <1>1, <1>2, <1>3, <1>4 DEF Stored
<1>6. RestIsChosen'
  BY <1>1 DEF RestIsChosen, Current
<1>7. Passed' = Passed /\ exit' # "0"
  BY <1>1 DEF Passed, PassedAreFresh
<1>8. \A d \in Passed : cache'[d] = cache[d]
  BY <1>2, <1>3 DEF Stored, Passed
<1>9. PassedAreFresh'
  BY <1>1, <1>7, <1>8 DEF PassedAreFresh
<1> QED BY <1>4, <1>5, <1>6, <1>9

\* After an import, or when there is no file, the run goes on; the dataset it
\* leaves is served from the cached file.
LEMMA ImportKeepsInv ==
  ASSUME RunInv, SkipMissing \/ Import
  PROVE  RunInv'
<1> USE DEF RunInv, TypeOK
<1>1. /\ pc = "import" /\ rest # <<>> /\ Continue(Tail(rest), retries)
      /\ UNCHANGED <<cache, validator, chosen, confirmed>>
      /\ \/ cache[Current] = NoFile /\ source' = source
         \/ source' = [source EXCEPT ![Current] = cache[Current]]
  BY DEF SkipMissing, Import, stores
<1>2. rest' = Tail(rest)
  BY <1>1 DEF Continue
<1>3. /\ rest' \in Seq(Datasets) /\ Passed' = Passed \cup {Current}
      /\ Len(rest') <= Len(chosen')
      /\ \A n \in 1..Len(rest') : rest'[n] = chosen'[Len(chosen') - Len(rest') + n]
  BY <1>1, <1>2, TailPassesCurrent
<1>4. Current \in Datasets /\ Current \notin Passed
  BY <1>1, CurrentFollowsPassed
<1>5. /\ pc' \in {"off", "fetch"} /\ exit' \in {"0", "none"} /\ RequestInv'
      /\ exit' = "0" => rest' = <<>>
      /\ pc' = "fetch" => rest' # <<>>
  <2>1. CASE Tail(rest) = <<>>
    BY <1>1, <1>2, <2>1 DEF Continue, Exit, requests, requestVars, RequestInv, RequestTypeOK
  <2>2. CASE Tail(rest) # <<>>
    BY <1>1, <1>2, <2>2, RequestStarts DEF Continue, RequestTypeOK
  <2> QED BY <2>1, <2>2
<1>6. TypeOK' /\ Stored'
  BY <1>1, <1>3, <1>4, <1>5 DEF Stored, RequestInv
<1>7. RestIsChosen'
  BY <1>1, <1>3, <1>5 DEF RestIsChosen
<1>8. Current \in confirmed /\ cache[Current] \in {source'[Current], NoFile}
  BY <1>1, <1>4 DEF RestIsChosen, Stored
<1>9. \A d \in Passed : d \in confirmed /\ cache[d] \in {source'[d], NoFile}
  BY <1>1, <1>4 DEF PassedAreFresh, Stored
<1>10. chosen' # <<>>
  BY <1>1 DEF RestIsChosen
<1>11. PassedAreFresh'
  BY <1>1, <1>3, <1>5, <1>8, <1>9, <1>10 DEF PassedAreFresh
<1> QED BY <1>5, <1>6, <1>7, <1>11

\* A run that ends early, and a file that is lost, keep the invariant.
LEMMA EndKeepsInv ==
  ASSUME RunInv, ImportFails \/ Killed \/ LoseFile \/ UNCHANGED vars
  PROVE  RunInv'
<1> USE DEF RunInv, TypeOK
<1>1. /\ UNCHANGED <<requestVars, validator, statistics, source, chosen, rest, confirmed>>
      /\ cache' = cache \/ \E d \in Datasets : cache' = [cache EXCEPT ![d] = NoFile]
      /\ \/ pc' = "off" /\ exit' \in {"1", "killed"}
         \/ pc' = pc /\ exit' = exit
  BY DEF ImportFails, Killed, LoseFile, vars, Exit, stores, run, requests
<1>2. RequestInv' /\ RequestTypeOK' /\ Passed' = Passed
  BY <1>1 DEF requestVars, RequestInv, RequestTypeOK, Passed
<1>3. TypeOK' /\ Stored'
  BY <1>1, <1>2 DEF Stored
<1>4. RestIsChosen'
  BY <1>1 DEF RestIsChosen, Current
<1>5. \A d \in Passed : cache'[d] \in {cache[d], NoFile}
  BY <1>1 DEF Stored, Passed, RestIsChosen
<1>6. PassedAreFresh'
  BY <1>1, <1>2, <1>5 DEF PassedAreFresh
<1> QED BY <1>2, <1>3, <1>4, <1>6

\* RunInv holds initially.
LEMMA InitHasInv == Init => RunInv
<1> SUFFICES ASSUME Init PROVE RunInv
  OBVIOUS
<1>1. RequestInv /\ RequestTypeOK
  BY AnswersAssumption, MaxRetriesAssumption DEF Init, RequestInit, RequestInv, RequestTypeOK
<1>2. TypeOK /\ Stored
  BY <1>1 DEF Init, TypeOK, Stored
<1>3. RestIsChosen /\ PassedAreFresh
  BY DEF Init, RestIsChosen, PassedAreFresh, Passed
<1> QED BY <1>1, <1>2, <1>3 DEF RunInv

\* RunInv is preserved by every step.
LEMMA NextKeepsInv == RunInv /\ [Next]_vars => RunInv'
<1> SUFFICES ASSUME RunInv, [Next]_vars PROVE RunInv'
  OBVIOUS
<1> QED
  BY StartKeepsInv, CallingKeepsInv, FetchedKeepsInv, ImportKeepsInv, EndKeepsInv DEF Next, Step

-----------------------------------------------------------------------------
\* The inductive invariant of the command.
THEOREM RunInvariant == Spec => []RunInv
BY InitHasInv, NextKeepsInv, PTL DEF Spec

\* Every variable of the command stays in its domain.
THEOREM RunTypes == Spec => []TypeOK
<1>1. RunInv => TypeOK
  BY DEF RunInv
<1> QED BY <1>1, RunInvariant, PTL

\* A request fails only when its first call and every retry have failed.
THEOREM RetriesAreUsed == Spec => []RetriesAreExhausted
<1>1. RunInv => RetriesAreExhausted
  BY RequestInvExhausts DEF RunInv
<1> QED BY <1>1, RunInvariant, PTL

\* What a run has finished was confirmed by the server and is served from the
\* cached file, and a run that exits with 0 has finished everything.
THEOREM ExitCodeIsTrue == Spec => []PassedAreFresh
<1>1. RunInv => PassedAreFresh
  BY DEF RunInv
<1> QED BY <1>1, RunInvariant, PTL
-----------------------------------------------------------------------------
(* The rows *)

Rows(d) == {s \in statistics : InScope(Config[d], s.key)}

\* Scopes being disjoint, an import changes the rows of its own dataset only.
LEMMA ScopesArePrivate ==
  ASSUME NEW d \in Datasets, NEW e \in Datasets, NEW key,
         InScope(Config[d], key), InScope(Config[e], key)
  PROVE  d = e
BY ScopesDisjoint DEF InScope

\* What an import publishes mirrors the cached file, and lies in its scope.
LEMMA ImportMirrors ==
  ASSUME NEW d \in Datasets, NEW f \in Files[d], NEW rows \in OutcomesOf[d][f] \ {{}}
  PROVE  Mirrors(rows, ReadingsOf[d][f]) /\ \A s \in rows : InScope(Config[d], s.key)
<1>1. rows \in Outcomes(Config[d], f) \ {{}}
  BY DEF OutcomesOf
<1>2. ReadingsOf[d][f] = Readings(Config[d], HeaderOf(Config[d], f), f)
  BY DEF ReadingsOf
<1>3. DecodedHeader(Config[d], f) \in Seq(STRING) /\ f.rows \in Seq(Seq(STRING))
  BY FilesAssumption
<1> QED BY <1>1, <1>2, <1>3, OutcomesMirrorTheFile

\* A dataset's rows mirror the file they were published from.
MirrorsSource(d) ==
  IF source[d] = NoFile THEN Rows(d) = {} ELSE Mirrors(Rows(d), ReadingsOf[d][source[d]])

\* MirrorsFile says so of every dataset.
LEMMA MirrorsFileIsMirrors == (\A d \in Datasets : MirrorsSource(d)) => MirrorsFile
BY DEF MirrorsFile, MirrorsSource, Mirrors, Says, Rows

RowsInv == RunInv /\ \A d \in Datasets : MirrorsSource(d)

\* An import keeps the rows of all datasets mirrors of their files.
LEMMA ImportKeepsRows ==
  ASSUME RowsInv, Import, NEW d \in Datasets
  PROVE  MirrorsSource(d)'
<1>1. /\ rest # <<>> /\ cache[Current] # NoFile
      /\ source' = [source EXCEPT ![Current] = cache[Current]]
  BY DEF Import, RowsInv, RunInv, TypeOK
<1>2. Current \in Datasets /\ cache[Current] \in Files[Current]
  BY <1>1, CurrentFollowsPassed DEF RowsInv, RunInv, TypeOK
<1>3. PICK rows \in OutcomesOf[Current][cache[Current]] \ {{}} :
        statistics' = Published(Config[Current], statistics, rows)
  BY DEF Import
<1>4. Mirrors(rows, ReadingsOf[Current][cache[Current]]) /\ \A s \in rows : InScope(Config[Current], s.key)
  BY <1>2, <1>3, ImportMirrors
<1>5. /\ {s \in statistics' : InScope(Config[Current], s.key)} = rows
      /\ \A s : ~InScope(Config[Current], s.key) => (s \in statistics' <=> s \in statistics)
  BY <1>3, <1>4, PublishingReplacesTheScope
<1>6. CASE d = Current
  <2>1. Rows(d)' = rows
    BY <1>5, <1>6 DEF Rows
  <2>2. source'[d] = cache[Current] /\ source'[d] # NoFile
    BY <1>1, <1>2, <1>6 DEF RowsInv, RunInv, Stored
  <2> QED BY <1>4, <1>6, <2>1, <2>2 DEF MirrorsSource
<1>7. CASE d # Current
  <2>1. \A s : InScope(Config[d], s.key) => ~InScope(Config[Current], s.key)
    BY <1>2, <1>7, ScopesArePrivate
  <2>2. Rows(d)' = Rows(d)
    BY <1>5, <2>1 DEF Rows
  <2>3. source'[d] = source[d]
    BY <1>1, <1>2, <1>7 DEF RowsInv, RunInv, Stored
  <2> QED BY <2>2, <2>3 DEF MirrorsSource, RowsInv
<1> QED BY <1>6, <1>7

\* RowsInv holds initially, and is preserved by every step.
LEMMA RowsInductive == (Init => RowsInv) /\ (RowsInv /\ [Next]_vars => RowsInv')
<1>1. Init => RowsInv
  <2>1. Init => \A d \in Datasets : MirrorsSource(d)
    BY DEF Init, MirrorsSource, Rows
  <2> QED BY <2>1, InitHasInv DEF RowsInv
<1>2. ASSUME RowsInv, [Next]_vars PROVE RowsInv'
  <2>1. RunInv'
    BY <1>2, NextKeepsInv DEF RowsInv
  <2>2. CASE Import
    BY <2>1, <2>2, <1>2, ImportKeepsRows DEF RowsInv
  <2>3. CASE ~Import
    <3>1. statistics' = statistics /\ source' = source
      BY <1>2, <2>3 DEF Next, Step, Start, Calling, NotModified, Updated, UpdatedHalf, FetchFails,
                        SkipMissing, ImportFails, Killed, LoseFile, stores, vars
    <3> QED BY <1>2, <2>1, <3>1 DEF RowsInv, MirrorsSource, Rows
  <2> QED BY <2>2, <2>3
<1> QED BY <1>1, <1>2

\* The rows of every dataset are what the file published last says, one per
\* key, whatever files, failures and imports came before.
THEOREM RowsMirrorTheFile == Spec => []MirrorsFile
<1>1. RowsInv => MirrorsFile
  BY MirrorsFileIsMirrors DEF RowsInv
<1> QED BY <1>1, RowsInductive, PTL DEF Spec
=============================================================================
