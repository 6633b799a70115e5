------------------------- MODULE FetchDatasetProofs -------------------------
(***************************************************************************)
(* The cache of downloaded files is sound for any number of versions and   *)
(* crashes: CacheInv is inductive, and what it implies.                    *)
(***************************************************************************)
EXTENDS FetchDataset, TLAPS

\* CacheInv holds initially.
LEMMA InitHasInv == Init => CacheInv
BY MaxVersionsAssumption, MaxCrashesAssumption
   DEF Init, CacheInv, TypeOK, CsvWhole, MetaNotAhead, Ordered,
       Versions, NoFile, Files, Metas, EmptyMeta, Steps

\* CacheInv is preserved by every step.
LEMMA NextKeepsInv == CacheInv /\ [Next]_vars => CacheInv'
<1> SUFFICES ASSUME CacheInv, [Next]_vars PROVE CacheInv'
  OBVIOUS
<1> USE MaxVersionsAssumption, MaxCrashesAssumption
        DEF CacheInv, TypeOK, CsvWhole, MetaNotAhead, Ordered,
            Versions, NoFile, Files, Metas, EmptyMeta, Steps, server, cache, locals
<1>1. CASE Publish
  BY <1>1 DEF Publish
<1>2. CASE Start
  BY <1>2 DEF Start
<1>3. CASE NotModified
  BY <1>3 DEF NotModified
<1>4. CASE Enrich
  BY <1>4 DEF Enrich
<1>5. CASE Modified
  BY <1>5 DEF Modified
<1>6. CASE StreamEnd
  BY <1>6 DEF StreamEnd
<1>7. CASE RenameCsv
  BY <1>7 DEF RenameCsv
<1>8. CASE WriteMeta
  BY <1>8 DEF WriteMeta
<1>9. CASE Throw
  BY <1>9 DEF Throw
<1>10. CASE Crash
  BY <1>10 DEF Crash
<1>11. CASE UNCHANGED vars
  BY <1>11 DEF vars
<1> QED
  BY <1>1, <1>2, <1>3, <1>4, <1>5, <1>6, <1>7, <1>8, <1>9, <1>10, <1>11 DEF Next

\* fetchDataset keeps its inductive invariant, and with it the types.
THEOREM CacheInvariant == Spec => []CacheInv
BY InitHasInv, NextKeepsInv, PTL DEF Spec

\* Every variable of the download stays in its domain.
THEOREM CacheTypes == Spec => []TypeOK
<1>1. CacheInv => TypeOK
  BY DEF CacheInv
<1> QED BY <1>1, CacheInvariant, PTL

\* The importer never finds a file that is cut short.
THEOREM CacheIsWhole == Spec => []CsvWhole
<1>1. CacheInv => CsvWhole
  BY DEF CacheInv
<1> QED BY <1>1, CacheInvariant, PTL

\* The validators on disk never name a version newer than the file.
THEOREM CacheIsSound == Spec => []MetaNotAhead
<1>1. CacheInv => MetaNotAhead
  BY DEF CacheInv
<1> QED BY <1>1, CacheInvariant, PTL

\* A 304 is only believed when the cached file is the server's file.
THEOREM NotModifiedIsSound == Spec => NotModifiedIsCurrent
<1> DEFINE Current == NotModified => csv = [version |-> upstream, whole |-> TRUE]
<1>1. CacheInv /\ [Next]_vars => [Current]_vars
  <2> SUFFICES ASSUME CacheInv, NotModified PROVE csv = [version |-> upstream, whole |-> TRUE]
    OBVIOUS
  <2>1. csv.version = upstream
    BY DEF CacheInv, Ordered, MetaNotAhead, NotModified, TypeOK, Versions, Files, NoFile, Metas
  <2>2. csv \in Files /\ csv # NoFile
    BY <2>1 DEF CacheInv, TypeOK, NoFile, Versions
  <2> QED BY <2>1, <2>2 DEF CacheInv, CsvWhole, Files
<1> QED BY <1>1, CacheInvariant, PTL DEF Spec, NotModifiedIsCurrent

\* The cached file never goes back to an older version.
THEOREM CacheNeverOlder == Spec => NeverOlder
<1> DEFINE Grows == csv'.version >= csv.version
<1>1. CacheInv /\ [Next]_vars => [Grows]_vars
  <2> SUFFICES ASSUME CacheInv, Next PROVE csv'.version >= csv.version
    OBVIOUS
  <2>1. csv.version \in Nat
    BY MaxVersionsAssumption DEF CacheInv, TypeOK, Files, NoFile, Versions
  <2>2. CASE RenameCsv
    BY <2>1, <2>2 DEF RenameCsv, CacheInv, Ordered, Versions
  <2>3. CASE csv' = csv
    BY <2>1, <2>3
  <2> QED
    BY <2>2, <2>3 DEF Next, Publish, Start, NotModified, Enrich, Modified, StreamEnd,
                      WriteMeta, Throw, Crash, cache
<1> QED BY <1>1, CacheInvariant, PTL DEF Spec, NeverOlder
=============================================================================
