---------------------------- MODULE FetchDataset ----------------------------
(***************************************************************************)
(* The conditional download of one dataset's CSV into the cache directory  *)
(* (src/etl/fetchDataset.ts): the file and the metadata file that holds    *)
(* its validators are replaced by two renames, one after the other, with   *)
(* requests in between.                                                    *)
(*                                                                         *)
(* An action is what happens between two awaits, a whole fetchWithRetry    *)
(* with its retries being one await.  One process fetches a dataset at a   *)
(* time; it may crash anywhere, and is started again and again.  etag and  *)
(* lastModified are one validator, which names a version of the resource.  *)
(***************************************************************************)
EXTENDS Naturals

CONSTANTS MaxVersions,  \* bound: versions of the upstream file
          MaxCrashes    \* bound: crashes of the fetching process

ASSUME MaxVersionsAssumption == MaxVersions \in Nat \ {0}
ASSUME MaxCrashesAssumption  == MaxCrashes \in Nat

VARIABLES
  upstream,  \* the version the open-data server has
  csv,       \* the cached file: version and whether it is whole
  csvTmp,    \* the file the response body is streamed to
  meta,      \* the metadata file: validator and catalog entry
  pc,        \* the await the fetch stands at
  sent,      \* the metadata the request was made with
  body,      \* the version in the response, 0 for none
  tag,       \* the validator in the response, 0 for none
  crashes

server == upstream
cache  == <<csv, csvTmp, meta>>
locals == <<sent, body, tag>>
vars   == <<upstream, csv, csvTmp, meta, pc, sent, body, tag, crashes>>

-----------------------------------------------------------------------------
Versions == 1..MaxVersions
NoFile   == [version |-> 0, whole |-> FALSE]
Files    == [version : Versions, whole : BOOLEAN] \cup {NoFile}
Metas    == [tag : Versions \cup {0}, entry : BOOLEAN]

\* What readMeta returns when there is no metadata file, or not a valid one.
EmptyMeta == [tag |-> 0, entry |-> FALSE]

Steps == {"requested", "enriching", "streaming", "streamed", "replaced"}

Init ==
  /\ upstream = 1
  /\ csv = NoFile /\ csvTmp = NoFile /\ meta = EmptyMeta
  /\ pc = "idle" /\ sent = EmptyMeta /\ body = 0 /\ tag = 0
  /\ crashes = 0

-----------------------------------------------------------------------------
\* The city replaces the file; a validator is never used twice.
Publish ==
  /\ upstream < MaxVersions
  /\ upstream' = upstream + 1
  /\ UNCHANGED <<cache, pc, locals, crashes>>

\* readMeta, then the conditional request
Start ==
  /\ pc = "idle"
  /\ sent' = meta
  /\ pc' = "requested"
  /\ UNCHANGED <<server, cache, body, tag, crashes>>

\* Seeded bug: a 304 ends the fetch, catalog entry or not.
NotModifiedDone ==
  /\ pc = "requested"
  /\ sent.tag = upstream
  /\ pc' = "idle"
  /\ UNCHANGED <<server, cache, locals, crashes>>

\* 304: nothing to do but to fetch a missing catalog entry.
NotModified ==
  /\ pc = "requested"
  /\ sent.tag = upstream
  /\ pc' = IF sent.entry THEN "idle" ELSE "enriching"
  /\ UNCHANGED <<server, cache, locals, crashes>>

\* The metadata is written to a temporary file and renamed; a catalog that
\* cannot be fetched, or has no such entry, is no error.
Enrich ==
  /\ pc = "enriching"
  /\ meta' \in {meta, [sent EXCEPT !.entry = TRUE]}
  /\ pc' = "idle"
  /\ UNCHANGED <<server, csv, csvTmp, locals, crashes>>

\* Seeded bug: the metadata is written before the file.
ModifiedMetaFirst ==
  /\ pc = "requested"
  /\ sent.tag # upstream
  /\ body' = upstream /\ tag' \in {0, upstream}
  /\ meta' = [tag |-> tag', entry |-> FALSE]
  /\ csvTmp' = [version |-> upstream, whole |-> FALSE]
  /\ pc' = "streaming"
  /\ UNCHANGED <<server, csv, sent, crashes>>

\* 200: the body is streamed to the temporary file; the server may send no
\* validator.
Modified ==
  /\ pc = "requested"
  /\ sent.tag # upstream
  /\ body' = upstream /\ tag' \in {0, upstream}
  /\ csvTmp' = [version |-> upstream, whole |-> FALSE]
  /\ pc' = "streaming"
  /\ UNCHANGED <<server, csv, meta, sent, crashes>>

\* Seeded bug: a response without a body counts as an empty file.
StreamNothing ==
  /\ pc = "streaming"
  /\ csvTmp' = [version |-> 0, whole |-> TRUE]
  /\ pc' = "streamed"
  /\ UNCHANGED <<server, csv, meta, locals, crashes>>

StreamEnd ==
  /\ pc = "streaming"
  /\ csvTmp' = [version |-> body, whole |-> TRUE]
  /\ pc' = "streamed"
  /\ UNCHANGED <<server, csv, meta, locals, crashes>>

\* Seeded bugs: a rename that does not wait for the stream, and none at all.
RenameEarly ==
  /\ pc \in {"streaming", "streamed"}
  /\ csv' = csvTmp /\ csvTmp' = NoFile
  /\ pc' = "replaced"
  /\ UNCHANGED <<server, meta, locals, crashes>>

RenameSkipped ==
  /\ pc = "streamed"
  /\ pc' = "replaced"
  /\ UNCHANGED <<server, cache, locals, crashes>>

RenameCsv ==
  /\ pc = "streamed"
  /\ csv' = csvTmp /\ csvTmp' = NoFile
  /\ pc' = "replaced"
  /\ UNCHANGED <<server, meta, locals, crashes>>

\* fetchKielOpenDataEntry, which never fails, then writeMeta
WriteMeta ==
  /\ pc = "replaced"
  /\ \E entry \in BOOLEAN : meta' = [tag |-> tag, entry |-> entry]
  /\ pc' = "idle"
  /\ UNCHANGED <<server, csv, csvTmp, locals, crashes>>

\* Seeded bugs: a failed fetch that writes its metadata all the same, and one
\* that unlinks the file instead of the temporary file.
ThrowWritesMeta ==
  /\ pc \in Steps
  /\ meta' = IF pc \in {"streaming", "streamed"} THEN [tag |-> tag, entry |-> FALSE] ELSE meta
  /\ csvTmp' = IF pc \in {"streaming", "streamed"} THEN NoFile ELSE csvTmp
  /\ pc' = "idle"
  /\ UNCHANGED <<server, csv, locals, crashes>>

ThrowUnlinksCsv ==
  /\ pc \in Steps
  /\ csv' = IF pc \in {"streaming", "streamed"} THEN NoFile ELSE csv
  /\ pc' = "idle"
  /\ UNCHANGED <<server, csvTmp, meta, locals, crashes>>

\* The fetch rejects: no response or an error status after all retries, a
\* stream or a file operation that fails.  Temporary files are unlinked.
Throw ==
  /\ pc \in Steps
  /\ csvTmp' = IF pc \in {"streaming", "streamed"} THEN NoFile ELSE csvTmp
  /\ pc' = "idle"
  /\ UNCHANGED <<server, csv, meta, locals, crashes>>

\* The process dies; whatever is in the cache directory stays.
Crash ==
  /\ pc \in Steps /\ crashes < MaxCrashes
  /\ crashes' = crashes + 1
  /\ pc' = "idle"
  /\ UNCHANGED <<server, cache, locals>>

-----------------------------------------------------------------------------
Next ==
  \/ Publish \/ Start \/ NotModified \/ Enrich
  \/ Modified \/ StreamEnd \/ RenameCsv \/ WriteMeta
  \/ Throw \/ Crash

Spec == Init /\ [][Next]_vars

\* The fetch is run again and again, and does not fail at the same await for
\* ever: a step, and a request for the catalog, that can be tried infinitely
\* often succeeds in the end.
Progress ==
  /\ WF_vars(Start)
  /\ SF_vars(NotModified) /\ SF_vars(Modified) /\ SF_vars(StreamEnd) /\ SF_vars(RenameCsv)
  /\ SF_vars(WriteMeta /\ meta'.entry) /\ SF_vars(Enrich /\ meta'.entry)

FairSpec == Spec /\ Progress

-----------------------------------------------------------------------------
\* Every variable stays in its domain.
TypeOK ==
  /\ upstream \in Versions
  /\ csv \in Files /\ csvTmp \in Files /\ meta \in Metas
  /\ pc \in Steps \cup {"idle"}
  /\ sent \in Metas /\ body \in Versions \cup {0} /\ tag \in Versions \cup {0}
  /\ crashes \in 0..MaxCrashes

\* The importer never sees a file that is cut short: the cached CSV is absent
\* or the whole of some version, whatever failed or crashed.
CsvWhole == csv = NoFile \/ csv.whole

\* The metadata never runs ahead of the file: a validator on disk names a
\* version the cached file has reached, also when the process died between
\* the two renames.
MetaNotAhead == meta.tag <= csv.version

\* A 304 is believed only when the cached file is the server's file.
NotModifiedIsCurrent ==
  [][NotModified => csv = [version |-> upstream, whole |-> TRUE]]_vars

\* The cached file never goes back to an older version, or disappears.
NeverOlder == [][csv'.version >= csv.version]_vars

\* Once the server's file rests, the cache gets it and keeps it, in spite of
\* crashes and failures at any step.
EventuallyFresh == <>[](csv.version = upstream)

\* A catalog entry that could not be fetched with the file is fetched later,
\* on a 304 or with the file again.
EventuallyEnriched == []<>(meta.entry)

-----------------------------------------------------------------------------
(* Why the cache stays sound: the inductive invariant behind it *)

\* The versions in play are ordered: metadata, file, response, server; the
\* metadata a request was made with is still on disk.
Ordered ==
  /\ csv.version <= upstream
  /\ pc \in {"requested", "enriching"} => sent = meta
  /\ pc = "enriching" => sent.tag # 0
  /\ pc \in {"streaming", "streamed", "replaced"} =>
       body \in Versions /\ csv.version <= body /\ body <= upstream /\ tag \in {0, body}
  /\ pc = "streamed" => csvTmp = [version |-> body, whole |-> TRUE]
  /\ pc = "replaced" => csv.version = body

CacheInv == TypeOK /\ CsvWhole /\ MetaNotAhead /\ Ordered
=============================================================================
