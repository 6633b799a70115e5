------------------------------- MODULE EtlRun -------------------------------
(***************************************************************************)
(* The command etl:run (src/etl/cli/run.ts): parse the arguments, then     *)
(* fetch and import one dataset after the other, with what each import     *)
(* makes of its file.  Runs follow one another on one cache directory and  *)
(* one database; a run may be killed.                                      *)
(*                                                                         *)
(* The requests are those of FetchWithRetry, the rows those of CsvImport.  *)
(* How the cached file and its metadata are replaced is a step here and    *)
(* the subject of FetchDataset; the transaction that publishes rows is a   *)
(* step here and the subject of ImportDataset.                             *)
(***************************************************************************)
EXTENDS CsvImport, FetchWithRetry

CONSTANTS
  Manifest,      \* the datasets, in the order of the manifest
  Config,        \* of each dataset
  Files,         \* the files the server may have, for each dataset
  Argvs,         \* command lines, as sequences of arguments
  PositiveInt,   \* the positive integer an argument is, 0 if it is none
  NumericFlags,  \* the flags that take a number
  DefaultRetries

Datasets == ToSet(Manifest)
NoFile   == [headers |-> <<>>, rows |-> <<>>]

ASSUME ManifestAssumption == Manifest \in Seq(Datasets) \ {<<>>} /\ IsInjective(Manifest)
ASSUME DefaultRetriesAssumption == DefaultRetries \in 0..MaxRetries
ASSUME FilesAssumption ==
  \A d \in Datasets : \A f \in Files[d] :
    f # NoFile /\ DecodedHeader(Config[d], f) \in Seq(STRING) /\ f.rows \in Seq(Seq(STRING))
ASSUME AnswersAre == Answers = {"ok", "notModified", "clientError"}

\* No two datasets, and no two specs of one, write rows of one scope.
ASSUME ScopesDisjoint ==
  \A d, e \in Datasets : \A s \in Config[d].specs, t \in Config[e].specs :
    /\ <<Config[d].areaType, s.indicator, s.category>> = <<Config[e].areaType, t.indicator, t.category>>
    => d = e /\ s = t

\* What each file has for its dataset, and what an import of it may publish
ReadingsOf == [d \in Datasets |-> [f \in Files[d] |-> Readings(Config[d], HeaderOf(Config[d], f), f)]]
OutcomesOf == [d \in Datasets |-> [f \in Files[d] |-> Outcomes(Config[d], f)]]

VARIABLES
  cache,      \* the cached file of each dataset
  validator,  \* the datasets whose metadata has the validator of that file
  statistics, \* the rows of the database
  chosen,     \* the datasets this run is for
  rest,       \* those it has not finished, the current one first
  pc,         \* the await it stands at
  exit,       \* its exit code, "none" before it has one
  source,     \* history: the file each dataset's rows were published from
  confirmed   \* history: the datasets whose file the server gave or confirmed in this run

requests == requestVars
stores   == <<cache, validator, statistics, source>>
run      == <<chosen, rest, exit>>
vars     == <<requestVars, cache, validator, statistics, chosen, rest, pc, exit, source, confirmed>>

-----------------------------------------------------------------------------
(* The command line *)

\* An argument has a flag's name or "", and a text: a selector, the value of
\* the flag before it, or the flag's own if that is written inline.
NoArgs == [selector |-> "", retries |-> DefaultRetries, pending |-> "", ok |-> TRUE]

WithValue(args, flag, text) ==
  [args EXCEPT !.pending = "",
               !.ok      = PositiveInt[text] > 0,
               !.retries = IF flag = "retries" THEN PositiveInt[text] ELSE @]

Parse(args, arg) ==
  CASE ~args.ok             -> args
    [] args.ok /\ args.pending # "" -> WithValue(args, args.pending, arg.text)
    [] OTHER ->
         IF arg.flag = ""
         THEN CASE arg.text = ""       -> args
                [] arg.text # "" /\ args.selector = "" -> [args EXCEPT !.selector = arg.text]
                [] OTHER               -> [args EXCEPT !.ok = FALSE]
         ELSE CASE arg.flag \notin NumericFlags -> [args EXCEPT !.ok = FALSE]
                [] arg.flag \in NumericFlags /\ arg.inline -> WithValue(args, arg.flag, arg.text)
                [] OTHER -> [args EXCEPT !.pending = arg.flag]

\* parseCliArgs and resolveDatasetsFromArg
ParsedArgs(argv) ==
  LET args == FoldLeft(Parse, NoArgs, argv)
  IN [selector |-> args.selector, retries |-> args.retries,
      ok |-> args.ok /\ args.pending = "" /\ args.selector \in {"--all"} \cup Datasets]

Selection(args) == IF args.selector = "--all" THEN Manifest ELSE <<args.selector>>

\* MaxRetries bounds the retries that the command lines ask for.
ASSUME ArgvsAssumption ==
  \A argv \in Argvs : ParsedArgs(argv).ok => ParsedArgs(argv).retries \in 0..MaxRetries

-----------------------------------------------------------------------------
Init ==
  /\ RequestInit
  /\ cache = [d \in Datasets |-> NoFile] /\ validator = {} /\ statistics = {}
  /\ chosen = <<>> /\ rest = <<>> /\ pc = "off" /\ exit = "none"
  /\ source = [d \in Datasets |-> NoFile] /\ confirmed = {}

Current == Head(rest)

Exit(code) == pc' = "off" /\ exit' = code

\* A run fetches its next dataset, or has done them all.
Continue(datasets, n) ==
  /\ rest' = datasets
  /\ IF datasets = <<>>
     THEN Exit("0") /\ UNCHANGED requests
     ELSE Request(n) /\ pc' = "fetch" /\ exit' = "none"

Start ==
  /\ pc = "off"
  /\ \E argv \in Argvs :
       LET args == ParsedArgs(argv) IN
       IF args.ok
       THEN /\ chosen' = Selection(args)
            /\ Continue(chosen', args.retries)
       ELSE /\ chosen' = <<>> /\ rest' = <<>>
            /\ Exit("1") /\ UNCHANGED requests
  /\ confirmed' = {}
  /\ UNCHANGED stores

Calling ==
  /\ pc = "fetch"
  /\ RequestStep
  /\ answer' = "notModified" => Current \in validator
  /\ UNCHANGED <<stores, run, pc, confirmed>>

Fetched(response) == pc = "fetch" /\ phase = "returned" /\ answer = response

\* Seeded bug: only a file that is new is imported.
SkipNotModified ==
  /\ Fetched("notModified")
  /\ Continue(Tail(rest), retries)
  /\ confirmed' = confirmed \cup {Current}
  /\ UNCHANGED <<stores, chosen>>

\* 304, and the file imported is the cached one
NotModified ==
  /\ Fetched("notModified")
  /\ pc' = "import"
  /\ confirmed' = confirmed \cup {Current}
  /\ UNCHANGED <<requests, stores, run>>

\* 200: the file replaces the cached one, and its validator follows if the
\* server sends one.
Updated ==
  /\ Fetched("ok")
  /\ \E file \in Files[Current] : cache' = [cache EXCEPT ![Current] = file]
  /\ validator' \in {validator \ {Current}, validator \cup {Current}}
  /\ pc' = "import"
  /\ confirmed' = confirmed \cup {Current}
  /\ UNCHANGED <<requests, statistics, source, run>>

\* As Updated, but the metadata cannot be written; that ends the run.
UpdatedHalf ==
  /\ Fetched("ok")
  /\ \E file \in Files[Current] : cache' = [cache EXCEPT ![Current] = file]
  /\ validator' = validator \ {Current}
  /\ Exit("1")
  /\ UNCHANGED <<requests, statistics, source, chosen, rest, confirmed>>

\* The cache directory cannot be made, there is no response, or one that is no
\* success, or what it brings cannot be saved: the run ends at this dataset.
FetchFails ==
  /\ pc = "fetch"
  /\ phase \in {"returned", "threw"} \/ (phase = "calling" /\ attempt = 0)
  /\ Exit("1")
  /\ UNCHANGED <<requests, stores, chosen, rest, confirmed>>

\* CsvFileNotFoundError: a warning, and on to the next dataset
SkipMissing ==
  /\ pc = "import" /\ cache[Current] = NoFile
  /\ Continue(Tail(rest), retries)
  /\ UNCHANGED <<stores, chosen, confirmed>>

\* importDataset publishes the rows of the cached file.
Import ==
  /\ pc = "import" /\ cache[Current] # NoFile
  /\ \E rows \in OutcomesOf[Current][cache[Current]] \ {{}} :
       statistics' = Published(Config[Current], statistics, rows)
  /\ source' = [source EXCEPT ![Current] = cache[Current]]
  /\ Continue(Tail(rest), retries)
  /\ UNCHANGED <<cache, validator, chosen, confirmed>>

\* It throws: the file, the schema or the database is not as it should be.
ImportFails ==
  /\ pc = "import" /\ cache[Current] # NoFile
  /\ Exit("1")
  /\ UNCHANGED <<requests, stores, chosen, rest, confirmed>>

\* The process is killed; what is on disk stays.
Killed ==
  /\ pc # "off"
  /\ Exit("killed")
  /\ UNCHANGED <<requests, stores, chosen, rest, confirmed>>

\* Between two runs somebody deletes a cached file, and leaves its metadata.
LoseFile ==
  /\ pc = "off"
  /\ \E d \in Datasets : cache' = [cache EXCEPT ![d] = NoFile]
  /\ UNCHANGED <<requests, validator, statistics, source, run, pc, confirmed>>

-----------------------------------------------------------------------------
Step ==
  \/ Calling \/ NotModified \/ Updated \/ UpdatedHalf \/ FetchFails
  \/ SkipMissing \/ Import \/ ImportFails

Next == Start \/ Step \/ Killed \/ LoseFile

Spec == Init /\ [][Next]_vars

\* A call is answered, rejects or is aborted by its timeout; sleeps end; the
\* statements of an import return.
FairSpec == Spec /\ WF_vars(Step)

-----------------------------------------------------------------------------
\* Every variable stays in its domain.
TypeOK ==
  /\ RequestTypeOK
  /\ \A d \in Datasets : {cache[d], source[d]} \subseteq Files[d] \cup {NoFile}
  /\ validator \subseteq Datasets /\ confirmed \subseteq Datasets
  /\ chosen \in Seq(Datasets) /\ rest \in Seq(Datasets)
  /\ pc \in {"off", "fetch", "import"} /\ pc # "off" => rest # <<>>
  /\ exit \in {"none", "0", "1", "killed"}

\* What a reader would find in the file for a key: the readings no other reading
\* of their group outranks.
Says(readings, s) ==
  \E r \in readings :
    /\ r.key = s.key /\ r.value = s.value
    /\ ~\E q \in readings : q.group = r.group /\ q.rank > r.rank

\* The rows of a dataset are what the file published last says, whatever files,
\* failures and other datasets' imports came before: a row for each key the
\* file has a usable cell for, with the value of the cell that counts, and none
\* left over from an older file.
MirrorsFile ==
  \A d \in Datasets :
    LET rows == {s \in statistics : InScope(Config[d], s.key)}
        readings == ReadingsOf[d][source[d]]
    IN IF source[d] = NoFile THEN rows = {}
       ELSE /\ {s.key : s \in rows} = {r.key : r \in readings}
            /\ \A s \in rows : Says(readings, s)
            /\ \A s, t \in rows : s.key = t.key => s = t

Passed == {chosen[n] : n \in 1..(Len(chosen) - Len(rest))}

\* The exit code can be trusted: the datasets a run has finished, which are all
\* of them if it exits with 0, were confirmed by the server and are served from
\* the cached file, also one that an earlier run fetched and did not import.
\* Only one whose cached file is missing may have been passed over.
PassedAreFresh ==
  /\ \A d \in Passed : d \in confirmed /\ cache[d] \in {source[d], NoFile}
  /\ exit = "0" => rest = <<>> /\ chosen # <<>>

\* A run comes to its end, whatever the server does.
RunEnds == pc # "off" ~> pc = "off"

-----------------------------------------------------------------------------
(* Why: the inductive invariants behind these properties *)

\* What is left is the end of what was chosen, where nothing is there twice; a
\* file is imported after the server has given or confirmed it.
RestIsChosen ==
  /\ \A m, n \in 1..Len(chosen) : chosen[m] = chosen[n] => m = n
  /\ Len(rest) <= Len(chosen)
  /\ \A n \in 1..Len(rest) : rest[n] = chosen[Len(chosen) - Len(rest) + n]
  /\ pc = "import" => Current \in confirmed

Stored == DOMAIN cache = Datasets /\ DOMAIN source = Datasets

RunInv == TypeOK /\ RequestInv /\ Stored /\ RestIsChosen /\ PassedAreFresh
=============================================================================
