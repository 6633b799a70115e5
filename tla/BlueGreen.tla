------------------------------ MODULE BlueGreen ------------------------------
(***************************************************************************)
(* The blue/green operation of the deployment: the gateway, two API        *)
(* services with a database file each, and the scripts that refresh the    *)
(* idle color and switch the traffic (compose.yaml, scripts/ops).          *)
(*                                                                         *)
(* An action is one command of a script.  A command may fail, which the    *)
(* scripts notice (set -e) or ignore (|| true); a script may be killed     *)
(* before any command.  One operator runs one script at a time, but a job  *)
(* may outlive a script that is killed.  DuckDB lets one process at a time *)
(* open a database file: the API of a color, from its start to its end, or *)
(* one job.  Both databases have been migrated before, as the README asks. *)
(***************************************************************************)
EXTENDS Naturals

CONSTANTS MaxFailures,    \* bound: commands that fail by themselves
          MaxInterrupts,  \* bound: scripts that are killed
          MaxCrashes      \* bound: API processes that die

ASSUME BoundsAssumption == {MaxFailures, MaxInterrupts, MaxCrashes} \subseteq Nat

VARIABLES
  conf,     \* the color in ops/nginx/upstreams/active.conf
  routed,   \* the color in the configuration nginx runs with
  link,     \* the color the symlink active.duckdb points to
  api,      \* the colors whose API runs, and so has its database open
  jobs,     \* the colors whose database a job has open
  died,     \* history: the colors whose API has died since a cutover last found it healthy
  pc,       \* the command the script stands at, "idle" for no script
  working,  \* whether the script's job has its database open
  target,   \* the script's target or inactive color
  bak,      \* active.conf.bak
  undone,   \* whether the commands of rollback_to_previous have worked so far
  outcome,  \* how the last script ended
  failures, interrupts, crashes

services   == <<api, jobs, died>>
scriptVars == <<working, target, bak, undone>>
bounds     == <<failures, interrupts, crashes>>
vars == <<conf, routed, link, services, pc, scriptVars, outcome, bounds>>

-----------------------------------------------------------------------------
Colors   == {"blue", "green"}
Other(c) == IF c = "blue" THEN "green" ELSE "blue"

Refreshing == {"backup", "migrate", "etl", "etlMore", "start"}
Undoing    == {"undoConf", "undoReload", "undoLink"}
Switching  == {"up", "write", "reload", "link", "verify"} \cup Undoing
Outcomes   == {"none", "killed", "refreshed", "refused", "switched", "unswitched",
               "reverted", "stranded"}

\* Gateway and services have been brought up and cut over once; the idle color
\* may be starting.
Init ==
  /\ conf \in Colors /\ routed = conf /\ link = conf
  /\ api \in {{conf}, Colors} /\ jobs = {} /\ died = {}
  /\ pc = "idle" /\ working = FALSE /\ target = conf /\ bak = conf /\ undone = TRUE
  /\ outcome = "none"
  /\ failures = 0 /\ interrupts = 0 /\ crashes = 0

\* A command that can work may still fail.
MayFail == failures < MaxFailures /\ failures' = failures + 1

EndScript(o) == pc' = "idle" /\ outcome' = o

-----------------------------------------------------------------------------
(* etl-bluegreen.sh *)

StartRefresh ==
  /\ pc = "idle"
  /\ pc' = "backup" /\ target' = Other(conf) /\ outcome' = "none"
  /\ UNCHANGED <<conf, routed, link, services, working, bak, undone, bounds>>

\* A job opens the database of a color, unless another process has it open.
JobOpens(here, color) ==
  /\ pc = here /\ ~working
  /\ \/ /\ color \notin api \cup jobs
        /\ jobs' = jobs \cup {color} /\ working' = TRUE
        /\ UNCHANGED <<pc, outcome, failures>>
     \/ /\ color \in api \cup jobs
        /\ EndScript("refused") /\ UNCHANGED <<jobs, working, failures>>
     \/ EndScript("refused") /\ MayFail /\ UNCHANGED <<jobs, working>>
  /\ UNCHANGED <<conf, routed, link, api, died, target, bak, undone, interrupts, crashes>>

\* It closes the database, with or without success.
JobCloses(here, color, next) ==
  /\ pc = here /\ working
  /\ jobs' = jobs \ {color} /\ working' = FALSE
  /\ \/ pc' = next /\ UNCHANGED <<outcome, failures>>
     \/ EndScript("refused") /\ MayFail
  /\ UNCHANGED <<conf, routed, link, api, died, target, bak, undone, interrupts, crashes>>

Job(here, color, next) == JobOpens(here, color) \/ JobCloses(here, color, next)

Backup     == Job("backup", Other(target), "migrate")
MigrateJob == Job("migrate", target, "etl")

\* The job imports dataset by dataset and closes the database in between: the
\* first dataset, and the others.
EtlFirst   == Job("etl", target, "etlMore")
EtlMore    == Job("etlMore", target, "start")

\* docker compose up and wait_healthy
StartInactive ==
  /\ pc = "start"
  /\ \/ target \in api /\ EndScript("refreshed") /\ UNCHANGED failures
     \/ EndScript("refused") /\ MayFail
  /\ UNCHANGED <<conf, routed, link, services, scriptVars, interrupts, crashes>>

-----------------------------------------------------------------------------
(* cutover.sh, also as rollback.sh runs it *)

\* Seeded bug: the argument is not checked.
StartCutoverUnchecked(color) ==
  /\ pc = "idle"
  /\ pc' = "up" /\ target' \in {color, "red"} /\ undone' = TRUE /\ outcome' = "none"
  /\ UNCHANGED <<conf, routed, link, services, working, bak, bounds>>

StartCutover(color) ==
  /\ pc = "idle"
  /\ pc' = "up" /\ target' = color /\ undone' = TRUE /\ outcome' = "none"
  /\ UNCHANGED <<conf, routed, link, services, working, bak, bounds>>

\* Seeded bug: the script does not wait for the target.
UpWithoutWait ==
  /\ pc = "up"
  /\ pc' = "write"
  /\ UNCHANGED <<conf, routed, link, services, scriptVars, outcome, bounds>>

\* Seeded bug: nothing is done for the color that is in active.conf.
UpUnlessActive ==
  /\ pc = "up"
  /\ \/ target \in api \ {conf} /\ pc' = "write" /\ died' = died \ {target} /\ UNCHANGED outcome
     \/ target \notin api \ {conf} /\ EndScript("unswitched") /\ UNCHANGED died
  /\ UNCHANGED <<conf, routed, link, api, jobs, scriptVars, bounds>>

\* docker compose up, and the health of the container in at most 60 tries
Up ==
  /\ pc = "up"
  /\ \/ /\ target \in api /\ died' = died \ {target}
        /\ pc' = "write" /\ UNCHANGED <<outcome, failures>>
     \/ target \notin api /\ EndScript("unswitched") /\ UNCHANGED <<died, failures>>
     \/ EndScript("unswitched") /\ MayFail /\ UNCHANGED died
  /\ UNCHANGED <<conf, routed, link, api, jobs, scriptVars, interrupts, crashes>>

WriteConf ==
  /\ pc = "write"
  /\ \/ /\ bak' = conf /\ conf' = target
        /\ pc' = "reload" /\ UNCHANGED <<outcome, failures>>
     \/ /\ EndScript("unswitched") /\ MayFail
        /\ UNCHANGED <<bak, conf>>
  /\ UNCHANGED <<routed, link, services, working, target, undone, interrupts, crashes>>

Reload ==
  /\ pc = "reload"
  /\ \/ routed' = conf /\ pc' = "link" /\ UNCHANGED failures
     \/ pc' = "undoConf" /\ MayFail /\ UNCHANGED routed
  /\ UNCHANGED <<conf, link, services, scriptVars, outcome, interrupts, crashes>>

Link ==
  /\ pc = "link"
  /\ \/ link' = target /\ pc' = "verify" /\ UNCHANGED failures
     \/ pc' = "undoConf" /\ MayFail /\ UNCHANGED link
  /\ UNCHANGED <<conf, routed, services, scriptVars, outcome, interrupts, crashes>>

\* curl of the health endpoint through the gateway
Verify ==
  /\ pc = "verify"
  /\ \/ routed \in api /\ EndScript("switched") /\ UNCHANGED failures
     \/ routed \notin api /\ pc' = "undoConf" /\ UNCHANGED <<outcome, failures>>
     \/ pc' = "undoConf" /\ MayFail /\ UNCHANGED outcome
  /\ UNCHANGED <<conf, routed, link, services, scriptVars, interrupts, crashes>>

(* rollback_to_previous *)

UndoConf ==
  /\ pc = "undoConf"
  /\ \/ conf' = bak /\ pc' = "undoReload" /\ UNCHANGED <<outcome, failures>>
     \/ EndScript("stranded") /\ MayFail /\ UNCHANGED conf
  /\ UNCHANGED <<routed, link, services, scriptVars, interrupts, crashes>>

\* Seeded bug: the gateway is not reloaded again.
UndoReloadSkipped ==
  /\ pc = "undoReload"
  /\ pc' = "undoLink"
  /\ UNCHANGED <<conf, routed, link, services, scriptVars, outcome, bounds>>

UndoReload ==
  /\ pc = "undoReload"
  /\ \/ routed' = conf /\ UNCHANGED <<undone, failures>>
     \/ undone' = FALSE /\ MayFail /\ UNCHANGED routed
  /\ pc' = "undoLink"
  /\ UNCHANGED <<conf, link, services, working, target, bak, outcome, interrupts, crashes>>

UndoLink ==
  /\ pc = "undoLink"
  /\ \/ link' = bak /\ EndScript(IF undone THEN "reverted" ELSE "stranded") /\ UNCHANGED failures
     \/ EndScript("stranded") /\ MayFail /\ UNCHANGED link
  /\ UNCHANGED <<conf, routed, services, scriptVars, interrupts, crashes>>

-----------------------------------------------------------------------------
(* What happens around the scripts *)

\* The color whose database the script's job has open
OwnJob == IF ~working THEN {} ELSE IF pc = "backup" THEN {Other(target)} ELSE {target}

\* The script's job is killed with it, or goes on and closes its database later.
Interrupt ==
  /\ pc # "idle" /\ interrupts < MaxInterrupts
  /\ interrupts' = interrupts + 1
  /\ EndScript("killed") /\ working' = FALSE
  /\ jobs' \in {jobs, jobs \ OwnJob}
  /\ UNCHANGED <<conf, routed, link, api, died, target, bak, undone, failures, crashes>>

OrphanCloses(c) ==
  /\ c \in jobs \ OwnJob
  /\ jobs' = jobs \ {c}
  /\ UNCHANGED <<conf, routed, link, api, died, pc, scriptVars, outcome, bounds>>

ApiCrash(c) ==
  /\ c \in api /\ crashes < MaxCrashes
  /\ crashes' = crashes + 1
  /\ api' = api \ {c} /\ died' = died \cup {c}
  /\ UNCHANGED <<conf, routed, link, jobs, pc, scriptVars, outcome, failures, interrupts>>

\* restart: unless-stopped, and docker compose up; the start fails, and is tried
\* again, as long as a job has the file.
ApiStart(c) ==
  /\ c \notin api \cup jobs
  /\ api' = api \cup {c}
  /\ UNCHANGED <<conf, routed, link, jobs, died, pc, scriptVars, outcome, bounds>>

\* The gateway is restarted and reads active.conf.
GatewayRestart ==
  /\ routed' = conf
  /\ UNCHANGED <<conf, link, services, pc, scriptVars, outcome, bounds>>

-----------------------------------------------------------------------------
Script ==
  \/ Backup \/ MigrateJob \/ EtlFirst \/ EtlMore \/ StartInactive
  \/ Up \/ WriteConf \/ Reload \/ Link \/ Verify
  \/ UndoConf \/ UndoReload \/ UndoLink

Next ==
  \/ StartRefresh \/ \E c \in Colors : StartCutover(c)
  \/ Script \/ Interrupt \/ GatewayRestart
  \/ \E c \in Colors : ApiCrash(c) \/ ApiStart(c) \/ OrphanCloses(c)

Spec == Init /\ [][Next]_vars

\* Every command ends.
FairSpec == Spec /\ WF_vars(Script)

-----------------------------------------------------------------------------
\* Every variable stays in its domain.
TypeOK ==
  /\ {conf, routed, link, target, bak} \subseteq Colors
  /\ api \subseteq Colors /\ jobs \subseteq Colors /\ died \subseteq Colors
  /\ pc \in {"idle"} \cup Refreshing \cup Switching
  /\ working \in BOOLEAN /\ undone \in BOOLEAN /\ outcome \in Outcomes
  /\ failures \in 0..MaxFailures /\ interrupts \in 0..MaxInterrupts /\ crashes \in 0..MaxCrashes

Aligned(c) == conf = c /\ routed = c /\ link = c

\* A cutover that reports success, or has failed and could carry out its
\* rollback, leaves gateway, active.conf and symlink at one color, whatever
\* earlier failures and interruptions had left behind.
CutoverAligns ==
  /\ outcome = "switched" => Aligned(target)
  /\ outcome = "reverted" => Aligned(bak)

\* No command, failure, interruption or restart takes the gateway from an API
\* that runs to one that does not, unless that one has died since a cutover last
\* found it healthy.
NoDowntime == [][(routed \in api) => (routed \in api \cup died)']_vars

\* Nothing fails any more.
Calm == failures = MaxFailures /\ interrupts = MaxInterrupts /\ crashes = MaxCrashes

\* A cutover to an API that runs repairs whatever killed and stranded scripts
\* have left: when nothing fails any more, it succeeds and aligns everything.
CutoverRepairs ==
  \A c \in Colors : Calm /\ pc = "up" /\ target = c /\ c \in api ~> outcome = "switched" /\ Aligned(c)

-----------------------------------------------------------------------------
(* Why a finished cutover is aligned: the inductive invariant *)

\* What each command finds done by those before it, whatever the gateway does.
CutoverProgress ==
  /\ outcome = "none" \/ pc = "idle"
  /\ pc = "reload" => conf = target
  /\ pc = "link" => conf = target /\ routed = target
  /\ pc = "verify" => Aligned(target)
  /\ pc = "undoReload" => conf = bak
  /\ pc = "undoLink" => conf = bak /\ (undone => routed = bak)

CutoverInv == TypeOK /\ CutoverAligns /\ CutoverProgress

\* Every color that a command can still send the gateway to runs, or has died
\* since a cutover found it healthy: the one in active.conf, the one in its
\* backup and the one that a cutover has waited for.
NoneIsDown ==
  /\ {conf, bak, routed} \subseteq api \cup died
  /\ pc = "write" => target \in api \cup died
  /\ crashes = 0 => died = {}

-----------------------------------------------------------------------------
(* What the runbook says, and the scripts do not do *)

\* The standard refresh cycle prepares the inactive color (docs/runbook-docker.md:63).
RefreshCompletes == pc = "backup" ~> outcome = "refreshed"

\* Why they do not: the backup opens the database of the active color, whose
\* API runs.  While no API has died, no refresh gets past it.
BackupIsRefused ==
  /\ pc = "backup" => Other(target) = conf
  /\ crashes = 0 => pc \notin Refreshing \ {"backup"} /\ ~working /\ outcome # "refreshed"
=============================================================================
