-------------------------- MODULE BlueGreenProofs --------------------------
(***************************************************************************)
(* A cutover that ends as it should leaves gateway, active.conf and        *)
(* symlink at one color, for any number of failures, interruptions and     *)
(* crashes before it; no step takes the traffic to an API that is down but *)
(* for one that has died since a cutover found it healthy; and no refresh  *)
(* completes before an API has died.                                       *)
(***************************************************************************)
EXTENDS BlueGreen, TLAPS

\* CutoverInv holds initially.
LEMMA InitHasInv == Init => CutoverInv
<1> SUFFICES ASSUME Init PROVE CutoverInv
  OBVIOUS
<1>1. api \subseteq Colors /\ jobs \subseteq Colors /\ died \subseteq Colors
  BY DEF Init
<1>2. TypeOK
  <2>1. {conf, routed, link, target, bak} \subseteq Colors
    BY DEF Init
  <2>2. /\ pc \in {"idle"} \cup Refreshing \cup Switching
        /\ working \in BOOLEAN /\ undone \in BOOLEAN /\ outcome \in Outcomes
    BY DEF Init, Outcomes
  <2>3. failures \in 0..MaxFailures /\ interrupts \in 0..MaxInterrupts /\ crashes \in 0..MaxCrashes
    BY BoundsAssumption DEF Init
  <2> QED BY <1>1, <2>1, <2>2, <2>3 DEF TypeOK
<1>3. CutoverAligns /\ CutoverProgress
  BY DEF Init, CutoverAligns, CutoverProgress
<1> QED BY <1>2, <1>3 DEF CutoverInv

\* CutoverInv is preserved by every step.
LEMMA NextKeepsInv == CutoverInv /\ [Next]_vars => CutoverInv'
<1> SUFFICES ASSUME CutoverInv, [Next]_vars PROVE CutoverInv'
  OBVIOUS
<1> USE BoundsAssumption
        DEF CutoverInv, TypeOK, CutoverAligns, CutoverProgress, Aligned, Colors, Other,
            Refreshing, Switching, Undoing, Outcomes, EndScript, MayFail, services, scriptVars,
            bounds
<1>1. CASE StartRefresh
  BY <1>1 DEF StartRefresh
<1>2. CASE \E c \in Colors : StartCutover(c)
  BY <1>2 DEF StartCutover
<1>3. ASSUME NEW here \in Refreshing, NEW color \in Colors, NEW next \in Refreshing,
             Job(here, color, next)
      PROVE  CutoverInv'
  <2>1. \/ pc' = pc /\ outcome' = outcome
        \/ pc' = next /\ outcome' = outcome
        \/ pc' = "idle" /\ outcome' = "refused"
    BY <1>3 DEF Job, JobOpens, JobCloses
  <2>2. failures' \in 0..MaxFailures
    BY <1>3 DEF Job, JobOpens, JobCloses
  <2>3. UNCHANGED <<conf, routed, link, api, died, target, bak, undone, interrupts, crashes>>
    BY <1>3 DEF Job, JobOpens, JobCloses
  <2>4. jobs' \subseteq Colors /\ working' \in BOOLEAN
    <3>1. jobs' = jobs \/ jobs' = jobs \cup {color} \/ jobs' = jobs \ {color}
      BY <1>3 DEF Job, JobOpens, JobCloses
    <3>2. working' \in BOOLEAN
      BY <1>3 DEF Job, JobOpens, JobCloses
    <3> QED BY <3>1, <3>2
  <2>5. pc = here
    BY <1>3 DEF Job, JobOpens, JobCloses
  <2>6. TypeOK'
    BY <2>1, <2>2, <2>3, <2>4
  <2>7. CutoverAligns' /\ CutoverProgress'
    BY <2>1, <2>3, <2>5
  <2> QED BY <2>6, <2>7
<1>16. CASE Backup \/ MigrateJob \/ EtlFirst \/ EtlMore
  BY <1>3, <1>16 DEF Backup, MigrateJob, EtlFirst, EtlMore
<1>17. CASE StartInactive
  BY <1>17 DEF StartInactive
<1>4. CASE Up
  <2>1. died' \subseteq Colors
    <3>1. died' = died \/ died' = died \ {target}
      BY <1>4 DEF Up
    <3> QED BY <3>1
  <2> HIDE DEF Colors
  <2> QED BY <1>4, <2>1 DEF Up
<1>5. CASE WriteConf
  BY <1>5 DEF WriteConf
<1>6. CASE Reload
  BY <1>6 DEF Reload
<1>7. CASE Link
  BY <1>7 DEF Link
<1>8. CASE Verify
  BY <1>8 DEF Verify
<1>9. CASE UndoConf
  BY <1>9 DEF UndoConf
<1>10. CASE UndoReload
  <2>1. TypeOK'
    <3>1. routed' \in Colors /\ undone' \in BOOLEAN /\ failures' \in 0..MaxFailures
      <4>1. routed' \in Colors
        BY <1>10 DEF UndoReload
      <4>2. undone' \in BOOLEAN
        BY <1>10 DEF UndoReload
      <4>3. failures' \in 0..MaxFailures
        BY <1>10 DEF UndoReload
      <4> QED BY <4>1, <4>2, <4>3
    <3> QED BY <1>10, <3>1 DEF UndoReload
  <2>2. CutoverAligns' /\ CutoverProgress'
    BY <1>10 DEF UndoReload
  <2> QED BY <2>1, <2>2
<1>11. CASE UndoLink
  BY <1>11 DEF UndoLink
<1>12. CASE Interrupt
  <2>1. jobs' \subseteq Colors
    BY <1>12 DEF Interrupt
  <2>2. /\ UNCHANGED <<conf, routed, link, api, died, target, bak, undone, failures, crashes>>
        /\ pc' = "idle" /\ outcome' = "killed" /\ working' = FALSE
        /\ interrupts' \in 0..MaxInterrupts
    BY <1>12 DEF Interrupt
  <2> HIDE DEF Colors
  <2> QED BY <2>1, <2>2
<1>13. CASE GatewayRestart
  BY <1>13 DEF GatewayRestart
<1>14. CASE \E c \in Colors : ApiCrash(c) \/ ApiStart(c) \/ OrphanCloses(c)
  <2>1. PICK c \in Colors : ApiCrash(c) \/ ApiStart(c) \/ OrphanCloses(c)
    BY <1>14
  <2>2. api' \subseteq Colors /\ jobs' \subseteq Colors /\ died' \subseteq Colors
    <3>1. \/ api' = api \ {c} /\ died' = died \cup {c} /\ jobs' = jobs
          \/ api' = api \cup {c} /\ died' = died /\ jobs' = jobs
          \/ jobs' = jobs \ {c} /\ api' = api /\ died' = died
      BY <2>1 DEF ApiCrash, ApiStart, OrphanCloses
    <3> QED BY <3>1
  <2>3. crashes' \in 0..MaxCrashes
    <3>1. \/ crashes' = crashes
          \/ crashes < MaxCrashes /\ crashes' = crashes + 1
      BY <2>1 DEF ApiCrash, ApiStart, OrphanCloses
    <3> QED BY <3>1
  <2>4. UNCHANGED <<conf, routed, link, pc, working, target, bak, undone, outcome, failures, interrupts>>
    BY <2>1 DEF ApiCrash, ApiStart, OrphanCloses
  <2> HIDE DEF Colors
  <2> QED BY <2>2, <2>3, <2>4
<1>15. CASE UNCHANGED vars
  BY <1>15 DEF vars
<1> QED
  BY <1>1, <1>2, <1>3, <1>4, <1>5, <1>6, <1>7, <1>8, <1>9, <1>10, <1>11, <1>12, <1>13, <1>14,
     <1>15, <1>16, <1>17 DEF Next, Script

\* The scripts keep the inductive invariant, and with it the types.
THEOREM CutoverInvariant == Spec => []CutoverInv
BY InitHasInv, NextKeepsInv, PTL DEF Spec

\* Every variable of the scripts, services and databases stays in its domain.
THEOREM CutoverTypes == Spec => []TypeOK
<1>1. CutoverInv => TypeOK
  BY DEF CutoverInv
<1> QED BY <1>1, CutoverInvariant, PTL

\* A cutover that reports success, or could carry out its rollback, leaves
\* gateway, active.conf and symlink at one color.
THEOREM CutoversAlign == Spec => []CutoverAligns
<1>1. CutoverInv => CutoverAligns
  BY DEF CutoverInv
<1> QED BY <1>1, CutoverInvariant, PTL

-----------------------------------------------------------------------------
(* The gateway *)

\* NoneIsDown holds initially and is preserved by every step.
LEMMA NoneIsDownIsInductive ==
  /\ Init => NoneIsDown
  /\ CutoverInv /\ NoneIsDown /\ [Next]_vars => NoneIsDown'
<1>1. Init => NoneIsDown
  BY DEF Init, NoneIsDown, Colors
<1>2. ASSUME CutoverInv, NoneIsDown, [Next]_vars PROVE NoneIsDown'
  <2> USE <1>2 DEF NoneIsDown, CutoverInv, TypeOK, CutoverProgress, EndScript, MayFail, services, scriptVars,
                   bounds
  <2>1. CASE StartRefresh \/ \E c \in Colors : StartCutover(c)
    BY <2>1 DEF StartRefresh, StartCutover
  <2>2. CASE Backup \/ MigrateJob \/ EtlFirst \/ EtlMore \/ StartInactive
    BY <2>2 DEF Backup, MigrateJob, EtlFirst, EtlMore, Job, JobOpens, JobCloses, StartInactive
  <2>3. CASE Up
    BY <2>3 DEF Up
  <2>4. CASE WriteConf
    BY <2>4 DEF WriteConf
  <2>5. CASE Reload \/ UndoReload \/ GatewayRestart
    BY <2>5 DEF Reload, UndoReload, GatewayRestart
  <2>6. CASE Link \/ Verify \/ UndoLink \/ Interrupt
    BY <2>6 DEF Link, Verify, UndoLink, Interrupt
  <2>7. CASE UndoConf
    BY <2>7 DEF UndoConf
  <2>8. CASE \E c \in Colors : ApiCrash(c) \/ ApiStart(c) \/ OrphanCloses(c)
    BY <2>8, BoundsAssumption DEF ApiCrash, ApiStart, OrphanCloses
  <2>9. CASE UNCHANGED vars
    BY <2>9 DEF vars
  <2> QED BY <2>1, <2>2, <2>3, <2>4, <2>5, <2>6, <2>7, <2>8, <2>9 DEF Next, Script
<1> QED BY <1>1, <1>2

\* The gateway, active.conf and its backup are at an API that runs, or that has
\* died since a cutover last found it healthy.
THEOREM GatewayIsUp == Spec => []NoneIsDown
BY CutoverInvariant, NoneIsDownIsInductive, PTL DEF Spec

\* No step takes the gateway from an API that runs to one that does not, unless
\* that one has died since a cutover last found it healthy.
THEOREM TrafficStaysUp == Spec => NoDowntime
<1>1. NoneIsDown' => [(routed \in api) => (routed \in api \cup died)']_vars
  BY DEF NoneIsDown
<1> QED BY <1>1, GatewayIsUp, PTL DEF NoDowntime

-----------------------------------------------------------------------------
(* The refresh *)

\* BackupIsRefused holds initially and is preserved by every step.
LEMMA BackupIsRefusedIsInductive ==
  /\ Init => BackupIsRefused
  /\ CutoverInv /\ NoneIsDown /\ BackupIsRefused /\ [Next]_vars => BackupIsRefused'
<1>1. Init => BackupIsRefused
  BY DEF Init, BackupIsRefused, Refreshing
<1>2. ASSUME CutoverInv, NoneIsDown, BackupIsRefused, [Next]_vars PROVE BackupIsRefused'
  <2> USE <1>2 DEF BackupIsRefused, NoneIsDown, CutoverInv, TypeOK, Refreshing, EndScript, MayFail,
                   services, scriptVars, bounds
  <2>1. CASE StartRefresh
    BY <2>1 DEF StartRefresh, Other, Colors
  <2>2. CASE Backup
    BY <2>2 DEF Backup, Job, JobOpens, JobCloses
  <2>3. CASE MigrateJob \/ EtlFirst \/ EtlMore \/ StartInactive
    BY <2>3 DEF MigrateJob, EtlFirst, EtlMore, Job, JobOpens, JobCloses, StartInactive
  <2>4. CASE Interrupt \/ GatewayRestart \/ \E c \in Colors : StartCutover(c)
    BY <2>4 DEF Interrupt, GatewayRestart, StartCutover
  <2>5. CASE Up \/ WriteConf \/ Reload
    BY <2>5 DEF Up, WriteConf, Reload
  <2>6. CASE Link \/ Verify
    BY <2>6 DEF Link, Verify
  <2>7. CASE UndoConf \/ UndoReload \/ UndoLink
    BY <2>7 DEF UndoConf, UndoReload, UndoLink
  <2>8. CASE \E c \in Colors : ApiCrash(c) \/ ApiStart(c) \/ OrphanCloses(c)
    BY <2>8, BoundsAssumption DEF ApiCrash, ApiStart, OrphanCloses
  <2>9. CASE UNCHANGED vars
    BY <2>9 DEF vars
  <2> QED BY <2>1, <2>2, <2>3, <2>4, <2>5, <2>6, <2>7, <2>8, <2>9 DEF Next, Script
<1> QED BY <1>1, <1>2

\* Until an API has died, no refresh (etl-bluegreen.sh) completes: its backup is
\* refused the database that the active API has open.
THEOREM RefreshIsRefused == Spec => [](crashes = 0 => outcome # "refreshed")
<1>1. BackupIsRefused => (crashes = 0 => outcome # "refreshed")
  BY DEF BackupIsRefused
<1> QED BY <1>1, CutoverInvariant, GatewayIsUp, BackupIsRefusedIsInductive, PTL DEF Spec
=============================================================================
