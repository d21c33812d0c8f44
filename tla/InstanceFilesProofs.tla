------------------------ MODULE InstanceFilesProofs ------------------------
(***************************************************************************)
(* Proofs about InstanceFiles for any versions, items, repair scopes and   *)
(* number of backups, with failures, hang-ups and crashes.                 *)
(***************************************************************************)
EXTENDS InstanceFiles, TLAPS

\* The steps of each kind of job.
StepsOf(k) == CASE k = "update"  -> {"backup", "clear", "extract", "sync", "restore",
                                     "webui", "record"}
                [] k = "repair"  -> {"preserve", "clear", "extract", "sync", "restore",
                                     "webui"}
                [] k = "restore" -> {"unpack", "adopt"}
                [] k = "start"   -> {"extract", "sync", "webui", "launch"}
                [] OTHER         -> {"idle"}

StepInv == step \in StepsOf(kind)

\* An upgrade begins without automatic backups and works with the one it made; from
\* the extraction on it has the code, after the restore the data.
UpdateInv ==
  kind = "update" =>
    /\ step = "backup" => Pending = {}
    /\ step # "backup" => Pending \subseteq {bk}
    /\ step = "clear" => data \subseteq InBackups
    /\ step = "extract" => core = NoCode
    /\ step \in {"sync", "restore", "webui", "record"} =>
         core = [of |-> to, extent |-> "full"]
    /\ step \in {"webui", "record"} => InBackups \subseteq data

\* A repair clears what it has set aside or does not preserve.
RepairInv ==
  (kind = "repair" /\ step = "clear" /\ keep # Items) => keep \cap data \subseteq kept

RestoreInv == (kind = "restore" /\ step = "adopt") => bk.items \subseteq data

FilesInv == /\ OnePending /\ StepInv
            /\ UpdateInv /\ RepairInv /\ RestoreInv

-----------------------------------------------------------------------------
(* Types. *)

\* What is left of the code is code.
LEMMA RemainsType ==
  ASSUME NEW c \in [of : Versions \cup {NoVersion}, extent : Extents], NEW d \in Remains(c)
  PROVE  d \in [of : Versions \cup {NoVersion}, extent : Extents]
<1>1. CASE d = NoCode
  BY <1>1 DEF NoCode, Extents
<1>2. CASE d # NoCode
  <2>1. PICK e \in Extents : d = [c EXCEPT !.extent = e]
    BY <1>2 DEF Remains, Extents
  <2> QED
    BY <2>1
<1> QED
  BY <1>1, <1>2

\* Every step keeps types, and the job and the slot in step.
LEMMA TypeStep == TypeOK /\ [Next]_vars => TypeOK'
<1> SUFFICES ASSUME TypeOK, [Next]_vars PROVE TypeOK'
  OBVIOUS
<1> USE ScopesAssumption, NoneAssumption DEF TypeOK, Steps, Extents, Backups
<1>1. ASSUME NEW v \in Versions, UpdateBegin(v) PROVE TypeOK'
  BY <1>1 DEF UpdateBegin, Begin, disk
<1>2. ASSUME NEW s \in Scopes, RepairBegin(s) PROVE TypeOK'
  BY <1>2 DEF RepairBegin, Begin
<1>3. ASSUME NEW b \in backups, RestoreBegin(b) PROVE TypeOK'
  BY <1>3 DEF RestoreBegin, Begin, disk
<1>4. ASSUME NEW b \in backups, DeleteBackup(b) PROVE TypeOK'
  BY <1>4 DEF DeleteBackup, job
<1>5. ASSUME CreateBackup PROVE TypeOK'
  BY <1>5 DEF CreateBackup, job
<1>6. ASSUME ClearData PROVE TypeOK'
  BY <1>6 DEF ClearData, job
<1>7. ASSUME StartGate PROVE TypeOK'
  BY <1>7 DEF StartGate, disk, job
<1>8. ASSUME StartAdmit PROVE TypeOK'
  BY <1>8 DEF StartAdmit, Begin, disk, job
<1>9. ASSUME NEW x \in Items, InstanceWrites(x) PROVE TypeOK'
  BY <1>9 DEF InstanceWrites, job
<1>10. ASSUME InstanceStops PROVE TypeOK'
  BY <1>10 DEF InstanceStops, disk, job
<1>11. ASSUME HangUp PROVE TypeOK'
  BY <1>11 DEF HangUp, NoJob, disk
<1>12. ASSUME Crash PROVE TypeOK'
  BY <1>12 DEF Crash, NoJob, disk
<1>13. ASSUME Extract PROVE TypeOK'
  BY <1>13 DEF Extract, Goto, End, NoJob
<1>14. ASSUME Sync PROVE TypeOK'
  BY <1>14 DEF Sync, Goto, End, NoJob, disk
<1>15. ASSUME Webui PROVE TypeOK'
  BY <1>15 DEF Webui, Goto, End, NoJob, disk
<1>16. ASSUME UpdateBackup PROVE TypeOK'
  BY <1>16 DEF UpdateBackup, At, Goto, End, NoJob
<1>17. ASSUME UpdateClear PROVE TypeOK'
  <2>1. core' \in [of : Versions \cup {NoVersion}, extent : Extents]
    BY <1>17, RemainsType DEF UpdateClear, Wipe, NoCode, Extents, TypeOK
  <2> QED
    BY <1>17, <2>1 DEF UpdateClear, At, Wipe, Goto, End, NoJob
<1>18. ASSUME UpdateRestore PROVE TypeOK'
  BY <1>18 DEF UpdateRestore, At, Goto, End, NoJob
<1>19. ASSUME UpdateRecord PROVE TypeOK'
  BY <1>19 DEF UpdateRecord, At, End, NoJob
<1>20. ASSUME RepairPreserve PROVE TypeOK'
  BY <1>20 DEF RepairPreserve, At, Goto, End, NoJob
<1>21. ASSUME RepairClear PROVE TypeOK'
  <2>1. core' \in [of : Versions \cup {NoVersion}, extent : Extents]
    BY <1>21, RemainsType DEF RepairClear, Wipe, NoCode, Extents, TypeOK
  <2> QED
    BY <1>21, <2>1 DEF RepairClear, At, Wipe, Goto, End, NoJob
<1>22. ASSUME RepairRestore PROVE TypeOK'
  BY <1>22 DEF RepairRestore, At, Goto, End, NoJob
<1>23. ASSUME RestoreUnpack PROVE TypeOK'
  BY <1>23 DEF RestoreUnpack, At, Goto, End, NoJob
<1>24. ASSUME RestoreAdopt PROVE TypeOK'
  BY <1>24 DEF RestoreAdopt, At, End, NoJob
<1>25. ASSUME Launch PROVE TypeOK'
  BY <1>25 DEF Launch, At, NoJob, End, disk
<1>26. CASE UNCHANGED vars
  BY <1>26 DEF vars, disk, job
<1> QED
  BY <1>1, <1>2, <1>3, <1>4, <1>5, <1>6, <1>7, <1>8, <1>9, <1>10,
     <1>11, <1>12, <1>13, <1>14, <1>15, <1>16, <1>17, <1>18, <1>19,
     <1>20, <1>21, <1>22, <1>23, <1>24, <1>25, <1>26
  DEF Next, Proceed, Deploy, Update, Repair, Restore

\* The files and the job always have their types, and a job holds the slot.
THEOREM FilesTypeCorrect == Spec => []TypeOK
<1>1. Init => TypeOK
  <2>1. NoCode \in [of : Versions \cup {NoVersion}, extent : Extents]
    BY DEF NoCode, Extents
  <2> QED
    BY <2>1 DEF Init, TypeOK, Steps
<1>2. QED
  BY <1>1, TypeStep, PTL DEF Spec

-----------------------------------------------------------------------------
(* Backups, data and code. *)

\* Every step keeps FilesInv, if users leave automatic backups alone.
LEMMA FilesStep == ~UsersDeletePending /\ TypeOK /\ FilesInv /\ [Next]_vars => FilesInv'
<1> SUFFICES ASSUME ~UsersDeletePending, TypeOK, FilesInv, [Next]_vars PROVE FilesInv'
  OBVIOUS
<1> USE NoneAssumption DEF FilesInv, OnePending, StepInv, StepsOf, UpdateInv, RepairInv,
      RestoreInv, Pending, InBackups, NoCode, TypeOK, Backups
<1>1. ASSUME NEW v \in Versions, UpdateBegin(v) PROVE FilesInv'
  BY <1>1 DEF UpdateBegin, Begin, disk
<1>2. ASSUME NEW s \in Scopes, RepairBegin(s) PROVE FilesInv'
  BY <1>2 DEF RepairBegin, Begin
<1>3. ASSUME NEW b \in backups, RestoreBegin(b) PROVE FilesInv'
  BY <1>3 DEF RestoreBegin, Begin, disk
<1>4. ASSUME NEW b \in backups, DeleteBackup(b) PROVE FilesInv'
  BY <1>4 DEF DeleteBackup, job
<1>5. ASSUME CreateBackup PROVE FilesInv'
  BY <1>5 DEF CreateBackup, job, NewBackup
<1>6. ASSUME ClearData PROVE FilesInv'
  BY <1>6 DEF ClearData, job
<1>7. ASSUME StartGate PROVE FilesInv'
  BY <1>7 DEF StartGate, disk, job
<1>8. ASSUME StartAdmit PROVE FilesInv'
  BY <1>8 DEF StartAdmit, Begin, disk, job
<1>9. ASSUME NEW x \in Items, InstanceWrites(x) PROVE FilesInv'
  BY <1>9 DEF InstanceWrites, job
<1>10. ASSUME InstanceStops PROVE FilesInv'
  BY <1>10 DEF InstanceStops, disk, job
<1>11. ASSUME HangUp PROVE FilesInv'
  BY <1>11 DEF HangUp, NoJob, disk
<1>12. ASSUME Crash PROVE FilesInv'
  BY <1>12 DEF Crash, NoJob, disk
<1>13. ASSUME Extract PROVE FilesInv'
  BY <1>13 DEF Extract, Goto, End, NoJob
<1>14. ASSUME Sync PROVE FilesInv'
  BY <1>14 DEF Sync, Goto, End, NoJob, disk
<1>15. ASSUME Webui PROVE FilesInv'
  BY <1>15 DEF Webui, Goto, End, NoJob, disk
<1>16. ASSUME UpdateBackup PROVE FilesInv'
  BY <1>16 DEF UpdateBackup, At, NewBackup, Goto, End, NoJob
<1>17. ASSUME UpdateClear PROVE FilesInv'
  BY <1>17 DEF UpdateClear, At, Wipe, Remains, Goto, End, NoJob
<1>18. ASSUME UpdateRestore PROVE FilesInv'
  BY <1>18 DEF UpdateRestore, At, Goto, End, NoJob
<1>19. ASSUME UpdateRecord PROVE FilesInv'
  BY <1>19 DEF UpdateRecord, At, End, NoJob
<1>20. ASSUME RepairPreserve PROVE FilesInv'
  BY <1>20 DEF RepairPreserve, At, InPlace, Goto, End, NoJob
<1>21. ASSUME RepairClear PROVE FilesInv'
  BY <1>21 DEF RepairClear, At, InPlace, Wipe, Remains, Goto, End, NoJob
<1>22. ASSUME RepairRestore PROVE FilesInv'
  BY <1>22 DEF RepairRestore, At, InPlace, Goto, End, NoJob
<1>23. ASSUME RestoreUnpack PROVE FilesInv'
  BY <1>23 DEF RestoreUnpack, At, Goto, End, NoJob
<1>24. ASSUME RestoreAdopt PROVE FilesInv'
  BY <1>24 DEF RestoreAdopt, At, End, NoJob
<1>25. ASSUME Launch PROVE FilesInv'
  BY <1>25 DEF Launch, At, NoJob, End, disk
<1>26. CASE UNCHANGED vars
  BY <1>26 DEF vars, disk, job
<1> QED
  BY <1>1, <1>2, <1>3, <1>4, <1>5, <1>6, <1>7, <1>8, <1>9, <1>10,
     <1>11, <1>12, <1>13, <1>14, <1>15, <1>16, <1>17, <1>18, <1>19,
     <1>20, <1>21, <1>22, <1>23, <1>24, <1>25, <1>26
  DEF Next, Proceed, Deploy, Update, Repair, Restore

\* Reachable states satisfy the invariant, if users leave automatic backups alone.
LEMMA FilesInvariant == ASSUME ~UsersDeletePending PROVE Spec => [](TypeOK /\ FilesInv)
<1>1. Init => FilesInv
  BY DEF Init, FilesInv, OnePending, StepInv, StepsOf, UpdateInv, RepairInv, RestoreInv, Pending
<1>2. TypeOK /\ FilesInv /\ [Next]_vars => FilesInv'
  BY FilesStep
<1>3. QED
  BY <1>1, <1>2, FilesTypeCorrect, PTL DEF Spec

\* An upgrade never leaves two automatic backups to choose from.
THEOREM OneBackupPends == ASSUME ~UsersDeletePending PROVE Spec => []OnePending
<1>1. FilesInv => OnePending
  BY DEF FilesInv
<1>2. QED
  BY <1>1, FilesInvariant, PTL

-----------------------------------------------------------------------------
(* Action properties: few actions touch what each is about. *)

\* Deployments and the steps that only move a job along leave data, backups and the
\* version alone.
LEMMA QuietSteps ==
  ASSUME Deploy \/ Launch \/ StartGate \/ StartAdmit \/ InstanceStops \/ HangUp \/ Crash
         \/ UNCHANGED vars
  PROVE  UNCHANGED <<version, data, backups, kept>>
<1>1. CASE Deploy
  BY <1>1 DEF Deploy, Extract, Sync, Webui, disk
<1>2. CASE Launch \/ StartGate \/ StartAdmit
  BY <1>2 DEF Launch, StartGate, StartAdmit, disk
<1>3. CASE InstanceStops \/ HangUp \/ Crash
  BY <1>3 DEF InstanceStops, HangUp, Crash, disk
<1>4. CASE UNCHANGED vars
  BY <1>4 DEF vars, disk
<1> QED
  BY <1>1, <1>2, <1>3, <1>4

\* What LostOnRequestOnly says of one step.
Loss == \A x \in data \ data' : \/ x \in Saved'
                                \/ kind = "none" /\ slot = "vacant"
                                \/ kind = "repair" /\ x \notin keep

\* Data disappears only when it is cleared, by hand or by a job.
LEMMA DataRemovers ==
  ASSUME [Next]_vars, ~(data \subseteq data')
  PROVE  ClearData \/ UpdateClear \/ RepairClear
<1>1. ~(Deploy \/ Launch \/ StartGate \/ StartAdmit \/ InstanceStops \/ HangUp \/ Crash
        \/ UNCHANGED vars)
  BY QuietSteps
<1>2. ASSUME NEW v \in Versions PROVE ~UpdateBegin(v)
  BY DEF UpdateBegin, disk
<1>3. ASSUME NEW scope \in Scopes PROVE ~RepairBegin(scope)
  BY DEF RepairBegin
<1>4. ASSUME NEW b \in backups PROVE ~RestoreBegin(b) /\ ~DeleteBackup(b)
  BY DEF RestoreBegin, DeleteBackup, disk
<1>5. ASSUME NEW x \in Items PROVE ~InstanceWrites(x)
  BY DEF InstanceWrites
<1>6. ~CreateBackup /\ ~UpdateBackup /\ ~UpdateRecord /\ ~RepairPreserve
  BY DEF CreateBackup, UpdateBackup, UpdateRecord, RepairPreserve
<1>7. ~UpdateRestore /\ ~RepairRestore
  BY DEF UpdateRestore, RepairRestore
<1>8. ~Restore
  BY DEF Restore, RestoreUnpack, RestoreAdopt
<1> QED
  BY <1>1, <1>2, <1>3, <1>4, <1>5, <1>6, <1>7, <1>8 DEF Next, Proceed, Update, Repair

\* Every step from a state that satisfies the invariant loses on request only.
LEMMA LossStep == FilesInv /\ [Next]_vars => Loss
<1> SUFFICES ASSUME FilesInv, [Next]_vars, NEW x \in data, x \notin data'
             PROVE  \/ x \in Saved'
                    \/ kind = "none" /\ slot = "vacant"
                    \/ kind = "repair" /\ x \notin keep
  BY DEF Loss
<1>1. CASE ClearData
  BY <1>1 DEF ClearData
<1>2. CASE UpdateClear
  <2>1. data \subseteq InBackups
    BY <1>2 DEF UpdateClear, At, FilesInv, UpdateInv
  <2>2. InBackups' = InBackups
    BY <1>2 DEF UpdateClear, InBackups, Pending
  <2> QED
    BY <2>1, <2>2 DEF Saved
<1>3. CASE RepairClear
  <2>1. CASE InPlace
    BY <1>3, <2>1 DEF RepairClear
  <2>2. CASE ~InPlace
    <3>1. keep \cap data \subseteq kept /\ kept' = kept /\ kind = "repair"
      BY <1>3, <2>2 DEF RepairClear, At, InPlace, FilesInv, RepairInv
    <3> QED
      BY <3>1 DEF Saved
  <2> QED
    BY <2>1, <2>2
<1> QED
  BY <1>1, <1>2, <1>3, DataRemovers

\* No failure, hang-up or crash loses an item the user did not ask to remove.
THEOREM NothingLost == ASSUME ~UsersDeletePending PROVE Spec => LostOnRequestOnly
<1>1. TypeOK /\ FilesInv /\ [Next]_vars => [Loss]_vars
  BY LossStep
<1>2. [][Loss]_vars => LostOnRequestOnly
  BY DEF Loss, LostOnRequestOnly
<1>3. QED
  BY <1>1, <1>2, FilesInvariant, PTL DEF Spec

\* What SavedUntilBack says of one step.
Resolution == \A b \in Pending \ backups' : b.items \subseteq data'

\* Backups disappear when a user deletes one or a restore has ended well.
LEMMA BackupRemovers ==
  ASSUME [Next]_vars, ~(backups \subseteq backups')
  PROVE  \/ \E b \in backups : DeleteBackup(b)
         \/ UpdateRestore \/ RestoreAdopt
<1>1. ~(Deploy \/ Launch \/ StartGate \/ StartAdmit \/ InstanceStops \/ HangUp \/ Crash
        \/ UNCHANGED vars)
  BY QuietSteps
<1>2. ASSUME NEW v \in Versions PROVE ~UpdateBegin(v)
  BY DEF UpdateBegin, disk
<1>3. ASSUME NEW scope \in Scopes PROVE ~RepairBegin(scope)
  BY DEF RepairBegin
<1>4. ASSUME NEW b \in backups PROVE ~RestoreBegin(b)
  BY DEF RestoreBegin, disk
<1>5. ASSUME NEW x \in Items PROVE ~InstanceWrites(x)
  BY DEF InstanceWrites
<1>6. ~CreateBackup /\ ~UpdateBackup
  BY DEF CreateBackup, UpdateBackup
<1>7. ~ClearData /\ ~UpdateClear /\ ~UpdateRecord /\ ~Repair /\ ~RestoreUnpack
  BY DEF ClearData, UpdateClear, UpdateRecord, Repair, RepairPreserve, RepairClear,
         RepairRestore, RestoreUnpack
<1> QED
  BY <1>1, <1>2, <1>3, <1>4, <1>5, <1>6, <1>7 DEF Next, Proceed, Update, Restore

\* Every step from a state that satisfies the invariant resolves what it deletes.
LEMMA ResolutionStep == ~UsersDeletePending /\ FilesInv /\ [Next]_vars => Resolution
<1> SUFFICES ASSUME ~UsersDeletePending, FilesInv, [Next]_vars,
                    NEW b \in Pending, b \notin backups'
             PROVE  b.items \subseteq data'
  BY DEF Resolution
<1>1. b \in backups /\ b.auto
  BY DEF Pending
<1>2. ASSUME NEW c \in backups, DeleteBackup(c) PROVE FALSE
  BY <1>1, <1>2 DEF DeleteBackup
<1>3. CASE UpdateRestore
  BY <1>1, <1>3 DEF UpdateRestore
<1>4. CASE RestoreAdopt
  <2>1. b = bk /\ data' = data
    BY <1>1, <1>4 DEF RestoreAdopt
  <2>2. bk.items \subseteq data
    BY <1>4 DEF RestoreAdopt, At, FilesInv, RestoreInv
  <2> QED
    BY <2>1, <2>2
<1> QED
  BY <1>1, <1>2, <1>3, <1>4, BackupRemovers

\* An automatic backup outlives the need for it.
THEOREM BackupsOutliveNeed == ASSUME ~UsersDeletePending PROVE Spec => SavedUntilBack
<1>1. TypeOK /\ FilesInv /\ [Next]_vars => [Resolution]_vars
  BY ResolutionStep
<1>2. [][Resolution]_vars => SavedUntilBack
  BY DEF Resolution, SavedUntilBack
<1>3. QED
  BY <1>1, <1>2, FilesInvariant, PTL DEF Spec

\* What RecordedWhenComplete says of one step.
Record == (version' # version /\ kind = "update") =>
            /\ core = [of |-> version', extent |-> "full"]
            /\ InBackups' \subseteq data'

\* In an upgrade, only its last step writes the version.
LEMMA VersionWriter ==
  ASSUME [Next]_vars, version' # version, kind = "update" PROVE UpdateRecord
<1>1. ~(Deploy \/ Launch \/ StartGate \/ StartAdmit \/ InstanceStops \/ HangUp \/ Crash
        \/ UNCHANGED vars)
  BY QuietSteps
<1>2. ASSUME NEW v \in Versions PROVE ~UpdateBegin(v)
  BY DEF UpdateBegin, disk
<1>3. ASSUME NEW scope \in Scopes PROVE ~RepairBegin(scope)
  BY DEF RepairBegin
<1>4. ASSUME NEW b \in backups PROVE ~RestoreBegin(b) /\ ~DeleteBackup(b)
  BY DEF RestoreBegin, DeleteBackup, disk
<1>5. ASSUME NEW x \in Items PROVE ~InstanceWrites(x)
  BY DEF InstanceWrites
<1>6. ~CreateBackup /\ ~ClearData /\ ~UpdateBackup /\ ~UpdateClear /\ ~UpdateRestore
  BY DEF CreateBackup, ClearData, UpdateBackup, UpdateClear, UpdateRestore
<1>7. ~Repair
  BY DEF Repair, RepairPreserve, RepairClear, RepairRestore
<1>8. ~Restore
  BY DEF Restore, RestoreUnpack, RestoreAdopt, At
<1> QED
  BY <1>1, <1>2, <1>3, <1>4, <1>5, <1>6, <1>7, <1>8 DEF Next, Proceed, Update

\* Every step from a state that satisfies the invariant records complete upgrades.
LEMMA RecordStep == FilesInv /\ [Next]_vars => Record
<1> SUFFICES ASSUME FilesInv, [Next]_vars, version' # version, kind = "update"
             PROVE  /\ core = [of |-> version', extent |-> "full"]
                    /\ InBackups' \subseteq data'
  BY DEF Record
<1>1. UpdateRecord
  BY VersionWriter
<1>2. version' = to /\ UNCHANGED <<core, data, backups>> /\ step = "record"
  BY <1>1 DEF UpdateRecord, At
<1>3. core = [of |-> to, extent |-> "full"] /\ InBackups \subseteq data
  BY <1>2 DEF FilesInv, UpdateInv
<1> QED
  BY <1>2, <1>3 DEF InBackups, Pending

\* The manifest names the new version only after a complete upgrade.
THEOREM RecordsAreComplete == ASSUME ~UsersDeletePending PROVE Spec => RecordedWhenComplete
<1>1. TypeOK /\ FilesInv /\ [Next]_vars => [Record]_vars
  BY RecordStep
<1>2. [][Record]_vars => RecordedWhenComplete
  BY DEF Record, RecordedWhenComplete
<1>3. QED
  BY <1>1, <1>2, FilesInvariant, PTL DEF Spec
=============================================================================
