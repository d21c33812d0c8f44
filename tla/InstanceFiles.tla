--------------------------- MODULE InstanceFiles ---------------------------
(***************************************************************************)
(* The files of one instance: its deployed code, its data, its backups and *)
(* what a repair sets aside, under the operations that move them: upgrade  *)
(* (instance/crud.rs), repair and deployment (instance/deploy.rs), backup  *)
(* and restore (backup.rs), clearing, and the deployment at each start.    *)
(*                                                                         *)
(* One operation at a time holds the slot of the instance (ProcessManager  *)
(* shows that); it is the job below.  Two things happen without the slot:  *)
(* the look for an unresolved automatic backup before a start, and the     *)
(* deletion of a backup.                                                   *)
(*                                                                         *)
(* A step that fails ends the job and leaves any part of its effect on     *)
(* disk; so does a crash of the manager in mid-step, which is a failure    *)
(* followed by Crash.  A client that disconnects drops the job where it    *)
(* awaits (HangUp).                                                        *)
(*                                                                         *)
(* The venv is left out: each deployment creates it when it is missing and *)
(* syncs its dependencies, which succeeds, fails or never ends.  Removing a *)
(* stale preserve directory is taken to succeed.                           *)
(***************************************************************************)
EXTENDS FiniteSets

CONSTANTS
  Versions,             \* installed versions
  Items,                \* the files of core/data: the database, configuration, ...
  Scopes,               \* what a repair may preserve; Items itself stands for the
                        \* scope data_directory, which leaves core/data in place
  BackupIds,            \* backups that fit on the disk (file names)
  NoVersion, NoBackup,
  UsersDeletePending    \* TRUE: a user may delete an automatic backup by hand

ASSUME ScopesAssumption == Scopes \subseteq SUBSET Items
ASSUME NoneAssumption == NoVersion \notin Versions /\ NoBackup \notin
         [id : BackupIds, auto : BOOLEAN, of : Versions, items : SUBSET Items]
ASSUME UsersAssumption == UsersDeletePending \in BOOLEAN

VARIABLES
  slot,      \* who uses the instance: nobody, a guarded job, a start, its process
  version,   \* the version the manifest records
  core,      \* core directory without data: the version it comes from, how complete
  data,      \* the items in core/data
  backups,   \* readable backups in the backups directory
  kept,      \* the items in .repair-preserve-* directories
  kind,      \* the job in flight
  step,      \* what it does next
  to,        \* the version it deploys
  bk,        \* the backup it made, or restores
  keep,      \* what a repair preserves
  gated      \* a start found no automatic backup and is on its way to the mutex

disk == <<version, core, data, backups, kept>>
job  == <<kind, step, to, bk, keep>>
vars == <<slot, disk, job, gated>>

Backups == [id : BackupIds, auto : BOOLEAN, of : Versions, items : SUBSET Items]
Steps   == {"idle", "backup", "preserve", "clear", "extract", "sync", "restore",
            "webui", "record", "launch", "unpack", "adopt"}

\* How much of a version's code is there: "headless" lacks main.py, "partial" has
\* main.py but not everything.
Extents == {"none", "headless", "partial", "full"}

TypeOK ==
  /\ slot \in {"vacant", "guarded", "starting", "live"}
  /\ version \in Versions
  /\ core \in [of : Versions \cup {NoVersion}, extent : Extents]
  /\ data \in SUBSET Items /\ kept \in SUBSET Items
  /\ backups \in SUBSET Backups
  /\ kind \in {"none", "update", "repair", "restore", "start"} /\ step \in Steps
  /\ to \in Versions \cup {NoVersion}
  /\ bk \in Backups \cup {NoBackup}
  /\ keep \in SUBSET Items
  /\ gated \in BOOLEAN
  /\ kind \in {"update", "repair", "restore"} => slot = "guarded"
  /\ kind = "start" => slot = "starting"
  /\ kind \in {"update", "repair", "start"} => to \in Versions
  /\ kind = "restore" => bk \in Backups

NoCode == [of |-> NoVersion, extent |-> "none"]

\* An instance that was created and never started.
Init == /\ slot = "vacant"
        /\ version \in Versions
        /\ core = NoCode /\ data = {} /\ backups = {} /\ kept = {}
        /\ kind = "none" /\ step = "idle"
        /\ to = NoVersion /\ bk = NoBackup /\ keep = {}
        /\ gated = FALSE

----------------------------------------------------------------------------
(***************************************************************************)
(* Jobs.  A definition Name_Variant is a slip that the property of its run *)
(* must catch; no action uses it.                                          *)
(***************************************************************************)
Begin_DropsGuard(k, s, v, b, items) ==
  /\ kind = "none" /\ slot = "vacant"
  /\ slot' = IF k = "start" THEN "starting" ELSE "vacant"
  /\ kind' = k /\ step' = s /\ to' = v /\ bk' = b /\ keep' = items

Begin(k, s, v, b, items) ==
  /\ kind = "none" /\ slot = "vacant"
  /\ slot' = IF k = "start" THEN "starting" ELSE "guarded"
  /\ kind' = k /\ step' = s /\ to' = v /\ bk' = b /\ keep' = items

NoJob == /\ kind' = "none" /\ step' = "idle"
         /\ to' = NoVersion /\ bk' = NoBackup /\ keep' = {}

\* The job is over, well or badly: its guard is dropped, its slot removed.
End == NoJob /\ slot' = "vacant" /\ UNCHANGED gated

Goto(s) == step' = s /\ UNCHANGED <<kind, to, bk, keep, slot, gated>>

At(k, s) == kind = k /\ step = s

\* find_pending_auto_backup sees the readable automatic ones.
Pending == {b \in backups : b.auto}

Used == {b.id : b \in backups \cup ({bk} \ {NoBackup})}

\* b is a backup of these items made now; file names carry the time.
NewBackup(b, auto, items) == /\ b.id \notin Used
                             /\ b.auto = auto /\ b.of = version /\ b.items = items

\* What a removal that stops halfway may leave of the code.
Remains(c) ==
  {NoCode} \cup {[c EXCEPT !.extent = e] : e \in
     CASE c.extent = "full"     -> {"headless", "partial", "full"}
       [] c.extent = "partial"  -> {"headless", "partial"}
       [] c.extent = "headless" -> {"headless"}
       [] OTHER                 -> {}}

----------------------------------------------------------------------------
(***************************************************************************)
(* Upgrade: backup, clear, deploy, restore the data, WebUI, record.        *)
(***************************************************************************)
UpdateBegin_AnyTime(v) ==
  /\ v # version
  /\ Begin("update", "backup", v, NoBackup, {})
  /\ UNCHANGED <<disk, gated>>

UpdateBegin(v) ==
  /\ v # version /\ Pending = {}
  /\ Begin("update", "backup", v, NoBackup, {})
  /\ UNCHANGED <<disk, gated>>

\* No backup is made when core/data does not exist; without items it may or may
\* not.  A backup that fails to be written in full may still be readable: the zip
\* writer adds the directory of what it has when it is dropped.
UpdateBackup ==
  /\ At("update", "backup")
  /\ \/ \E b \in Backups : /\ NewBackup(b, TRUE, data)
                           /\ backups' = backups \cup {b}
                           /\ step' = "clear" /\ bk' = b
                           /\ UNCHANGED <<kind, to, keep, slot, gated>>
     \/ data = {} /\ Goto("clear") /\ UNCHANGED backups
     \/ /\ \/ UNCHANGED backups
           \/ \E b \in Backups, some \in SUBSET data :
                NewBackup(b, TRUE, some) /\ backups' = backups \cup {b}
        /\ End
  /\ UNCHANGED <<version, core, data, kept>>

\* The core directory goes, with the data in it.
Wipe == \/ core' = NoCode /\ data' = {} /\ Goto("extract")
        \/ core' \in Remains(core) /\ data' \in SUBSET data /\ End

UpdateClear_IgnoresErrors ==
  /\ At("update", "clear")
  /\ core' \in Remains(core) /\ data' \in SUBSET data /\ Goto("extract")
  /\ UNCHANGED <<version, backups, kept>>

UpdateClear ==
  /\ At("update", "clear")
  /\ Wipe
  /\ UNCHANGED <<version, backups, kept>>

(***************************************************************************)
(* deploy_instance_with_version_impl, also part of repairs and starts.     *)
(***************************************************************************)
\* The zip is unpacked unless main.py is there already.
Extract ==
  /\ step = "extract"
  /\ IF core.extent \in {"partial", "full"}
     THEN UNCHANGED core /\ (Goto("sync") \/ End)
     ELSE \/ core' = [of |-> to, extent |-> "full"] /\ Goto("sync")
          \/ core' \in {core} \cup [of : {to}, extent : {"headless", "partial"}] /\ End
  /\ UNCHANGED <<version, data, backups, kept>>

\* The venv and the dependencies.
Sync ==
  /\ step = "sync"
  /\ Goto(IF kind = "start" THEN "webui" ELSE "restore") \/ End
  /\ UNCHANGED disk

UpdateRestore_DeletesFirst ==
  /\ At("update", "restore")
  /\ \/ bk = NoBackup /\ Goto("webui") /\ UNCHANGED <<data, backups>>
     \/ /\ bk # NoBackup
        /\ backups' = backups \ {bk}
        /\ \/ data' = data \cup bk.items /\ Goto("webui")
           \/ (\E some \in SUBSET bk.items : data' = data \cup some) /\ End
  /\ UNCHANGED <<version, core, kept>>

\* restore_data_to_instance: the automatic backup is deleted once its content is
\* back; if that fails it stays.
UpdateRestore ==
  /\ At("update", "restore")
  /\ \/ bk = NoBackup /\ Goto("webui") /\ UNCHANGED <<data, backups>>
     \/ /\ bk \in backups
        /\ data' = data \cup bk.items
        /\ backups' \in {backups, backups \ {bk}}
        /\ Goto("webui")
     \/ /\ bk # NoBackup
        /\ \E some \in SUBSET bk.items : data' = IF bk \in backups THEN data \cup some ELSE data
        /\ UNCHANGED backups
        /\ End
  /\ UNCHANGED <<version, core, kept>>

Webui_RetriesDeployment ==
  /\ step = "webui"
  /\ \/ kind = "update" /\ Goto("record")
     \/ kind = "start" /\ Goto("launch")
     \/ kind = "repair" /\ End
     \/ Goto("sync")
  /\ UNCHANGED disk

\* The WebUI is downloaded into core/data/dist; no item is touched.
Webui ==
  /\ step = "webui"
  /\ \/ kind = "update" /\ Goto("record")
     \/ kind = "start" /\ Goto("launch")
     \/ End
  /\ UNCHANGED disk

\* The manifest is updated, or the write fails.
UpdateRecord ==
  /\ At("update", "record")
  /\ version' \in {to, version}
  /\ End
  /\ UNCHANGED <<core, data, backups, kept>>

----------------------------------------------------------------------------
(***************************************************************************)
(* Repair: preserve a selection, clear, deploy, put the selection back.    *)
(***************************************************************************)
InPlace == keep = Items

RepairBegin(scope) ==
  /\ Begin("repair", "preserve", version, NoBackup, scope)
  /\ kept' = {}
  /\ UNCHANGED <<version, core, data, backups, gated>>

RepairPreserve ==
  /\ At("repair", "preserve")
  /\ IF InPlace THEN UNCHANGED kept /\ Goto("clear")
     ELSE \/ kept' = keep \cap data /\ Goto("clear")
          \/ kept' \in SUBSET (keep \cap data) /\ End
  /\ UNCHANGED <<version, core, data, backups>>

RepairClear_IgnoresScope ==
  /\ At("repair", "clear")
  /\ Wipe
  /\ UNCHANGED <<version, backups, kept>>

RepairClear ==
  /\ At("repair", "clear")
  /\ IF InPlace THEN /\ UNCHANGED data
                     /\ \/ core' = NoCode /\ Goto("extract")
                        \/ core' \in Remains(core) /\ End
     ELSE Wipe
  /\ UNCHANGED <<version, backups, kept>>

RepairRestore ==
  /\ At("repair", "restore")
  /\ IF InPlace THEN UNCHANGED <<data, kept>> /\ Goto("webui")
     ELSE \/ data' = data \cup kept /\ kept' = {} /\ Goto("webui")
          \/ (\E some \in SUBSET kept : data' = data \cup some) /\ UNCHANGED kept /\ End
  /\ UNCHANGED <<version, core, backups>>

----------------------------------------------------------------------------
(***************************************************************************)
(* Backups by hand.                                                        *)
(***************************************************************************)
\* create_backup, in full or broken off.
CreateBackup ==
  /\ kind = "none" /\ slot = "vacant"
  /\ \E b \in Backups, some \in SUBSET data :
       NewBackup(b, FALSE, some) /\ backups' = backups \cup {b}
  /\ UNCHANGED <<slot, version, core, data, kept, job, gated>>

\* restore_backup: its metadata is read before the guard is acquired, so the file
\* may be gone when it is unpacked.
RestoreBegin(b) ==
  /\ Begin("restore", "unpack", NoVersion, b, {})
  /\ UNCHANGED <<disk, gated>>

RestoreUnpack ==
  /\ At("restore", "unpack")
  /\ \/ bk \in backups /\ data' = data \cup bk.items /\ Goto("adopt")
     \/ /\ \E some \in SUBSET bk.items : data' = IF bk \in backups THEN data \cup some ELSE data
        /\ End
  /\ UNCHANGED <<version, core, backups, kept>>

\* The manifest takes the version of the backup; an automatic one is deleted.
RestoreAdopt ==
  /\ At("restore", "adopt")
  /\ \/ version' = bk.of /\ backups' \in {backups} \cup {backups \ {b} : b \in {bk} \cap Pending}
     \/ UNCHANGED <<version, backups>>
  /\ End
  /\ UNCHANGED <<core, data, kept>>

\* delete_backup needs no guard.
DeleteBackup(b) ==
  /\ ~b.auto \/ UsersDeletePending
  /\ backups' = backups \ {b}
  /\ UNCHANGED <<slot, version, core, data, kept, job, gated>>

\* clear_instance_data, in full or broken off.
ClearData ==
  /\ kind = "none" /\ slot = "vacant"
  /\ data' \in SUBSET data
  /\ UNCHANGED <<slot, version, core, backups, kept, job, gated>>

----------------------------------------------------------------------------
(***************************************************************************)
(* Starting, running, crashing.                                            *)
(***************************************************************************)
StartGate ==
  /\ ~gated /\ Pending = {}
  /\ gated' = TRUE
  /\ UNCHANGED <<slot, disk, job>>

StartAdmit ==
  /\ gated /\ gated' = FALSE
  /\ IF slot = "vacant" THEN Begin("start", "extract", version, NoBackup, {})
     ELSE UNCHANGED <<slot, job>>
  /\ UNCHANGED disk

\* The port, main.py, the spawn, the startup line.
Launch ==
  /\ At("start", "launch")
  /\ \/ /\ core.extent \in {"partial", "full"}
        /\ NoJob /\ slot' = "live" /\ UNCHANGED gated
     \/ End
  /\ UNCHANGED disk

\* The instance works with its data, ...
InstanceWrites(x) ==
  /\ slot = "live"
  /\ data' = data \cup {x}
  /\ UNCHANGED <<slot, version, core, backups, kept, job, gated>>

\* ... and is stopped, or dies.
InstanceStops ==
  /\ slot = "live" /\ slot' = "vacant"
  /\ UNCHANGED <<disk, job, gated>>

\* A guard is released with the job; the slot of a start stays Starting.
HangUp ==
  /\ step \in {"sync", "webui", "launch"}
  /\ NoJob
  /\ slot' = IF slot = "guarded" THEN "vacant" ELSE slot
  /\ UNCHANGED <<disk, gated>>

\* The manager goes down with everything it runs, and comes up again.
Crash == /\ NoJob /\ slot' = "vacant" /\ gated' = FALSE
         /\ UNCHANGED disk

----------------------------------------------------------------------------
Deploy  == Extract \/ Sync \/ Webui
Update  == UpdateBackup \/ UpdateClear \/ UpdateRestore \/ UpdateRecord
Repair  == RepairPreserve \/ RepairClear \/ RepairRestore
Restore == RestoreUnpack \/ RestoreAdopt

\* What a job in flight does by itself.
Proceed == Deploy \/ Update \/ Repair \/ Restore \/ Launch

Next == \/ \E v \in Versions : UpdateBegin(v)
        \/ \E scope \in Scopes : RepairBegin(scope)
        \/ \E b \in backups : RestoreBegin(b) \/ DeleteBackup(b)
        \/ CreateBackup \/ ClearData
        \/ StartGate \/ StartAdmit
        \/ \E x \in Items : InstanceWrites(x)
        \/ InstanceStops \/ HangUp \/ Crash
        \/ Proceed

Spec == Init /\ [][Next]_vars

\* The runtime polls the job, and every step ends, by itself or by the time limits of
\* its downloads: but not the venv, pip and uv children of Sync, which have none.
FairSpec == Spec /\ WF_vars(step # "sync" /\ Proceed)
-----------------------------------------------------------------------------
(***************************************************************************)
(* Properties.                                                             *)
(***************************************************************************)
\* Items that are safe outside core/data.
InBackups == UNION {b.items : b \in Pending}

Saved == kept \cup InBackups

\* Whatever fails, hangs up or crashes, an item leaves core/data only when an
\* automatic backup or a preserve directory has it, or the user asked for its
\* removal: by clearing the data, or by a repair that does not preserve it.
LostOnRequestOnly ==
  [][\A x \in data \ data' : \/ x \in Saved'
                             \/ kind = "none" /\ slot = "vacant"
                             \/ kind = "repair" /\ x \notin keep]_vars

\* An automatic backup is deleted only when all it holds is back in core/data,
\* whichever operation restored it and however often it was tried before.
SavedUntilBack == [][\A b \in Pending \ backups' : b.items \subseteq data']_vars

\* There is never a choice between two automatic backups to recover from: an
\* upgrade begins only when the last one has been resolved.
OnePending == \A b, c \in Pending : b = c

\* "config says new version" only after the deployment has fully finished: an
\* upgrade records its version when all the code of that version is deployed and
\* all the data is back.
RecordedWhenComplete ==
  [][(version' # version /\ kind = "update") =>
       /\ core = [of |-> version', extent |-> "full"]
       /\ InBackups' \subseteq data']_vars

\* Only a child that hangs lets a job hold the instance for ever: whatever its steps
\* meet on disk, no job waits for another, or goes round in circles.
JobEnds == kind # "none" ~> kind = "none" \/ [](step = "sync")

-----------------------------------------------------------------------------
(***************************************************************************)
(* What the sources say and the program does not do.                       *)
(***************************************************************************)
\* instance/lifecycle.rs:225-226: "Always run deployment preflight before each
\* start: self-heal extraction/venv"; so what runs is completely extracted.
HealedBeforeLaunch == slot = "live" => core.extent = "full"

\* RepairInstanceModal.tsx:37, of the scope database_only: what is preserved is
\* given up only when it is back in the data directory.
KeptUntilBack == [][kept \ kept' \subseteq data']_vars
=============================================================================
