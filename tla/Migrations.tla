----------------------------- MODULE Migrations -----------------------------
(***************************************************************************)
(* migration/*.rs and load_or_init of config.rs: a start of the launcher   *)
(* over the data of an older one.  Settings and instances come from TOML   *)
(* files into the database, Python's runtimes move to their new places and *)
(* the instances' pyvenv.cfg follow them.  The start is sequential; it may *)
(* be killed between any two steps and begins anew, and any access to a    *)
(* file or to the database may fail.                                       *)
(***************************************************************************)
CONSTANT LegacyIds   \* instances the TOML files may know

ASSUME MigrationAssumption == LegacyIds # {}

Sources == {"manifest.toml", "config.toml", "user"}
Absent == [id \in LegacyIds |-> "absent"]   \* a manifest without instances
NoRecord == [id \in LegacyIds |-> "no record"]
LegacyRuntimes == {"python", "compat_python"}
Places == {"absent", "torn", "whole"}

VARIABLES
  toml,       \* [file -> the instances it lists; all of them absent if broken]
  settings,   \* the settings record: "none", "legacy", "default"
  record,     \* the manifest record: [instance -> where it came from], NoRecord
  oldDir, newDir,   \* [runtime -> what is in its legacy place, in its new one]
  home,       \* [runtime -> the place its venvs' pyvenv.cfg name]
  at,         \* where the start is
  missing,    \* local: the records found missing
  wanted,     \* history: what the manifest should come to be
  movable,    \* history: the runtimes to be moved, not touched by a user since
  lost,       \* history: an error has hidden a TOML file or its import
  stuck       \* history: an error has hindered the moving of a runtime, and
              \* no later start has made up for it

migrationVars == <<toml, settings, record, oldDir, newDir, home, at, missing,
                   wanted, movable, lost, stuck>>
pythonVars == <<oldDir, newDir, home, movable, stuck>>
recordVars == <<toml, settings, record, missing, wanted, lost>>

\* load_legacy_state with merge_manifest: manifest.toml before config.toml.
Merged(readable) ==
  [id \in LegacyIds |->
     IF "manifest.toml" \in readable /\ id \in toml["manifest.toml"] THEN "manifest.toml"
     ELSE IF "config.toml" \in readable /\ id \in toml["config.toml"] THEN "config.toml"
     ELSE "absent"]

Files == {"config.toml", "manifest.toml"}

MigrationInit ==
  /\ toml \in [Files -> SUBSET LegacyIds]
  /\ settings = "none" /\ record = NoRecord
  /\ oldDir \in [LegacyRuntimes -> {"absent", "whole"}]
  /\ newDir \in [LegacyRuntimes -> Places]
  /\ home = [r \in LegacyRuntimes |-> "old"]
  /\ at = "off" /\ missing = {}
  /\ wanted = Merged(Files)
  /\ movable = {r \in LegacyRuntimes : oldDir[r] = "whole" /\ newDir[r] = "absent"}
  /\ lost = FALSE /\ stuck = FALSE
-----------------------------------------------------------------------------
BootMigrations ==
  /\ at = "off" /\ at' = "inspect"
  /\ stuck' = FALSE
  /\ UNCHANGED <<recordVars, oldDir, newDir, home, movable>>

\* has_config_record and has_manifest_record; an error ends this migration.
InspectRecords ==
  /\ at = "inspect"
  /\ \/ /\ missing' = {t \in {"config", "manifest"} :
                         \/ t = "config" /\ settings = "none"
                         \/ t = "manifest" /\ record = NoRecord}
        /\ at' = IF missing' = {} THEN "python" ELSE "config"
        /\ UNCHANGED lost
     \/ /\ at' = "python" /\ lost' = (lost \/ record = NoRecord)
        /\ UNCHANGED missing
  /\ UNCHANGED <<pythonVars, toml, settings, record, wanted>>

\* The settings are written, from the file or by default; an error ends this
\* migration.
ImportConfig ==
  /\ at = "config"
  /\ IF "config" \notin missing THEN at' = "manifest" /\ UNCHANGED <<settings, lost>>
     ELSE \/ settings' \in {"legacy", "default"} /\ at' = "manifest" /\ UNCHANGED lost
          \/ at' = "python" /\ lost' = (lost \/ record = NoRecord) /\ UNCHANGED settings
  /\ UNCHANGED <<pythonVars, toml, record, missing, wanted>>

ImportManifest_WithSettings ==
  /\ at = "manifest"
  /\ IF missing # {"config", "manifest"} THEN UNCHANGED <<record, lost>>
     ELSE record' = Merged(Files) /\ UNCHANGED lost
  /\ at' = "python"
  /\ UNCHANGED <<pythonVars, toml, settings, missing, wanted>>

\* So are the instances; a file that cannot be read counts as none.
ImportManifest ==
  /\ at = "manifest"
  /\ IF "manifest" \notin missing THEN UNCHANGED <<record, lost>>
     ELSE \/ \E readable \in SUBSET Files :
               record' = Merged(readable) /\ lost' = (lost \/ readable # Files)
          \/ record' = record /\ lost' = TRUE
  /\ at' = "python"
  /\ UNCHANGED <<pythonVars, toml, settings, missing, wanted>>

MoveRuntime_Copies(r) ==
  /\ at = (IF r = "python" THEN "python" ELSE "compat_python")
  /\ IF oldDir[r] = "absent" THEN UNCHANGED <<oldDir, newDir>>
     ELSE \/ newDir' = [newDir EXCEPT ![r] = "torn"] /\ UNCHANGED oldDir
          \/ /\ newDir' = [newDir EXCEPT ![r] = IF @ = "absent" THEN oldDir[r] ELSE @]
             /\ oldDir' = [oldDir EXCEPT ![r] = "absent"]
  /\ at' = IF r = "python" THEN "compat_python" ELSE "pyvenv"
  /\ UNCHANGED <<recordVars, home, movable, stuck>>

\* migrate_dir: one rename, unless the new place is taken; then the legacy
\* directory goes.
MoveRuntime(r) ==
  /\ at = (IF r = "python" THEN "python" ELSE "compat_python")
  /\ \/ oldDir[r] = "absent" /\ UNCHANGED <<oldDir, newDir, stuck>>
     \/ /\ oldDir[r] # "absent" /\ newDir[r] # "absent"
        /\ \E rest \in {"absent", "torn"} : oldDir' = [oldDir EXCEPT ![r] = rest]
        /\ UNCHANGED <<newDir, stuck>>
     \/ /\ oldDir[r] # "absent" /\ newDir[r] = "absent"
        /\ newDir' = [newDir EXCEPT ![r] = oldDir[r]]
        /\ oldDir' = [oldDir EXCEPT ![r] = "absent"]
        /\ UNCHANGED stuck
     \/ /\ oldDir[r] # "absent"
        /\ stuck' = TRUE /\ UNCHANGED <<oldDir, newDir>>
  /\ at' = IF r = "python" THEN "compat_python" ELSE "pyvenv"
  /\ UNCHANGED <<recordVars, home, movable>>

\* migrate_instance_pyvenv_cfgs: whatever became of the directories; an error
\* leaves the rest as they are.
RewriteVenvs ==
  /\ at = "pyvenv"
  /\ \/ home' = [r \in LegacyRuntimes |-> "new"] /\ UNCHANGED stuck
     \/ /\ \E done \in SUBSET LegacyRuntimes :
             home' = [r \in LegacyRuntimes |-> IF r \in done THEN "new" ELSE home[r]]
        /\ stuck' = TRUE
  /\ at' = "load"
  /\ UNCHANGED <<recordVars, oldDir, newDir, movable>>

LoadRecords_KeepsNone ==
  /\ at = "load" /\ at' = "up"
  /\ UNCHANGED <<pythonVars, toml, settings, record, missing, wanted, lost>>

\* load_or_init_*: a record that is still missing becomes the default one; the
\* launcher does not start without settings.
LoadRecords ==
  /\ at = "load" /\ at' = "up"
  /\ settings' = IF settings = "none" THEN "default" ELSE settings
  /\ record' \in IF record = NoRecord THEN {NoRecord, Absent} ELSE {record}
  /\ UNCHANGED <<pythonVars, toml, missing, wanted, lost>>

\* The launcher is used: instances come and go, so do the runtimes.
UserEdits ==
  LET known == IF record = NoRecord THEN Absent ELSE record IN
  /\ at = "up"
  /\ \E id \in LegacyIds, v \in {"user", "absent"} :
       record' = [known EXCEPT ![id] = v] /\ wanted' = [wanted EXCEPT ![id] = v]
  /\ UNCHANGED <<pythonVars, toml, settings, at, missing, lost>>

ComponentChanges ==
  /\ at = "up"
  /\ \E r \in LegacyRuntimes, p \in Places :
       newDir' = [newDir EXCEPT ![r] = p] /\ movable' = movable \ {r}
  /\ UNCHANGED <<recordVars, oldDir, home, at, stuck>>

\* Killed or stopped.
MigrationsEnd ==
  /\ at # "off" /\ at' = "off" /\ missing' = {}
  /\ UNCHANGED <<pythonVars, toml, settings, record, wanted, lost>>
-----------------------------------------------------------------------------
MigrationNext ==
  \/ BootMigrations \/ InspectRecords \/ ImportConfig \/ ImportManifest
  \/ \E r \in LegacyRuntimes : MoveRuntime(r)
  \/ RewriteVenvs \/ LoadRecords \/ UserEdits \/ ComponentChanges \/ MigrationsEnd

MigrationSpec == MigrationInit /\ [][MigrationNext]_migrationVars
-----------------------------------------------------------------------------
\* The types.
MigrationTypeOK ==
  /\ toml \in [Files -> SUBSET LegacyIds]
  /\ settings \in {"none", "legacy", "default"}
  /\ record \in {NoRecord} \cup [LegacyIds -> Sources \cup {"absent"}]
  /\ oldDir \in [LegacyRuntimes -> Places] /\ newDir \in [LegacyRuntimes -> Places]
  /\ home \in [LegacyRuntimes -> {"old", "new"}]
  /\ at \in {"off", "inspect", "config", "manifest", "python", "compat_python",
             "pyvenv", "load", "up"}
  /\ at = "up" => settings # "none"
  /\ missing \subseteq {"config", "manifest"}
  /\ wanted \in [LegacyIds -> Sources \cup {"absent"}]
  /\ movable \subseteq LegacyRuntimes /\ lost \in BOOLEAN /\ stuck \in BOOLEAN

\* Unless an error hid them, the instances of both files are in the manifest
\* once the launcher is up, however often its start was cut off before, and none
\* that a user has changed or deleted since is brought back by a later start
\* (config_manifest.rs:205-268).
InstancesArrive == at = "up" /\ ~lost => record = wanted

\* Once a start has come through without an error, every venv names the new
\* place of its Python, and a legacy runtime that could be moved is there
\* (component_python.rs:10-28, 193-222).
VenvsFollow ==
  at = "up" /\ ~stuck =>
    \A r \in LegacyRuntimes :
      home[r] = "new" /\ (r \in movable => newDir[r] = "whole")
=============================================================================
