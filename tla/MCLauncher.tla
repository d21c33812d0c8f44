------------------------------ MODULE MCLauncher ------------------------------
(***************************************************************************)
(* Model-checking instances of the modules about one call, one directory   *)
(* or one record of the launcher.  They share no variable: a behaviour is  *)
(* one of one of them, the others stay in one of their initial states, and *)
(* the state space is the sum of theirs.                                   *)
(***************************************************************************)
EXTENDS MCFileManager, ProcessControl, Settings, Components, PythonEnv, Migrations,
        Session

VARIABLE part   \* which of them moves

\* Proxy variables: a socks proxy for all with an http proxy beside it and the
\* other way round, a socks proxy for one protocol, an ALL_PROXY of no known scheme.
MCEnvironments ==
  {[all |-> "socks1", http |-> "http1", https |-> None],
   [all |-> "http1", http |-> "socks1", https |-> None],
   [all |-> None, http |-> "socks1", https |-> None],
   [all |-> "bad", http |-> "http1", https |-> None]}

\* Commands on one component, the others not being there.
OneComponent ==
  \E comp \in ComponentIds :
    /\ \A c \in ComponentCalls : cmd[c].comp = comp
    /\ \A d \in Dirs : (\A i \in DOMAIN DirsOf(comp) : DirsOf(comp)[i] # d) => inDir[d] = NoDir

\* Every part begins as its module says, and one that does not move in one state
\* of those.
LauncherInit ==
  /\ part \in {"control", "settings", "components", "python", "files", "migrations", "session"}
  /\ ControlInit
  /\ part # "control" => stubborn = {} /\ dark = {} /\ call = "exit" /\ targets = Pids
  /\ SettingsInit
  /\ part # "settings" => config = DefaultConfig /\ env.all = "socks1" /\ uvThere
  /\ ComponentsInit
  /\ IF part = "components" THEN OneComponent
     ELSE /\ \A d \in Dirs : inDir[d] = NoDir
          /\ \A c \in ComponentCalls : cmd[c].kind = "install" /\ cmd[c].comp = "uv"
  /\ EnvInit
  /\ part # "python" => recorded = (CHOOSE v \in OldReleases : TRUE) /\ runtimes = {}
  /\ FilesInit
  /\ part # "files" => fs = TreeOf({a}, {a \o a}, {a \o b, b})
  /\ MigrationInit
  /\ part # "migrations" => /\ \A f \in Files : toml[f] = {}
                            /\ \A r \in LegacyRuntimes : oldDir[r] = "absent" /\ newDir[r] = "absent"
  /\ SessionInit
  /\ part # "session" => registered = {} /\ ~persist

LauncherNext ==
  /\ UNCHANGED part
  /\ IF part = "control" THEN ControlNext ELSE UNCHANGED controlVars
  /\ IF part = "settings" THEN SettingsNext ELSE UNCHANGED settingsVars
  /\ IF part = "components" THEN ComponentsNext ELSE UNCHANGED componentsVars
  /\ IF part = "python" THEN EnvNext ELSE UNCHANGED envVars
  /\ IF part = "files" THEN FilesNext ELSE UNCHANGED filesVars
  /\ IF part = "migrations" THEN MigrationNext ELSE UNCHANGED migrationVars
  /\ IF part = "session" THEN SessionNext ELSE UNCHANGED sessionVars

LauncherSpec ==
  LauncherInit
  /\ [][LauncherNext]_<<controlVars, settingsVars, componentsVars, envVars, filesVars,
                        migrationVars, sessionVars, part>>

\* The types of the seven modules.
LauncherTypeOK ==
  /\ ControlTypeOK /\ SettingsTypeOK /\ ComponentsTypeOK
  /\ EnvTypeOK /\ FilesTypeOK /\ MigrationTypeOK /\ SessionTypeOK
=============================================================================
