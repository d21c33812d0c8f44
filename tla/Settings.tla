------------------------------ MODULE Settings ------------------------------
(***************************************************************************)
(* The settings commands of commands.rs over the record of config.rs and   *)
(* the HTTP client of runtime.rs.  A write transaction of redb is one step *)
(* (there is one writer at a time); what a command does before and after   *)
(* its transaction is not, and commands of several clients interleave.     *)
(* The launcher may be killed at any step and started again.               *)
(***************************************************************************)
EXTENDS Network

CONSTANTS
  SettingCalls,   \* commands that may be under way at once
  Environments    \* proxy variables the launcher may be started with

ASSUME EnvironmentsAssumption == Environments \subseteq ProxyVariables

Booleans == {TRUE, FALSE}
Configs == [proxy : Proxies, mainland : Booleans, uv : Booleans, other : Booleans]
DefaultConfig == [proxy |-> None, mainland |-> FALSE, uv |-> FALSE, other |-> FALSE]

\* A record that is not there or that serde_json does not accept.
Unreadable == [proxy |-> None]

VARIABLES
  config,      \* the record of CONFIG_TABLE
  env,         \* the launcher's proxy variables
  client,      \* AppState.client: the proxies it was built with, or Fallback
  uvThere,     \* uv and uvx are in the components directory
  running,     \* the launcher has started and accepts commands
  saves,       \* [call -> what it does, where it is, what it holds]
  overtaken    \* a client is or was to be replaced by one built before it

settingsVars == <<config, env, client, uvThere, running, saves, overtaken>>

Fallback == [http |-> "reqwest", https |-> "reqwest"]
Clients == [http : Proxies, https : Proxies] \cup {Fallback}

\* The setting a command saves, and the values it may be given.
Fields == {"proxy", "mainland", "uv", "other"}
Values(f) == IF f = "proxy" THEN Proxies ELSE Booleans

NoCommand == [op |-> "idle", pc |-> "idle"]
SettingCommands == UNION {[op : {f}, pc : {"check", "commit", "replace"}, value : Values(f),
                    next : Clients] : f \in Fields}
SnapshotReads == [op : {"snapshot"}, pc : {"list", "persist"}, copy : BOOLEAN]

SettingsInit ==
  /\ config \in Configs \cup {Unreadable}
  /\ env \in Environments
  /\ client = Fallback /\ uvThere \in Booleans /\ running = FALSE
  /\ saves = [c \in SettingCalls |-> NoCommand]
  /\ overtaken = FALSE

\* run(): load_or_init_config_value, then the client or its fallback.
StartLauncher ==
  /\ ~running
  /\ config' = IF config = Unreadable THEN DefaultConfig ELSE config
  /\ client' = IF Builds(config') THEN ClientOf(config', env) ELSE Fallback
  /\ running' = TRUE
  /\ UNCHANGED <<env, uvThere, saves, overtaken>>

\* The launcher is killed: what it held in memory is lost.
LauncherKilled ==
  /\ running
  /\ running' = FALSE
  /\ client' = Fallback
  /\ saves' = [c \in SettingCalls |-> NoCommand] /\ overtaken' = FALSE
  /\ UNCHANGED <<config, env, uvThere>>

\* uv is installed or removed, by a component command.
UvComesOrGoes ==
  /\ uvThere' = ~uvThere
  /\ UNCHANGED <<config, env, client, running, saves, overtaken>>
-----------------------------------------------------------------------------
\* A command starts and checks its argument: the fields of a proxy must give a
\* client of their own, uv must be there to be used for dependencies.
BeginSave(c, f, v) ==
  /\ running /\ saves[c] = NoCommand
  /\ f = "proxy" => v \notin BadProxies
  /\ f = "uv" /\ v => uvThere
  /\ saves' = [saves EXCEPT ![c] =
       [op |-> f, pc |-> IF f \in {"proxy", "other"} THEN "check" ELSE "commit",
        value |-> v, next |-> Fallback]]
  /\ UNCHANGED <<config, env, client, uvThere, running, overtaken>>

\* check_url of the proxy's two addresses, or of a GitHub proxy or a mirror
\* with the present client; an empty proxy is not tried.
CheckUrl(c) ==
  /\ saves[c].pc = "check"
  /\ \/ saves' = [saves EXCEPT ![c].pc = "commit"]
     \/ ~(saves[c].op = "proxy" /\ saves[c].value = None)
        /\ saves' = [saves EXCEPT ![c] = NoCommand]
  /\ UNCHANGED <<config, env, client, uvThere, running, overtaken>>

Saved_EndsMainland(c) ==
  [config EXCEPT ![saves[c].op] = saves[c].value,
                 !.mainland = saves[c].op = "mainland" /\ saves[c].value]

\* The record with the command's setting, as with_config_mut's closure makes it.
Saved(c) == [config EXCEPT ![saves[c].op] = saves[c].value]

AwaitsReplacement(c) == saves[c].pc = "replace"

CommitSetting_Unchecked(c) ==
  /\ saves[c].pc = "commit"
  /\ config' = Saved(c)
  /\ saves' = [saves EXCEPT ![c].pc = "replace", ![c].next = ClientOf(Saved(c), env)]
  /\ overtaken' = \E d \in SettingCalls : AwaitsReplacement(d)
  /\ UNCHANGED <<env, client, uvThere, running>>

CommitSetting_BuildsBefore(c) ==
  /\ saves[c].pc = "commit" /\ Builds(Saved(c))
  /\ config' = Saved(c)
  /\ saves' = [saves EXCEPT ![c].pc = "replace", ![c].next = ClientOf(config, env)]
  /\ overtaken' = \E d \in SettingCalls : AwaitsReplacement(d)
  /\ UNCHANGED <<env, client, uvThere, running>>

\* with_config_mut; for a proxy or the mainland mode the closure also builds the
\* next client, and an error there aborts the transaction.
CommitSetting(c) ==
  /\ saves[c].pc = "commit"
  /\ \/ /\ saves[c].op \in {"proxy", "mainland"} /\ Builds(Saved(c))
        /\ config' = Saved(c)
        /\ saves' = [saves EXCEPT ![c].pc = "replace", ![c].next = ClientOf(Saved(c), env)]
        /\ overtaken' = \E d \in SettingCalls : AwaitsReplacement(d)
     \/ /\ saves[c].op \in {"proxy", "mainland"} /\ ~Builds(Saved(c))
        /\ saves' = [saves EXCEPT ![c] = NoCommand]
        /\ UNCHANGED <<config, overtaken>>
     \/ /\ saves[c].op \in {"uv", "other"}
        /\ config' = Saved(c)
        /\ saves' = [saves EXCEPT ![c] = NoCommand]
        /\ UNCHANGED overtaken
  /\ UNCHANGED <<env, client, uvThere, running>>

\* replace_client, after the transaction.
ReplaceClient(c) ==
  /\ AwaitsReplacement(c)
  /\ client' = saves[c].next
  /\ saves' = [saves EXCEPT ![c] = NoCommand]
  /\ UNCHANGED <<config, env, uvThere, running, overtaken>>

\* build_app_snapshot_with: the record is read, then instances and backups are
\* listed.  The sync_dependencies of a deployment goes the same way: the record
\* is read, uv is looked for, one field is written.
BeginSnapshot(c) ==
  /\ running /\ saves[c] = NoCommand
  /\ saves' = [saves EXCEPT ![c] = [op |-> "snapshot", pc |-> "list", copy |-> config.uv]]
  /\ UNCHANGED <<config, env, client, uvThere, running, overtaken>>

\* apply_uv_fallback looks at what the copy says and at what is installed.
SnapshotUv(c) ==
  /\ saves[c].pc = "list"
  /\ saves' = [saves EXCEPT ![c] =
       IF @.copy /\ ~uvThere THEN [@ EXCEPT !.pc = "persist"] ELSE NoCommand]
  /\ UNCHANGED <<config, env, client, uvThere, running, overtaken>>

\* Its transaction, on the record as it is by now.
PersistUvFallback(c) ==
  /\ saves[c].pc = "persist"
  /\ config' = [config EXCEPT !.uv = FALSE]
  /\ saves' = [saves EXCEPT ![c] = NoCommand]
  /\ UNCHANGED <<env, client, uvThere, running, overtaken>>
-----------------------------------------------------------------------------
SettingsNext ==
  \/ StartLauncher \/ LauncherKilled \/ UvComesOrGoes
  \/ \E c \in SettingCalls :
       \/ \E f \in Fields : \E v \in Values(f) : BeginSave(c, f, v)
       \/ CheckUrl(c) \/ CommitSetting(c) \/ ReplaceClient(c)
       \/ BeginSnapshot(c) \/ SnapshotUv(c) \/ PersistUvFallback(c)

SettingsSpec == SettingsInit /\ [][SettingsNext]_settingsVars
-----------------------------------------------------------------------------
\* The types.
SettingsTypeOK ==
  /\ config \in Configs \cup {Unreadable} /\ env \in ProxyVariables
  /\ running => config \in Configs
  /\ client \in Clients /\ uvThere \in Booleans
  /\ running \in Booleans /\ overtaken \in Booleans
  /\ saves \in [SettingCalls -> {NoCommand} \cup SettingCommands \cup SnapshotReads]

\* No command takes settings that make a client to settings that do not, the
\* mainland mode that hides a bad proxy included: the next start would have
\* nothing but the fallback client (commands.rs:161-168, 213-219).
StaysBuildable ==
  [][(config \in Configs /\ Builds(config)) => Builds(config')]_settingsVars

\* Between commands the client is the one the settings call for, unless two
\* replacements crossed: replace_client comes after the transaction, outside
\* any lock (commands.rs:161-170).
ClientFollowsSettings ==
  running /\ ~overtaken /\ (\A c \in SettingCalls : ~AwaitsReplacement(c))
    => client = IF Builds(config) THEN ClientOf(config, env) ELSE Fallback

\* A setting changes only by a command that saves it, or, for uv, by a snapshot
\* (commands.rs:56-68) or a deployment (deploy.rs:503-509) that found uv missing:
\* none of them writes back what it read of the others.
SavesKeepOthers ==
  [][\A f \in Fields : running /\ config'[f] # config[f] =>
       \E c \in SettingCalls :
         /\ saves'[c] # saves[c]
         /\ \/ saves[c].op = f /\ saves[c].pc = "commit"
            \/ f = "uv" /\ saves[c].pc = "persist"]_settingsVars

\* What a child is given leads each protocol to the proxy the launcher's own
\* environment leads it to, and one it leads nowhere to nothing but a socks proxy
\* of the other protocol, which programs then find in ALL_PROXY; as long as the
\* environment names one socks proxy at most, and none beside an ALL_PROXY of no
\* known scheme (proxy.rs:207-251, 271-320).
EnvironmentRespected ==
  LET socks == {env.all, env.http, env.https} \cap SocksProxies
      theirs == Route(ChildEnv(config, env))
  IN  /\ running /\ config.proxy = None /\ ~config.mainland
      /\ \A u, v \in socks : u = v
      /\ env.all \in BadProxies => socks = {}
      => \A protocol \in {"http", "https"} :
           IF Route(env)[protocol] # None THEN theirs[protocol] = Route(env)[protocol]
           ELSE theirs[protocol] \in {None} \cup socks
=============================================================================
