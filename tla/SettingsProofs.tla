---------------------------- MODULE SettingsProofs ----------------------------
(***************************************************************************)
(* Proofs about what the launcher stores: its settings, and what it takes  *)
(* over from an older launcher when it starts.                             *)
(*                                                                         *)
(* Settings, for any addresses, environments and commands:                 *)
(*   SettingsTypeCorrect     the types,                                    *)
(*   SettingsStayBuildable   StaysBuildable,                               *)
(*   OneSettingPerSave       SavesKeepOthers,                              *)
(*   ClientIsCurrent         ClientFollowsSettings,                        *)
(*   EnvironmentLeadsOn      EnvironmentRespected.                         *)
(*                                                                         *)
(* A client is built in the transaction and put in place after it, so the  *)
(* invariant follows the commands that hold one (ClientInv).               *)
(*                                                                         *)
(* Migrations, for any set of instances:                                   *)
(*   MigrationTypeCorrect  the types,                                      *)
(*   ImportsArrive         InstancesArrive, by ImportInv: up to the import *)
(*                         nothing is wanted but what the files list, from *)
(*                         then on the record is what is wanted,           *)
(*   RuntimesFollow        VenvsFollow, by MoveInv: a runtime that may be  *)
(*                         moved is whole in one of its two places, and in *)
(*                         the new one once its migration is past.         *)
(***************************************************************************)
EXTENDS Settings, Migrations, TLAPS

\* The client the settings call for.
Expected == IF Builds(config) THEN ClientOf(config, env) ELSE Fallback

\* A launcher that is not running is doing nothing.
OffIsIdle == ~running => \A c \in SettingCalls : saves[c] = NoCommand

\* Unless a replacement was overtaken, either none is awaited and the client is
\* the expected one, or one is, and it holds the expected one.
ClientInv ==
  /\ ~running => ~overtaken
  /\ running /\ ~overtaken =>
       \/ client = Expected /\ \A c \in SettingCalls : ~AwaitsReplacement(c)
       \/ \E c \in SettingCalls :
            /\ \A d \in SettingCalls : AwaitsReplacement(d) <=> d = c
            /\ saves[c].next = Expected
-----------------------------------------------------------------------------
(* Operators of Network and of the record.                                 *)

\* What the settings and the environment lead to are proxies.
LEMMA SettingsForType ==
  ASSUME NEW cfg \in Configs, NEW e \in ProxyVariables
  PROVE  SettingsFor(cfg, e) \in ProxySettings
<1>1. Direct \in ProxySettings
  BY DEF Direct, ProxySettings, Proxies
<1>2. Configured(cfg.proxy) \in ProxySettings
  BY DEF Configured, ProxySettings, Proxies, Configs
<1>3. EnvironmentProxy(e) \in ProxySettings
  BY DEF EnvironmentProxy, ProxySettings, ProxyVariables, OrElse, Proxies
<1> QED
  BY <1>1, <1>2, <1>3 DEF SettingsFor, Resolve

\* So every client is one.
LEMMA ClientType ==
  ASSUME NEW cfg \in Configs, NEW e \in ProxyVariables PROVE ClientOf(cfg, e) \in Clients
<1>1. SettingsFor(cfg, e) \in ProxySettings
  BY SettingsForType
<1> QED
  BY <1>1 DEF ClientOf, Clients, ProxySettings, OrElse, Proxies

\* A record that is there is not an unreadable one.
LEMMA ReadableDiffers == Unreadable \notin Configs
<1>1. DOMAIN Unreadable = {"proxy"}
  BY DEF Unreadable
<1>2. \A cfg \in Configs : DOMAIN cfg = {"proxy", "mainland", "uv", "other"}
  BY DEF Configs
<1> QED
  BY <1>1, <1>2

\* Changing one setting keeps the record one, and the other settings.
LEMMA FieldSaved ==
  ASSUME NEW cfg \in Configs, NEW f \in Fields, NEW v \in Values(f)
  PROVE  /\ [cfg EXCEPT ![f] = v] \in Configs
         /\ [cfg EXCEPT ![f] = v][f] = v
         /\ \A g \in Fields \ {f} : [cfg EXCEPT ![f] = v][g] = cfg[g]
<1> USE DEF Configs, Fields, Values
<1>1. CASE f = "proxy" BY <1>1
<1>2. CASE f = "mainland" BY <1>2
<1>3. CASE f = "uv" BY <1>3
<1>4. CASE f = "other" BY <1>4
<1> QED
  BY <1>1, <1>2, <1>3, <1>4

\* What EnvironmentRespected says, of a record without an address.
LEMMA ChildrenFollow ==
  ASSUME NEW cfg \in Configs, NEW e \in ProxyVariables, cfg.proxy = None, ~cfg.mainland,
         NEW socks, socks = {e.all, e.http, e.https} \cap SocksProxies,
         \A u, v \in socks : u = v, e.all \in BadProxies => socks = {},
         NEW protocol \in {"http", "https"}
  PROVE  IF Route(e)[protocol] # None
         THEN Route(ChildEnv(cfg, e))[protocol] = Route(e)[protocol]
         ELSE Route(ChildEnv(cfg, e))[protocol] \in {None} \cup socks
<1> DEFINE s == EnvironmentProxy(e)
<1>1. /\ ChildEnv(cfg, e).all = s.all
      /\ ChildEnv(cfg, e).http = s.http /\ ChildEnv(cfg, e).https = s.https
  BY NetworkAssumption DEF Builds, ChildEnv, SettingsFor, Resolve, Direct, HasProxy
<1>2. /\ e.all \in Proxies /\ e.http \in Proxies /\ e.https \in Proxies
      /\ None \notin SocksProxies /\ None \notin HttpProxies /\ None \notin BadProxies
      /\ HttpProxies \cap SocksProxies = {}
      /\ BadProxies \cap (HttpProxies \cup SocksProxies) = {}
  BY NetworkAssumption DEF ProxyVariables
<1> HIDE DEF s
<1>3. CASE e.all \in HttpProxies
  <2>1. /\ s.http = IF OrElse(e.http, e.all) \in SocksProxies THEN None ELSE OrElse(e.http, e.all)
        /\ s.https = IF OrElse(e.https, e.all) \in SocksProxies THEN None
                     ELSE OrElse(e.https, e.all)
        /\ s.all = IF e.http \in SocksProxies THEN e.http
                   ELSE IF e.https \in SocksProxies THEN e.https ELSE None
    BY <1>2, <1>3 DEF s, EnvironmentProxy, OrElse
  <2> QED
    BY <1>1, <1>2, <1>3, <2>1 DEF Route, OrElse
<1>4. CASE e.all \notin HttpProxies
  <2>1. /\ s.http = IF e.http \in SocksProxies THEN None ELSE e.http
        /\ s.https = IF e.https \in SocksProxies THEN None ELSE e.https
        /\ s.all = IF e.all # None THEN e.all ELSE IF e.http \in SocksProxies THEN e.http
                   ELSE IF e.https \in SocksProxies THEN e.https ELSE None
    BY <1>2, <1>4 DEF s, EnvironmentProxy, OrElse
  <2>2. e.all \in SocksProxies \cup BadProxies \cup {None}
    BY <1>2, <1>4 DEF Proxies
  <2>3. CASE e.all = None
    BY <1>1, <1>2, <2>1, <2>3 DEF Route, OrElse
  <2>4. CASE e.all # None
    BY <1>1, <1>2, <2>1, <2>2, <2>4 DEF Route, OrElse
  <2> QED
    BY <2>3, <2>4
<1> QED
  BY <1>3, <1>4
-----------------------------------------------------------------------------
(* The types.                                                              *)

Commands == {NoCommand} \cup SettingCommands \cup SnapshotReads

\* Where a command is says which it is.
LEMMA CommandKinds ==
  ASSUME NEW c \in Commands
  PROVE  /\ c.pc \in {"check", "commit", "replace"} =>
              /\ c.op \in Fields /\ c.value \in Values(c.op) /\ c.next \in Clients
         /\ c.pc \in {"list", "persist"} => c.op = "snapshot" /\ c.copy \in BOOLEAN
BY DEF Commands, NoCommand, SettingCommands, SnapshotReads, Fields

\* A command that goes on to another step remains one.
LEMMA CommandGoesOn ==
  ASSUME NEW c \in Commands, c.pc \in {"check", "commit", "replace"},
         NEW pc \in {"check", "commit", "replace"}, NEW next \in Clients
  PROVE  /\ [c EXCEPT !.pc = pc] \in Commands
         /\ [c EXCEPT !.pc = pc, !.next = next] \in Commands
<1>1. c \in SettingCommands
  BY DEF Commands, NoCommand, SnapshotReads
<1>2. PICK f \in Fields : c \in [op : {f}, pc : {"check", "commit", "replace"},
                                 value : Values(f), next : Clients]
  BY <1>1 DEF SettingCommands
<1>3. /\ [c EXCEPT !.pc = pc] \in [op : {f}, pc : {"check", "commit", "replace"},
                                   value : Values(f), next : Clients]
      /\ [c EXCEPT !.pc = pc, !.next = next]
           \in [op : {f}, pc : {"check", "commit", "replace"}, value : Values(f), next : Clients]
  BY <1>2
<1> QED
  BY <1>2, <1>3 DEF Commands, SettingCommands

\* The record with a command's setting is a record.
LEMMA SavedType ==
  ASSUME NEW c \in SettingCalls, saves[c] \in Commands, saves[c].pc = "commit", config \in Configs
  PROVE  /\ Saved(c) \in Configs
         /\ saves[c].op \in Fields
         /\ \A g \in Fields \ {saves[c].op} : Saved(c)[g] = config[g]
<1>1. saves[c].op \in Fields /\ saves[c].value \in Values(saves[c].op)
  BY CommandKinds
<1> QED
  BY <1>1, FieldSaved DEF Saved

\* Every step keeps the types.
LEMMA SettingsTypeStep ==
  SettingsTypeOK /\ OffIsIdle /\ [SettingsNext]_settingsVars => SettingsTypeOK' /\ OffIsIdle'
<1> SUFFICES ASSUME SettingsTypeOK, OffIsIdle, [SettingsNext]_settingsVars
             PROVE  SettingsTypeOK' /\ OffIsIdle'
  OBVIOUS
<1> USE DEF SettingsTypeOK, OffIsIdle, Booleans
<1>0. /\ saves \in [SettingCalls -> Commands] /\ NoCommand \in Commands /\ NoCommand.pc = "idle"
      /\ Fallback \in Clients /\ DefaultConfig \in Configs
  BY DEF Commands, Clients, DefaultConfig, Configs, Proxies, NoCommand
<1>1. ASSUME NEW c \in SettingCalls, NEW x \in Commands, saves' = [saves EXCEPT ![c] = x],
             running, running' = running
      PROVE  OffIsIdle' /\ saves' \in [SettingCalls -> {NoCommand} \cup SettingCommands
                                                       \cup SnapshotReads]
  BY <1>0, <1>1 DEF Commands
<1>2. CASE StartLauncher
  <2>1. config' \in Configs
    BY <1>0, <1>2 DEF StartLauncher
  <2>2. client' \in Clients
    BY <1>0, <1>2, <2>1, ClientType DEF StartLauncher
  <2> QED
    BY <1>2, <2>1, <2>2 DEF StartLauncher
<1>3. CASE LauncherKilled
  BY <1>0, <1>3 DEF LauncherKilled
<1>4. CASE UvComesOrGoes
  BY <1>4 DEF UvComesOrGoes
<1>5. ASSUME NEW c \in SettingCalls, NEW f \in Fields, NEW v \in Values(f), BeginSave(c, f, v)
      PROVE  SettingsTypeOK' /\ OffIsIdle'
  <2>1. [op |-> f, pc |-> IF f \in {"proxy", "other"} THEN "check" ELSE "commit",
         value |-> v, next |-> Fallback] \in Commands
    BY <1>0 DEF Commands, SettingCommands, Fields
  <2> QED
    BY <1>1, <1>5, <2>1 DEF BeginSave
<1>6. ASSUME NEW c \in SettingCalls, CheckUrl(c) PROVE SettingsTypeOK' /\ OffIsIdle'
  <2>1. [saves[c] EXCEPT !.pc = "commit"] \in Commands
    BY <1>0, <1>6, CommandGoesOn DEF CheckUrl
  <2>2. \E x \in Commands : saves' = [saves EXCEPT ![c] = x]
    BY <1>0, <1>6, <2>1 DEF CheckUrl
  <2> QED
    BY <1>0, <1>1, <1>6, <2>2 DEF CheckUrl
<1>7. ASSUME NEW c \in SettingCalls, CommitSetting(c) PROVE SettingsTypeOK' /\ OffIsIdle'
  <2>1. running /\ config \in Configs /\ saves[c].pc = "commit"
    BY <1>0, <1>7 DEF CommitSetting
  <2>2. Saved(c) \in Configs
    BY <1>0, <2>1, SavedType
  <2>3. ClientOf(Saved(c), env) \in Clients
    BY <2>2, ClientType
  <2>4. [saves[c] EXCEPT !.pc = "replace", !.next = ClientOf(Saved(c), env)] \in Commands
    BY <1>0, <2>1, <2>3, CommandGoesOn
  <2>5. \E x \in Commands : saves' = [saves EXCEPT ![c] = x]
    BY <1>0, <1>7, <2>4 DEF CommitSetting
  <2>6. config' \in {config, Saved(c)} /\ UNCHANGED <<env, client, uvThere, running>>
    BY <1>7 DEF CommitSetting
  <2>7. overtaken' \in BOOLEAN
    BY <1>7, Zenon DEF CommitSetting
  <2> QED
    BY <1>1, <2>1, <2>2, <2>5, <2>6, <2>7
<1>8. ASSUME NEW c \in SettingCalls, ReplaceClient(c) PROVE SettingsTypeOK' /\ OffIsIdle'
  <2>1. running /\ saves[c].next \in Clients
    BY <1>0, <1>8, CommandKinds DEF ReplaceClient, AwaitsReplacement
  <2> QED
    BY <1>0, <1>1, <1>8, <2>1 DEF ReplaceClient
<1>9. ASSUME NEW c \in SettingCalls, BeginSnapshot(c) PROVE SettingsTypeOK' /\ OffIsIdle'
  <2>1. [op |-> "snapshot", pc |-> "list", copy |-> config.uv] \in Commands
    BY <1>9 DEF BeginSnapshot, Commands, SnapshotReads, Configs
  <2> QED
    BY <1>1, <1>9, <2>1 DEF BeginSnapshot
<1>10. ASSUME NEW c \in SettingCalls, SnapshotUv(c) PROVE SettingsTypeOK' /\ OffIsIdle'
  <2>1. running /\ saves[c] \in SnapshotReads
    BY <1>0, <1>10 DEF SnapshotUv, Commands, NoCommand, SettingCommands
  <2>2. [saves[c] EXCEPT !.pc = "persist"] \in Commands
    BY <2>1 DEF SnapshotReads, Commands
  <2> QED
    BY <1>0, <1>1, <1>10, <2>1, <2>2 DEF SnapshotUv
<1>11. ASSUME NEW c \in SettingCalls, PersistUvFallback(c) PROVE SettingsTypeOK' /\ OffIsIdle'
  <2>1. running /\ config' \in Configs
    BY <1>0, <1>11 DEF PersistUvFallback, Configs
  <2> QED
    BY <1>0, <1>1, <1>11, <2>1 DEF PersistUvFallback
<1>12. CASE UNCHANGED settingsVars
  BY <1>12 DEF settingsVars
<1> QED
  BY <1>2, <1>3, <1>4, <1>5, <1>6, <1>7, <1>8, <1>9, <1>10, <1>11, <1>12 DEF SettingsNext

LEMMA SettingsInvariant == SettingsSpec => [](SettingsTypeOK /\ OffIsIdle)
<1>1. SettingsInit => SettingsTypeOK /\ OffIsIdle
  BY EnvironmentsAssumption DEF SettingsInit, SettingsTypeOK, OffIsIdle, Clients, Booleans
<1> QED
  BY <1>1, SettingsTypeStep, PTL DEF SettingsSpec

\* For any addresses, environments and commands, the variables keep their types,
\* and a launcher that runs has settings.
THEOREM SettingsTypeCorrect == SettingsSpec => []SettingsTypeOK
BY SettingsInvariant, PTL
-----------------------------------------------------------------------------
(* What the transactions keep.                                             *)

\* A committed record builds if the one before did: what is saved builds or
\* leaves alone the address and the mode.
LEMMA BuildableStep ==
  SettingsTypeOK /\ [SettingsNext]_settingsVars =>
    [(config \in Configs /\ Builds(config)) => Builds(config')]_settingsVars
<1> SUFFICES ASSUME SettingsTypeOK, SettingsNext, config \in Configs, Builds(config)
             PROVE  Builds(config')
  BY DEF settingsVars
<1>0. saves \in [SettingCalls -> Commands]
  BY DEF SettingsTypeOK, Commands
<1>1. CASE UNCHANGED config
  BY <1>1
<1>2. CASE StartLauncher
  BY <1>2, ReadableDiffers DEF StartLauncher
<1>3. ASSUME NEW c \in SettingCalls, CommitSetting(c), config' # config PROVE Builds(config')
  <2>1. CASE saves[c].op \in {"proxy", "mainland"}
    BY <1>3, <2>1 DEF CommitSetting
  <2>2. CASE saves[c].op \in {"uv", "other"}
    <3>1. saves[c].pc = "commit" /\ config' = Saved(c)
      BY <1>3, <2>2 DEF CommitSetting
    <3>2. config'.proxy = config.proxy /\ config'.mainland = config.mainland
      BY <1>0, <2>2, <3>1, SavedType DEF Fields
    <3> QED
      BY <3>2 DEF Builds
  <2> QED
    BY <1>3, <2>1, <2>2 DEF CommitSetting
<1>4. ASSUME NEW c \in SettingCalls, PersistUvFallback(c) PROVE Builds(config')
  BY <1>4 DEF PersistUvFallback, Builds, Configs
<1> QED
  BY <1>1, <1>2, <1>3, <1>4
     DEF SettingsNext, LauncherKilled, UvComesOrGoes, BeginSave, CheckUrl, CommitSetting,
         ReplaceClient, BeginSnapshot, SnapshotUv

\* For any addresses and any commands under way at once, no command takes
\* settings that make a client to settings that do not (commands.rs:161-168,
\* 213-219).
THEOREM SettingsStayBuildable == SettingsSpec => StaysBuildable
BY BuildableStep, SettingsTypeCorrect, PTL DEF SettingsSpec, StaysBuildable

\* Only the commit of a field, and the uv fallback, change that field.
LEMMA OneFieldStep ==
  ASSUME SettingsTypeOK, SettingsNext, running, NEW f \in Fields, config'[f] # config[f]
  PROVE  \E c \in SettingCalls :
           /\ saves'[c] # saves[c]
           /\ \/ saves[c].op = f /\ saves[c].pc = "commit"
              \/ f = "uv" /\ saves[c].pc = "persist"
<1>0. /\ saves \in [SettingCalls -> Commands] /\ NoCommand.pc = "idle"
      /\ config \in Configs
  BY DEF SettingsTypeOK, Commands, NoCommand
<1>1. PICK c \in SettingCalls : CommitSetting(c) \/ PersistUvFallback(c)
  BY DEF SettingsNext, StartLauncher, LauncherKilled, UvComesOrGoes, BeginSave, CheckUrl,
         ReplaceClient, BeginSnapshot, SnapshotUv
<1>2. CASE CommitSetting(c)
  <2>1. saves[c].pc = "commit" /\ config' = Saved(c)
    BY <1>2 DEF CommitSetting
  <2>2. saves[c].op = f
    BY <1>0, <2>1, SavedType
  <2>3. saves'[c].pc \in {"replace", "idle"}
    <3>1. saves[c] \in SettingCommands
      BY <1>0, <2>1 DEF Commands, NoCommand, SnapshotReads
    <3>2. DOMAIN saves[c] = {"op", "pc", "value", "next"}
      BY <3>1 DEF SettingCommands
    <3> QED
      BY <1>0, <1>2, <3>2 DEF CommitSetting
  <2> QED
    BY <2>1, <2>2, <2>3
<1>3. CASE PersistUvFallback(c)
  BY <1>0, <1>3 DEF PersistUvFallback, Fields, Configs
<1> QED
  BY <1>1, <1>2, <1>3

\* For any addresses and any commands under way at once, a setting changes only
\* by a command that saves it, or, for uv, by a snapshot that found uv missing.
THEOREM OneSettingPerSave == SettingsSpec => SavesKeepOthers
<1>1. SettingsTypeOK /\ [SettingsNext]_settingsVars =>
        [\A f \in Fields : running /\ config'[f] # config[f] =>
           \E c \in SettingCalls :
             /\ saves'[c] # saves[c]
             /\ \/ saves[c].op = f /\ saves[c].pc = "commit"
                \/ f = "uv" /\ saves[c].pc = "persist"]_settingsVars
  BY OneFieldStep
<1> QED
  BY <1>1, SettingsTypeCorrect, PTL DEF SettingsSpec, SavesKeepOthers

\* For any proxy variables the launcher is started with, its children are led
\* where it is led itself, as EnvironmentRespected says (proxy.rs:207-251).
THEOREM EnvironmentLeadsOn == SettingsSpec => []EnvironmentRespected
<1>1. SettingsTypeOK => EnvironmentRespected
  <2> SUFFICES ASSUME SettingsTypeOK, running, config.proxy = None, ~config.mainland,
                      NEW socks, socks = {env.all, env.http, env.https} \cap SocksProxies,
                      \A u, v \in socks : u = v, env.all \in BadProxies => socks = {},
                      NEW protocol \in {"http", "https"}
               PROVE  IF Route(env)[protocol] # None
                      THEN Route(ChildEnv(config, env))[protocol] = Route(env)[protocol]
                      ELSE Route(ChildEnv(config, env))[protocol] \in {None} \cup socks
    BY Zenon DEF EnvironmentRespected
  <2>1. config \in Configs /\ env \in ProxyVariables
    BY DEF SettingsTypeOK
  <2> QED
    BY <2>1, ChildrenFollow
<1> QED
  BY <1>1, SettingsTypeCorrect, PTL
-----------------------------------------------------------------------------
(* The client.                                                             *)

\* A command that awaits nothing may take a step that leaves it so.
LEMMA NoneNewAwaits ==
  ASSUME SettingsTypeOK, ClientInv, NEW c \in SettingCalls, ~AwaitsReplacement(c), running,
         saves' = [saves EXCEPT ![c] = saves'[c]], saves'[c].pc # "replace",
         Expected' = Expected, UNCHANGED <<client, running, overtaken>>
  PROVE  ClientInv'
<1>1. \A d \in SettingCalls : AwaitsReplacement(d)' <=> AwaitsReplacement(d)
  BY DEF SettingsTypeOK, AwaitsReplacement
<1>2. \A d \in SettingCalls : AwaitsReplacement(d) => saves'[d] = saves[d]
  BY DEF SettingsTypeOK
<1> QED
  BY <1>1, <1>2 DEF ClientInv

\* The expected client depends on the address and the mode alone.
LEMMA ExpectedSame ==
  ASSUME config'.proxy = config.proxy, config'.mainland = config.mainland, env' = env
  PROVE  Expected' = Expected
BY DEF Expected, Builds, ClientOf, SettingsFor, Resolve

LEMMA ClientStep ==
  SettingsTypeOK /\ OffIsIdle /\ ClientInv /\ [SettingsNext]_settingsVars => ClientInv'
<1> SUFFICES ASSUME SettingsTypeOK, OffIsIdle, ClientInv, [SettingsNext]_settingsVars
             PROVE  ClientInv'
  OBVIOUS
<1>0. saves \in [SettingCalls -> Commands] /\ NoCommand.pc = "idle"
  BY DEF SettingsTypeOK, Commands, NoCommand
<1>a. \A c \in SettingCalls : saves[c].pc # "idle" => running
  BY <1>0 DEF OffIsIdle
<1>b. running => config \in Configs
  BY DEF SettingsTypeOK
<1>1. CASE StartLauncher
  <2>1. \A c \in SettingCalls : ~AwaitsReplacement(c)'
    BY <1>0, <1>1 DEF StartLauncher, OffIsIdle, AwaitsReplacement
  <2>2. client' = Expected'
    BY <1>1 DEF StartLauncher, Expected
  <2> QED
    BY <1>1, <2>1, <2>2 DEF StartLauncher, ClientInv
<1>2. CASE LauncherKilled
  BY <1>2 DEF LauncherKilled, ClientInv
<1>3. CASE UvComesOrGoes \/ UNCHANGED settingsVars
  BY <1>3 DEF UvComesOrGoes, settingsVars, ClientInv, AwaitsReplacement, Expected
<1>4. ASSUME NEW c \in SettingCalls, NEW f \in Fields, NEW v \in Values(f), BeginSave(c, f, v)
      PROVE  ClientInv'
  BY <1>0, <1>4, NoneNewAwaits, ExpectedSame DEF BeginSave, AwaitsReplacement
<1>5. ASSUME NEW c \in SettingCalls, CheckUrl(c) PROVE ClientInv'
  <2>1. saves[c] \in SettingCommands
    BY <1>0, <1>5 DEF CheckUrl, Commands, NoCommand, SnapshotReads
  <2>2. [saves[c] EXCEPT !.pc = "commit"].pc = "commit"
    BY <2>1 DEF SettingCommands
  <2> QED
    BY <1>0, <1>a, <1>5, <2>2, NoneNewAwaits, ExpectedSame DEF CheckUrl, AwaitsReplacement
<1>6. ASSUME NEW c \in SettingCalls, CommitSetting(c) PROVE ClientInv'
  <2>1. running /\ config \in Configs /\ saves[c].pc = "commit"
    BY <1>a, <1>b, <1>6 DEF CommitSetting
  <2>2. CASE saves[c].op \in {"proxy", "mainland"} /\ Builds(Saved(c)) /\ config' = Saved(c)
    <3>1. saves[c] \in SettingCommands
      BY <1>0, <2>1 DEF Commands, NoCommand, SnapshotReads
    <3>2. /\ saves'[c].pc = "replace" /\ saves'[c].next = ClientOf(Saved(c), env)
          /\ \A d \in SettingCalls \ {c} : saves'[d] = saves[d]
          /\ UNCHANGED <<env, running>>
      <4>1. /\ saves' = [saves EXCEPT ![c].pc = "replace", ![c].next = ClientOf(Saved(c), env)]
            /\ UNCHANGED <<env, running>>
        BY <1>6, <2>2 DEF CommitSetting
      <4>2. /\ saves'[c] = [saves[c] EXCEPT !.pc = "replace", !.next = ClientOf(Saved(c), env)]
            /\ \A d \in SettingCalls \ {c} : saves'[d] = saves[d]
        BY <1>0, <4>1
      <4>3. DOMAIN saves[c] = {"op", "pc", "value", "next"}
        BY <3>1 DEF SettingCommands
      <4>4. /\ [saves[c] EXCEPT !.pc = "replace", !.next = ClientOf(Saved(c), env)].pc = "replace"
            /\ [saves[c] EXCEPT !.pc = "replace", !.next = ClientOf(Saved(c), env)].next
                 = ClientOf(Saved(c), env)
        BY <4>3
      <4> QED
        BY <4>1, <4>2, <4>4, Zenon
    <3>3. saves'[c].next = Expected'
      BY <2>2, <3>2 DEF Expected
    <3>4. overtaken' = \E d \in SettingCalls : AwaitsReplacement(d)
      BY <1>6, <2>2, Zenon DEF CommitSetting
    <3>5. ~overtaken' => \A d \in SettingCalls : AwaitsReplacement(d)' <=> d = c
      BY <3>2, <3>4 DEF AwaitsReplacement
    <3> QED
      BY <2>1, <3>2, <3>3, <3>5 DEF ClientInv
  <2>3. CASE saves[c].op \in {"proxy", "mainland"} /\ saves' = [saves EXCEPT ![c] = NoCommand]
             /\ UNCHANGED <<config, overtaken>>
    BY <1>0, <1>6, <2>1, <2>3, NoneNewAwaits, ExpectedSame DEF CommitSetting, AwaitsReplacement
  <2>4. CASE saves[c].op \in {"uv", "other"}
    <3>1. config'.proxy = config.proxy /\ config'.mainland = config.mainland
      BY <1>0, <1>6, <2>1, <2>4, SavedType DEF CommitSetting, Fields
    <3> QED
      BY <1>0, <1>6, <2>1, <2>4, <3>1, NoneNewAwaits, ExpectedSame
         DEF CommitSetting, AwaitsReplacement
  <2> QED
    BY <1>6, <2>2, <2>3, <2>4 DEF CommitSetting
<1>7. ASSUME NEW c \in SettingCalls, ReplaceClient(c) PROVE ClientInv'
  <2>1. running /\ AwaitsReplacement(c)
    BY <1>a, <1>7 DEF ReplaceClient, AwaitsReplacement
  <2>2. CASE overtaken
    BY <1>7, <2>1, <2>2 DEF ReplaceClient, ClientInv
  <2>3. CASE ~overtaken
    <3>1. saves[c].next = Expected /\ \A d \in SettingCalls : AwaitsReplacement(d) <=> d = c
      BY <2>1, <2>3 DEF ClientInv
    <3>2. client' = Expected'
      BY <1>7, <3>1, ExpectedSame DEF ReplaceClient
    <3>3. \A d \in SettingCalls : ~AwaitsReplacement(d)'
      BY <1>0, <1>7, <3>1 DEF ReplaceClient, AwaitsReplacement
    <3> QED
      BY <1>7, <2>1, <3>2, <3>3 DEF ReplaceClient, ClientInv
  <2> QED
    BY <2>2, <2>3
<1>8. ASSUME NEW c \in SettingCalls, BeginSnapshot(c) PROVE ClientInv'
  BY <1>0, <1>8, NoneNewAwaits, ExpectedSame DEF BeginSnapshot, AwaitsReplacement
<1>9. ASSUME NEW c \in SettingCalls, SnapshotUv(c) PROVE ClientInv'
  <2>1. saves[c] \in SnapshotReads
    BY <1>0, <1>9 DEF SnapshotUv, Commands, NoCommand, SettingCommands
  <2>2. [saves[c] EXCEPT !.pc = "persist"].pc = "persist"
    BY <2>1 DEF SnapshotReads
  <2> QED
    BY <1>0, <1>a, <1>9, <2>2, NoneNewAwaits, ExpectedSame DEF SnapshotUv, AwaitsReplacement
<1>10. ASSUME NEW c \in SettingCalls, PersistUvFallback(c) PROVE ClientInv'
  <2>1. running /\ config'.proxy = config.proxy /\ config'.mainland = config.mainland
    BY <1>a, <1>b, <1>10 DEF PersistUvFallback, Configs
  <2> QED
    BY <1>0, <1>10, <2>1, NoneNewAwaits, ExpectedSame DEF PersistUvFallback, AwaitsReplacement
<1> QED
  BY <1>1, <1>2, <1>3, <1>4, <1>5, <1>6, <1>7, <1>8, <1>9, <1>10 DEF SettingsNext

\* For any addresses, environments and commands under way at once: between
\* commands the client is the one the settings call for, unless a replacement
\* was overtaken by a later commit (commands.rs:161-170).
THEOREM ClientIsCurrent == SettingsSpec => []ClientFollowsSettings
<1>1. SettingsInit => ClientInv
  BY DEF SettingsInit, ClientInv
<1>2. ClientInv => ClientFollowsSettings
  BY DEF ClientInv, ClientFollowsSettings, Expected
<1> QED
  BY <1>1, <1>2, ClientStep, SettingsInvariant, PTL DEF SettingsSpec
-----------------------------------------------------------------------------
(* Migrations.                                                             *)

\* The steps of a start after which the import is past.
Imported == {"python", "compat_python", "pyvenv", "load", "up"}

ImportInv ==
  ~lost =>
    /\ record # NoRecord => record = wanted
    /\ record = NoRecord => wanted = Merged(Files) /\ at \notin Imported
    /\ at \in {"config", "manifest"} => ("manifest" \in missing <=> record = NoRecord)

\* The steps of a start after which a runtime's migration is past.
MovedAt(r) ==
  IF r = "python" THEN {"compat_python", "pyvenv", "load", "up"} ELSE {"pyvenv", "load", "up"}

MoveInv ==
  /\ \A r \in movable : newDir[r] = "whole" \/ (oldDir[r] = "whole" /\ newDir[r] = "absent")
  /\ ~stuck => \A r \in movable : at \in MovedAt(r) => newDir[r] = "whole"
  /\ ~stuck /\ at \in {"load", "up"} => \A r \in LegacyRuntimes : home[r] = "new"


\* A record with an instance in it is not the missing record.
LEMMA RecordsDiffer ==
  \A f : f \in [LegacyIds -> Sources \cup {"absent"}] => f # NoRecord
<1> SUFFICES ASSUME NEW f \in [LegacyIds -> Sources \cup {"absent"}], f = NoRecord PROVE FALSE
  OBVIOUS
<1>1. PICK id \in LegacyIds : TRUE
  BY MigrationAssumption
<1>2. f[id] = "no record" /\ f[id] \in Sources \cup {"absent"}
  BY <1>1 DEF NoRecord
<1> QED
  BY <1>2 DEF Sources

\* What is imported is a record.
LEMMA MergedType == \A readable : Merged(readable) \in [LegacyIds -> Sources \cup {"absent"}]
  BY DEF Merged, Sources

\* Every step keeps the types.
LEMMA MigrationTypeStep == MigrationTypeOK /\ [MigrationNext]_migrationVars => MigrationTypeOK'
<1> SUFFICES ASSUME MigrationTypeOK, [MigrationNext]_migrationVars PROVE MigrationTypeOK'
  OBVIOUS
<1> USE DEF MigrationTypeOK, pythonVars, recordVars, Places, LegacyRuntimes
<1>1. CASE BootMigrations
  BY <1>1 DEF BootMigrations
<1>2. CASE InspectRecords
  BY <1>2 DEF InspectRecords
<1>3. CASE ImportConfig
  BY <1>3 DEF ImportConfig
<1>4. CASE ImportManifest
  <2>1. record' = record \/ \E readable \in SUBSET Files : record' = Merged(readable)
    BY <1>4 DEF ImportManifest
  <2>2. record' \in {NoRecord} \cup [LegacyIds -> Sources \cup {"absent"}]
    BY <2>1, MergedType
  <2> QED
    BY <1>4, <2>2 DEF ImportManifest
<1>5. ASSUME NEW r \in LegacyRuntimes, MoveRuntime(r) PROVE MigrationTypeOK'
  <2>1. /\ oldDir' = oldDir \/ \E p \in Places : oldDir' = [oldDir EXCEPT ![r] = p]
        /\ newDir' = newDir \/ \E p \in Places : newDir' = [newDir EXCEPT ![r] = p]
    BY <1>5 DEF MoveRuntime
  <2>2. oldDir' \in [LegacyRuntimes -> Places] /\ newDir' \in [LegacyRuntimes -> Places]
    BY <2>1
  <2> QED
    BY <1>5, <2>2 DEF MoveRuntime
<1>6. CASE RewriteVenvs
  BY <1>6 DEF RewriteVenvs
<1>7. CASE LoadRecords
  <2>1. Absent \in [LegacyIds -> Sources \cup {"absent"}]
    BY DEF Absent
  <2> QED
    BY <1>7, <2>1 DEF LoadRecords
<1>8. CASE UserEdits
  <2>1. Absent \in [LegacyIds -> Sources \cup {"absent"}]
    BY DEF Absent
  <2>2. PICK id \in LegacyIds, v \in {"user", "absent"} :
          /\ record' = [(IF record = NoRecord THEN Absent ELSE record) EXCEPT ![id] = v]
          /\ wanted' = [wanted EXCEPT ![id] = v]
    BY <1>8 DEF UserEdits
  <2>3. v \in Sources \cup {"absent"}
    BY DEF Sources
  <2>4. record' \in [LegacyIds -> Sources \cup {"absent"}]
    BY <2>1, <2>2, <2>3
  <2>5. wanted' \in [LegacyIds -> Sources \cup {"absent"}]
    BY <2>2, <2>3
  <2> QED
    BY <1>8, <2>4, <2>5 DEF UserEdits
<1>9. CASE ComponentChanges
  BY <1>9 DEF ComponentChanges
<1>10. CASE MigrationsEnd
  BY <1>10 DEF MigrationsEnd
<1>11. CASE UNCHANGED migrationVars
  BY <1>11 DEF migrationVars
<1> QED
  BY <1>1, <1>2, <1>3, <1>4, <1>5, <1>6, <1>7, <1>8, <1>9, <1>10, <1>11 DEF MigrationNext

\* For any instances of an older launcher, the variables keep their types
\* through every start, and no launcher is up without settings.
THEOREM MigrationTypeCorrect == MigrationSpec => []MigrationTypeOK
<1>1. MigrationInit => MigrationTypeOK
  <2> SUFFICES ASSUME MigrationInit PROVE MigrationTypeOK
    OBVIOUS
  <2>1. wanted \in [LegacyIds -> Sources \cup {"absent"}]
    BY MergedType DEF MigrationInit
  <2> QED
    BY <2>1 DEF MigrationInit, MigrationTypeOK, Places, LegacyRuntimes
<1> QED
  BY <1>1, MigrationTypeStep, PTL DEF MigrationSpec

-----------------------------------------------------------------------------
\* Every step keeps what the record has to do with what is wanted.
LEMMA ImportStep ==
  MigrationTypeOK /\ ImportInv /\ [MigrationNext]_migrationVars => ImportInv'
<1> SUFFICES ASSUME MigrationTypeOK, ImportInv, [MigrationNext]_migrationVars PROVE ImportInv'
  OBVIOUS
<1> USE DEF ImportInv, Imported, pythonVars, recordVars
<1>0. toml' = toml /\ Merged(Files)' = Merged(Files)
  BY DEF MigrationNext, BootMigrations, InspectRecords, ImportConfig, ImportManifest, MoveRuntime,
         RewriteVenvs, LoadRecords, UserEdits, ComponentChanges, MigrationsEnd, migrationVars, Merged
<1>1. CASE BootMigrations
  BY <1>0, <1>1 DEF BootMigrations
<1>2. CASE InspectRecords
  BY <1>0, <1>2 DEF InspectRecords
<1>3. CASE ImportConfig
  BY <1>0, <1>3 DEF ImportConfig
<1>4. CASE ImportManifest
  BY <1>0, <1>4, MergedType, RecordsDiffer DEF ImportManifest
<1>5. ASSUME NEW r \in LegacyRuntimes, MoveRuntime(r) PROVE ImportInv'
  BY <1>0, <1>5 DEF MoveRuntime
<1>6. CASE RewriteVenvs
  BY <1>0, <1>6 DEF RewriteVenvs
<1>7. CASE LoadRecords
  BY <1>0, <1>7 DEF LoadRecords
<1>8. CASE UserEdits
  <2> SUFFICES ASSUME ~lost PROVE ImportInv'
    BY <1>8 DEF UserEdits
  <2>1. record # NoRecord /\ record = wanted
    BY <1>8 DEF UserEdits
  <2>2. record' = wanted' /\ record' \in [LegacyIds -> Sources \cup {"absent"}]
    BY <1>8, <2>1 DEF UserEdits, MigrationTypeOK, Sources
  <2> QED
    BY <1>8, <2>2, RecordsDiffer DEF UserEdits
<1>9. CASE ComponentChanges
  BY <1>0, <1>9 DEF ComponentChanges
<1>10. CASE MigrationsEnd
  BY <1>0, <1>10 DEF MigrationsEnd
<1>11. CASE UNCHANGED migrationVars
  BY <1>0, <1>11 DEF migrationVars
<1> QED
  BY <1>1, <1>2, <1>3, <1>4, <1>5, <1>6, <1>7, <1>8, <1>9, <1>10, <1>11 DEF MigrationNext

\* For any instances: unless an error hides a TOML file or its import, all of
\* them are in the manifest whenever the launcher is up, and stay as the user
\* leaves them, over starts cut off at any step (config_manifest.rs:205-268).
THEOREM ImportsArrive == MigrationSpec => []InstancesArrive
<1>1. MigrationInit => ImportInv
  BY DEF MigrationInit, ImportInv, Imported
<1>2. ImportInv => InstancesArrive
  BY DEF ImportInv, InstancesArrive, Imported
<1> QED
  BY <1>1, <1>2, ImportStep, MigrationTypeCorrect, PTL DEF MigrationSpec

-----------------------------------------------------------------------------
\* Every step keeps the runtimes that may be moved whole, and the moved in place.
LEMMA MoveStep ==
  MigrationTypeOK /\ MoveInv /\ [MigrationNext]_migrationVars => MoveInv'
<1> SUFFICES ASSUME MigrationTypeOK, MoveInv, [MigrationNext]_migrationVars PROVE MoveInv'
  OBVIOUS
<1> USE DEF MoveInv, MovedAt, MigrationTypeOK, LegacyRuntimes, Places, pythonVars, recordVars
<1>1. CASE BootMigrations
  BY <1>1 DEF BootMigrations
<1>2. CASE InspectRecords
  BY <1>2 DEF InspectRecords
<1>3. CASE ImportConfig
  BY <1>3 DEF ImportConfig
<1>4. CASE ImportManifest
  BY <1>4 DEF ImportManifest
<1>5. ASSUME NEW r \in LegacyRuntimes, MoveRuntime(r) PROVE MoveInv'
  BY <1>5 DEF MoveRuntime
<1>6. CASE RewriteVenvs
  BY <1>6 DEF RewriteVenvs
<1>7. CASE LoadRecords
  BY <1>7 DEF LoadRecords
<1>8. CASE UserEdits
  BY <1>8 DEF UserEdits
<1>9. CASE ComponentChanges
  BY <1>9 DEF ComponentChanges
<1>10. CASE MigrationsEnd
  BY <1>10 DEF MigrationsEnd
<1>11. CASE UNCHANGED migrationVars
  BY <1>11 DEF migrationVars
<1> QED
  BY <1>1, <1>2, <1>3, <1>4, <1>5, <1>6, <1>7, <1>8, <1>9, <1>10, <1>11 DEF MigrationNext

\* After a start without errors every environment names the new place of its
\* Python, and a legacy runtime that could be moved is whole there, however many
\* starts were cut off before (component_python.rs:10-28, 193-222).
THEOREM RuntimesFollow == MigrationSpec => []VenvsFollow
<1>1. MigrationInit => MoveInv
  BY DEF MigrationInit, MoveInv, MovedAt
<1>2. MoveInv /\ MigrationTypeOK => VenvsFollow
  BY DEF MoveInv, VenvsFollow, MovedAt, MigrationTypeOK
<1> QED
  BY <1>1, <1>2, MoveStep, MigrationTypeCorrect, PTL DEF MigrationSpec
=============================================================================
