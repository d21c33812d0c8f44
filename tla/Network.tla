------------------------------ MODULE Network ------------------------------
(***************************************************************************)
(* utils/proxy.rs, utils/net.rs and network_config.rs: which proxies the   *)
(* launcher's HTTP client and the child processes use, given the settings  *)
(* and the environment.  A proxy address is a value; what counts of it is  *)
(* the family of its scheme and whether it can be used at all.             *)
(***************************************************************************)
CONSTANTS
  HttpProxies,    \* addresses with scheme http or https
  SocksProxies,   \* addresses with a scheme of the socks family
  BadProxies      \* what Url::parse or ensure_supported_proxy_scheme refuses

None == ""        \* an empty or absent value
Proxies == HttpProxies \cup SocksProxies \cup BadProxies \cup {None}

ASSUME NetworkAssumption ==
  /\ None \notin HttpProxies \cup SocksProxies \cup BadProxies
  /\ HttpProxies \cap SocksProxies = {}
  /\ BadProxies \cap (HttpProxies \cup SocksProxies) = {}

ProxySettings == [source : {"config", "environment", "nothing"},
                  all : Proxies, http : Proxies, https : Proxies]

\* No proxy at all, which reqwest is told explicitly.
Direct == [source |-> "nothing", all |-> None, http |-> None, https |-> None]

HasProxy(s) == s.all # None \/ s.http # None \/ s.https # None

\* The first value unless it is absent.
OrElse(v, w) == IF v = None THEN w ELSE v

\* build_single_url_proxy_settings, of an address it accepts.
Configured(url) ==
  IF url \in SocksProxies
  THEN [source |-> "config", all |-> url, http |-> None, https |-> None]
  ELSE [source |-> "config", all |-> None, http |-> url, https |-> url]

EnvironmentProxy_AllIsSocks(env) ==
  LET NotSocks(url) == IF url \in SocksProxies THEN None ELSE url
  IN  [source |-> "environment", all |-> IF env.all \in HttpProxies THEN None ELSE env.all,
       http |-> NotSocks(env.http), https |-> NotSocks(env.https)]

\* environment_proxy_settings: an http address in ALL_PROXY stands for the two
\* protocols, a socks address in either of theirs for all of them.
EnvironmentProxy(env) ==
  LET spread == env.all \in HttpProxies
      http == IF spread THEN OrElse(env.http, env.all) ELSE env.http
      https == IF spread THEN OrElse(env.https, env.all) ELSE env.https
      SocksOf(url) == IF url \in SocksProxies THEN url ELSE None
      NotSocks(url) == IF url \in SocksProxies THEN None ELSE url
  IN  [source |-> "environment",
       all |-> OrElse(IF spread THEN None ELSE env.all,
                      OrElse(SocksOf(http), SocksOf(https))),
       http |-> NotSocks(http), https |-> NotSocks(https)]

\* resolve_proxy_from_config: the settings, then the environment; sys_proxy
\* has nothing to offer outside Windows and macOS.
Resolve(config, env) ==
  IF config.proxy # None THEN Configured(config.proxy)
  ELSE IF HasProxy(EnvironmentProxy(env)) THEN EnvironmentProxy(env) ELSE Direct

\* proxy_settings: mainland mode looks at no source.
SettingsFor(config, env) ==
  IF config.mainland THEN Direct ELSE Resolve(config, env)

\* Whether build_http_client_from_config succeeds.
Builds(config) == config.mainland \/ config.proxy \notin BadProxies

\* build_http_client_with_proxy: an address of the environment reqwest cannot
\* use is left out, and the first of all, http, https that applies is used.
ClientOf(config, env) ==
  LET s == SettingsFor(config, env)
      Usable(url) == IF url \in BadProxies THEN None ELSE url
  IN  [http |-> OrElse(Usable(s.all), Usable(s.http)),
       https |-> OrElse(Usable(s.all), Usable(s.https))]

\* build_proxy_env_vars and apply_proxy_env: the variables a child is started
\* with, all others of the eight removed; on an error it gets none.
ChildEnv(config, env) ==
  LET s == IF Builds(config) THEN SettingsFor(config, env) ELSE Direct
  IN  [all |-> s.all, http |-> s.http, https |-> s.https]

\* How programs read these variables: their own protocol's, else ALL_PROXY.
ProxyVariables == [all : Proxies, http : Proxies, https : Proxies]
Route(vars) == [http |-> OrElse(vars.http, vars.all),
                https |-> OrElse(vars.https, vars.all)]
=============================================================================
