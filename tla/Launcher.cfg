\* Two processes to be ended, each PID given away once; two settings commands;
\* two commands on one component; two releases of either Python; two file
\* requests below a directory three levels deep; one instance of an older launcher;
\* a session with two instances.
SPECIFICATION LauncherSpec
CONSTANTS
  Pids = {"p1", "p2"}
  MaxGen = 1
  MaxTry = 2
  HttpProxies = {"http1"}
  SocksProxies = {"socks1"}
  BadProxies = {"bad"}
  SettingCalls = {s1, s2}
  Environments <- MCEnvironments
  ComponentCalls = {c1, c2}
  OldReleases = {o1, o2}
  NewReleases = {n1, n2}
  Names = {"a", "b"}
  MaxDepth = 3
  SourceLists <- MCSourceLists
  DestDirs <- MCDestDirs
  InitialTrees <- MCTrees
  FileCalls = {f1, f2}
  MaxChanges = 2
  LegacyIds = {l1}
  Instances = {i1, i2}
INVARIANTS
  LauncherTypeOK
  StopMeansGone
  NoneEscapes
  ClientFollowsSettings
  EnvironmentRespected
  AllOkMeansWhole
  InstancesArrive
  VenvsFollow
PROPERTIES
  StrangersSpared
  StaysBuildable
  SavesKeepOthers
  RepairsHeal
  CopiedIsThere
  StoppedStaysOff
\* A call of process control, component commands and file requests are bounded
\* in number, and end.
CHECK_DEADLOCK FALSE
