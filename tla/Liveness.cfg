\* One instance and clients that wait for their answers; the snapshots a page
\* shows.  No symmetry.
SPECIFICATION LivenessSpec
CONSTANTS
  Instances = {i1}
  Requests = {r1, r2}
  Pids = {p1, p2, p3}
  NoInstance = NoInstance
  NoPid = NoPid
  ClientsHangUp = FALSE
  KillsMayFail = TRUE
  Loads = {q1, q2}
  LogEntry = LogEntry
  EventCap = 1
  BusCap = 2
  MaxMan = 1
  MaxRun = 2
  MaxSeq = 2
INVARIANTS
  SyncTypeOK
  CurrentWhenQuiet
PROPERTIES
  AnswersFollowPushes
  RuntimeConverges
  TransientResolves
  DeadIsForgotten
  ShutdownQuiesces
