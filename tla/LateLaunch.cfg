\* Kills work, clients wait: a launch that finishes around the drain.
SPECIFICATION Spec
CONSTANTS
  Instances = {i1}
  Requests = {r1, r2}
  Pids = {p1, p2, p3}
  NoInstance = NoInstance
  NoPid = NoPid
  ClientsHangUp = FALSE
  KillsMayFail = FALSE
INVARIANTS
  LateLaunchCleanedUp
CHECK_DEADLOCK FALSE
