\* A launch whose child can be identified once, and not when it is given up.
SPECIFICATION ControlSpec
CONSTANTS
  Pids = {"p1"}
  MaxGen = 1
  MaxTry = 2
INVARIANTS
  FailuresCleanUp
CHECK_DEADLOCK FALSE
