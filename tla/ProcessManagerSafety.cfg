\* Two instances, three requests at a time, hang-ups and failing kills included.
SPECIFICATION Spec
CONSTANTS
  Instances = {i1, i2}
  Requests = {r1, r2, r3}
  Pids = {p1, p2, p3}
  NoInstance = NoInstance
  NoPid = NoPid
  ClientsHangUp = TRUE
  KillsMayFail = TRUE
SYMMETRY Symmetry
INVARIANTS
  TypeOK
  OneHolder
  HolderKeepsSlot
  NoHollowEntry
  DrainIsFinal
PROPERTIES
  StoppedIsGone
  ForgottenIsDead
  ImplementsLifecycle
