\* A removal while an upgrade or a restore is on its way.
SPECIFICATION Spec
CONSTANTS
  Ids = {i1}
  Versions = {v1, v2}
  Requests = {r1, r2}
  NoVersion = NoVersion
  NoId = NoId
  NoRequest = NoRequest
  OneClient = TRUE
INVARIANTS
  InUseIsInstalled
