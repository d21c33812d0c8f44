\* One instance, two versions, three requests and a rebuild.
SPECIFICATION Spec
CONSTANTS
  Ids = {i1}
  Versions = {v1, v2}
  Requests = {r1, r2, r3}
  NoVersion = NoVersion
  NoId = NoId
  NoRequest = NoRequest
  OneClient = TRUE
SYMMETRY Symmetry
INVARIANTS
  TypeOK
PROPERTIES
  StaysClosed
  StaysWhole
