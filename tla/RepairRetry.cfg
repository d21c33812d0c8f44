\* A repair that fails and is tried again.
SPECIFICATION Spec
CONSTANTS
  db = db
  rest = rest
  Versions = {v1, v2}
  Items <- MCItems
  Scopes <- MCScopes
  BackupIds = {b1, b2}
  NoVersion = NoVersion
  NoBackup = NoBackup
  UsersDeletePending = FALSE
PROPERTIES
  KeptUntilBack
