\* An extraction that breaks off after main.py.
SPECIFICATION Spec
CONSTANTS
  db = db
  rest = rest
  Versions = {v1, v2}
  Items <- MCItems
  Scopes <- MCScopes
  BackupIds = {b1, b2}
  NoVersion = NoVersion
  NoBackup = NoBackup
  UsersDeletePending = FALSE
INVARIANTS
  HealedBeforeLaunch
