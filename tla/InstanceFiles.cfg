\* Two versions, two backups, failures at every step, hang-ups and crashes.
SPECIFICATION FairSpec
CONSTANTS
  db = db
  rest = rest
  Versions = {v1, v2}
  Items <- MCItems
  Scopes <- MCScopes
  BackupIds = {b1, b2}
  NoVersion = NoVersion
  NoBackup = NoBackup
  UsersDeletePending = FALSE
INVARIANTS
  TypeOK
  OnePending
PROPERTIES
  LostOnRequestOnly
  SavedUntilBack
  RecordedWhenComplete
  JobEnds
