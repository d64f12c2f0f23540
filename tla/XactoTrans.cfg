\* Three connections: chains and diamonds of dependencies, a duplicate
\* entry, and a third thread collecting while two commit.
CONSTANTS
  N = 3
  MaxVersions = 1
  Refusable = {}
SPECIFICATION Spec
CHECK_DEADLOCK FALSE
INVARIANTS
  TypeOK
  CommitSafe
  NoFatalAbort
  RefcntCovers
  DependsNearlyUnique
PROPERTIES
  StatusStable
