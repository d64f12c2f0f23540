\* Two connections: one transaction waits for the other.
CONSTANTS
  N = 2
  MaxVersions = 1
  Refusable = {0, 1}
SPECIFICATION FairSpec
CHECK_DEADLOCK FALSE
PROPERTY WaiterReleased
