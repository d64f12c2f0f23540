\* Two connections, each thread fairly scheduled.
CONSTANTS
  N = 2
  MaxVersions = 1
  Refusable = {0, 1}
SPECIFICATION FairSpec
CHECK_DEADLOCK FALSE
PROPERTIES
  ImplementsCommitOrder
  AbortReturns
  CommitOfResolvedReturns
