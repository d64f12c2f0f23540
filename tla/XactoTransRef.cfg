\* Two connections: an abort and a collection drop the last references.
CONSTANTS
  N = 2
  MaxVersions = 1
  Refusable = {0, 1}
SPECIFICATION Spec
CHECK_DEADLOCK FALSE
INVARIANT NoUndefined
