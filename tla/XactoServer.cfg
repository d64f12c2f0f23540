\* Two connections on two descriptors: both served at once, or the second on
\* the descriptor the first has closed.
CONSTANTS
  Clients = {c1, c2}
  FD_SETSIZE = 2
SPECIFICATION FairSpec
CHECK_DEADLOCK FALSE
INVARIANTS
  TypeOK
  RegistryExact
  NoLostWakeup
  OutcomeTold
PROPERTIES
  ShutdownEnds
