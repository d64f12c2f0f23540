\* Two types, two printers and the limit, two jobs.
CONSTANTS
  MaxTypes = 2
  MAX_PRINTERS = 3
  MaxJobs = 2
  MaxNamed = 2
SPECIFICATION Spec
CHECK_DEADLOCK FALSE
INVARIANTS
  TypeOK
  QueuedBlocked
  BusyAgrees
  HandlerNeverWaits
  ScanDepth
PROPERTIES
  PrintedOnce
