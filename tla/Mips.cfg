\* Every pair of instruction forms through both directions.
CONSTANTS
  Programs <- MCPrograms
  Argvs <- MCArgvs
  Skips <- MCSkips
SPECIFICATION Spec
CHECK_DEADLOCK FALSE
INVARIANTS
  OptionsMean
  Reassembled
  RefusalExplained
