\* Data files and included files, well formed and malformed.
CONSTANTS
  Roots <- MCRoots
  Includes <- MCIncludes
  MaxFiles = 4
SPECIFICATION Spec
CHECK_DEADLOCK FALSE
INVARIANTS
  NothingSkipped
  CollateReadsBack
