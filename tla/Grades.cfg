\* Normalizations with two sections, and all orders of up to five students.
CONSTANTS
  Courses <- MCCourses
  Argvs <- MCArgvs
SPECIFICATION Spec
CHECK_DEADLOCK FALSE
INVARIANTS
  StatsExact
  RosterComplete
  ReportsSorted
  NormMeans
  ReportsSound
PROPERTY SortAdvances
