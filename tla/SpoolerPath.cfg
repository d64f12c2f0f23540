\* Every graph of four types with up to five conversions, declared in every
\* order before, between and after searches, and every search in it; what
\* searches leave in result is kept up to three entries.
CONSTANTS
  MaxTypes = 4
  MaxConvs = 5
  ResultSize = 3
SPECIFICATION Spec
INVARIANTS
  ResultIsChain
  FoundIfAhead
