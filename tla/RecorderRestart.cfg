CONSTANTS
  r1 = r1
  r2 = r2
  Req = {r1, r2}
  Id = {1}
  MaxRuns = 2
  TornWrites = TRUE
SPECIFICATION Spec
SYMMETRY Symmetry
CHECK_DEADLOCK FALSE
INVARIANTS IInv
PROPERTIES SaveKeeps LogSpec
