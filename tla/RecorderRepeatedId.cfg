CONSTANTS
  r1 = r1
  r2 = r2
  Req = {r1, r2}
  Id = {1}
  MaxRuns = 1
  TornWrites = FALSE
SPECIFICATION Spec
CHECK_DEADLOCK FALSE
INVARIANTS RepeatedIdMasked
