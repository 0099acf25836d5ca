CONSTANTS
  r1 = r1
  Req = {r1}
  Id = {1, 2}
  MaxRuns = 2
  TornWrites = FALSE
SPECIFICATION Spec
CHECK_DEADLOCK FALSE
INVARIANTS FileMarkersCorrelate
