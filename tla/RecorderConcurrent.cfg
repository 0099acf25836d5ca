CONSTANTS
  r1 = r1
  r2 = r2
  Req = {r1, r2}
  Id = {1, 2}
  MaxRuns = 1
  TornWrites = FALSE
SPECIFICATION FairSpec
CHECK_DEADLOCK FALSE
INVARIANTS TypeOK MarkersCorrelate RecordedOnce OwnIdsMasked RealTimeOrder
PROPERTIES CallsEnd
