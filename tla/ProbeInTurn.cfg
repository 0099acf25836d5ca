CONSTANTS
  p1 = p1
  p2 = p2
  Proc = {p1, p2}
  Fields = 3
  Unnameable = {2}
  Crashes = TRUE
  None = None
  Torn = Torn
SPECIFICATION FairSpec
CHECK_DEADLOCK FALSE
INVARIANTS TypeOK NeverRefusedLate
PROPERTIES EvidenceAlongside ExitTellsTruth EveryProbeEnds
