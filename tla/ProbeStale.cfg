CONSTANTS
  p1 = p1
  p2 = p2
  Proc = {p1, p2}
  Fields = 2
  Unnameable = {}
  Crashes = FALSE
  None = None
  Torn = Torn
SPECIFICATION Spec
CHECK_DEADLOCK FALSE
INVARIANTS TreesAgreeWithMatrix
