CONSTANTS
  p1 = p1
  p2 = p2
  p3 = p3
  chat = chat
  tools = tools
  Proc = {p1, p2, p3}
  Name = {chat, tools}
  Options <- EveryUse
  Overlap = FALSE
  Crashes = TRUE
SPECIFICATION Spec
SYMMETRY Symmetry
CHECK_DEADLOCK FALSE
INVARIANTS TypeOK ReportedTurnsKept
PROPERTIES NeverClobbered AppendFindsFirstTurn ExitTellsTruth
