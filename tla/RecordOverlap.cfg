CONSTANTS
  p1 = p1
  p2 = p2
  chat = chat
  tools = tools
  Proc = {p1, p2}
  Name = {chat, tools}
  Options <- EveryUse
  Overlap = TRUE
  Crashes = TRUE
SPECIFICATION FairSpec
CHECK_DEADLOCK FALSE
PROPERTIES EveryRunEnds
