CONSTANTS
  c1 = c1  c2 = c2  c3 = c3  g1 = g1  g2 = g2
  None = None  Absent = Absent  Blank = Blank
  Calls = {c1}
  Games = {g1}
  Target <- OneGame
  Waits = {c1}
  Headless = {c1}
  Quiet = {}
  Unreal = {}
  OneAtATime = TRUE
  MayStall = FALSE
  MayTimeOut = FALSE
  MayFailToWrite = FALSE
SPECIFICATION Spec
PROPERTIES GaveUpMeansFailed
CHECK_DEADLOCK FALSE
