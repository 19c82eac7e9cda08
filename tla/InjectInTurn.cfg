CONSTANTS
  c1 = c1  c2 = c2  c3 = c3  g1 = g1  g2 = g2
  None = None  Absent = Absent  Blank = Blank
  Calls = {c1, c2, c3}
  Games = {g1, g2}
  Target <- ThreeCalls
  Waits = {c1, c2}
  Headless = {c1, c2}
  Quiet = {c3}
  Unreal = {g2}
  OneAtATime = TRUE
  MayStall = TRUE
  MayTimeOut = TRUE
  MayFailToWrite = TRUE
SPECIFICATION Spec
INVARIANTS OkIsOfTheCall
CHECK_DEADLOCK FALSE
