CONSTANTS
  g1 = g1  g2 = g2
  None = None  Absent = Absent  Blank = Blank  Nothing = Nothing  Unnamed = Unnamed
  Calls <- BatchCalls
  Games = {g1, g2}
  Target <- BatchTarget
  Waits <- BatchCalls
  Headless <- BatchCalls
  Quiet = {}
  Unreal = {}
  OneAtATime = TRUE
  MayStall = FALSE
  MayTimeOut = TRUE
  MayFailToWrite = TRUE
  Found <- OnTheMachine
  GameOf <- Processes
  Wrapped = {g1, g2}
  Frail = {g1, g2}
SPECIFICATION BatchSpec
INVARIANTS OptionsReachTheirGame 
PROPERTIES EveryGameTried
CHECK_DEADLOCK FALSE
