CONSTANTS
  Addrs = {a1, a2}
  Rows = {1}
  Unmapped = Unmapped  NotCached = NotCached  NotRead = NotRead  Nothing = Nothing
  MaxFailures = 1
  MaxTicks = 1
  MaxSessions = 2
  MaxFrozen = 1
SPECIFICATION FairSpec
INVARIANTS DumpIsOfItsTime
PROPERTIES OneReader FrozenHoldsWhileDrawn ClosesInTheEnd
CHECK_DEADLOCK FALSE
