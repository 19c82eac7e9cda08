CONSTANTS
  p1 = p1  p2 = p2  t1 = t1  t2 = t2  t3 = t3  g1 = g1  g2 = g2
  NoProc = NoProc
  NoKey = NoKey
  Declared <- MCDeclared
  Procs = {p1}
  CacheOrders <- OneOrder
  ByHand <- ByHandPath
  Settle = {TRUE}
  SweepFaults = {FALSE}
  GuardedFaults = FALSE
  MaxKills = 2
  NameFaults = {t1}
  MemberFaults = {t2, g1}
SPECIFICATION FairSpec
INVARIANTS TypeOK NothingReadableLost
PROPERTIES RecordKept RuntimeFaultRecorded EveryGameDumped ResumesAsPromised
