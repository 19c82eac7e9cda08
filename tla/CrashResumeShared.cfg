CONSTANTS
  p1 = p1  p2 = p2  t1 = t1  t2 = t2  t3 = t3  g1 = g1  g2 = g2
  NoProc = NoProc
  NoKey = NoKey
  Declared <- MCDeclared
  Procs = {p1, p2}
  CacheOrders <- OneOrder
  ByHand <- ByHandSlot
  Settle = {TRUE, FALSE}
  SweepFaults = {TRUE, FALSE}
  GuardedFaults = TRUE
  MaxKills = 1
  NameFaults = {t1}
  MemberFaults = {t2, g1}
SPECIFICATION Spec
INVARIANTS OnlyFaultingListed HolderOwnsFile
