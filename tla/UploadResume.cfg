CONSTANTS
  r1 = r1  r2 = r2  f1 = f1  f2 = f2  l1 = l1  l2 = l2
  stem1 = stem1  stem2 = stem2  None = None
  Runs = {r1, r2}
  Files = {f1}
  FileOf <- OneDump
  LabelOf <- OneLabel
  Unchecked = {}
  Packed = {}
  StemOf <- OwnStems1
  Rewritten = {f1}
  MaxVersion = 2
  Torn = {3}
  SizeOf <- Sizes
  Chunks = {1, 2}
  Ids <- SixIds
  MaxAttempts = 2
  Faults = {"request", "reply", "refuse", "kill", "cancel", "expire"}
  MaxFaults = 2
  OneAtATime = TRUE
  RewriteAnyTime = FALSE
SPECIFICATION FairSpec
INVARIANTS RememberedIsPublished
PROPERTIES StartsOverOnlyIfGone EventuallyPublished
CHECK_DEADLOCK FALSE
