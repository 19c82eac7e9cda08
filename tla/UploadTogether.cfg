CONSTANTS
  r1 = r1  r2 = r2  f1 = f1  f2 = f2  l1 = l1  l2 = l2
  stem1 = stem1  stem2 = stem2  None = None
  Runs = {r1, r2}
  Files = {f1, f2}
  FileOf <- TwoDumps
  LabelOf <- TwoLabels
  Unchecked = {r1}
  Packed = {f2}
  StemOf <- OwnStems
  Rewritten = {f1}
  MaxVersion = 2
  Torn = {3, 4}
  SizeOf <- Sizes
  Chunks = {1, 2}
  Ids <- SixIds
  MaxAttempts = 2
  Faults = {"request", "reply", "refuse", "kill", "tear", "cancel", "expire", "chunk"}
  MaxFaults = 1
  OneAtATime = FALSE
  RewriteAnyTime = TRUE
SPECIFICATION Spec
INVARIANTS OkIsPublished PublishedWhole
CHECK_DEADLOCK FALSE
