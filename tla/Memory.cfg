CONSTANTS
  AnyByte = AnyByte
  Gone = Gone
  Free = Free
  NoPage = NoPage
  Nothing = Nothing
  ChunkSize = 2
  StringChunk = 2
  PageSize = 2
  Slots = 2
  Top = 9
  Sources <- MCSources
  Reads <- MCReads
  Strings <- MCStrings
  Writes <- MCWrites
  Scans <- MCScans
  Pokes = {0, 1}
  MaxTicks = 1
  MaxWrites = 1
SPECIFICATION Spec
INVARIANTS ReadsAreOfTheirTime ScanTellsAll
