SPECIFICATION Spec
CONSTANTS
  PointerHigh <- High
  NameText <- MCNameText
  MinObjects = 16
  SampleTarget = 24
  MinSamples = 8
  MinClasses = 10
  PropertyTypes <- MCPropertyTypes
  MinStructs = 4
  MinPropertyClasses = 8
  MinPropertiesSeen = 8
  MinProperties = 16
  MinFieldNames = 4
  MinFlagWords = 2
  MinSlotSamples = 2
  DefaultNames <- MCDefaultNames
  MinClassSamples = 10
  MinInterfaceClasses = 1
  MinFunctions = 8
  MinFlagValues = 8
  MinEnums = 2
  Image <- MCImage
  Later <- MCLater
  FirstGames <- MCFirst
  Truth <- MCTruth
  Described <- MCDescribed
  DataBlock = 800
  DataSize = 40
  CodeBlocks <- MCCode
  Hint <- MCHint
INVARIANTS
  LayoutIsTrue NothingMissed DumpTellsTruth
