CONSTANTS
  Spelling <- MCSpelling
  Numbers <- MCNumbers
  kMaxJsonDepth = 10
  kSchemaVersion = 4
  kAllTypeKinds <- MCKinds
  Refused = Refused
  Missing = Missing
  kPrefix = 154
  LeafOf <- MCLeafOf
  StemOf <- MCStemOf
  Sanitized <- MCSanitized
  ENames <- MCENames
  Mangled <- MCMangled
  Alphabetical <- MCAlphabetical
  Carries <- MCCarries
  StemOfProcess <- MCStemOfProcess
  Truncated <- MCTruncated
  kMaxArrayDim = 255
  kMaxPropertyCount = 65535
  kMaxEnumValues = 3
  kMaxTypeDepth = 2
  PyNames <- MCPyNames
  PartsOf <- MCPartsOf
  AssemblyOf <- MCAssemblyOf
  CsNames <- MCCsNames
  ElementPath <- MCElementPath
  Parameters <- MCParameters
  Sentences <- MCSentences
  FileStems <- MCFileStems
  FolderNames <- MCFolderNames
  Folded <- MCFolded
  Agents <- MCAgents
  Cases <- MCCases
SPECIFICATION WorkbenchSpec
INVARIANTS SavedReadsBack DatabaseIsTrue NodesStayInPlace MappingReadsBack AgentTouchesItsMember StubsNameTypes SourcesTellAll
CHECK_DEADLOCK FALSE
