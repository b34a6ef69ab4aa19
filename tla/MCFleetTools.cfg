SPECIFICATION ToolSpec
CONSTANTS
  Resources <- MCResources
  Kind <- MCKind
  NameOf <- MCNameOf
  PartsOf <- MCPartsOf
  ContainerKinds <- MCContainerKinds
  Sites <- MCSites
  NoLocation = NoLocation
  Nothing = Nothing
  Cases <- MCToolCases
  MaxDepth = 3
  PageSize = 2
  SearchSize = 2
  MaxResources = 6
  ChunkSize = 2
INVARIANTS
  ToolTypeOK
  WalkSound
  WalkComplete
  ListComplete
  PlacedFits
  BestHost
  RankedTruly
PROPERTIES
  ToolEnds
CHECK_DEADLOCK FALSE
