SPECIFICATION ToolSpec
CONSTANTS
  Estates <- MCToolEstates
  PageSize = 2
  MaxAlerts = 4
  ChunkSize = 1
  TopN = 2
  NameGroups = 1
  NoResource = "none"
INVARIANTS
  ToolTypeOK
  VerdictTrue
  AdviceAgrees
  TrendConsistent
  SummaryTrue
CHECK_DEADLOCK FALSE
