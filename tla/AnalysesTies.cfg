SPECIFICATION AnalysesSpec
CONSTANTS
  MaxClaims = 2
  MaxLength = 6
  Paths <- ThreeFiles
  PathRank <- Ordered
  ModuleKey <- Directory
  Imports <- ThreeImports
  Diffs <- SomeDiffs
  HistoryLimit = 3
  MaxHistory = 4
  EvidenceLimit = 2
  ImpactLimit = 1
  ViewLimit = 1
INVARIANT
  ViewIsDetermined
\* A text of the longest length and a history of the longest do not grow.
CHECK_DEADLOCK FALSE
