SPECIFICATION PartsSpec
CONSTANTS
  Sample = {0, 1, 3}
  Short = 4
  Word = 32
  None = none
  Sources = {"a", "b"}
  Assets = {"b"}
  Flavors = {"dev", "prod"}
  Single = FALSE
  PerSecond = 2
  MaxInstant = 3
  MaxTrouble = 2
  m1 = m1
  m2 = m2
  Null = none
  Threads = {w, t}
  Main = w
  Blocks = 2
  Unit = 2
  Elements = 1
  Growth = 1
  Lengths = {0, 3, 5}
  Ids = {1}
  MaxLive = 2
  MaxLarge = 1
  Gains <- MCGains
  Errors <- MCErrors
  Half = 16
  Divider = 4
  MaxCalls = 5
  Chars = {32, 43, 44, 45, 48, 49, 50, 56, 120}
  MaxLen = 4
  IntMax = 127
  Messages <- MCMessages
  Kinds <- MCKinds
  Datas <- MCDatas
  MaxParts = 2
  Chunk = 3
  MaxReads = 2
  CsvFields <- MCFields
  MaxFields = 2
  BlkSize = 2
  MaxFailures = 1
  Requests <- MCRequests
  Lost <- MCLost
  CallRows <- MCCallRows
  MaxRows = 2
  Size = 4
  Room = 2
INVARIANTS
  TotalIsSum NumbersAreRight
  ConfigurationHolds BuildsAreTrue BodyArrives RecordsArrive MemoryIsRight
PROPERTIES
  RecomputedSpec AverageSpec
  LoopsEnd
CHECK_DEADLOCK FALSE
