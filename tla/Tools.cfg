SPECIFICATION ToolsSpec
CONSTANTS
  MaxJobs = 2
  MaxResumes = 1
  Limits = {1, 2}
  ChunkSize = 2
  FileLen = 3
  TreePaths = {"p", "q"}
  LocalNodes <- MCLocalNodes
  RemoteNodes <- MCRemoteNodes
  Filters = {{"p"}, {"p", "q"}}
  MaxRuns = 2
  MaxOutside = 1
  PatternChars = {42, 47, 63, 97}
  MaxPattern = 4
  TextChars = {47, 97, 98}
  MaxText = 3
  Senders = {1, 2}
  Size = 2
  MaxSize = 2
  MaxFaults = 1
  Invocations = {1, 2}
  Links = {"WAN"}
  PolicyRtts = {10, 30}
  Explored = {"batch_size"}
  Factors = {13}
  RecordsPerLink = 2
  MaxTransfers = 2
INVARIANTS
  RunningBounded CompleteIsWhole  FilterSelects  HistorySound

   
CHECK_DEADLOCK FALSE
