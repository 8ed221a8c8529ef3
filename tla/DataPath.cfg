\* The simulated paths run at scaled-down windows; the back ends with batches
\* of two; the streams, files and probes just large enough to wrap, split,
\* batch and retry.
SPECIFICATION DataPathSpec
CONSTANTS
  MTU = 120
  MSS = 141
  InitialPkts = 8
  SmallPkts = 2
  StartupMaxPkts = 64
  CeilingFloorPkts = 16
  CeilingHardPkts = 64
  ProbeRttInterval = 300
  ProbeRttDuration = 60
  MeasuringRounds = 3
  ProbeIntervalRounds = 3
  AckEvery = 4
  MaxTime = 12000
  Paths <- MCPaths
  Profiles <- MCProfiles
  Seg = 2
  BatchCapacity = 2
  MaxPackets = 3
  NumWorkers = 2
  WouldBlockMaxAttempts = 1
  GroSlots = 2
  FrameCount = 4
  TxSize = 2
  CompSize = 2
  XdpBatchCapacity = 3
  IndexMod = 4
  MaxFile = 7
  PayloadSizes = {2, 3}
  Budgets = {2, 8, 14, 20}
  MaxZeroRuns = 2
  SetupWindow = 3
  ProbeCount = 3
  ProbeInterval = 50
  ProbeReplyTimeout = 2000
  BatchEpsilon = 10
  Rtts = {3, 30, 250, 2600}
  Delays = {0, 15, 50}
  StreamCounts = {1, 2}
  StreamLen = 7
  Granularity = 2
  BacklogLimit = 4
  EstHorizon = 3
  EstRates = {60000, 120000}
  EstPackets = {1, 2}
INVARIANTS
  TransfersComplete SignalsHonest 
  BatchesExact FramesConserved SparseFaithful BaseIsShortest
  BacklogBounded
PROPERTIES
   PhasesBounded
