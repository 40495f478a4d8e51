SPECIFICATION FairSpec
CONSTANTS
  Refs <- LoopsRefs
  Edges <- LoopsEdges
  Kind <- LoopsKind
  JoinAll = {}
  Streams <- ScatterStreams
  RunIf = {"a", "y"}
  CanFail = {"e"}
  CanFailPlatform = {}
  Sizes <- TwoItems
  Intervals = {}
  RaiseErrors = {}
  KeepErrors = {"g"}
  DropNulls = {}
  MaxIterations <- LoopsMax
  IterationCap = 3
  Externalize = FALSE
  MaxPending = 2
  SpawnYieldEvery = 2
INVARIANTS IndegreeAccounting LoopIterationsDisjoint LoopIterationFresh LoopBounded ScattersResume
PROPERTIES Termination
