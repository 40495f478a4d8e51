SPECIFICATION Spec
CONSTANTS
  Refs <- ScatterInLoopRefs
  Edges <- ScatterInLoopEdges
  Kind <- ScatterInLoopKind
  JoinAll = {}
  Streams <- ScatterStreams
  RunIf = {}
  CanFail = {}
  CanFailPlatform = {}
  Sizes <- TwoItems
  Intervals = {}
  RaiseErrors = {}
  KeepErrors = {}
  DropNulls = {}
  MaxIterations <- ScatterInLoopMax
  IterationCap = 3
  Externalize = TRUE
  MaxPending = 2
  SpawnYieldEvery = 2
INVARIANTS ScattersResume
