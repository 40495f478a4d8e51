SPECIFICATION FairSpec
CONSTANTS
  Refs <- GuardedRefs
  Edges <- GuardedEdges
  Kind <- ScatterInLoopKind
  JoinAll = {}
  Streams <- ScatterStreams
  RunIf = {"s"}
  CanFail = {"s", "x", "g", "e"}
  CanFailPlatform = {}
  Sizes <- ScatterSizes
  Intervals = {}
  RaiseErrors = {}
  KeepErrors = {}
  DropNulls = {"g"}
  MaxIterations <- ScatterInLoopMax
  IterationCap = 3
  Externalize = FALSE
  MaxPending = 3
  SpawnYieldEvery = 2
INVARIANTS SingleDispatch GatherBarrier StreamTreeWhole
PROPERTIES Termination
