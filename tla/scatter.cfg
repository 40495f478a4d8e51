SPECIFICATION FairSpec
CONSTANTS
  Refs <- ScatterRefs
  Edges <- ScatterEdges
  Kind <- ScatterKind
  JoinAll = {"d"}
  Streams <- ScatterStreams
  RunIf = {"x", "c"}
  CanFail = {"x", "y", "b", "c"}
  CanFailPlatform = {"b"}
  Sizes <- ScatterSizes
  Intervals = {"s"}
  RaiseErrors = {"g"}
  KeepErrors = {}
  DropNulls = {}
  MaxIterations <- None
  IterationCap = 3
  Externalize = TRUE
  MaxPending = 2
  SpawnYieldEvery = 2
INVARIANTS TypeOK IndegreeAccounting SingleDispatch StaysReachable NoStrandedTask StreamErrorsReported GatherBarrier PendingCapped
PROPERTIES RunsOnce Termination
