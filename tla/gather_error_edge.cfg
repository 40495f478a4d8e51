SPECIFICATION Spec
CONSTANTS
  Refs <- ForkRefs
  Edges <- ForkEdges
  Kind <- ForkKind
  JoinAll = {}
  Streams <- ScatterStreams
  RunIf = {}
  CanFail = {}
  CanFailPlatform = {}
  Sizes <- ScatterSizes
  Intervals = {}
  RaiseErrors = {}
  KeepErrors = {}
  DropNulls = {}
  MaxIterations <- None
  IterationCap = 3
  Externalize = TRUE
  MaxPending = 2
  SpawnYieldEvery = 2
INVARIANTS ErrorPathNeedsFailure
