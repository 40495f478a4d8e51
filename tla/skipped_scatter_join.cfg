SPECIFICATION Spec
CONSTANTS
  Refs <- ScatterRefs
  Edges <- ScatterEdges
  Kind <- ScatterKind
  JoinAll = {}
  Streams <- ScatterStreams
  RunIf = {"s"}
  CanFail = {}
  CanFailPlatform = {}
  Sizes <- ScatterSizes
  Intervals = {}
  RaiseErrors = {}
  KeepErrors = {}
  DropNulls = {}
  MaxIterations <- None
  IterationCap = 3
  Externalize = TRUE
  MaxPending = 2
  SpawnYieldEvery = 2
INVARIANTS NoStrandedTask
