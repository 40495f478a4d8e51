SPECIFICATION MCSpec
CONSTANTS
  NCases = 2
  Consumer = {a, b}
  EventType = {"opened", "closed"}
  Definitions <- MCDefinitions
  BackfillBatch = 1
  SyncAttempts = 2
  InlineAttempts = 2
  MaxEvents = 2
  MaxCopies = 4
  None = None
INVARIANTS TypeOK NoLostChange
PROPERTIES EventuallySynced
CHECK_DEADLOCK FALSE
