SPECIFICATION FairSpec
CONSTANTS
  Consumer = {a, b}
  Workflow = {"e", "t"}
  Explicit <- MCExplicit
  Configured = {"e", "t"}
  Definitions <- MCDefinitions
  NMessages = 2
  MaxExtra = 1
  MaxFaults = 1
  None = None
INVARIANTS TypeOK AckedIsHandled OncePerConsumer
PROPERTIES EventuallyHandled
CHECK_DEADLOCK FALSE
