SPECIFICATION FairSpec
CONSTANTS
  Tool <- MCTool
  Submitter = {a, b}
  Submissions <- MCSubmissions
  MaxFaults = 1
  Run = Run
  Newer = Newer
  None = None
INVARIANTS TypeOK RunsOnlyApproved AnsweredOnce NoOrphanPending AcceptedIsRecorded
PROPERTIES NewerTurnKept CancelEnds
CHECK_DEADLOCK FALSE
