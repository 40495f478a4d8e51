SPECIFICATION Spec
CONSTANTS
  Tool <- MCTool
  Submitter = {a, b}
  Submissions <- MCSubmissions
  MaxFaults = 0
  Run = Run
  Newer = Newer
  None = None
INVARIANT ExecutedAsRecorded
CHECK_DEADLOCK FALSE
