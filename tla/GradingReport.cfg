\* One commit whose rows the database refuses, in the middle of a stage.
SPECIFICATION Spec
CONSTANTS
  MaxCommit = 3
  CommitTime <- mcTime3
  MaxAttempt = 1
  Gaps <- mcGaps
  Hidden <- mcHidden
  Eval <- mcEval1
  Unstorable = {2}
  Lost <- none
  Cycle = {cycle}
  Cli = {}
  Forced = FALSE
  MaxFaults = 0
  cycle = cycle
  cli = cli
CHECK_DEADLOCK FALSE
INVARIANT ReportedIsRecorded
