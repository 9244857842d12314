\* Two commits of one push, the first of which freezes the attempt.
SPECIFICATION Spec
CONSTANTS
  MaxCommit = 3
  CommitTime <- mcTime3
  MaxAttempt = 1
  Gaps <- mcGaps
  Hidden <- mcHidden
  Eval <- mcEval1
  Unstorable <- none
  Lost <- none
  Cycle = {cycle}
  Cli = {}
  Forced = FALSE
  MaxFaults = 0
  cycle = cycle
  cli = cli
CHECK_DEADLOCK FALSE
INVARIANT LaterPushNotGraded
