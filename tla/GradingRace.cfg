\* The cycle and the command line grade two commits of one attempt.
SPECIFICATION Spec
CONSTANTS
  MaxCommit = 2
  CommitTime <- mcTime2
  MaxAttempt = 1
  Gaps <- mcGaps
  Hidden <- mcHidden
  Eval <- mcEval22
  Unstorable <- none
  Lost <- none
  Cycle = {cycle}
  Cli = {cli}
  Forced = FALSE
  MaxFaults = 0
  cycle = cycle
  cli = cli
CHECK_DEADLOCK FALSE
INVARIANT OneObservationPerGap
