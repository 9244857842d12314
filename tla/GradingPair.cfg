\* The cycle and the command line at once.
SPECIFICATION Spec
CONSTANTS
  MaxCommit = 2
  CommitTime <- mcTime2
  MaxAttempt = 2
  Gaps <- mcGaps
  Hidden <- mcHidden
  Eval <- mcEval22
  Unstorable <- none
  Lost <- none
  Cycle = {cycle}
  Cli = {cli}
  Forced = FALSE
  MaxFaults = 2
  cycle = cycle
  cli = cli
CHECK_DEADLOCK FALSE
INVARIANTS TypeOK EvidenceBacked OneTestTracePerCommit OneAttemptPerCommit
PROPERTIES FreezeIsFinal MeasuresAreFinal KeepsLedger
