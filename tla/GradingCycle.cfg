\* One grading stage over what can keep it from grading: a commit that cannot be
\* checked out, one without test rows, one the database refuses, an entry taken
\* off the roster, an older attempt left open (--force).
SPECIFICATION FairSpec
CONSTANTS
  MaxCommit = 4
  CommitTime <- mcTime4
  MaxAttempt = 2
  Gaps <- mcGaps
  Hidden <- mcHidden
  Eval <- mcEval3
  Unstorable = {3}
  Lost = {1}
  Cycle = {cycle}
  Cli = {}
  Forced = TRUE
  MaxFaults = 1
  cycle = cycle
  cli = cli
INVARIANT OneObservationPerGap
PROPERTY PendingIsGraded
CHECK_DEADLOCK FALSE
