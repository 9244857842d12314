\* The hourly task and the manual command, faults, liveness.
SPECIFICATION FairSpec
CONSTANTS
  MaxCommit = 3
  Attempts = {a1, a2}
  AttemptOf <- mcAttemptOf3
  Unpostable = {1}
  Tasks = {task}
  Hands = {hand}
  MaxFaults = 1
  a1 = a1
  a2 = a2
  task = task
  hand = hand
INVARIANTS OneCommentPerCommit OneIssuePerAttempt RecordedIsPosted
PROPERTY PostedOrOld
CHECK_DEADLOCK FALSE
