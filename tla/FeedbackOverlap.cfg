\* The manual command while the hourly task is at work, without any fault.
SPECIFICATION Spec
CONSTANTS
  MaxCommit = 2
  Attempts = {a1}
  AttemptOf <- mcAttemptOf1
  Unpostable = {}
  Tasks = {task}
  Hands = {hand}
  MaxFaults = 0
  a1 = a1
  a2 = a2
  task = task
  hand = hand
INVARIANT OneCommentEver
CHECK_DEADLOCK FALSE
