CONSTANTS
  Commits = {1, 2, 3}
  Checks = {1, 2}
  Results <- AnyResult
  Template = {1}
  Unreadable = {3}
  Arm <- FirstControl
  Settings <- AnySetting
  Criteria = {"correctness", "approach"}
  Replies <- AnyReply
  Verdicts <- AnyVerdict
  RunCap = 3
  MaxFaults = 2
SPECIFICATION Spec
INVARIANT OneTreatment
PROPERTIES OptOutHonoured GradedAnyway
