CONSTANTS
  Commits = {1, 2}
  Checks = {1, 2}
  Results <- SecondPasses
  Template = {}
  Unreadable = {}
  Arm <- AllLlm
  Settings <- Experiment
  Criteria = {"correctness", "approach"}
  Replies <- AnyReply
  Verdicts <- AnyVerdict
  RunCap = 4
  MaxFaults = 1
SPECIFICATION Spec
INVARIANT ArmRecorded
