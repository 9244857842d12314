CONSTANTS
  Commits = {1, 2}
  Assignments = {"a"}
  WithPath = {"a"}
  Touches <- OnlyOne
  Log <- FirstFails
  Slow = {1}
  Collectors = {"hourly", "operator"}
  Hourly = "hourly"
  Operator = "operator"
  MaxFaults = 1
  Message <- WorkThenSync
  Big = {}
  Tooling = {}
  Outcome <- Passing
  AttemptNo = 1
  CohortPassed = FALSE
  FirstVersion = 7
SPECIFICATION Spec
PROPERTIES ClassKept CommitCounted FailureSettles RefHeals
