CONSTANTS
  Commits = {1, 2}
  Assignments = {"a"}
  WithPath = {"a"}
  Touches <- AllOfIt
  Log <- PassingLogs
  Slow = {1, 2}
  Collectors = {"hourly", "operator"}
  Hourly = "hourly"
  Operator = "operator"
  MaxFaults = 1
  Message <- InitialThenWork
  Big = {}
  Tooling = {}
  Outcome <- StubThenPass
  AttemptNo = 2
  CohortPassed = FALSE
  FirstVersion = 8
SPECIFICATION Spec
PROPERTY ConclusionRefreshed
