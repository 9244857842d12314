CONSTANTS
  Masters <- AllMasters
  Concepts = {1, 2}
  Students <- Levels
  Writes <- Writing
  Solutions <- Answers
  Edits = 2
  Context = 1
  Commits = {1, 2, 3}
  Date <- Dates
  Template = {1}
  Checks = {1, 2, 3}
  GapOf <- Gap2
  ConceptsOf <- Tags
  Outcomes <- AnyOutcome
  MaxGradings = 3
SPECIFICATION Spec
INVARIANTS ReleaseIsExact JudgedAreTheirs FilledGapsAreJudged
PROPERTY HistoryStops
CHECK_DEADLOCK FALSE
