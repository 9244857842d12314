CONSTANTS
  Masters <- Blanks
  Concepts = {1, 2}
  Students <- Levels
  Writes <- Writing
  Solutions <- Answers
  Edits = 0
  Context = 1
  Commits = {1, 2, 3}
  Date <- Dates
  Template = {1}
  Checks = {1, 2, 3}
  GapOf <- Gap2
  ConceptsOf <- Tags
  Outcomes <- AnyOutcome
  MaxGradings = 0
SPECIFICATION Spec
INVARIANT StubsAreIndented
CHECK_DEADLOCK FALSE
