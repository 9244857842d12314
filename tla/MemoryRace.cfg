\* Two processes, two gaps of one concept.
SPECIFICATION Spec
CONSTANTS
  Actors = {a1, a2}
  Concepts <- mcConcept1
  Gaps <- mcGaps
  ConceptOf <- mcSameConcept
  Calls <- mcGrading
  MaxTrace = 4
  MaxTx = 2
  a1 = a1
  a2 = a2
INVARIANT UpdatesEqualRebuild
CHECK_DEADLOCK FALSE
