\* Two processes, every call.
SPECIFICATION Spec
CONSTANTS
  Actors = {a1, a2}
  Concepts <- mcConcept1
  Gaps <- mcGaps1
  ConceptOf <- mcConceptOf
  Calls <- mcCalls
  MaxTrace = 3
  MaxTx = 2
  a1 = a1
  a2 = a2
INVARIANTS TypeOK BeliefLogged
PROPERTIES SerialKeeps RebuildHeals
CHECK_DEADLOCK FALSE
SYMMETRY mcActors
