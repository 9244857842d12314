------------------------------ MODULE MCMemory ------------------------------
(* Instances of Memory for TLC.                                             *)
EXTENDS Memory, TLC

CONSTANTS a1, a2

mcConcept1 == {"loops"}
mcConcepts == {"loops", "files"}
mcGaps1 == {1}
mcGaps == {1, 2}
mcConceptOf  == [g \in Gaps |-> IF g = 1 THEN "loops" ELSE "files"]
mcSameConcept == [g \in Gaps |-> "loops"]
mcCalls == {"log_trace", "record_mastery_observation", "update_mastery",
  "apply_recurrence_rule", "open_weakness", "link_intervention",
  "rebuild_from_traces", "rebuild_mastery_from_traces"}
mcGrading == {"record_mastery_observation", "update_mastery"}
mcActors == Permutations(Actors)
=============================================================================
