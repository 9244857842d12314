----------------------------- MODULE MCFeedback -----------------------------
(* Instances of Feedback for TLC.                                           *)
EXTENDS Feedback, TLC

CONSTANTS a1, a2, task, hand

mcAttemptOf1 == [c \in Commits |-> a1]
mcAttemptOf3 == [c \in Commits |-> IF c = 3 THEN a2 ELSE a1]
=============================================================================
