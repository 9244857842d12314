---------------------------- MODULE GradeLedger ----------------------------
(***************************************************************************)
(* What grading promises about the record of one (student, assignment),    *)
(* however many processes grade and wherever they stop: the record only    *)
(* grows, a piece of evidence or a freeze never stands without the test    *)
(* rows of its commit, and a freeze is for ever.                           *)
(***************************************************************************)
CONSTANTS Commits, Attempts, NoCommit

VARIABLES
  rows,      \* the <<attempt, commit>> pairs with test_results rows
  evidence,  \* the evidence traces
  frozen     \* the commit each attempt froze on, or NoCommit

Backed(E, F, R) ==
  /\ \A t \in E : <<t.attempt, t.commit>> \in R
  /\ \A a \in Attempts : F[a] # NoCommit => <<a, F[a]>> \in R

Init == /\ rows = {} /\ evidence = {}
        /\ frozen = [a \in Attempts |-> NoCommit]

\* One committed transaction: the gradings it holds appear together.
Record == /\ rows \subseteq rows'
          /\ evidence \subseteq evidence'
          /\ \A a \in Attempts : frozen[a] # NoCommit => frozen'[a] = frozen[a]
          /\ Backed(evidence', frozen', rows')

Spec == Init /\ [][Record]_<<rows, evidence, frozen>>
=============================================================================
