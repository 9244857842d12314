------------------------------ MODULE MCGrading ------------------------------
(* Instances of Grading for TLC.                                            *)
EXTENDS Grading, Sequences, TLC

CONSTANTS cycle, cli

g1 == 1
g2 == 2

Ok(attempted, full) == [status |-> "ok", attempted |-> attempted,
                        rows |-> TRUE, full |-> full]
NotOk(status) == [status |-> status, attempted |-> {}, rows |-> TRUE, full |-> FALSE]
Nothing == [status |-> "ok", attempted |-> {}, rows |-> FALSE, full |-> FALSE]

mcGaps   == {g1, g2}
mcHidden == [a \in 1..MaxAttempt |-> IF a = 1 THEN {g1, g2} ELSE {g2}]
mcTime2 == <<1, 2>>
mcTime3  == <<1, 2, 3>>
mcTime4 == <<1, 2, 3, 4>>
none == {}

\* One process: a stub, a partial and a passing commit, a timeout, a file that
\* does not load, a broken tool.
mcEval ==
  <<{Ok({}, FALSE), NotOk("timeout")},
    {Ok({g1}, FALSE), Ok({g1, g2}, TRUE), NotOk("tooling")},
    {Ok({g1, g2}, TRUE), NotOk("collection_error")}>>
\* Two processes: fewer outcomes, with one that leaves no row.
mcEval2 ==
  <<{Ok({g1, g2}, TRUE), Nothing, NotOk("timeout")}, {Ok({g1, g2}, TRUE), NotOk("tooling")}>>
\* What starves: a commit that is lost, one that may leave no row, one that is
\* refused (whatever it gives), one more.
mcEval3 ==
  <<{Ok({g1}, FALSE)}, {Ok({g1}, FALSE), Ok({g1, g2}, TRUE), Nothing},
    {Ok({g2}, FALSE)}, {Ok({g1, g2}, TRUE)}>>
mcEval1 == SubSeq(mcEval, 1, MaxCommit)
mcEval22 == SubSeq(mcEval2, 1, MaxCommit)
==============================================================================
