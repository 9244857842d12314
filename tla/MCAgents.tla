------------------------------ MODULE MCAgents ------------------------------
(* A template push and two commits, two checks.  A run starts with the     *)
(* agents off, with the first version, with the second one and the         *)
(* experiment, without a ledger, or with a roster entry nobody             *)
(* understands.                                                            *)
EXTENDS Agents

Setting(llm, code, v2, ab, ai_notes) ==
  [llm |-> llm, code |-> code, v2 |-> v2, ab |-> ab, provider |-> TRUE,
   ledger |-> TRUE, ai_notes |-> ai_notes]
Agents2 == Setting(TRUE, TRUE, TRUE, TRUE, "true")
AnySetting == {Setting(FALSE, FALSE, FALSE, FALSE, "absent"),
               Setting(TRUE, TRUE, FALSE, FALSE, "absent"),
               Agents2, [Agents2 EXCEPT !.ledger = FALSE],
               Setting(TRUE, TRUE, TRUE, TRUE, "off"),
               Setting(FALSE, TRUE, FALSE, FALSE, "absent")}
Experiment == {Setting(TRUE, TRUE, TRUE, TRUE, "absent")}

Graded(failed, stub) == [status |-> "ok", failed |-> failed, stub |-> stub]
TimedOut == [status |-> "timeout", failed |-> {1}, stub |-> {}]
\* The first is the template push; then the student's commits.
AnyResult == {<<Graded({1, 2}, {1, 2}), x, y>> :
                x \in {Graded({}, {}), Graded({1, 2}, {1, 2}), Graded({1, 2}, {1})},
                y \in {Graded({}, {}), Graded({2}, {}), TimedOut}}
SecondPasses == {<<Graded({1}, {}), Graded({}, {})>>}

FirstControl(c) == IF c = 2 THEN "control" ELSE "llm"
AllLlm(c)       == "llm"

Reply(cites, quotes, breaks) == [cites |-> cites, quotes |-> quotes, breaks |-> breaks]
AnyReply == {Reply({1}, {"code"}, {}), Reply({2}, {"code", "invented"}, {}),
             Reply({}, {"code"}, {"leak_in_rendering"})}
AnyVerdict == {[k \in {"correctness", "approach"} |-> {"real"}],
               [k \in {"correctness", "approach"} |-> {"real", "invented"}],
               [k \in {"approach"} |-> {}]}
=============================================================================
