------------------------------ MODULE MCRules ------------------------------
(* Every master of up to five lines, and longer ones whose lines repeat:    *)
(* with one, two touching and two separate gaps, instructions that are the *)
(* same, text that raises as a stub does, bodies that begin with a blank   *)
(* line; three commits, the first the template push, and two gaps with a   *)
(* concept in common.                                                      *)
EXTENDS Rules, TLC

Gap(id, concepts, defects) ==
  [kind |-> "gap", id |-> id, concepts |-> concepts, defects |-> defects]
Reads(kind, indent, words) == [kind |-> kind, indent |-> indent, words |-> words]
A == Gap("a", {1}, {})
B == Gap("b", {1, 2}, {})
I == Reads("instruct", 0, <<"# @instruct:", "do">>)
J == Reads("instruct", 4, <<"# @instruct:", "try">>)
X == Reads("comment", 4, <<"#", "more">>)
C == Reads("code", 4, <<"c">>)
D == Reads("code", 0, <<"d">>)
Z == Reads("code", 0, <<>>)
R == Reads("code", 4, <<"raise NotImplementedError()">>)
E == [kind |-> "endgap"]
Bad == {Gap("a", {3}, {}), Gap("a", {1}, {"no_id", "bad_difficulty"})}
Long == {<<C, A, I, X, C, C, E, C, B, I, C, E>>,
         <<A, I, C, E, B, I, X, X, C, E, C, C>>,
         <<C, A, I, C, X, I, C, E, X, I, C>>,
         <<A, I, C, B, I, C, E, E>>, <<D, A, I, Z, C, E, B, J, Z, Z, E>>}

ToEdit == {<<D, A, I, C, E, Z, Z, D>>,
           <<A, I, C, E, Z, B, J, C, E, Z>>,
           <<A, I, C, E, B, J, C, E, Z>>,
           <<Z, A, I, C, E, Z, B, I, C, E>>,
           <<B, J, C, E, Z, R>>, <<B, J, C, E, R>>,
           <<B, J, C, E, C, C, A, I, C, E>>}
AllMasters ==
  UNION {[1 .. n -> {A, B, I, X, C, Z, E} \cup Bad] : n \in 0 .. 5} \cup Long \cup ToEdit
Blanks == {<<D, A, I, Z, C, E>>, <<D, A, I, Z, E>>, <<D, A, I, C, E>>}

NoMaster == {<<>>}

New(w)  == [indent |-> 4, words |-> <<w>>]
Writing == {New("n"), Empty, Text(R)}
Answers == {<<New("n")>>, <<New("n"), Empty>>, <<New("n"), New("m")>>}
Levels == {[mastery |-> <<30, 60>>, n_obs |-> <<0, 0>>],
           [mastery |-> <<30, 60>>, n_obs |-> <<2, 3>>],
           [mastery |-> <<40, 40>>, n_obs |-> <<3, 4>>]}

Dates == <<1, 2, 3>>
Gap2 == <<"g1", "g2", "none">>
Tags == [g \in {"g1", "g2"} |-> IF g = "g1" THEN {1} ELSE {1, 2}]
Result(status, failed) == [status |-> status, failed |-> failed]
AnyOutcome == {Result("ok", {}), Result("ok", {1}), Result("ok", {2, 3}),
               Result("collection_error", {1, 2, 3}), Result("tooling", {})}
=============================================================================
