------------------------------ MODULE MCCycle ------------------------------
(* A repository with one assignment.  The commits come in pairs: for the   *)
(* passing run a student commit whose CI fails and a synchronisation of    *)
(* the template whose log is empty; for the other an attempt-2 repository  *)
(* with its template push and a student commit.                            *)
EXTENDS Cycle

AllOfIt == [c \in Commits |-> {"a"}]
OnlyOne == [c \in Commits |-> IF c = 1 THEN {"a"} ELSE {}]

FirstFails  == [c \in Commits |-> IF c = 1 THEN "rule" ELSE "passed"]
PassingLogs == [c \in Commits |-> "passed"]

WorkThenSync    == [c \in Commits |-> IF c = 1 THEN "work" ELSE "sync"]
InitialThenWork == [c \in Commits |-> IF c = 1 THEN "initial" ELSE "work"]

Passing      == [c \in Commits |-> "pass"]
StubThenPass == [c \in Commits |-> IF c = 1 THEN "stub" ELSE "pass"]
=============================================================================
