------------------------------ MODULE MCBudget ------------------------------
(* The constants of Budget's run that a cfg cannot write. *)
EXTENDS Budget

\* Two models of one provider, then one of another: an exhausted account skips one model.
mcProviderOf == [m \in 1..Models |-> IF m < 3 THEN 1 ELSE 2]
=============================================================================
