------------------------------- MODULE Rules -------------------------------
(***************************************************************************)
(* The deterministic rules the graders and agents stand on, side by side:  *)
(* what counts as the student's line (Gaps) and what the history of the    *)
(* results says (Diagnosis).  They share no state; a behaviour follows one *)
(* of them.                                                                *)
(***************************************************************************)
EXTENDS Gaps, Diagnosis

VARIABLE follows
rulesvars == <<follows, filevars, histvars>>

NoFile == master = <<>> /\ file = NULL /\ hidden = {} /\ edits = 0
Init == \/ follows = "file" /\ FileInit /\ HistInit
        \/ follows = "history" /\ NoFile /\ HistInit
Next == \/ follows = "file" /\ FileNext /\ UNCHANGED <<follows, histvars>>
        \/ follows = "history" /\ HistNext /\ UNCHANGED <<follows, filevars>>
Spec == Init /\ [][Next]_rulesvars
=============================================================================
