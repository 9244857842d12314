--------------------------- MODULE GradingProofs ---------------------------
(***************************************************************************)
(* Proofs about Grading for every number of commits, attempts and graders. *)
(***************************************************************************)
EXTENDS Grading, TLAPS

USE DEF Graders, Commits, Attempts, NoCommit

\* Every step of a grader, by name: the case splits below follow it.
LEMMA StepCases ==
  ASSUME Next
  PROVE  \/ \E c \in Commits : Collect(c)
         \/ EditRoster
         \/ NextAttempt
         \/ \E g \in Graders :
              \/ Start(g) \/ CommitFails(g) \/ WriteResults(g) \/ Observe(g)
              \/ UpdateProfile(g) \/ UpdateAttempt(g) \/ CommitGrade(g) \/ RecordLint(g)
              \/ RowsRefused(g) \/ UpdateRefused(g) \/ EndRun(g) \/ Crash(g)
  BY DEF Next, Step

LEMMA ConstantTypes ==
  /\ FreshAttempt \in Attempt
  /\ NoTx \in Tx
  /\ NoEvaluation \in Evaluation
  /\ 1 \in Attempts
  BY CountsAssumption DEF FreshAttempt, NoTx, NoEvaluation, Attempt, Tx,
     Evaluation, Statuses

\* What the recording helpers build is of the recorded types.
LEMMA NewRowsType ==
  ASSUME TypeOK, NEW g \in Graders, NEW c \in Commits, NEW o \in Eval[c]
  PROVE  NewRows(g, c, o) \subseteq Row /\ TestTraces(g, c, o) \subseteq Trace
  BY EvalAssumption, HiddenAssumption
     DEF TypeOK, NewRows, TestTraces, Row, Trace, Evaluation

\* A record keeps its type when a field is given another value of the field's.
LEMMA AttemptUpdate ==
  ASSUME NEW r \in Attempt, NEW c \in Commits
  PROVE  /\ [r EXCEPT !.scope = c] \in Attempt
         /\ [r EXCEPT !.lint = c] \in Attempt
         /\ [r EXCEPT !.frozen = c] \in Attempt
  BY DEF Attempt

LEMMA TxUpdate ==
  ASSUME NEW t \in Tx
  PROVE  /\ \A R \in SUBSET Row : \A E \in SUBSET Trace :
              [t EXCEPT !.rows = R, !.traces = E] \in Tx
         /\ \A E \in SUBSET Trace : [t EXCEPT !.traces = E] \in Tx
         /\ [t EXCEPT !.profile = TRUE] \in Tx
         /\ \A r \in Attempt : [t EXCEPT !.locked = TRUE, !.att = r] \in Tx
  BY DEF Tx

LEMMA RefusedType ==
  ASSUME NEW g
  PROVE  [NoTx EXCEPT !.aborted = g \in Cycle] \in Tx
<1>1. \A b \in BOOLEAN : [NoTx EXCEPT !.aborted = b] \in Tx
  BY ConstantTypes DEF NoTx, Tx
<1>2. (g \in Cycle) \in BOOLEAN
  OBVIOUS
<1> QED BY <1>1, <1>2, Zenon

\* Only grader g's transaction changes, to t.
LEMMA OneTx ==
  ASSUME tx \in [Graders -> Tx], NEW g \in Graders, NEW t \in Tx,
         tx' = [tx EXCEPT ![g] = t]
  PROVE  /\ tx' \in [Graders -> Tx] /\ tx'[g] = t
         /\ \A h \in Graders \ {g} : tx'[h] = tx[h]
  OBVIOUS

\* The row a grader reads is of the row type, and so is a frozen one.
LEMMA RowTypes ==
  ASSUME TypeOK, NEW g \in Graders, NEW c \in Commits, NEW o
  PROVE  /\ AttemptRow(g) \in Attempt
         /\ Frozen(AttemptRow(g), c, o) \in Attempt
<1>1. tx[g].att \in Attempt
  BY DEF TypeOK, Tx
<1>2. attempts[target[g]] \in Attempt
  BY DEF TypeOK
<1>3. AttemptRow(g) \in Attempt
  BY <1>1, <1>2 DEF AttemptRow
<1> QED BY <1>3, AttemptUpdate DEF Frozen

LEMMA PublishType ==
  ASSUME TypeOK, NEW g \in Graders, Publish(g)
  PROVE  /\ results' \subseteq Row
         /\ traces' \subseteq Trace
         /\ attempts' \in [Attempts -> Attempt]
         /\ tx' \in [Graders -> Tx]
         /\ tx'[g] = NoTx
         /\ \A h \in Graders \ {g} : tx'[h] = tx[h]
  BY ConstantTypes DEF TypeOK, Publish, Upsert, Tx

\* Types, and the shape of a run, hold in every reachable state.
THEOREM TypeCorrect == Spec => []TypeOK
<1>1. Init => TypeOK
  BY CountsAssumption, ConstantTypes DEF Init, TypeOK
<1>2. TypeOK /\ [Next]_vars => TypeOK'
  <2> SUFFICES ASSUME TypeOK, [Next]_vars PROVE TypeOK'
    OBVIOUS
  <2> USE CountsAssumption, TimeAssumption
  <2>1. CASE UNCHANGED vars
    BY <2>1 DEF vars, TypeOK
  <2>2. CASE \E c \in Commits : Collect(c)
    BY <2>2 DEF Collect, TypeOK, local
  <2>16. CASE EditRoster
    BY <2>16 DEF EditRoster, TypeOK, local
  <2>3. CASE NextAttempt
    <3>1. latest' \in Attempts /\ attempts' \in [Attempts -> Attempt]
      BY <2>3 DEF NextAttempt, TypeOK, FreshAttempt, Attempt
    <3> QED BY <2>3, <3>1 DEF NextAttempt, TypeOK, local
  <2>4. ASSUME NEW g \in Graders, Start(g) PROVE TypeOK'
    <3>1. target' \in [Graders -> Attempts] /\ todo' \in [Graders -> SUBSET Commits]
      <4>1. PICK a \in 1..latest :
              /\ target' = [target EXCEPT ![g] = a]
              /\ \/ todo' = [todo EXCEPT ![g] = Pending(a)]
                 \/ \E c \in Pending(a) : todo' = [todo EXCEPT ![g] = {c}]
        BY <2>4 DEF Start
      <4>2. latest \in Attempts /\ raw \subseteq Commits
        BY DEF TypeOK
      <4>3. a \in Attempts /\ Pending(a) \subseteq Commits
        <5>1. a \in 1..latest
          BY <4>1
        <5>2. a \in Attempts
          BY <4>2, <5>1
        <5> QED BY <4>2, <5>2 DEF Pending
      <4>4. target \in [Graders -> Attempts] /\ todo \in [Graders -> SUBSET Commits]
        BY DEF TypeOK
      <4>5. target' \in [Graders -> Attempts]
        BY <4>1, <4>3, <4>4
      <4>6. CASE todo' = [todo EXCEPT ![g] = Pending(a)]
        BY <4>3, <4>4, <4>5, <4>6
      <4>7. ASSUME NEW c \in Pending(a), todo' = [todo EXCEPT ![g] = {c}]
            PROVE  todo' \in [Graders -> SUBSET Commits]
        <5>1. {c} \subseteq Commits
          BY <4>3
        <5> QED BY <4>4, <4>7, <5>1
      <4> QED BY <4>1, <4>5, <4>6, <4>7
    <3> QED BY <2>4, <3>1 DEF Start, TypeOK, shared
  <2>5. ASSUME NEW g \in Graders, CommitFails(g) PROVE TypeOK'
    BY <2>5 DEF CommitFails, LeaveOut, TypeOK, shared
  <2>6. ASSUME NEW g \in Graders, WriteResults(g) PROVE TypeOK'
    <3>1. PICK c \in todo[g] : \E o \in Eval[c] :
            /\ cur' = [cur EXCEPT ![g] = c]
            /\ todo' = [todo EXCEPT ![g] = @ \ {c}]
            /\ out' = [out EXCEPT ![g] = o]
            /\ tx' = [tx EXCEPT
                 ![g].rows = Upsert(@, NewRows(g, c, o)),
                 ![g].traces = @ \cup TestTraces(g, c, o)]
      BY <2>6 DEF WriteResults
    <3>2. PICK o \in Eval[c] :
            /\ out' = [out EXCEPT ![g] = o]
            /\ tx' = [tx EXCEPT
                 ![g].rows = Upsert(@, NewRows(g, c, o)),
                 ![g].traces = @ \cup TestTraces(g, c, o)]
      BY <3>1
    <3>3. c \in Commits /\ o \in Evaluation
      BY <3>1, EvalAssumption DEF TypeOK
    <3>4. tx' \in [Graders -> Tx] /\ \A h \in Graders \ {g} : tx'[h] = tx[h]
      <4> DEFINE R == Upsert(tx[g].rows, NewRows(g, c, o))
                 E == tx[g].traces \cup TestTraces(g, c, o)
      <4>1. tx \in [Graders -> Tx] /\ tx[g].rows \subseteq Row /\ tx[g].traces \subseteq Trace
        BY DEF TypeOK, Tx
      <4>2. R \subseteq Row /\ E \subseteq Trace
        BY <3>3, <4>1, NewRowsType DEF Upsert
      <4>3. tx' = [tx EXCEPT ![g] = [tx[g] EXCEPT !.rows = R, !.traces = E]]
        BY <3>2
      <4> HIDE DEF R, E
      <4>4. [tx[g] EXCEPT !.rows = R, !.traces = E] \in Tx
        BY <4>1, <4>2, TxUpdate
      <4> QED BY <4>1, <4>3, <4>4, OneTx
    <3> QED BY <2>6, <3>2, <3>1, <3>3, <3>4 DEF WriteResults, TypeOK, shared
  <2>7. ASSUME NEW g \in Graders, Observe(g) PROVE TypeOK'
    <3>1. tx' \in [Graders -> Tx] /\ \A h \in Graders \ {g} : tx'[h] = tx[h]
      <4>1. /\ target[g] \in Attempts /\ cur[g] \in Commits
            /\ tx \in [Graders -> Tx] /\ tx[g].traces \subseteq Trace
        BY <2>7 DEF Observe, TypeOK, Tx
      <4>2. CASE UNCHANGED tx
        BY <4>1, <4>2
      <4>3. ASSUME NEW p \in Unobserved(g, out[g]),
                   tx' = [tx EXCEPT ![g].traces = @ \cup
                     {[kind |-> "mastery_observation", attempt |-> target[g],
                       commit |-> cur[g], gap |-> p, by |-> g]}]
            PROVE  tx' \in [Graders -> Tx] /\ \A h \in Graders \ {g} : tx'[h] = tx[h]
        <5> DEFINE new == [kind |-> "mastery_observation", attempt |-> target[g],
                           commit |-> cur[g], gap |-> p, by |-> g]
        <5>1. p \in Gaps
          BY <4>1, HiddenAssumption DEF Unobserved
        <5>2. new \in Trace
          BY <4>1, <5>1 DEF Trace
        <5>3. tx' = [tx EXCEPT ![g] = [tx[g] EXCEPT !.traces = tx[g].traces \cup {new}]]
          BY <4>3
        <5> HIDE DEF new
        <5>4. [tx[g] EXCEPT !.traces = tx[g].traces \cup {new}] \in Tx
          BY <4>1, <5>2, TxUpdate
        <5> QED BY <4>1, <5>3, <5>4, OneTx
      <4> QED BY <2>7, <4>2, <4>3 DEF Observe
    <3> QED BY <2>7, <3>1 DEF Observe, TypeOK, shared
  <2>8. ASSUME NEW g \in Graders, UpdateProfile(g) PROVE TypeOK'
    <3>1. tx' \in [Graders -> Tx] /\ \A h \in Graders \ {g} : tx'[h] = tx[h]
      <4>1. tx \in [Graders -> Tx]
        BY DEF TypeOK
      <4>2. [tx[g] EXCEPT !.profile = TRUE] \in Tx
        BY <4>1, TxUpdate
      <4>3. tx' = [tx EXCEPT ![g] = [tx[g] EXCEPT !.profile = TRUE]]
        BY <2>8 DEF UpdateProfile
      <4> QED BY <4>1, <4>2, <4>3, OneTx
    <3> QED BY <2>8, <3>1 DEF UpdateProfile, TypeOK, shared
  <2>9. ASSUME NEW g \in Graders, UpdateAttempt(g) PROVE TypeOK'
    <3>1. tx' \in [Graders -> Tx] /\ \A h \in Graders \ {g} : tx'[h] = tx[h]
      <4>1. tx \in [Graders -> Tx] /\ cur[g] \in Commits
        BY <2>9 DEF UpdateAttempt, TypeOK
      <4>2. Frozen(AttemptRow(g), cur[g], out[g]) \in Attempt
        BY <4>1, RowTypes
      <4>3. PICK new \in Attempt :
              tx' \in {tx, [tx EXCEPT ![g].locked = TRUE, ![g].att = new]}
        BY <2>9, <4>1, <4>2, AttemptUpdate DEF UpdateAttempt
      <4>4. [tx[g] EXCEPT !.locked = TRUE, !.att = new] \in Tx
        BY <4>1, <4>3, TxUpdate
      <4>5. CASE tx' = tx
        BY <4>1, <4>5
      <4>6. CASE tx' = [tx EXCEPT ![g] = [tx[g] EXCEPT !.locked = TRUE, !.att = new]]
        BY <4>1, <4>4, <4>6, OneTx
      <4> QED BY <4>1, <4>3, <4>5, <4>6
    <3> QED BY <2>9, <3>1 DEF UpdateAttempt, TypeOK, shared
  <2>10. ASSUME NEW g \in Graders, CommitGrade(g) PROVE TypeOK'
    BY <2>10, PublishType DEF CommitGrade, TypeOK
  <2>11. ASSUME NEW g \in Graders, RecordLint(g) PROVE TypeOK'
    <3>1. /\ attempts' \in [Attempts -> Attempt]
          /\ tx' \in [Graders -> Tx] /\ \A h \in Graders \ {g} : tx'[h] = tx[h]
      <4> DEFINE new == [AttemptRow(g) EXCEPT !.lint = cur[g]]
      <4>1. /\ tx \in [Graders -> Tx] /\ attempts \in [Attempts -> Attempt]
            /\ cur[g] \in Commits /\ target[g] \in Attempts
        BY <2>11 DEF RecordLint, TypeOK
      <4>2. new \in Attempt
        BY <4>1, RowTypes, AttemptUpdate
      <4>3. [tx[g] EXCEPT !.locked = TRUE, !.att = new] \in Tx
        BY <4>1, <4>2, TxUpdate
      <4>4. \/ UNCHANGED <<attempts, tx>>
            \/ attempts' = [attempts EXCEPT ![target[g]] = new] /\ UNCHANGED tx
            \/ /\ tx' = [tx EXCEPT ![g] = [tx[g] EXCEPT !.locked = TRUE, !.att = new]]
               /\ UNCHANGED attempts
        BY <2>11 DEF RecordLint
      <4> HIDE DEF new
      <4>5. CASE UNCHANGED <<attempts, tx>>
        BY <4>1, <4>5
      <4>6. CASE attempts' = [attempts EXCEPT ![target[g]] = new] /\ UNCHANGED tx
        BY <4>1, <4>2, <4>6
      <4>7. CASE /\ tx' = [tx EXCEPT ![g] = [tx[g] EXCEPT !.locked = TRUE, !.att = new]]
                 /\ UNCHANGED attempts
        BY <4>1, <4>3, <4>7, OneTx
      <4> QED BY <4>4, <4>5, <4>6, <4>7
    <3> QED BY <2>11, <3>1 DEF RecordLint, TypeOK
  <2>12. ASSUME NEW g \in Graders, RowsRefused(g) PROVE TypeOK'
    <3>1. tx' \in [Graders -> Tx] /\ \A h \in Graders \ {g} : tx'[h] = tx[h]
      <4>1. tx \in [Graders -> Tx]
        BY DEF TypeOK
      <4>2. [NoTx EXCEPT !.aborted = g \in Cycle] \in Tx
        BY RefusedType
      <4>3. tx' = [tx EXCEPT ![g] = [NoTx EXCEPT !.aborted = g \in Cycle]]
        BY <2>12 DEF RowsRefused, Refused
      <4> QED BY <4>1, <4>2, <4>3, OneTx
    <3> QED BY <2>12, <3>1 DEF RowsRefused, TypeOK, shared
  <2>13. ASSUME NEW g \in Graders, UpdateRefused(g) PROVE TypeOK'
    <3>1. tx' \in [Graders -> Tx] /\ \A h \in Graders \ {g} : tx'[h] = tx[h]
      <4>1. tx \in [Graders -> Tx]
        BY DEF TypeOK
      <4>2. [NoTx EXCEPT !.aborted = g \in Cycle] \in Tx
        BY RefusedType
      <4>3. tx' = [tx EXCEPT ![g] = [NoTx EXCEPT !.aborted = g \in Cycle]]
        BY <2>13 DEF UpdateRefused, Refused
      <4> QED BY <4>1, <4>2, <4>3, OneTx
    <3> QED BY <2>13, <3>1 DEF UpdateRefused, TypeOK, shared
  <2>14. ASSUME NEW g \in Graders, EndRun(g) PROVE TypeOK'
    BY <2>14, PublishType DEF EndRun, TypeOK
  <2>15. ASSUME NEW g \in Graders, Crash(g) PROVE TypeOK'
    <3>1. tx' \in [Graders -> Tx] /\ \A h \in Graders : tx'[h] \in {tx[h], NoTx}
      BY <2>15, ConstantTypes DEF Crash, TypeOK
    <3>2. tx'[g] = NoTx /\ \A h \in Graders \ {g} : tx'[h] = tx[h]
      BY <2>15 DEF Crash, TypeOK
    <3> QED BY <2>15, <3>1, <3>2 DEF Crash, TypeOK, shared
  <2> QED BY <2>1, <2>2, <2>3, <2>4, <2>5, <2>6, <2>7, <2>9, <2>10, <2>11,
             <2>12, <2>13, <2>14, <2>15, <2>16, <2>8, StepCases
<1> QED BY <1>1, <1>2, PTL DEF Spec

----------------------------------------------------------------------------
(* A frozen attempt is final.  What a transaction has written to an attempt *)
(* may be published much later; it stays right because at most one          *)
(* transaction holds an attempt's row at a time.                            *)

\* new is what a frozen row old may become.
Final(old, new) == /\ new.frozen = old.frozen
                   /\ new.scope \in {old.scope, old.frozen}
                   /\ new.lint \in {old.lint, old.frozen}

\* The inductive invariant of the attempt rows' locks.
LockInv ==
  /\ \A g \in Graders : target[g] <= latest
  /\ \A a \in Attempts : a > latest => attempts[a] = FreshAttempt
  /\ \A g \in Cli : pc[g] = "lint" => tx[g] = NoTx
  /\ \A g, h \in Graders :
       tx[g].locked /\ tx[h].locked /\ target[g] = target[h] => g = h
  /\ \A g \in Graders :
       tx[g].locked /\ ~Open(target[g]) => Final(attempts[target[g]], tx[g].att)

LEMMA FinalRow ==
  ASSUME NEW old \in Attempt, NEW r \in Attempt, NEW c \in Commits,
         old.frozen # NoCommit, Final(old, r), MayMeasure(r, c)
  PROVE  /\ Final(old, [r EXCEPT !.scope = c])
         /\ Final(old, [r EXCEPT !.lint = c])
  BY DEF Final, MayMeasure, Attempt

\* The row a grader reads of a frozen attempt is a final one.
LEMMA ReadsFinal ==
  ASSUME TypeOK, LockInv, NEW g \in Graders, ~Open(target[g])
  PROVE  Final(attempts[target[g]], AttemptRow(g))
  BY DEF TypeOK, LockInv, AttemptRow, Final

\* A step that writes no attempt row and takes no lock on one.
LEMMA NoLockTaken ==
  ASSUME TypeOK, LockInv, attempts' = attempts, latest' = latest,
         \A h \in Graders :
           /\ target'[h] <= latest
           /\ tx'[h].locked => /\ tx[h].locked /\ tx'[h].att = tx[h].att
                               /\ target'[h] = target[h],
         \A h \in Cli : pc'[h] = "lint" => tx'[h] = NoTx
  PROVE  LockInv'
  BY DEF LockInv, Open

\* COMMIT writes a final row over a frozen one, and the other transactions'
\* rows are of other attempts.
LEMMA PublishFinal ==
  ASSUME TypeOK, LockInv, NEW g \in Graders, Publish(g)
  PROVE  /\ \A a \in Attempts : ~Open(a) => Final(attempts[a], attempts'[a])
         /\ \A a \in Attempts : a > latest => attempts'[a] = FreshAttempt
         /\ \A h \in Graders : tx'[h].locked =>
              /\ h # g /\ tx[h].locked /\ tx'[h] = tx[h]
              /\ attempts'[target[h]] = attempts[target[h]]
<1>1. /\ attempts \in [Attempts -> Attempt] /\ target[g] \in Attempts
      /\ tx'[g] = NoTx /\ \A h \in Graders \ {g} : tx'[h] = tx[h]
      /\ latest \in Nat /\ \A h \in Graders : target[h] \in Attempts
  BY PublishType, CountsAssumption DEF TypeOK
<1>2. CASE ~tx[g].locked
  BY <1>1, <1>2 DEF Publish, Final, LockInv, NoTx
<1>3. CASE tx[g].locked
  <2>1. attempts' = [attempts EXCEPT ![target[g]] = tx[g].att]
    BY <1>3 DEF Publish
  <2>2. \A a \in Attempts : ~Open(a) => Final(attempts[a], attempts'[a])
    BY <1>1, <1>3, <2>1 DEF LockInv, Final
  <2>3. target[g] <= latest
    BY DEF LockInv
  <2>4. \A a \in Attempts : a > latest => attempts'[a] = FreshAttempt
    BY <1>1, <2>1, <2>3 DEF LockInv
  <2>5. \A h \in Graders : tx'[h].locked =>
           h # g /\ tx[h].locked /\ tx'[h] = tx[h] /\ target[h] # target[g]
    BY <1>1, <1>3 DEF LockInv, NoTx
  <2> QED BY <1>1, <2>1, <2>2, <2>4, <2>5
<1> QED BY <1>2, <1>3


\* What the steps that leave the attempts alone do to the locks.
LEMMA QuietSteps ==
  ASSUME TypeOK, LockInv, NEW g \in Graders,
         \/ CommitFails(g) \/ WriteResults(g) \/ Observe(g) \/ UpdateProfile(g)
         \/ RowsRefused(g) \/ UpdateRefused(g) \/ Crash(g)
  PROVE  /\ attempts' = attempts /\ latest' = latest /\ target' = target
         /\ \A h \in Graders :
              tx'[h].locked => tx[h].locked /\ tx'[h].att = tx[h].att
         /\ \A h \in Cli : pc'[h] = "lint" => tx'[h] = NoTx
<1>1. tx \in [Graders -> Tx] /\ pc \in [Graders -> {"idle", "next", "observe",
                                       "profile", "update", "commit", "lint"}]
  BY DEF TypeOK
<1>2. attempts' = attempts /\ latest' = latest /\ target' = target
  BY DEF CommitFails, WriteResults, Observe, UpdateProfile, RowsRefused,
         UpdateRefused, Crash, shared
<1>3. \A h \in Graders \ {g} : tx'[h] = tx[h] /\ pc'[h] = pc[h]
  BY <1>1 DEF CommitFails, WriteResults, Observe, UpdateProfile, RowsRefused,
         UpdateRefused, Crash, Refused
<1>4. tx'[g].locked => tx[g].locked /\ tx'[g].att = tx[g].att
  <2>1. tx[g] \in Tx
    BY <1>1
  <2>2. CASE CommitFails(g)
    BY <2>2 DEF CommitFails
  <2>3. CASE WriteResults(g)
    <3>1. \E R, E : tx' = [tx EXCEPT ![g].rows = R, ![g].traces = E]
      BY <2>3 DEF WriteResults
    <3> QED BY <1>1, <3>1 DEF Tx
  <2>4. CASE UpdateProfile(g)
    BY <1>1, <2>4 DEF UpdateProfile, Tx
  <2>5. CASE Observe(g)
    BY <1>1, <2>5 DEF Observe, Tx
  <2>6. CASE RowsRefused(g) \/ UpdateRefused(g) \/ Crash(g)
    BY <1>1, <2>6 DEF RowsRefused, UpdateRefused, Crash, Refused, NoTx
  <2> QED BY <2>2, <2>5, <2>6, <2>3, <2>4
<1>5. pc'[g] # "lint"
  BY <1>1 DEF CommitFails, WriteResults, Observe, UpdateProfile, RowsRefused,
         UpdateRefused, Crash
<1>6. \A h \in Cli : pc'[h] = "lint" => tx'[h] = NoTx
  BY <1>3, <1>5 DEF LockInv
<1> QED BY <1>2, <1>3, <1>4, <1>6

\* The row UpdateAttempt writes over a frozen one is a final one.
LEMMA UpdateFinal ==
  ASSUME TypeOK, LockInv, NEW g \in Graders, UpdateAttempt(g)
  PROVE  /\ attempts' = attempts /\ latest' = latest /\ target' = target
         /\ \A h \in Graders \ {g} : tx'[h] = tx[h] /\ pc'[h] = pc[h]
         /\ g \in Cli => pc'[g] # "lint"
         /\ \/ tx' = tx
            \/ /\ AttemptFree(g, target[g])
               /\ ~Open(target[g]) => Final(attempts[target[g]], tx'[g].att)
<1>1. /\ tx \in [Graders -> Tx] /\ cur[g] \in Commits
      /\ attempts[target[g]] \in Attempt
      /\ pc \in [Graders -> {"idle", "next", "observe",
                             "profile", "update", "commit", "lint"}]
  BY DEF UpdateAttempt, TypeOK
<1>2. AttemptRow(g) \in Attempt
  BY <1>1, RowTypes
<1>3. /\ attempts' = attempts /\ latest' = latest /\ target' = target
      /\ \A h \in Graders \ {g} : pc'[h] = pc[h]
      /\ g \in Cli => pc'[g] # "lint"
  BY <1>1 DEF UpdateAttempt, shared
<1>4. CASE tx' = tx
  BY <1>3, <1>4
<1>5. CASE tx' # tx
  <2> DEFINE row == Frozen(AttemptRow(g), cur[g], out[g])
  <2>1. PICK new :
          /\ tx' = [tx EXCEPT ![g].locked = TRUE, ![g].att = new]
          /\ AttemptFree(g, target[g])
          /\ \/ new = row
             \/ new = [row EXCEPT !.scope = cur[g]] /\ MayMeasure(row, cur[g])
    BY <1>5 DEF UpdateAttempt
  <2>2. tx'[g].att = new /\ \A h \in Graders \ {g} : tx'[h] = tx[h]
    BY <1>1, <2>1 DEF Tx
  <2>3. ASSUME ~Open(target[g]) PROVE Final(attempts[target[g]], new)
    <3>1. Final(attempts[target[g]], AttemptRow(g))
      BY <2>3, ReadsFinal
    <3>2. attempts[target[g]].frozen # NoCommit
      BY <2>3 DEF Open
    <3>3. row = AttemptRow(g)
      BY <3>1, <3>2 DEF Frozen, Final
    <3>4. MayMeasure(AttemptRow(g), cur[g]) =>
            Final(attempts[target[g]], [AttemptRow(g) EXCEPT !.scope = cur[g]])
      BY <1>1, <1>2, <3>1, <3>2, FinalRow
    <3> HIDE DEF row
    <3> QED BY <2>1, <3>1, <3>3, <3>4
  <2> QED BY <1>3, <2>1, <2>2, <2>3
<1> QED BY <1>4, <1>5


\* The lint measure: written at once by the command line, in the stage's
\* transaction by the cycle.
LEMMA LintFinal ==
  ASSUME TypeOK, LockInv, NEW g \in Graders, RecordLint(g)
  PROVE  /\ latest' = latest /\ target' = target /\ pc'[g] = "next"
         /\ \A h \in Graders \ {g} : tx'[h] = tx[h] /\ pc'[h] = pc[h]
         /\ \/ attempts' = attempts /\ tx' = tx
            \/ /\ AttemptFree(g, target[g]) /\ tx' = tx /\ ~tx[g].locked
               /\ \E new : /\ attempts' = [attempts EXCEPT ![target[g]] = new]
                           /\ ~Open(target[g]) => Final(attempts[target[g]], new)
            \/ /\ AttemptFree(g, target[g]) /\ attempts' = attempts
               /\ ~Open(target[g]) => Final(attempts[target[g]], tx'[g].att)
<1> DEFINE new == [AttemptRow(g) EXCEPT !.lint = cur[g]]
<1>1. /\ tx \in [Graders -> Tx] /\ cur[g] \in Commits
      /\ attempts[target[g]] \in Attempt
      /\ pc \in [Graders -> {"idle", "next", "observe",
                             "profile", "update", "commit", "lint"}]
  BY DEF RecordLint, TypeOK
<1>2. AttemptRow(g) \in Attempt
  BY <1>1, RowTypes
<1>3. /\ latest' = latest /\ target' = target /\ pc'[g] = "next"
      /\ \A h \in Graders \ {g} : tx'[h] = tx[h] /\ pc'[h] = pc[h]
  BY <1>1 DEF RecordLint
<1>4. ASSUME MayMeasure(AttemptRow(g), cur[g]), ~Open(target[g])
      PROVE  Final(attempts[target[g]], new)
  <2>1. Final(attempts[target[g]], AttemptRow(g)) /\ attempts[target[g]].frozen # NoCommit
    BY <1>4, ReadsFinal DEF Open
  <2> QED BY <1>1, <1>2, <1>4, <2>1, FinalRow
<1>5. \/ attempts' = attempts /\ tx' = tx
      \/ /\ AttemptFree(g, target[g]) /\ MayMeasure(AttemptRow(g), cur[g])
         /\ \/ /\ g \in Cli /\ tx' = tx
               /\ attempts' = [attempts EXCEPT ![target[g]] = new]
            \/ /\ tx' = [tx EXCEPT ![g].locked = TRUE, ![g].att = new]
               /\ attempts' = attempts
  BY DEF RecordLint
<1> HIDE DEF new
<1>6. g \in Cli => ~tx[g].locked
  BY DEF LockInv, RecordLint, NoTx
<1>7. tx' = [tx EXCEPT ![g].locked = TRUE, ![g].att = new] => tx'[g].att = new
  BY <1>1 DEF Tx
<1> QED BY <1>3, <1>4, <1>5, <1>6, <1>7

\* The next attempt takes a row nobody holds and nothing was written to.
LEMMA NextAttemptFresh ==
  ASSUME TypeOK, LockInv, NextAttempt
  PROVE  /\ latest' = latest + 1 /\ UNCHANGED <<tx, target, pc>>
         /\ \A a \in Attempts : a # latest + 1 => attempts'[a] = attempts[a]
         /\ Open(latest + 1)
<1>1. /\ latest \in Nat /\ latest + 1 \in Attempts /\ latest + 1 > latest
      /\ attempts \in [Attempts -> Attempt]
  BY CountsAssumption DEF TypeOK, NextAttempt
<1>2. Open(latest + 1)
  BY <1>1 DEF LockInv, Open, FreshAttempt
<1>3. \A a \in Attempts : a # latest + 1 => attempts'[a] = attempts[a]
  BY <1>1 DEF NextAttempt
<1> QED BY <1>2, <1>3 DEF NextAttempt, local

LEMMA LockInvInit == Init => LockInv
  BY CountsAssumption DEF Init, LockInv, NoTx

LEMMA LockInvStep == TypeOK /\ LockInv /\ [Next]_vars => LockInv'
<1> SUFFICES ASSUME TypeOK, LockInv, [Next]_vars PROVE LockInv'
  OBVIOUS
<1>1. /\ latest \in Nat /\ \A g \in Graders : target[g] \in Attempts /\ target[g] <= latest
      /\ \A h \in Cli : pc[h] = "lint" => tx[h] = NoTx
  BY CountsAssumption DEF TypeOK, LockInv
<1>2. CASE UNCHANGED vars
  BY <1>2 DEF vars, LockInv, Open
<1>3. CASE EditRoster \/ \E c \in Commits : Collect(c)
  BY <1>3 DEF EditRoster, Collect, local, LockInv, Open
<1>4. CASE NextAttempt
  <2>1. \A g \in Graders : attempts'[target[g]] = attempts[target[g]]
    BY <1>1, <1>4, NextAttemptFresh
  <2>2. \A a \in Attempts : a > latest' => attempts'[a] = FreshAttempt
    BY <1>1, <1>4, NextAttemptFresh DEF LockInv
  <2> QED BY <1>1, <1>4, <2>1, <2>2, NextAttemptFresh DEF LockInv, Open
<1>5. ASSUME NEW g \in Graders, Start(g) PROVE LockInv'
  <2>1. /\ attempts' = attempts /\ latest' = latest /\ tx' = tx
        /\ pc' = [pc EXCEPT ![g] = "next"] /\ ~tx[g].locked
        /\ \E a \in 1..latest : target' = [target EXCEPT ![g] = a]
    <3>1. pc[g] = "idle" /\ tx[g] = NoTx
      BY <1>5 DEF Start, TypeOK
    <3>2. ~tx[g].locked
      BY <3>1 DEF NoTx
    <3>3. \E a \in 1..latest : target' = [target EXCEPT ![g] = a]
      BY <1>5 DEF Start
    <3> QED BY <1>5, <3>2, <3>3 DEF Start, shared
  <2>2. /\ target \in [Graders -> Attempts]
        /\ pc \in [Graders -> {"idle", "next", "observe", "profile",
                               "update", "commit", "lint"}]
    BY DEF TypeOK
  <2>3. \A h \in Graders : /\ target'[h] <= latest
                           /\ h # g => target'[h] = target[h] /\ pc'[h] = pc[h]
    BY <1>1, <2>1, <2>2
  <2>4. pc'[g] # "lint"
    BY <2>1, <2>2
  <2> QED BY <1>1, <2>1, <2>3, <2>4, NoLockTaken
<1>6. ASSUME NEW g \in Graders,
             \/ CommitFails(g) \/ WriteResults(g) \/ Observe(g) \/ UpdateProfile(g)
             \/ RowsRefused(g) \/ UpdateRefused(g) \/ Crash(g)
      PROVE  LockInv'
  BY <1>1, <1>6, QuietSteps, NoLockTaken
<1>7. ASSUME NEW g \in Graders, UpdateAttempt(g) PROVE LockInv'
  <2>1. \A h \in Cli : pc'[h] = "lint" => tx'[h] = NoTx
    BY <1>1, <1>7, UpdateFinal
  <2>2. CASE tx' = tx
    BY <1>1, <1>7, <2>1, <2>2, UpdateFinal, NoLockTaken
  <2>3. CASE /\ AttemptFree(g, target[g])
             /\ ~Open(target[g]) => Final(attempts[target[g]], tx'[g].att)
    BY <1>7, <2>1, <2>3, UpdateFinal DEF LockInv, AttemptFree, Open
  <2> QED BY <1>7, <2>2, <2>3, UpdateFinal
<1>8. ASSUME NEW g \in Graders, RecordLint(g) PROVE LockInv'
  <2>1. \A h \in Cli : pc'[h] = "lint" => tx'[h] = NoTx
    BY <1>1, <1>8, LintFinal
  <2>2. CASE attempts' = attempts /\ tx' = tx
    BY <1>1, <1>8, <2>1, <2>2, LintFinal, NoLockTaken
  <2>3. ASSUME NEW new, attempts' = [attempts EXCEPT ![target[g]] = new],
               AttemptFree(g, target[g]), tx' = tx, ~tx[g].locked
        PROVE  LockInv'
    <3>1. attempts \in [Attempts -> Attempt]
      BY DEF TypeOK
    <3>2. \A h \in Graders : tx[h].locked => attempts'[target[h]] = attempts[target[h]]
      BY <1>1, <2>3, <3>1 DEF AttemptFree
    <3>3. \A a \in Attempts : a > latest => attempts'[a] = FreshAttempt
      BY <1>1, <2>3, <3>1 DEF LockInv
    <3> QED BY <1>8, <2>1, <2>3, <3>2, <3>3, LintFinal DEF LockInv, Open
  <2>4. CASE /\ AttemptFree(g, target[g]) /\ attempts' = attempts
             /\ ~Open(target[g]) => Final(attempts[target[g]], tx'[g].att)
    BY <1>8, <2>1, <2>4, LintFinal DEF LockInv, AttemptFree, Open
  <2> QED BY <1>8, <2>2, <2>3, <2>4, LintFinal
<1>9. ASSUME NEW g \in Graders, CommitGrade(g) \/ EndRun(g) PROVE LockInv'
  <2>1. /\ Publish(g) /\ latest' = latest /\ target' = target
        /\ \A h \in Graders \ {g} : pc'[h] = pc[h]
    BY <1>9 DEF CommitGrade, EndRun, TypeOK
  <2>2. tx'[g] = NoTx /\ \A h \in Graders \ {g} : tx'[h] = tx[h]
    BY <2>1, PublishType
  <2>3. \A h \in Cli : pc'[h] = "lint" => tx'[h] = NoTx
    BY <1>1, <2>1, <2>2
  <2> QED BY <2>1, <2>2, <2>3, PublishFinal DEF LockInv, Open
<1> QED BY <1>2, <1>3, <1>4, <1>5, <1>6, <1>7, <1>8, <1>9, StepCases

\* What is final stays so across any step.
LEMMA FinalStep ==
  ASSUME TypeOK, LockInv, [Next]_vars, NEW a \in Attempts, ~Open(a)
  PROVE  Final(attempts[a], attempts'[a])
<1>1. attempts'[a] = attempts[a] => Final(attempts[a], attempts'[a])
  BY DEF Final
<1>2. CASE UNCHANGED vars \/ EditRoster \/ \E c \in Commits : Collect(c)
  BY <1>1, <1>2 DEF vars, EditRoster, Collect
<1>3. CASE NextAttempt
  BY <1>1, <1>3, NextAttemptFresh
<1>4. ASSUME NEW g \in Graders,
             \/ Start(g) \/ CommitFails(g) \/ WriteResults(g) \/ Observe(g)
             \/ UpdateProfile(g) \/ UpdateAttempt(g)
             \/ RowsRefused(g) \/ UpdateRefused(g) \/ Crash(g)
      PROVE  Final(attempts[a], attempts'[a])
  BY <1>1, <1>4, QuietSteps, UpdateFinal DEF Start, shared
<1>5. ASSUME NEW g \in Graders, RecordLint(g)
      PROVE  Final(attempts[a], attempts'[a])
  <2>1. attempts \in [Attempts -> Attempt]
    BY DEF TypeOK
  <2> QED BY <1>1, <1>5, <2>1, LintFinal
<1>6. ASSUME NEW g \in Graders, CommitGrade(g) \/ EndRun(g)
      PROVE  Final(attempts[a], attempts'[a])
  BY <1>6, PublishFinal DEF CommitGrade, EndRun
<1> QED BY <1>2, <1>3, <1>4, <1>5, <1>6, StepCases

LEMMA LocksCorrect == Spec => [](TypeOK /\ LockInv)
<1>1. TypeOK /\ LockInv /\ [Next]_vars => LockInv'
  BY LockInvStep
<1> QED BY <1>1, LockInvInit, TypeCorrect, PTL DEF Spec

\* D-045a, for any number of graders, commits and attempts: the commit an
\* attempt froze on is never replaced.
THEOREM FreezeFinal == Spec => FreezeIsFinal
<1>1. TypeOK /\ LockInv /\ [Next]_vars =>
        [\A a \in Attempts : ~Open(a) => attempts'[a].frozen = attempts[a].frozen]_vars
  BY FinalStep DEF Final
<1> QED BY <1>1, LocksCorrect, PTL DEF Spec, FreezeIsFinal

\* D-073 and D-088, likewise: a frozen attempt's measures are those it had or
\* those of the commit it froze on.
THEOREM MeasuresFinal == Spec => MeasuresAreFinal
<1>1. TypeOK /\ LockInv /\ [Next]_vars =>
        [\A a \in Attempts : ~Open(a) =>
           /\ attempts'[a].scope \in {attempts[a].scope, attempts[a].frozen}
           /\ attempts'[a].lint \in {attempts[a].lint, attempts[a].frozen}]_vars
  BY FinalStep DEF Final
<1> QED BY <1>1, LocksCorrect, PTL DEF Spec, MeasuresAreFinal


----------------------------------------------------------------------------
(* Evidence is never visible without the rows of its commit.  What a        *)
(* transaction holds is backed by what it can see, all the way to COMMIT.   *)

Backed(att, a, R) == att.frozen # NoCommit => HasRow(R, a, att.frozen)

\* What grader g holds is backed by the rows g can see.
GraderBacked(g) ==
  /\ \A t \in tx[g].traces : HasRow(VisibleRows(g), t.attempt, t.commit)
  /\ tx[g].locked => Backed(tx[g].att, target[g], VisibleRows(g))
  /\ pc[g] \in {"observe", "profile", "update"} /\ out[g].rows =>
       HasRow(VisibleRows(g), target[g], cur[g])
  /\ ~out[g].rows => out[g].attempted = {} /\ ~out[g].full

\* The inductive invariant: evidence is backed, committed or not yet.
BackedInv == EvidenceBacked /\ \A g \in Graders : GraderBacked(g)

\* An upsert keeps every commit that had a row and adds the new ones.
LEMMA UpsertRows ==
  ASSUME NEW R, NEW S, NEW a, NEW c
  PROVE  HasRow(Upsert(R, S), a, c) <=> HasRow(R \cup S, a, c)
  BY DEF HasRow, Upsert, SameKey

LEMMA BackedInit == Init => BackedInv
  BY DEF Init, BackedInv, GraderBacked, EvidenceBacked, Open, FreshAttempt,
         NoTx, NoEvaluation

\* What another grader commits only adds to what a grader can see.
LEMMA OthersBacked ==
  ASSUME BackedInv, NEW h \in Graders,
         \A a, c : HasRow(results, a, c) => HasRow(results', a, c),
         tx'[h] = tx[h], target'[h] = target[h], pc'[h] = pc[h],
         cur'[h] = cur[h], out'[h] = out[h]
  PROVE  GraderBacked(h)'
<1>1. \A a, c : HasRow(VisibleRows(h), a, c) => HasRow(VisibleRows(h)', a, c)
  BY DEF VisibleRows, HasRow
<1> QED BY <1>1 DEF BackedInv, GraderBacked, Backed

\* A grader whose transaction is gone, or which is between two commits,
\* leaves nothing unbacked.
LEMMA NothingHeld ==
  ASSUME NEW g \in Graders, BackedInv,
         tx'[g].traces = {}, ~tx'[g].locked, out'[g] = out[g],
         pc'[g] \notin {"observe", "profile", "update"}
  PROVE  GraderBacked(g)'
  BY DEF BackedInv, GraderBacked

\* The row a grader reads is backed.
LEMMA ReadsBacked ==
  ASSUME TypeOK, BackedInv, NEW g \in Graders
  PROVE  Backed(AttemptRow(g), target[g], VisibleRows(g))
<1>1. CASE tx[g].locked
  BY <1>1 DEF BackedInv, GraderBacked, AttemptRow
<1>2. CASE ~tx[g].locked
  <2>1. target[g] \in Attempts
    BY DEF TypeOK
  <2>2. Backed(attempts[target[g]], target[g], results)
    BY <2>1 DEF BackedInv, EvidenceBacked, Open, Backed
  <2> QED BY <1>2, <2>2 DEF Backed, AttemptRow, VisibleRows, HasRow
<1> QED BY <1>1, <1>2

LEMMA WriteBacked ==
  ASSUME TypeOK, BackedInv, NEW g \in Graders, WriteResults(g)
  PROVE  BackedInv'
<1>1. PICK c \in todo[g] : \E o \in Eval[c] :
        /\ cur' = [cur EXCEPT ![g] = c]
        /\ out' = [out EXCEPT ![g] = o]
        /\ tx' = [tx EXCEPT
             ![g].rows = Upsert(@, NewRows(g, c, o)),
             ![g].traces = @ \cup TestTraces(g, c, o)]
  BY DEF WriteResults
<1>2. PICK o \in Eval[c] :
        /\ out' = [out EXCEPT ![g] = o]
        /\ tx' = [tx EXCEPT
             ![g].rows = Upsert(@, NewRows(g, c, o)),
             ![g].traces = @ \cup TestTraces(g, c, o)]
  BY <1>1
<1>3. /\ tx \in [Graders -> Tx] /\ c \in Commits
      /\ DOMAIN cur = Graders /\ DOMAIN out = Graders /\ DOMAIN pc = Graders
  BY DEF TypeOK
<1>4. /\ results' = results /\ traces' = traces /\ attempts' = attempts
      /\ target' = target /\ pc' = [pc EXCEPT ![g] = "observe"]
  BY DEF WriteResults, shared
<1>5. EvidenceBacked'
  BY <1>4 DEF BackedInv, EvidenceBacked, Open
<1>6. \A h \in Graders \ {g} : GraderBacked(h)'
  BY <1>1, <1>2, <1>3, <1>4, OthersBacked
<1>7. /\ tx'[g].rows = Upsert(tx[g].rows, NewRows(g, c, o))
      /\ tx'[g].traces = tx[g].traces \cup TestTraces(g, c, o)
      /\ tx'[g].locked = tx[g].locked /\ tx'[g].att = tx[g].att
      /\ cur'[g] = c /\ out'[g] = o
  BY <1>1, <1>2, <1>3 DEF Tx
<1>8. \A a, d : /\ HasRow(VisibleRows(g), a, d) => HasRow(VisibleRows(g)', a, d)
                /\ HasRow(NewRows(g, c, o), a, d) => HasRow(VisibleRows(g)', a, d)
  <2> TAKE a, d
  <2>1. HasRow(tx'[g].rows, a, d) <=> HasRow(tx[g].rows \cup NewRows(g, c, o), a, d)
    BY <1>7, UpsertRows
  <2> QED BY <1>4, <2>1 DEF VisibleRows, HasRow
<1>9. o.rows => HasRow(NewRows(g, c, o), target[g], c)
  BY DEF NewRows, HasRow
<1>10. \A t \in TestTraces(g, c, o) : o.rows /\ t.attempt = target[g] /\ t.commit = c
  BY DEF TestTraces
<1>11. ~o.rows => o.attempted = {} /\ ~o.full
  BY <1>2, <1>3, EvalAssumption DEF Evaluation
<1>12. GraderBacked(g)'
  <2>1. \A t \in tx'[g].traces : HasRow(VisibleRows(g)', t.attempt, t.commit)
    BY <1>7, <1>8, <1>9, <1>10 DEF BackedInv, GraderBacked
  <2>2. tx'[g].locked => Backed(tx'[g].att, target'[g], VisibleRows(g)')
    BY <1>4, <1>7, <1>8 DEF BackedInv, GraderBacked, Backed
  <2>3. out'[g].rows => HasRow(VisibleRows(g)', target'[g], cur'[g])
    BY <1>4, <1>7, <1>8, <1>9
  <2> QED BY <1>7, <1>11, <2>1, <2>2, <2>3 DEF GraderBacked
<1> QED BY <1>5, <1>6, <1>12 DEF BackedInv

LEMMA ObserveBacked ==
  ASSUME TypeOK, BackedInv, NEW g \in Graders, Observe(g)
  PROVE  BackedInv'
<1>1. /\ tx \in [Graders -> Tx] /\ DOMAIN pc = Graders
      /\ pc[g] = "observe"
      /\ results' = results /\ traces' = traces /\ attempts' = attempts
      /\ target' = target /\ cur' = cur /\ out' = out
      /\ \A h \in Graders \ {g} : tx'[h] = tx[h] /\ pc'[h] = pc[h]
  BY DEF Observe, shared, TypeOK
<1>2. EvidenceBacked'
  BY <1>1 DEF BackedInv, EvidenceBacked, Open
<1>3. \A h \in Graders \ {g} : GraderBacked(h)'
  BY <1>1, OthersBacked
<1>4. /\ tx'[g].rows = tx[g].rows /\ tx'[g].locked = tx[g].locked
      /\ tx'[g].att = tx[g].att
      /\ \A t \in tx'[g].traces : t \in tx[g].traces \/
           (t.attempt = target[g] /\ t.commit = cur[g] /\ out[g].attempted # {})
  <2>1. CASE tx' = tx
    BY <2>1
  <2>2. ASSUME NEW p \in Unobserved(g, out[g]),
               tx' = [tx EXCEPT ![g].traces = @ \cup
                 {[kind |-> "mastery_observation", attempt |-> target[g],
                   commit |-> cur[g], gap |-> p, by |-> g]}]
        PROVE  /\ tx'[g].rows = tx[g].rows /\ tx'[g].locked = tx[g].locked
               /\ tx'[g].att = tx[g].att
               /\ \A t \in tx'[g].traces : t \in tx[g].traces \/
                    (t.attempt = target[g] /\ t.commit = cur[g] /\ out[g].attempted # {})
    <3>1. out[g].attempted # {}
      BY <2>2 DEF Unobserved
    <3> QED BY <1>1, <2>2, <3>1 DEF Tx
  <2> QED BY <2>1, <2>2 DEF Observe
<1>5. VisibleRows(g)' = VisibleRows(g)
  BY <1>1, <1>4 DEF VisibleRows
<1>6. GraderBacked(g)'
  BY <1>1, <1>4, <1>5 DEF BackedInv, GraderBacked
<1> QED BY <1>2, <1>3, <1>6 DEF BackedInv


LEMMA UpdateBacked ==
  ASSUME TypeOK, BackedInv, NEW g \in Graders, UpdateAttempt(g)
  PROVE  BackedInv'
<1> DEFINE row == Frozen(AttemptRow(g), cur[g], out[g])
<1>1. /\ tx \in [Graders -> Tx] /\ DOMAIN pc = Graders /\ AttemptRow(g) \in Attempt
      /\ pc[g] = "update" /\ pc'[g] \in {"commit", "lint"}
      /\ results' = results /\ traces' = traces /\ attempts' = attempts
      /\ target' = target /\ cur' = cur /\ out' = out
      /\ \A h \in Graders \ {g} : pc'[h] = pc[h]
  <2>1. cur[g] \in Commits
    BY DEF UpdateAttempt, TypeOK
  <2>2. AttemptRow(g) \in Attempt
    BY <2>1, RowTypes
  <2> QED BY <2>2 DEF UpdateAttempt, shared, TypeOK
<1>2. EvidenceBacked'
  BY <1>1 DEF BackedInv, EvidenceBacked, Open
<1>3. Backed(row, target[g], VisibleRows(g))
  <2>1. out[g].full => HasRow(VisibleRows(g), target[g], cur[g])
    BY <1>1 DEF BackedInv, GraderBacked
  <2>2. row = AttemptRow(g) \/ (out[g].full /\ row.frozen = cur[g])
    BY <1>1 DEF Frozen, Attempt
  <2> QED BY <2>1, <2>2, ReadsBacked DEF Backed
<1>4. PICK new : /\ tx' = tx \/ tx' = [tx EXCEPT ![g].locked = TRUE, ![g].att = new]
                 /\ new = row \/ new = [row EXCEPT !.scope = cur[g]]
  BY DEF UpdateAttempt
<1>5. row \in Attempt
  <2>1. cur[g] \in Commits
    BY DEF UpdateAttempt, TypeOK
  <2> QED BY <2>1, RowTypes
<1>6. Backed(new, target[g], VisibleRows(g))
  BY <1>3, <1>4, <1>5 DEF Backed, Attempt
<1> HIDE DEF row
<1>7. /\ \A h \in Graders \ {g} : tx'[h] = tx[h]
      /\ tx'[g].rows = tx[g].rows /\ tx'[g].traces = tx[g].traces
      /\ \/ tx'[g].locked = tx[g].locked /\ tx'[g].att = tx[g].att
         \/ tx'[g].att = new
  <2>1. CASE tx' = tx
    BY <2>1
  <2>2. CASE tx' = [tx EXCEPT ![g].locked = TRUE, ![g].att = new]
    BY <1>1, <2>2 DEF Tx
  <2> QED BY <1>4, <2>1, <2>2
<1>8. \A h \in Graders \ {g} : GraderBacked(h)'
  BY <1>1, <1>7, OthersBacked
<1>9. VisibleRows(g)' = VisibleRows(g)
  BY <1>1, <1>7 DEF VisibleRows
<1>10. GraderBacked(g)'
  BY <1>1, <1>6, <1>7, <1>9 DEF BackedInv, GraderBacked
<1> QED BY <1>2, <1>8, <1>10 DEF BackedInv

\* COMMIT publishes the rows together with what they back.
LEMMA PublishBacked ==
  ASSUME TypeOK, BackedInv, NEW g \in Graders, Publish(g),
         UNCHANGED <<target, cur, out>>,
         \A h \in Graders \ {g} : pc'[h] = pc[h],
         pc'[g] \notin {"observe", "profile", "update"}
  PROVE  BackedInv'
<1>1. /\ \A a, c : HasRow(results', a, c) <=> HasRow(VisibleRows(g), a, c)
      /\ \A a, c : HasRow(results, a, c) => HasRow(results', a, c)
  <2>1. results' = Upsert(results, tx[g].rows) /\ VisibleRows(g) = results \cup tx[g].rows
    BY DEF Publish, VisibleRows
  <2> SUFFICES ASSUME NEW a, NEW c
               PROVE  /\ HasRow(results', a, c) <=> HasRow(VisibleRows(g), a, c)
                      /\ HasRow(results, a, c) => HasRow(results', a, c)
    OBVIOUS
  <2>2. HasRow(results', a, c) <=> HasRow(VisibleRows(g), a, c)
    BY <2>1, UpsertRows
  <2> QED BY <2>1, <2>2 DEF HasRow
<1>2. tx'[g] = NoTx /\ \A h \in Graders \ {g} : tx'[h] = tx[h]
  BY PublishType
<1>3. \A h \in Graders \ {g} : GraderBacked(h)'
  BY <1>1, <1>2, OthersBacked
<1>4. GraderBacked(g)'
  BY <1>2, NothingHeld DEF NoTx
<1>5. \A t \in traces' : HasRow(results', t.attempt, t.commit)
  BY <1>1 DEF Publish, BackedInv, EvidenceBacked, GraderBacked
<1>6. \A a \in Attempts : Backed(attempts'[a], a, results')
  <2>1. \A a \in Attempts : Backed(attempts[a], a, results')
    BY <1>1 DEF BackedInv, EvidenceBacked, Open, Backed
  <2>2. CASE ~tx[g].locked
    BY <2>1, <2>2 DEF Publish
  <2>3. CASE tx[g].locked
    <3>1. Backed(tx[g].att, target[g], results')
      BY <1>1, <2>3 DEF BackedInv, GraderBacked, Backed
    <3>2. attempts' = [attempts EXCEPT ![target[g]] = tx[g].att]
      BY <2>3 DEF Publish
    <3>3. DOMAIN attempts = Attempts
      BY DEF TypeOK
    <3> QED BY <2>1, <3>1, <3>2, <3>3
  <2> QED BY <2>2, <2>3
<1>7. EvidenceBacked'
  BY <1>5, <1>6 DEF EvidenceBacked, Open, Backed
<1> QED BY <1>3, <1>4, <1>7 DEF BackedInv

LEMMA LintBacked ==
  ASSUME TypeOK, LockInv, BackedInv, NEW g \in Graders, RecordLint(g)
  PROVE  BackedInv'
<1>1. /\ tx \in [Graders -> Tx] /\ DOMAIN pc = Graders /\ DOMAIN attempts = Attempts
      /\ pc[g] = "lint" /\ pc' = [pc EXCEPT ![g] = "next"]
      /\ results' = results /\ traces' = traces
      /\ target' = target /\ cur' = cur /\ out' = out /\ cur[g] \in Commits
  BY DEF RecordLint, TypeOK
<1> DEFINE new == [AttemptRow(g) EXCEPT !.lint = cur[g]]
<1>2. Backed(new, target[g], VisibleRows(g))
  <2>1. AttemptRow(g) \in Attempt
    BY <1>1, RowTypes
  <2> QED BY <2>1, ReadsBacked DEF Backed, Attempt
<1>3. \/ attempts' = attempts /\ tx' = tx
      \/ /\ g \in Cli /\ tx' = tx
         /\ attempts' = [attempts EXCEPT ![target[g]] = new]
      \/ /\ tx' = [tx EXCEPT ![g].locked = TRUE, ![g].att = new]
         /\ attempts' = attempts
  BY DEF RecordLint
<1> HIDE DEF new
<1>4. /\ \A h \in Graders \ {g} : tx'[h] = tx[h]
      /\ tx'[g].rows = tx[g].rows /\ tx'[g].traces = tx[g].traces
      /\ \/ tx'[g].locked = tx[g].locked /\ tx'[g].att = tx[g].att
         \/ tx'[g].att = new
  <2>1. CASE tx' = tx
    BY <2>1
  <2>2. CASE tx' = [tx EXCEPT ![g].locked = TRUE, ![g].att = new]
    BY <1>1, <2>2 DEF Tx
  <2> QED BY <1>3, <2>1, <2>2
<1>5. \A h \in Graders \ {g} : GraderBacked(h)'
  BY <1>1, <1>4, OthersBacked
<1>6. VisibleRows(g)' = VisibleRows(g)
  BY <1>1, <1>4 DEF VisibleRows
<1>7. GraderBacked(g)'
  BY <1>1, <1>2, <1>4, <1>6 DEF BackedInv, GraderBacked
<1>8. EvidenceBacked'
  <2>1. \A a \in Attempts : Backed(attempts[a], a, results)
    BY DEF BackedInv, EvidenceBacked, Open, Backed
  <2>2. g \in Cli => VisibleRows(g) = results
    BY <1>1 DEF LockInv, VisibleRows, NoTx
  <2>3. \A a \in Attempts : Backed(attempts'[a], a, results)
    BY <1>1, <1>2, <1>3, <2>1, <2>2
  <2> QED BY <1>1, <2>3 DEF BackedInv, EvidenceBacked, Open, Backed
<1> QED BY <1>5, <1>7, <1>8 DEF BackedInv

\* A transaction that is rolled back takes all it wrote with it.
LEMMA RolledBack ==
  ASSUME TypeOK, BackedInv, NEW g \in Graders,
         RowsRefused(g) \/ UpdateRefused(g) \/ Crash(g)
  PROVE  BackedInv'
<1>1. /\ DOMAIN tx = Graders /\ DOMAIN pc = Graders
      /\ results' = results /\ traces' = traces /\ attempts' = attempts
      /\ target' = target /\ cur' = cur /\ out' = out
  BY DEF RowsRefused, UpdateRefused, Crash, shared, TypeOK
<1>2. /\ tx'[g].traces = {} /\ ~tx'[g].locked
      /\ \A h \in Graders \ {g} : tx'[h] = tx[h] /\ pc'[h] = pc[h]
      /\ pc'[g] \notin {"observe", "profile", "update"}
  BY <1>1 DEF RowsRefused, UpdateRefused, Crash, Refused, NoTx
<1>3. GraderBacked(g)'
  BY <1>1, <1>2, NothingHeld
<1>4. \A h \in Graders \ {g} : GraderBacked(h)'
  BY <1>1, <1>2, OthersBacked
<1>5. EvidenceBacked'
  BY <1>1 DEF BackedInv, EvidenceBacked, Open
<1> QED BY <1>3, <1>4, <1>5 DEF BackedInv

LEMMA BackedInvStep == TypeOK /\ LockInv /\ BackedInv /\ [Next]_vars => BackedInv'
<1> SUFFICES ASSUME TypeOK, LockInv, BackedInv, [Next]_vars PROVE BackedInv'
  OBVIOUS
<1>1. CASE UNCHANGED <<results, traces, attempts, tx, target, pc, cur, out>>
  <2>1. EvidenceBacked'
    BY <1>1 DEF BackedInv, EvidenceBacked, Open
  <2> QED BY <1>1, <2>1, OthersBacked DEF BackedInv
<1>2. CASE UNCHANGED vars \/ EditRoster \/ \E c \in Commits : Collect(c)
  BY <1>1, <1>2 DEF vars, EditRoster, Collect, local
<1>3. CASE NextAttempt
  <2>1. UNCHANGED <<results, traces, tx, target, pc, cur, out>>
    BY <1>3 DEF NextAttempt, local
  <2>2. \A a \in Attempts : attempts'[a].frozen = NoCommit \/ attempts'[a] = attempts[a]
    <3>1. attempts \in [Attempts -> Attempt] /\ latest + 1 \in Attempts
      BY <1>3, CountsAssumption DEF TypeOK, NextAttempt
    <3> QED BY <1>3, <3>1 DEF NextAttempt, FreshAttempt
  <2>3. EvidenceBacked'
    BY <2>1, <2>2 DEF BackedInv, EvidenceBacked, Open
  <2> QED BY <2>1, <2>3, OthersBacked DEF BackedInv
<1>4. ASSUME NEW g \in Graders, Start(g) PROVE BackedInv'
  <2>1. /\ results' = results /\ traces' = traces /\ attempts' = attempts
        /\ tx' = tx /\ cur' = cur /\ out' = out /\ tx[g] = NoTx /\ pc'[g] = "next"
        /\ \A h \in Graders \ {g} : target'[h] = target[h] /\ pc'[h] = pc[h]
    BY <1>4 DEF Start, shared, TypeOK
  <2>2. EvidenceBacked'
    BY <2>1 DEF BackedInv, EvidenceBacked, Open
  <2>3. GraderBacked(g)'
    BY <2>1, NothingHeld DEF NoTx
  <2>4. \A h \in Graders \ {g} : GraderBacked(h)'
    BY <2>1, OthersBacked
  <2> QED BY <2>2, <2>3, <2>4 DEF BackedInv
<1>5. ASSUME NEW g \in Graders, CommitFails(g) PROVE BackedInv'
  BY <1>1, <1>5 DEF CommitFails, shared
<1>6. ASSUME NEW g \in Graders, UpdateProfile(g) PROVE BackedInv'
  <2>1. /\ tx \in [Graders -> Tx] /\ DOMAIN pc = Graders /\ pc[g] = "profile"
        /\ results' = results /\ traces' = traces /\ attempts' = attempts
        /\ target' = target /\ cur' = cur /\ out' = out
        /\ pc' = [pc EXCEPT ![g] = "observe"]
        /\ tx' = [tx EXCEPT ![g].profile = TRUE]
    BY <1>6 DEF UpdateProfile, shared, TypeOK
  <2>2. /\ tx'[g].rows = tx[g].rows /\ tx'[g].traces = tx[g].traces
        /\ tx'[g].locked = tx[g].locked /\ tx'[g].att = tx[g].att
        /\ \A h \in Graders \ {g} : tx'[h] = tx[h]
    BY <2>1 DEF Tx
  <2>3. VisibleRows(g)' = VisibleRows(g)
    BY <2>1, <2>2 DEF VisibleRows
  <2>4. GraderBacked(g)'
    BY <2>1, <2>2, <2>3 DEF BackedInv, GraderBacked
  <2>5. \A h \in Graders \ {g} : GraderBacked(h)'
    BY <2>1, <2>2, OthersBacked
  <2> QED BY <2>1, <2>4, <2>5 DEF BackedInv, EvidenceBacked, Open
<1>7. ASSUME NEW g \in Graders, CommitGrade(g) \/ EndRun(g) PROVE BackedInv'
  <2>1. /\ Publish(g) /\ UNCHANGED <<target, cur, out>>
        /\ \A h \in Graders \ {g} : pc'[h] = pc[h]
        /\ pc'[g] \notin {"observe", "profile", "update"}
    BY <1>7 DEF CommitGrade, EndRun, TypeOK
  <2> QED BY <2>1, PublishBacked
<1> QED BY <1>2, <1>3, <1>4, <1>5, <1>6, <1>7, WriteBacked, ObserveBacked,
           UpdateBacked, LintBacked, RolledBack, StepCases

LEMMA BackedCorrect == Spec => []BackedInv
<1>1. TypeOK /\ LockInv /\ BackedInv /\ [Next]_vars => BackedInv'
  BY BackedInvStep
<1> QED BY <1>1, BackedInit, LocksCorrect, PTL DEF Spec

\* No committed trace and no committed freeze is without the test rows of its
\* commit, wherever a grader stops.
THEOREM EvidenceCorrect == Spec => []EvidenceBacked
<1>1. BackedInv => EvidenceBacked
  BY DEF BackedInv
<1> QED BY <1>1, BackedCorrect, PTL

----------------------------------------------------------------------------
(* Grading implements the abstract ledger.                                  *)

\* Rows and traces of the record are never lost in a step.
LEMMA RecordGrows ==
  ASSUME TypeOK, [Next]_vars
  PROVE  /\ \A a, c : HasRow(results, a, c) => HasRow(results', a, c)
         /\ traces \subseteq traces'
<1>1. CASE UNCHANGED <<results, traces>>
  BY <1>1
<1>2. ASSUME NEW g \in Graders, Publish(g)
      PROVE  /\ \A a, c : HasRow(results, a, c) => HasRow(results', a, c)
             /\ traces \subseteq traces'
  <2>1. results' = Upsert(results, tx[g].rows) /\ traces' = traces \cup tx[g].traces
    BY <1>2 DEF Publish
  <2>2. ASSUME NEW a, NEW c, HasRow(results, a, c) PROVE HasRow(results', a, c)
    <3>1. HasRow(results \cup tx[g].rows, a, c)
      BY <2>2 DEF HasRow
    <3> QED BY <2>1, <3>1, UpsertRows
  <2> QED BY <2>1, <2>2
<1>3. CASE \/ UNCHANGED vars \/ EditRoster \/ NextAttempt
           \/ \E c \in Commits : Collect(c)
           \/ \E g \in Graders :
                \/ Start(g) \/ CommitFails(g) \/ WriteResults(g) \/ Observe(g)
                \/ UpdateProfile(g) \/ UpdateAttempt(g) \/ RecordLint(g)
                \/ RowsRefused(g) \/ UpdateRefused(g) \/ Crash(g)
  BY <1>1, <1>3 DEF vars, EditRoster, Collect, NextAttempt, Start, CommitFails, WriteResults,
     Observe, UpdateProfile, UpdateAttempt, RecordLint, RowsRefused,
     UpdateRefused, Crash, shared
<1>4. ASSUME NEW g \in Graders, CommitGrade(g) \/ EndRun(g)
      PROVE  /\ \A a, c : HasRow(results, a, c) => HasRow(results', a, c)
             /\ traces \subseteq traces'
  BY <1>2, <1>4 DEF CommitGrade, EndRun
<1> QED BY <1>3, <1>4, StepCases

LEMMA LedgerInit == Init => Ledger!Init
  BY DEF Init, Ledger!Init, FreshAttempt

LEMMA LedgerStep ==
  TypeOK /\ LockInv /\ BackedInv' /\ [Next]_vars => Ledger!Record
<1> SUFFICES ASSUME TypeOK, LockInv, BackedInv', [Next]_vars PROVE Ledger!Record
  OBVIOUS
<1> DEFINE rows(R) == {<<r.attempt, r.commit>> : r \in R}
<1>1. \A R, a, c : HasRow(R, a, c) <=> <<a, c>> \in rows(R)
  BY DEF HasRow
<1>2. rows(results) \subseteq rows(results')
  BY RecordGrows DEF HasRow
<1>3. \A a \in Attempts : attempts[a].frozen # NoCommit =>
        attempts'[a].frozen = attempts[a].frozen
  BY FinalStep DEF Final, Open
<1>4. \A t \in traces' : <<t.attempt, t.commit>> \in rows(results')
  BY <1>1 DEF BackedInv, EvidenceBacked
<1>5. \A a \in Attempts : attempts'[a].frozen # NoCommit =>
        <<a, attempts'[a].frozen>> \in rows(results')
  BY <1>1 DEF BackedInv, EvidenceBacked, Open
<1> QED BY <1>2, <1>3, <1>4, <1>5, RecordGrows DEF Ledger!Record, Ledger!Backed

\* Grading, with any number of graders, crashes and refused transactions,
\* implements the append-only ledger of GradeLedger.
THEOREM LedgerKept == Spec => KeepsLedger
<1>1. TypeOK /\ LockInv /\ BackedInv' /\ [Next]_vars => Ledger!Record
  BY LedgerStep
<1> QED BY <1>1, LedgerInit, LocksCorrect, BackedCorrect, PTL
        DEF Spec, KeepsLedger, Ledger!Spec

----------------------------------------------------------------------------
(* Evidence is counted once, and a commit belongs to one attempt.           *)

\* What a step may do to the rows and traces, committed or not: nothing, drop
\* what one transaction holds, or what the three writing steps do.
SameRows ==
  /\ UNCHANGED <<results, traces>>
  /\ \A h \in Graders : tx'[h].rows = tx[h].rows /\ tx'[h].traces = tx[h].traces
Dropped(g) ==
  /\ UNCHANGED <<results, traces>> /\ tx'[g].rows = {} /\ tx'[g].traces = {}
  /\ \A h \in Graders \ {g} : tx'[h] = tx[h]

LEMMA RowChanges ==
  ASSUME TypeOK, [Next]_vars
  PROVE  \/ SameRows
         \/ \E g \in Graders : Publish(g) \/ WriteResults(g) \/ Observe(g) \/ Dropped(g)
<1>1. CASE UNCHANGED vars \/ EditRoster \/ (\E c \in Commits : Collect(c)) \/ NextAttempt
  BY <1>1 DEF vars, EditRoster, Collect, NextAttempt, SameRows
<1>2. ASSUME NEW g \in Graders, Start(g) \/ CommitFails(g)
      PROVE  SameRows
  BY <1>2 DEF Start, CommitFails, SameRows, shared
<1>3. ASSUME NEW g \in Graders, UpdateProfile(g) \/ UpdateAttempt(g) \/ RecordLint(g)
      PROVE  SameRows
  <2>1. UNCHANGED <<results, traces>>
    BY <1>3 DEF UpdateProfile, UpdateAttempt, RecordLint, shared
  <2>2. \/ tx' = tx \/ tx' = [tx EXCEPT ![g].profile = TRUE]
        \/ \E new : tx' = [tx EXCEPT ![g].locked = TRUE, ![g].att = new]
    BY <1>3 DEF UpdateProfile, UpdateAttempt, RecordLint
  <2>3. tx \in [Graders -> Tx]
    BY DEF TypeOK
  <2> QED BY <2>1, <2>2, <2>3 DEF SameRows, Tx
<1>4. ASSUME NEW g \in Graders, RowsRefused(g) \/ UpdateRefused(g) \/ Crash(g)
      PROVE  Dropped(g)
  <2>1. UNCHANGED <<results, traces>> /\ DOMAIN tx = Graders
    BY <1>4 DEF RowsRefused, UpdateRefused, Crash, shared, TypeOK
  <2> QED BY <1>4, <2>1 DEF RowsRefused, UpdateRefused, Crash, Refused, NoTx, Dropped
<1>5. ASSUME NEW g \in Graders, CommitGrade(g) \/ EndRun(g)
      PROVE  Publish(g)
  BY <1>5 DEF CommitGrade, EndRun
<1> QED BY <1>1, <1>2, <1>3, <1>4, <1>5, StepCases

\* What WriteResults and Observe add to the transaction.
LEMMA WhatIsWritten ==
  ASSUME TypeOK, NEW g \in Graders, WriteResults(g)
  PROVE  \E c \in todo[g] : \E o \in Eval[c] :
           /\ UNCHANGED <<results, traces>> /\ \A h \in Graders \ {g} : tx'[h] = tx[h]
           /\ tx'[g].rows = Upsert(tx[g].rows, NewRows(g, c, o))
           /\ tx'[g].traces = tx[g].traces \cup TestTraces(g, c, o)
           /\ \A h \in Graders \ {g} : ~Conflict(h, NewRows(g, c, o))
           /\ cur' = [cur EXCEPT ![g] = c] /\ todo' = [todo EXCEPT ![g] = @ \ {c}]
<1>1. PICK c \in todo[g] : \E o \in Eval[c] :
        /\ tx' = [tx EXCEPT ![g].rows = Upsert(@, NewRows(g, c, o)),
                            ![g].traces = @ \cup TestTraces(g, c, o)]
        /\ \A h \in Graders \ {g} : ~Conflict(h, NewRows(g, c, o))
        /\ cur' = [cur EXCEPT ![g] = c] /\ todo' = [todo EXCEPT ![g] = @ \ {c}]
  BY DEF WriteResults
<1>2. PICK o \in Eval[c] :
        /\ tx' = [tx EXCEPT ![g].rows = Upsert(@, NewRows(g, c, o)),
                            ![g].traces = @ \cup TestTraces(g, c, o)]
        /\ \A h \in Graders \ {g} : ~Conflict(h, NewRows(g, c, o))
        /\ cur' = [cur EXCEPT ![g] = c] /\ todo' = [todo EXCEPT ![g] = @ \ {c}]
  BY <1>1
<1>3. tx \in [Graders -> Tx]
  BY DEF TypeOK
<1>4. /\ tx'[g].rows = Upsert(tx[g].rows, NewRows(g, c, o))
      /\ tx'[g].traces = tx[g].traces \cup TestTraces(g, c, o)
      /\ \A h \in Graders \ {g} : tx'[h] = tx[h]
  BY <1>2, <1>3 DEF Tx
<1> QED BY <1>2, <1>4 DEF WriteResults, shared

LEMMA WhatIsObserved ==
  ASSUME TypeOK, NEW g \in Graders, Observe(g)
  PROVE  \/ SameRows
         \/ \E p \in Unobserved(g, out[g]) :
              /\ UNCHANGED <<results, traces>> /\ \A h \in Graders \ {g} : tx'[h] = tx[h]
              /\ tx'[g].rows = tx[g].rows
              /\ tx'[g].traces = tx[g].traces \cup
                   {[kind |-> "mastery_observation", attempt |-> target[g],
                     commit |-> cur[g], gap |-> p, by |-> g]}
<1>1. tx \in [Graders -> Tx] /\ UNCHANGED <<results, traces>>
  BY DEF TypeOK, Observe, shared
<1>2. CASE tx' = tx
  BY <1>1, <1>2 DEF SameRows
<1>3. ASSUME NEW p \in Unobserved(g, out[g]),
             tx' = [tx EXCEPT ![g].traces = @ \cup
               {[kind |-> "mastery_observation", attempt |-> target[g],
                 commit |-> cur[g], gap |-> p, by |-> g]}]
      PROVE  /\ \A h \in Graders \ {g} : tx'[h] = tx[h]
             /\ tx'[g].rows = tx[g].rows
             /\ tx'[g].traces = tx[g].traces \cup
                  {[kind |-> "mastery_observation", attempt |-> target[g],
                    commit |-> cur[g], gap |-> p, by |-> g]}
  BY <1>1, <1>3 DEF Tx
<1> QED BY <1>1, <1>2, <1>3 DEF Observe

\* The inductive invariant of the test traces: each has a row of its commit
\* where it is, rows of two transactions share no key, and what a transaction
\* sees is traced once.
Tested(R, t) == \E r \in R : /\ r.attempt = t.attempt /\ r.commit = t.commit
                             /\ r.status # "tooling"
TracedOnce(T) ==
  \A s, t \in T :
    /\ s.kind = "test_result" /\ t.kind = "test_result"
    /\ s.attempt = t.attempt /\ s.commit = t.commit /\ s.gap = t.gap
    => s = t
RowsApart(g, h) == \A r \in tx[g].rows, q \in tx[h].rows : ~SameKey(r, q)
TraceInv ==
  /\ OneTestTracePerCommit
  /\ \A t \in traces : t.kind = "test_result" => Tested(results, t)
  /\ \A g \in Graders :
       /\ \A t \in tx[g].traces : t.kind = "test_result" => Tested(tx[g].rows, t)
       /\ TracedOnce(VisibleTraces(g))
  /\ \A g, h \in Graders : g # h => RowsApart(g, h)

LEMMA UpsertTested ==
  ASSUME NEW R, NEW S, NEW t, Tested(R, t) \/ Tested(S, t)
  PROVE  Tested(Upsert(R, S), t)
  BY DEF Tested, Upsert, SameKey

LEMMA TraceInvInit == Init => TraceInv
  BY DEF Init, TraceInv, NoTx, OneTestTracePerCommit, TracedOnce, VisibleTraces, RowsApart

LEMMA TraceInvStep == TypeOK /\ TraceInv /\ [Next]_vars => TraceInv'
<1> SUFFICES ASSUME TypeOK, TraceInv, [Next]_vars PROVE TraceInv'
  OBVIOUS
<1> USE DEF RowsApart
<1>1. CASE SameRows
  BY <1>1 DEF SameRows, TraceInv, OneTestTracePerCommit, TracedOnce, VisibleTraces
<1>2. ASSUME NEW g \in Graders, Dropped(g)
      PROVE  TraceInv'
  <2>1. \A h \in Graders : tx'[h].rows \subseteq tx[h].rows /\ tx'[h].traces \subseteq tx[h].traces
    BY <1>2 DEF Dropped
  <2>2. \A h \in Graders : TracedOnce(VisibleTraces(h))'
    BY <1>2, <2>1 DEF Dropped, TraceInv, TracedOnce, VisibleTraces
  <2>3. \A h \in Graders : \A t \in tx'[h].traces : t.kind = "test_result" => Tested(tx'[h].rows, t)
    BY <1>2 DEF Dropped, TraceInv
  <2> QED BY <1>2, <2>1, <2>2, <2>3 DEF Dropped, TraceInv, OneTestTracePerCommit
<1>3. ASSUME NEW g \in Graders, Observe(g)
      PROVE  TraceInv'
  <2>1. CASE SameRows
    BY <1>1, <2>1
  <2>2. CASE ~SameRows
    <3>1. PICK p :
            /\ UNCHANGED <<results, traces>> /\ \A h \in Graders \ {g} : tx'[h] = tx[h]
            /\ tx'[g].rows = tx[g].rows
            /\ tx'[g].traces = tx[g].traces \cup
                 {[kind |-> "mastery_observation", attempt |-> target[g],
                   commit |-> cur[g], gap |-> p, by |-> g]}
      BY <1>3, <2>2, WhatIsObserved
    <3>2. \A h \in Graders : /\ tx'[h].rows = tx[h].rows
                             /\ \A t \in tx'[h].traces : t.kind = "test_result" => t \in tx[h].traces
      BY <3>1
    <3>3. \A h \in Graders : TracedOnce(VisibleTraces(h))'
      BY <3>1, <3>2 DEF TraceInv, TracedOnce, VisibleTraces
    <3> QED BY <3>1, <3>2, <3>3 DEF TraceInv, OneTestTracePerCommit
  <2> QED BY <2>1, <2>2
<1>4. ASSUME NEW g \in Graders, WriteResults(g)
      PROVE  TraceInv'
  <2>1. PICK c \in todo[g] : \E o \in Eval[c] :
          /\ UNCHANGED <<results, traces>> /\ \A h \in Graders \ {g} : tx'[h] = tx[h]
          /\ tx'[g].rows = Upsert(tx[g].rows, NewRows(g, c, o))
          /\ tx'[g].traces = tx[g].traces \cup TestTraces(g, c, o)
          /\ \A h \in Graders \ {g} : ~Conflict(h, NewRows(g, c, o))
    BY <1>4, WhatIsWritten
  <2>2. PICK o \in Eval[c] :
          /\ UNCHANGED <<results, traces>> /\ \A h \in Graders \ {g} : tx'[h] = tx[h]
          /\ tx'[g].rows = Upsert(tx[g].rows, NewRows(g, c, o))
          /\ tx'[g].traces = tx[g].traces \cup TestTraces(g, c, o)
          /\ \A h \in Graders \ {g} : ~Conflict(h, NewRows(g, c, o))
    BY <2>1
  <2> DEFINE N == NewRows(g, c, o)
             T == TestTraces(g, c, o)
  <2>3. \A t \in T : t.attempt = target[g] /\ t.commit = c /\ Tested(N, t)
    <3> SUFFICES ASSUME NEW t \in T
                 PROVE  t.attempt = target[g] /\ t.commit = c /\ Tested(N, t)
      OBVIOUS
    <3>1. /\ o.status = "ok" /\ o.rows
          /\ t.attempt = target[g] /\ t.commit = c
      BY DEF TestTraces
    <3>2. [attempt |-> target[g], commit |-> c, status |-> o.status, full |-> o.full] \in N
      BY <3>1 DEF NewRows
    <3> QED BY <3>1, <3>2 DEF Tested
  <2>4. \A t \in tx'[g].traces : t.kind = "test_result" => Tested(tx'[g].rows, t)
    BY <2>2, <2>3, UpsertTested DEF TraceInv
  <2>5. ASSUME NEW s \in VisibleTraces(g), NEW t \in T, s.kind = "test_result"
        PROVE  s.attempt # t.attempt \/ s.commit # t.commit
    <3>1. Tested(VisibleRows(g), s)
      BY <2>5 DEF TraceInv, VisibleTraces, VisibleRows, Tested
    <3>2. \A r \in VisibleRows(g) : \A q \in N : ~SameKey(r, q)
      BY <2>5 DEF TestTraces
    <3> QED BY <2>3, <3>1, <3>2 DEF Tested, SameKey
  <2>6. \A s, t \in T : s.gap = t.gap => s = t
    BY DEF TestTraces
  <2>7. TracedOnce(VisibleTraces(g))
    BY DEF TraceInv
  <2>8. VisibleTraces(g)' = VisibleTraces(g) \cup T
    BY <2>2 DEF VisibleTraces
  <2> HIDE DEF N, T
  <2>9. TracedOnce(VisibleTraces(g))'
    BY <2>5, <2>6, <2>7, <2>8 DEF TracedOnce
  <2>10. \A h \in Graders \ {g} : TracedOnce(VisibleTraces(h))'
    BY <2>2 DEF TraceInv, TracedOnce, VisibleTraces
  <2>11. \A r \in tx'[g].rows : r \in tx[g].rows \/ r \in N
    BY <2>2 DEF Upsert, N
  <2>12. \A h \in Graders \ {g} : \A q \in tx[h].rows : \A r \in N : ~SameKey(r, q) /\ ~SameKey(q, r)
    BY <2>2 DEF Conflict, SameKey, N
  <2>13. \A h, i \in Graders : h # i => RowsApart(h, i)'
    BY <2>2, <2>11, <2>12 DEF TraceInv
  <2> QED BY <2>2, <2>4, <2>9, <2>10, <2>13 DEF TraceInv, OneTestTracePerCommit
<1>5. ASSUME NEW g \in Graders, Publish(g)
      PROVE  TraceInv'
  <2>1. /\ results' = Upsert(results, tx[g].rows) /\ traces' = VisibleTraces(g)
        /\ tx'[g] = NoTx /\ \A h \in Graders \ {g} : tx'[h] = tx[h]
    BY <1>5, PublishType DEF Publish, VisibleTraces
  <2>2. NoTx.rows = {} /\ NoTx.traces = {}
    BY DEF NoTx
  <2>3. OneTestTracePerCommit'
    BY <2>1 DEF TraceInv, OneTestTracePerCommit, TracedOnce
  <2>4. \A t \in traces' : t.kind = "test_result" => Tested(results', t)
    BY <2>1, UpsertTested DEF TraceInv, VisibleTraces
  <2>5. \A h \in Graders : \A t \in tx'[h].traces : t.kind = "test_result" => Tested(tx'[h].rows, t)
    BY <2>1, <2>2 DEF TraceInv
  <2>6. \A h, i \in Graders : h # i => RowsApart(h, i)'
    BY <2>1, <2>2 DEF TraceInv
  <2>7. ASSUME NEW h \in Graders \ {g}, NEW s \in tx[g].traces, NEW t \in tx[h].traces,
               s.kind = "test_result", t.kind = "test_result"
        PROVE  s.attempt # t.attempt \/ s.commit # t.commit
    <3>1. Tested(tx[g].rows, s) /\ Tested(tx[h].rows, t) /\ RowsApart(g, h)
      BY <2>7 DEF TraceInv
    <3> QED BY <3>1 DEF Tested, SameKey
  <2>8. ASSUME NEW h \in Graders
        PROVE  TracedOnce(VisibleTraces(h))'
    <3>1. CASE h = g
      <4>1. VisibleTraces(h)' = traces'
        BY <2>1, <2>2, <3>1 DEF VisibleTraces
      <4> QED BY <4>1, <2>3 DEF OneTestTracePerCommit, TracedOnce
    <3>2. CASE h # g
      <4>1. VisibleTraces(h)' = traces \cup tx[g].traces \cup tx[h].traces
        BY <2>1, <3>2 DEF VisibleTraces
      <4>2. TracedOnce(traces \cup tx[g].traces) /\ TracedOnce(traces \cup tx[h].traces)
        BY DEF TraceInv, VisibleTraces
      <4> QED BY <2>7, <3>2, <4>1, <4>2 DEF TracedOnce
    <3> QED BY <3>1, <3>2
  <2> QED BY <2>3, <2>4, <2>5, <2>6, <2>8 DEF TraceInv
<1> QED BY <1>1, <1>2, <1>3, <1>4, <1>5, RowChanges

\* Invariant 8, for any number of graders: a commit's tests are traced once,
\* whoever grades it again and whatever was rolled back meanwhile.
THEOREM TestsTracedOnce == Spec => []OneTestTracePerCommit
<1>1. TypeOK /\ TraceInv /\ [Next]_vars => TraceInv'
  BY TraceInvStep
<1>2. TraceInv => OneTestTracePerCommit
  BY DEF TraceInv
<1> QED BY <1>1, <1>2, TraceInvInit, TypeCorrect, PTL DEF Spec

\* The commits of one attempt: collected, not older than its row, and older
\* than every later row.
Belongs(c, a) ==
  /\ c \in raw /\ a <= latest
  /\ CommitTime[c] >= attempts[a].start
  /\ \A b \in Attempts : a < b /\ b <= latest => CommitTime[c] < attempts[b].start

\* Every attempt but the highest is frozen, and a started_at is never written
\* over: what a transaction holds of an attempt keeps it.
StartsInv ==
  /\ \A a \in Attempts : a < latest => ~Open(a)
  /\ \A g \in Graders : tx[g].locked => tx[g].att.start = attempts[target[g]].start

\* The inductive invariant: a commit with a row, or on a grader's list, is of
\* the attempt it is graded for.
BelongsInv ==
  /\ \A r \in results : Belongs(r.commit, r.attempt)
  /\ \A g \in Graders :
       /\ \A r \in tx[g].rows : Belongs(r.commit, r.attempt)
       /\ \A c \in todo[g] : Belongs(c, target[g])

LEMMA StartsInit == Init => StartsInv /\ BelongsInv
  BY CountsAssumption DEF Init, StartsInv, BelongsInv, NoTx

\* The row a grader reads has the attempt's started_at, and so has what it
\* writes.
LEMMA WritesStart ==
  ASSUME TypeOK, StartsInv, NEW g \in Graders, NEW c \in Commits
  PROVE  LET row == Frozen(AttemptRow(g), c, out[g])
             s   == attempts[target[g]].start
         IN  /\ row.start = s /\ [row EXCEPT !.scope = c].start = s
             /\ [AttemptRow(g) EXCEPT !.lint = c].start = s
<1>1. AttemptRow(g).start = attempts[target[g]].start
  BY DEF StartsInv, AttemptRow
<1>2. AttemptRow(g) \in Attempt /\ Frozen(AttemptRow(g), c, out[g]) \in Attempt
  BY RowTypes
<1>3. Frozen(AttemptRow(g), c, out[g]).start = attempts[target[g]].start
  BY <1>1, <1>2 DEF Frozen, Attempt
<1> QED BY <1>1, <1>2, <1>3 DEF Attempt

\* A step never changes the start of an attempt there is.
LEMMA StartsKept ==
  ASSUME TypeOK, LockInv, StartsInv, [Next]_vars
  PROVE  /\ \A a \in Attempts : a <= latest => attempts'[a].start = attempts[a].start
         /\ \A g \in Graders :
              tx'[g].locked => tx'[g].att.start = attempts'[target'[g]].start
<1> DEFINE Kept == /\ \A a \in Attempts : a <= latest => attempts'[a].start = attempts[a].start
                   /\ \A g \in Graders :
                        tx'[g].locked => tx'[g].att.start = attempts'[target'[g]].start
<1> SUFFICES Kept
  OBVIOUS
<1>1. /\ latest \in Nat /\ \A g \in Graders : target[g] \in Attempts /\ target[g] <= latest
      /\ tx \in [Graders -> Tx] /\ attempts \in [Attempts -> Attempt]
      /\ target \in [Graders -> Attempts]
  BY CountsAssumption DEF TypeOK, LockInv
<1>2. ASSUME attempts' = attempts, target' = target,
             \A h \in Graders : tx'[h].locked => tx[h].locked /\ tx'[h].att = tx[h].att
      PROVE  Kept
  BY <1>2 DEF StartsInv
<1>3. CASE UNCHANGED vars \/ EditRoster \/ \E c \in Commits : Collect(c)
  BY <1>2, <1>3 DEF vars, EditRoster, Collect, local
<1>4. CASE NextAttempt
  <2>1. \A a \in Attempts : a <= latest => attempts'[a] = attempts[a]
    BY <1>1, <1>4, NextAttemptFresh
  <2>2. UNCHANGED <<tx, target>>
    BY <1>4, NextAttemptFresh
  <2> QED BY <1>1, <2>1, <2>2 DEF StartsInv
<1>5. ASSUME NEW g \in Graders, Start(g) PROVE Kept
  <2>1. ~tx[g].locked
    <3>1. tx[g] = NoTx
      BY <1>5 DEF Start, TypeOK
    <3> QED BY <3>1 DEF NoTx
  <2>2. \A h \in Graders \ {g} : target'[h] = target[h]
    BY <1>1, <1>5 DEF Start
  <2> QED BY <1>5, <2>1, <2>2 DEF Start, shared, StartsInv
<1>6. ASSUME NEW g \in Graders,
             \/ CommitFails(g) \/ WriteResults(g) \/ Observe(g) \/ UpdateProfile(g)
             \/ RowsRefused(g) \/ UpdateRefused(g) \/ Crash(g)
      PROVE  Kept
  BY <1>2, <1>6, QuietSteps
<1>7. ASSUME NEW g \in Graders, UpdateAttempt(g) PROVE Kept
  <2> DEFINE row == Frozen(AttemptRow(g), cur[g], out[g])
  <2>1. attempts' = attempts /\ target' = target /\ cur[g] \in Commits
    BY <1>7 DEF UpdateAttempt, shared, TypeOK
  <2>2. CASE tx' = tx
    BY <1>2, <2>1, <2>2
  <2>3. CASE tx' # tx
    <3>1. PICK new : /\ tx' = [tx EXCEPT ![g].locked = TRUE, ![g].att = new]
                     /\ new = row \/ new = [row EXCEPT !.scope = cur[g]]
      BY <1>7, <2>3 DEF UpdateAttempt
    <3>2. new.start = attempts[target[g]].start
      BY <2>1, <3>1, WritesStart
    <3> HIDE DEF row
    <3>3. tx'[g].att = new /\ \A h \in Graders \ {g} : tx'[h] = tx[h]
      BY <1>1, <3>1 DEF Tx
    <3> QED BY <2>1, <3>2, <3>3 DEF StartsInv
  <2> QED BY <2>2, <2>3
<1>8. ASSUME NEW g \in Graders, RecordLint(g) PROVE Kept
  <2> DEFINE new == [AttemptRow(g) EXCEPT !.lint = cur[g]]
  <2>1. target' = target /\ cur[g] \in Commits
    BY <1>8 DEF RecordLint, TypeOK
  <2>2. new.start = attempts[target[g]].start
    BY <2>1, WritesStart
  <2>3. \/ attempts' = attempts /\ tx' = tx
        \/ attempts' = [attempts EXCEPT ![target[g]] = new] /\ tx' = tx
        \/ attempts' = attempts /\ tx' = [tx EXCEPT ![g].locked = TRUE, ![g].att = new]
    BY <1>8 DEF RecordLint
  <2> HIDE DEF new
  <2>4. CASE attempts' = attempts /\ tx' = tx
    BY <1>2, <2>1, <2>4
  <2>5. CASE attempts' = [attempts EXCEPT ![target[g]] = new] /\ tx' = tx
    <3>1. \A a \in Attempts : attempts'[a].start = attempts[a].start
      BY <1>1, <2>2, <2>5
    <3> QED BY <1>1, <2>1, <2>5, <3>1 DEF StartsInv
  <2>6. CASE attempts' = attempts /\ tx' = [tx EXCEPT ![g].locked = TRUE, ![g].att = new]
    <3>1. tx'[g].att = new /\ \A h \in Graders \ {g} : tx'[h] = tx[h]
      BY <1>1, <2>6 DEF Tx
    <3> QED BY <2>1, <2>2, <2>6, <3>1 DEF StartsInv
  <2> QED BY <2>3, <2>4, <2>5, <2>6
<1>9. ASSUME NEW g \in Graders, CommitGrade(g) \/ EndRun(g) PROVE Kept
  <2>1. Publish(g) /\ target' = target
    BY <1>9 DEF CommitGrade, EndRun
  <2>2. \A a \in Attempts : attempts'[a].start = attempts[a].start
    BY <1>1, <2>1 DEF Publish, StartsInv
  <2>3. \A h \in Graders : tx'[h].locked => tx[h].locked /\ tx'[h] = tx[h]
    BY <2>1, PublishType DEF NoTx
  <2> QED BY <1>1, <2>1, <2>2, <2>3 DEF StartsInv
<1> HIDE DEF Kept
<1> QED BY <1>3, <1>4, <1>5, <1>6, <1>7, <1>8, <1>9, StepCases

\* The next attempt may start only once the highest one is frozen: without
\* --force there is one open attempt at most.
LEMMA StartsInvStep ==
  ASSUME ~Forced, TypeOK, LockInv, StartsInv, [Next]_vars
  PROVE  StartsInv'
<1>1. latest \in Nat /\ latest \in Attempts
  BY CountsAssumption DEF TypeOK
<1>2. latest' = latest \/ NextAttempt
  BY StepCases DEF vars, shared, EditRoster, Collect, Start, CommitFails, WriteResults, Observe,
     UpdateProfile, UpdateAttempt, CommitGrade, RecordLint, RowsRefused,
     UpdateRefused, EndRun, Crash
<1>3. \A a \in Attempts : ~Open(a) => ~Open(a)'
  BY FinalStep DEF Final, Open
<1>4. NextAttempt => latest' = latest + 1 /\ ~Open(latest)
  BY DEF NextAttempt, MayStartNext
<1>5. \A a \in Attempts : a < latest' => ~Open(a)'
  BY <1>1, <1>2, <1>3, <1>4 DEF StartsInv
<1> QED BY <1>5, StartsKept DEF StartsInv

\* A commit that belongs to an attempt does so for good: the next one starts
\* later than every commit collected so far.
LEMMA BelongsStays ==
  ASSUME TypeOK, LockInv, StartsInv, [Next]_vars,
         NEW c \in Commits, NEW a \in Attempts, Belongs(c, a)
  PROVE  Belongs(c, a)'
<1>1. latest \in Nat /\ CommitTime[c] \in Nat
  BY CountsAssumption, TimeAssumption DEF TypeOK
<1>2. \/ latest' = latest
      \/ latest' = latest + 1 /\ CommitTime[c] < attempts'[latest + 1].start
  <2>1. latest' = latest \/ NextAttempt
    BY StepCases DEF vars, shared, EditRoster, Collect, Start, CommitFails, WriteResults, Observe,
       UpdateProfile, UpdateAttempt, CommitGrade, RecordLint, RowsRefused,
       UpdateRefused, EndRun, Crash
  <2>2. CASE NextAttempt
    <3>1. PICK now \in {1} \cup {CommitTime[d] + 1 : d \in raw} :
            /\ \A d \in raw : CommitTime[d] < now
            /\ attempts' = [attempts EXCEPT ![latest + 1] =
                              [FreshAttempt EXCEPT !.start = now]]
      BY <2>2 DEF NextAttempt
    <3>2. latest + 1 \in Attempts /\ attempts \in [Attempts -> Attempt]
      BY <1>1, <2>2, CountsAssumption DEF NextAttempt, TypeOK
    <3>3. attempts'[latest + 1].start = now
      BY <3>1, <3>2 DEF FreshAttempt
    <3>4. CommitTime[c] < now
      BY <3>1 DEF Belongs
    <3> QED BY <2>2, <3>3, <3>4 DEF NextAttempt
  <2> QED BY <2>1, <2>2
<1>3. c \in raw'
  BY StepCases DEF Belongs, vars, shared, EditRoster, Collect, NextAttempt, Start, CommitFails,
     WriteResults, Observe, UpdateProfile, UpdateAttempt, CommitGrade, RecordLint,
     RowsRefused, UpdateRefused, EndRun, Crash
<1>4. \A b \in Attempts : b <= latest => attempts'[b].start = attempts[b].start
  BY StartsKept
<1>5. a <= latest'
  BY <1>1, <1>2 DEF Belongs
<1>6. CommitTime[c] >= attempts'[a].start
  BY <1>4 DEF Belongs
<1>7. ASSUME NEW b \in Attempts, a < b, b <= latest'
      PROVE  CommitTime[c] < attempts'[b].start
  <2>1. b <= latest \/ (b = latest + 1 /\ latest' = latest + 1)
    BY <1>1, <1>2, <1>7, CountsAssumption
  <2>2. CASE b <= latest
    BY <1>4, <1>7, <2>2 DEF Belongs
  <2>3. CASE b = latest + 1 /\ latest' = latest + 1
    BY <1>1, <1>2, <2>3
  <2> QED BY <2>1, <2>2, <2>3
<1> QED BY <1>3, <1>5, <1>6, <1>7 DEF Belongs

LEMMA BelongsInvStep ==
  ASSUME TypeOK, LockInv, StartsInv, BelongsInv, [Next]_vars
  PROVE  BelongsInv'
<1>1. /\ latest \in Nat /\ results \subseteq Row /\ tx \in [Graders -> Tx]
      /\ todo \in [Graders -> SUBSET Commits] /\ target \in [Graders -> Attempts]
      /\ raw \subseteq Commits
  BY CountsAssumption DEF TypeOK
<1>2. /\ \A r \in results : Belongs(r.commit, r.attempt)'
      /\ \A h \in Graders : \A r \in tx[h].rows : Belongs(r.commit, r.attempt)'
  <2>1. \A r \in Row : r.commit \in Commits /\ r.attempt \in Attempts
    BY DEF Row
  <2>2. \A h \in Graders : tx[h].rows \subseteq Row
    BY <1>1 DEF Tx
  <2> QED BY <1>1, <2>1, <2>2, BelongsStays DEF BelongsInv
<1>3. \A h \in Graders : \A c \in todo[h] : \A a : a = target[h] => Belongs(c, a)'
  <2> SUFFICES ASSUME NEW h \in Graders, NEW c \in todo[h], NEW a, a = target[h]
               PROVE  Belongs(c, a)'
    OBVIOUS
  <2>1. c \in Commits /\ a \in Attempts
    BY <1>1
  <2>2. Belongs(c, a)
    BY DEF BelongsInv
  <2> QED BY <2>1, <2>2, BelongsStays
<1>4. \A h \in Graders : \A c \in todo'[h] : \A a : a = target'[h] => Belongs(c, a)'
  <2>1. CASE \E g \in Graders : Start(g)
    <3>1. PICK g \in Graders : Start(g)
      BY <2>1
    <3>2. PICK a \in 1..latest :
            /\ IsTarget(a) /\ target' = [target EXCEPT ![g] = a]
            /\ \/ todo' = [todo EXCEPT ![g] = Pending(a)]
               \/ \E c \in Pending(a) : todo' = [todo EXCEPT ![g] = {c}]
      BY <3>1 DEF Start
    <3>3. a = latest
      <4>1. a \in Attempts /\ a <= latest
        <5>1. a \in 1..latest /\ latest \in 1..MaxAttempt
          BY <3>2 DEF TypeOK
        <5> QED BY <1>1, <5>1, CountsAssumption
      <4>2. latest \in Attempts
        BY DEF TypeOK
      <4> QED BY <1>1, <3>2, <4>1, <4>2 DEF StartsInv, IsTarget
    <3>4. \A c \in Pending(a) : Belongs(c, a)
      BY <1>1, <3>3 DEF Pending, Window, Belongs
    <3>5. UNCHANGED <<raw, latest, attempts>>
      BY <3>1 DEF Start, shared
    <3>6. \A c \in todo'[g] : c \in Pending(a)
      BY <1>1, <3>2
    <3>7. target'[g] = a
      BY <1>1, <3>2
    <3>8. \A c \in todo'[g] : Belongs(c, a)'
      BY <3>4, <3>5, <3>6 DEF Belongs
    <3>9. \A h \in Graders \ {g} : todo'[h] = todo[h] /\ target'[h] = target[h]
      BY <1>1, <3>2
    <3> QED BY <1>3, <3>7, <3>8, <3>9
  <2>2. CASE ~\E g \in Graders : Start(g)
    <3>1. target' = target
      BY <2>2, StepCases DEF vars, local, shared, EditRoster, Collect, NextAttempt, CommitFails,
         WriteResults, Observe, UpdateProfile, UpdateAttempt, CommitGrade, RecordLint,
         RowsRefused, UpdateRefused, EndRun, Crash
    <3>2. \A h \in Graders : todo'[h] \subseteq todo[h]
      <4>1. CASE todo' = todo
        BY <4>1
      <4>2. ASSUME NEW g \in Graders, todo' = [todo EXCEPT ![g] = {}]
            PROVE  \A h \in Graders : todo'[h] \subseteq todo[h]
        BY <1>1, <4>2
      <4>3. ASSUME NEW g \in Graders, NEW c, todo' = [todo EXCEPT ![g] = @ \ {c}]
            PROVE  \A h \in Graders : todo'[h] \subseteq todo[h]
        BY <1>1, <4>3
      <4>4. ASSUME NEW g \in Graders, CommitFails(g) \/ WriteResults(g) \/ RowsRefused(g)
            PROVE  \E c : todo' = [todo EXCEPT ![g] = @ \ {c}]
        BY <4>4 DEF CommitFails, LeaveOut, WriteResults, RowsRefused
      <4>5. ASSUME NEW g \in Graders, Crash(g)
            PROVE  todo' = [todo EXCEPT ![g] = {}]
        BY <4>5 DEF Crash
      <4>6. \/ todo' = todo
            \/ \E g \in Graders : CommitFails(g) \/ WriteResults(g) \/ RowsRefused(g) \/ Crash(g)
        BY <2>2, StepCases DEF vars, local, EditRoster, Collect, NextAttempt, Observe, UpdateProfile,
           UpdateAttempt, CommitGrade, RecordLint, UpdateRefused, EndRun
      <4> QED BY <4>1, <4>2, <4>3, <4>4, <4>5, <4>6
    <3> QED BY <1>3, <3>1, <3>2
  <2> QED BY <2>1, <2>2
<1>5. /\ \A r \in results' : Belongs(r.commit, r.attempt)'
      /\ \A h \in Graders : \A r \in tx'[h].rows : Belongs(r.commit, r.attempt)'
  <2>1. CASE SameRows
    BY <1>2, <2>1 DEF SameRows
  <2>2. ASSUME NEW g \in Graders, Dropped(g)
        PROVE  /\ results' = results /\ \A h \in Graders : tx'[h].rows \subseteq tx[h].rows
    BY <2>2 DEF Dropped
  <2>3. ASSUME NEW g \in Graders, Observe(g)
        PROVE  /\ results' = results /\ \A h \in Graders : tx'[h].rows = tx[h].rows
    BY <2>3, WhatIsObserved DEF SameRows
  <2>4. ASSUME NEW g \in Graders, Publish(g)
        PROVE  /\ \A r \in results' : r \in results \/ r \in tx[g].rows
               /\ \A h \in Graders : tx'[h].rows \subseteq tx[h].rows
    BY <2>4, PublishType DEF Publish, Upsert, NoTx
  <2>5. ASSUME NEW g \in Graders, WriteResults(g)
        PROVE  /\ results' = results
               /\ \A h \in Graders \ {g} : tx'[h].rows = tx[h].rows
               /\ \A r \in tx'[g].rows : Belongs(r.commit, r.attempt)'
    <3>1. PICK c \in todo[g] : \E o \in Eval[c] :
            /\ UNCHANGED <<results, traces>> /\ \A h \in Graders \ {g} : tx'[h] = tx[h]
            /\ tx'[g].rows = Upsert(tx[g].rows, NewRows(g, c, o))
      BY <2>5, WhatIsWritten
    <3>2. PICK o \in Eval[c] : tx'[g].rows = Upsert(tx[g].rows, NewRows(g, c, o))
      BY <3>1
    <3>3. PICK a : a = target[g]
      OBVIOUS
    <3>4. Belongs(c, a)'
      BY <1>3, <3>3
    <3>5. \A r \in NewRows(g, c, o) : r.commit = c /\ r.attempt = a
      BY <3>3 DEF NewRows
    <3>6. \A r \in tx'[g].rows : r \in tx[g].rows \/ (r.commit = c /\ r.attempt = a)
      BY <3>2, <3>5 DEF Upsert
    <3>7. \A r \in tx'[g].rows : Belongs(r.commit, r.attempt)'
      BY <1>2, <3>6, <3>4
    <3> QED BY <3>1, <3>7
  <2>6. CASE \E g \in Graders : Dropped(g) \/ Observe(g) \/ Publish(g)
    BY <1>2, <2>2, <2>3, <2>4, <2>6
  <2>7. CASE \E g \in Graders : WriteResults(g)
    BY <1>2, <2>5, <2>7
  <2> QED BY <2>1, <2>6, <2>7, RowChanges
<1> QED BY <1>4, <1>5 DEF BelongsInv

\* Without --force, for any number of graders: a commit is graded for one
\* attempt, the one it was pushed in.
THEOREM OneAttemptOfACommit ==
  ASSUME ~Forced PROVE Spec => []OneAttemptPerCommit
<1>1. TypeOK /\ LockInv /\ StartsInv /\ [Next]_vars => StartsInv'
  BY StartsInvStep
<1>2. TypeOK /\ LockInv /\ StartsInv /\ BelongsInv /\ [Next]_vars => BelongsInv'
  BY BelongsInvStep
<1>3. TypeOK /\ BelongsInv => OneAttemptPerCommit
  <2> SUFFICES ASSUME TypeOK, BelongsInv, NEW r \in results, NEW q \in results,
                      r.commit = q.commit
               PROVE  r.attempt = q.attempt
    BY DEF OneAttemptPerCommit
  <2>1. /\ r.attempt \in Nat /\ q.attempt \in Nat /\ CommitTime[r.commit] \in Nat
        /\ r.attempt \in Attempts /\ q.attempt \in Attempts
    BY TimeAssumption, CountsAssumption DEF TypeOK, Row
  <2>2. \A b \in Attempts : attempts[b].start \in Nat
    BY DEF TypeOK, Attempt
  <2>3. Belongs(r.commit, r.attempt) /\ Belongs(r.commit, q.attempt)
    BY DEF BelongsInv
  <2> QED BY <2>1, <2>2, <2>3 DEF Belongs
<1> QED BY <1>1, <1>2, <1>3, StartsInit, LocksCorrect, PTL DEF Spec

----------------------------------------------------------------------------
(* D-079: the look for an earlier observation sees what is committed and    *)
(* what its own transaction wrote, so one grader never observes a gap of an *)
(* attempt twice.  Two graders may (the run grading_race).                  *)

ObservedOnce(T, g) ==
  \A s, t \in T :
    /\ s.kind = "mastery_observation" /\ t.kind = "mastery_observation"
    /\ s.attempt = t.attempt /\ s.gap = t.gap /\ s.by = g /\ t.by = g
    => s = t

\* The inductive invariant: a transaction holds its own grader's traces, and
\* with those committed it holds one observation of a gap.
ObservedInv ==
  \A g \in Graders : /\ \A t \in tx[g].traces : t.by = g
                     /\ ObservedOnce(VisibleTraces(g), g)

LEMMA ObservedInvInit == Init => ObservedInv
  BY DEF Init, ObservedInv, ObservedOnce, VisibleTraces, NoTx

LEMMA ObservedInvStep == TypeOK /\ ObservedInv /\ [Next]_vars => ObservedInv'
<1> SUFFICES ASSUME TypeOK, ObservedInv, [Next]_vars PROVE ObservedInv'
  OBVIOUS
<1>1. CASE SameRows
  BY <1>1 DEF SameRows, ObservedInv, ObservedOnce, VisibleTraces
<1>2. ASSUME NEW g \in Graders, Dropped(g)
      PROVE  ObservedInv'
  <2>1. traces' = traces /\ \A h \in Graders : tx'[h].traces \subseteq tx[h].traces
    BY <1>2 DEF Dropped
  <2> QED BY <2>1 DEF ObservedInv, ObservedOnce, VisibleTraces
\* A step that adds the traces T, g's own, to g's transaction.
<1>3. ASSUME NEW g \in Graders, NEW T, traces' = traces,
             \A h \in Graders \ {g} : tx'[h] = tx[h],
             tx'[g].traces = tx[g].traces \cup T,
             \A t \in T : t.by = g,
             ObservedOnce(VisibleTraces(g) \cup T, g)
      PROVE  ObservedInv'
  <2>1. VisibleTraces(g)' = VisibleTraces(g) \cup T
    BY <1>3 DEF VisibleTraces
  <2>2. ObservedOnce(VisibleTraces(g), g)'
    BY <1>3, <2>1 DEF ObservedOnce
  <2>3. \A h \in Graders \ {g} : ObservedOnce(VisibleTraces(h), h)'
    BY <1>3 DEF ObservedInv, ObservedOnce, VisibleTraces
  <2> QED BY <1>3, <2>2, <2>3 DEF ObservedInv
<1>4. ASSUME NEW g \in Graders, Observe(g)
      PROVE  ObservedInv'
  <2>1. CASE SameRows
    BY <1>1, <2>1
  <2>2. CASE ~SameRows
    <3>1. PICK p \in Unobserved(g, out[g]) :
            /\ UNCHANGED <<results, traces>> /\ \A h \in Graders \ {g} : tx'[h] = tx[h]
            /\ tx'[g].traces = tx[g].traces \cup
                 {[kind |-> "mastery_observation", attempt |-> target[g],
                   commit |-> cur[g], gap |-> p, by |-> g]}
      BY <1>4, <2>2, WhatIsObserved
    <3> DEFINE new == [kind |-> "mastery_observation", attempt |-> target[g],
                       commit |-> cur[g], gap |-> p, by |-> g]
    <3>2. \A t \in VisibleTraces(g) :
            ~(t.kind = "mastery_observation" /\ t.attempt = new.attempt /\ t.gap = new.gap)
      BY <3>1 DEF Unobserved
    <3>3. new.by = g
      OBVIOUS
    <3>4. tx'[g].traces = tx[g].traces \cup {new}
      BY <3>1
    <3> HIDE DEF new
    <3>5. ObservedOnce(VisibleTraces(g) \cup {new}, g)
      BY <3>2 DEF ObservedInv, ObservedOnce
    <3>6. PICK T : T = {new}
      OBVIOUS
    <3>7. /\ tx'[g].traces = tx[g].traces \cup T /\ \A t \in T : t.by = g
          /\ ObservedOnce(VisibleTraces(g) \cup T, g)
      BY <3>3, <3>4, <3>5, <3>6
    <3> QED BY <1>3, <3>1, <3>7
  <2> QED BY <2>1, <2>2
<1>5. ASSUME NEW g \in Graders, WriteResults(g)
      PROVE  ObservedInv'
  <2>1. PICK c \in todo[g] : \E o \in Eval[c] :
          /\ UNCHANGED <<results, traces>> /\ \A h \in Graders \ {g} : tx'[h] = tx[h]
          /\ tx'[g].traces = tx[g].traces \cup TestTraces(g, c, o)
    BY <1>5, WhatIsWritten
  <2>2. PICK o \in Eval[c] :
          /\ UNCHANGED <<results, traces>> /\ \A h \in Graders \ {g} : tx'[h] = tx[h]
          /\ tx'[g].traces = tx[g].traces \cup TestTraces(g, c, o)
    BY <2>1
  <2>3. \A t \in TestTraces(g, c, o) : t.kind = "test_result" /\ t.by = g
    BY DEF TestTraces
  <2>4. ObservedOnce(VisibleTraces(g) \cup TestTraces(g, c, o), g)
    BY <2>3 DEF ObservedInv, ObservedOnce
  <2> QED BY <1>3, <2>2, <2>3, <2>4
<1>6. ASSUME NEW g \in Graders, Publish(g)
      PROVE  ObservedInv'
  <2>1. /\ traces' = traces \cup tx[g].traces
        /\ tx'[g].traces = {} /\ \A h \in Graders \ {g} : tx'[h] = tx[h]
    BY <1>6, PublishType DEF Publish, NoTx
  <2>2. ObservedOnce(VisibleTraces(g), g)'
    BY <2>1 DEF ObservedInv, ObservedOnce, VisibleTraces
  <2>3. ASSUME NEW h \in Graders \ {g}
        PROVE  ObservedOnce(VisibleTraces(h), h)'
    <3>1. \A t \in VisibleTraces(h)' : t \in VisibleTraces(h) \/ t.by = g
      BY <2>1 DEF ObservedInv, VisibleTraces
    <3>2. ObservedOnce(VisibleTraces(h), h)
      BY DEF ObservedInv
    <3> QED BY <3>1, <3>2 DEF ObservedOnce
  <2> QED BY <2>1, <2>2, <2>3 DEF ObservedInv
<1> QED BY <1>1, <1>2, <1>4, <1>5, <1>6, RowChanges

LEMMA ObservationsCorrect == Spec => [](TypeOK /\ ObservedInv)
<1>1. TypeOK /\ ObservedInv /\ [Next]_vars => ObservedInv'
  BY ObservedInvStep
<1> QED BY <1>1, ObservedInvInit, TypeCorrect, PTL DEF Spec

\* Whatever other graders do and however transactions end: one grader's
\* observations of a gap of an attempt are one.
THEOREM OneObservationOfAGrader ==
  Spec => [](\A g \in Graders : ObservedOnce(traces, g))
<1>1. ObservedInv => \A g \in Graders : ObservedOnce(traces, g)
  BY DEF ObservedInv, ObservedOnce, VisibleTraces
<1> QED BY <1>1, ObservationsCorrect, PTL

\* D-079 holds where one process grades, for any number of commits, attempts
\* and gaps.
THEOREM OneObservationOfAGap ==
  ASSUME \A g, h \in Graders : g = h PROVE Spec => []OneObservationPerGap
<1>1. TypeOK /\ ObservedInv => OneObservationPerGap
  <2> SUFFICES ASSUME TypeOK, ObservedInv, NEW s \in traces, NEW t \in traces,
                      s.kind = "mastery_observation", t.kind = "mastery_observation",
                      s.attempt = t.attempt, s.gap = t.gap
               PROVE  s = t
    BY DEF OneObservationPerGap
  <2>1. s.by \in Graders /\ t.by = s.by
    BY DEF TypeOK, Trace
  <2> QED BY <2>1 DEF ObservedInv, ObservedOnce, VisibleTraces
<1> QED BY <1>1, ObservationsCorrect, PTL
=============================================================================
