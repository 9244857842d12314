--------------------------- MODULE DeliveryProofs ---------------------------
(***************************************************************************)
(* Theorems about Delivery, for any number of attempts, variants, runs and *)
(* faults.                                                                 *)
(*                                                                         *)
(* Three inductive invariants.  Sound holds whoever meets: a run says, and *)
(* a roster command names, only what the run has seen published.  Quiet    *)
(* and Rendered hold while no two runs met: then a run is alone, the issue *)
(* it works with is the one in the row, and what it rendered is what the   *)
(* row says.                                                               *)
(***************************************************************************)
EXTENDS Delivery, TLAPS

\* The steps of a run, and those at which its repository has its commits.
Seeking    == {"issue", "create issue", "record", "look", "comment", "print"}
Announcing == Seeking \cup {"invite"}
Publishing == {"render", "check", "create", "push"}
Steps      == {"idle", "attempt", "state", "roster"} \cup Publishing \cup Announcing

\* The types of what TypeOK leaves to the steps.
LocalsOK ==
  /\ pc \in [Procs -> Steps]
  /\ next \in [Procs -> 0..MaxAttempt] /\ old \in [Procs -> 0..MaxAttempt]
  /\ tree \in [Procs -> Variants \cup {NoVariant}] /\ number \in [Procs -> Nat]
  /\ printed \in 0..MaxAttempt /\ raced \in BOOLEAN
  /\ made \subseteq Attempts /\ adrift \subseteq Attempts

\* What a run's step says of its attempt and of the attempt's repository.
RunSound(p) ==
  /\ p \in Publishers => pc[p] \in Publishing \cup {"idle", "roster"}
  /\ p \in Deliverers /\ pc[p] # "idle" =>
       /\ pc[p] # "roster" /\ next[p] >= 2 /\ old[p] # None
       /\ next[p] - 1 \in frozen \/ next[p] \in WithRow
  /\ pc[p] \in Announcing \cup {"roster"} => repo[next[p]] = "has_commits"
  /\ pc[p] \in Seeking => next[p] \in invited

Sound ==
  /\ TypeOK /\ LocalsOK
  /\ \A p \in Procs : RunSound(p)
  /\ touched # {} => roster # None
  /\ \A n \in Attempts : repo[n] = "has_commits" => n \in WithRow
  /\ printed # None => repo[printed] = "has_commits"
  /\ \A i \in 1..Len(comments) : comments[i].next >= 2
  /\ NextAfterFreeze /\ WhatIsSaidIsThere

\* No two runs are at work, and the issue of a delivery is the one in the row.
Alone == \A p, q \in Procs : pc[p] # "idle" /\ pc[q] # "idle" => p = q
IssueOfRow(p) ==
  /\ pc[p] \in {"create issue", "record"} => issueRow[Done(p)] = None
  /\ pc[p] \in {"look", "comment", "print"} => number[p] = issueRow[Done(p)]
Unsaid(p) ==
  pc[p] = "comment" => \A i \in 1..Len(comments) :
                         ~ (comments[i].repo = old[p] /\ comments[i].next = next[p])
Quiet ==
  ~raced => /\ Alone
            /\ \A p \in Procs : IssueOfRow(p) /\ Unsaid(p)
            /\ \A i \in 1..Len(comments) : comments[i].issue = issueRow[comments[i].next - 1]
            /\ OneDeliveryComment

\* What is rendered for a repository that is not there yet is what the row says.
TreeOfRow(p) ==
  pc[p] \in {"check", "create", "push"} /\ repo[next[p]] # "has_commits" /\ next[p] \notin adrift =>
    tree[p] = variant[next[p]]
Rendered ==
  /\ \A n \in frozen \ adrift : repo[n] = "has_commits"
  /\ ~raced => (\A p \in Procs : TreeOfRow(p)) /\ PublishedAsRecorded

-----------------------------------------------------------------------------
(* Lemmas.                                                                 *)

\* What Append does to a sequence.
LEMMA Appended ==
  ASSUME NEW S, NEW s \in Seq(S), NEW e \in S
  PROVE  /\ Append(s, e) \in Seq(S)
         /\ Len(s) \in Nat /\ Len(Append(s, e)) = Len(s) + 1
         /\ \A i \in 1..Len(s) : Append(s, e)[i] = s[i]
         /\ Append(s, e)[Len(s) + 1] = e
BY SMT

\* An entry of a sequence is of its type.
LEMMA ElementOf ==
  ASSUME NEW T, NEW s \in Seq(T), NEW i \in 1..Len(s)
  PROVE  s[i] \in T
OBVIOUS

\* The steps of one run, the first and the last included.
Moves(p) ==
  \/ p \in Deliverers /\ (Deliver(p) \/ Resume(p))
  \/ p \in Publishers /\ \E n \in Attempts : Publish(p, n)
  \/ Step(p) \/ Stop(p)
Beside ==
  \/ \E n \in Attempts, full \in BOOLEAN : GradeCommit(n, full)
  \/ \E n \in Attempts : OpenIssue(n)
  \/ MasteryMoves \/ RosterApply \/ NextAttempt

\* Every step is one of a run, or one beside the runs.
LEMMA StepCases ==
  [Next]_vars <=> Beside \/ (\E p \in Procs : Moves(p)) \/ UNCHANGED vars
<1>1. \A p \in Deliverers : p \in Procs
  BY DEF Procs
<1>2. \A p \in Publishers : p \in Procs
  BY DEF Procs
<1>3. QED
  BY <1>1, <1>2 DEF Next, Moves, Beside

\* A run at work has an attempt, and one of a deliverer has the one before it too.
LEMMA AtWork ==
  ASSUME Sound, NEW p \in Procs, pc[p] # "idle"
  PROVE  /\ next[p] \in Attempts
         /\ pc[p] \notin {"attempt", "state", "render"} => next[p] \in WithRow
         /\ pc[p] \in {"attempt", "state"} \cup Announcing =>
              p \in Deliverers /\ Done(p) \in Attempts /\ old[p] \in Attempts
<1>1. next[p] \in 0..MaxAttempt /\ old[p] \in 0..MaxAttempt /\ pc[p] \in Steps
  BY DEF Sound, LocalsOK
<1>2. next[p] # 0 /\ (pc[p] \notin {"attempt", "state", "render"} => next[p] \in WithRow)
  BY DEF Sound, TypeOK, None
<1>3. p \in Deliverers \/ p \in Publishers
  BY DEF Procs
<1>4. /\ p \in Publishers => pc[p] \in Publishing \cup {"idle", "roster"}
      /\ p \in Deliverers => next[p] >= 2 /\ old[p] # 0
  BY DEF Sound, RunSound, None
<1>5. next[p] \in Attempts
  BY <1>1, <1>2, DeliveryAssumption DEF Attempts
<1>6. ASSUME pc[p] \in {"attempt", "state"} \cup Announcing
      PROVE  p \in Deliverers /\ next[p] >= 2 /\ old[p] # 0
  BY <1>3, <1>4, <1>6 DEF Publishing, Announcing, Seeking
<1>7. next[p] >= 2 => next[p] - 1 \in Attempts
  BY <1>1, DeliveryAssumption DEF Attempts
<1>8. old[p] # 0 => old[p] \in Attempts
  BY <1>1, DeliveryAssumption DEF Attempts
<1>9. QED
  BY <1>2, <1>5, <1>6, <1>7, <1>8 DEF Done

-----------------------------------------------------------------------------
(* Types.                                                                  *)

\* The row of a new attempt.
LEMMA Recorded ==
  ASSUME TypeOK, CanStart, last' = last + 1, variant' = [variant EXCEPT ![last + 1] = chosen]
  PROVE  /\ last' \in 0..MaxAttempt /\ last' # 0 /\ last' \in WithRow'
         /\ variant' \in [Attempts -> Variants \cup {NoVariant}]
         /\ last + 1 \notin WithRow /\ WithRow' = WithRow \cup {last + 1} /\ WithRow' \subseteq 1..last'
<1>1. /\ last \in 0..MaxAttempt /\ last < MaxAttempt /\ chosen \in Variants
      /\ variant \in [Attempts -> Variants \cup {NoVariant}]
      /\ WithRow \subseteq 1..last
  BY DEF TypeOK, CanStart
<1>2. last + 1 \in Attempts /\ MaxAttempt \in Nat /\ chosen # NoVariant
  BY <1>1, DeliveryAssumption DEF Attempts
<1>3. \A n \in Attempts : variant'[n] = IF n = last + 1 THEN chosen ELSE variant[n]
  BY <1>1
<1>4. WithRow' = WithRow \cup {last + 1}
  BY <1>2, <1>3 DEF WithRow
<1>5. last + 1 \notin WithRow /\ \A n \in 1..last : n \in 1..(last + 1)
  BY <1>1
<1>6. QED
  BY <1>1, <1>2, <1>4, <1>5

\* The row of a render.
LEMMA RowRendered ==
  ASSUME Sound, NEW p \in Procs, Render(p)
  PROVE  /\ variant' \in [Attempts -> Variants \cup {NoVariant}]
         /\ \A n \in Attempts : n # next[p] \/ n \in frozen => variant'[n] = variant[n]
         /\ next[p] \in Attempts /\ WithRow' = WithRow \cup {next[p]}
<1>1. TypeOK /\ next[p] \in Attempts /\ chosen \in Variants /\ NoVariant \notin Variants
  BY AtWork, DeliveryAssumption DEF Sound, TypeOK, Render
<1> DEFINE v == IF next[p] \in frozen THEN variant[next[p]] ELSE chosen
<1>2. v \in Variants /\ v # NoVariant /\ (next[p] \in frozen => v = variant[next[p]])
  <2>1. next[p] \in frozen => variant[next[p]] \in Variants
    BY <1>1 DEF TypeOK, WithRow
  <2>2. QED
    BY <1>1, <2>1
<1>3. variant' = [variant EXCEPT ![next[p]] = v]
  BY DEF Render, RecordVariant
<1> HIDE DEF v
<1>4. \A n \in Attempts : variant'[n] = IF n = next[p] THEN v ELSE variant[n]
  BY <1>1, <1>3 DEF TypeOK
<1>5. WithRow' = WithRow \cup {next[p]}
  BY <1>1, <1>2, <1>4 DEF WithRow
<1>6. variant' \in [Attempts -> Variants \cup {NoVariant}]
  BY <1>1, <1>2, <1>3 DEF TypeOK
<1>7. QED
  BY <1>1, <1>2, <1>4, <1>5, <1>6

\* What goes on beside the runs keeps the types.
LEMMA BesideTypes ==
  ASSUME Sound, Beside
  PROVE  TypeOK' /\ LocalsOK'
<1> USE DeliveryAssumption DEF Attempts, None, db, github, talk, local, past
<1>1. TypeOK /\ LocalsOK /\ (touched # {} => roster # None) /\ (printed # None => repo[printed] = "has_commits")
  BY DEF Sound
<1>2. ASSUME NEW n \in Attempts, NEW full \in BOOLEAN, GradeCommit(n, full)
      PROVE  TypeOK' /\ LocalsOK'
  BY <1>1, <1>2 DEF GradeCommit, TypeOK, LocalsOK, WithRow
<1>3. ASSUME NEW n \in Attempts, OpenIssue(n)
      PROVE  TypeOK' /\ LocalsOK'
  <2>1. roster \in Attempts
    <3>1. roster \in 0..MaxAttempt /\ n \in touched
      BY <1>1, <1>3 DEF OpenIssue, TypeOK
    <3>2. QED
      BY <1>1, <3>1
  <2> DEFINE s == Append(issues[roster], n)
             k == Len(issues[roster]) + 1
  <2>2. s \in Seq(Attempts) /\ k \in Nat
    <3>1. issues[roster] \in Seq(Attempts)
      BY <1>1, <2>1 DEF TypeOK
    <3>2. QED
      BY <3>1, Appended
  <2>3. issues' = [issues EXCEPT ![roster] = s] /\ issueRow' = [issueRow EXCEPT ![n] = k]
    BY <1>3 DEF OpenIssue
  <2> HIDE DEF s, k
  <2>4. issues' \in [Attempts -> Seq(Attempts)] /\ issueRow' \in [Attempts -> Nat]
    BY <1>1, <2>1, <2>2, <2>3 DEF TypeOK
  <2>5. UNCHANGED <<db, github, comments, roster, pc, local, printed, past>> /\ raced' \in BOOLEAN
    BY <1>1, <1>3 DEF OpenIssue, LocalsOK
  <2>6. QED
    BY <1>1, <2>4, <2>5 DEF TypeOK, LocalsOK, WithRow
<1>4. CASE MasteryMoves
  BY <1>1, <1>4 DEF MasteryMoves, TypeOK, LocalsOK, WithRow
<1>5. CASE RosterApply
  BY <1>1, <1>5 DEF RosterApply, TypeOK, LocalsOK, WithRow
<1>6. CASE NextAttempt
  <2>1. TypeOK'
    <3>1. /\ last' \in 0..MaxAttempt /\ last' # 0 /\ last' \in WithRow'
          /\ variant' \in [Attempts -> Variants \cup {NoVariant}]
          /\ WithRow' = WithRow \cup {last + 1} /\ WithRow' \subseteq 1..last'
      BY <1>1, <1>6, Recorded DEF NextAttempt
    <3>2. UNCHANGED <<frozen, touched, chosen, issueRow, roster, repo, pushed, invited, issues,
                      comments, pc, next, tree, number>>
      BY <1>6 DEF NextAttempt
    <3>3. QED
      BY <1>1, <3>1, <3>2 DEF TypeOK
  <2>2. QED
    BY <1>1, <1>6, <2>1 DEF NextAttempt, LocalsOK
<1>7. QED
  BY <1>2, <1>3, <1>4, <1>5, <1>6 DEF Beside

\* A run that ends, at whatever step, keeps the types of its process.
LEMMA EndTypes ==
  ASSUME TypeOK, LocalsOK, NEW p \in Procs, pc[p] # "idle", End(p),
         UNCHANGED <<last, frozen, touched, variant, chosen, repo, pushed, invited,
                     issueRow, issues, comments>>,
         roster' \in 0..MaxAttempt, printed' \in 0..MaxAttempt,
         UNCHANGED <<past, raced>>
  PROVE  TypeOK' /\ LocalsOK'
BY DeliveryAssumption DEF TypeOK, LocalsOK, End, Goto, None, Steps, WithRow, past

\* Every step of a run keeps the types.
LEMMA MoveTypes ==
  ASSUME Sound, NEW p \in Procs, Moves(p)
  PROVE  TypeOK' /\ LocalsOK'
<1> USE DeliveryAssumption DEF None, db, github, talk, local, past, Goto
<1>1. TypeOK /\ LocalsOK /\ (variant' = variant => WithRow' = WithRow)
  BY DEF Sound, WithRow
<1>2. CASE Deliver(p)
  <2>1. last + 1 \in 0..MaxAttempt /\ last + 1 # 0
    BY <1>1, <1>2 DEF TypeOK, Deliver, CanStart
  <2>2. QED
    BY <1>1, <1>2, <2>1 DEF Deliver, StartWith, TypeOK, LocalsOK, Steps
<1>3. CASE Resume(p)
  <2>1. last \in 0..MaxAttempt /\ last # 0
    BY <1>1, <1>3 DEF TypeOK, Resume, CanResume
  <2>2. /\ UNCHANGED <<last, frozen, touched, variant, chosen, github, talk, roster, tree, number,
                       printed, past>>
        /\ next' = [next EXCEPT ![p] = last] /\ old' = [old EXCEPT ![p] = roster]
        /\ pc' = [pc EXCEPT ![p] = "state"] /\ raced' \in BOOLEAN
    BY <1>1, <1>3 DEF Resume, StartWith, LocalsOK
  <2>3. QED
    BY <1>1, <2>1, <2>2 DEF TypeOK, LocalsOK, Steps
<1>4. ASSUME NEW n \in Attempts, Publish(p, n)
      PROVE  TypeOK' /\ LocalsOK'
  <2>1. n \in 0..MaxAttempt /\ n # 0
    BY DEF Attempts
  <2>2. QED
    BY <1>1, <1>4, <2>1 DEF Publish, TypeOK, LocalsOK, Steps, Publishing
<1>5. CASE RefuseAttempt(p) \/ RefuseHistory(p) \/ Stop(p)
  BY <1>1, <1>5, EndTypes DEF RefuseAttempt, RefuseHistory, Stop, TypeOK, LocalsOK
<1>6. CASE RecordAttempt(p)
  <2>1. /\ last' \in 0..MaxAttempt /\ last' # 0 /\ last' \in WithRow'
        /\ variant' \in [Attempts -> Variants \cup {NoVariant}]
        /\ WithRow' = WithRow \cup {last + 1} /\ WithRow' \subseteq 1..last'
    BY <1>1, <1>6, Recorded DEF RecordAttempt
  <2>2. UNCHANGED <<frozen, touched, chosen, issueRow, roster, repo, pushed, invited, issues,
                    comments, next, tree, number>> /\ pc' = [pc EXCEPT ![p] = "state"]
    BY <1>6 DEF RecordAttempt
  <2>3. ASSUME NEW q \in Procs, pc'[q] \notin {"idle", "attempt", "state", "render"}
        PROVE  next'[q] \in WithRow'
    <3>1. q # p
      BY <1>1, <2>2, <2>3 DEF LocalsOK
    <3>2. QED
      BY <1>1, <2>1, <2>2, <2>3, <3>1 DEF TypeOK, LocalsOK
  <2>4. TypeOK'
    <3>1. \A q \in Procs : next'[q] = None <=> pc'[q] = "idle"
      BY <1>1, <1>6, <2>2 DEF RecordAttempt, TypeOK, LocalsOK
    <3>2. \A q \in Procs :
            /\ pc'[q] \in {"check", "create", "push"} => tree'[q] # NoVariant
            /\ pc'[q] \in {"record", "look", "comment", "print"} => number'[q] # None
      BY <1>1, <2>2 DEF TypeOK, LocalsOK
    <3>3. QED
      BY <1>1, <2>1, <2>2, <2>3, <3>1, <3>2 DEF TypeOK
  <2>5. QED
    BY <1>1, <1>6, <2>2, <2>4 DEF RecordAttempt, LocalsOK, Steps
<1>7. CASE CheckRepo(p)
  <2>1. AlreadyPublished(next[p]) => next[p] \in WithRow
    BY <1>7, AtWork DEF CheckRepo, AlreadyPublished, Sound
  <2>2. QED
    BY <1>1, <1>7, <2>1 DEF CheckRepo, TypeOK, LocalsOK, WithRow, Steps, Publishing, Announcing
<1>8. CASE Render(p)
  <2>1. next[p] \in Attempts /\ pc[p] = "render"
    BY <1>8, AtWork DEF Render
  <2>2. /\ variant' \in [Attempts -> Variants \cup {NoVariant}]
        /\ WithRow' = WithRow \cup {next[p]}
    BY <1>8, RowRendered
  <2>3. last' \in 0..MaxAttempt /\ WithRow' \subseteq 1..last' /\ (last' # 0 => last' \in WithRow')
    <3>1. last' = IF last < next[p] THEN next[p] ELSE last
      BY <1>8 DEF Render
    <3>2. last \in 0..MaxAttempt /\ WithRow \subseteq 1..last /\ (last # 0 => last \in WithRow)
      BY <1>1 DEF TypeOK
    <3>3. next[p] \in 1..MaxAttempt
      BY <2>1 DEF Attempts
    <3>4. last' \in 0..MaxAttempt /\ next[p] \in 1..last' /\ \A n \in 1..last : n \in 1..last'
      BY <3>1, <3>2, <3>3
    <3>5. QED
      BY <2>2, <3>1, <3>2, <3>4
  <2>4. /\ UNCHANGED <<frozen, touched, chosen, github, talk, roster, next, old, number,
                       printed, raced>>
        /\ made' \subseteq Attempts /\ adrift' \subseteq Attempts
        /\ tree' = [tree EXCEPT ![p] = chosen] /\ pc' = [pc EXCEPT ![p] = "check"]
    BY <1>1, <1>8, <2>1 DEF Render, LocalsOK
  <2>5. \A q \in Procs :
          /\ next'[q] = None <=> pc'[q] = "idle"
          /\ pc'[q] \in {"check", "create", "push"} => tree'[q] # NoVariant
          /\ pc'[q] \in {"record", "look", "comment", "print"} => number'[q] # None
    BY <1>1, <2>1, <2>4 DEF TypeOK, LocalsOK
  <2>6. ASSUME NEW q \in Procs, pc'[q] \notin {"idle", "attempt", "state", "render"}
        PROVE  next'[q] \in WithRow'
    <3>1. CASE q = p
      BY <2>2, <2>4, <3>1
    <3>2. CASE q # p
      BY <1>1, <2>2, <2>4, <2>6, <3>2 DEF TypeOK, LocalsOK
    <3>3. QED
      BY <3>1, <3>2
  <2>7. TypeOK'
    <3>1. frozen \subseteq touched /\ touched \subseteq WithRow'
      BY <1>1, <2>2 DEF TypeOK
    <3>2. QED
      BY <1>1, <2>2, <2>3, <2>4, <2>5, <2>6, <3>1 DEF TypeOK
  <2>8. LocalsOK'
    BY <1>1, <2>4 DEF TypeOK, LocalsOK, Steps, Publishing
  <2>9. QED
    BY <2>7, <2>8
<1>9. CASE CheckTarget(p)
  BY <1>1, <1>9 DEF CheckTarget, TypeOK, LocalsOK, Steps, Publishing
<1>10. CASE CreateRepo(p)
  <2>1. next[p] \in Attempts /\ next[p] \in WithRow
    BY <1>10, AtWork DEF CreateRepo
  <2>2. CASE End(p) /\ UNCHANGED repo
    BY <1>1, <1>10, <2>2, EndTypes DEF CreateRepo, TypeOK, LocalsOK
  <2>3. CASE repo[next[p]] = "missing" /\ repo' = [repo EXCEPT ![next[p]] = "empty"]
             /\ pc' = [pc EXCEPT ![p] = "push"] /\ UNCHANGED local
    BY <1>1, <1>10, <2>1, <2>3 DEF CreateRepo, TypeOK, LocalsOK, Steps, Publishing
  <2>4. QED
    BY <1>10, <2>2, <2>3 DEF CreateRepo
<1>11. CASE Push(p)
  <2>1. next[p] \in Attempts /\ next[p] \in WithRow /\ tree[p] # NoVariant
    BY <1>1, <1>11, AtWork DEF Push, TypeOK
  <2>2. CASE End(p) /\ UNCHANGED <<repo, pushed>>
    BY <1>1, <1>11, <2>2, EndTypes DEF Push, TypeOK, LocalsOK
  <2> DEFINE step == IF p \in Publishers THEN "roster" ELSE "invite"
  <2>3. step \in {"roster", "invite"}
    OBVIOUS
  <2> HIDE DEF step
  <2>4. CASE /\ repo[next[p]] = "empty" /\ repo' = [repo EXCEPT ![next[p]] = "has_commits"]
             /\ pushed' = [pushed EXCEPT ![next[p]] = tree[p]]
             /\ pc' = [pc EXCEPT ![p] = step] /\ UNCHANGED local
    BY <1>1, <1>11, <2>1, <2>3, <2>4 DEF Push, TypeOK, LocalsOK, Steps, Announcing
  <2>5. QED
    BY <1>11, <2>2, <2>4 DEF Push, step
<1>12. CASE WriteRoster(p)
  BY <1>1, <1>12, EndTypes DEF WriteRoster, UpdateRoster, LocalsOK
<1>13. CASE Invite(p)
  BY <1>1, <1>13, AtWork DEF Invite, Collaborate, TypeOK, LocalsOK, Steps, Announcing, Seeking
<1>14. CASE KnowIssue(p) \/ FindIssue(p)
  <2>1. Done(p) \in Attempts /\ old[p] \in Attempts /\ pc[p] = "issue"
    BY <1>14, AtWork DEF KnowIssue, FindIssue, Announcing, Seeking
  <2>2. PICK k \in Nat, step \in {"look", "record", "create issue"} :
          /\ number' = [number EXCEPT ![p] = k] /\ pc' = [pc EXCEPT ![p] = step]
          /\ step # "create issue" => k # 0
    <3>1. CASE KnowIssue(p)
      BY <1>1, <2>1, <3>1 DEF KnowIssue, TypeOK
    <3>2. ASSUME NEW k \in Titled(p), FindIssue(p), number' = [number EXCEPT ![p] = k],
                 pc' = [pc EXCEPT ![p] = "record"]
          PROVE  k \in Nat /\ k # 0
      <4>1. issues[old[p]] \in Seq(Attempts)
        BY <1>1, <2>1 DEF TypeOK
      <4>2. QED
        BY <3>2, <4>1 DEF Titled
    <3>3. number \in [Procs -> Nat]
      BY <1>1 DEF LocalsOK
    <3>4. number = [number EXCEPT ![p] = number[p]] /\ number[p] \in Nat
      BY <3>3
    <3>5. CASE FindIssue(p)
      BY <3>2, <3>4, <3>5 DEF FindIssue
    <3>6. QED
      BY <1>14, <3>1, <3>5
  <2>3. UNCHANGED <<db, github, talk, roster, next, old, tree, printed, past, raced>>
    BY <1>14 DEF KnowIssue, FindIssue
  <2>4. QED
    BY <1>1, <2>1, <2>2, <2>3 DEF TypeOK, LocalsOK, Steps, Announcing, Seeking
<1>15. CASE CreateIssue(p)
  <2>1. Done(p) \in Attempts /\ old[p] \in Attempts /\ pc[p] = "create issue"
    BY <1>15, AtWork DEF CreateIssue, Announcing, Seeking
  <2> DEFINE s == Append(issues[old[p]], Done(p))
             k == Len(issues[old[p]]) + 1
  <2>2. s \in Seq(Attempts) /\ k \in Nat /\ k # 0
    <3>1. issues[old[p]] \in Seq(Attempts)
      BY <1>1, <2>1 DEF TypeOK
    <3>2. s \in Seq(Attempts) /\ Len(issues[old[p]]) \in Nat
      BY <2>1, <3>1, Appended
    <3>3. QED
      BY <3>2
  <2>3. /\ issues' = [issues EXCEPT ![old[p]] = s] /\ number' = [number EXCEPT ![p] = k]
        /\ pc' = [pc EXCEPT ![p] = "record"]
        /\ UNCHANGED <<db, github, issueRow, comments, roster, next, old, tree, printed, past, raced>>
    BY <1>15 DEF CreateIssue
  <2> HIDE DEF s, k
  <2>4. QED
    BY <1>1, <2>1, <2>2, <2>3 DEF TypeOK, LocalsOK, Steps, Announcing, Seeking
<1>16. CASE RecordIssue(p)
  BY <1>1, <1>16, AtWork DEF RecordIssue, TypeOK, LocalsOK, Steps, Announcing, Seeking
<1>17. CASE Look(p)
  BY <1>1, <1>17, EndTypes DEF Look, TypeOK, LocalsOK, Steps, Announcing, Seeking
<1>18. CASE Comment(p)
  BY <1>1, <1>18, AtWork, Appended DEF Comment, TypeOK, LocalsOK, Steps, Announcing, Seeking
<1>19. CASE PrintRoster(p)
  BY <1>1, <1>19, EndTypes DEF PrintRoster, TypeOK, LocalsOK
<1>20. QED
  BY <1>2, <1>3, <1>4, <1>5, <1>6, <1>7, <1>8, <1>9, <1>10, <1>11, <1>12, <1>13, <1>14,
     <1>15, <1>16, <1>17, <1>18, <1>19 DEF Moves, Step

\* Every step keeps the types.
LEMMA TypesKept ==
  ASSUME Sound, [Next]_vars
  PROVE  TypeOK' /\ LocalsOK'
<1>1. CASE UNCHANGED vars
  BY <1>1 DEF Sound, TypeOK, LocalsOK, WithRow, vars, db, github, talk, local, past
<1>2. QED
  BY <1>1, StepCases, BesideTypes, MoveTypes

-----------------------------------------------------------------------------
(* What is published stays published, whoever meets.                       *)

Forward ==
  /\ WithRow \subseteq WithRow' /\ made \subseteq made'
  /\ frozen \subseteq frozen' /\ invited \subseteq invited'
  /\ \A n \in Attempts : repo[n] = "has_commits" => repo'[n] = "has_commits"
  /\ roster # None => roster' # None

\* No step takes back an attempt, an invitation, a history or a roster row.
LEMMA StepForward ==
  ASSUME Sound, [Next]_vars
  PROVE  Forward
<1> USE DEF None, db, github, talk, local, past
<1>1. TypeOK
  BY DEF Sound
<1>2. \A p \in Procs : next[p] \in 0..MaxAttempt
  BY DEF Sound, LocalsOK
<1>3. WithRow \subseteq WithRow' /\ made \subseteq made'
  <2>1. \/ variant' = variant
        \/ CanStart /\ last' = last + 1 /\ variant' = [variant EXCEPT ![last + 1] = chosen]
        \/ \E p \in Procs : Render(p)
    BY DEF Next, GradeCommit, OpenIssue, MasteryMoves, RosterApply, NextAttempt, Deliver, Resume,
           StartWith, Publish, Step, Stop, RecordAttempt, RefuseAttempt, CheckRepo,
           RefuseHistory, CheckTarget, CreateRepo, Push, WriteRoster, Invite, KnowIssue, FindIssue,
           CreateIssue, RecordIssue, Look, Comment, PrintRoster, vars
  <2>2. ASSUME CanStart, last' = last + 1, variant' = [variant EXCEPT ![last + 1] = chosen]
        PROVE  WithRow \subseteq WithRow'
    BY <1>1, <2>2, Recorded
  <2>3. ASSUME NEW p \in Procs, Render(p)
        PROVE  WithRow \subseteq WithRow'
    BY <2>3, RowRendered
  <2>4. made \subseteq made'
    BY DEF Next, GradeCommit, OpenIssue, MasteryMoves, RosterApply, NextAttempt, Deliver, Resume,
           StartWith, Publish, Step, Stop, RecordAttempt, RefuseAttempt, CheckRepo, Render,
           RefuseHistory, CheckTarget, CreateRepo, Push, WriteRoster, Invite, KnowIssue, FindIssue,
           CreateIssue, RecordIssue, Look, Comment, PrintRoster, vars
  <2>5. variant' = variant => WithRow' = WithRow
    BY DEF WithRow
  <2>6. QED
    BY <2>1, <2>2, <2>3, <2>4, <2>5
<1>4. frozen \subseteq frozen' /\ invited \subseteq invited'
  BY DEF Next, GradeCommit, OpenIssue, MasteryMoves, RosterApply, NextAttempt, Deliver, Resume,
         StartWith, Publish, Step, Stop, RecordAttempt, RefuseAttempt, CheckRepo, Render,
         RefuseHistory, CheckTarget, CreateRepo, Push, WriteRoster, Invite, Collaborate, KnowIssue,
         FindIssue, CreateIssue, RecordIssue, Look, Comment, PrintRoster, vars
<1>5. \A n \in Attempts : repo[n] = "has_commits" => repo'[n] = "has_commits"
  <2>1. \/ repo' = repo
        \/ \E p \in Procs : repo[next[p]] # "has_commits"
                            /\ \E r \in {"empty", "has_commits"} : repo' = [repo EXCEPT ![next[p]] = r]
    BY DEF Next, GradeCommit, OpenIssue, MasteryMoves, RosterApply, NextAttempt, Deliver, Resume,
           StartWith, Publish, Step, Stop, RecordAttempt, RefuseAttempt, CheckRepo, Render,
           RefuseHistory, CheckTarget, CreateRepo, Push, WriteRoster, Invite, KnowIssue, FindIssue,
           CreateIssue, RecordIssue, Look, Comment, PrintRoster, vars
  <2>2. QED
    BY <1>1, <2>1 DEF TypeOK
<1>6. roster # None => roster' # None
  <2>1. ASSUME NEW p \in Procs, WriteRoster(p)
        PROVE  roster' # None
    BY <2>1, <1>1 DEF WriteRoster, UpdateRoster, TypeOK
  <2>2. roster' = roster \/ roster' # None
    BY <2>1 DEF Next, GradeCommit, OpenIssue, MasteryMoves, RosterApply, NextAttempt, Deliver, Resume,
           StartWith, Publish, Step, Stop, RecordAttempt, RefuseAttempt, CheckRepo, Render,
           RefuseHistory, CheckTarget, CreateRepo, Push, Invite, KnowIssue, FindIssue,
           CreateIssue, RecordIssue, Look, Comment, PrintRoster, vars
  <2>3. QED
    BY <2>2
<1>7. QED
  BY <1>3, <1>4, <1>5, <1>6 DEF Forward

\* A run that does not move is as sound as it was.
LEMMA OtherSound ==
  ASSUME Sound, TypeOK', Forward, NEW q \in Procs,
         pc'[q] = pc[q], next'[q] = next[q], old'[q] = old[q]
  PROVE  RunSound(q)'
<1>1. RunSound(q)
  BY DEF Sound
<1>2. pc[q] \in Announcing \cup {"roster"} => repo'[next[q]] = "has_commits"
  <2>1. pc[q] \in Announcing \cup {"roster"} => next[q] \in Attempts
    BY AtWork DEF Announcing, Seeking
  <2>2. QED
    BY <1>1, <2>1 DEF RunSound, Forward
<1>3. QED
  BY <1>1, <1>2 DEF RunSound, Forward

\* A step of one run leaves the others where they are.
LEMMA OneMoves ==
  ASSUME Sound, NEW p \in Procs, Moves(p), NEW q \in Procs, q # p
  PROVE  /\ pc'[q] = pc[q] /\ next'[q] = next[q] /\ old'[q] = old[q]
         /\ tree'[q] = tree[q] /\ number'[q] = number[q]
<1>1. LocalsOK
  BY DEF Sound
<1>2. pc'[q] = pc[q]
  BY <1>1 DEF LocalsOK, Moves, Deliver, Resume, StartWith, Publish, Step, Stop, RecordAttempt,
         RefuseAttempt, CheckRepo, Render, RefuseHistory, CheckTarget, CreateRepo, Push, WriteRoster,
         Invite, KnowIssue, FindIssue, CreateIssue, RecordIssue, Look, Comment, PrintRoster,
         Goto, End, local
<1>3. next'[q] = next[q] /\ old'[q] = old[q]
  BY <1>1 DEF LocalsOK, Moves, Deliver, Resume, StartWith, Publish, Step, Stop, RecordAttempt,
         RefuseAttempt, CheckRepo, Render, RefuseHistory, CheckTarget, CreateRepo, Push, WriteRoster,
         Invite, KnowIssue, FindIssue, CreateIssue, RecordIssue, Look, Comment, PrintRoster,
         Goto, End, local
<1>4. tree'[q] = tree[q] /\ number'[q] = number[q]
  BY <1>1 DEF LocalsOK, Moves, Deliver, Resume, StartWith, Publish, Step, Stop, RecordAttempt,
         RefuseAttempt, CheckRepo, Render, RefuseHistory, CheckTarget, CreateRepo, Push, WriteRoster,
         Invite, KnowIssue, FindIssue, CreateIssue, RecordIssue, Look, Comment, PrintRoster,
         Goto, End, local
<1>5. QED
  BY <1>2, <1>3, <1>4

\* The run that moves is sound after its step.
LEMMA MoverSound ==
  ASSUME Sound, TypeOK', Forward, NEW p \in Procs, Moves(p)
  PROVE  RunSound(p)'
<1> USE DEF None, db, github, talk, local, past, Goto
<1>1. TypeOK /\ LocalsOK /\ RunSound(p)
  BY DEF Sound
<1>2. CASE Deliver(p) /\ p \in Deliverers
  <2>1. last >= 1 /\ last \in 0..MaxAttempt
    BY <1>1, <1>2, DeliveryAssumption DEF Deliver, CanStart, TypeOK
  <2>2. /\ pc'[p] = "attempt" /\ next'[p] = last + 1 /\ old'[p] = roster /\ roster # 0
        /\ last \in frozen'
    BY <1>1, <1>2 DEF Deliver, CanStart, StartWith, LocalsOK
  <2>3. next'[p] - 1 \in frozen' /\ next'[p] >= 2
    <3>1. next'[p] - 1 = last
      BY <2>1, <2>2
    <3>2. QED
      BY <2>1, <2>2, <3>1
  <2>4. QED
    BY <1>2, <2>2, <2>3, DeliveryAssumption DEF RunSound, Announcing, Seeking
<1>3. CASE Resume(p) /\ p \in Deliverers
  <2>1. pc'[p] = "state" /\ next'[p] = last /\ old'[p] = roster /\ roster # 0 /\ last >= 2
        /\ last \in WithRow'
    BY <1>1, <1>3 DEF Resume, CanResume, StartWith, TypeOK, LocalsOK, WithRow
  <2>2. QED
    BY <1>3, <2>1, DeliveryAssumption DEF RunSound, Announcing, Seeking
<1>4. ASSUME NEW n \in Attempts, Publish(p, n), p \in Publishers
      PROVE  RunSound(p)'
  <2>1. pc'[p] = "render" /\ next'[p] = n
    BY <1>1, <1>4 DEF Publish, LocalsOK
  <2>2. QED
    BY <1>4, <2>1, DeliveryAssumption DEF RunSound, Announcing, Seeking, Publishing
<1>5. CASE pc'[p] = "idle"
  BY <1>5 DEF RunSound, Announcing, Seeking, Publishing
<1>6. ASSUME Step(p), pc'[p] # "idle"
      PROVE  RunSound(p)'
  <2>1. pc[p] # "idle" /\ next'[p] = next[p] /\ old'[p] = old[p] /\ next[p] \in Attempts
    <3>1. pc[p] # "idle" /\ next'[p] = next[p] /\ old'[p] = old[p]
      BY <1>1, <1>6 DEF LocalsOK, Step, RecordAttempt,
         RefuseAttempt, CheckRepo, Render, RefuseHistory, CheckTarget, CreateRepo, Push, WriteRoster,
         Invite, KnowIssue, FindIssue, CreateIssue, RecordIssue, Look, Comment, PrintRoster, End
    <3>2. QED
      BY <3>1, AtWork
  <2>2. /\ p \in Deliverers => next[p] >= 2 /\ old[p] # 0
        /\ p \in Deliverers \/ p \in Publishers
        /\ ~ (p \in Deliverers /\ p \in Publishers)
    BY <1>1, <2>1, DeliveryAssumption DEF RunSound, Procs
  <2> DEFINE planned == next'[p] - 1 \in frozen' \/ next'[p] \in WithRow'
  <2>3. p \in Deliverers => planned
    <3>1. next'[p] = next[p] /\ next'[p] - 1 = next[p] - 1
      BY <2>1
    <3>2. p \in Deliverers => next[p] - 1 \in frozen' \/ next[p] \in WithRow'
      BY <1>1, <2>1 DEF RunSound, Forward
    <3>3. QED
      BY <3>1, <3>2, Zenon
  <2> HIDE DEF planned
  <2>4. p \in Deliverers => next'[p] >= 2 /\ old'[p] # 0 /\ planned
    BY <2>1, <2>2, <2>3
  <2>5. RunSound(p)' <=>
          /\ p \in Publishers => pc'[p] \in Publishing \cup {"idle", "roster"}
          /\ p \in Deliverers => pc'[p] # "roster" /\ next'[p] >= 2 /\ old'[p] # 0 /\ planned
          /\ pc'[p] \in Announcing \cup {"roster"} => repo'[next'[p]] = "has_commits"
          /\ pc'[p] \in Seeking => next'[p] \in invited'
    BY <1>6 DEF RunSound, planned
  <2>6. CASE RecordAttempt(p) \/ CheckRepo(p)
    <3>1. p \in Deliverers /\ pc'[p] \in {"state", "invite", "render"}
          /\ (pc'[p] = "invite" => repo'[next[p]] = "has_commits")
      <4>1. pc[p] \in {"attempt", "state"}
        BY <2>6 DEF RecordAttempt, CheckRepo
      <4>2. CASE RecordAttempt(p)
        BY <1>1, <2>2, <4>1, <4>2 DEF RunSound, RecordAttempt, LocalsOK, Publishing
      <4>3. CASE CheckRepo(p)
        BY <1>1, <2>2, <4>1, <4>3 DEF RunSound, CheckRepo, AlreadyPublished, TypeOK, LocalsOK, Publishing
      <4>4. QED
        BY <2>6, <4>2, <4>3
    <3>2. QED
      BY <2>4, <2>5, <2>1, <2>2, <3>1 DEF Announcing, Seeking, Publishing
  <2>7. CASE Render(p) \/ CheckTarget(p) \/ CreateRepo(p)
    <3>1. pc'[p] \in {"check", "create", "push"}
      BY <1>1, <1>6, <2>7 DEF Render, CheckTarget, CreateRepo, End, LocalsOK
    <3>2. QED
      BY <2>4, <2>5, <2>1, <2>2, <3>1 DEF Announcing, Seeking, Publishing
  <2>8. CASE Push(p)
    <3>1. /\ pc'[p] = IF p \in Publishers THEN "roster" ELSE "invite"
          /\ repo'[next[p]] = "has_commits"
      BY <1>1, <1>6, <2>1, <2>8 DEF Push, End, TypeOK, LocalsOK
    <3>2. QED
      BY <2>4, <2>5, <2>1, <2>2, <3>1 DEF Announcing, Seeking, Publishing
  <2>9. CASE Invite(p)
    <3>1. pc[p] = "invite" /\ pc'[p] = "issue" /\ next[p] \in invited'
      BY <1>1, <2>9 DEF Invite, Collaborate, LocalsOK
    <3>2. p \in Deliverers /\ repo[next[p]] = "has_commits"
      BY <1>1, <2>2, <3>1 DEF RunSound, Announcing, Publishing
    <3>3. QED
      BY <2>4, <2>5, <2>1, <2>2, <3>1, <3>2 DEF Announcing, Seeking, Publishing, Forward
  <2>10. CASE KnowIssue(p) \/ FindIssue(p) \/ CreateIssue(p) \/ RecordIssue(p) \/ Look(p) \/ Comment(p)
    <3>1. pc[p] \in Seeking /\ pc'[p] \in Seeking
      BY <1>1, <1>6, <2>10 DEF KnowIssue, FindIssue, CreateIssue, RecordIssue, Look, Comment, End,
                              LocalsOK, Seeking
    <3>2. p \in Deliverers /\ repo[next[p]] = "has_commits" /\ next[p] \in invited
      BY <1>1, <2>2, <3>1 DEF RunSound, Announcing, Seeking, Publishing
    <3>3. QED
      BY <2>4, <2>5, <2>1, <2>2, <3>1, <3>2 DEF Announcing, Seeking, Publishing, Forward
  <2>11. CASE RefuseAttempt(p) \/ RefuseHistory(p) \/ WriteRoster(p) \/ PrintRoster(p)
    BY <1>1, <1>6, <2>11 DEF RefuseAttempt, RefuseHistory, WriteRoster, PrintRoster, End, LocalsOK
  <2>12. QED
    BY <1>6, <2>6, <2>7, <2>8, <2>9, <2>10, <2>11 DEF Step
<1>7. CASE Stop(p)
  BY <1>1, <1>5, <1>7 DEF Stop, End, LocalsOK
<1>8. QED
  BY <1>2, <1>3, <1>4, <1>5, <1>6, <1>7 DEF Moves

\* next_attempt records an attempt after the one before it is frozen, and a delivery
\* renders what it planned then.
LEMMA FreezeKept ==
  ASSUME Sound, TypeOK', Forward, [Next]_vars
  PROVE  NextAfterFreeze'
<1>1. last \in 0..MaxAttempt /\ MaxAttempt \in Nat /\ TypeOK
  BY DeliveryAssumption DEF Sound, TypeOK
<1>2. \/ variant' = variant
      \/ CanStart /\ last' = last + 1 /\ variant' = [variant EXCEPT ![last + 1] = chosen]
      \/ \E p \in Procs : Render(p)
  BY DEF Next, GradeCommit, OpenIssue, MasteryMoves, RosterApply, NextAttempt, Deliver, Resume,
         StartWith, Publish, Step, Stop, RecordAttempt, RefuseAttempt, CheckRepo,
         RefuseHistory, CheckTarget, CreateRepo, Push, WriteRoster, Invite, KnowIssue, FindIssue,
         CreateIssue, RecordIssue, Look, Comment, PrintRoster, vars, db
<1>3. ASSUME NEW n \in WithRow' \ made', n >= 2, n \in WithRow
      PROVE  n - 1 \in frozen'
  BY <1>3 DEF Sound, NextAfterFreeze, Forward
<1>4. ASSUME NEW n \in WithRow' \ made', n >= 2, n \notin WithRow
      PROVE  n - 1 \in frozen'
  <2>1. CASE variant' = variant
    BY <1>4, <2>1 DEF WithRow
  <2>2. CASE CanStart /\ last' = last + 1 /\ variant' = [variant EXCEPT ![last + 1] = chosen]
    <3>1. n = last + 1 /\ last \in frozen
      BY <1>1, <1>4, <2>2, Recorded DEF CanStart
    <3>2. n - 1 = last
      BY <1>1, <3>1
    <3>3. QED
      BY <3>1, <3>2 DEF Forward
  <2>3. ASSUME NEW p \in Procs, Render(p)
        PROVE  n - 1 \in frozen'
    <3>1. n = next[p] /\ pc[p] = "render"
      BY <1>4, <2>3, RowRendered DEF Render
    <3>2. p \notin Publishers
      BY <1>4, <2>3, <3>1 DEF Render
    <3>3. p \in Deliverers
      BY <3>2 DEF Procs
    <3>4. n - 1 \in frozen
      BY <1>4, <3>1, <3>3 DEF Sound, RunSound
    <3>5. QED
      BY <3>4 DEF Forward
  <2>4. QED
    BY <1>2, <2>1, <2>2, <2>3
<1>5. QED
  BY <1>3, <1>4 DEF NextAfterFreeze

\* A comment is written about a repository the run has seen, with the student in it.
LEMMA CommentsStay ==
  ASSUME Sound, TypeOK', Forward, [Next]_vars
  PROVE  /\ \A i \in 1..Len(comments') : comments'[i].next >= 2
         /\ \A i \in 1..Len(comments') :
              LET n == comments'[i].next
              IN  n \in WithRow' /\ repo'[n] = "has_commits" /\ n \in invited'
<1>1. /\ comments \in Seq([repo : Attempts, issue : Nat \ {0}, next : Attempts])
      /\ Len(comments) \in Nat
  BY DEF Sound, TypeOK
<1>2. ASSUME NEW i \in 1..Len(comments)
      PROVE  LET n == comments[i].next
             IN  n >= 2 /\ n \in WithRow' /\ repo'[n] = "has_commits" /\ n \in invited'
  <2>1. comments[i].next \in Attempts
    <3>1. comments[i] \in [repo : Attempts, issue : Nat \ {0}, next : Attempts]
      BY <1>1, ElementOf
    <3>2. QED
      BY <3>1
  <2> DEFINE n == comments[i].next
  <2>2. Commented(n) # {} /\ n >= 2
    BY DEF Commented, Sound
  <2>3. n \in Attempts
    BY <2>1
  <2> HIDE DEF n
  <2>4. n \in WithRow /\ repo[n] = "has_commits" /\ n \in invited
    BY <2>2, <2>3 DEF Sound, WhatIsSaidIsThere
  <2>5. n >= 2 /\ n \in WithRow' /\ repo'[n] = "has_commits" /\ n \in invited'
    BY <1>1, <2>2, <2>3, <2>4 DEF Forward, Attempts
  <2>6. QED
    BY <2>5 DEF n
<1>3. CASE comments' = comments
  BY <1>2, <1>3
<1>4. ASSUME NEW p \in Procs, Comment(p)
      PROVE  /\ \A i \in 1..Len(comments') : comments'[i].next >= 2
             /\ \A i \in 1..Len(comments') :
                  LET n == comments'[i].next
                  IN  n \in WithRow' /\ repo'[n] = "has_commits" /\ n \in invited'
  <2> DEFINE r == [repo |-> old[p], issue |-> number[p], next |-> next[p]]
  <2>1. /\ p \in Deliverers /\ old[p] \in Attempts /\ next[p] \in Attempts
        /\ next[p] \in WithRow /\ pc[p] = "comment"
    BY <1>4, AtWork DEF Comment, Announcing, Seeking
  <2>2. number[p] \in Nat \ {0}
    BY <2>1 DEF Sound, TypeOK, LocalsOK, None
  <2>3. r \in [repo : Attempts, issue : Nat \ {0}, next : Attempts] /\ r.next = next[p]
    BY <2>1, <2>2
  <2>4. comments' = Append(comments, r)
    BY <1>4 DEF Comment
  <2> HIDE DEF r
  <2>5. /\ Len(comments') = Len(comments) + 1
        /\ \A i \in 1..Len(comments) : comments'[i] = comments[i]
        /\ comments'[Len(comments) + 1] = r
    BY <1>1, <2>3, <2>4, Appended
  <2>6. /\ next[p] >= 2 /\ next[p] \in WithRow' /\ repo'[next[p]] = "has_commits"
        /\ next[p] \in invited'
    <3>1. next[p] >= 2 /\ repo[next[p]] = "has_commits" /\ next[p] \in invited
      BY <2>1 DEF Sound, RunSound, Announcing, Seeking
    <3>2. next[p] \in WithRow'
      BY <1>1, <2>1 DEF Forward
    <3>3. QED
      BY <2>1, <3>1, <3>2 DEF Forward
  <2>7. ASSUME NEW i \in 1..Len(comments')
        PROVE  i \in 1..Len(comments) \/ i = Len(comments) + 1
    BY <1>1, <2>5
  <2>8. QED
    BY <1>2, <2>3, <2>5, <2>6, <2>7
<1>5. comments' = comments \/ \E p \in Procs : Comment(p)
  BY DEF Next, GradeCommit, OpenIssue, MasteryMoves, RosterApply, NextAttempt, Deliver, Resume,
         StartWith, Publish, Step, Stop, RecordAttempt, RefuseAttempt, CheckRepo, Render,
         RefuseHistory, CheckTarget, CreateRepo, Push, WriteRoster, Invite, KnowIssue, FindIssue,
         CreateIssue, RecordIssue, Look, PrintRoster, vars, talk
<1>6. QED
  BY <1>3, <1>4, <1>5

\* A row of the roster and a printed command name a repository with its commits.
LEMMA NamesStay ==
  ASSUME Sound, TypeOK', Forward, [Next]_vars
  PROVE  /\ (touched # {} => roster # None)'
         /\ (printed # None => repo[printed] = "has_commits")'
         /\ (roster # None => repo[roster] = "has_commits")'
<1> USE DEF None, db, github, talk, local, past
<1>1. /\ roster \in 0..MaxAttempt /\ printed \in 0..MaxAttempt /\ MaxAttempt \in Nat
      /\ touched # {} => roster # None
      /\ printed # None => repo[printed] = "has_commits"
      /\ roster # None => repo[roster] = "has_commits"
  BY DeliveryAssumption DEF Sound, TypeOK, LocalsOK, WhatIsSaidIsThere
<1>2. /\ roster # 0 => repo'[roster] = "has_commits"
      /\ printed # 0 => repo'[printed] = "has_commits"
  BY <1>1 DEF Forward, Attempts
<1>3. touched' = touched \/ roster # None
  BY DEF Next, GradeCommit, OpenIssue, MasteryMoves, RosterApply, NextAttempt, Deliver, Resume,
         StartWith, Publish, Step, Stop, RecordAttempt, RefuseAttempt, CheckRepo, Render,
         RefuseHistory, CheckTarget, CreateRepo, Push, WriteRoster, Invite, KnowIssue, FindIssue,
         CreateIssue, RecordIssue, Look, Comment, PrintRoster, vars
<1>4. /\ printed' = printed \/ \E p \in Procs : PrintRoster(p)
      /\ roster' = roster \/ (roster' = printed /\ printed # None) \/ \E p \in Procs : WriteRoster(p)
  BY DEF Next, GradeCommit, OpenIssue, MasteryMoves, RosterApply, NextAttempt, Deliver, Resume,
         StartWith, Publish, Step, Stop, RecordAttempt, RefuseAttempt, CheckRepo, Render,
         RefuseHistory, CheckTarget, CreateRepo, Push, Invite, KnowIssue, FindIssue,
         CreateIssue, RecordIssue, Look, Comment, PrintRoster, WriteRoster, vars
<1>5. ASSUME NEW p \in Procs, PrintRoster(p) \/ WriteRoster(p)
      PROVE  repo'[next[p]] = "has_commits"
  <2>1. pc[p] \in Announcing \cup {"roster"}
    BY <1>5 DEF PrintRoster, WriteRoster, Announcing, Seeking
  <2>2. next[p] \in Attempts /\ repo[next[p]] = "has_commits"
    BY <2>1, AtWork DEF Sound, RunSound, Announcing, Seeking
  <2>3. QED
    BY <2>2 DEF Forward
<1>6. \A p \in Procs : /\ PrintRoster(p) => printed' = next[p]
                       /\ WriteRoster(p) => roster' = next[p]
  BY DEF PrintRoster, WriteRoster, UpdateRoster
<1>7. (printed # None => repo[printed] = "has_commits")'
  BY <1>2, <1>4, <1>5, <1>6
<1>8. (roster # None => repo[roster] = "has_commits")'
  BY <1>2, <1>4, <1>5, <1>6
<1>9. (touched # {} => roster # None)'
  BY <1>1, <1>3 DEF Forward
<1>10. QED
  BY <1>7, <1>8, <1>9

\* A repository with commits has its row.
LEMMA RowsStay ==
  ASSUME Sound, TypeOK', Forward, [Next]_vars
  PROVE  \A n \in Attempts : repo'[n] = "has_commits" => n \in WithRow'
<1> SUFFICES ASSUME NEW n \in Attempts, repo'[n] = "has_commits"
             PROVE  n \in WithRow'
  OBVIOUS
<1> USE DEF db, github, talk, local, past
<1>1. CASE repo[n] = "has_commits"
  BY <1>1 DEF Sound, Forward
<1>2. ASSUME NEW p \in Procs, Push(p), n = next[p]
      PROVE  n \in WithRow'
  BY <1>2, AtWork DEF Push, Forward
<1>3. repo[n] = "has_commits" \/ \E p \in Procs : Push(p) /\ n = next[p]
  <2>1. CASE repo' = repo
    BY <2>1
  <2>2. repo \in [Attempts -> {"missing", "empty", "has_commits"}]
    BY DEF Sound, TypeOK
  <2>3. ASSUME NEW p \in Procs, CreateRepo(p)
        PROVE  repo[n] = "has_commits"
    BY <2>2, <2>3 DEF CreateRepo
  <2>4. ASSUME NEW p \in Procs, Push(p), n # next[p]
        PROVE  repo[n] = "has_commits"
    BY <2>2, <2>4 DEF Push
  <2>5. repo' = repo \/ \E p \in Procs : CreateRepo(p) \/ Push(p)
    BY DEF Next, GradeCommit, OpenIssue, MasteryMoves, RosterApply, NextAttempt, Deliver, Resume,
           StartWith, Publish, Step, Stop, RecordAttempt, RefuseAttempt, CheckRepo, Render,
           RefuseHistory, CheckTarget, WriteRoster, Invite, KnowIssue, FindIssue,
           CreateIssue, RecordIssue, Look, Comment, PrintRoster, vars
  <2>6. QED
    BY <2>1, <2>3, <2>4, <2>5
<1>4. QED
  BY <1>1, <1>2, <1>3

\* Every step keeps Sound.
LEMMA SoundKept ==
  ASSUME Sound, [Next]_vars
  PROVE  Sound'
<1>1. TypeOK' /\ LocalsOK' /\ Forward
  BY TypesKept, StepForward
<1>2. NextAfterFreeze'
  BY <1>1, FreezeKept
<1>3. /\ (touched # {} => roster # None)'
      /\ (printed # None => repo[printed] = "has_commits")'
      /\ (roster # None => repo[roster] = "has_commits")'
  BY <1>1, NamesStay
<1>4. (\A i \in 1..Len(comments) : comments[i].next >= 2)'
  BY <1>1, CommentsStay
<1>5. WhatIsSaidIsThere'
  <2>1. ASSUME NEW n \in Attempts, NEW i \in Commented(n)'
        PROVE  n \in WithRow' /\ repo'[n] = "has_commits" /\ n \in invited'
    BY <1>1, <2>1, CommentsStay DEF Commented
  <2>2. QED
    BY <1>3, <2>1 DEF WhatIsSaidIsThere
<1>6. ASSUME NEW q \in Procs
      PROVE  RunSound(q)'
  <2>1. CASE UNCHANGED <<pc, next, old>>
    BY <1>1, <2>1, OtherSound
  <2>2. ASSUME NEW p \in Procs, Moves(p)
        PROVE  RunSound(q)'
    <3>1. CASE p = q
      BY <1>1, <2>2, <3>1, MoverSound
    <3>2. CASE p # q
      BY <1>1, <2>2, <3>2, OneMoves, OtherSound
    <3>3. QED
      BY <3>1, <3>2
  <2>3. Beside => UNCHANGED <<pc, next, old>>
    BY DEF Beside, GradeCommit, OpenIssue, MasteryMoves, RosterApply, NextAttempt, local
  <2>4. QED
    BY <2>1, <2>2, <2>3, StepCases DEF vars, local
<1>7. (\A n \in Attempts : repo[n] = "has_commits" => n \in WithRow)'
  BY <1>1, RowsStay
<1>8. QED
  BY <1>1, <1>2, <1>3, <1>4, <1>5, <1>6, <1>7 DEF Sound

\* Nothing is recorded, and no run is at work.
LEMMA InitSound ==
  Init => Sound
<1> SUFFICES ASSUME Init
             PROVE  Sound
  OBVIOUS
<1> USE DeliveryAssumption DEF None
<1>1. /\ last = 0 /\ frozen = {} /\ touched = {} /\ roster = 0 /\ printed = 0 /\ invited = {}
      /\ comments = <<>> /\ Len(<<>>) = 0
  BY DEF Init
<1>2. \A p \in Procs : pc[p] = "idle" /\ next[p] = 0
  BY DEF Init
<1>3. TypeOK
  <2>1. /\ variant \in [Attempts -> Variants \cup {NoVariant}] /\ chosen \in Variants
        /\ issueRow \in [Attempts -> Nat]
        /\ repo \in [Attempts -> {"missing", "empty", "has_commits"}]
        /\ pushed \in [Attempts -> Variants \cup {NoVariant}]
        /\ issues \in [Attempts -> Seq(Attempts)]
        /\ \A n \in Attempts : variant[n] = NoVariant /\ pushed[n] = NoVariant /\ repo[n] = "missing"
    BY DEF Init
  <2>2. comments \in Seq([repo : Attempts, issue : Nat \ {0}, next : Attempts])
    BY <1>1
  <2>3. last \in 0..MaxAttempt /\ roster \in 0..MaxAttempt /\ frozen \subseteq touched
        /\ touched \subseteq WithRow /\ invited \subseteq Attempts
    BY <1>1
  <2>4. WithRow = {}
    BY <2>1 DEF WithRow
  <2>5. QED
    BY <1>1, <1>2, <2>1, <2>2, <2>3, <2>4 DEF TypeOK
<1>4. LocalsOK
  <2>1. 0 \in 0..MaxAttempt /\ 0 \in Nat
    OBVIOUS
  <2>2. QED
    BY <2>1 DEF Init, LocalsOK, Steps
<1>5. \A p \in Procs : RunSound(p)
  BY <1>2 DEF RunSound, Announcing, Seeking, Publishing
<1>6. NextAfterFreeze /\ WhatIsSaidIsThere /\ \A n \in Attempts : repo[n] # "has_commits"
  BY <1>1 DEF Init, NextAfterFreeze, WhatIsSaidIsThere, Commented, WithRow
<1>7. QED
  BY <1>1, <1>3, <1>4, <1>5, <1>6 DEF Sound

\* The rows, the roster and what GitHub has are well typed, an attempt has a variant
\* and a repository with commits has the render it was given, and a run has what its
\* step needs (deliver_next_attempt and publish_repo, step by step).
THEOREM TypesHold == Spec => []TypeOK
<1>1. Init => Sound
  BY InitSound
<1>2. Sound /\ [Next]_vars => Sound'
  BY SoundKept
<1>3. Sound => TypeOK
  BY DEF Sound
<1>4. QED
  BY <1>1, <1>2, <1>3, PTL DEF Spec

\* No attempt is recorded before the one before it is frozen, however many deliveries
\* and next_attempt commands meet (next_attempt.decide is asked again at the row).
THEOREM FrozenBeforeTheNext == Spec => []NextAfterFreeze
<1>1. Init => Sound
  BY InitSound
<1>2. Sound /\ [Next]_vars => Sound'
  BY SoundKept
<1>3. Sound => NextAfterFreeze
  BY DEF Sound
<1>4. QED
  BY <1>1, <1>2, <1>3, PTL DEF Spec

\* A delivery comment is about an attempt with its row, its commits and its student,
\* and the roster names a repository with commits, wherever runs stop and meet
\* (the order of steps [1] to [5], and publish_repo's edit after the verified push).
THEOREM SaidWhenThere == Spec => []WhatIsSaidIsThere
<1>1. Init => Sound
  BY InitSound
<1>2. Sound /\ [Next]_vars => Sound'
  BY SoundKept
<1>3. Sound => WhatIsSaidIsThere
  BY DEF Sound
<1>4. QED
  BY <1>1, <1>2, <1>3, PTL DEF Spec

-----------------------------------------------------------------------------
(* Without two runs at once.                                               *)

\* A meeting of runs is never forgotten, and a run that starts beside another is one.
LEMMA AloneKept ==
  ASSUME Sound, [Next]_vars, ~raced', ~raced => Alone
  PROVE  ~raced /\ Alone'
<1> USE DEF db, github, talk, local
<1>1. LocalsOK
  BY DEF Sound
<1>2. ASSUME NEW p \in Procs, Deliver(p) \/ Resume(p) \/ \E n \in Attempts : Publish(p, n)
      PROVE  ~raced /\ Alone'
  <2>1. ~raced /\ \A q \in Procs : pc[q] = "idle"
    BY <1>2 DEF Deliver, Resume, Publish, StartWith, Busy
  <2>2. \A q \in Procs \ {p} : pc'[q] = "idle"
    BY <1>1, <1>2, <2>1 DEF Deliver, Resume, Publish, StartWith, Goto, LocalsOK
  <2>3. QED
    BY <2>1, <2>2 DEF Alone
<1>3. ASSUME NEW p \in Procs, Step(p) \/ Stop(p)
      PROVE  ~raced /\ Alone'
  <2>1. raced' = raced /\ pc[p] # "idle"
    BY <1>3 DEF Step, Stop, RecordAttempt, RefuseAttempt, CheckRepo, Render,
           RefuseHistory, CheckTarget, CreateRepo, Push, WriteRoster, Invite, KnowIssue, FindIssue,
           CreateIssue, RecordIssue, Look, Comment, PrintRoster
  <2>2. \A q \in Procs \ {p} : pc'[q] = pc[q]
    BY <1>3, OneMoves DEF Moves
  <2>3. \A q \in Procs : pc'[q] # "idle" => pc[q] # "idle"
    BY <2>1, <2>2
  <2>4. QED
    BY <2>1, <2>3 DEF Alone
<1>4. CASE Beside
  <2>1. pc' = pc /\ (raced => raced')
    <3>1. CASE raced' = raced /\ pc' = pc
      BY <3>1
    <3>2. CASE \E n \in Attempts : OpenIssue(n)
      BY <3>2 DEF OpenIssue
    <3>3. QED
      BY <1>4, <3>1, <3>2 DEF Beside, GradeCommit, MasteryMoves, RosterApply, NextAttempt
  <2>2. QED
    BY <2>1 DEF Alone
<1>5. CASE UNCHANGED vars
  BY <1>5 DEF Alone, vars
<1>6. QED
  BY <1>2, <1>3, <1>4, <1>5, StepCases DEF Moves

\* A run that does not move, while another does, is at rest.
LEMMA OthersRest ==
  ASSUME Sound, Alone', ~raced => Alone, ~raced', [Next]_vars,
         NEW p \in Procs, Moves(p), NEW q \in Procs, q # p
  PROVE  pc'[q] = "idle"
<1>1. CASE pc'[p] # "idle"
  BY <1>1 DEF Alone
<1>2. CASE pc'[p] = "idle"
  <2>1. Step(p) \/ Stop(p)
    BY <1>2 DEF Moves, Deliver, Resume, Publish, Goto, Sound, LocalsOK
  <2>2. pc[p] # "idle"
    BY <2>1 DEF Step, Stop, RecordAttempt, RefuseAttempt, CheckRepo, Render,
           RefuseHistory, CheckTarget, CreateRepo, Push, WriteRoster, Invite, KnowIssue, FindIssue,
           CreateIssue, RecordIssue, Look, Comment, PrintRoster
  <2>3. pc[q] = "idle"
    BY <2>2, AloneKept DEF Alone
  <2>4. QED
    BY <2>3, OneMoves
<1>3. QED
  BY <1>1, <1>2

\* The issue of an attempt, once in its row, stays.
LEMMA IssueRowStays ==
  ASSUME Sound, [Next]_vars, NEW n \in Attempts, issueRow[n] # None
  PROVE  issueRow'[n] = issueRow[n]
<1>1. issueRow \in [Attempts -> Nat]
  BY DEF Sound, TypeOK
<1>2. CASE issueRow' = issueRow
  BY <1>2
<1>3. ASSUME NEW k \in Attempts, OpenIssue(k)
      PROVE  issueRow'[n] = issueRow[n]
  BY <1>1, <1>3 DEF OpenIssue
<1>4. ASSUME NEW p \in Procs, RecordIssue(p)
      PROVE  issueRow'[n] = issueRow[n]
  BY <1>1, <1>4 DEF RecordIssue
<1>5. \/ issueRow' = issueRow \/ (\E k \in Attempts : OpenIssue(k))
      \/ \E p \in Procs : RecordIssue(p)
  BY DEF Next, GradeCommit, MasteryMoves, RosterApply, NextAttempt, Deliver, Resume,
         StartWith, Publish, Step, Stop, RecordAttempt, RefuseAttempt, CheckRepo, Render,
         RefuseHistory, CheckTarget, CreateRepo, Push, WriteRoster, Invite, KnowIssue, FindIssue,
         CreateIssue, Look, Comment, PrintRoster, vars, talk
<1>6. QED
  BY <1>2, <1>3, <1>4, <1>5

\* The issue of a run that moves is the one of the row.
LEMMA MoverIssue ==
  ASSUME Sound, NEW p \in Procs, Moves(p), IssueOfRow(p)
  PROVE  IssueOfRow(p)'
<1> USE DEF None, db, github, talk, local, Goto
<1>1. TypeOK /\ LocalsOK
  BY DEF Sound
<1>2. CASE pc'[p] \notin {"create issue", "record", "look", "comment", "print"}
  BY <1>2 DEF IssueOfRow
<1>3. CASE KnowIssue(p) \/ FindIssue(p) \/ CreateIssue(p) \/ RecordIssue(p) \/ Look(p) \/ Comment(p)
  <2>1. Done(p) \in Attempts /\ pc[p] \in Seeking
    BY <1>3, AtWork DEF KnowIssue, FindIssue, CreateIssue, RecordIssue, Look, Comment, Announcing, Seeking
  <2>2. CASE pc'[p] = "idle"
    BY <1>2, <2>2
  <2>3. CASE pc'[p] # "idle"
    <3>1. Done(p)' = Done(p)
      BY <1>1, <1>3, <2>3 DEF KnowIssue, FindIssue, CreateIssue, RecordIssue, Look, Comment, Done, End, LocalsOK
    <3>2. CASE KnowIssue(p)
      BY <1>1, <2>1, <3>1, <3>2 DEF KnowIssue, IssueOfRow, LocalsOK
    <3>3. CASE FindIssue(p)
      BY <1>1, <2>1, <3>1, <3>3 DEF FindIssue, IssueOfRow, LocalsOK
    <3>4. CASE CreateIssue(p)
      BY <1>1, <2>1, <3>1, <3>4 DEF CreateIssue, IssueOfRow, LocalsOK
    <3>5. CASE RecordIssue(p)
      BY <1>1, <2>1, <3>1, <3>5 DEF RecordIssue, IssueOfRow, TypeOK, LocalsOK
    <3>6. CASE Look(p) \/ Comment(p)
      BY <1>1, <2>1, <2>3, <3>1, <3>6 DEF Look, Comment, IssueOfRow, End, LocalsOK
    <3>7. QED
      BY <1>3, <3>2, <3>3, <3>4, <3>5, <3>6
  <2>4. QED
    BY <2>2, <2>3
<1>4. \/ pc'[p] \notin {"create issue", "record", "look", "comment", "print"}
      \/ KnowIssue(p) \/ FindIssue(p) \/ CreateIssue(p) \/ RecordIssue(p) \/ Look(p) \/ Comment(p)
  <2>1. CASE Deliver(p) \/ Resume(p) \/ (\E n \in Attempts : Publish(p, n)) \/ Stop(p)
    BY <1>1, <2>1 DEF Deliver, Resume, Publish, Stop, End, LocalsOK
  <2>2. CASE Step(p)
    BY <1>1, <2>2 DEF Step, RecordAttempt, RefuseAttempt, CheckRepo, Render, RefuseHistory, CheckTarget,
                      CreateRepo, Push, WriteRoster, Invite, PrintRoster, End, LocalsOK
  <2>3. QED
    BY <2>1, <2>2 DEF Moves
<1>5. QED
  BY <1>2, <1>3, <1>4

\* A run about to comment has not found its comment.
LEMMA MoverUnsaid ==
  ASSUME Sound, NEW p \in Procs, Moves(p), IssueOfRow(p),
         \A i \in 1..Len(comments) : comments[i].issue = issueRow[comments[i].next - 1]
  PROVE  Unsaid(p)'
<1> USE DEF None, db, github, talk, local, Goto
<1>1. TypeOK /\ LocalsOK
  BY DEF Sound
<1>2. CASE pc'[p] # "comment"
  BY <1>2 DEF Unsaid
<1>3. CASE Look(p) /\ pc'[p] = "comment"
  <2>1. ~Said(p) /\ number[p] = issueRow[Done(p)] /\ UNCHANGED <<comments, old, next>>
    BY <1>1, <1>3 DEF Look, End, IssueOfRow, LocalsOK
  <2>2. ASSUME NEW i \in 1..Len(comments), comments[i].repo = old[p], comments[i].next = next[p]
        PROVE  FALSE
    <3>1. comments \in Seq([repo : Attempts, issue : Nat \ {0}, next : Attempts])
      BY <1>1 DEF TypeOK
    <3>2. comments[i] \in [repo : Attempts, issue : Nat \ {0}, next : Attempts]
      BY <3>1, ElementOf
    <3>3. comments[i].issue = number[p]
      BY <2>1, <2>2 DEF Done
    <3>4. comments[i] = [repo |-> old[p], issue |-> number[p], next |-> next[p]]
      BY <2>2, <3>2, <3>3
    <3>5. QED
      BY <2>1, <3>4 DEF Said
  <2>3. QED
    BY <2>1, <2>2 DEF Unsaid
<1>4. pc'[p] = "comment" => Look(p)
  <2>1. CASE Deliver(p) \/ Resume(p) \/ (\E n \in Attempts : Publish(p, n)) \/ Stop(p)
    BY <1>1, <2>1 DEF Deliver, Resume, Publish, Stop, End, LocalsOK
  <2>2. CASE Step(p)
    BY <1>1, <2>2 DEF Step, RecordAttempt, RefuseAttempt, CheckRepo, Render, RefuseHistory, CheckTarget,
                      CreateRepo, Push, WriteRoster, Invite, KnowIssue, FindIssue, CreateIssue,
                      RecordIssue, Comment, PrintRoster, End, LocalsOK
  <2>3. QED
    BY <2>1, <2>2 DEF Moves
<1>5. QED
  BY <1>2, <1>3, <1>4

\* A delivery comment carries the issue of the row, and is not there already.
LEMMA OneSaid ==
  ASSUME Sound, [Next]_vars, \A p \in Procs : IssueOfRow(p) /\ Unsaid(p), OneDeliveryComment \/ raced,
         \A i \in 1..Len(comments) : comments[i].issue = issueRow[comments[i].next - 1]
  PROVE  /\ \A i \in 1..Len(comments') : comments'[i].issue = issueRow'[comments'[i].next - 1]
         /\ ~raced => \A i, j \in 1..Len(comments') :
              comments'[i].repo = comments'[j].repo /\ comments'[i].next = comments'[j].next => i = j
<1>1. /\ comments \in Seq([repo : Attempts, issue : Nat \ {0}, next : Attempts])
      /\ Len(comments) \in Nat /\ MaxAttempt \in Nat
  BY DeliveryAssumption DEF Sound, TypeOK
<1>2. ASSUME NEW i \in 1..Len(comments)
      PROVE  comments[i].issue = issueRow'[comments[i].next - 1]
  <2>1. comments[i] \in [repo : Attempts, issue : Nat \ {0}, next : Attempts]
    BY <1>1, ElementOf
  <2>2. comments[i].next - 1 \in Attempts
    <3>1. comments[i].next \in Attempts /\ comments[i].next >= 2
      BY <2>1 DEF Sound
    <3> DEFINE n == comments[i].next
    <3>2. n \in Attempts /\ n >= 2
      BY <3>1
    <3> HIDE DEF n
    <3>3. n - 1 \in Attempts
      BY <1>1, <3>2 DEF Attempts
    <3>4. QED
      BY <3>3 DEF n
  <2>3. issueRow[comments[i].next - 1] # None
    BY <2>1 DEF None
  <2>4. QED
    BY <2>2, <2>3, IssueRowStays
<1>3. CASE comments' = comments
  BY <1>2, <1>3 DEF OneDeliveryComment
<1>4. ASSUME NEW p \in Procs, Comment(p)
      PROVE  /\ \A i \in 1..Len(comments') : comments'[i].issue = issueRow'[comments'[i].next - 1]
             /\ ~raced => \A i, j \in 1..Len(comments') :
                  comments'[i].repo = comments'[j].repo /\ comments'[i].next = comments'[j].next => i = j
  <2> DEFINE r == [repo |-> old[p], issue |-> number[p], next |-> next[p]]
  <2>1. /\ old[p] \in Attempts /\ next[p] \in Attempts /\ Done(p) \in Attempts /\ pc[p] = "comment"
        /\ number[p] \in Nat \ {0}
    BY <1>4, AtWork DEF Comment, Announcing, Seeking, Sound, TypeOK, LocalsOK, None
  <2>2. issueRow[Done(p)] = number[p] /\ Unsaid(p)
    BY <2>1 DEF IssueOfRow
  <2>3. issueRow' = issueRow
    BY <1>4 DEF Comment
  <2>4. /\ r \in [repo : Attempts, issue : Nat \ {0}, next : Attempts]
        /\ r.issue = issueRow'[r.next - 1] /\ r.repo = old[p] /\ r.next = next[p]
    BY <2>1, <2>2, <2>3 DEF Done
  <2>5. comments' = Append(comments, r)
    BY <1>4 DEF Comment
  <2> HIDE DEF r
  <2>6. /\ Len(comments') = Len(comments) + 1
        /\ \A i \in 1..Len(comments) : comments'[i] = comments[i]
        /\ comments'[Len(comments) + 1] = r
    BY <1>1, <2>4, <2>5, Appended
  <2>7. \A i \in 1..Len(comments) : ~ (comments[i].repo = r.repo /\ comments[i].next = r.next)
    BY <2>1, <2>2, <2>4 DEF Unsaid
  <2>8. \A i \in 1..Len(comments') : i \in 1..Len(comments) \/ i = Len(comments) + 1
    BY <1>1, <2>6
  <2>9. \A i \in 1..Len(comments') : comments'[i].issue = issueRow'[comments'[i].next - 1]
    BY <1>2, <2>4, <2>6, <2>8
  <2>10. ASSUME ~raced, NEW i \in 1..Len(comments'), NEW j \in 1..Len(comments'),
                comments'[i].repo = comments'[j].repo, comments'[i].next = comments'[j].next
         PROVE  i = j
    BY <2>6, <2>7, <2>8, <2>10 DEF OneDeliveryComment
  <2>11. QED
    BY <2>9, <2>10
<1>5. comments' = comments \/ \E p \in Procs : Comment(p)
  BY DEF Next, GradeCommit, OpenIssue, MasteryMoves, RosterApply, NextAttempt, Deliver, Resume,
         StartWith, Publish, Step, Stop, RecordAttempt, RefuseAttempt, CheckRepo, Render,
         RefuseHistory, CheckTarget, CreateRepo, Push, WriteRoster, Invite, KnowIssue, FindIssue,
         CreateIssue, RecordIssue, Look, PrintRoster, vars, talk
<1>6. QED
  BY <1>3, <1>4, <1>5

\* Every step keeps Quiet.
LEMMA QuietKept ==
  ASSUME Sound, Quiet, [Next]_vars
  PROVE  Quiet'
<1> SUFFICES ASSUME ~raced'
             PROVE  /\ Alone'
                    /\ \A q \in Procs : IssueOfRow(q)' /\ Unsaid(q)'
                    /\ (\A i \in 1..Len(comments) : comments[i].issue = issueRow[comments[i].next - 1])'
                    /\ OneDeliveryComment'
  BY DEF Quiet
<1> USE DEF db, github, talk, local
<1>1. ~raced /\ Alone' /\ Alone
  BY AloneKept DEF Quiet
<1>2. /\ \A q \in Procs : IssueOfRow(q) /\ Unsaid(q)
      /\ \A i \in 1..Len(comments) : comments[i].issue = issueRow[comments[i].next - 1]
      /\ OneDeliveryComment
  BY <1>1 DEF Quiet
<1>3. /\ (\A i \in 1..Len(comments) : comments[i].issue = issueRow[comments[i].next - 1])'
      /\ OneDeliveryComment'
  BY <1>1, <1>2, OneSaid DEF OneDeliveryComment
<1>4. ASSUME NEW q \in Procs
      PROVE  IssueOfRow(q)' /\ Unsaid(q)'
  <2>1. CASE pc'[q] = "idle"
    BY <2>1 DEF IssueOfRow, Unsaid
  <2>2. ASSUME NEW p \in Procs, Moves(p)
        PROVE  IssueOfRow(q)' /\ Unsaid(q)'
    <3>1. CASE p = q
      BY <1>2, <2>2, <3>1, MoverIssue, MoverUnsaid
    <3>2. CASE p # q
      BY <1>1, <2>1, <2>2, <3>2, OthersRest
    <3>3. QED
      BY <3>1, <3>2
  <2>3. CASE UNCHANGED <<pc, next, old, number, issueRow, comments>>
    BY <1>2, <2>3 DEF IssueOfRow, Unsaid, Done
  <2>4. ASSUME NEW n \in Attempts, OpenIssue(n)
        PROVE  IssueOfRow(q)' /\ Unsaid(q)'
    <3>1. UNCHANGED <<pc, next, old, number, comments>> /\ pc[q] \notin {"create issue", "record"}
      BY <2>4 DEF OpenIssue
    <3>2. Unsaid(q)'
      BY <1>2, <3>1 DEF Unsaid
    <3>3. CASE pc[q] \in {"look", "comment", "print"}
      <4>1. Done(q) \in Attempts /\ number[q] # None
        <5>1. number[q] # None \/ pc[q] \notin {"look", "comment", "print"}
          BY DEF Sound, TypeOK
        <5>2. QED
          BY <3>3, <5>1, AtWork DEF Announcing, Seeking
      <4>2. issueRow'[Done(q)] = issueRow[Done(q)]
        BY <1>2, <3>3, <4>1, IssueRowStays DEF IssueOfRow
      <4>3. QED
        BY <1>2, <3>1, <3>2, <4>2 DEF IssueOfRow, Done
    <3>4. CASE pc[q] \notin {"look", "comment", "print"}
      BY <3>1, <3>2, <3>4 DEF IssueOfRow
    <3>5. QED
      BY <3>3, <3>4
  <2>5. Beside => UNCHANGED <<pc, next, old, number, issueRow, comments>> \/ \E n \in Attempts : OpenIssue(n)
    BY DEF Beside, GradeCommit, MasteryMoves, RosterApply, NextAttempt
  <2>6. QED
    BY <2>2, <2>3, <2>4, <2>5, StepCases DEF vars
<1>5. QED
  BY <1>1, <1>3, <1>4

\* D-090: a repository has one comment of a delivery, however often the delivery fails
\* and is resumed, while no two runs and no issue of the hourly task meet (the marker
\* looked for in step [4], and the issue number taken from the row).
THEOREM OneCommentOfADelivery == Spec => []OneDeliveryComment
<1>1. Init => Sound /\ Quiet
  <2>1. Init => Quiet
    <3> SUFFICES ASSUME Init
                 PROVE  Quiet
      OBVIOUS
    <3>1. comments = <<>> /\ Len(<<>>) = 0 /\ \A p \in Procs : pc[p] = "idle"
      BY DEF Init
    <3>2. 1..Len(comments) = {}
      BY <3>1
    <3>3. QED
      BY <3>1, <3>2 DEF Quiet, Alone, IssueOfRow, Unsaid, OneDeliveryComment
  <2>2. QED
    BY <2>1, InitSound
<1>2. Sound /\ Quiet /\ [Next]_vars => Sound' /\ Quiet'
  BY SoundKept, QuietKept
<1>3. Quiet => OneDeliveryComment
  BY DEF Quiet, OneDeliveryComment
<1>4. QED
  BY <1>1, <1>2, <1>3, PTL DEF Spec

-----------------------------------------------------------------------------
(* What is published is what is recorded.                                  *)

\* An attempt frozen before its repository was pushed is known to be.
LEMMA AdriftKept ==
  ASSUME Sound, Rendered, [Next]_vars
  PROVE  adrift \subseteq adrift' /\ \A n \in frozen' \ adrift' : repo'[n] = "has_commits"
<1> USE DEF db, github, talk, local, past
<1>1. Forward /\ TypeOK /\ frozen \subseteq Attempts
  BY StepForward DEF Sound, TypeOK, WithRow
<1>2. adrift \subseteq adrift'
  BY DEF Next, GradeCommit, OpenIssue, MasteryMoves, RosterApply, NextAttempt, Deliver, Resume,
         StartWith, Publish, Step, Stop, RecordAttempt, RefuseAttempt, CheckRepo, Render,
         RefuseHistory, CheckTarget, CreateRepo, Push, WriteRoster, Invite, KnowIssue, FindIssue,
         CreateIssue, RecordIssue, Look, Comment, PrintRoster, vars
<1>3. CASE frozen' = frozen
  BY <1>1, <1>2, <1>3 DEF Rendered, Forward
<1>4. ASSUME NEW n \in Attempts, NEW full \in BOOLEAN, GradeCommit(n, full)
      PROVE  \A k \in frozen' \ adrift' : repo'[k] = "has_commits"
  BY <1>2, <1>4 DEF GradeCommit, Rendered
<1>5. frozen' = frozen \/ \E n \in Attempts, full \in BOOLEAN : GradeCommit(n, full)
  BY DEF Next, OpenIssue, MasteryMoves, RosterApply, NextAttempt, Deliver, Resume,
         StartWith, Publish, Step, Stop, RecordAttempt, RefuseAttempt, CheckRepo, Render,
         RefuseHistory, CheckTarget, CreateRepo, Push, WriteRoster, Invite, KnowIssue, FindIssue,
         CreateIssue, RecordIssue, Look, Comment, PrintRoster, vars
<1>6. QED
  BY <1>2, <1>3, <1>4, <1>5

\* The tree of the run that moves is of the variant in its row.
LEMMA MoverTree ==
  ASSUME Sound, Rendered, NEW p \in Procs, Moves(p), TreeOfRow(p)
  PROVE  TreeOfRow(p)'
<1> USE DEF db, github, talk, local, past, Goto
<1>1. TypeOK /\ LocalsOK
  BY DEF Sound
<1>2. CASE pc'[p] \notin {"check", "create", "push"}
  BY <1>2 DEF TreeOfRow
<1>3. CASE Render(p)
  <2>1. next[p] \in Attempts /\ next'[p] = next[p] /\ pc'[p] = "check" /\ tree'[p] = chosen
        /\ repo' = repo /\ adrift \subseteq adrift'
    BY <1>1, <1>3, AtWork DEF Render, LocalsOK
  <2>2. variant'[next[p]] = IF next[p] \in frozen THEN variant[next[p]] ELSE chosen
    BY <1>1, <1>3, <2>1 DEF Render, RecordVariant, TypeOK
  <2>3. repo[next[p]] # "has_commits" /\ next[p] \notin adrift => next[p] \notin frozen
    BY <1>1 DEF Rendered, TypeOK
  <2>4. QED
    BY <2>1, <2>2, <2>3 DEF TreeOfRow
<1>4. CASE (CheckTarget(p) \/ CreateRepo(p)) /\ pc'[p] # "idle"
  <2>1. /\ pc[p] \in {"check", "create"} /\ pc'[p] \in {"create", "push"} /\ next[p] \in Attempts
        /\ UNCHANGED <<tree, variant, adrift, next>>
    BY <1>1, <1>4, AtWork DEF CheckTarget, CreateRepo, End, LocalsOK
  <2>2. repo[next[p]] # "has_commits"
    BY <1>1, <1>4, <2>1 DEF CheckTarget, CreateRepo, End, LocalsOK
  <2>3. QED
    BY <2>1, <2>2 DEF TreeOfRow
<1>5. \/ pc'[p] \notin {"check", "create", "push"}
      \/ Render(p)
      \/ (CheckTarget(p) \/ CreateRepo(p)) /\ pc'[p] # "idle"
  <2>1. CASE Deliver(p) \/ Resume(p) \/ Stop(p) \/ \E n \in Attempts : Publish(p, n)
    BY <1>1, <2>1 DEF Deliver, Resume, Publish, Stop, End, LocalsOK
  <2>2. CASE Step(p)
    BY <1>1, <2>2 DEF Step, RecordAttempt, RefuseAttempt, CheckRepo, RefuseHistory,
                      Push, WriteRoster, Invite, KnowIssue, FindIssue, CreateIssue,
                      RecordIssue, Look, Comment, PrintRoster, End, LocalsOK
  <2>3. QED
    BY <2>1, <2>2 DEF Moves
<1>6. QED
  BY <1>2, <1>3, <1>4, <1>5

\* A push gives the repository what the row says, and the row of a repository with
\* commits is not rendered again.
LEMMA PublishedKept ==
  ASSUME Sound, Rendered, [Next]_vars, \A p \in Procs : TreeOfRow(p),
         \A n \in Attempts : n \notin adrift /\ pushed[n] # NoVariant => pushed[n] = variant[n]
  PROVE  \A n \in Attempts : n \notin adrift' /\ pushed'[n] # NoVariant => pushed'[n] = variant'[n]
<1> USE DEF db, github, talk, local, past
<1>1. TypeOK /\ last \in Nat
  BY DEF Sound, TypeOK
<1>2. \A n \in Attempts : pushed[n] # NoVariant => repo[n] = "has_commits" /\ n \in WithRow
  BY <1>1 DEF Sound, TypeOK
<1>3. adrift \subseteq adrift'
  BY AdriftKept
<1>4. CASE pushed' = pushed /\ variant' = variant
  BY <1>3, <1>4
<1>5. CASE pushed' = pushed /\ CanStart /\ last' = last + 1 /\ variant' = [variant EXCEPT ![last + 1] = chosen]
  <2>1. ASSUME NEW n \in Attempts, pushed[n] # NoVariant
        PROVE  variant'[n] = variant[n]
    BY <1>1, <1>2, <1>5, <2>1, Recorded DEF TypeOK
  <2>2. QED
    BY <1>3, <1>5, <2>1
<1>6. ASSUME NEW p \in Procs, Render(p)
      PROVE  \A n \in Attempts : n \notin adrift' /\ pushed'[n] # NoVariant => pushed'[n] = variant'[n]
  <2>1. pushed' = pushed
    BY <1>6 DEF Render
  <2>2. ASSUME NEW n \in Attempts, pushed[n] # NoVariant, n \notin adrift'
        PROVE  variant'[n] = variant[n]
    <3>1. n # next[p] \/ n \in frozen
      BY <1>2, <1>6, <2>2 DEF Render
    <3>2. QED
      BY <1>6, <3>1, RowRendered
  <2>3. QED
    BY <1>3, <2>1, <2>2
<1>7. ASSUME NEW p \in Procs, Push(p)
      PROVE  \A n \in Attempts : n \notin adrift' /\ pushed'[n] # NoVariant => pushed'[n] = variant'[n]
  <2>1. CASE pushed' = pushed
    BY <1>3, <1>7, <2>1 DEF Push
  <2>2. CASE repo[next[p]] = "empty" /\ pushed' = [pushed EXCEPT ![next[p]] = tree[p]]
    BY <1>1, <1>3, <1>7, <2>2 DEF Push, TreeOfRow, TypeOK
  <2>3. QED
    BY <1>7, <2>1, <2>2 DEF Push
<1>8. \/ pushed' = pushed /\ variant' = variant
      \/ pushed' = pushed /\ CanStart /\ last' = last + 1 /\ variant' = [variant EXCEPT ![last + 1] = chosen]
      \/ \E p \in Procs : Render(p) \/ Push(p)
  BY DEF Next, GradeCommit, OpenIssue, MasteryMoves, RosterApply, NextAttempt, Deliver, Resume,
         StartWith, Publish, Step, Stop, RecordAttempt, RefuseAttempt, CheckRepo,
         RefuseHistory, CheckTarget, CreateRepo, WriteRoster, Invite, KnowIssue, FindIssue,
         CreateIssue, RecordIssue, Look, Comment, PrintRoster, vars
<1>9. QED
  BY <1>4, <1>5, <1>6, <1>7, <1>8

\* Every step keeps Rendered.
LEMMA RenderedKept ==
  ASSUME Sound, Quiet, Rendered, [Next]_vars
  PROVE  Rendered'
<1> SUFFICES ASSUME ~raced'
             PROVE  (\A q \in Procs : TreeOfRow(q)') /\ PublishedAsRecorded'
  BY AdriftKept DEF Rendered
<1> USE DEF db, github, talk, local, past
<1>1. ~raced /\ Alone' /\ Alone
  BY AloneKept DEF Quiet
<1>2. (\A q \in Procs : TreeOfRow(q)) /\ PublishedAsRecorded
  BY <1>1 DEF Rendered
<1>3. PublishedAsRecorded'
  BY <1>1, <1>2, PublishedKept DEF PublishedAsRecorded
<1>4. ASSUME NEW q \in Procs
      PROVE  TreeOfRow(q)'
  <2>1. CASE pc'[q] = "idle"
    BY <2>1 DEF TreeOfRow
  <2>2. ASSUME NEW p \in Procs, Moves(p)
        PROVE  TreeOfRow(q)'
    <3>1. CASE p = q
      BY <1>2, <2>2, <3>1, MoverTree
    <3>2. CASE p # q
      BY <1>1, <2>1, <2>2, <3>2, OthersRest
    <3>3. QED
      BY <3>1, <3>2
  <2>3. CASE UNCHANGED <<pc, next, tree, repo, variant>> /\ adrift \subseteq adrift'
    BY <1>2, <2>3 DEF TreeOfRow
  <2>4. CASE NextAttempt
    <3>1. UNCHANGED <<pc, next, tree, repo, adrift>>
      BY <2>4 DEF NextAttempt
    <3>2. pc[q] \in {"check", "create", "push"} => variant'[next[q]] = variant[next[q]]
      <4>1. pc[q] \in {"check", "create", "push"} => next[q] \in WithRow /\ next[q] \in Attempts
        BY AtWork
      <4>2. last \in Nat /\ variant \in [Attempts -> Variants \cup {NoVariant}]
        BY DEF Sound, TypeOK
      <4>3. QED
        BY <2>4, <4>1, <4>2, Recorded DEF NextAttempt, Sound
    <3>3. QED
      BY <1>2, <3>1, <3>2 DEF TreeOfRow
  <2>5. Beside => \/ NextAttempt
                  \/ UNCHANGED <<pc, next, tree, repo, variant>> /\ adrift \subseteq adrift'
    <3>1. ASSUME NEW n \in Attempts, NEW full \in BOOLEAN, GradeCommit(n, full)
          PROVE  UNCHANGED <<pc, next, tree, repo, variant>> /\ adrift \subseteq adrift'
      BY <3>1 DEF GradeCommit
    <3>2. ASSUME NEW n \in Attempts, OpenIssue(n)
          PROVE  UNCHANGED <<pc, next, tree, repo, variant, adrift>>
      BY <3>2 DEF OpenIssue
    <3>3. MasteryMoves \/ RosterApply => UNCHANGED <<pc, next, tree, repo, variant, adrift>>
      BY DEF MasteryMoves, RosterApply
    <3>4. QED
      BY <3>1, <3>2, <3>3 DEF Beside
  <2>6. QED
    BY <2>2, <2>3, <2>4, <2>5, StepCases DEF vars
<1>5. QED
  BY <1>3, <1>4

\* A repository holds the variant its row names, which decides which gaps are graded,
\* whatever fails between the two renders and the push and however the mastery moves,
\* while no two runs meet, unless the attempt was frozen before its repository was
\* pushed or rendered again after it.
THEOREM PublishedIsRecorded == Spec => []PublishedAsRecorded
<1>1. Init => Sound /\ Quiet /\ Rendered
  <2>1. Init => Quiet /\ Rendered
    <3> SUFFICES ASSUME Init
                 PROVE  Quiet /\ Rendered
      OBVIOUS
    <3>1. /\ comments = <<>> /\ Len(<<>>) = 0 /\ frozen = {}
          /\ \A p \in Procs : pc[p] = "idle"
          /\ \A n \in Attempts : pushed[n] = NoVariant /\ repo[n] = "missing"
      BY DEF Init
    <3>2. 1..Len(comments) = {}
      BY <3>1
    <3>3. QED
      BY <3>1, <3>2 DEF Quiet, Alone, IssueOfRow, Unsaid, OneDeliveryComment, Rendered, TreeOfRow,
                        PublishedAsRecorded
  <2>2. QED
    BY <2>1, InitSound
<1>2. Sound /\ Quiet /\ Rendered /\ [Next]_vars => Sound' /\ Quiet' /\ Rendered'
  BY SoundKept, QuietKept, RenderedKept
<1>3. Sound /\ Quiet /\ Rendered => PublishedAsRecorded
  BY DEF Rendered, PublishedAsRecorded
<1>4. QED
  BY <1>1, <1>2, <1>3, PTL DEF Spec
=============================================================================
