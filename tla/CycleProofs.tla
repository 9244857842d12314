---------------------------- MODULE CycleProofs ----------------------------
(***************************************************************************)
(* A class read from a log is final, and what is stored keeps its type,    *)
(* for every set of commits, every log and every number of failures, with  *)
(* the hourly cycle and the operator's commands at once.                   *)
(***************************************************************************)
EXTENDS Cycle, FiniteSetTheorems, WellFoundedInduction, TLAPS

-----------------------------------------------------------------------------
(* The inductive invariant: what a process is about to write was stored or *)
(* listed when it read, and is still.                                      *)

IsRun(row) == row = [concl |-> row.concl, class |-> row.class,
                     tries |-> row.tries, final |-> row.final]

\* A class comes with a conclusion: the row is stored.
RealIsStored ==
  \A r \in Commits : raw_workflow_runs[r].class \in Real => r \in Stored

\* A process inserts runs that were listed, and updates rows that are stored.
BatchStands ==
  /\ batch = [p \in Collectors |-> batch[p]]
  /\ \A p \in Collectors : \A r \in DOMAIN batch[p] \cap Commits :
       /\ IsRun(batch[p][r].row)
       /\ batch[p][r].row.concl # "absent"
       /\ ~batch[p][r].new => r \in Stored

Inv == RealIsStored /\ BatchStands

-----------------------------------------------------------------------------
(* What a step does to the stored runs and to the batches. *)

\* Every row of a batch that is being made stands.
LEMMA ListedStands ==
  ASSUME NEW p \in Collectors, Inv, ListRuns(p)
  PROVE  Inv'
<1>1. PICK ok \in SUBSET ToDownload :
        batch' = [batch EXCEPT ![p] =
          [r \in ToInsert \cup ToDownload |->
             [new |-> r \in ToInsert,
              row |-> IF r \in ToDownload THEN Classified(r, r \in ok)
                      ELSE AsListed(r)]]]
  BY DEF ListRuns
<1>2. UNCHANGED raw_workflow_runs
  BY DEF ListRuns, stored
<1>3. Stored' = Stored /\ RealIsStored'
  BY <1>2 DEF Inv, RealIsStored, Stored
<1>4. ASSUME NEW r \in ToDownload, NEW o \in BOOLEAN
      PROVE  IsRun(Classified(r, o)) /\ Classified(r, o).concl # "absent"
  BY DEF ToDownload, Classified, IsRun
<1>5. ASSUME NEW r \in ToInsert
      PROVE  IsRun(AsListed(r)) /\ AsListed(r).concl # "absent"
  BY DEF ToInsert, AsListed, IsRun
<1>6. ASSUME NEW r \in ToDownload \ ToInsert
      PROVE  r \in Stored
  BY DEF ToDownload, ToInsert
<1>7. batch' = [q \in Collectors |-> batch'[q]]
  BY <1>1 DEF Inv, BatchStands
<1>8. ASSUME NEW q \in Collectors, NEW r \in DOMAIN batch'[q] \cap Commits
      PROVE  /\ IsRun(batch'[q][r].row)
             /\ batch'[q][r].row.concl # "absent"
             /\ ~batch'[q][r].new => r \in Stored'
  <2>1. CASE q = p
    <3>1. batch'[p] = [x \in ToInsert \cup ToDownload |->
             [new |-> x \in ToInsert,
              row |-> IF x \in ToDownload THEN Classified(x, x \in ok)
                      ELSE AsListed(x)]]
      BY <1>1 DEF Inv, BatchStands
    <3>2. r \in ToInsert \cup ToDownload
      BY <3>1, <2>1
    <3>3. /\ batch'[p][r].new = (r \in ToInsert)
          /\ batch'[p][r].row = IF r \in ToDownload THEN Classified(r, r \in ok)
                                ELSE AsListed(r)
      BY <3>1, <3>2
    <3>4. CASE r \in ToDownload
      <4>1. (r \in ok) \in BOOLEAN
        OBVIOUS
      <4> QED BY <2>1, <3>3, <3>4, <4>1, <1>3, <1>4, <1>6
    <3>5. CASE r \notin ToDownload
      BY <2>1, <3>2, <3>3, <3>5, <1>5
    <3> QED BY <3>4, <3>5
  <2>2. CASE q # p
    <3>1. batch'[q] = batch[q]
      BY <2>2, <1>1 DEF Inv, BatchStands
    <3> QED BY <3>1, <1>3 DEF Inv, BatchStands
  <2> QED BY <2>1, <2>2
<1> QED BY <1>3, <1>7, <1>8 DEF Inv, BatchStands

\* Storing a batch keeps what is stored, and a class that is real for good.
LEMMA StoredStands ==
  ASSUME NEW p \in Collectors, NEW next, Inv, Store(p, next)
  PROVE  Inv' /\ ClassificationKept
<1>1. \A r \in Commits : raw_workflow_runs'[r] =
        LET row == raw_workflow_runs[r]
        IN  IF r \notin DOMAIN batch[p] THEN row
            ELSE IF batch[p][r].new THEN InsertedBy(row, batch[p][r].row)
            ELSE RetriedBy(row, batch[p][r].row)
  BY DEF Store
<1>2. ASSUME NEW r \in Commits
      PROVE  /\ r \in Stored => raw_workflow_runs'[r].concl # "absent"
             /\ raw_workflow_runs'[r].class \in Real
                  => raw_workflow_runs'[r].concl # "absent"
             /\ raw_workflow_runs[r].class \in Real
                  => raw_workflow_runs'[r] = raw_workflow_runs[r]
  <2> DEFINE row == raw_workflow_runs[r]  new == batch[p][r].row
  <2>1. row.class \in Real => row.concl # "absent"
    BY DEF Inv, RealIsStored, Stored
  <2>2. CASE r \notin DOMAIN batch[p]
    BY <2>1, <2>2, <1>1 DEF Stored
  <2>3. CASE r \in DOMAIN batch[p] /\ batch[p][r].new
    <3>1. raw_workflow_runs'[r] = IF row.concl = "absent" THEN new ELSE row
      BY <2>3, <1>1 DEF InsertedBy
    <3>2. new.concl # "absent"
      BY <2>3 DEF Inv, BatchStands
    <3> QED BY <2>1, <3>1, <3>2 DEF Stored
  <2>4. CASE r \in DOMAIN batch[p] /\ ~batch[p][r].new
    <3>1. raw_workflow_runs'[r] = IF row.class \in {"none", "empty"}
                                  THEN [new EXCEPT !.concl = row.concl] ELSE row
      BY <2>4, <1>1 DEF RetriedBy
    <3>2. IsRun(new) /\ row.concl # "absent"
      BY <2>4 DEF Inv, BatchStands, Stored
    <3>3. [new EXCEPT !.concl = row.concl].concl = row.concl
      BY <3>2 DEF IsRun
    <3> QED BY <2>1, <3>1, <3>2, <3>3 DEF Real
  <2> QED BY <2>2, <2>3, <2>4
<1>3. Stored \subseteq Stored' /\ RealIsStored'
  BY <1>2 DEF Stored, RealIsStored
<1>4. batch' = [batch EXCEPT ![p] = <<>>]
  BY DEF Store
<1>5. BatchStands'
  <2>1. batch' = [q \in Collectors |-> batch'[q]]
    BY <1>4 DEF Inv, BatchStands
  <2>2. ASSUME NEW q \in Collectors, NEW r \in DOMAIN batch'[q] \cap Commits
        PROVE  q # p /\ batch'[q] = batch[q]
    BY <1>4 DEF Inv, BatchStands
  <2> QED BY <2>1, <2>2, <1>3 DEF Inv, BatchStands
<1> QED BY <1>2, <1>3, <1>5 DEF Inv, ClassificationKept

\* A step that stores nothing and leaves a batch as it is, or empties it.
LEMMA ForgottenStands ==
  ASSUME NEW p \in Collectors, Inv, UNCHANGED raw_workflow_runs,
         batch' = batch \/ batch' = [batch EXCEPT ![p] = <<>>]
  PROVE  Inv' /\ ClassificationKept
<1>1. Stored' = Stored
  BY DEF Stored
<1>2. batch' = [q \in Collectors |-> batch'[q]]
  BY DEF Inv, BatchStands
<1>3. ASSUME NEW q \in Collectors, NEW r \in DOMAIN batch'[q] \cap Commits
      PROVE  batch'[q] = batch[q]
  BY DEF Inv, BatchStands
<1> QED BY <1>1, <1>2, <1>3 DEF Inv, RealIsStored, BatchStands, ClassificationKept

\* The collection of one process, whatever it does next.
LEMMA CollectStands ==
  ASSUME NEW p \in Collectors, NEW next, Inv, Collect(p, next)
  PROVE  Inv' /\ ClassificationKept
<1>1. CASE ListCommits(p)
  BY <1>1, ForgottenStands DEF ListCommits, stored
<1>2. CASE ListRuns(p)
  BY <1>2, ListedStands DEF ListRuns, stored, ClassificationKept
<1>3. CASE Store(p, next)
  BY <1>3, StoredStands
<1>4. CASE CollectFails(p, next)
  BY <1>4, ForgottenStands DEF CollectFails, stored
<1> QED BY <1>1, <1>2, <1>3, <1>4 DEF Collect

LEMMA InitStands == Init => Inv
BY DEF Init, CollectorInit, NotStored, Inv, RealIsStored, BatchStands, Real, Stored

LEMMA StepStands ==
  ASSUME Inv, [Next]_vars
  PROVE  Inv' /\ ClassificationKept
<1>1. Hourly \in Collectors /\ Operator \in Collectors
  BY ProcessAssumption
<1>2. CASE StageCollect
  BY <1>1, <1>2, CollectStands DEF StageCollect
<1>3. CASE CommandEnds
  <2>1. CASE Collect(Operator, "idle")
    BY <1>1, <2>1, CollectStands
  <2>2. CASE UNCHANGED collected
    BY <1>1, <2>2, ForgottenStands DEF collected, stored
  <2> QED BY <1>3, <2>1, <2>2 DEF CommandEnds
<1>4. CASE UNCHANGED <<stored, batch>>
  BY <1>1, <1>4, ForgottenStands DEF stored
<1>5. World => UNCHANGED <<stored, batch>>
  BY DEF World, Push, CiEnds
<1>6. Deploy \/ Start \/ StageGrade \/ StageFeatures \/ StageProfile \/ StageFails
        \/ Command => UNCHANGED <<stored, batch>>
  BY DEF Deploy, Start, StageGrade, StageFeatures, StageProfile, StageFails,
         Command, collected
<1> QED BY <1>2, <1>3, <1>4, <1>5, <1>6 DEF Next, Cycle, vars

-----------------------------------------------------------------------------
\* Whoever collects, however often and from however old a reading: a class
\* read from a log is never taken back.
THEOREM ClassIsFinal == Spec => ClassKept
<1>1. Spec => []Inv
  <2>1. Inv /\ [Next]_vars => Inv'
    BY StepStands
  <2> QED BY InitStands, <2>1, PTL DEF Spec
<1>2. Inv /\ [Next]_vars => [ClassificationKept]_vars
  BY StepStands
<1> QED BY <1>1, <1>2, PTL DEF Spec, ClassKept

-----------------------------------------------------------------------------
(* The types, and what they rest on: a run is of a pushed commit, a log is *)
(* read only of a run that failed, tries are counted with a class.         *)

N == Cardinality(Commits)

Pushes == \A c \in Commits : /\ ci[c] # "absent" => c \in Pushed
                             /\ ci[c] = "failure" => Log[c] # "passed"
Tries(row) == row.class = "none" => row.tries = 0
Counts ==
  /\ \A r \in Commits : /\ Tries(raw_workflow_runs[r])
                        /\ r \notin Stored => raw_workflow_runs[r].tries = 0
  /\ batch = [p \in Collectors |-> batch[p]]
  /\ \A p \in Collectors : \A r \in DOMAIN batch[p] : Tries(batch[p][r].row)
CollectorSound == CollectorTypeOK /\ Pushes /\ Counts

Attempts == [observed : Commits \cup {0}, frozen : Commits \cup {0},
             linted : Commits \cup {0}]
Filled == {t \in DOMAIN rows : rows[t] # NoRow}
\* What a process holds between reading and writing can be written.
DraftStands ==
  /\ draft = [p \in Collectors |-> draft[p]]
  /\ \A p \in Collectors : /\ pc[p] = "write" => draft[p].ver \in Versions
                           /\ pc[p] = "rebuild" => draft[p].ver \in {0} \cup Filled
FeaturesSound ==
  /\ FeaturesTypeOK /\ DraftStands
  /\ rows = [t \in 1..N |-> rows[t]]
  /\ pc \in [Collectors -> Steps]

LEMMA HowMany == N \in Nat
BY CommitAssumption, FS_CardinalityType DEF N

LEMMA LeastOf ==
  ASSUME NEW S \in SUBSET Nat, S # {}
  PROVE  \E c \in S : \A d \in S : c <= d
<1>1. PICK c \in S : \A d \in S : ~ (<<d, c>> \in OpToRel(<, Nat))
  BY NatLessThanWellFounded, WFMin
<1>2. \A d \in S : ~ (d < c)
  BY <1>1 DEF OpToRel
<1> QED BY <1>2

LEMMA GreatestOf ==
  ASSUME NEW k \in Nat, NEW S \in SUBSET (0..k), S # {}
  PROVE  \E c \in S : \A d \in S : d <= c
<1> DEFINE T == {k - y : y \in S}
<1>1. \A y \in S : y \in Nat /\ k - y \in Nat
  OBVIOUS
<1>2. PICK c \in T : \A d \in T : c <= d
  <2>1. T \in SUBSET Nat /\ T # {}
    BY <1>1
  <2> HIDE DEF T
  <2> QED BY <2>1, LeastOf
<1>3. PICK x \in S : c = k - x
  BY <1>2
<1>4. ASSUME NEW y \in S PROVE y <= x
  <2>1. k - y \in T
    OBVIOUS
  <2>2. k - x <= k - y
    BY <1>2, <1>3, <2>1
  <2> QED BY <1>1, <2>2
<1> QED BY <1>4

LEMMA LatestIs ==
  ASSUME NEW k \in Nat, NEW S \in SUBSET (0..k)
  PROVE  Latest(S) \in 0..k /\ (Latest(S) = 0 \/ Latest(S) \in S)
<1>1. CASE S = {}
  BY <1>1 DEF Latest
<1>2. CASE S # {}
  <2>1. Latest(S) \in S
    BY <1>2, GreatestOf DEF Latest
  <2> QED BY <2>1
<1> QED BY <1>1, <1>2

-----------------------------------------------------------------------------
(* The collector's half. *)

LEMMA CollectorBegins == Init => CollectorSound
<1> SUFFICES ASSUME Init PROVE CollectorSound
  OBVIOUS
<1>1. CollectorInit
  BY DEF Init
<1>2. 0 \in 0..N /\ MaxFaults \in Nat /\ 0 \in 0..MaxTries
  BY HowMany, FaultAssumption DEF MaxTries
<1>3. NotStored \in Run /\ NotStored.concl = "absent" /\ Tries(NotStored)
  BY <1>2 DEF NotStored, Run, Classes, Tries
<1>4. Stored = {} /\ Pushed = {}
  BY <1>1, <1>3 DEF CollectorInit, Stored, Pushed
<1>5. CollectorTypeOK
  BY <1>1, <1>2, <1>3, <1>4 DEF CollectorInit, CollectorTypeOK, N
<1>6. Pushes
  BY <1>1 DEF CollectorInit, Pushes
<1>7. Counts
  BY <1>1, <1>3 DEF CollectorInit, Counts, NotStored
<1> QED BY <1>5, <1>6, <1>7 DEF CollectorSound

LEMMA PushSound ==
  ASSUME CollectorSound, NEW c \in Commits, Push(c)
  PROVE  CollectorSound'
<1> DEFINE now == Cardinality(Pushed) + 1
<1>1. /\ c \notin Pushed /\ started' = [started EXCEPT ![c] = now]
      /\ ci' = [ci EXCEPT ![c] = IF c \in Slow THEN "running" ELSE Conclusion(c)]
      /\ UNCHANGED <<stored, pc, got, batch, faults>>
  BY DEF Push
<1>2. PICK t \in 1..now : committed' = [committed EXCEPT ![c] = t]
  BY DEF Push
<1>3. now \in 1..N
  <2>1. Pushed \cup {c} \in SUBSET Commits /\ Pushed \in SUBSET Commits
    BY DEF Pushed
  <2>2. IsFiniteSet(Commits)
    BY CommitAssumption
  <2>3. IsFiniteSet(Pushed) /\ Cardinality(Pushed \cup {c}) <= N
    BY <2>1, <2>2, FS_Subset DEF N
  <2>4. Cardinality(Pushed \cup {c}) = Cardinality(Pushed) + 1
    BY <1>1, <2>3, FS_AddElement
  <2>5. Cardinality(Pushed) \in Nat
    BY <2>3, FS_CardinalityType
  <2> QED BY <2>3, <2>4, <2>5, HowMany
<1> HIDE DEF now
<1>4. t \in 1..N
  BY <1>2, <1>3, HowMany
<1>5. CollectorTypeOK
  BY DEF CollectorSound
<1>6. committed' \in [Commits -> 0..N] /\ started' \in [Commits -> 0..N]
  BY <1>1, <1>2, <1>3, <1>4, <1>5 DEF CollectorTypeOK, N
<1>7. ci' \in [Commits -> {"absent", "running", "success", "failure"}]
  BY <1>1, <1>5 DEF CollectorTypeOK, Conclusion
<1>8. Pushed \subseteq Pushed' /\ c \in Pushed'
  BY <1>2, <1>4, <1>5 DEF CollectorTypeOK, Pushed
<1>9. UNCHANGED <<raw_commits, raw_workflow_runs, got, batch, faults>> /\ Stored' = Stored
  BY <1>1 DEF stored, Stored
<1>10. CollectorTypeOK'
  BY <1>5, <1>6, <1>7, <1>8, <1>9 DEF CollectorTypeOK, N
<1>11. Pushes'
  BY <1>1, <1>5, <1>8 DEF CollectorSound, CollectorTypeOK, Pushes, Conclusion
<1>12. Counts'
  BY <1>9 DEF CollectorSound, Counts
<1> QED BY <1>10, <1>11, <1>12 DEF CollectorSound

LEMMA CiSound ==
  ASSUME CollectorSound, NEW c \in Commits, CiEnds(c)
  PROVE  CollectorSound'
<1>1. /\ ci[c] = "running" /\ ci' = [ci EXCEPT ![c] = Conclusion(c)]
      /\ UNCHANGED <<committed, started, raw_commits, raw_workflow_runs, got, batch, faults>>
  BY DEF CiEnds, stored
<1>2. Pushed' = Pushed /\ Stored' = Stored
  BY <1>1 DEF Pushed, Stored
<1>3. CollectorTypeOK'
  <2>1. ci' \in [Commits -> {"absent", "running", "success", "failure"}]
    BY <1>1 DEF CollectorSound, CollectorTypeOK, Conclusion
  <2> QED BY <1>1, <1>2, <2>1 DEF CollectorSound, CollectorTypeOK
<1>4. Pushes'
  BY <1>1, <1>2 DEF CollectorSound, CollectorTypeOK, Pushes, Conclusion
<1>5. Counts'
  BY <1>1, <1>2 DEF CollectorSound, Counts
<1> QED BY <1>3, <1>4, <1>5 DEF CollectorSound

\* A row that is about to be written.
RowSound(row) == row \in Run /\ Tries(row)

LEMMA ListedSound ==
  ASSUME CollectorSound, NEW r \in Commits
  PROVE  /\ r \in ToDownload => /\ r \in Pushed
                                 /\ \A ok \in BOOLEAN : RowSound(Classified(r, ok))
         /\ r \in ToInsert => r \in Pushed /\ (r \notin ToDownload => RowSound(AsListed(r)))
<1> DEFINE row == raw_workflow_runs[r]
<1>1. /\ row \in Run /\ Tries(row) /\ (r \notin Stored => row.tries = 0)
      /\ ci[r] \in {"absent", "running", "success", "failure"}
      /\ ci[r] # "absent" => r \in Pushed
      /\ ci[r] = "failure" => Log[r] # "passed"
      /\ Log[r] \in {"passed", "empty", "unmatched", "rule"}
  BY LogAssumption DEF CollectorSound, CollectorTypeOK, Counts, Pushes
<1>2. row.tries \in 0..3 /\ (row.class = "none" => row.tries = 0)
  BY <1>1 DEF Run, MaxTries, Tries
<1>3. ASSUME r \in ToDownload, NEW ok \in BOOLEAN PROVE RowSound(Classified(r, ok))
  <2> DEFINE n == row.tries + 1
             new == Classified(r, ok)
  <2>1. ci[r] = "failure" /\ (r \in Stored => NeedsWork(row))
    BY <1>3 DEF ToDownload
  <2>2. n \in 0..3
    <3>1. CASE r \in Stored
      <4>1. row.class = "none" \/ (row.class = "empty" /\ row.tries < 3)
        BY <2>1, <3>1 DEF NeedsWork, MaxTries
      <4> QED BY <1>2, <4>1
    <3>2. CASE r \notin Stored
      BY <1>1, <3>2
    <3> QED BY <3>1, <3>2
  <2> HIDE DEF n
  <2>3. new = [concl |-> ci[r], class |-> IF ok THEN Log[r] ELSE "empty", tries |-> n,
               final |-> IF ok THEN Log[r] = "empty" ELSE n >= MaxTries]
    BY DEF Classified, n
  <2>4. (IF ok THEN Log[r] ELSE "empty") \in {"empty", "unmatched", "rule"}
    BY <1>1, <2>1
  <2>5. (IF ok THEN Log[r] = "empty" ELSE n >= MaxTries) \in BOOLEAN
    <3>1. (Log[r] = "empty") \in BOOLEAN /\ (n >= MaxTries) \in BOOLEAN
      BY <2>2 DEF MaxTries
    <3>2. CASE ok
      BY <3>1, <3>2, Zenon
    <3>3. CASE ~ok
      BY <3>1, <3>3, Zenon
    <3> QED BY <3>2, <3>3
  <2> DEFINE k == IF ok THEN Log[r] ELSE "empty"
             f == IF ok THEN Log[r] = "empty" ELSE n >= MaxTries
  <2>6. /\ k \in {"empty", "unmatched", "rule"} /\ f \in BOOLEAN
        /\ ci[r] \in {"absent", "running", "success", "failure"}
    BY <1>1, <2>4, <2>5
  <2>7. new = [concl |-> ci[r], class |-> k, tries |-> n, final |-> f]
    BY <2>3
  <2> HIDE DEF k, f, new
  <2>8. new \in Run /\ new.class # "none"
    BY <2>2, <2>6, <2>7 DEF Run, Classes, MaxTries
  <2> QED BY <2>8 DEF RowSound, Tries, new
<1>4. ASSUME r \in ToInsert PROVE RowSound(AsListed(r))
  BY <1>1 DEF RowSound, AsListed, Run, Classes, MaxTries, Tries
<1>5. (r \in ToDownload \/ r \in ToInsert) => r \in Pushed
  BY <1>1 DEF ToDownload, ToInsert
<1> QED BY <1>3, <1>4, <1>5

LEMMA ListCommitsSound ==
  ASSUME CollectorSound, NEW p \in Collectors, ListCommits(p)
  PROVE  CollectorSound'
<1>1. /\ got' = [got EXCEPT ![p] = {c \in Pushed \ raw_commits : committed[c] >= Since}]
      /\ UNCHANGED <<committed, started, ci, raw_commits, raw_workflow_runs, batch, faults>>
  BY DEF ListCommits, hub, stored
<1>2. Pushed' = Pushed /\ Stored' = Stored
  BY <1>1 DEF Pushed, Stored
<1>3. got' \in [Collectors -> SUBSET Pushed]
  BY <1>1 DEF CollectorSound, CollectorTypeOK
<1>4. CollectorTypeOK'
  BY <1>1, <1>2, <1>3 DEF CollectorSound, CollectorTypeOK
<1> QED BY <1>1, <1>2, <1>4 DEF CollectorSound, Pushes, Counts

LEMMA ListRunsSound ==
  ASSUME CollectorSound, NEW p \in Collectors, ListRuns(p)
  PROVE  CollectorSound'
<1>1. UNCHANGED <<committed, started, ci, raw_commits, raw_workflow_runs, got, faults>>
  BY DEF ListRuns, hub, stored
<1>2. PICK ok \in SUBSET ToDownload :
        batch' = [batch EXCEPT ![p] =
          [r \in ToInsert \cup ToDownload |->
             [new |-> r \in ToInsert,
              row |-> IF r \in ToDownload THEN Classified(r, r \in ok)
                      ELSE AsListed(r)]]]
  BY DEF ListRuns
<1>3. Pushed' = Pushed /\ Stored' = Stored
  BY <1>1 DEF Pushed, Stored
<1>4. batch = [q \in Collectors |-> batch[q]]
  BY DEF CollectorSound, Counts
<1>5. /\ batch' = [q \in Collectors |-> batch'[q]]
      /\ \A q \in Collectors \ {p} : batch'[q] = batch[q]
  BY <1>2, <1>4
<1>6. batch'[p] = [r \in ToInsert \cup ToDownload |->
                     [new |-> r \in ToInsert,
                      row |-> IF r \in ToDownload THEN Classified(r, r \in ok) ELSE AsListed(r)]]
  BY <1>2, <1>4
<1>7. ASSUME NEW r \in DOMAIN batch'[p]
      PROVE  r \in Pushed /\ batch'[p][r].new \in BOOLEAN /\ RowSound(batch'[p][r].row)
  <2>1. r \in ToInsert \cup ToDownload /\ r \in Commits
    BY <1>6 DEF ToInsert, ToDownload
  <2>2. /\ batch'[p][r].new = (r \in ToInsert)
        /\ batch'[p][r].row = IF r \in ToDownload THEN Classified(r, r \in ok) ELSE AsListed(r)
    BY <1>6, <2>1
  <2>3. (r \in ok) \in BOOLEAN /\ (r \in ToInsert) \in BOOLEAN
    OBVIOUS
  <2>4. CASE r \in ToDownload
    BY <2>1, <2>2, <2>3, <2>4, ListedSound
  <2>5. CASE r \notin ToDownload
    BY <2>1, <2>2, <2>3, <2>5, ListedSound
  <2> QED BY <2>4, <2>5
<1>8. CollectorTypeOK'
  <2>1. ASSUME NEW q \in Collectors
        PROVE  /\ DOMAIN batch'[q] \subseteq Pushed
               /\ \A r \in DOMAIN batch'[q] :
                    batch'[q][r].new \in BOOLEAN /\ batch'[q][r].row \in Run
    <3>1. CASE q = p
      BY <1>7, <3>1 DEF RowSound
    <3>2. CASE q # p
      BY <1>5, <3>2 DEF CollectorSound, CollectorTypeOK
    <3> QED BY <3>1, <3>2
  <2> QED BY <1>1, <1>3, <2>1 DEF CollectorSound, CollectorTypeOK
<1>9. Counts'
  <2>1. ASSUME NEW q \in Collectors, NEW r \in DOMAIN batch'[q] PROVE Tries(batch'[q][r].row)
    <3>1. CASE q = p
      BY <1>7, <2>1, <3>1 DEF RowSound
    <3>2. CASE q # p
      BY <1>5, <2>1, <3>2 DEF CollectorSound, Counts
    <3> QED BY <3>1, <3>2
  <2> QED BY <1>1, <1>3, <1>5, <2>1 DEF CollectorSound, Counts
<1>10. Pushes'
  BY <1>1, <1>3 DEF CollectorSound, Pushes
<1> QED BY <1>8, <1>9, <1>10 DEF CollectorSound

\* A row inserted or updated from a batch.
LEMMA RetriedSound ==
  ASSUME NEW row, RowSound(row), NEW new, RowSound(new)
  PROVE  RowSound(RetriedBy(row, new)) /\ RowSound(InsertedBy(row, new))
<1>1. new = [concl |-> new.concl, class |-> new.class, tries |-> new.tries, final |-> new.final]
  BY DEF RowSound, Run
<1>2. [new EXCEPT !.concl = row.concl]
        = [concl |-> row.concl, class |-> new.class, tries |-> new.tries, final |-> new.final]
  BY <1>1
<1>3. RowSound([new EXCEPT !.concl = row.concl])
  BY <1>2 DEF RowSound, Run, Tries
<1> QED BY <1>3 DEF RetriedBy, InsertedBy

LEMMA StoreSound ==
  ASSUME CollectorSound, Inv, NEW p \in Collectors, NEW next, Store(p, next)
  PROVE  CollectorSound'
<1>1. /\ UNCHANGED <<committed, started, ci, faults>>
      /\ raw_commits' = raw_commits \cup got[p]
      /\ got' = [got EXCEPT ![p] = {}] /\ batch' = [batch EXCEPT ![p] = <<>>]
  BY DEF Store, hub
<1>2. raw_workflow_runs' = [r \in Commits |->
        IF r \notin DOMAIN batch[p] THEN raw_workflow_runs[r]
        ELSE IF batch[p][r].new THEN InsertedBy(raw_workflow_runs[r], batch[p][r].row)
        ELSE RetriedBy(raw_workflow_runs[r], batch[p][r].row)]
  BY DEF Store
<1>3. Pushed' = Pushed /\ Pushed \subseteq Commits
  BY <1>1 DEF Pushed
<1>4. ASSUME NEW r \in Commits
      PROVE  /\ RowSound(raw_workflow_runs'[r])
             /\ raw_workflow_runs'[r].concl # "absent" => r \in Pushed
             /\ raw_workflow_runs'[r].concl = "absent" => raw_workflow_runs'[r].tries = 0
  <2> DEFINE row == raw_workflow_runs[r]
             new == batch[p][r].row
  <2>1. /\ RowSound(row) /\ (r \in Stored => r \in Pushed)
        /\ row.concl = "absent" => row.tries = 0
        /\ r \in Stored <=> row.concl # "absent"
    BY DEF CollectorSound, CollectorTypeOK, Counts, RowSound, Stored
  <2>2. r \in DOMAIN batch[p] => /\ RowSound(new) /\ r \in Pushed /\ new.concl # "absent"
                                 /\ ~batch[p][r].new => r \in Stored
    BY DEF CollectorSound, CollectorTypeOK, Counts, RowSound, Inv, BatchStands
  <2>3. raw_workflow_runs'[r] = IF r \notin DOMAIN batch[p] THEN row
                                ELSE IF batch[p][r].new THEN InsertedBy(row, new)
                                ELSE RetriedBy(row, new)
    BY <1>2
  <2> HIDE DEF row, new
  <2>4. CASE r \notin DOMAIN batch[p]
    BY <2>1, <2>3, <2>4
  <2>5. CASE r \in DOMAIN batch[p] /\ batch[p][r].new
    <3>1. RowSound(InsertedBy(row, new))
      BY <2>1, <2>2, <2>5, RetriedSound
    <3>2. InsertedBy(row, new).concl # "absent"
      BY <2>2, <2>5 DEF InsertedBy
    <3> QED BY <2>2, <2>3, <2>5, <3>1, <3>2
  <2>6. CASE r \in DOMAIN batch[p] /\ ~batch[p][r].new
    <3>1. RowSound(RetriedBy(row, new))
      BY <2>1, <2>2, <2>6, RetriedSound
    <3>2. RetriedBy(row, new).concl # "absent"
      <4>1. [new EXCEPT !.concl = row.concl].concl = row.concl
        BY <2>2, <2>6 DEF RowSound, Run
      <4> QED BY <2>1, <2>2, <2>6, <4>1 DEF RetriedBy
    <3> QED BY <2>2, <2>3, <2>6, <3>1, <3>2
  <2> QED BY <2>4, <2>5, <2>6
<1>5. raw_workflow_runs' \in [Commits -> Run] /\ Stored' \subseteq Pushed
  BY <1>2, <1>4 DEF RowSound, Stored
<1>6. batch' = [q \in Collectors |-> batch'[q]] /\ batch'[p] = <<>>
      /\ \A q \in Collectors \ {p} : batch'[q] = batch[q]
  BY <1>1 DEF CollectorSound, Counts
<1>7. ASSUME NEW q \in Collectors
      PROVE  /\ DOMAIN batch'[q] \subseteq Pushed
             /\ \A r \in DOMAIN batch'[q] :
                  /\ batch'[q][r].new \in BOOLEAN
                  /\ batch'[q][r].row \in Run /\ Tries(batch'[q][r].row)
  <2>1. CASE q = p
    BY <1>6, <2>1
  <2>2. CASE q # p
    BY <1>6, <2>2 DEF CollectorSound, CollectorTypeOK, Counts
  <2> QED BY <2>1, <2>2
<1>8. raw_commits' \subseteq Pushed /\ got' \in [Collectors -> SUBSET Pushed]
  BY <1>1 DEF CollectorSound, CollectorTypeOK
<1>9. CollectorTypeOK'
  BY <1>1, <1>3, <1>5, <1>7, <1>8 DEF CollectorSound, CollectorTypeOK
<1>10. Counts'
  BY <1>4, <1>6, <1>7 DEF Counts, RowSound, Stored
<1>11. Pushes'
  BY <1>1, <1>3 DEF CollectorSound, Pushes
<1> QED BY <1>9, <1>10, <1>11 DEF CollectorSound

\* The batch is dropped, or what the collector has is left alone.
LEMMA ForgottenSound ==
  ASSUME CollectorSound, UNCHANGED <<hub, stored>>, faults' \in 0..MaxFaults,
         \/ UNCHANGED <<got, batch>>
         \/ \E p \in Collectors : /\ got' = [got EXCEPT ![p] = {}]
                                   /\ batch' = [batch EXCEPT ![p] = <<>>]
  PROVE  CollectorSound'
<1>1. UNCHANGED <<committed, started, ci, raw_commits, raw_workflow_runs>>
  BY DEF hub, stored
<1>2. Pushed' = Pushed /\ Stored' = Stored
  BY <1>1 DEF Pushed, Stored
<1>3. got' \in [Collectors -> SUBSET Pushed]
  BY DEF CollectorSound, CollectorTypeOK
<1>4. /\ batch' = [q \in Collectors |-> batch'[q]]
      /\ \A q \in Collectors : batch'[q] = batch[q] \/ batch'[q] = <<>>
  BY DEF CollectorSound, Counts
<1>5. ASSUME NEW q \in Collectors
      PROVE  /\ DOMAIN batch'[q] \subseteq Pushed
             /\ \A r \in DOMAIN batch'[q] :
                  /\ batch'[q][r].new \in BOOLEAN
                  /\ batch'[q][r].row \in Run /\ Tries(batch'[q][r].row)
  <2>1. CASE batch'[q] = <<>>
    BY <2>1
  <2>2. CASE batch'[q] = batch[q]
    BY <2>2 DEF CollectorSound, CollectorTypeOK, Counts
  <2> QED BY <1>4, <2>1, <2>2
<1>6. CollectorTypeOK'
  BY <1>1, <1>2, <1>3, <1>5 DEF CollectorSound, CollectorTypeOK
<1>7. Pushes' /\ Counts'
  BY <1>1, <1>2, <1>4, <1>5 DEF CollectorSound, Pushes, Counts
<1> QED BY <1>6, <1>7 DEF CollectorSound

LEMMA CollectSound ==
  ASSUME CollectorSound, Inv, NEW p \in Collectors, NEW next, Collect(p, next)
  PROVE  CollectorSound'
<1>1. CASE ListCommits(p)
  BY <1>1, ListCommitsSound
<1>2. CASE ListRuns(p)
  BY <1>2, ListRunsSound
<1>3. CASE Store(p, next)
  BY <1>3, StoreSound
<1>4. CASE CollectFails(p, next)
  <2>1. faults' \in 0..MaxFaults
    BY <1>4, FaultAssumption DEF CollectFails, CollectorSound, CollectorTypeOK
  <2> QED BY <1>4, <2>1, ForgottenSound DEF CollectFails
<1> QED BY <1>1, <1>2, <1>3, <1>4 DEF Collect

-----------------------------------------------------------------------------
(* The half of grading and features. *)

LEMMA WatermarkIs ==
  ASSUME CollectorSound, NEW v
  PROVE  Watermark(v) \in 0..N
<1>1. CommitScope(v) \subseteq Commits /\ Activity(v) \subseteq Commits
  BY DEF CollectorSound, CollectorTypeOK, CommitScope, Activity, Stored, Pushed
<1>2. committed \in [Commits -> 0..N] /\ started \in [Commits -> 0..N]
  BY DEF CollectorSound, CollectorTypeOK, N
<1> DEFINE S == {committed[c] : c \in CommitScope(v)} \cup {started[r] : r \in Activity(v)}
<1>3. S \in SUBSET (0..N)
  BY <1>1, <1>2
<1>4. Watermark(v) = Latest(S)
  BY DEF Watermark
<1> HIDE DEF S
<1> QED BY <1>3, <1>4, HowMany, LatestIs

LEMMA LatestRowIs ==
  ASSUME FeaturesSound
  PROVE  LatestRow \in {0} \cup Filled /\ Filled \subseteq 1..N
<1>1. DOMAIN rows = 1..N
  BY DEF FeaturesSound
<1>2. Filled \in SUBSET (0..N) /\ Filled \subseteq 1..N
  BY <1>1, HowMany DEF Filled
<1>3. LatestRow = Latest(Filled)
  BY DEF LatestRow, Filled
<1> QED BY <1>2, <1>3, HowMany, LatestIs

\* Commits have a first and a last: by how many are earlier.
LEMMA EndsOf ==
  ASSUME CollectorSound, NEW S \in SUBSET Commits
  PROVE  First(S) \in S \cup {0} /\ Last(S) \in S \cup {0}
<1> DEFINE Before(c) == {d \in S : Earlier(d, c)}
           Rank(c) == Cardinality(Before(c))
           Ranks == {Rank(c) : c \in S}
<1>1. \A c \in S : c \in Nat /\ committed[c] \in Nat
  BY CommitAssumption, HowMany DEF CollectorSound, CollectorTypeOK, N
<1>2. IsFiniteSet(S) /\ Cardinality(S) \in Nat
  BY CommitAssumption, FS_Subset, FS_CardinalityType
<1>3. ASSUME NEW c \in S PROVE /\ IsFiniteSet(Before(c)) /\ Rank(c) \in 0..Cardinality(S)
                               /\ c \notin Before(c)
  <2>1. Before(c) \in SUBSET S
    OBVIOUS
  <2>2. c \notin Before(c)
    BY <1>1 DEF Earlier
  <2> HIDE DEF Before
  <2> QED BY <1>2, <2>1, <2>2, FS_Subset, FS_CardinalityType
<1>4. ASSUME NEW c \in S, NEW d \in S, Earlier(c, d) PROVE Rank(c) < Rank(d)
  <2>1. Before(c) \cup {c} \in SUBSET Before(d)
    <3> SUFFICES ASSUME NEW e \in S, Earlier(e, c) PROVE Earlier(e, d)
      BY <1>4
    <3>1. /\ c \in Nat /\ d \in Nat /\ e \in Nat /\ committed[c] \in Nat
          /\ committed[d] \in Nat /\ committed[e] \in Nat
      BY <1>1
    <3> QED BY <1>4, <3>1 DEF Earlier
  <2>2. /\ IsFiniteSet(Before(c)) /\ IsFiniteSet(Before(d)) /\ c \notin Before(c)
        /\ Rank(c) \in Nat /\ Rank(d) \in Nat
    BY <1>2, <1>3
  <2> HIDE DEF Before
  <2>3. Cardinality(Before(c) \cup {c}) = Rank(c) + 1
    BY <2>2, FS_AddElement
  <2>4. Cardinality(Before(c) \cup {c}) <= Rank(d)
    BY <2>1, <2>2, FS_Subset
  <2> HIDE DEF Rank
  <2> QED BY <2>2, <2>3, <2>4
<1>5. ASSUME NEW c \in S, NEW d \in S, c # d PROVE Earlier(c, d) \/ Earlier(d, c)
  BY <1>1, <1>5 DEF Earlier
<1>6. \A c \in S : Rank(c) \in 0..Cardinality(S)
  BY <1>3
<1>7. CASE S = {}
  BY <1>7 DEF First, Last
<1>8. CASE S # {}
  <2> HIDE DEF Rank
  <2>1. Ranks \in SUBSET (0..Cardinality(S)) /\ Ranks \in SUBSET Nat /\ Ranks # {}
    BY <1>2, <1>8, <1>6
  <2>2. PICK c \in S : \A d \in S : Rank(c) <= Rank(d)
    <3>1. PICK m \in Ranks : \A n \in Ranks : m <= n
      <4> HIDE DEF Ranks
      <4> QED BY <2>1, LeastOf
    <3> QED BY <3>1
  <2>3. PICK l \in S : \A d \in S : Rank(d) <= Rank(l)
    <3>1. PICK m \in Ranks : \A n \in Ranks : n <= m
      <4> HIDE DEF Ranks
      <4> QED BY <1>2, <2>1, GreatestOf
    <3> QED BY <3>1
  <2>4. \A d \in S : Rank(d) \in Nat
    BY <1>2, <1>6
  <2>5. \A d \in S \ {c} : Earlier(c, d)
    BY <1>4, <1>5, <2>2, <2>4
  <2>6. \A d \in S \ {l} : Earlier(d, l)
    BY <1>4, <1>5, <2>3, <2>4
  <2>7. First(S) \in S
    BY <1>8, <2>5 DEF First
  <2>8. Last(S) \in S
    BY <1>8, <2>6 DEF Last
  <2> QED BY <2>7, <2>8
<1> QED BY <1>7, <1>8

LEMMA FeaturesBegin == Init => FeaturesSound
<1> SUFFICES ASSUME Init PROVE FeaturesSound
  OBVIOUS
<1>1. FeaturesInit /\ pc = [p \in Collectors |-> "idle"] /\ raw_commits = {}
  BY DEF Init, CollectorInit
<1>2. FeaturesTypeOK
  BY <1>1, OutcomeAssumption DEF FeaturesInit, FeaturesTypeOK
<1> QED BY <1>1, <1>2 DEF FeaturesInit, FeaturesSound, DraftStands, Steps, N

\* What a step may do: rows stay, a pointer is at one, and a process that is
\* to write has something that can be written.
LEMMA FrameSound ==
  ASSUME FeaturesSound, NEW p \in Collectors, NEW step \in Steps,
         pc' = [pc EXCEPT ![p] = step],
         draft' = draft \/ \E d : draft' = [draft EXCEPT ![p] = d],
         step = "write" => draft'[p].ver \in Versions,
         step = "rebuild" => draft'[p].ver \in {0} \cup Filled',
         raw_commits \subseteq raw_commits', graded' \subseteq raw_commits',
         attempt' \in Attempts,
         version' \in Versions,
         rows' = [t \in 1..N |-> rows'[t]], Filled \subseteq Filled',
         \A t \in 1..N : rows'[t] = NoRow \/ rows'[t].ver \in Versions,
         features_ref' \in {0} \cup Filled'
  PROVE  FeaturesSound'
<1>1. /\ pc' \in [Collectors -> Steps] /\ pc'[p] = step
      /\ \A q \in Collectors \ {p} : pc'[q] = pc[q]
  BY DEF FeaturesSound
<1>2. /\ draft' = [q \in Collectors |-> draft'[q]]
      /\ \A q \in Collectors \ {p} : draft'[q] = draft[q]
  BY DEF FeaturesSound, DraftStands
<1>3. DraftStands'
  <2>1. ASSUME NEW q \in Collectors
        PROVE  /\ pc'[q] = "write" => draft'[q].ver \in Versions
               /\ pc'[q] = "rebuild" => draft'[q].ver \in {0} \cup Filled'
    <3>1. CASE q = p
      BY <1>1, <3>1
    <3>2. CASE q # p
      BY <1>1, <1>2, <3>2 DEF FeaturesSound, DraftStands
    <3> QED BY <3>1, <3>2
  <2> QED BY <1>2, <2>1 DEF DraftStands, Versions
<1>4. DOMAIN rows' = 1..N
  OBVIOUS
<1>5. FeaturesTypeOK'
  BY <1>4 DEF FeaturesTypeOK, Filled, Versions, Attempts
<1>6. N' = N
  BY DEF N
<1> QED BY <1>1, <1>3, <1>5, <1>6 DEF FeaturesSound, Steps

\* A row written at the watermark is one of this version; what was filled
\* stays so, and the pointer is at a filled row.
LEMMA WriteSound ==
  ASSUME CollectorSound, FeaturesSound, NEW p \in Collectors, pc[p] = "write", WriteFeatures(p)
  PROVE  /\ rows' = [t \in 1..N |-> rows'[t]] /\ Filled \subseteq Filled'
         /\ \A t \in 1..N : rows'[t] = NoRow \/ rows'[t].ver \in Versions
         /\ features_ref' \in {0} \cup Filled'
<1> DEFINE t == Watermark(version)
<1>1. t \in 0..N
  BY WatermarkIs
<1>2. /\ rows = [u \in 1..N |-> rows[u]] /\ features_ref \in {0} \cup Filled
      /\ \A u \in 1..N : rows[u] = NoRow \/ rows[u].ver \in Versions
      /\ draft[p].ver \in Versions
  BY DEF FeaturesSound, FeaturesTypeOK, DraftStands, Filled
<1>3. draft[p] # NoRow
  BY <1>2 DEF NoRow, Versions
<1>4. CASE t # 0 /\ (rows[t] = NoRow \/ rows[t].ver = version)
  <2>1. rows' = [rows EXCEPT ![t] = draft[p]] /\ features_ref' = Latest({LatestRow, t})
    BY <1>4 DEF WriteFeatures
  <2>2. LatestRow \in {0} \cup Filled /\ Filled \subseteq 1..N
    BY LatestRowIs
  <2> HIDE DEF t
  <2>3. t \in 1..N
    BY <1>1, <1>4, HowMany
  <2>4. /\ rows' = [u \in 1..N |-> rows'[u]] /\ rows'[t] = draft[p]
        /\ \A u \in 1..N \ {t} : rows'[u] = rows[u]
    BY <1>2, <2>1, <2>3
  <2>5. Filled \subseteq Filled' /\ t \in Filled'
    BY <1>2, <1>3, <2>3, <2>4 DEF Filled, NoRow
  <2>6. features_ref' \in {LatestRow, t, 0}
    <3>1. {LatestRow, t} \in SUBSET (0..N)
      BY <2>2, <2>3, HowMany
    <3> QED BY <2>1, <3>1, HowMany, LatestIs
  <2>7. features_ref' \in {0} \cup Filled'
    BY <2>2, <2>5, <2>6
  <2> QED BY <1>2, <2>4, <2>5, <2>7
<1>5. CASE ~(t # 0 /\ (rows[t] = NoRow \/ rows[t].ver = version))
  <2>1. UNCHANGED <<rows, features_ref>>
    BY <1>5 DEF WriteFeatures
  <2> QED BY <1>2, <2>1 DEF Filled
<1> QED BY <1>4, <1>5

\* A step that writes no row and moves no pointer.
LEMMA MoveSound ==
  ASSUME FeaturesSound, NEW p \in Collectors, NEW step \in Steps,
         pc' = [pc EXCEPT ![p] = step],
         draft' = draft \/ \E d : draft' = [draft EXCEPT ![p] = d],
         step = "write" => draft'[p].ver \in Versions,
         step = "rebuild" => draft'[p].ver \in {0} \cup Filled,
         raw_commits \subseteq raw_commits', version' \in Versions,
         UNCHANGED <<graded, attempt, rows, features_ref>>
  PROVE  FeaturesSound'
<1>1. Filled' = Filled
  BY DEF Filled
<1>2. /\ rows = [t \in 1..N |-> rows[t]] /\ features_ref \in {0} \cup Filled
      /\ \A t \in 1..N : rows[t] = NoRow \/ rows[t].ver \in Versions
      /\ graded \subseteq raw_commits
      /\ attempt \in Attempts
  BY DEF FeaturesSound, FeaturesTypeOK, Filled, Attempts
<1>3. graded' \subseteq raw_commits'
  BY <1>2
<1> HIDE DEF Filled
<1> QED BY <1>1, <1>2, <1>3, FrameSound

LEMMA StaySound ==
  ASSUME FeaturesSound, raw_commits \subseteq raw_commits', version' \in Versions,
         UNCHANGED <<pc, draft, graded, attempt, rows, features_ref>>
  PROVE  FeaturesSound'
<1>1. Hourly \in Collectors /\ pc[Hourly] \in Steps /\ pc' = [pc EXCEPT ![Hourly] = pc[Hourly]]
  BY ProcessAssumption DEF FeaturesSound
<1>2. /\ pc[Hourly] = "write" => draft'[Hourly].ver \in Versions
      /\ pc[Hourly] = "rebuild" => draft'[Hourly].ver \in {0} \cup Filled
  BY <1>1 DEF FeaturesSound, DraftStands
<1> QED BY <1>1, <1>2, MoveSound

\* A collection writes commits and leaves grades and features alone.
LEMMA CollectMoves ==
  ASSUME FeaturesSound, NEW p \in Collectors, NEW next \in {"idle", "grade"},
         Collect(p, next), UNCHANGED <<graded, attempt, version, features>>
  PROVE  FeaturesSound'
<1>1. /\ raw_commits \subseteq raw_commits'
      /\ \E step \in {"runs", "store", next} : pc' = [pc EXCEPT ![p] = step]
  BY DEF Collect, ListCommits, ListRuns, Store, CollectFails, stored
<1>2. PICK step \in {"runs", "store", "idle", "grade"} : pc' = [pc EXCEPT ![p] = step]
  BY <1>1
<1>3. step \in Steps /\ step # "write" /\ step # "rebuild"
  BY DEF Steps
<1>4. version' \in Versions /\ UNCHANGED <<graded, attempt, rows, features_ref, draft>>
  BY DEF FeaturesSound, FeaturesTypeOK, features
<1> QED BY <1>1, <1>2, <1>3, <1>4, MoveSound

LEMMA GradeMoves ==
  ASSUME CollectorSound, FeaturesSound, StageGrade
  PROVE  FeaturesSound'
<1>1. PICK S \in SUBSET Pending : graded' = graded \cup S /\ attempt' = AfterGrading(S)
  BY DEF StageGrade
<1>2. /\ UNCHANGED <<raw_commits, version, rows, features_ref, draft>>
      /\ pc' = [pc EXCEPT ![Hourly] = "features"] /\ Hourly \in Collectors
  BY ProcessAssumption DEF StageGrade, Goto, collected, stored, features
<1>3. S \in SUBSET Commits /\ S \subseteq raw_commits
  BY <1>1 DEF Pending, CollectorSound, CollectorTypeOK, Pushed
<1>4. /\ First({c \in S : Outcome[c] = "pass"}) \in Commits \cup {0}
      /\ First({c \in S : Outcome[c] # "stub"}) \in Commits \cup {0}
      /\ Last(S) \in Commits \cup {0}
  <2>1. ASSUME NEW T \in SUBSET S
        PROVE  First(T) \in Commits \cup {0} /\ Last(T) \in Commits \cup {0}
    BY <1>3, EndsOf
  <2>2. /\ {c \in S : Outcome[c] = "pass"} \in SUBSET S
        /\ {c \in S : Outcome[c] # "stub"} \in SUBSET S
    OBVIOUS
  <2> QED BY <2>1, <2>2
<1>5. /\ rows = [t \in 1..N |-> rows[t]] /\ features_ref \in {0} \cup Filled
      /\ \A t \in 1..N : rows[t] = NoRow \/ rows[t].ver \in Versions
      /\ graded \subseteq raw_commits /\ version \in Versions
      /\ attempt \in Attempts
  BY DEF FeaturesSound, FeaturesTypeOK, Filled, Attempts
<1>6. AfterGrading(S) \in Attempts
  BY <1>4, <1>5 DEF AfterGrading, Or, Attempts
<1>7. graded' \subseteq raw_commits' /\ Filled' = Filled
  BY <1>1, <1>2, <1>3, <1>5 DEF Filled
<1>8. "features" \in Steps
  BY DEF Steps
<1> HIDE DEF Filled
<1> QED BY <1>1, <1>2, <1>5, <1>6, <1>7, <1>8, FrameSound

\* The writer's pointer is at a row that is filled, and its draft is dropped.
LEMMA WriteMoves ==
  ASSUME CollectorSound, FeaturesSound, NEW p \in Collectors, NEW next \in {"idle", "profile"},
         \/ pc[p] = "write" /\ WriteFeatures(p)
         \/ pc[p] = "rebuild" /\ RebuildWrites(p),
         pc' = [pc EXCEPT ![p] = next], draft' = [draft EXCEPT ![p] = NoRow],
         UNCHANGED <<raw_commits, graded, attempt, version>>
  PROVE  FeaturesSound'
<1>1. /\ rows' = [t \in 1..N |-> rows'[t]] /\ Filled \subseteq Filled'
      /\ \A t \in 1..N : rows'[t] = NoRow \/ rows'[t].ver \in Versions
      /\ features_ref' \in {0} \cup Filled'
  <2>1. CASE pc[p] = "write" /\ WriteFeatures(p)
    BY <2>1, WriteSound
  <2>2. CASE pc[p] = "rebuild" /\ RebuildWrites(p)
    BY <2>2 DEF RebuildWrites, FeaturesSound, FeaturesTypeOK, DraftStands, Filled
  <2> QED BY <2>1, <2>2
<1>2. graded' \subseteq raw_commits' /\ version' \in Versions
      /\ attempt' \in Attempts
  BY DEF FeaturesSound, FeaturesTypeOK, Attempts
<1>3. next \in Steps /\ next # "write" /\ next # "rebuild"
  BY DEF Steps
<1> HIDE DEF Filled
<1> QED BY <1>1, <1>2, <1>3, FrameSound

LEMMA StepSound ==
  ASSUME CollectorSound, FeaturesSound, [Next]_vars
  PROVE  FeaturesSound'
<1>1. /\ Hourly \in Collectors /\ Operator \in Collectors /\ version \in Versions
      /\ \A p \in Collectors : draft' = [draft EXCEPT ![p] = NoRow]
                                => \E d : draft' = [draft EXCEPT ![p] = d]
  BY ProcessAssumption DEF FeaturesSound, FeaturesTypeOK
<1>2. CASE UNCHANGED vars
  <2>1. UNCHANGED <<pc, draft, raw_commits, graded, attempt, version, rows, features_ref>>
    BY <1>2 DEF vars, stored
  <2> QED BY <1>1, <2>1, StaySound
<1>3. CASE World
  BY <1>1, <1>3, StaySound DEF World, Push, CiEnds, stored, features
<1>4. CASE Deploy
  <2>1. version' \in Versions
    BY <1>1, <1>4 DEF Deploy, Versions, Current
  <2> QED BY <1>4, <2>1, StaySound DEF Deploy, collected, stored, features
<1>5. CASE Start
  <2>1. PICK step \in {"collect", "features"} : pc' = [pc EXCEPT ![Hourly] = step]
    BY <1>5 DEF Start, Goto
  <2>2. step \in Steps /\ step # "write" /\ step # "rebuild"
    BY DEF Steps
  <2>3. UNCHANGED <<raw_commits, graded, attempt, version, rows, features_ref, draft>>
    BY <1>5 DEF Start, collected, stored, features
  <2> QED BY <1>1, <2>1, <2>2, <2>3, MoveSound
<1>6. CASE StageCollect
  BY <1>1, <1>6, CollectMoves DEF StageCollect
<1>7. CASE StageGrade
  BY <1>7, GradeMoves
<1>8. CASE StageFeatures
  <2>1. UNCHANGED <<raw_commits, graded, attempt, version>>
    BY <1>8 DEF StageFeatures, collected, stored
  <2>2. CASE pc[Hourly] = "features" /\ NeedsFeatures
    <3>1. /\ draft' = [draft EXCEPT ![Hourly] = Payload(version)] /\ UNCHANGED <<rows, features_ref>>
          /\ pc' = [pc EXCEPT ![Hourly] = "write"]
      BY <1>8, <2>2 DEF StageFeatures, Compute, Goto
    <3>2. draft'[Hourly].ver \in Versions
      BY <1>1, <3>1 DEF Payload, FeaturesSound, DraftStands
    <3>3. "write" \in Steps
      BY DEF Steps
    <3> QED BY <1>1, <2>1, <3>1, <3>2, <3>3, MoveSound
  <2>3. CASE pc[Hourly] = "features" /\ ~NeedsFeatures
    <3>1. UNCHANGED <<draft, rows, features_ref>> /\ pc' = [pc EXCEPT ![Hourly] = "profile"]
      BY <1>8, <2>3 DEF StageFeatures, Goto, features
    <3>2. "profile" \in Steps
      BY DEF Steps
    <3> QED BY <1>1, <2>1, <3>1, <3>2, MoveSound
  <2>4. CASE pc[Hourly] = "write"
    <3>1. /\ WriteFeatures(Hourly) /\ draft' = [draft EXCEPT ![Hourly] = NoRow]
          /\ pc' = [pc EXCEPT ![Hourly] = "profile"]
      BY <1>8, <2>4 DEF StageFeatures, Goto
    <3> QED BY <1>1, <2>1, <2>4, <3>1, WriteMoves
  <2> QED BY <1>8, <2>2, <2>3, <2>4 DEF StageFeatures
<1>9. CASE StageProfile
  <2>1. /\ features_ref' = IF Stale THEN LatestRow ELSE features_ref
        /\ pc' = [pc EXCEPT ![Hourly] = "idle"]
        /\ UNCHANGED <<raw_commits, graded, attempt, version, rows, draft>>
    BY <1>9 DEF StageProfile, Goto, collected, stored
  <2>2. Filled' = Filled
    BY <2>1 DEF Filled
  <2>3. /\ rows' = [t \in 1..N |-> rows'[t]]
        /\ \A t \in 1..N : rows'[t] = NoRow \/ rows'[t].ver \in Versions
        /\ graded' \subseteq raw_commits'
        /\ attempt' \in Attempts
    BY <2>1 DEF FeaturesSound, FeaturesTypeOK, Attempts
  <2>4. features_ref' \in {0} \cup Filled
    BY <2>1, LatestRowIs DEF FeaturesSound, FeaturesTypeOK, Filled
  <2>5. "idle" \in Steps
    BY DEF Steps
  <2> HIDE DEF Filled
  <2> QED BY <1>1, <2>1, <2>2, <2>3, <2>4, <2>5, FrameSound
<1>10. CASE StageFails
  <2>1. PICK step \in {"features", "profile", "idle"} : pc' = [pc EXCEPT ![Hourly] = step]
    BY <1>10 DEF StageFails, Goto
  <2>2. step \in Steps /\ step # "write" /\ step # "rebuild"
    BY DEF Steps
  <2>3. /\ UNCHANGED <<raw_commits, graded, attempt, version, rows, features_ref>>
        /\ draft' = [draft EXCEPT ![Hourly] = NoRow]
    BY <1>10 DEF StageFails, collected, stored
  <2> QED BY <1>1, <2>1, <2>2, <2>3, MoveSound
<1>11. CASE Command
  <2>1. UNCHANGED <<raw_commits, graded, attempt, version, rows, features_ref>>
    BY <1>11 DEF Command, collected, stored, features, Compute, RebuildReads
  <2>2. CASE Goto(Operator, "collect") /\ UNCHANGED features
    <3>1. "collect" \in Steps
      BY DEF Steps
    <3> QED BY <1>1, <2>1, <2>2, <3>1, MoveSound DEF Goto, features
  <2>3. CASE Compute(Operator) /\ Goto(Operator, "write")
    <3>1. /\ draft' = [draft EXCEPT ![Operator] = Payload(version)]
          /\ pc' = [pc EXCEPT ![Operator] = "write"] /\ "write" \in Steps
      BY <2>3 DEF Compute, Goto, Steps
    <3>2. draft'[Operator].ver \in Versions
      BY <1>1, <3>1 DEF Payload, FeaturesSound, DraftStands
    <3> QED BY <1>1, <2>1, <3>1, <3>2, MoveSound
  <2>4. CASE RebuildReads(Operator) /\ Goto(Operator, "rebuild")
    <3>1. /\ draft' = [draft EXCEPT ![Operator] = [ver |-> LatestRow]]
          /\ pc' = [pc EXCEPT ![Operator] = "rebuild"] /\ "rebuild" \in Steps
      BY <2>4 DEF RebuildReads, Goto, Steps
    <3>2. draft'[Operator].ver = LatestRow
      BY <1>1, <3>1 DEF FeaturesSound, DraftStands
    <3> QED BY <1>1, <2>1, <3>1, <3>2, LatestRowIs, MoveSound
  <2> QED BY <1>11, <2>2, <2>3, <2>4 DEF Command
<1>12. CASE CommandEnds
  <2>1. CASE Collect(Operator, "idle") /\ UNCHANGED features
    BY <1>1, <1>12, <2>1, CollectMoves DEF CommandEnds
  <2>2. CASE /\ \/ pc[Operator] = "write" /\ WriteFeatures(Operator)
                \/ pc[Operator] = "rebuild" /\ RebuildWrites(Operator)
             /\ draft' = [draft EXCEPT ![Operator] = NoRow]
             /\ Goto(Operator, "idle") /\ UNCHANGED <<collected, faults>>
    BY <1>1, <1>12, <2>2, WriteMoves DEF CommandEnds, Goto, collected, stored
  <2> QED BY <1>12, <2>1, <2>2 DEF CommandEnds
<1> QED BY <1>2, <1>3, <1>4, <1>5, <1>6, <1>7, <1>8, <1>9, <1>10, <1>11, <1>12 DEF Next, Cycle

LEMMA StepCollects ==
  ASSUME CollectorSound, Inv, [Next]_vars
  PROVE  CollectorSound'
<1>1. /\ Hourly \in Collectors /\ Operator \in Collectors
      /\ faults \in 0..MaxFaults /\ MaxFaults \in Nat
  BY ProcessAssumption, FaultAssumption DEF CollectorSound, CollectorTypeOK
<1>2. CASE World
  BY <1>2, PushSound, CiSound DEF World
<1>3. CASE StageCollect
  BY <1>1, <1>3, CollectSound DEF StageCollect
<1>4. CASE Collect(Operator, "idle")
  BY <1>1, <1>4, CollectSound
<1>5. CASE UNCHANGED <<hub, stored, got, batch>> /\ faults' \in 0..MaxFaults
  BY <1>5, ForgottenSound
<1>6. ASSUME faults' = faults \/ (faults < MaxFaults /\ faults' = faults + 1)
      PROVE  faults' \in 0..MaxFaults
  BY <1>1, <1>6
<1>7. Deploy \/ Start \/ StageGrade \/ StageFeatures \/ StageProfile \/ StageFails \/ Command
        => /\ UNCHANGED <<hub, stored, got, batch>>
           /\ faults' = faults \/ (faults < MaxFaults /\ faults' = faults + 1)
  <2>1. Deploy \/ Start \/ StageFails \/ Command
          => /\ UNCHANGED <<hub, stored, got, batch>>
             /\ faults' = faults \/ (faults < MaxFaults /\ faults' = faults + 1)
    BY DEF Deploy, Start, StageFails, Command, collected
  <2>2. StageFeatures \/ StageProfile => UNCHANGED <<hub, stored, got, batch, faults>>
    BY DEF StageFeatures, StageProfile, collected
  <2>3. StageGrade
          => /\ UNCHANGED <<hub, stored, got, batch>>
             /\ faults' = faults \/ (faults < MaxFaults /\ faults' = faults + 1)
    BY DEF StageGrade, collected
  <2> QED BY <2>1, <2>2, <2>3
<1>8. CASE UNCHANGED vars
  BY <1>1, <1>5, <1>8 DEF vars, hub, stored
<1>9. CASE CommandEnds
  BY <1>1, <1>4, <1>5, <1>9 DEF CommandEnds, collected
<1> QED BY <1>2, <1>3, <1>5, <1>6, <1>7, <1>8, <1>9 DEF Next, Cycle

\* Every variable keeps its type: the rows stored are of commits pushed, what
\* a collector is about to write has a run's type, a log is not tried more
\* than three times, the attempt names commits, and the pointer of the
\* profile is null or at a row that is filled.
THEOREM TypesHold == Spec => []TypeOK
<1> DEFINE IInv == Inv /\ CollectorSound /\ FeaturesSound
<1>1. Init => IInv
  BY InitStands, CollectorBegins, FeaturesBegin
<1>2. IInv /\ [Next]_vars => IInv'
  BY StepStands, StepCollects, StepSound
<1>3. IInv => TypeOK
  BY DEF CollectorSound, FeaturesSound, TypeOK
<1> HIDE DEF IInv
<1> QED BY <1>1, <1>2, <1>3, PTL DEF Spec
=============================================================================
