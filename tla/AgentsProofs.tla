---------------------------- MODULE AgentsProofs ----------------------------
(***************************************************************************)
(* Proofs about Agents for every set of commits and checks, every answer   *)
(* the providers may give, every sequence of settings and any number of    *)
(* failed stages and kills.                                                *)
(***************************************************************************)
EXTENDS Agents, FiniteSetTheorems, TLAPS

-----------------------------------------------------------------------------
(* The inductive invariant. *)

AgentSteps == {"feedback", "judge", "code"}

\* The shape of the rows of a transaction; what a note holds is left open.
Shaped(r) ==
  /\ r = [graded |-> r.graded, frozen |-> r.frozen, arm |-> r.arm,
          note |-> r.note, verdict |-> r.verdict]
  /\ r.graded \subseteq Commits
  /\ r.arm = [c \in Commits |-> r.arm[c]]
  /\ r.note = [c \in Commits |-> r.note[c]]
  /\ r.verdict = [c \in Commits |-> r.verdict[c]]

\* The rows of any transaction treat a commit once, and only a graded one.
TreatedOnce(r) ==
  \A c \in Commits :
    /\ r.arm[c] = "control" => r.note[c] = NoNote
    /\ r.arm[c] = "control" \/ r.note[c] # NoNote => Failing(c)
    /\ r.verdict[c] # "none" => ~Failing(c)
    /\ r.arm[c] # "none" \/ r.note[c] # NoNote => c \in r.graded

Shapes == /\ collected \subseteq Commits /\ todo \subseteq Commits
          /\ pc \in AgentSteps => cur \in Commits
          /\ posted = [c \in Commits |-> posted[c]]
          /\ Shaped(db) /\ Shaped(tx) /\ Shaped(save)

Once == TreatedOnce(db) /\ TreatedOnce(tx) /\ TreatedOnce(save)

\* What a stage has still to see it has not graded, whatever is rolled back.
Ahead == /\ pc \in {"next"} \cup AgentSteps => todo \cap tx.graded = {}
         /\ pc \in AgentSteps => todo \cap save.graded = {}

\* The commit at hand is graded and, as far as an agent may come to it, new.
AtHand ==
  /\ pc \in AgentSteps => cur \in tx.graded /\ cur \in save.graded
  /\ pc = "feedback" => tx.arm[cur] = "none" /\ tx.note[cur] = NoNote
  /\ pc = "judge" => /\ Failing(cur)
                     /\ tx.arm[cur] # "control" /\ tx.note[cur] = NoNote

\* An agent is only at work in a run that found the student opted in.
OptedIn == pc \in AgentSteps => ~OptedOut(settings)

Spent == left \in Int /\ left <= RunCap

Inv == Shapes /\ Once /\ Ahead /\ AtHand /\ OptedIn /\ Spent

-----------------------------------------------------------------------------
\* Every action of Next, by name.
LEMMA StepCases ==
  ASSUME Next
  PROVE  \/ \E c \in Commits : CollectOne(c)
         \/ Start \/ GradeOne \/ Feedback \/ Judge \/ PipelineCatches \/ Code
         \/ AgentRaises \/ StageEnds \/ PostOne \/ RunEnds \/ StageFails \/ Kill
  BY DEF Next, Hourly

LEMMA InitInv == Init => Inv
<1> SUFFICES ASSUME Init PROVE Inv OBVIOUS
<1>1. Shaped(Empty) /\ TreatedOnce(Empty)
  BY DEF Empty, Shaped, TreatedOnce
<1>2. Shapes
  BY <1>1 DEF Init, Shapes, AgentSteps
<1>3. Once
  BY <1>1 DEF Init, Once
<1>4. Ahead /\ AtHand /\ OptedIn /\ Spent
  BY NumbersAssumption DEF Init, Ahead, AtHand, OptedIn, Spent, AgentSteps
<1> QED BY <1>2, <1>3, <1>4 DEF Inv

\* A note is stored for a failing commit that is graded and not a control.
LEMMA NoteKeeps ==
  ASSUME NEW r, NEW c \in Commits, NEW note, Shaped(r), TreatedOnce(r),
         c \in r.graded, Failing(c), r.arm[c] # "control"
  PROVE  LET q == [r EXCEPT !.note[c] = note]
         IN  Shaped(q) /\ TreatedOnce(q) /\ q.graded = r.graded
BY DEF Shaped, TreatedOnce

\* A verdict is stored for a commit that does not fail.
LEMMA VerdictKeeps ==
  ASSUME NEW r, NEW c \in Commits, NEW verdict, Shaped(r), TreatedOnce(r), ~Failing(c)
  PROVE  LET q == [r EXCEPT !.verdict[c] = verdict]
         IN  Shaped(q) /\ TreatedOnce(q) /\ q.graded = r.graded
BY DEF Shaped, TreatedOnce

\* An arm is stored for a failing commit that has no note.
LEMMA ArmKeeps ==
  ASSUME NEW r, NEW c \in Commits, NEW arm, Shaped(r), TreatedOnce(r),
         c \in r.graded, Failing(c), r.note[c] = NoNote
  PROVE  LET q == [r EXCEPT !.arm[c] = arm]
         IN  /\ Shaped(q) /\ TreatedOnce(q) /\ q.graded = r.graded
             /\ q.note[c] = NoNote /\ q.arm[c] = arm
BY DEF Shaped, TreatedOnce

\* Grading a commit that has no rows leaves it without any treatment.
LEMMA GradeKeeps ==
  ASSUME NEW c \in Commits, Shaped(tx), TreatedOnce(tx), c \notin tx.graded
  PROVE  LET q == GradedRows(c)
         IN  /\ Shaped(q) /\ TreatedOnce(q) /\ q.graded = tx.graded \cup {c}
             /\ q.arm[c] = "none" /\ q.note[c] = NoNote
<1> DEFINE rows == [tx EXCEPT !.graded = @ \cup {c}]
<1>1. tx.arm[c] = "none" /\ tx.note[c] = NoNote
  BY DEF TreatedOnce
<1>2. /\ Shaped(rows) /\ TreatedOnce(rows) /\ rows.graded = tx.graded \cup {c}
      /\ rows.arm = tx.arm /\ rows.note = tx.note
  BY DEF Shaped, TreatedOnce
<1> HIDE DEF rows
<1>3. LET q == [rows EXCEPT !.frozen = c]
      IN  /\ Shaped(q) /\ TreatedOnce(q) /\ q.graded = rows.graded
          /\ q.arm = rows.arm /\ q.note = rows.note
  BY <1>2 DEF Shaped, TreatedOnce
<1>4. GradedRows(c) = IF Freezes(c) THEN [rows EXCEPT !.frozen = c] ELSE rows
  BY DEF GradedRows, rows
<1> QED BY <1>1, <1>2, <1>3, <1>4

-----------------------------------------------------------------------------
(* One lemma per kind of step. *)

\* The rows that go with the Feedback Agent's first part are as good as tx.
LEMMA ArmWritten ==
  ASSUME Inv, pc = "feedback",
         NEW rows,
         rows = IF settings.ab /\ Failing(cur)
                THEN [tx EXCEPT !.arm[cur] = ArmOf(cur)] ELSE tx
  PROVE  /\ Shaped(rows) /\ TreatedOnce(rows) /\ rows.graded = tx.graded
         /\ rows.note[cur] = NoNote
         /\ ~(settings.ab /\ ArmOf(cur) = "control") => rows.arm[cur] # "control"
<1>1. /\ cur \in Commits /\ Shaped(tx) /\ TreatedOnce(tx) /\ cur \in tx.graded
      /\ tx.arm[cur] = "none" /\ tx.note[cur] = NoNote
  BY DEF Inv, Shapes, Once, AtHand, AgentSteps
<1>2. CASE settings.ab /\ Failing(cur)
  BY <1>1, <1>2, ArmKeeps
<1>3. CASE ~(settings.ab /\ Failing(cur))
  BY <1>1, <1>3
<1> QED BY <1>2, <1>3

LEMMA FeedbackStep == Inv /\ Feedback => Inv'
<1> SUFFICES ASSUME Inv, Feedback PROVE Inv' OBVIOUS
<1> DEFINE rows == IF settings.ab /\ Failing(cur)
                   THEN [tx EXCEPT !.arm[cur] = ArmOf(cur)] ELSE tx
           note == Persisted(rows.note[cur], Note(cur, "stub_only"))
<1>1. pc = "feedback" /\ cur \in Commits /\ pc \in AgentSteps
  BY DEF Inv, Shapes, Feedback, AgentSteps
<1>2. /\ Shaped(rows) /\ TreatedOnce(rows) /\ rows.graded = tx.graded
      /\ rows.note[cur] = NoNote
      /\ ~(settings.ab /\ ArmOf(cur) = "control") => rows.arm[cur] # "control"
  BY <1>1, ArmWritten
<1>3. /\ UNCHANGED <<run, left, todo, cur, froze, db, posted, faults>>
      /\ \/ ToCode(rows)
         \/ /\ Failing(cur) /\ ~(settings.ab /\ ArmOf(cur) = "control")
            /\ \/ ToCode([rows EXCEPT !.note[cur] = note])
               \/ tx' = rows /\ pc' = "judge" /\ UNCHANGED save
  BY DEF Feedback
<1> HIDE DEF rows, note
<1>4. CASE ToCode(rows)
  <2>1. Shapes' /\ Once'
    BY <1>1, <1>2, <1>3, <1>4
    DEF Inv, Shapes, Once, ToCode, AgentSteps, TreatedOnce, Failing, Failed, run
  <2>2. (Ahead /\ AtHand /\ OptedIn /\ Spent)'
    BY <1>1, <1>2, <1>3, <1>4
    DEF Inv, Ahead, AtHand, OptedIn, Spent, ToCode, AgentSteps, run
  <2> QED BY <2>1, <2>2 DEF Inv
<1>5. CASE /\ Failing(cur) /\ ~(settings.ab /\ ArmOf(cur) = "control")
           /\ ToCode([rows EXCEPT !.note[cur] = note])
  <2> DEFINE noted == [rows EXCEPT !.note[cur] = note]
  <2>1. Shaped(noted) /\ TreatedOnce(noted) /\ noted.graded = tx.graded
    BY <1>1, <1>2, <1>5, NoteKeeps DEF Inv, AtHand
  <2> HIDE DEF noted
  <2>2. ToCode(noted)
    BY <1>5 DEF noted
  <2>3. Shapes' /\ Once'
    BY <1>1, <1>3, <2>1, <2>2
    DEF Inv, Shapes, Once, ToCode, AgentSteps, TreatedOnce, Failing, Failed, run
  <2>4. (Ahead /\ AtHand /\ OptedIn /\ Spent)'
    BY <1>1, <1>3, <2>1, <2>2
    DEF Inv, Ahead, AtHand, OptedIn, Spent, ToCode, AgentSteps, run
  <2> QED BY <2>3, <2>4 DEF Inv
<1>6. CASE /\ Failing(cur) /\ ~(settings.ab /\ ArmOf(cur) = "control")
           /\ tx' = rows /\ pc' = "judge" /\ UNCHANGED save
  <2>1. Shapes' /\ Once'
    BY <1>1, <1>2, <1>3, <1>6
    DEF Inv, Shapes, Once, AgentSteps, TreatedOnce, Failing, Failed, run
  <2>2. (Ahead /\ AtHand /\ OptedIn /\ Spent)'
    BY <1>1, <1>2, <1>3, <1>6
    DEF Inv, Ahead, AtHand, OptedIn, Spent, AgentSteps, Failing, Failed, run
  <2> QED BY <2>1, <2>2 DEF Inv
<1> QED BY <1>3, <1>4, <1>5, <1>6

\* An agent that hands the rows it has to the next one, or that changed
\* nothing but the calls it spent.
LEMMA HandOver ==
  ASSUME Inv, pc \in {"feedback", "judge"}, NEW rows, ToCode(rows),
         Shaped(rows), TreatedOnce(rows), rows.graded = tx.graded,
         UNCHANGED <<run, todo, cur, froze, db, posted, faults>>,
         left' \in Int, left' <= left
  PROVE  Inv'
<1>1. Shapes' /\ Once'
  BY DEF Inv, Shapes, Once, ToCode, AgentSteps, TreatedOnce, Failing, Failed, run
<1>2. (Ahead /\ AtHand /\ OptedIn /\ Spent)'
  BY NumbersAssumption DEF Inv, Ahead, AtHand, OptedIn, Spent, ToCode, AgentSteps, run
<1> QED BY <1>1, <1>2 DEF Inv

LEMMA JudgeStep == Inv /\ Judge => Inv'
<1> SUFFICES ASSUME Inv, Judge PROVE Inv' OBVIOUS
<1>1. /\ pc = "judge" /\ cur \in Commits /\ pc \in AgentSteps /\ left \in Int
      /\ Shaped(tx) /\ TreatedOnce(tx) /\ cur \in tx.graded /\ Failing(cur)
      /\ tx.arm[cur] # "control" /\ tx.note[cur] = NoNote
  BY DEF Inv, Shapes, Once, AtHand, Spent, Judge, AgentSteps
<1>2. UNCHANGED <<run, todo, cur, froze, db, posted, faults>>
  BY DEF Judge
<1>3. CASE ToCode(tx) /\ left' \in {left, left - 2}
  BY <1>1, <1>2, <1>3, HandOver
<1>4. CASE /\ \E n \in 0..2 : left' = left - n
           /\ \E d \in Latest, r \in Replies : Answer(d, r)
  <2>1. left' \in Int /\ left' <= left
    BY <1>1, <1>4
  <2>2. PICK d \in Latest, r \in Replies : Answer(d, r)
    BY <1>4
  <2> DEFINE noted == [tx EXCEPT !.note[cur] = Persisted(tx.note[cur], Note(cur, "llm"))]
  <2>3. Shaped(noted) /\ TreatedOnce(noted) /\ noted.graded = tx.graded
    BY <1>1, NoteKeeps
  <2>4. \/ ToCode(tx) \/ ToCode(noted)
        \/ UNCHANGED <<tx, save, pc>>
    BY <2>2 DEF Answer
  <2> HIDE DEF noted
  <2>5. CASE UNCHANGED <<tx, save, pc>>
    <3>1. Shapes' /\ Once'
      BY <1>1, <1>2, <2>5 DEF Inv, Shapes, Once, TreatedOnce, Failing, Failed, run
    <3>2. (Ahead /\ AtHand /\ OptedIn /\ Spent)'
      BY <1>1, <1>2, <2>1, <2>5, NumbersAssumption
      DEF Inv, Ahead, AtHand, OptedIn, Spent, Failing, Failed, run
    <3> QED BY <3>1, <3>2 DEF Inv
  <2>6. CASE ToCode(tx)
    BY <1>1, <1>2, <2>1, <2>6, HandOver
  <2>7. CASE ToCode(noted)
    BY <1>1, <1>2, <2>1, <2>3, <2>7, HandOver
  <2> QED BY <2>4, <2>5, <2>6, <2>7
<1> QED BY <1>3, <1>4 DEF Judge

LEMMA PipelineStep == Inv /\ PipelineCatches => Inv'
<1> SUFFICES ASSUME Inv, PipelineCatches PROVE Inv' OBVIOUS
<1>1. /\ pc = "judge" /\ ToCode(tx) /\ Shaped(tx) /\ TreatedOnce(tx)
      /\ UNCHANGED <<run, todo, cur, froze, db, posted, faults>>
      /\ left' \in Int /\ left' <= left
  BY DEF Inv, Shapes, Once, Spent, PipelineCatches
<1> QED BY <1>1, HandOver

LEMMA CodeStep == Inv /\ Code => Inv'
<1> SUFFICES ASSUME Inv, Code PROVE Inv' OBVIOUS
<1>1. /\ pc = "code" /\ cur \in Commits /\ pc \in AgentSteps /\ left \in Int
      /\ Shaped(tx) /\ TreatedOnce(tx) /\ cur \in tx.graded
  BY DEF Inv, Shapes, Once, AtHand, Spent, Code, AgentSteps
<1>2. /\ pc' = "next" /\ left' \in Int /\ left' <= left
      /\ UNCHANGED <<run, todo, cur, froze, tries, db, save, posted, faults>>
  BY <1>1 DEF Code
<1>3. Shaped(tx') /\ TreatedOnce(tx') /\ tx'.graded = tx.graded
  <2>1. CASE UNCHANGED tx
    BY <1>1, <2>1
  <2>2. CASE Judges /\ \E v \in Verdicts : tx' = [tx EXCEPT !.verdict[cur] = Stored(v)]
    BY <1>1, <2>2, VerdictKeeps DEF Judges
  <2> QED BY <2>1, <2>2 DEF Code
<1>4. Shapes' /\ Once'
  BY <1>1, <1>2, <1>3 DEF Inv, Shapes, Once, AgentSteps, TreatedOnce, Failing, Failed, run
<1>5. (Ahead /\ AtHand /\ OptedIn /\ Spent)'
  BY <1>1, <1>2, <1>3, NumbersAssumption
  DEF Inv, Ahead, AtHand, OptedIn, Spent, AgentSteps
<1> QED BY <1>4, <1>5 DEF Inv

LEMMA RaiseStep == Inv /\ AgentRaises => Inv'
<1> SUFFICES ASSUME Inv, AgentRaises PROVE Inv' OBVIOUS
<1>1. /\ pc \in AgentSteps /\ pc' \in {"code", "next"} /\ tx' = save /\ save' = save
      /\ UNCHANGED <<run, todo, cur, froze, tries, db, posted, faults>>
  BY DEF AgentRaises, RolledBack, AgentSteps
<1>2. left' \in Int /\ left' <= left
  BY DEF Inv, Spent, AgentRaises
<1>3. Shapes' /\ Once'
  BY <1>1 DEF Inv, Shapes, Once, AgentSteps, TreatedOnce, Failing, Failed, run
<1>4. (Ahead /\ AtHand /\ OptedIn /\ Spent)'
  BY <1>1, <1>2, NumbersAssumption
  DEF Inv, Ahead, AtHand, OptedIn, Spent, AgentSteps, run
<1> QED BY <1>3, <1>4 DEF Inv

LEMMA GradeStep == Inv /\ GradeOne => Inv'
<1> SUFFICES ASSUME Inv, GradeOne PROVE Inv' OBVIOUS
<1>1. /\ pc = "next" /\ cur' \in todo /\ cur' \in Commits /\ todo' = todo \ {cur'}
      /\ UNCHANGED <<run, left, tries, db, posted>>
      /\ Shaped(tx) /\ TreatedOnce(tx) /\ todo \cap tx.graded = {}
  BY DEF Inv, Shapes, Once, Ahead, GradeOne, IsFirst
<1>2. CASE /\ tx' = GradedRows(cur') /\ save' = tx'
           /\ pc' = IF Gate(cur') THEN "feedback" ELSE "next"
  <2>1. /\ Shaped(tx') /\ TreatedOnce(tx') /\ tx'.graded = tx.graded \cup {cur'}
        /\ tx'.arm[cur'] = "none" /\ tx'.note[cur'] = NoNote
    BY <1>1, <1>2, GradeKeeps
  <2>2. pc' = "feedback" => ~OptedOut(settings)
    BY <1>2 DEF Gate
  <2>3. Shapes' /\ Once'
    BY <1>1, <1>2, <2>1 DEF Inv, Shapes, Once, AgentSteps, TreatedOnce, Failing, Failed, run
  <2>4. Ahead' /\ AtHand'
    BY <1>1, <1>2, <2>1 DEF Ahead, AtHand, AgentSteps
  <2>5. OptedIn' /\ Spent'
    BY <1>1, <1>2, <2>2 DEF Inv, OptedIn, Spent, AgentSteps, OptedOut, run
  <2> QED BY <2>3, <2>4, <2>5 DEF Inv
<1>3. CASE pc' = "next" /\ UNCHANGED <<froze, tx, save>>
  <2>1. Shapes' /\ Once'
    BY <1>1, <1>3 DEF Inv, Shapes, Once, AgentSteps, TreatedOnce, Failing, Failed, run
  <2>2. (Ahead /\ AtHand /\ OptedIn /\ Spent)'
    BY <1>1, <1>3 DEF Inv, Ahead, AtHand, OptedIn, Spent, AgentSteps
  <2> QED BY <2>1, <2>2 DEF Inv
<1> QED BY <1>2, <1>3 DEF GradeOne

\* The steps outside an agent that leave the savepoint and the commit alone.
LEMMA CollectStep == ASSUME NEW c \in Commits, Inv, CollectOne(c) PROVE Inv'
<1>1. Shapes' /\ Once'
  BY DEF Inv, Shapes, Once, CollectOne, AgentSteps, TreatedOnce, Failing, Failed
<1>2. (Ahead /\ AtHand /\ OptedIn /\ Spent)'
  BY DEF Inv, Ahead, AtHand, OptedIn, Spent, CollectOne, AgentSteps
<1> QED BY <1>1, <1>2 DEF Inv

LEMMA StartStep == Inv /\ Start => Inv'
<1> SUFFICES ASSUME Inv, Start PROVE Inv' OBVIOUS
<1>1. Pending \subseteq Commits /\ Pending \cap db.graded = {}
  BY DEF Inv, Shapes, Pending
<1>2. Shapes' /\ Once'
  BY <1>1 DEF Inv, Shapes, Once, Start, AgentSteps, TreatedOnce, Failing, Failed
<1>3. (Ahead /\ AtHand /\ OptedIn /\ Spent)'
  BY <1>1, NumbersAssumption DEF Inv, Ahead, AtHand, OptedIn, Spent, Start, AgentSteps
<1> QED BY <1>2, <1>3 DEF Inv

\* A transaction ends: its rows are committed, or gone.
LEMMA EndStep ==
  ASSUME Inv, pc' \in {"post", "idle"}, db' \in {db, tx}, tx' = db',
         todo' \subseteq Commits,
         UNCHANGED <<run, left, cur, froze, tries, save, posted>>
  PROVE  Inv'
<1>1. Shapes' /\ Once'
  BY DEF Inv, Shapes, Once, AgentSteps, TreatedOnce, Failing, Failed, run
<1>2. (Ahead /\ AtHand /\ OptedIn /\ Spent)'
  BY DEF Inv, Ahead, AtHand, OptedIn, Spent, AgentSteps
<1> QED BY <1>1, <1>2 DEF Inv

LEMMA StageEndsStep == Inv /\ (StageEnds \/ StageFails \/ Kill) => Inv'
<1> SUFFICES ASSUME Inv, StageEnds \/ StageFails \/ Kill PROVE Inv' OBVIOUS
<1>1. Unposted(db) \subseteq Commits /\ Unposted(tx) \subseteq Commits
  BY DEF Inv, Shapes, Shaped, Unposted
<1>2. CASE StageEnds
  BY <1>1, <1>2, EndStep DEF StageEnds
<1>3. CASE StageFails
  BY <1>1, <1>3, EndStep DEF StageFails, Undone
<1>4. CASE Kill
  BY <1>4, EndStep DEF Kill, Undone
<1> QED BY <1>2, <1>3, <1>4

LEMMA PostStep == Inv /\ (PostOne \/ RunEnds) => Inv'
<1> SUFFICES ASSUME Inv, PostOne \/ RunEnds PROVE Inv' OBVIOUS
<1>1. /\ pc = "post" /\ pc' \in {"post", "idle"} /\ todo' \subseteq todo
      /\ UNCHANGED <<run, left, cur, db, tx, save>>
  BY DEF PostOne, RunEnds
<1>2. posted' = [c \in Commits |-> posted'[c]]
  BY DEF Inv, Shapes, PostOne, RunEnds
<1>3. Shapes' /\ Once'
  BY <1>1, <1>2 DEF Inv, Shapes, Once, AgentSteps, TreatedOnce, Failing, Failed, run
<1>4. (Ahead /\ AtHand /\ OptedIn /\ Spent)'
  BY <1>1 DEF Inv, Ahead, AtHand, OptedIn, Spent, AgentSteps
<1> QED BY <1>3, <1>4 DEF Inv

LEMMA StepInv == Inv /\ [Next]_vars => Inv'
<1> SUFFICES ASSUME Inv, [Next]_vars PROVE Inv' OBVIOUS
<1>1. CASE UNCHANGED vars
  <2>1. Shapes' /\ Once'
    BY <1>1 DEF Inv, Shapes, Once, TreatedOnce, Failing, Failed, vars
  <2>2. (Ahead /\ AtHand /\ OptedIn /\ Spent)'
    BY <1>1 DEF Inv, Ahead, AtHand, OptedIn, Spent, Failing, Failed, OptedOut, vars
  <2> QED BY <2>1, <2>2 DEF Inv
<1>2. CASE Next
  BY <1>2, StepCases, CollectStep, StartStep, GradeStep, FeedbackStep, JudgeStep,
     PipelineStep, CodeStep, RaiseStep, StageEndsStep, PostStep
<1> QED BY <1>1, <1>2

LEMMA InvHolds == Spec => []Inv
BY InitInv, StepInv, PTL DEF Spec

-----------------------------------------------------------------------------
\* A set whose elements are all equal has at most one.
LEMMA AtMostOne ==
  ASSUME NEW S, \A x, y \in S : x = y
  PROVE  Cardinality(S) <= 1
<1>1. CASE S = {}
  BY <1>1, FS_EmptySet
<1>2. CASE S # {}
  <2>1. PICK x \in S : TRUE
    BY <1>2
  <2>2. S = {x}
    BY <2>1
  <2> HIDE <2>2
  <2>3. Cardinality({x}) = 1
    BY FS_Singleton
  <2> QED BY <2>2, <2>3
<1> QED BY <1>1, <1>2

\* For every set of commits and every answer of the providers a commit is
\* treated once: the property of the run agents_runs.
THEOREM TreatmentOnce == Spec => []OneTreatment
<1>1. Inv => OneTreatment
  <2> SUFFICES ASSUME Inv, NEW c \in Commits
               PROVE  Cardinality({x \in {"control", "note", "verdict"} :
                   \/ x = "control" /\ db.arm[c] = "control"
                   \/ x = "note" /\ db.note[c] # NoNote
                   \/ x = "verdict" /\ db.verdict[c] # "none"}) <= 1
    BY DEF OneTreatment
  <2>1. /\ ~(db.arm[c] = "control" /\ db.note[c] # NoNote)
        /\ ~(db.arm[c] = "control" /\ db.verdict[c] # "none")
        /\ ~(db.note[c] # NoNote /\ db.verdict[c] # "none")
    BY DEF Inv, Once, TreatedOnce
  <2> DEFINE S == {x \in {"control", "note", "verdict"} :
                     \/ x = "control" /\ db.arm[c] = "control"
                     \/ x = "note" /\ db.note[c] # NoNote
                     \/ x = "verdict" /\ db.verdict[c] # "none"}
  <2>2. \A x, y \in S : x = y
    BY <2>1
  <2> HIDE DEF S
  <2>3. Cardinality(S) <= 1
    BY <2>2, AtMostOne
  <2> QED BY <2>3 DEF S
<1> QED BY <1>1, InvHolds, PTL

\* For every roster and every sequence of settings a run that finds the
\* student opted out makes no call and posts no paragraph.
THEOREM OptOutKept == Spec => OptOutHonoured
<1>1. Inv /\ [Next]_vars
        => [OptedOut(settings) =>
              /\ left' >= left
              /\ \A c \in Commits : posted'[c] = "paragraph" => posted[c] = "paragraph"]_vars
  <2> SUFFICES ASSUME Inv, [Next]_vars, OptedOut(settings)
               PROVE  /\ left' >= left
                      /\ \A c \in Commits : posted'[c] = "paragraph" => posted[c] = "paragraph"
    OBVIOUS
  <2>1. pc \notin AgentSteps /\ left \in Int /\ left <= RunCap
    BY DEF Inv, OptedIn, Spent
  <2>2. CASE UNCHANGED <<left, posted>>
    BY <2>1, <2>2
  <2>3. CASE Start
    BY <2>1, <2>3, NumbersAssumption DEF Start
  <2>4. CASE PostOne
    <3>1. ~UseLlm(settings)
      BY DEF UseLlm
    <3>2. left' = left /\ \E c \in todo : posted' \in {posted, [posted EXCEPT ![c] = "text"]}
      BY <2>4, <3>1 DEF PostOne
    <3> QED BY <2>1, <3>2 DEF Inv, Shapes
  <2>5. UNCHANGED <<left, posted>> \/ Start \/ PostOne
    <3>1. CASE UNCHANGED vars
      BY <3>1 DEF vars
    <3>2. CASE Next
      BY <2>1, <3>2, StepCases DEF AgentSteps, CollectOne, GradeOne, Feedback, Judge,
         PipelineCatches, Code, AgentRaises, StageEnds, RunEnds, StageFails, Kill
    <3> QED BY <3>1, <3>2
  <2> QED BY <2>2, <2>3, <2>4, <2>5
<1> QED BY <1>1, InvHolds, PTL DEF Spec, OptOutHonoured
=============================================================================
