------------------------------- MODULE Cycle -------------------------------
(***************************************************************************)
(* scripts/run_cycle.py for one student: collect, grade, features, profile *)
(* in this order, each a transaction of its own, none stopping the next.   *)
(* The advisory lock admits one cycle at a time; the commands an operator  *)
(* runs by hand (collect.py, compute_features, rebuild_from_traces) take   *)
(* no lock and run beside it.                                              *)
(***************************************************************************)
EXTENDS Features

CONSTANTS Hourly, Operator   \* the two processes

ASSUME ProcessAssumption == Collectors = {Hourly, Operator} /\ Hourly # Operator

VARIABLE late   \* history: student commits stored without a newer watermark, or
                \* whose watermark fell, or between a row's reading and writing

vars == <<hub, stored, pc, got, batch, faults,
          graded, attempt, version, rows, features_ref, draft, late>>
collected == <<hub, stored, got, batch, late>>
features  == <<rows, features_ref, draft>>

Init == /\ CollectorInit /\ FeaturesInit
        /\ pc = [p \in Collectors |-> "idle"] /\ late = {}

Goto(p, step) == pc' = [pc EXCEPT ![p] = step]

\* GitHub, at any time.
World == /\ \E c \in Commits : Push(c) \/ CiEnds(c)
         /\ UNCHANGED <<graded, attempt, version, features, late>>

\* A new release of the code is deployed between two commands.
Deploy ==
  /\ version < Current /\ \A p \in Collectors : pc[p] = "idle"
  /\ version' = version + 1
  /\ faults < MaxFaults /\ faults' = faults + 1
  /\ UNCHANGED <<collected, pc, graded, attempt, features>>

\* The task fires; with --skip-network collect and grade are left out.
Start ==
  /\ pc[Hourly] = "idle"
  /\ \/ Goto(Hourly, "collect") /\ UNCHANGED faults
     \/ /\ faults < MaxFaults /\ faults' = faults + 1
        /\ Goto(Hourly, "features")
  /\ UNCHANGED <<collected, graded, attempt, version, features>>

\* The watermark falls when a synchronisation is stored after its run.
Remember ==
  late' = late \cup {c \in CommitScope(version)' :
                       \/ Watermark(version)' < Watermark(version)
                       \/ /\ c \notin raw_commits
                          /\ \/ Watermark(version)' = Watermark(version)
                             \/ \E p \in Collectors : pc[p] = "write"}

StageCollect ==
  /\ Collect(Hourly, "grade")
  /\ UNCHANGED <<graded, attempt, version, features>>
  /\ Remember

\* find_pending of the one attempt, and the effect of grading some of it (the
\* others failed: no checkout, no evaluation).  The module Grading has it in
\* detail; here, which commits have rows and what the attempt then holds.
Pending == {c \in raw_commits \ graded :
              /\ AssignmentOf(c) # NoAssignment
              /\ attempt.frozen # 0 => committed[c] <= committed[attempt.frozen]}
First(S) == IF S = {} THEN 0 ELSE CHOOSE c \in S : \A d \in S \ {c} : Earlier(c, d)
Last(S)  == IF S = {} THEN 0 ELSE CHOOSE c \in S : \A d \in S \ {c} : Earlier(d, c)
Or(c, d) == IF c # 0 THEN c ELSE d

AfterGrading(S) ==
  LET frozen == Or(attempt.frozen, First({c \in S : Outcome[c] = "pass"}))
  IN  [frozen   |-> frozen,
       observed |-> Or(attempt.observed, First({c \in S : Outcome[c] # "stub"})),
       linted   |-> IF S = {} THEN attempt.linted
                    ELSE IF frozen # 0 THEN frozen ELSE Last(S)]

\* Every commit that waits fails or is graded, in the stage's transaction.
StageGrade ==
  /\ pc[Hourly] = "grade"
  /\ \E S \in SUBSET Pending :
       /\ S = Pending \/ faults < MaxFaults
       /\ faults' = IF S = Pending THEN faults ELSE faults + 1
       /\ graded' = graded \cup S
       /\ attempt' = AfterGrading(S)
  /\ Goto(Hourly, "features")
  /\ UNCHANGED <<collected, version, features>>

StageFeatures ==
  /\ \/ /\ pc[Hourly] = "features"
        /\ IF NeedsFeatures THEN Compute(Hourly) /\ Goto(Hourly, "write")
           ELSE UNCHANGED features /\ Goto(Hourly, "profile")
     \/ /\ pc[Hourly] = "write"
        /\ WriteFeatures(Hourly) /\ draft' = [draft EXCEPT ![Hourly] = NoRow]
        /\ Goto(Hourly, "profile")
  /\ UNCHANGED <<collected, faults, graded, attempt, version>>

\* _stage_profile: sync_features_ref only when it would change something.
StageProfile ==
  /\ pc[Hourly] = "profile"
  /\ features_ref' = IF Stale THEN LatestRow ELSE features_ref
  /\ Goto(Hourly, "idle")
  /\ UNCHANGED <<collected, faults, graded, attempt, version, rows, draft>>

\* A stage raises: its transaction is undone, the next stage runs.
StageFails ==
  /\ faults < MaxFaults /\ faults' = faults + 1
  /\ \/ pc[Hourly] = "grade" /\ Goto(Hourly, "features")
     \/ pc[Hourly] \in {"features", "write"} /\ Goto(Hourly, "profile")
     \/ pc[Hourly] = "profile" /\ Goto(Hourly, "idle")
  /\ draft' = [draft EXCEPT ![Hourly] = NoRow]
  /\ UNCHANGED <<collected, graded, attempt, version, rows, features_ref>>

\* By hand: collect.py, python -m features.compute_features, or a rebuild.
Command ==
  /\ pc[Operator] = "idle" /\ faults < MaxFaults /\ faults' = faults + 1
  /\ \/ Goto(Operator, "collect") /\ UNCHANGED features
     \/ Dirty(version) /\ Compute(Operator) /\ Goto(Operator, "write")
     \/ RebuildReads(Operator) /\ Goto(Operator, "rebuild")
  /\ UNCHANGED <<collected, graded, attempt, version>>

CommandEnds ==
  /\ UNCHANGED <<graded, attempt, version>>
  /\ \/ Collect(Operator, "idle") /\ UNCHANGED features /\ Remember
     \/ /\ \/ pc[Operator] = "write" /\ WriteFeatures(Operator)
           \/ pc[Operator] = "rebuild" /\ RebuildWrites(Operator)
        /\ draft' = [draft EXCEPT ![Operator] = NoRow]
        /\ Goto(Operator, "idle") /\ UNCHANGED <<collected, faults>>

Cycle == Start \/ StageCollect \/ StageGrade \/ StageFeatures \/ StageProfile
Next == World \/ Deploy \/ Cycle \/ StageFails \/ Command \/ CommandEnds

\* The task fires every hour and a cycle that started goes on; the operator,
\* the student and GitHub may stop at any time.
Fairness == WF_vars(Cycle)
Spec == Init /\ [][Next]_vars /\ Fairness

----------------------------------------------------------------------------
Steps == {"idle", "collect", "runs", "store", "grade", "features", "write",
          "profile", "rebuild"}
\* Types, and three facts with them: what is stored was pushed, a log is tried
\* at most three times, and the profile's pointer is null or at a row that is
\* there (learner_profile.features_ref).
TypeOK == CollectorTypeOK /\ FeaturesTypeOK /\ pc \in [Collectors -> Steps]

\* A class read from a log is never taken back, whoever collects meanwhile.
ClassKept == [][ClassificationKept]_vars

\* What is pushed is stored, and a student's commit and its run counted by
\* the row the profile points at, through any failures and releases.  The
\* exceptions: a later one was attributed before, so that it is no longer
\* listed, or it was stored late (compute_features.py:245: the key of a row
\* is the watermark).
Counted(c) ==
  /\ features_ref # 0
  /\ LET row == rows[features_ref]
     IN  /\ c \in row.effort.commits /\ c \in row.errors.lines
         /\ c \in row.discipline.runs /\ c \in row.errors.total
         /\ AssignmentOf(c) # NoAssignment => c \in row.effort.lag
Waiting ==
  {c \in Pushed : /\ ~Overtaken(c) /\ c \notin late
                  /\ c \in raw_commits => ~NotStudent(version, c) /\ ~Counted(c)}
CommitCounted == (Waiting # {}) ~> (Waiting = {})

\* A stored run that failed has its log read, or given up with a reason,
\* however many downloads fail and whoever else retries them.
Unsettled == {r \in Stored : ci[r] = "failure" /\ ~Settled(r)}
FailureSettles == (Unsettled # {}) ~> (Unsettled = {})

\* The pointer into learner_features is at the latest row again after every
\* rebuild that wrote back an older one.
RefHeals == (features_ref # LatestRow) ~> (features_ref = LatestRow)

\* "a workflow run's `conclusion` can change from `in_progress` to `success`"
\* (docs/explanation.md:148-149): a run stored while it was under way gets
\* its conclusion once it has one.
ConclusionRefreshed ==
  \A r \in Commits : (r \in Stored /\ ci[r] \in {"success", "failure"})
    ~> raw_workflow_runs[r].concl = ci[r]

\* "re-running with no new activity targets the same primary key and rewrites
\* identical values" (compute_features.py:245-246): the row of a watermark is
\* rewritten by its own version, from the same commits and runs, unchanged.
RerunChangesNothing ==
  [][\A t \in DOMAIN rows :
       /\ rows[t] # NoRow /\ rows'[t].ver = rows[t].ver
       /\ rows'[t].effort = rows[t].effort
       /\ rows'[t].discipline.runs = rows[t].discipline.runs
       => rows'[t] = rows[t]]_vars
=============================================================================
