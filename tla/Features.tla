------------------------------ MODULE Features ------------------------------
(***************************************************************************)
(* features/compute_features.py over what the collector and the grader     *)
(* stored of one student, and learner_profile.features_ref, the pointer    *)
(* into the rows it writes.                                                *)
(*                                                                         *)
(* A variable of the learner is what it is computed from: the commits, the *)
(* runs and the graded commits its queries return.  Equal inputs give      *)
(* equal numbers; the formulas of variables/*.py are arithmetic over them. *)
(* Formula versions are the numbers 2..8 of "v2".."v8".                    *)
(***************************************************************************)
EXTENDS Collector

CONSTANTS
  Message,   \* what each commit's message begins with
  Big,       \* commits that change more files than the template has
  Tooling,   \* TOOLING_FAILURE_RUNS
  Outcome,   \* the hidden tests of each commit: pass, fail, or all stubs
  AttemptNo, \* attempt_no of the attempt the repository belongs to
  CohortPassed,   \* has another student passed the assignment?
  FirstVersion    \* FORMULA_VER of the code deployed at the start

Versions == 2..8
Current  == 8   \* FORMULA_VER

ASSUME MessageAssumption ==
  /\ Message \in [Commits -> {"work", "sync", "initial"}]
  /\ Big \subseteq Commits /\ Tooling \subseteq Commits
ASSUME OutcomeAssumption ==
  /\ Outcome \in [Commits -> {"pass", "fail", "stub"}]
  /\ AttemptNo \in Nat \ {0} /\ CohortPassed \in BOOLEAN
  /\ FirstVersion \in Versions

VARIABLES
  graded,    \* commits with test_results rows
  attempt,   \* the commit observed, the commit frozen on, the commit linted
  version,   \* FORMULA_VER of the code deployed
  rows,      \* learner_features by computed_at
  features_ref,  \* the pointer in learner_profile, 0 when NULL
  draft      \* each process: the payload it computed, or the pointer it read

NoRow == [ver |-> 0]
tables == <<stored, graded, attempt>>

Earlier(d, c) == \/ committed[d] < committed[c]
                 \/ committed[d] = committed[c] /\ d < c

----------------------------------------------------------------------------
(* Which rows are actions of the student, by formula version.              *)

\* sync_commit_sql: the message, no assignment, and few files.
SyncCommit(c) ==
  Message[c] = "sync" /\ AssignmentOf(c) = NoAssignment /\ c \notin Big

\* The earliest commit graded under an attempt >= 2 (fails open otherwise).
FirstOfDeliveredRepo(c) ==
  AttemptNo >= 2 /\ c \in graded /\ \A d \in graded \ {c} : ~Earlier(d, c)

ByAttempt(v) == v >= 8     \* _initial_commit_by_attempt
InitialCommit(v, c) ==
  /\ Message[c] = "initial"
  /\ AssignmentOf(c) = NoAssignment \/ (ByAttempt(v) /\ FirstOfDeliveredRepo(c))
TemplateCommit(c) == InitialCommit(8, c)

NotStudent(v, c) == SyncCommit(c) \/ (v >= 4 /\ InitialCommit(v, c))

CommitScope(v) == IF v = 2 THEN raw_commits
                  ELSE {c \in raw_commits : ~NotStudent(v, c)}

\* A run whose head commit is not stored is the student's.
Activity(v) == IF v = 2 THEN Stored
               ELSE {r \in Stored : ~(r \in raw_commits /\ NotStudent(v, r))}
OutcomeScope(v) == IF v = 2 THEN Stored ELSE Activity(v) \ Tooling

\* The newest event of the student: 0 when there is none.
Watermark(v) == Latest({committed[c] : c \in CommitScope(v)}
                         \cup {started[r] : r \in Activity(v)})
Dirty(v) == CommitScope(v) # {} \/ Activity(v) # {}

----------------------------------------------------------------------------
(* What each variable is computed from.                                    *)

\* Memory.test_result_history: the outcomes of every graded commit, in the log.
History == [c \in graded |-> [attempted |-> Outcome[c] # "stub",
                              passed    |-> Outcome[c] = "pass"]]

\* Memory.replay_mastery: the observations in the log, one per gap of the attempt.
Replayed == {attempt.observed} \ {0}

\* V1: up to v3 the runs with a concept and the test results; from v4 the replay.
Mastery(v) ==
  IF v <= 3
  THEN [runs |-> {r \in OutcomeScope(v) : raw_workflow_runs[r].class = "rule"},
        results |-> DOMAIN History]
  ELSE [runs |-> {}, results |-> Replayed]

\* V2: CI is wired when there is a run; the lint counts are read from v7 on.
Discipline(v) == [runs |-> Activity(v),
                  lint |-> IF v >= 7 THEN attempt.linted ELSE 0]

\* V3: the commits whose gaps are measured.
Effort(v) == [commits |-> CommitScope(v),
              lag     |-> {c \in CommitScope(v) : AssignmentOf(c) # NoAssignment}]

\* V4: a run has an assignment only when the repository has a single one.
Pace(v) ==
  LET passed == \E r \in Activity(v) : raw_workflow_runs[r].concl = "success"
  IN  IF Cardinality(Assignments) # 1 \/ Activity(v) = {} THEN "no run"
      ELSE IF ~passed /\ ~CohortPassed THEN "undefined"
      ELSE IF passed THEN "passed" ELSE "censored"

\* The graded commits whose outcomes count: from v6 without the stubs nobody
\* touched, from v8 without the template push.
Results(v) == {c \in DOMAIN History : /\ v >= 6 => History[c].attempted
                                      /\ ByAttempt(v) => ~TemplateCommit(c)}
FailedRuns(v) == {r \in OutcomeScope(v) : raw_workflow_runs[r].concl = "failure"}

\* V5 and V6: the runs and results, the failures by concept, the lines of the
\* student's commits, and how much was left out.
Errors(v) ==
  [total    |-> OutcomeScope(v) \cup Results(v),
   failed   |-> FailedRuns(v) \cup {c \in Results(v) : ~History[c].passed},
   concepts |-> {r \in FailedRuns(v) : raw_workflow_runs[r].class = "rule"},
   lines    |-> CommitScope(v),
   tooling  |-> IF v = 2 THEN {} ELSE Stored \cap Tooling,
   left_out |-> (Stored \ Activity(v)) \cup (raw_commits \ CommitScope(v))]

\* compute_for_student.
Payload(v) == [ver |-> v, mastery |-> Mastery(v), discipline |-> Discipline(v),
               effort |-> Effort(v), pace |-> Pace(v), errors |-> Errors(v)]

\* _rederive_features_ref.
LatestRow == Latest({t \in DOMAIN rows : rows[t] # NoRow})

\* Mutant: only a missing pointer is stale.
StaleWhenNull == LatestRow # 0 /\ features_ref = 0

\* features_ref_is_stale: nothing to point at is never stale.
Stale == LatestRow # 0 /\ features_ref # LatestRow

\* Mutant: computed once for each student.
NeedsTheFirst == Watermark(version) # 0 /\ LatestRow = 0

\* _needs_features: whatever version the row at the watermark has.
NeedsFeatures == Watermark(version) # 0 /\ rows[Watermark(version)] = NoRow

----------------------------------------------------------------------------
FeaturesInit ==
  /\ graded = {} /\ attempt = [observed |-> 0, frozen |-> 0, linted |-> 0]
  /\ version = FirstVersion
  /\ rows = [t \in 1..Cardinality(Commits) |-> NoRow]
  /\ features_ref = 0
  /\ draft = [p \in Collectors |-> NoRow]

\* compute_for_student reads; the watermark is read later, by the write.
Compute(p) ==
  /\ draft' = [draft EXCEPT ![p] = Payload(version)]
  /\ UNCHANGED <<rows, features_ref>>

\* write_features, and sync_features_ref in the same transaction when a row
\* was written.  A row of another version at this watermark is left alone; a
\* watermark that is gone by now has no key to write to.
WriteFeatures(p) ==
  LET t == Watermark(version)
  IN  IF t # 0 /\ (rows[t] = NoRow \/ rows[t].ver = version)
      THEN /\ rows' = [rows EXCEPT ![t] = draft[p]]
           /\ features_ref' = Latest({LatestRow, t})
      ELSE UNCHANGED <<rows, features_ref>>

\* rebuild_from_traces reads the latest row last and then writes the profile.
RebuildReads(p) ==
  /\ draft' = [draft EXCEPT ![p] = [ver |-> LatestRow]]
  /\ UNCHANGED <<rows, features_ref>>
RebuildWrites(p) == features_ref' = draft[p].ver /\ UNCHANGED rows

----------------------------------------------------------------------------
FeaturesTypeOK ==
  /\ graded \subseteq raw_commits
  /\ attempt \in [observed : Commits \cup {0}, frozen : Commits \cup {0},
                  linted : Commits \cup {0}]
  /\ version \in Versions
  /\ \A t \in DOMAIN rows : rows[t] = NoRow \/ rows[t].ver \in Versions
  /\ features_ref \in {0} \cup {t \in DOMAIN rows : rows[t] # NoRow}
=============================================================================
