----------------------------- MODULE Collector -----------------------------
(***************************************************************************)
(* collectors/collect_github.py: what GitHub holds of one repository of    *)
(* one student, and what the collector has stored of it.  The collect      *)
(* stage of the hourly cycle and scripts/collect.py run the same code; the *)
(* second takes no lock, so the two may overlap.  collect_repo is one      *)
(* transaction at READ COMMITTED with API calls between its statements:    *)
(* list the commits, list the runs and download logs, write everything.    *)
(*                                                                         *)
(* A commit's CI run has the commit's id.  A stored run is a record; one   *)
(* that is not stored has the conclusion "absent".                         *)
(***************************************************************************)
EXTENDS Integers, FiniteSets

CONSTANTS
  Commits,      \* shas, as numbers: ties between dates are broken by sha
  Assignments,  \* the assignments the roster groups on the repository
  WithPath,     \* those whose row declares a file_path
  Touches,      \* the assignments whose file each commit changes
  Log,          \* what the log of each commit's run holds
  Slow,         \* commits whose run takes long enough to be seen under way
  Collectors,   \* the processes that collect
  MaxFaults     \* bound on failing stages, skipped networks, manual commands

NoAssignment == "none"
MaxTries     == 3   \* MAX_LOG_ATTEMPTS

ASSUME CommitAssumption == Commits \subseteq Nat \ {0} /\ IsFiniteSet(Commits)
ASSUME AssignmentAssumption ==
  /\ WithPath \subseteq Assignments /\ NoAssignment \notin Assignments
  /\ Touches \in [Commits -> SUBSET Assignments]
ASSUME LogAssumption ==
  /\ Log \in [Commits -> {"passed", "empty", "unmatched", "rule"}]
  /\ Slow \subseteq Commits
ASSUME FaultAssumption == MaxFaults \in Nat

Classes == {"none", "empty", "unmatched", "rule"}
Run == [concl : {"absent", "running", "success", "failure"}, class : Classes,
        tries : 0..MaxTries, final : BOOLEAN]

VARIABLES
  committed, started, \* GitHub: committer date, start of the run; 0: not pushed
  ci,          \* GitHub: the conclusion of each commit's run
  raw_commits, raw_workflow_runs,  \* what is stored
  pc,          \* each process: its next step
  got, batch,  \* each collector: the commits listed; the run rows to write
  faults       \* faults so far (a bound, not state of the program)

hub    == <<committed, started, ci>>
stored == <<raw_commits, raw_workflow_runs>>

NotStored == [concl |-> "absent", class |-> "none", tries |-> 0, final |-> FALSE]
Pushed    == {c \in Commits : committed[c] # 0}
Stored    == {r \in Commits : raw_workflow_runs[r].concl # "absent"}
Real      == {"unmatched", "rule"}   \* classes read from a log
Latest(S) == IF S = {} THEN 0 ELSE CHOOSE t \in S : \A u \in S : u <= t

----------------------------------------------------------------------------
\* _match_assignments: without any file_path every commit matches them all.
Matched(c) == IF WithPath = {} THEN Assignments ELSE Touches[c] \cap WithPath

\* A single match is an attribution; none or several is NULL.
AssignmentOf(c) == IF \E a \in Assignments : Matched(c) = {a}
                   THEN CHOOSE a \in Assignments : Matched(c) = {a}
                   ELSE NoAssignment

\* The date commits are listed from: the newest attributed commit.
Since == Latest({committed[c] : c \in {d \in raw_commits :
                                         AssignmentOf(d) # NoAssignment}})

\* Mutant: a download that failed is not retried.
NeedsNoRetry(row) == row.class = "none"

\* _log_needs_work, of a stored row.
NeedsWork(row) ==
  \/ row.class = "none"
  \/ row.class = "empty" /\ ~row.final /\ row.tries < MaxTries

\* Runs whose log is downloaded: failed, and new or still in need of it.
ToDownload == {r \in Commits : /\ ci[r] = "failure"
                               /\ r \in Stored => NeedsWork(raw_workflow_runs[r])}
\* Runs that are listed and not stored yet.
ToInsert == {r \in Commits : ci[r] # "absent" /\ r \notin Stored}

\* classify_error of the downloaded text, or of None when the download
\* failed; the reason is set when nothing is left to try.
Classified(r, ok) ==
  LET n == raw_workflow_runs[r].tries + 1
  IN  [concl |-> ci[r], class |-> IF ok THEN Log[r] ELSE "empty", tries |-> n,
       final |-> IF ok THEN Log[r] = "empty" ELSE n >= MaxTries]
AsListed(r) == [concl |-> ci[r], class |-> "none", tries |-> 0, final |-> FALSE]

\* Mutant: the retry's UPDATE without its WHERE.
OverwrittenBy(row, new) == [new EXCEPT !.concl = row.concl]

\* The UPDATE of a retry: only a row that has no class from a log.
RetriedBy(row, new) ==
  IF row.class \in {"none", "empty"} THEN [new EXCEPT !.concl = row.concl] ELSE row

\* INSERT ... ON CONFLICT DO NOTHING.
InsertedBy(row, new) == IF row.concl = "absent" THEN new ELSE row

----------------------------------------------------------------------------
CollectorInit ==
  /\ committed = [c \in Commits |-> 0] /\ started = [c \in Commits |-> 0]
  /\ ci = [c \in Commits |-> "absent"]
  /\ raw_commits = {}
  /\ raw_workflow_runs = [c \in Commits |-> NotStored]
  /\ got = [p \in Collectors |-> {}] /\ batch = [p \in Collectors |-> <<>>]
  /\ faults = 0

Conclusion(c) == IF Log[c] = "passed" THEN "success" ELSE "failure"

\* The student or a script pushes: the run starts now, the committer date may
\* be any earlier moment (a commit made offline, a rebase).
Push(c) ==
  /\ c \notin Pushed
  /\ LET now == Cardinality(Pushed) + 1
     IN  /\ \E t \in 1..now : committed' = [committed EXCEPT ![c] = t]
         /\ started' = [started EXCEPT ![c] = now]
  /\ ci' = [ci EXCEPT ![c] = IF c \in Slow THEN "running" ELSE Conclusion(c)]
  /\ UNCHANGED <<stored, pc, got, batch, faults>>

CiEnds(c) ==
  /\ ci[c] = "running"
  /\ ci' = [ci EXCEPT ![c] = Conclusion(c)]
  /\ UNCHANGED <<committed, started, stored, pc, got, batch, faults>>

\* GET commits since the watermark, and the detail of each one not stored.
ListCommits(p) ==
  /\ pc[p] = "collect"
  /\ got' = [got EXCEPT ![p] = {c \in Pushed \ raw_commits : committed[c] >= Since}]
  /\ pc' = [pc EXCEPT ![p] = "runs"]
  /\ UNCHANGED <<hub, stored, batch, faults>>

\* The stored runs are read once, the runs listed, the logs downloaded; each
\* download may fail (404, 5xx, a corrupt archive).
ListRuns(p) ==
  /\ pc[p] = "runs"
  /\ \E ok \in SUBSET ToDownload :
       batch' = [batch EXCEPT ![p] =
         [r \in ToInsert \cup ToDownload |->
            [new |-> r \in ToInsert,
             row |-> IF r \in ToDownload THEN Classified(r, r \in ok)
                     ELSE AsListed(r)]]]
  /\ pc' = [pc EXCEPT ![p] = "store"]
  /\ UNCHANGED <<hub, stored, got, faults>>

\* The batched upsert, insert and update, and the commit.
Store(p, next) ==
  /\ pc[p] = "store"
  /\ raw_commits' = raw_commits \cup got[p]
  /\ raw_workflow_runs' = [r \in Commits |->
       LET row == raw_workflow_runs[r]
       IN  IF r \notin DOMAIN batch[p] THEN row
           ELSE IF batch[p][r].new THEN InsertedBy(row, batch[p][r].row)
           ELSE RetriedBy(row, batch[p][r].row)]
  /\ got' = [got EXCEPT ![p] = {}] /\ batch' = [batch EXCEPT ![p] = <<>>]
  /\ pc' = [pc EXCEPT ![p] = next]
  /\ UNCHANGED <<hub, faults>>

\* Any call or statement raises: collect_all rolls this repository back and
\* goes on; the failure is an error of the student, not of the cycle.
CollectFails(p, next) ==
  /\ pc[p] \in {"collect", "runs", "store"}
  /\ faults < MaxFaults /\ faults' = faults + 1
  /\ got' = [got EXCEPT ![p] = {}] /\ batch' = [batch EXCEPT ![p] = <<>>]
  /\ pc' = [pc EXCEPT ![p] = next]
  /\ UNCHANGED <<hub, stored>>

Collect(p, next) ==
  ListCommits(p) \/ ListRuns(p) \/ Store(p, next) \/ CollectFails(p, next)

----------------------------------------------------------------------------
CollectorTypeOK ==
  /\ committed \in [Commits -> 0..Cardinality(Commits)]
  /\ started \in [Commits -> 0..Cardinality(Commits)]
  /\ ci \in [Commits -> {"absent", "running", "success", "failure"}]
  /\ raw_commits \subseteq Pushed /\ Stored \subseteq Pushed
  /\ raw_workflow_runs \in [Commits -> Run]
  /\ got \in [Collectors -> SUBSET Pushed]
  /\ \A p \in Collectors :
       /\ DOMAIN batch[p] \subseteq Pushed
       /\ \A r \in DOMAIN batch[p] :
            batch[p][r].new \in BOOLEAN /\ batch[p][r].row \in Run
  /\ faults \in 0..MaxFaults

\* A class read from a log is kept for good, with the tries it took: a retry
\* of another process that read the row earlier cannot take it back
\* (collect_github.py:351-358).
ClassificationKept ==
  \A r \in Commits : raw_workflow_runs[r].class \in Real =>
    raw_workflow_runs'[r] = raw_workflow_runs[r]

\* A commit no later than one already stored and attributed: it is listed no
\* more (the listing starts at the newest committer date, not at the push).
Overtaken(c) == \E d \in raw_commits : /\ AssignmentOf(d) # NoAssignment
                                       /\ committed[d] > committed[c]

\* A failed run that is settled: its log was read, or given up with a reason.
Settled(r) == raw_workflow_runs[r].class \in Real \/ raw_workflow_runs[r].final
=============================================================================
