------------------------------ MODULE Grading ------------------------------
(***************************************************************************)
(* Grading of the commits collected for one (student, assignment):         *)
(* scripts/grade_collected.py picks the commits, assessment/test_runner.py *)
(* records what each one produced, assessment/lint_scope.py adds the lint  *)
(* measure.  Several processes may do this at once: the grade stage of the *)
(* hourly cycle (one database transaction for the whole stage) and the     *)
(* command line of grade_collected (one transaction per commit).           *)
(*                                                                         *)
(* The database is PostgreSQL at READ COMMITTED.  A variable holds what is *)
(* committed; tx[g] holds what grader g has written and not yet committed, *)
(* which is also what it has locked: test rows, the student's profile row, *)
(* the attempt's row.                                                      *)
(***************************************************************************)
EXTENDS Integers, FiniteSets

CONSTANTS
  MaxCommit,   \* commits are 1..MaxCommit, in the order (committed_at, sha)
  CommitTime,  \* committed_at of each commit
  MaxAttempt,  \* attempts are 1..MaxAttempt, by attempt_no
  Gaps,        \* the gaps of the assignment's file, in the order of gap_id
  Hidden,      \* the gaps each attempt hides (variants.gap_ids)
  Eval,        \* what evaluating a commit may report
  Unstorable,  \* commits whose rows the database refuses (a bad gap_id: FK)
  Lost,        \* commits the roster's repository does not hold (force-pushed
               \* away, or pushed to another repository)
  Cycle,       \* graders that join one transaction per stage (run_cycle)
  Cli,         \* graders that own one transaction per commit (the CLI)
  Forced,      \* may the next attempt start while the current one is open?
  MaxFaults    \* bound on failed checkouts and crashes together

Commits  == 1..MaxCommit
Attempts == 1..MaxAttempt
Graders  == Cycle \cup Cli
NoCommit == 0

Statuses == {"ok", "collection_error", "timeout", "tooling"}

\* What `evaluate` returns: the status, the gaps the student attempted (none
\* of their tests raised NotImplementedError), whether there was any test row
\* at all, and whether every test passed.
Evaluation == [status : Statuses, attempted : SUBSET Gaps,
               rows : BOOLEAN, full : BOOLEAN]

Row     == [attempt : Attempts, commit : Commits,
            status : Statuses, full : BOOLEAN]
Trace   == [kind : {"test_result", "mastery_observation"},
            attempt : Attempts, commit : Commits, gap : Gaps, by : Graders]
Attempt == [start : Nat, frozen : Commits \cup {NoCommit},
            scope : Commits \cup {NoCommit}, lint : Commits \cup {NoCommit}]
Tx      == [aborted : BOOLEAN, rows : SUBSET Row, traces : SUBSET Trace,
            profile : BOOLEAN, locked : BOOLEAN, att : Attempt]

ASSUME CountsAssumption ==
  MaxCommit \in Nat /\ MaxAttempt \in Nat \ {0} /\ MaxFaults \in Nat
ASSUME TimeAssumption == CommitTime \in [Commits -> Nat]
ASSUME HiddenAssumption ==
  Gaps \subseteq Nat /\ Hidden \in [Attempts -> SUBSET Gaps]
\* A full pass means there was a row; only status ok can be one, and only
\* status ok says anything about which gaps were attempted.
ASSUME EvalAssumption ==
  /\ Eval \in [Commits -> SUBSET Evaluation]
  /\ \A c \in Commits : \A o \in Eval[c] :
       /\ o.full => o.rows /\ o.status = "ok"
       /\ o.status # "ok" => o.rows /\ o.attempted = {}
       /\ ~o.rows => o.attempted = {}
ASSUME ActorAssumption ==
  /\ Unstorable \subseteq Commits /\ Lost \subseteq Commits
  /\ Cycle \cap Cli = {}
  /\ Forced \in BOOLEAN

VARIABLES
  raw,       \* raw_commits attributed to the assignment
  listed,    \* has config/roster.yaml a repository for the attempt?
  latest,    \* the highest attempt_no with a row in attempts
  attempts,  \* the committed attempts rows (scope, lint: the measured commit)
  results,   \* the committed test_results rows, one per commit and status kind
  traces,    \* the committed evidence traces
  pc, target, todo,  \* each grader: step, attempt, what is left of its list
  cur, out,          \* each grader: the commit at hand and its evaluation
  tx,        \* each grader's open transaction
  graded,    \* each grader's summary["graded"] of its last run
  faults     \* faults so far (a bound, not state of the program)

shared == <<raw, listed, latest, attempts, results, traces>>
local  == <<pc, target, todo, cur, out, graded>>
vars   == <<raw, listed, latest, attempts, results, traces,
            pc, target, todo, cur, out, graded, tx, faults>>

FreshAttempt == [start |-> 0, frozen |-> NoCommit,
                 scope |-> NoCommit, lint |-> NoCommit]
NoTx         == [aborted |-> FALSE, rows |-> {}, traces |-> {},
                 profile |-> FALSE, locked |-> FALSE, att |-> FreshAttempt]
NoEvaluation == [status |-> "ok", attempted |-> {}, rows |-> FALSE, full |-> FALSE]

----------------------------------------------------------------------------
(* Which commits are waiting.                                              *)

Open(a) == attempts[a].frozen = NoCommit

\* _target_attempts: the highest open attempt, else the highest attempt.
IsTarget(a) ==
  \/ Open(a) /\ \A b \in (a + 1)..latest : ~Open(b)
  \/ a = latest /\ \A b \in 1..latest : ~Open(b)

HasRow(R, a, c) == \E r \in R : r.attempt = a /\ r.commit = c

\* Mutant: attempts.started_at is not looked at (the rule before D-090).
WindowWithoutStart(a, c) ==
  ~Open(a) => CommitTime[c] <= CommitTime[attempts[a].frozen]

\* Commits with no row yet, not older than the attempt, and for a frozen
\* attempt not newer than the commit it froze on.
Window(a, c) ==
  /\ CommitTime[c] >= attempts[a].start
  /\ ~Open(a) => CommitTime[c] <= CommitTime[attempts[a].frozen]
Pending(a) == {c \in raw : ~HasRow(results, a, c) /\ Window(a, c)}

Oldest(c, S) == c \in S /\ \A d \in S : c <= d
Newest(c, S) == c \in S /\ \A d \in S : d <= c

----------------------------------------------------------------------------
(* Transactions.                                                           *)

\* Rows of one test file at one commit: the marker row of a tooling failure
\* has a test_name of its own, every other status shares the names.
SameKey(r, q) == /\ r.attempt = q.attempt /\ r.commit = q.commit
                 /\ (r.status = "tooling") = (q.status = "tooling")

\* Mutant: keyed by attempt alone (the key before D-045c).
UpsertByAttempt(R, S) ==
  {r \in R : \A q \in S : r.attempt # q.attempt} \cup S

Upsert(R, S) == {r \in R : \A q \in S : ~SameKey(r, q)} \cup S

AttemptRow(g)  == IF tx[g].locked THEN tx[g].att ELSE attempts[target[g]]
VisibleRows(g)   == results \cup tx[g].rows
VisibleTraces(g) == traces \cup tx[g].traces

\* An uncommitted row of another transaction with the same key makes the INSERT
\* wait; a row written by another transaction makes the UPDATE wait.
Conflict(h, R)    == \E r \in R : \E q \in tx[h].rows : SameKey(r, q)
AttemptFree(g, a) == \A h \in Graders \ {g} : ~(tx[h].locked /\ target[h] = a)
ProfileFree(g)    == \A h \in Graders \ {g} : ~tx[h].profile

\* Mutant: the transaction is never over.
PublishAndStay(g) ==
  /\ results'  = Upsert(results, tx[g].rows)
  /\ traces'   = traces \cup tx[g].traces
  /\ attempts' = attempts
  /\ tx' = [tx EXCEPT ![g].locked = FALSE]

\* COMMIT: everything tx[g] holds becomes visible at once.
Publish(g) ==
  /\ results'  = Upsert(results, tx[g].rows)
  /\ traces'   = traces \cup tx[g].traces
  /\ attempts' = IF tx[g].locked
                 THEN [attempts EXCEPT ![target[g]] = tx[g].att] ELSE attempts
  /\ tx' = [tx EXCEPT ![g] = NoTx]

\* Mutant: only the test rows are undone.
RefusedInPart(g) == [tx EXCEPT ![g].rows = {}, ![g].aborted = g \in Cycle]

\* A transaction the server refuses to go on with: what it wrote is gone and
\* its locks are free.  One that belongs to a single commit is rolled back and
\* over; one that belongs to the whole stage stays aborted until its end.
Refused(g) == [tx EXCEPT ![g] = [NoTx EXCEPT !.aborted = g \in Cycle]]

----------------------------------------------------------------------------
Init ==
  /\ raw = {} /\ listed = TRUE /\ latest = 1
  /\ attempts = [a \in Attempts |-> FreshAttempt]
  /\ results = {} /\ traces = {}
  /\ pc = [g \in Graders |-> "idle"]
  /\ target = [g \in Graders |-> 1]
  /\ todo = [g \in Graders |-> {}]
  /\ cur = [g \in Graders |-> NoCommit]
  /\ out = [g \in Graders |-> NoEvaluation]
  /\ graded = [g \in Graders |-> {}]
  /\ tx = [g \in Graders |-> NoTx]
  /\ faults = 0

\* The collector lands a commit; committer dates need not arrive in order.
Collect(c) ==
  /\ c \notin raw
  /\ raw' = raw \cup {c}
  /\ UNCHANGED <<listed, latest, attempts, results, traces, local, tx, faults>>

\* The teacher takes the entry off the roster, or puts it back.
EditRoster ==
  /\ listed' = ~listed
  /\ UNCHANGED <<raw, latest, attempts, results, traces, local, tx, faults>>

\* scripts/next_attempt.py: the highest attempt is frozen (or --force).  The
\* new row starts now, later than every commit collected so far.
MayStartNext == ~Open(latest) \/ Forced
NextAttempt ==
  /\ latest < MaxAttempt
  /\ MayStartNext
  /\ latest' = latest + 1
  /\ \E now \in {1} \cup {CommitTime[c] + 1 : c \in raw} :
       /\ \A c \in raw : CommitTime[c] < now
       /\ attempts' = [attempts EXCEPT ![latest + 1] =
                         [FreshAttempt EXCEPT !.start = now]]
  /\ UNCHANGED <<raw, listed, results, traces, local, tx, faults>>

\* find_pending, once, before the loop.  A run that changes nothing is omitted:
\* nothing is pending, or the roster has no repository (reported as no_repo).
Start(g) ==
  /\ pc[g] = "idle" /\ listed
  /\ \E a \in 1..latest :
       /\ IsTarget(a) /\ Pending(a) # {}
       /\ target' = [target EXCEPT ![g] = a]
       /\ \/ todo' = [todo EXCEPT ![g] = Pending(a)]
          \/ /\ g \in Cli   \* --latest-only
             /\ \E c \in Pending(a) :
                  Newest(c, Pending(a)) /\ todo' = [todo EXCEPT ![g] = {c}]
  /\ pc' = [pc EXCEPT ![g] = "next"]
  /\ graded' = [graded EXCEPT ![g] = {}]
  /\ UNCHANGED <<shared, cur, out, tx, faults>>

\* Mutant: one bad commit stops the rest.
LeaveAll(S, c) == {}

LeaveOut(S, c) == S \ {c}

\* The commit cannot be checked out or evaluated, or its statement meets a
\* transaction that is already aborted: recorded as failed, loop goes on.
CommitFails(g) ==
  /\ pc[g] = "next"
  /\ \E c \in todo[g] :
       /\ Oldest(c, todo[g])
       /\ IF tx[g].aborted \/ c \in Lost THEN UNCHANGED faults
          ELSE faults < MaxFaults /\ faults' = faults + 1
       /\ todo' = [todo EXCEPT ![g] = LeaveOut(@, c)]
  /\ UNCHANGED <<shared, pc, target, cur, out, graded, tx>>

NewRows(g, c, o) ==
  IF o.rows THEN {[attempt |-> target[g], commit |-> c,
                   status |-> o.status, full |-> o.full]}
  ELSE {}

\* Mutant: a re-graded commit is traced again.
TestTracesAgain(g, c, o) ==
  IF o.status = "ok" /\ o.rows
  THEN {[kind |-> "test_result", attempt |-> target[g], commit |-> c,
         gap |-> p, by |-> g] : p \in Hidden[target[g]]}
  ELSE {}

\* One trace per test that had no row before, of a gap the attempt hid, and
\* only when the commit's status is ok.
TestTraces(g, c, o) ==
  IF /\ o.status = "ok" /\ o.rows
     /\ \A r \in VisibleRows(g) : \A q \in NewRows(g, c, o) : ~SameKey(r, q)
  THEN {[kind |-> "test_result", attempt |-> target[g], commit |-> c,
         gap |-> p, by |-> g] : p \in Hidden[target[g]]}
  ELSE {}

\* evaluate, then the upsert of the test rows and the test_result traces.
WriteResults(g) ==
  /\ pc[g] = "next" /\ ~tx[g].aborted
  /\ \E c \in todo[g] \ (Unstorable \cup Lost) : \E o \in Eval[c] :
       /\ Oldest(c, todo[g])
       /\ \A h \in Graders \ {g} : ~Conflict(h, NewRows(g, c, o))
       /\ cur' = [cur EXCEPT ![g] = c]
       /\ todo' = [todo EXCEPT ![g] = @ \ {c}]
       /\ out' = [out EXCEPT ![g] = o]
       /\ tx' = [tx EXCEPT
            ![g].rows = Upsert(@, NewRows(g, c, o)),
            ![g].traces = @ \cup TestTraces(g, c, o)]
  /\ pc' = [pc EXCEPT ![g] = "observe"]
  /\ UNCHANGED <<shared, target, graded, faults>>

\* Mutant: the look is for an observation of this very commit.
UnobservedHere(g, o) ==
  {p \in o.attempted \cap Hidden[target[g]] :
     \A t \in VisibleTraces(g) :
       ~(/\ t.kind = "mastery_observation" /\ t.attempt = target[g]
         /\ t.gap = p /\ t.commit = cur[g])}

\* The gaps whose observation this commit would be: hidden, attempted, and
\* without an observation this transaction can see.
Unobserved(g, o) ==
  {p \in o.attempted \cap Hidden[target[g]] :
     \A t \in VisibleTraces(g) :
       ~(t.kind = "mastery_observation" /\ t.attempt = target[g] /\ t.gap = p)}

\* record_mastery_observation of the next gap, or all of them are recorded.
Observe(g) ==
  /\ pc[g] = "observe"
  /\ \/ /\ Unobserved(g, out[g]) = {}
        /\ pc' = [pc EXCEPT ![g] = "update"]
        /\ UNCHANGED tx
     \/ \E p \in Unobserved(g, out[g]) :
        /\ \A q \in Unobserved(g, out[g]) : p <= q
        /\ tx' = [tx EXCEPT ![g].traces = @ \cup
             {[kind |-> "mastery_observation", attempt |-> target[g],
               commit |-> cur[g], gap |-> p, by |-> g]}]
        /\ pc' = [pc EXCEPT ![g] = "profile"]
  /\ UNCHANGED <<shared, target, todo, cur, out, graded, faults>>

\* update_mastery for the gap's concept: from here on the transaction holds
\* the student's profile row.
UpdateProfile(g) ==
  /\ pc[g] = "profile"
  /\ ProfileFree(g)
  /\ tx' = [tx EXCEPT ![g].profile = TRUE]
  /\ pc' = [pc EXCEPT ![g] = "observe"]
  /\ UNCHANGED <<shared, target, todo, cur, out, graded, faults>>

\* Mutant: the UPDATE without its WHERE submitted_at IS NULL.
FrozenAgain(row, c, o) == IF o.full THEN [row EXCEPT !.frozen = c] ELSE row

\* UPDATE attempts ... WHERE submitted_at IS NULL, for a full pass only.
Frozen(row, c, o) ==
  IF o.full /\ row.frozen = NoCommit THEN [row EXCEPT !.frozen = c] ELSE row

\* Statuses for which neither measure is taken.
NotMeasured == {"collection_error", "timeout"}
\* Mutant: the measures' UPDATE without its WHERE.
AlwaysMeasure(row, c) == TRUE

\* The measures keep the frozen commit's value once the attempt is frozen.
MayMeasure(row, c) == row.frozen \in {NoCommit, c}

\* _maybe_freeze and the out_of_scope_lines UPDATE; the measure may fail open.
UpdateAttempt(g) ==
  /\ pc[g] = "update"
  /\ \E measured \in BOOLEAN :
       LET row      == Frozen(AttemptRow(g), cur[g], out[g])
           measures == /\ measured /\ out[g].status \notin NotMeasured
                       /\ MayMeasure(row, cur[g])
           new      == IF measures THEN [row EXCEPT !.scope = cur[g]] ELSE row
       IN  IF measures \/ row # AttemptRow(g)
           THEN /\ AttemptFree(g, target[g])
                /\ tx' = [tx EXCEPT ![g].locked = TRUE, ![g].att = new]
           ELSE UNCHANGED tx
  /\ pc' = [pc EXCEPT ![g] = IF g \in Cli THEN "commit" ELSE "lint"]
  /\ UNCHANGED <<shared, target, todo, cur, out, graded, faults>>

\* The owned transaction of one commit ends.
CommitGrade(g) ==
  /\ pc[g] = "commit"
  /\ Publish(g)
  /\ pc' = [pc EXCEPT ![g] = "lint"]
  /\ UNCHANGED <<raw, listed, latest, target, todo, cur, out, graded, faults>>

\* lint_scope.record: in the stage's transaction, or on a connection of its
\* own once the commit's transaction is over.  It may fail open.
RecordLint(g) ==
  /\ pc[g] = "lint"
  /\ \/ UNCHANGED <<attempts, tx>>
     \/ /\ AttemptFree(g, target[g])
        /\ out[g].status \notin NotMeasured
        /\ MayMeasure(AttemptRow(g), cur[g])
        /\ LET new == [AttemptRow(g) EXCEPT !.lint = cur[g]]
           IN  \/ /\ g \in Cli
                  /\ attempts' = [attempts EXCEPT ![target[g]] = new]
                  /\ UNCHANGED tx
               \/ /\ g \in Cycle
                  /\ tx' = [tx EXCEPT ![g].locked = TRUE, ![g].att = new]
                  /\ UNCHANGED attempts
  /\ graded' = [graded EXCEPT ![g] = @ \cup {cur[g]}]
  /\ pc' = [pc EXCEPT ![g] = "next"]
  /\ UNCHANGED <<raw, listed, latest, results, traces, target, todo, cur, out, faults>>

\* What g's next statement waits for: a test row, the profile row or the
\* attempt row that h has written and not yet committed.
WaitsForRows(g, h) ==
  /\ pc[g] = "next" /\ ~tx[g].aborted
  /\ \E c \in todo[g] \ Lost : \E o \in Eval[c] :
       Oldest(c, todo[g]) /\ Conflict(h, NewRows(g, c, o))
WaitsForProfile(g, h) == pc[g] = "profile" /\ tx[h].profile
WaitsForAttempt(g, h) ==
  /\ pc[g] \in {"update", "lint"} /\ tx[h].locked /\ target[h] = target[g]
  /\ \/ out[g].status \notin NotMeasured /\ MayMeasure(AttemptRow(g), cur[g])
     \/ pc[g] = "update" /\ Frozen(AttemptRow(g), cur[g], out[g]) # AttemptRow(g)
Waits(g, h) == WaitsForRows(g, h) \/ WaitsForProfile(g, h) \/ WaitsForAttempt(g, h)

\* Two transactions that wait for each other: PostgreSQL aborts one of them.
Deadlocked(g) == \E h \in Graders \ {g} : Waits(g, h) /\ Waits(h, g)

\* The database refuses the commit's rows, or the wait for them is chosen as
\* the victim of a deadlock.
RowsRefused(g) ==
  /\ pc[g] = "next" /\ ~tx[g].aborted
  /\ \E c \in todo[g] \ Lost :
       /\ Oldest(c, todo[g])
       /\ c \in Unstorable \/ Deadlocked(g)
       /\ todo' = [todo EXCEPT ![g] = @ \ {c}]
  /\ tx' = Refused(g)
  /\ UNCHANGED <<shared, pc, target, cur, out, graded, faults>>

\* The wait for the profile or the attempt row is chosen as the victim (the
\* lint measure's wait is under a savepoint: RecordLint's first case).
UpdateRefused(g) ==
  /\ pc[g] \in {"profile", "update"} /\ Deadlocked(g)
  /\ tx' = Refused(g)
  /\ pc' = [pc EXCEPT ![g] = "next"]
  /\ UNCHANGED <<shared, target, todo, cur, out, graded, faults>>

\* The loop is over.  COMMIT of an aborted transaction rolls back silently.
EndRun(g) ==
  /\ pc[g] = "next" /\ todo[g] = {}
  /\ Publish(g)
  /\ pc' = [pc EXCEPT ![g] = "idle"]
  /\ UNCHANGED <<raw, listed, latest, target, todo, cur, out, graded, faults>>

\* The process dies: the server rolls its transaction back.
Crash(g) ==
  /\ pc[g] # "idle"
  /\ faults < MaxFaults /\ faults' = faults + 1
  /\ tx' = [tx EXCEPT ![g] = NoTx]
  /\ todo' = [todo EXCEPT ![g] = {}]
  /\ graded' = [graded EXCEPT ![g] = {}]
  /\ pc' = [pc EXCEPT ![g] = "idle"]
  /\ UNCHANGED <<shared, target, cur, out>>

Step(g) == \/ CommitFails(g) \/ WriteResults(g) \/ Observe(g)
           \/ UpdateProfile(g) \/ UpdateAttempt(g) \/ CommitGrade(g) \/ RecordLint(g)
           \/ RowsRefused(g) \/ UpdateRefused(g) \/ EndRun(g)

Next == \/ \E c \in Commits : Collect(c)
        \/ EditRoster
        \/ NextAttempt
        \/ \E g \in Graders : Start(g) \/ Step(g) \/ Crash(g)

Spec == Init /\ [][Next]_vars

\* The hourly task runs again and again, and a run that has begun goes on.
\* Nobody has to use the command line.
FairSpec == /\ Spec
            /\ \A g \in Cycle : WF_vars(Start(g))
            /\ \A g \in Graders : WF_vars(Step(g))

----------------------------------------------------------------------------
(* Properties.                                                             *)

\* Types, and the shape of a run: an idle grader holds no transaction, and a
\* grader in the middle of a commit has one at hand.
TypeOK ==
  /\ raw \subseteq Commits
  /\ listed \in BOOLEAN
  /\ latest \in Attempts
  /\ attempts \in [Attempts -> Attempt]
  /\ results \subseteq Row
  /\ traces \subseteq Trace
  /\ pc \in [Graders -> {"idle", "next", "observe", "profile",
                         "update", "commit", "lint"}]
  /\ target \in [Graders -> Attempts]
  /\ todo \in [Graders -> SUBSET Commits]
  /\ cur \in [Graders -> Commits \cup {NoCommit}]
  /\ out \in [Graders -> Evaluation]
  /\ graded \in [Graders -> SUBSET Commits]
  /\ tx \in [Graders -> Tx]
  /\ faults \in 0..MaxFaults
  /\ \A g \in Graders :
       /\ pc[g] = "idle" => tx[g] = NoTx
       /\ pc[g] \notin {"idle", "next"} => cur[g] # NoCommit

\* grade_attempt's docstring: a crash cannot leave mastery evidence logged
\* with no test_results row, or a frozen attempt with no row of what froze it.
\* Nothing uncommitted is ever visible without the rest of its transaction.
EvidenceBacked ==
  /\ \A t \in traces : HasRow(results, t.attempt, t.commit)
  /\ \A a \in Attempts : ~Open(a) => HasRow(results, a, attempts[a].frozen)

\* D-045a: an attempt that has frozen keeps the commit it froze on, whatever
\* is graded later and by whichever process.
FreezeIsFinal ==
  [][\A a \in Attempts : ~Open(a) => attempts'[a].frozen = attempts[a].frozen]_vars

\* D-073, D-088: once an attempt is frozen its two measures may only be set by
\* grading the frozen commit, also when another process froze it meanwhile.
MeasuresAreFinal ==
  [][\A a \in Attempts : ~Open(a) =>
        /\ attempts'[a].scope \in {attempts[a].scope, attempts[a].frozen}
        /\ attempts'[a].lint \in {attempts[a].lint, attempts[a].frozen}]_vars

\* D-079: at most one mastery observation per (attempt, gap).
OneObservationPerGap ==
  \A s, t \in traces :
    /\ s.kind = "mastery_observation" /\ t.kind = "mastery_observation"
    /\ s.attempt = t.attempt /\ s.gap = t.gap
    => s = t

\* Invariant 8: grading a recorded commit again logs no second test_result
\* trace, whichever process grades it.
OneTestTracePerCommit ==
  \A s, t \in traces :
    /\ s.kind = "test_result" /\ t.kind = "test_result"
    /\ s.attempt = t.attempt /\ s.commit = t.commit /\ s.gap = t.gap
    => s = t

\* Without --force, the commits of one attempt are never graded for another
\* one (grade_collected's rule for which attempt a commit belongs to).
OneAttemptPerCommit ==
  \A r, q \in results : r.commit = q.commit => r.attempt = q.attempt

\* D-069 (1d): a commit newer than the one its attempt froze on gets no row.
LaterPushNotGraded ==
  \A r \in results :
    ~Open(r.attempt) => CommitTime[r.commit] <= CommitTime[attempts[r.attempt].frozen]

\* gc.run's summary: a commit reported as graded is recorded once the run is
\* over (rows are never deleted, so it stays recorded).
ReportedIsRecorded ==
  \A g \in Graders : pc[g] = "idle" =>
    \A c \in graded[g] :
      (\A o \in Eval[c] : o.rows) => HasRow(results, target[g], c)

\* Why a commit that waits may be left waiting for ever, of the commit itself:
\* it cannot be checked out, or its evaluation leaves no row, so that it is
\* evaluated again in every run.
Hopeless(c) ==
  \/ c \in Lost
  \/ \E g \in Graders : pc[g] = "observe" /\ cur[g] = c /\ ~out[g].rows

\* ... and of what is around it: no repository on the roster, another attempt
\* is the target, or a refused row aborts the transaction of the stage.
HeldUp(a) ==
  ~listed \/ ~IsTarget(a) \/ \E g \in Cycle : tx[g].aborted

\* "One bad commit must not stop the rest" (grade_collected.py:296): a commit
\* that waits for an attempt is graded in the end, whatever fails before it in
\* the same runs, unless one of the causes above comes back again and again.
PendingIsGraded ==
  \A a \in Attempts : \A c \in Commits :
    <>[](a <= latest /\ c \in Pending(a)) => []<>(Hopeless(c) \/ HeldUp(a))

\* The abstract record: grading implements it.
Ledger == INSTANCE GradeLedger WITH
  rows     <- {<<r.attempt, r.commit>> : r \in results},
  evidence <- traces,
  frozen   <- [a \in Attempts |-> attempts[a].frozen]
KeepsLedger == Ledger!Spec
=============================================================================
