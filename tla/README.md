# A verification development for vdel_project

This directory holds TLA+ models of the programming-lab system in `src/`, the
TLC runs that check them on small instances and the proofs that TLAPS checks for
every instance. Line numbers are those of `src/`; `PROJECT.json` maps every
definition to the lines it stands for.

- [1. The system](#1-the-system)
- [2. Modules](#2-modules)
- [3. Runs](#3-runs-what-tlc-checks)
- [4. Theorems](#4-theorems-what-tlaps-proves)
- [5. Where the code and its own text disagree](#5-where-the-code-and-its-own-text-disagree)
- [6. What is not modelled](#6-what-is-not-modelled)
- [7. Plan](#7-plan)

## 1. The system

Students push commits to one private GitHub repository per attempt at an
assignment. An hourly task collects the commits, grades them with pytest on the
gaps the student was given, updates what the system believes of the student,
lets an LLM agent comment under a hard budget of calls, and posts the result as
comments of one issue per attempt. A teacher starts the next attempt, with other
gaps, by hand. One PostgreSQL database, one file (the usage ledger), one roster
file and GitHub hold the state; processes share nothing else.

```
 GitHub commits --> collector --> raw tables --> grading --> test_results, attempts
                                                    |  \--> memory (traces, profile)
                                                    v             |
        feedback issue <-- feedback phase <-- agents (LLM, budget)|
             ^                                                    v
             |   next_attempt / publish_repo / deliver <-- select_variant
             +------ delivery comment                      (reads mastery)
```

### Components

| Component | State it keeps | Operations | What makes it hard | What makes it correct |
|---|---|---|---|---|
| Grading (`grade_collected`, `test_runner`, `lint_scope`) | `test_results`, `attempts` (frozen commit, two measures), evidence traces | pick the pending commits, evaluate, upsert rows, log evidence, update mastery, freeze | two processes with different transaction shapes, locks taken by commit, crashes between writes | evidence never without rows; a freeze is final; evidence counted once; every commit is dealt with |
| Memory (`memory.py`) | `traces` (append only), `learner_profile` (a cache of the log) | `log_trace`, `record_mastery_observation`, `update_mastery`, `open_weakness`, `link_intervention`, `apply_recurrence_rule`, rebuilds | check-then-insert and read-then-merge at READ COMMITTED; log order is not commit order | the profile says nothing the log does not; calls that do not overlap equal the replay; a rebuild heals |
| Feedback by issue (`post_feedback`, `run_hourly`) | `feedback_issues`, `feedback_posts`; GitHub issues and comments | plan, find or create the issue, find the marker, comment, record | two stores and no common transaction; a call that succeeds and reports a failure; the manual command takes no lock | one issue per attempt, one comment per commit, no record without its comment, all is posted in the end |
| Delivery (`publish_repo`, `next_attempt`, `deliver_next_attempt`, `roster_apply`) | `attempts` rows and variants, `roster.yaml`, repositories, invitations, comments | record the attempt, render, create, push, invite, comment, `--resume` | seven steps in four stores, no lock, resumable at every step; mastery moves between render and push | nothing announced before it exists; the repository holds the recorded variant; the next attempt waits for the freeze; a delivery ends |
| Call budget (`budget.py`, `run_cycle`) | `CallBudget` of a run, ledger file of the day, `HardCap` counter | charge, refuse, settle, call, cache hit, retry, end of run | a call is reserved at worst-case cost before its cost is known; failed calls counted only at the end; kills; midnight | the caps hold for the calls really made; the ledger forgets none; nothing stays reserved |
| LLM gateway (`system/llm.py`) | response cache, chain of models | `judge`, `generate` | fallbacks, a corrective retry, a 30 s timeout whose thread goes on | a reply is valid or an error; calls are accounted for |
| Agents (`src/agents`) | the arm of the experiment, one note and one verdict per commit, as traces | gate, Feedback Agent (two versions), Code Agent, savepoints, posting the paragraph | flags and roster change between runs; an agent raises inside the grading transaction; a failed stage is graded again | one treatment per commit; nothing for a student who opted out; an agent never undoes a grade |
| Hourly cycle (`run_hourly`, `run_cycle`) | two advisory locks | collect, grade, features, profile for each student, then feedback | a stage fails and the next one runs; commands by hand take no lock | what one stage leaves behind is picked up later |
| Collector (`collect_github`) | `raw_commits`, `raw_workflow_runs` with `log_attempts` | list since the newest stored commit, list runs, download logs up to three times, upsert | committer dates are the student's; two collectors at once; runs seen under way | no commit lost but one overtaken; a log is settled; a class is final |
| Features (`compute_features`) | `learner_features` by watermark, `features_ref` in the profile | find the watermark, compute, upsert, point the profile at it | the watermark is read after the data; a rebuild writes an old pointer back; formula versions | what was pushed is counted by the row the profile points at |
| Gap markup (`gap_parser`, `gap_generator`, `scope_check`, `lint_scope`, `agents/scope`) | none | parse, release, choose a variant; attribute changed lines, findings and excerpts to the student | markers decided by position; two numberings and two kinds of ranges; touching gaps; a diff by text over lines that repeat | exactly the hidden bodies go; what the diff finds in a gap is judged, each line once, and work in the gaps is found |
| Diagnosis (`diagnose`, `build_feedback`) | none | weakest concept, recurring gaps, latest failures, the facts of a text | history by commit date, rows by grading time; regrading | a text knows nothing of later commits |
| Database access (`db.py`, SQL) | connections | `connect`: commit, or rollback and close | READ COMMITTED, row locks, aborted transactions | modelled in every module that uses it |
| Curriculum loading, template synchronisation, maintenance scripts, reports | reference tables, files | sequential scripts | little | covered by unit tests |

How they interact: grading *calls* the memory inside its own transaction; the
cycle *calls* grading, features, memory and agents in stages, each with one
transaction; feedback and delivery *share tables* with grading
(`test_results`, `attempts.submitted_at`, `feedback_issues`) and share GitHub
with each other (both create the issue of an attempt); `select_variant` *reads*
the mastery that the memory writes; every agent *reserves* calls in the budget
before it calls the gateway. The only mutual exclusion between processes is two
PostgreSQL advisory locks, held by the hourly task and by the cycle. No command
run by hand other than the cycle itself takes either, which is why most
modules run a scheduled process beside a manual one.

## 2. Modules

### Grading, GradeLedger, GradingProofs, MCGrading

`Grading` follows one (student, assignment). A grader is `pc[g]`, the list it
computed at the start (`todo`), the commit at hand and its transaction `tx[g]`:
what it wrote and did not commit is visible to itself only and holds its locks.
Graders in `Cycle` have one transaction for the whole stage, as `run_cycle.py`
gives one connection to it; graders in `Cli` commit after each commit graded.

| Action | Code |
|---|---|
| `Start` | `find_pending`: the target attempt and the list of commits, computed once; nothing to do without a repository on the roster (`no_repo`) |
| `CommitFails` | a checkout or an evaluation that raises, each time for a commit the repository does not hold (`Lost`); the loop goes on |
| `WriteResults` | `evaluate` (any outcome of `Eval`), the upsert of `test_results`, the `test_result` traces of new rows |
| `Observe`, `UpdateProfile` | `record_mastery_observation` for each gap attempted and not yet observed; `update_mastery`, which locks the profile row |
| `UpdateAttempt`, `CommitGrade`, `RecordLint` | the freeze and the scope measure, the commit (of the commit, or of the stage), the lint measure |
| `RowsRefused`, `UpdateRefused` | PostgreSQL refuses a statement: a foreign key, or the victim of a deadlock; a stage's transaction is then aborted |
| `EndRun`, `Crash` | the end of the list; the process dies and its transaction with it |
| `Collect`, `NextAttempt`, `EditRoster` | what is outside: the collector's row, the teacher's next attempt and the entry of the roster |

`GradeLedger` is the abstract record: rows and evidence only grow, a piece of
evidence or a freeze stands only with the rows of its commit, a freeze is for
ever. `KeepsLedger` states that `Grading` implements it, with the rows seen as
(attempt, commit) pairs.

### Memory, MemoryProofs, MCMemory

The log of one student and the cached profile. A transaction is a sequence of
calls, each call a sequence of *statements*, because at READ COMMITTED two
statements of one transaction may see different commits: the replay of the log
in `update_mastery` and the merge of its result are two steps. BKT is computed
over the evidence in a fixed order, so a mastery value is represented by the set
of evidence folded into it.

### Feedback, FeedbackProofs, MCFeedback

One student, the hourly task (under its lock) and the manual command (under
none). Each poster takes the plan it made at the start and for each commit finds
or creates the issue, searches the marker, comments and records (`Plan`, `Find`,
`CreateIssue`, `RecordIssue`, `LookForMarker`, `CreateComment`, `RecordPost`,
`CommitPost`). `GitHubError` fails a call, `Crash` kills the process between any
two steps; an error answered to a request that GitHub carried out is the
request's step and then the failure of the next one. `Grade` and `Age` are the
grader and the passing of the lookback. `overlapped` is a history variable: were
two posters ever at work together?

### Delivery, DeliveryProofs, MCDelivery

One assignment. A deliverer decides (`Deliver`, `Resume`), records the attempt,
looks at the repository, renders, creates, pushes, invites, finds or creates the
feedback issue, comments and prints the command that changes the roster; a
publisher runs `publish_repo` alone, which writes the roster itself. The
environment grades commits, moves the mastery (so that the variant chosen today
is not the one of yesterday), opens the feedback issue, edits the roster and
runs `next_attempt` by hand. `Stop` ends a process at any step; `Resume` is
`--resume`. `publish_repo` may be run for any attempt of `ByHand` at any time, one
without a row, one published or one frozen included, as the script allows
(each such run once there is a row counts as a fault, which bounds them). History
variables: `raced` (two processes were at work at once, or the hourly task opened the
issue while one was about to), `made` (attempts whose row a `publish_repo` made) and
`adrift` (attempts frozen before their repository had any commits, or rendered again
between its push and their freeze).

### Budget, BudgetProofs, MCBudget

The calls of one run at a time (the cycle takes advisory lock 640 201 071 before
it loads the ledger, so the read-modify-write of the ledger file does not race
with another cycle). `Charge` and `Refuse` are `CallBudget.charge`, `Settle` its
counterpart, from what the reply's records say was called; `CallAnswers`,
`CacheHit`, `CallFails`, `CallerError`, `Blocked` and `ChainFails` are `judge`
walking the chain of models; `End` adds the failed calls; `Crash` and
`Midnight` are the two ways a run is cut off from its ledger. `real` counts, as
a history, the calls that providers really received.

### Collector, Features, Cycle, CycleProofs, MCCycle

`Collector` is one repository: what GitHub holds (`committed`, `started`, `ci`)
and what is stored. `collect_repo` is one transaction with API calls between its
statements: `ListCommits` (the watermark and the commits since), `ListRuns` (the
stored runs read once, the listed ones, the downloads, each of which may fail) and
`Store` (the three batched statements and the commit); `CollectFails` is
`collect_all`'s handler. `Push` takes any committer date up to the moment of the
push, because the date is the student's clock.

`Features` says, by formula version, which commits, runs and results each variable
is computed from (`CommitScope`, `Activity`, `Mastery`, `Effort`, `Errors`, ...;
equal inputs give equal numbers), when a row is due (`NeedsFeatures`), the upsert
at the watermark (`WriteFeatures`, which reads the watermark again) and the
pointer (`LatestRow`, `Stale`, `RebuildReads`, `RebuildWrites`).

`Cycle` composes them: `Start`, `StageCollect`, `StageGrade`, `StageFeatures`,
`StageProfile`, each stage a transaction of its own, `StageFails` for one that
raises, and `Command`/`CommandEnds` for the collector, the features and the rebuild
run by hand beside it. Grading is its effect only (which commits have rows and what
the attempt holds); the detail is `Grading`. The history variable `late` remembers
the commits whose storing brought no newer watermark, or lowered it, or fell
between the reading and the writing of a row: for them no row is ever due.

### Agents, AgentsProofs, MCAgents

One attempt and the task that grades it with agents. `db` is what is committed,
`tx` the stage's view, `save` the savepoint of the agent at work.

| Action | Code |
|---|---|
| `Start` | the flags and the roster entry of this run, `_refusal`, the budget, `find_pending` |
| `GradeOne` | the rows and the freeze of the oldest pending commit; `AgentsHook._gate` |
| `Feedback` | up to the first call: the arm (`ab.py`), the stub note, no excerpt |
| `Judge` | one judge call of the Feedback Agent: validation, one retry with the reasons, the note or the fallback |
| `Code` | `AgentsHook._code` and `grade`: skipped, or a verdict with its evidence checked |
| `AgentRaises`, `PipelineCatches` | ROLLBACK TO SAVEPOINT in the hook; version 1 is caught inside |
| `StageEnds`, `StageFails`, `Kill` | the stage's transaction commits, is undone, or dies |
| `PostOne`, `RunEnds` | the feedback phase: the text, with the stored paragraph if it may be posted |

A provider's answer is what validation tells apart (`Rejections`, `RejectionsV2`,
`EvidenceFailures`): which checks it cites, whose lines it quotes, which other
rules it breaks.

### Gaps, Diagnosis, Rules, RulesProofs, MCRules

`Gaps` translates the parser of the gap markup (`ReadLine`, a fold over the lines),
the released file with its ranges (`Release`, `ReleaseRanges`), the choice of a
variant (`SelectVariant`), and the way back: the diff's blocks (`Opcodes`), which
of them are in a gap (`InGap`), the report, the lint measure and the judged
excerpt. A line has a text, its indentation and its words; texts repeat, as blank
lines and the stubs' `raise` do. `Stops` is `difflib` on texts: in each stretch that
is left it takes the longest block the two files share, of equal ones the first in
the released file and then in the student's, until nothing is shared (`Round`, a round
for all the stretches together). Beside its text a line of the student's
file keeps which released line it is (`from`), which no operator of the code reads.
`Deliver`, `Insert`, `Change`, `Delete` and `Fill` (a stub replaced by a solution)
produce the files.

The reference definitions say what a master means and where a line stands without
the parser: `WellFormed`, `Gone` and `Position` (which lines are not released, and
where the others stand), and `InAGap`, of a line between the lines that are left
around it. `Theirs` and `Kept` say it by who wrote the line and not by the diff.
`MasterAssumption` is what the library says of a sequence and of the five kinds of
lines, and `SolutionsAssumption` the same of a solution; they hold of every file.

`Diagnosis` translates `diagnose` and the facts of `build_feedback`; `Stage` and
`ByHand` grade commits in any order and again. `Rules` puts the two in one
specification (a behaviour follows one of them).

## 3. Runs: what TLC checks

| Run | Expected | Question | Bounds |
|---|---|---|---|
| `grading_cycle` | pass | One stage, alone, over what can keep it from grading: is evidence counted once per (attempt, gap), and is every pending commit graded, but for the causes that can keep it waiting? | 4 commits: one lost, one that may leave no row, one refused, one more; 2 attempts, 2 gaps, an older attempt left open (`--force`), the roster edited at any time, 1 fault |
| `grading_pair` | pass | The stage and the command line together: type, evidence backed, one trace and one attempt per commit, freezes and measures final, refinement of `GradeLedger` | 2 commits, 2 attempts, 2 gaps, 2 faults, one grader of each kind |
| `memory_pair` | pass | Every writing call, two processes, rollback at each statement | 1 concept, 1 gap, 3 traces, 2 transactions; processes symmetric |
| `memory_race` | violation | Is an updated mastery that of a rebuild? | 2 gaps of one concept, 4 traces |
| `feedback_runs` | pass | No duplicates without overlap, no record without its comment, everything posted or too old | 3 commits, 2 attempts, one of the commits unpostable, 1 fault |
| `delivery_runs` | pass | All promises of a delivery, interrupted and resumed, beside manual commands; does it end? | 2 attempts, 2 variants, 1 fault or repeated publication |
| `delivery_republish` | violation | Does a graded attempt keep its variant? | 1 attempt, 2 variants |
| `budget_runs` | pass | The caps, the ledger and the cost of a commit; nothing stays reserved | run cap 5, day cap 6, chain of 3 models of 2 providers, 2 commits a run, 1 kill a day |
| `cycle_runs` | pass | The cycle beside a command run by hand: is a class final, is what is pushed stored and counted, is every failed run settled, does the pointer come back? | 2 commits (a student's whose run fails, a synchronisation), any committer dates, 1 fault: a failed stage, a command, a release or `--skip-network` |
| `cycle_conclusion` | violation | Does a run stored while under way get its conclusion? | 2 commits of an attempt 2, both runs slow, 1 fault |
| `agents_runs` | pass | Runs whose flags and roster entry change: one treatment, opt-out honoured, graded anyway | 3 commits (the first the template push), 9 histories of results, 6 settings, 2 checks, run cap 3, 2 faults |
| `rules_runs` | pass | Is the release exact, are exactly the lines judged that the diff finds in a gap, are they all of what was written there, do texts know nothing of later commits? | every master of up to 5 lines over 9 kinds of lines, 12 of up to 12 lines, 3 students, 2 edits (3 texts to write, 3 solutions); 3 commits, 5 outcomes, 3 gradings in any order |

Why these bounds are enough for the cases to happen: two attempts are the least
that let a commit be attributed to the wrong one, and three commits the least
that put one before, on and after a freeze; a fourth in `grading_cycle` is one
that can be graded beside each kind that cannot; two gaps are the least for an
attempt partly done and for two updates of one concept; the third trace of
`memory_pair` is the least with which a weakness is opened, cited and linked.
A run cap of 5 is used up by two commits of two `judge()` calls of two calls each
with one left over, which no worst-case reservation fits; the day cap of 6 is
reached by a second run. Two models of one provider and one of another let a
failure go to the next model and to the next provider. One fault in
`feedback_runs` and `delivery_runs` is a bound on the size of the state space;
`delivery_runs` was also clean with two, but for `Delivered`, whose check then takes
too long for a run. In `cycle_runs` one fault stands for each way two processes can meet, since a command run by hand is one; a second
commit is the least that can overtake another, tie with it, or leave its run
behind. `Slow` names the commits whose run may be listed under way: the one whose
run fails, in `cycle_runs`. In `agents_runs` a run cap of 3 is one worst-case
reservation and a rest that fits no other, and the three commits let a failed
stage grade two again under other flags. The longer masters of `rules_runs` have
touching gaps, gaps far apart, a comment and an instruction inside a body, a
duplicate id and a nested gap; blank lines before, between and after gaps, a line of
the text that raises as a stub does, and code that is the same around gaps; a student
may write a blank line, a raise or a new line. Two edits are the least that make one block of the diff from two places, or a stub filled and a line
added at its edge. The runs allow a stop at the end of the
work (`CHECK_DEADLOCK FALSE`) where commits, attempts and transactions are bounded,
so that a behaviour ends when they are used up; `cycle_runs`, `cycle_conclusion`
and `agents_runs` are checked for deadlock, because the task fires for ever.

`TypeOK` of Feedback, Delivery and Cycle is proved and in no run, where the properties
say more; `CollectorTypeOK` and `FeaturesTypeOK` are parts of Cycle's. TLC finds each true
when `INVARIANT TypeOK` is added to the configuration.

### Properties

Each property names the behaviour it is about in its own comment. The ones worth
an argument:

- `OneObservationPerGap`, `OneTestTracePerCommit`, `OneAttemptPerCommit`
  (Grading): the evidence of a student is counted once, for the attempt the
  commit was pushed to. The first holds with one grader and fails with two
  (section 5); the other two hold with two, the second because the loser of the upsert sees
  that no row was new.
- `FreezeIsFinal`, `MeasuresAreFinal`: an attempt frozen on a commit stays so,
  and its two measures are of that commit, although a second process may be
  about to write another commit's.
- `EvidenceBacked`, `KeepsLedger`: what another transaction can see never has
  evidence or a freeze without the rows they came from, after any crash.
- `BeliefLogged` (Memory): each part of the profile is justified by traces that
  are committed with it or before it; `SerialKeeps`: a transaction that overlaps
  no other and follows its evidence by an update keeps the live profile equal to
  the replay; `RebuildHeals`: a full rebuild that runs alone makes it so whatever
  it was.
- `RecordedIsPosted`, `OneCommentPerCommit`, `OneIssuePerAttempt` (Feedback): the
  database lags behind GitHub and never leads it; a retry recognises what the
  dead process did. The two counting properties are stated for behaviours in
  which posters did not overlap.
- `NextAfterFreeze`, `WhatIsSaidIsThere`, `OneDeliveryComment`,
  `PublishedAsRecorded` (Delivery): no new attempt before the old one is frozen;
  the student is told of a repository only once it is pushed and the student
  invited, and the roster never names an empty one; a resume does not repeat the
  comment in a repository; the repository holds the variant of the row. The first
  leaves out an attempt whose row a `publish_repo` run by hand made, which asks
  nothing; the third excludes runs that met. The last one has three exceptions, each
  of which the model shows to fail: two runs that met, an attempt frozen by a commit
  of the old repository before its own was pushed, and a `publish_repo` run again
  between the push and the freeze, whose render takes the row with it before the
  push is refused (`delivery_republish`). A publication repeated after the freeze
  changes nothing, wherever it stops, and that is part of the property. The
  comment is counted by repository because it is posted in the one the roster names:
  with three attempts, a roster changed by hand between a delivery and its `--resume`
  sends the second comment of one delivery to another repository, where there is
  none yet (the proof's attempt at the stronger statement found this; a run of two
  attempts cannot).
- `RunCapHolds`, `LedgerWithinCap`, `DayCapHolds`, `LedgerCovers` (Budget): the
  calls really made in a day stay within the daily cap, up to one run cap for
  each run that was killed or came over midnight. That exception is in the code
  (failed calls reach the ledger only when the run ends), and the property says
  exactly how large it is.
- `ClassKept`, `FailureSettles` (Cycle): with two collectors a retry may be written
  by the one that read the row earlier; the class read from a log stands, and
  whatever fails the log is read or given up with a reason.
- `CommitCounted` (Cycle): from the push to the row of the features the profile
  points at, across four transactions, failed stages, a release of a new formula
  version and a rebuild that writes an old pointer back. Its two exceptions are
  the code's: a commit dated before an attributed one is listed no more, and a
  commit that comes without a newer watermark (its run was stored before it, or a
  row was being computed) is in no row until the next activity.
- `OneTreatment`, `OptOutHonoured`, `GradedAnyway` (Agents): over runs whose flags
  differ and stages that are graded again, a commit is in the control arm, or has a
  paragraph, or has a verdict; a paragraph stored before the opt-out is not posted
  after it; a commit is graded though an agent raises each time.
- `ReleaseIsExact` (Gaps): the parser, the release and its ranges against what the
  markup means, the render's failure on a body of one empty line included.
- `JudgedAreTheirs` (Gaps): whatever lines repeat, the lines that `difflib` matches are
  released lines in their order, nothing alike is left between two of them but what has
  changed places, and judged is exactly what stands in a gap between them; the report,
  the lint measure and a judge's excerpt agree with that, line for line.
- `FilledGapsAreJudged` (Gaps): the same against who wrote each line. A diff by
  text cannot say who that was, so it is stated of a student who works in the gaps
  (`WorksInGaps`): the lines written are new texts and stand in gaps, a stub is left
  or loses its raise, no two neighbouring lines are gone with nothing in their place,
  each instruction is said once in the file and only stubs raise. Each condition is
  needed: TLC finds a student judged by less, by another's line or out of scope when it
  is dropped (the one of neighbouring lines where two gaps touch, with a third edit). A line that repeats a
  released one is the case of `EditsAtTheEdgeAreInside` (section 5).
- `HistoryStops` (Diagnosis): grading a later commit, or a working copy, changes
  nothing of an earlier commit's text.

### Liveness and fairness

| Property | Fairness assumed | Why the code justifies it |
|---|---|---|
| `PendingIsGraded` (one grader) | WF of `Start` of the stage, WF of `Step` of each grader | the task is started every hour and works through its list; a test run has a time limit, and a wait for a lock ends with the transaction that holds it, or in a deadlock that PostgreSQL breaks |
| `PostedOrOld` | WF of `Start` of the hourly task, WF of `Step` of each poster | the same; the manual command is never obliged to start |
| `Delivered` | WF of `Step` of each process, WF of `Resume` | the teacher who is told a delivery is unfinished runs `--resume` (the script prints that command) |
| `NothingStaysReserved` | WF of `Step` of the run | each provider call is given up after 30 s, and the loops are bounded |
| `CommitCounted`, `FailureSettles`, `RefHeals` | WF of the hourly cycle's steps | the task fires every hour and its calls have time limits; the command run by hand is never obliged to go on |
| `GradedAnyway` | WF of the task's steps | the same; an agent's call ends in an answer, a refusal or an exception |

Faults, crashes, the student and the teacher are never fair: they may stop at
any time. Faults are finite because of the bound, so each liveness property reads
"once faults cease". `PendingIsGraded` says that a commit which waits for ever was kept
waiting for ever by a cause that comes back: the commit itself (it cannot be
checked out, or its evaluation leaves no row and is made again every hour), no
repository on the roster, another attempt that is the target, or a refused row that
aborts the stage's transaction. Each of them happens in the run; that another commit
failed first is none of them. `PostedOrOld` allows a commit to go unposted because the
48-hour lookback passed, `Delivered` an attempt because work on it was graded or the
roster was changed first, or because `publish_repo` made a later one by hand: these are
the ways the code itself gives up.

## 4. Theorems: what TLAPS proves

All theorems hold for every value of the constants that satisfies the named
assumptions of its module (`EvalAssumption`, `TimeAssumption`, `BudgetAssumption`,
`FeedbackAssumption`, `DeliveryAssumption`, `ConceptAssumption`, ...): any number of
commits, attempts, gaps, concepts, checks, graders, posters and runs of both kinds,
faults, models, caps and kills. Two theorems have a hypothesis of their own, each
the case in which the code keeps the property and a run or a configuration of
section 5 shows what happens without it: `OneAttemptOfACommit` (no `--force`) and
`OneObservationOfAGap` (one process grades).

| Theorem | Statement |
|---|---|
| `GradingProofs!TypeCorrect` | `Spec => []TypeOK` |
| `GradingProofs!FreezeFinal` | `Spec => FreezeIsFinal` |
| `GradingProofs!MeasuresFinal` | `Spec => MeasuresAreFinal` |
| `GradingProofs!EvidenceCorrect` | `Spec => []EvidenceBacked` |
| `GradingProofs!LedgerKept` | `Spec => KeepsLedger`: Grading implements GradeLedger |
| `GradingProofs!TestsTracedOnce` | `Spec => []OneTestTracePerCommit` |
| `GradingProofs!OneAttemptOfACommit` | `~Forced`: `Spec => []OneAttemptPerCommit` |
| `GradingProofs!OneObservationOfAGrader` | `Spec => [](\A g \in Graders : ObservedOnce(traces, g))` |
| `GradingProofs!OneObservationOfAGap` | one grader: `Spec => []OneObservationPerGap` |
| `MemoryProofs!TypesHold` | `Spec => []TypeOK` |
| `MemoryProofs!BeliefsAreLogged` | `Spec => []BeliefLogged` |
| `MemoryProofs!ARebuildHeals` | `Spec => RebuildHeals` |
| `MemoryProofs!SerialTransactionsKeep` | `Spec => SerialKeeps` |
| `FeedbackProofs!TypesHold` | `Spec => []TypeOK` |
| `FeedbackProofs!RowsHaveTheirComment` | `Spec => []RecordedIsPosted` |
| `FeedbackProofs!OneCommentOfACommit` | `Spec => []OneCommentPerCommit` |
| `FeedbackProofs!OneIssueOfAnAttempt` | `Spec => []OneIssuePerAttempt` |
| `DeliveryProofs!TypesHold` | `Spec => []TypeOK` |
| `DeliveryProofs!FrozenBeforeTheNext` | `Spec => []NextAfterFreeze` |
| `DeliveryProofs!SaidWhenThere` | `Spec => []WhatIsSaidIsThere` |
| `DeliveryProofs!OneCommentOfADelivery` | `Spec => []OneDeliveryComment` |
| `DeliveryProofs!PublishedIsRecorded` | `Spec => []PublishedAsRecorded` |
| `BudgetProofs!TypeCorrect` | `Spec => []TypeOK` |
| `BudgetProofs!RunCapKept` | `Spec => []RunCapHolds` |
| `BudgetProofs!LedgerKept` | `Spec => []LedgerWithinCap` |
| `BudgetProofs!DayCapKept` | `Spec => []DayCapHolds` |
| `BudgetProofs!RealCallsCovered` | `Spec => []LedgerCovers` |
| `BudgetProofs!CommitCostKept` | `Spec => []CommitCost` |
| `AgentsProofs!TreatmentOnce` | `Spec => []OneTreatment` |
| `AgentsProofs!OptOutKept` | `Spec => OptOutHonoured` |
| `RulesProofs!ReleasedAsWritten` | `Spec => []ReleaseIsExact` |
| `RulesProofs!JudgedAsWritten` | `Spec => []JudgedAreTheirs` |
| `RulesProofs!TextStops` | `Spec => HistoryStops` |
| `CycleProofs!ClassIsFinal` | `Spec => ClassKept` |
| `CycleProofs!TypesHold` | `Spec => []TypeOK` of Cycle |

**Freezes.** `FreezeIsFinal` is an action property and not inductive by itself: a
grader decides what to write from the row it read, and commits it later. The
strengthening `LockInv` says that two graders never hold the row lock of one
attempt at once, that a grader past its commit holds nothing, that attempts not
yet recorded are fresh, and, the heart of it, that the row a grader holds back
in its transaction agrees with what is already frozen in the committed one. It
is proved over the actions in turn; `UpdateFinal`, `LintFinal` and
`PublishFinal` are the three that write.

**Evidence.** `EvidenceBacked` speaks of committed state, but what a commit
publishes was written steps earlier. `BackedInv` adds that each grader's
uncommitted evidence, and its uncommitted freeze, are backed by the rows that
grader can see (committed, or its own). `OthersBacked` shows that what others
commit only adds to this. The refinement `LedgerKept` then needs that no step
removes a row (`RecordGrows`), and the two invariants primed.

**Counted once.** What makes two graders safe for test traces is the primary key of
`test_results`, so `TraceInv` ties each trace to a row: a `test_result` trace has a
row of its commit where it is (committed, or in the same transaction), the
uncommitted rows of two graders never share a key (the insert would have waited),
and therefore no trace is doubled when both commit. Mastery observations have no
such key: `ObservedInv` holds for the traces of one grader, which sees what is
committed and what it wrote itself, and says nothing of two. `BelongsInv` is the
argument for attempts: every commit with a row, or on a grader's list, is of the
attempt it is graded for (`Belongs`: not older than its start, older than the start of
every later one). A later attempt starts after every commit collected so far, so
a list computed long ago stays right; and a target is the last attempt, because the
earlier ones are frozen (`StartsInv`; with `--force` they need not be).

**Memory.** `Sound` says what the committed profile and the one a transaction is
about to write have in common: each part has its traces (`BeliefLogged` for the
committed one, `Between` and `ActorSound` for what was read in one statement and is
written in another), and no trace used by anyone has been given up. `Serial` is what
it takes for a transaction that overlaps none (`alone`) to leave the profile
equal to the replay: its traces come last in the log (`Ordered`), what is still to
be appended or updated is known (`FollowedUp`, `ToAppend`, `Rested`), what it replayed is
the log it still sees (`ReadSound`), and what it has written is the replay but for that
rest (`WrittenSound`).

**Feedback.** `Sound` needs no assumption on overlaps: a poster past its search has an
issue of the right attempt, a comment is on an issue of its commit's attempt, so what
is recorded is there. `Single` is stated for behaviours without an overlap: one poster
works (`Alone`), and what its search did not find is still not there when it
creates (`Unfound`); a crash between the creation and the record only forgets what
the next search finds again.

**Delivery.** `Sound` holds whoever meets: a run past its push works for a repository with
commits, one past its invitation for an invited student, and a row is recorded only
after asking again. `Quiet` (no two runs met) adds that the issue a run works with is
the one in the row and that what its search did not find is not there; `Rendered` that
a tree not yet pushed is the one of the row, because the row is rendered again after it
is read, that an attempt that is frozen and not adrift has its commits already, so
that no later render can part the two, and that nothing leaves `adrift` (`AdriftKept`).

**Budget.** The caps are not inductive because a call is counted in three
places at different times. `Inv` adds to the type six named parts: `Idle`
(outside a run everything is settled), `Reserving` (two calls are reserved
exactly while `judge()` is at work or about to be settled), `Accounts` (what is
used is what was counted and what is reserved, within the run's cap), `Capped`
and `Covered`, which carry the argument, and `Costs` for the commit at hand.
`Capped` says that *ledger + ceiling <= daily cap + what the run has counted*, so
the ceiling computed at the start still fits while the run moves its own calls
into the ledger; `Covered` says that *real + counted <= ledger + slack + the
ceiling's count*: a real call is in the ledger, or still in the run's count, or
was lost to a kill or to midnight and is then in `slack`.

**Treatments.** What is committed at the end of a stage was decided commit by
commit in its transaction, and a savepoint or the failure of the stage may bring
older rows back. `Inv` therefore says the same of `db`, `tx` and `save`
(`TreatedOnce`: a control arm has no note, an arm or a note is of a failing commit,
a verdict of one that does not fail, and all of them of a graded one), and adds that the
commits still to do have nothing yet (`Ahead`) and where the commit at hand stands
(`AtHand`). The opt-out needs that the steps of the agents are only reached in a
run that may use them (`OptedIn`) and that calls are only spent there (`Spent`).

**Texts.** `TextStops` goes through one lemma: what `Message(c)` reads are the rows of
`AsOf(c)`, and those are the rows of commits dated no later.

**Released as written.** `ReleaseIsExact` compares two folds over the lines (the parser, the
renderer) with a declarative meaning, so the argument is an induction over the
lines of an arbitrary master. The library's induction theorems take an operator and
cannot be used; `HasLeast` (a set of naturals that is not empty has a least element,
from the well-foundedness of `<`) and `Climbs` replace them, and `FoldStep` shows once,
for every fold, that the community modules' `FoldLeft` over `1..k` goes one
element at a time. The parser's invariant is `ParserStands`: after k lines, if these may
begin a well-formed master (`Prefix`), the parser holds exactly the closed gaps, the
marked lines and the open gap with what it has had of instruction and body
(`Stands`); otherwise it has an error, and keeps it. `AtGap`, `AtEnd` and `AtLine` are its
step, one for each kind of line. The renderer's part says what a line becomes
(`LineBecomes`), how long the file is after k lines (`LengthBy`, `OutGrows`), that what
is written stays (`OutKeeps`), and that `Position` is that length (`PositionIs`).

**Judged as written.** The argument is about any two sequences of texts, so nothing is
assumed of the edits: the invariant `FileStands` only says that the student's file is a
sequence and that the hidden gaps are gaps of the master. `Stops` is one more fold, a
round at a time, and `Aligned` its invariant: the pairs found so far hold equal texts and
climb in both files together. `RoundAligned` keeps it, from `LongestIs` (a stretch with a
line in common has a longest first common block, of which `BestIs` shows that there is
one) and `Neighbours` (what is found in one stretch does not meet what is found in
another). That the rounds are enough is `RoundShrinks`: each round takes a line from every
stretch that still has something in common, so after as many rounds as lines none has;
`StopsStand` puts the two together. From there on only the stops matter:
a line lies between two of them exactly when it is not matched (`StopOf`, `BetweenIs`),
the stops around it are the lines left around it (`NeighboursAre`), and the
half-open test for "in a gap" is the one said of those neighbours (`InGapIs`, by cases on
whether the block only inserts). What is judged, counted and out of scope follows
(`JudgedIs`, `CountedIs`); that an unmatched line which reads like an unmatched released
one has changed places with a match is `OthersCross`. For the excerpt, `SortedIs` shows that
the ranks of the ranges are a bijection, and `JoinIs` that the ranges merged so far are in
order, apart, and around all that were taken.

**Classes.** `ClassKept` needs that a row that is to be inserted has a conclusion
and that one to be updated is stored (`BatchStands`), and that a class comes with a
conclusion (`RealIsStored`); then the insert keeps a row that exists, and the update
one that has a class from a log, however old the batch is.

**Pointer and tries.** `TypeOK` of Cycle is more than types: no log is tried a fourth
time, and the profile never points at a row that is not there. The first needs that
a failed run has a log worth reading (`Pushes`) and that a row which is new, or has
no class, was not tried yet (`Counts`), for then each retry starts below the limit. The second needs
what processes carry from one step to the next (`DraftStands`): a payload of a known
version, or a pointer read from a row that is filled; rows are never emptied (`WriteSound`), so a
rebuild that writes back an old pointer writes one that still stands. The newest row and
the first and last commit of a set are a `CHOOSE`; `LatestIs` and `EndsOf` show that there is one,
by the greatest element of a finite set of numbers (for commits, of their ranks by date).

Model-checked only: the liveness properties
(`PendingIsGraded`, `PostedOrOld`, `Delivered`, `NothingStaysReserved`, `CommitCounted`,
`FailureSettles`, `RefHeals`, `GradedAnyway`), because the prover has no rule here for
fairness and ENABLED; and `FilledGapsAreJudged`, which needs an argument about which
common block is the longest in each of its cases. Every other property of a passing run
is a theorem. That `difflib` is what `Stops` says is not proved: it is how the library is
modelled, from its documented rule (the longest block, then the first in the released file,
then in the student's, with `autojunk` off as `scope_check.py:133` and `:174` have it).

## 5. Where the code and its own text disagree

Three have a run whose counterexample shows it; the quotations are in
`PROJECT.json`.

1. `memory_race`: `update_mastery` replays before it waits for the profile row
   and writes after, so that two overlapping updates lose one observation until
   the concept's next evidence; its docstring says the result is identical to a
   rebuild.
2. `delivery_republish`: `publish_repo` renders, and commits the variant chosen
   today, before it finds that the repository already has commits and refuses;
   the attempt's row and its repository then disagree on the gaps.
3. `cycle_conclusion`: a workflow run listed while under way is stored without a
   conclusion and never gets one; `docs/explanation.md:147-149` says a run's
   conclusion is updated.

Others are stated as properties with a configuration of their own, to be run by
hand (`tlc -config X.cfg M`); TLC finds each violated.

| Property | Configuration | The code | What its text says |
|---|---|---|---|
| `Grading!LaterPushNotGraded` | `GradingBatch.cfg`, MCGrading | the pending list is computed once, so a commit after the passing one in the same batch is graded | `DECISIONS.md` D-069: pushes after the frozen commit are not |
| `Grading!ReportedIsRecorded` | `GradingReport.cfg`, MCGrading | one transaction per stage: a refused row undoes commits already reported | `grade_collected.py:245-246`: per-commit isolation; `:296`: one bad commit must not stop the rest |
| `Grading!OneObservationPerGap` | `GradingRace.cfg`, MCGrading | look, then insert, with no lock: two graders write it twice | one observation per (attempt, gap) |
| `Feedback!OneCommentEver` | `FeedbackOverlap.cfg`, MCFeedback | the manual command takes no lock beside the hourly task | one comment per commit |
| `Cycle!RerunChangesNothing` | `CycleRerun.cfg`, MCCycle | grading does not move the watermark: a row computed again at the same watermark has other results | `compute_features.py:245-246`: identical values |
| `Agents!ArmRecorded` | `AgentsArm.cfg`, MCAgents | the arm is written in the savepoint of the Feedback Agent and lost when it raises | `ab.py:22-24`: written whether or not a paragraph follows |
| `Diagnosis!PatternOfMistakes` | `RulesPattern.cfg`, MCRules | a load error before a failing push counts as a failure of every gap in the recurrence | `post_feedback.py:259-260`: not added to the pattern of mistakes |
| `Gaps!EditsAtTheEdgeAreInside` | `RulesEdge.cfg`, MCRules | a blank line inserted right after a gap's `raise`, where a blank line follows the gap: `difflib` reports the second of the two, past the gap, as out of scope | `scope_check.py:83-85`: an insert exactly at a gap's boundary is not a separate out-of-scope act |
| `Gaps!StubsAreIndented` | `RulesIndent.cfg`, MCRules | the stub is indented as the body's first line, blank or not (`gap_parser.py:350`; a body of one empty line is an `IndexError` there) | `gap_parser.py:308-310`: a dedented `raise` "is the one failure this function exists to prevent" |

Met while modelling, without a property: a commit stored after its run, or while a
row is being computed, is missing from that watermark's row until the next activity
(the exception of `CommitCounted`), though `compute_features.py:246-247` says the
watermark "ties the feature row to the exact data that produced it"; the
commits one stage grades have the same `ran_at` (`now()` is the transaction's
start), so `_failing_tests` picks among them by no rule (`Latest`, `Snapshots`); the
docstring of `system/llm.py` says that an unknown transport failure is not retried
within a provider, while the code goes on to the provider's next model
(`llm.py:759`; the model allows both).

`docs/KNOWN_ISSUES.md` already records others (an open older attempt that shadows a
newer one, future commit dates, force-pushes, deleted repositories, unattributed
commits, a ledger without a lock). They are treated as hazards or as assumptions.

## 6. What is not modelled

- *What pytest computes, what a student writes, what an LLM answers*: choices
  over the outcomes the rest of the code tells apart.
- *Wording, prompts, the leak guard's search*: text. The marker of a comment, the
  title of an issue, the kind of a line of a master, its indentation and whether two lines
  are the same are kept, because control depends on them; how a validator recognises a broken rule in a
  text is not.
- *BKT's numbers and the formulas of the features*: arithmetic over floats and
  timestamps. The order of the fold and the inputs of each formula are modelled.
- *Several students in one cycle*: each has transactions of its own and shares
  nothing with another but the budget, which `Budget` has.
- *GitHub's paging*: searches see everything (the code reads ten pages).
- *`--force`, `--dry-run`, the commit-comment channel* (its loop is not wired).
- *The split of the ledger by model, `model_day_caps`* (no caller), *and a timed
  out call still queued in the thread pool*.
- *Reading scripts, one-off migrations, curriculum loading, template
  synchronisation*: sequential, on a quiet database or by hand.

## 7. Plan

Done: Grading, Memory, Feedback, Delivery, Budget, Cycle with Collector and
Features, Agents, Rules with Gaps and Diagnosis; proofs of all of these but the
features stage. Next:

1. **Proofs**: what of `CommitCounted` is safety (a due row is written at the
   watermark), in `CycleProofs`. And `FilledGapsAreJudged`, in `RulesProofs`.
2. **Delivery**: `--force`, and the template synchronisation of published files as
   one more process.
3. **Gateway**: `generate()` and the call given up after 30 s whose thread is still
   queued, as an extension of Budget.

Runs are kept few: each module gets one passing run with its faults and
concurrency in it.
