------------------------------- MODULE Agents -------------------------------
(***************************************************************************)
(* The agents of the hourly task (scripts/run_cycle.py AgentsHook,         *)
(* agents/pipeline.py, feedback_agent.py, feedback_v2.py, code_agent.py,   *)
(* ab.py, scripts/run_hourly.py) on one attempt of one student.  They run  *)
(* inside the transaction of the grading stage, after each commit it       *)
(* grades, each agent in a savepoint of its own; the feedback phase of the *)
(* same run then posts what is stored.                                     *)
(*                                                                         *)
(* Commits and checks are numbers, in the order of their dates and names.  *)
(* A provider's answer is what its validation tells apart: the checks it   *)
(* cites, whose lines it quotes, the other rules it breaks.                *)
(***************************************************************************)
EXTENDS Integers, FiniteSets, FiniteSetsExt

CONSTANTS
  Commits, Checks,
  Results,   \* functions from commits to [status, failed, stub]
  Template,  \* the template push of the delivered repository
  Unreadable,  \* commits whose gap lines cannot be extracted
  Arm(_),    \* the arm of a commit by the hash of (attempt, commit)
  Settings,  \* the flags and the roster entry a run may start with
  Criteria,  \* what config/judging.yaml asks of the assignment
  Replies,   \* what the provider may answer to the Feedback Agent
  Verdicts,  \* what it may answer to the Code Agent
  RunCap,    \* provider calls per run
  MaxFaults  \* bound on lost checkouts, failing stages, kills, failed posts

ASSUME NumbersAssumption ==
  /\ Commits \subseteq Nat \ {0} /\ IsFiniteSet(Commits)
  /\ Checks \subseteq Nat \ {0} /\ IsFiniteSet(Checks) /\ Checks # {}
  /\ Template \subseteq Commits /\ Unreadable \subseteq Commits
  /\ RunCap \in Nat /\ MaxFaults \in Nat

VARIABLES
  collected, \* commits the collector has stored
  results,   \* what grading each of them gives
  settings,  \* of the run under way
  left,      \* calls the run may still make; not part of any transaction
  pc, todo,  \* the step of the run, the commits it still has to see
  cur, froze, tries,  \* the commit at hand, did it freeze, judge calls so far
  db, tx, save,  \* the committed rows, the stage's view, the savepoint
  posted,    \* each commit's comment: none, text alone, text and paragraph
  faults
vars == <<collected, results, settings, left, pc, todo, cur, froze, tries,
          db, tx, save, posted, faults>>
run  == <<settings, results, collected>>

NoNote == [agent |-> "none"]
Empty  == [graded |-> {}, frozen |-> 0, arm |-> [c \in Commits |-> "none"],
           note |-> [c \in Commits |-> NoNote],
           verdict |-> [c \in Commits |-> "none"]]
IsFirst(c, S) == c \in S /\ \A d \in S : c <= d
Failed(c) == results[c].failed
Failing(c) == results[c].status = "ok" /\ Failed(c) # {}   \* has_failing_check

----------------------------------------------------------------------------
(* The settings of a run.                                                  *)

\* _refusal: no agent without --with-llm, and none without a named provider.
Refused(s) == \/ ~s.llm /\ (s.code \/ s.v2 \/ s.ab)
              \/ s.llm /\ ~s.provider

\* _make_hook: a ledger that cannot be read disables the agents, not the run.
HookReady(s) == s.llm /\ s.ledger

\* ai_opt_out fails closed: a value nobody understands is an opt-out.
OptedOut(s) == s.ai_notes \notin {"absent", "true"}

\* Mutant: the feedback phase asks only whether the agents are on.
EveryNote(s) == s.llm

\* _feedback_phase: may a stored paragraph be posted in this run?
UseLlm(s) == s.llm /\ ~OptedOut(s)

----------------------------------------------------------------------------
(* What the Feedback Agent is told, and what it may say.                   *)

\* failure_counts: pushes up to this one on which the check failed.
Recurrence(c, t) ==
  Max({1, Cardinality({d \in tx.graded : d <= c /\ Failing(d) /\ t \in Failed(d)})})
\* pick_focus: the highest recurrence, then the first name.
Focus(c) == CHOOSE t \in Failed(c) : \A u \in Failed(c) \ {t} :
              \/ Recurrence(c, t) > Recurrence(c, u)
              \/ Recurrence(c, t) = Recurrence(c, u) /\ t < u
HintLevel(c) == Min({Recurrence(c, Focus(c)), 3})

StubOnly(c) == Failed(c) # {} /\ Failed(c) \subseteq results[c].stub

\* gather_input_v2: are there lines of the student to show and to quote?
HasExcerpt(c) == c \notin Unreadable

\* citable_tests: the checks that fail on this commit and on the latest one
\* graded.  A stage grades in one transaction, so all its rows have the same
\* ran_at and any commit d of it may be the latest (Latest).
Citable(c, d) == Failed(c) \cup Failed(d)
Latest == (tx.graded \ db.graded) \ Template

TextRules == {"unknown_concept", "unknown_resource", "hidden_source",
              "correctness_claim", "link_in_text", "mastery_claim"}
QuoteRules == {"quote_not_one_line", "quote_too_long", "code_block",
               "code_span_too_long", "solution_overlap", "repeats_summary"}

\* validate_output.
Rejections(c, d, r) == (r.breaks \cap TextRules)
                    \cup {x \in {"unknown_test"} : ~(r.cites \subseteq Citable(c, d))}

\* validate_output_v2: the v1 rules first, then the quotes.
RejectionsV2(c, d, r) ==
  Rejections(c, d, r) \cup (r.breaks \cap QuoteRules)
  \cup {x \in {"quote_not_in_code"} : "invented" \in r.quotes}
  \cup {x \in {"no_code_quote"} : "code" \notin r.quotes}

\* An answer that passes is rendered; a hidden line found only then (the
\* facts are added by code) ends the run as well.
Accepted(c, d, r) ==
  (IF settings.v2 THEN RejectionsV2(c, d, r) ELSE Rejections(c, d, r)) = {}
Leaks(r) == "leak_in_rendering" \in r.breaks

\* to_trace_payload: the fields the poster and the report tell apart.
Note(c, source) ==
  IF settings.v2
  THEN [agent |-> "feedback_agent_v2", source |-> source, level |-> HintLevel(c)]
  ELSE [agent |-> "feedback_agent", source |-> source, level |-> 0]

\* persist_feedback: one row per (agent, commit, attempt).
Persisted(row, note) == IF row.agent = note.agent THEN row ELSE note

\* find_feedback_addendum: the v2 row only with the flag, else the v1 row.
Addendum(c) == \/ db.note[c].agent = "feedback_agent_v2" /\ settings.v2
               \/ db.note[c].agent = "feedback_agent"

----------------------------------------------------------------------------
(* What the Code Agent is asked, and what becomes of its answer.           *)

\* resolve_criteria; in production correctness is decided by the tests.
Used == IF settings.v2 THEN Criteria \ {"correctness"} ELSE Criteria

\* validate_evidence: a criterion is backed by real quotes, an invented one,
\* or none; evidence for a criterion that was not asked is reported too.
QuotesFor(v, k) == IF k \in DOMAIN v THEN v[k] ELSE {}
EvidenceFailures(v) ==
  {<<"unmatched_quote", k>> : k \in {x \in Used : "invented" \in QuotesFor(v, x)}}
  \cup {<<"missing_evidence", k>> : k \in {x \in Used : "real" \notin QuotesFor(v, x)}}
  \cup {<<"unknown_criterion", k>> : k \in DOMAIN v \ Used}

\* rejects_verdict flags; a rejected verdict is stored all the same.
Stored(v) == IF EvidenceFailures(v) = {} THEN "clean"
             ELSE IF \E f \in EvidenceFailures(v) : f[1] = "unmatched_quote"
                  THEN "flagged" ELSE "rejected"

\* find_attempt_verdict, find_verdict.
Judged(S) == \E c \in S : tx.verdict[c] # "none"

\* Mutant: a commit some checks of which passed is judged as well.
JudgesAny == \/ settings.v2 /\ froze /\ ~Judged(Commits)
             \/ ~settings.v2 /\ ~Judged({cur})

\* The commits _code does not skip before it reads the file.
Judges == /\ ~Failing(cur)
          /\ \/ settings.v2 /\ froze /\ ~Judged(Commits)
             \/ ~settings.v2 /\ ~Judged({cur})

----------------------------------------------------------------------------
Init ==
  /\ collected = {} /\ results \in Results /\ settings \in Settings
  /\ left = 0 /\ pc = "idle" /\ todo = {} /\ cur = 0 /\ froze = FALSE /\ tries = 0
  /\ db = Empty /\ tx = Empty /\ save = Empty
  /\ posted = [c \in Commits |-> "none"] /\ faults = 0

Fault == faults < MaxFaults /\ faults' = faults + 1

\* The collect stage of a run, or of a collect by hand between two runs.
CollectOne(c) ==
  /\ pc = "idle" /\ c \notin collected
  /\ collected' = collected \cup {c}
  /\ UNCHANGED <<results, settings, left, pc, todo, cur, froze, tries,
                 db, tx, save, posted, faults>>

\* find_pending, computed once: not graded, not after the freeze.
Pending == {c \in collected \ db.graded : db.frozen = 0 \/ c <= db.frozen}

\* run_hourly: read the roster, set up the budget, start the grading stage.
Start ==
  /\ pc = "idle"
  /\ \E s \in Settings : ~Refused(s) /\ settings' = s
  /\ left' = RunCap /\ todo' = Pending /\ tx' = db /\ pc' = "next"
  /\ UNCHANGED <<collected, results, cur, froze, tries, db, save, posted, faults>>

\* grade_attempt and _maybe_freeze of the oldest pending commit.
Freezes(c) == results[c].status = "ok" /\ Failed(c) = {} /\ tx.frozen = 0

\* _gate: the agents run on no commit of a student who opted out, on no
\* template push, and only on one graded with status ok.
Gate(c) == /\ HookReady(settings) /\ ~OptedOut(settings)
           /\ c \notin Template /\ results[c].status = "ok"

\* Its rows, and the freeze of the attempt if it passes.
GradedRows(c) ==
  LET rows == [tx EXCEPT !.graded = @ \cup {c}]
  IN  IF Freezes(c) THEN [rows EXCEPT !.frozen = c] ELSE rows

GradeOne ==
  /\ pc = "next"
  /\ \E c \in todo : IsFirst(c, todo) /\ cur' = c
  /\ todo' = todo \ {cur'}
  /\ \/ /\ froze' = Freezes(cur')
        /\ tx' = GradedRows(cur') /\ save' = tx'
        /\ pc' = IF Gate(cur') THEN "feedback" ELSE "next"
        /\ UNCHANGED faults
     \/ /\ Fault   \* no checkout, no evaluation: the next run tries again
        /\ pc' = "next" /\ UNCHANGED <<froze, tx, save>>
  /\ UNCHANGED <<run, left, tries, db, posted>>

\* After an agent, the next one gets a savepoint of its own.
ToCode(rows) == tx' = rows /\ save' = rows /\ pc' = "code"

\* record_arm: the stored arm wins over the rule.
ArmOf(c) == IF tx.arm[c] # "none" THEN tx.arm[c] ELSE Arm(c)

\* _feedback up to its first provider call: the arm, then what needs no call.
Feedback ==
  /\ pc = "feedback"
  /\ LET rows == IF settings.ab /\ Failing(cur)
                 THEN [tx EXCEPT !.arm[cur] = ArmOf(cur)] ELSE tx
     IN  IF \/ ~Failing(cur)                        \* no failing check
            \/ settings.ab /\ ArmOf(cur) = "control"
            \/ settings.v2 /\ ~StubOnly(cur) /\ ~HasExcerpt(cur)
         THEN ToCode(rows)
         ELSE IF settings.v2 /\ StubOnly(cur)
         THEN ToCode([rows EXCEPT !.note[cur] = Persisted(@, Note(cur, "stub_only"))])
         ELSE tx' = rows /\ pc' = "judge" /\ UNCHANGED save
  /\ tries' = 0
  /\ UNCHANGED <<run, left, todo, cur, froze, db, posted, faults>>

\* A valid reply is accepted and stored, or rejected: once more with the
\* reasons in the prompt, then the fallback text.
Answer(d, r) ==
  IF Accepted(cur, d, r)
  THEN /\ ToCode(IF Leaks(r) THEN tx
                 ELSE [tx EXCEPT !.note[cur] = Persisted(@, Note(cur, "llm"))])
       /\ UNCHANGED tries
  ELSE IF tries = 0 THEN tries' = 1 /\ UNCHANGED <<tx, save, pc>>
  ELSE ToCode(tx) /\ UNCHANGED tries

\* One judge call of the Feedback Agent: charge the worst case, call, settle.
\* A cache hit costs nothing, a corrective retry of the gateway two calls; a
\* reply that stays invalid or a provider error ends in the fallback text.
Judge ==
  /\ pc = "judge"
  /\ \/ left < 2 /\ ToCode(tx) /\ UNCHANGED <<left, tries>>
     \/ /\ left >= 2 /\ left' = left - 2 /\ ToCode(tx) /\ UNCHANGED tries
     \/ /\ left >= 2
        /\ \E n \in 0..2 : left' = left - n
        /\ \E d \in Latest, r \in Replies : Answer(d, r)
  /\ UNCHANGED <<run, todo, cur, froze, db, posted, faults>>

\* The first version runs under the pipeline, which catches what the agent
\* raises: no paragraph, and the arm stays.
PipelineCatches ==
  /\ pc = "judge" /\ ~settings.v2 /\ ToCode(tx)
  /\ UNCHANGED <<run, left, todo, cur, froze, tries, db, posted, faults>>

\* _code and grade: skipped, or one judge call and the verdict's row.
Code ==
  /\ pc = "code" /\ pc' = "next"
  /\ \/ /\ ~settings.code \/ ~Judges \/ ~HasExcerpt(cur) \/ left < 2
        /\ UNCHANGED <<left, tx>>
     \/ /\ settings.code /\ Judges /\ HasExcerpt(cur)
        /\ Used # {} /\ left >= 2
        /\ \/ left' = left - 2 /\ UNCHANGED tx    \* not valid twice
           \/ /\ \E n \in 0..2 : left' = left - n
              /\ \E v \in Verdicts : tx' = [tx EXCEPT !.verdict[cur] = Stored(v)]
  /\ UNCHANGED <<run, todo, cur, froze, tries, db, save, posted, faults>>

\* Mutant: an agent's exception reaches the grading and undoes the commit.
CommitUndone == [tx EXCEPT !.graded = @ \ {cur},
                           !.frozen = IF froze THEN 0 ELSE @]

\* ROLLBACK TO SAVEPOINT.
RolledBack == save

\* An agent raises: a configuration file that does not parse, a statement
\* that is refused, or (for the Code Agent) a provider that fails.  Its
\* savepoint is undone, the error reported, what it spent stays spent.
AgentRaises ==
  /\ \/ pc \in {"feedback", "judge"} /\ pc' = "code" /\ UNCHANGED left
     \/ /\ pc = "code" /\ settings.code /\ Judges /\ pc' = "next"
        /\ left' \in {left} \cup {l \in {left - 2} : l >= 0}
  /\ tx' = RolledBack /\ save' = RolledBack
  /\ UNCHANGED <<run, todo, cur, froze, tries, db, posted, faults>>

\* What is left of a stage that fails.
Undone == db

\* The stage commits, or fails and leaves nothing but the calls it spent;
\* either way the feedback phase follows.
Unposted(rows) == {c \in rows.graded : posted[c] = "none" /\ c \notin Template}
StageEnds ==
  /\ pc = "next" /\ todo = {}
  /\ db' = tx /\ todo' = Unposted(tx) /\ pc' = "post"
  /\ UNCHANGED <<run, left, cur, froze, tries, tx, save, posted, faults>>
StageFails ==
  /\ pc \in {"next", "feedback", "judge", "code"} /\ Fault
  /\ db' = Undone /\ tx' = db' /\ todo' = Unposted(db') /\ pc' = "post"
  /\ UNCHANGED <<run, left, cur, froze, tries, save, posted>>

\* _plan and post_issue_feedback: the paragraph under the text, if any.
PostOne ==
  /\ pc = "post"
  /\ \E c \in todo :
       /\ IsFirst(c, todo) /\ todo' = todo \ {c}
       /\ \/ /\ posted' = [posted EXCEPT ![c] =
                  IF UseLlm(settings) /\ Addendum(c) THEN "paragraph" ELSE "text"]
             /\ UNCHANGED faults
          \/ Fault /\ UNCHANGED posted
  /\ UNCHANGED <<run, left, pc, cur, froze, tries, db, tx, save>>

RunEnds ==
  /\ pc = "post" /\ todo = {} /\ pc' = "idle"
  /\ UNCHANGED <<run, left, todo, cur, froze, tries, db, tx, save, posted, faults>>

\* The process is killed: the transaction it was in is gone.
Kill ==
  /\ pc # "idle" /\ Fault /\ pc' = "idle"
  /\ db' = Undone /\ tx' = db' /\ todo' = {}
  /\ UNCHANGED <<run, left, cur, froze, tries, save, posted>>

Hourly == \/ Start \/ GradeOne \/ Feedback \/ Judge \/ PipelineCatches
          \/ Code \/ AgentRaises \/ StageEnds \/ PostOne \/ RunEnds
Next == (\E c \in Commits : CollectOne(c)) \/ Hourly \/ StageFails \/ Kill

\* The task fires every hour and a run that has started goes on.
Fairness == WF_vars(Hourly)
Spec == Init /\ [][Next]_vars /\ Fairness

----------------------------------------------------------------------------
\* A commit is treated once: the control arm, a paragraph of the Feedback
\* Agent, or a verdict of the Code Agent, through failed stages, savepoints
\* and any change of the flags between runs ("So one commit gets one agent",
\* run_cycle.py:227).
OneTreatment ==
  \A c \in Commits :
    Cardinality({x \in {"control", "note", "verdict"} :
                   \/ x = "control" /\ db.arm[c] = "control"
                   \/ x = "note" /\ db.note[c] # NoNote
                   \/ x = "verdict" /\ db.verdict[c] # "none"}) <= 1

\* In a run that finds the student opted out no call is made and no
\* paragraph is posted, whatever earlier runs stored (run_hourly.py:178).
OptOutHonoured ==
  [][OptedOut(settings) =>
       /\ left' >= left
       /\ \A c \in Commits : posted'[c] = "paragraph" => posted[c] = "paragraph"]_vars

\* Every collected commit is graded, or lies after the freeze, though an
\* agent may raise on every commit of every run.
GradedAnyway ==
  \A c \in Commits : c \in collected
    ~> c \in db.graded \/ (db.frozen # 0 /\ c > db.frozen)

\* "The record is written whether or not the agent later produces a paragraph
\* (a rejected or failed answer is still an `llm` commit)" (ab.py:22-24):
\* with --ab-llm a graded commit with a failing check has an arm.
ArmRecorded ==
  \A c \in db.graded \ Template : Failing(c) => db.arm[c] # "none"
=============================================================================
