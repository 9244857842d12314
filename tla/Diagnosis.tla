------------------------------ MODULE Diagnosis ------------------------------
(***************************************************************************)
(* What the history of an attempt's graded commits makes the system say of *)
(* it: assessment/diagnose.py, and the text scripts/post_feedback.py       *)
(* builds for one commit.  Commits are numbers; Date gives the order the   *)
(* history uses, which is not the order in which they are graded.          *)
(*                                                                         *)
(* The rows of a commit are one record: the status of its grading and the  *)
(* checks that failed (a load error or a timeout fails them all).  Local   *)
(* is the run of the graders by hand, whose rows have no commit.           *)
(***************************************************************************)
EXTENDS Integers, FiniteSets, FiniteSetsExt

CONSTANTS
  Commits, Date,      \* a function from commits to dates
  Template,           \* the template pushes
  Checks,
  GapOf,              \* the gap a check belongs to, "none" for a public check
  ConceptsOf,         \* the concepts of each gap, {} once gaps has no row of it
  Outcomes,           \* what grading one commit may give
  MaxGradings         \* bound on the transactions that write rows

Local == 0
ASSUME CommitsAssumption == /\ Local \notin Commits /\ Template \subseteq Commits
                            /\ Date \in [Commits -> Int] /\ MaxGradings \in Nat

VARIABLES
  rows,   \* test_results by commit, Ungraded if it has none
  ran,    \* ran_at: the transaction that wrote them last
  now     \* how many transactions there were
histvars == <<rows, ran, now>>

Ungraded == [status |-> "none", failed |-> {}]
Graded == {c \in Commits \cup {Local} : rows[c] # Ungraded}

----------------------------------------------------------------------------
\* Mutant: the whole history, whatever the commit.
WholeHistory(c) == Graded \ Template

\* _as_of: the rows the history may use.  Never a template push; with a
\* commit, only those dated at or before it, and no local run.
AsOf(c) ==
  {d \in Graded \ Template : c = Local \/ (d # Local /\ Date[d] <= Date[c])}

\* The rows with a gap: one for each check of a commit that has been run.
\* A broken tool leaves one row without a gap.
Observed(S) == {x \in S \X Checks : rows[x[1]].status # "tooling"}
FailedRow(x) == x[2] \in rows[x[1]].failed

\* _weakest_concept: the lowest pass rate over all rows, unless it is 100 %.
RowsOf(k, S) == {x \in Observed(S) : GapOf[x[2]] # "none" /\ k \in ConceptsOf[GapOf[x[2]]]}
Passes(k, S) == Cardinality({x \in RowsOf(k, S) : ~FailedRow(x)})
WeakestConcept(S) ==
  LET Seen == {k \in UNION {ConceptsOf[g] : g \in DOMAIN ConceptsOf} : RowsOf(k, S) # {}}
      AtMost(k, l) == Passes(k, S) * Cardinality(RowsOf(l, S))
                        <= Passes(l, S) * Cardinality(RowsOf(k, S))
      Lowest == {k \in Seen : \A l \in Seen : AtMost(k, l)}
      Weak == {k \in Lowest : Passes(k, S) < Cardinality(RowsOf(k, S))}
  IN  IF Weak = {} THEN "none" ELSE Min(Weak)

\* _recurrence_flags: gaps failed under two distinct commits, local runs
\* being one; the status of the row is not asked.
RecurrenceMinCommits == 2
Recurring(S) ==
  {g \in DOMAIN ConceptsOf :
     Cardinality({c \in S : \E t \in Checks : <<c, t>> \in Observed(S)
                              /\ GapOf[t] = g /\ FailedRow(<<c, t>>)})
       >= RecurrenceMinCommits}

\* _failing_tests: of the rows written last; ties are broken either way.
Snapshots(S) ==
  {rows[c].failed : c \in {d \in S : /\ rows[d].status # "tooling"
                                     /\ \A e \in S : rows[e].status # "tooling"
                                                       => ran[e] <= ran[d]}}

\* diagnose: FailingTests is one of the snapshots, none without a row.
Diagnose(c) ==
  [weakest |-> WeakestConcept(AsOf(c)), recurring |-> Recurring(AsOf(c)),
   snapshots |-> Snapshots(AsOf(c))]

\* build_feedback: the facts of the text of one graded commit.  The history
\* is only told when this commit has checks that really failed.
Message(c) ==
  LET r == rows[c]
      told == r.status = "ok" /\ r.failed # {}
  IN  [status |-> r.status,
       total |-> IF r.status = "tooling" THEN 0 ELSE Cardinality(Checks),
       passed |-> IF r.status = "tooling" THEN 0 ELSE Cardinality(Checks \ r.failed),
       failing |-> IF r.status = "ok" THEN r.failed ELSE {},
       recurring |-> IF told THEN Diagnose(c).recurring ELSE {},
       weakest |-> IF told THEN Diagnose(c).weakest ELSE "none"]
HasMessage(c) == c \in Commits \ Template /\ rows[c] # Ungraded

----------------------------------------------------------------------------
HistInit == /\ rows = [c \in Commits \cup {Local} |-> Ungraded]
            /\ ran = [c \in Commits \cup {Local} |-> 0] /\ now = 0

\* _write_test_results: a row that exists is overwritten, but a broken tool
\* leaves its own row and the others as they were.
Upsert(old, new) == IF new.status = "tooling" /\ old # Ungraded THEN old ELSE new
Touches(old, new) == Upsert(old, new) # old \/ new.status # "tooling"

\* In one transaction: the stage grades commits that have no row, a grading
\* by hand one commit again or a working copy.
Grade(S) ==
  /\ now < MaxGradings /\ now' = now + 1
  /\ \E o \in [S -> Outcomes] :
       /\ rows' = [c \in DOMAIN rows |->
                     IF c \in S THEN Upsert(rows[c], o[c]) ELSE rows[c]]
       /\ ran' = [c \in DOMAIN ran |->
                    IF c \in S /\ Touches(rows[c], o[c]) THEN now' ELSE ran[c]]
Stage   == \E S \in SUBSET (Commits \ Graded) : S # {} /\ Grade(S)
ByHand  == \E c \in Commits \cup {Local} : Grade({c})
HistNext == Stage \/ ByHand

----------------------------------------------------------------------------
\* Grading a commit dated later, or a working copy, does not change the text
\* of an earlier commit: it "must not know about commit N+1"
\* (diagnose.py:123-124, D-094), in whatever order the commits are graded.
HistoryStops ==
  [][\A c \in Commits :
       /\ HasMessage(c) /\ HasMessage(c)'
       /\ \A d \in Commits : Date[d] <= Date[c] => rows'[d] = rows[d]
       => Message(c)' = Message(c)]_histvars

\* "a load error / timeout is not a wrong answer, so it is not added to the
\* student's pattern of mistakes" (post_feedback.py:259-260): a gap that a
\* text says keeps failing was answered wrongly under two commits.
PatternOfMistakes ==
  \A c \in Commits : HasMessage(c) =>
    \A g \in Message(c).recurring :
      Cardinality({d \in AsOf(c) : /\ rows[d].status = "ok"
                                   /\ \E t \in rows[d].failed : GapOf[t] = g})
        >= RecurrenceMinCommits
=============================================================================
