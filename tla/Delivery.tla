------------------------------ MODULE Delivery ------------------------------
(***************************************************************************)
(* The attempts of one assignment and their repositories: attempt 1 is     *)
(* published by scripts/publish_repo.py, attempt N+1 is handed over by     *)
(* scripts/deliver_next_attempt.py (next_attempt, publish, invite, comment *)
(* in the feedback issue of attempt N), and a half-finished delivery is    *)
(* finished with --resume.  No lock is taken and no transaction spans the  *)
(* steps.  Beside them the hourly cycle grades and comments.               *)
(***************************************************************************)
EXTENDS Integers, Sequences, FiniteSets

CONSTANTS
  MaxAttempt,  \* attempts are 1..MaxAttempt (a bound)
  Variants,    \* the gap bundles select_variant may choose
  NoVariant,
  Deliverers,  \* runs of deliver_next_attempt --apply
  Publishers,  \* runs of publish_repo by hand
  ByHand,      \* the attempts publish_repo is run for by hand
  MaxFaults    \* bound on failed and killed runs, and on runs of publish_repo
               \* once the assignment has a row

Attempts == 1..MaxAttempt
Procs    == Deliverers \cup Publishers
None     == 0

ASSUME DeliveryAssumption ==
  /\ MaxAttempt \in Nat \ {0} /\ MaxFaults \in Nat
  /\ ByHand \subseteq Attempts
  /\ NoVariant \notin Variants /\ Deliverers \cap Publishers = {}

VARIABLES
  last,      \* the highest attempt_no with a row in attempts (0: no row)
  frozen,    \* attempts with submitted_at
  touched,   \* attempts with test_results
  variant,   \* attempts.variant_id of the attempts that have a row
  chosen,    \* what select_variant would choose now, from the mastery
  issueRow,  \* feedback_issues: the issue number of each attempt, or None
  roster,    \* the attempt whose repository roster.yaml points at, or None
  repo,      \* GitHub: "missing", "empty" or "has_commits", by attempt
  pushed,    \* GitHub: the variant whose render each repository was given
  invited,   \* GitHub: repositories the student was invited to
  issues,    \* GitHub: the attempt in the title of each issue, by repository
  comments,  \* GitHub: delivery comments [repo, issue, next], next in the marker
  pc, next, old, tree, number,  \* each process: step, attempt, old repository,
                                \* rendered variant, issue number
  printed,   \* the attempt of the last roster command printed
  made,      \* attempts whose row publish_repo made by hand (history)
  adrift,    \* attempts frozen before their repository was pushed, or rendered
             \* again after it and before their freeze (history)
  raced,     \* have two runs, or a run's issue and the task's, met? (history)
  faults

db      == <<last, frozen, touched, variant, chosen>>
github  == <<repo, pushed, invited>>
talk    == <<issueRow, issues, comments>>
local   == <<next, old, tree, number>>
past    == <<made, adrift>>
vars    == <<db, github, talk, roster, pc, local, printed, past, raced, faults>>

\* The attempts that have a row; publish_repo may leave out a number.
WithRow == {n \in Attempts : variant[n] # NoVariant}

Init ==
  /\ last = 0 /\ frozen = {} /\ touched = {}
  /\ variant = [n \in Attempts |-> NoVariant] /\ chosen \in Variants
  /\ issueRow = [n \in Attempts |-> None] /\ roster = None
  /\ repo = [n \in Attempts |-> "missing"]
  /\ pushed = [n \in Attempts |-> NoVariant] /\ invited = {}
  /\ issues = [n \in Attempts |-> <<>>] /\ comments = <<>>
  /\ pc = [p \in Procs |-> "idle"]
  /\ next = [p \in Procs |-> None] /\ old = [p \in Procs |-> None]
  /\ tree = [p \in Procs |-> NoVariant] /\ number = [p \in Procs |-> None]
  /\ printed = None
  /\ made = {} /\ adrift = {}
  /\ raced = FALSE /\ faults = 0

Goto(p, step) == pc' = [pc EXCEPT ![p] = step]
Busy == \E p \in Procs : pc[p] # "idle"

----------------------------------------------------------------------------
(* What goes on beside a delivery.                                         *)

\* The cycle grades a new commit of the repository in the roster, for the
\* highest open attempt, whichever repository it was pushed to.
GradeCommit(n, full) ==
  /\ roster # None
  /\ n \in WithRow \ frozen /\ \A k \in WithRow : k > n => k \in frozen
  /\ touched' = touched \cup {n}
  /\ frozen' = IF full THEN frozen \cup {n} ELSE frozen
  /\ adrift' = IF full /\ repo[n] # "has_commits" THEN adrift \cup {n} ELSE adrift
  /\ UNCHANGED <<last, variant, chosen, github, talk, roster, pc, local, printed, made, raced, faults>>

\* Graded work, of this assignment or of another, moves the mastery.
MasteryMoves ==
  /\ \E v \in Variants \ {chosen} : chosen' = v
  /\ UNCHANGED <<last, frozen, touched, variant, github, talk, roster, pc, local,
                 printed, past, raced, faults>>

\* The hourly task opens the feedback issue of a graded attempt.
OpenIssue(n) ==
  /\ n \in touched /\ issueRow[n] = None
  /\ issues' = [issues EXCEPT ![roster] = Append(@, n)]
  /\ issueRow' = [issueRow EXCEPT ![n] = Len(issues[roster]) + 1]
  /\ raced' = (raced \/ \E p \in Procs : pc[p] \in {"create issue", "record"})
  /\ UNCHANGED <<db, github, comments, roster, pc, local, printed, past, faults>>

\* roster_apply, with the command a delivery printed.
RosterApply ==
  /\ printed # None /\ printed # roster
  /\ roster' = printed
  /\ UNCHANGED <<db, github, talk, pc, local, printed, past, raced, faults>>

----------------------------------------------------------------------------
(* deliver_next_attempt: the plan, and step [1].                           *)

\* Mutant: --resume is for an attempt without a repository.
ResumeUnpublished ==
  last >= 2 /\ last \notin frozen \cup touched /\ repo[last] = "missing"

\* plan_delivery --resume: the latest attempt is undelivered and untouched, and
\* there is one before it.
CanResume == last >= 2 /\ last \notin frozen \cup touched /\ last - 1 \in WithRow

\* Mutant: next_attempt trusts the plan.
TrustThePlan == last < MaxAttempt

\* next_attempt.decide: the latest attempt is frozen.
CanStart == last \in frozen /\ last < MaxAttempt

StartWith(p, n) ==
  /\ pc[p] = "idle" /\ roster # None
  /\ next' = [next EXCEPT ![p] = n]
  /\ old' = [old EXCEPT ![p] = roster]
  /\ raced' = (raced \/ Busy)
  /\ UNCHANGED <<db, github, talk, roster, tree, number, printed, past, faults>>

Deliver(p) == CanStart  /\ StartWith(p, last + 1) /\ Goto(p, "attempt")
Resume(p)  == CanResume /\ StartWith(p, last)     /\ Goto(p, "state")

\* [1] next_attempt decides again, renders and records.
RecordAttempt(p) ==
  /\ pc[p] = "attempt" /\ CanStart
  /\ last' = last + 1
  /\ variant' = [variant EXCEPT ![last + 1] = chosen]
  /\ Goto(p, "state")
  /\ UNCHANGED <<frozen, touched, chosen, github, talk, roster, local,
                 printed, past, raced, faults>>

\* next_attempt by hand: the same, and nothing is published.
NextAttempt ==
  /\ CanStart
  /\ last' = last + 1
  /\ variant' = [variant EXCEPT ![last + 1] = chosen]
  /\ UNCHANGED <<frozen, touched, chosen, github, talk, roster, pc, local,
                 printed, past, raced, faults>>

\* A run that ends, done or refused, forgets what it had.
End(p) ==
  /\ Goto(p, "idle")
  /\ next' = [next EXCEPT ![p] = None] /\ old' = [old EXCEPT ![p] = None]
  /\ tree' = [tree EXCEPT ![p] = NoVariant]
  /\ number' = [number EXCEPT ![p] = None]

RefuseAttempt(p) ==
  /\ pc[p] = "attempt" /\ last \notin frozen
  /\ End(p)
  /\ UNCHANGED <<db, github, talk, roster, printed, past, raced, faults>>

----------------------------------------------------------------------------
(* Step [2]: publish_repo, also on its own.                                *)

\* publish_repo by hand, for any attempt, whether it has a row or a repository.
Publish(p, n) ==
  /\ pc[p] = "idle"
  /\ n \in ByHand
  /\ IF WithRow = {} THEN UNCHANGED faults
     ELSE faults < MaxFaults /\ faults' = faults + 1
  /\ next' = [next EXCEPT ![p] = n]
  /\ Goto(p, "render")
  /\ raced' = (raced \/ Busy)
  /\ UNCHANGED <<db, github, talk, roster, old, tree, number, printed, past>>

\* Mutant: a repository that exists is taken for published.
Exists(n) == repo[n] # "missing"

\* repo_state: a repository with commits is not published again.
AlreadyPublished(n) == repo[n] = "has_commits"

CheckRepo(p) ==
  /\ pc[p] = "state"
  /\ Goto(p, IF AlreadyPublished(next[p]) THEN "invite" ELSE "render")
  /\ UNCHANGED <<db, github, talk, roster, local, printed, past, raced, faults>>

\* Mutant: the upsert without its WHERE submitted_at IS NULL.
RecordAnyway(n) == variant' = [variant EXCEPT ![n] = chosen]

\* _upsert_attempt: a row that is not frozen takes the variant of this render.
RecordVariant(n) ==
  variant' = [variant EXCEPT ![n] = IF n \in frozen THEN @ ELSE chosen]

\* The render commits its rows; the tree it wrote is of the variant chosen now.
Render(p) ==
  /\ pc[p] = "render"
  /\ RecordVariant(next[p])
  /\ last' = IF last < next[p] THEN next[p] ELSE last
  /\ tree' = [tree EXCEPT ![p] = chosen]
  /\ made' = IF p \in Publishers /\ next[p] \notin WithRow
             THEN made \cup {next[p]} ELSE made
  /\ adrift' = IF repo[next[p]] = "has_commits" /\ next[p] \notin frozen
               THEN adrift \cup {next[p]} ELSE adrift
  /\ Goto(p, "check")
  /\ UNCHANGED <<frozen, touched, chosen, github, talk, roster, next, old, number,
                 printed, raced, faults>>

\* A history is never pushed over.
RefuseHistory(p) ==
  /\ pc[p] = "check" /\ repo[next[p]] = "has_commits"
  /\ End(p)
  /\ UNCHANGED <<db, github, talk, roster, printed, past, raced, faults>>

CheckTarget(p) ==
  /\ pc[p] = "check" /\ repo[next[p]] # "has_commits"
  /\ Goto(p, IF repo[next[p]] = "missing" THEN "create" ELSE "push")
  /\ UNCHANGED <<db, github, talk, roster, local, printed, past, raced, faults>>

\* Creating what exists, and pushing over commits, GitHub refuses.
CreateRepo(p) ==
  /\ pc[p] = "create"
  /\ \/ /\ repo[next[p]] = "missing"
        /\ repo' = [repo EXCEPT ![next[p]] = "empty"]
        /\ Goto(p, "push") /\ UNCHANGED local
     \/ repo[next[p]] # "missing" /\ End(p) /\ UNCHANGED repo
  /\ UNCHANGED <<db, pushed, invited, talk, roster, printed, past, raced, faults>>

Push(p) ==
  /\ pc[p] = "push"
  /\ \/ /\ repo[next[p]] = "empty"
        /\ repo' = [repo EXCEPT ![next[p]] = "has_commits"]
        /\ pushed' = [pushed EXCEPT ![next[p]] = tree[p]]
        /\ Goto(p, IF p \in Publishers THEN "roster" ELSE "invite")
        /\ UNCHANGED local
     \/ repo[next[p]] # "empty" /\ End(p) /\ UNCHANGED <<repo, pushed>>
  /\ UNCHANGED <<db, invited, talk, roster, printed, past, raced, faults>>

\* The assignment's row, added or changed, names the new repository; the file
\* is replaced as a whole.
UpdateRoster(n) == roster' = n

\* publish_repo alone edits the roster, after the verified push.
WriteRoster(p) ==
  /\ pc[p] = "roster"
  /\ UpdateRoster(next[p])
  /\ End(p)
  /\ UNCHANGED <<db, github, talk, printed, past, raced, faults>>

----------------------------------------------------------------------------
(* Steps [3] to [5].                                                       *)

\* Already invited is as good as invited.
Collaborate(n) == invited' = invited \cup {n}

Invite(p) ==
  /\ pc[p] = "invite"
  /\ Collaborate(next[p])
  /\ Goto(p, "issue")
  /\ UNCHANGED <<db, repo, pushed, talk, roster, local, printed, past, raced, faults>>

\* The attempt just completed, whose issue carries the comment.
Done(p) == next[p] - 1

\* ensure_issue: the row, then GitHub, in the repository of the old roster.
KnowIssue(p) ==
  /\ pc[p] = "issue" /\ issueRow[Done(p)] # None
  /\ number' = [number EXCEPT ![p] = issueRow[Done(p)]]
  /\ Goto(p, "look")
  /\ UNCHANGED <<db, github, talk, roster, next, old, tree, printed, past, raced, faults>>

Titled(p) == {k \in 1..Len(issues[old[p]]) : issues[old[p]][k] = Done(p)}
FindIssue(p) ==
  /\ pc[p] = "issue" /\ issueRow[Done(p)] = None
  /\ \/ \E k \in Titled(p) : /\ \A j \in Titled(p) : j <= k
                             /\ number' = [number EXCEPT ![p] = k]
                             /\ Goto(p, "record")
     \/ Titled(p) = {} /\ Goto(p, "create issue") /\ UNCHANGED number
  /\ UNCHANGED <<db, github, talk, roster, next, old, tree, printed, past, raced, faults>>

CreateIssue(p) ==
  /\ pc[p] = "create issue"
  /\ issues' = [issues EXCEPT ![old[p]] = Append(@, Done(p))]
  /\ number' = [number EXCEPT ![p] = Len(issues[old[p]]) + 1]
  /\ Goto(p, "record")
  /\ UNCHANGED <<db, github, issueRow, comments, roster, next, old, tree,
                 printed, past, raced, faults>>

\* ON CONFLICT DO NOTHING, committed at once.
RecordIssue(p) ==
  /\ pc[p] = "record"
  /\ issueRow' = [issueRow EXCEPT ![Done(p)] = IF @ = None THEN number[p] ELSE @]
  /\ Goto(p, "look")
  /\ UNCHANGED <<db, github, issues, comments, roster, local, printed, past, raced, faults>>

\* Mutant: the marker is not looked for.
NotSaid(p) == FALSE

\* The comment with the delivery's marker is there.
Said(p) == \E i \in 1..Len(comments) :
             comments[i] = [repo |-> old[p], issue |-> number[p], next |-> next[p]]

\* The number is of another repository: 404.
IssueMissing(p) == number[p] \notin 1..Len(issues[old[p]])

Look(p) ==
  /\ pc[p] = "look"
  /\ \/ IssueMissing(p) /\ End(p)
     \/ /\ ~IssueMissing(p)
        /\ Goto(p, IF Said(p) THEN "print" ELSE "comment")
        /\ UNCHANGED local
  /\ UNCHANGED <<db, github, talk, roster, printed, past, raced, faults>>

Comment(p) ==
  /\ pc[p] = "comment"
  /\ comments' = Append(comments, [repo |-> old[p], issue |-> number[p], next |-> next[p]])
  /\ Goto(p, "print")
  /\ UNCHANGED <<db, github, issueRow, issues, roster, local, printed, past, raced, faults>>

PrintRoster(p) ==
  /\ pc[p] = "print"
  /\ printed' = next[p]
  /\ End(p)
  /\ UNCHANGED <<db, github, talk, roster, past, raced, faults>>

\* A GitHub error, an exception or a kill between two steps.  An error answered
\* to a call that was carried out is that call's step and then this one.
Stop(p) ==
  /\ pc[p] # "idle"
  /\ faults < MaxFaults /\ faults' = faults + 1
  /\ End(p)
  /\ UNCHANGED <<db, github, talk, roster, printed, past, raced>>

Step(p) ==
  \/ RecordAttempt(p) \/ RefuseAttempt(p) \/ CheckRepo(p) \/ Render(p)
  \/ RefuseHistory(p) \/ CheckTarget(p) \/ CreateRepo(p) \/ Push(p) \/ WriteRoster(p)
  \/ Invite(p) \/ KnowIssue(p) \/ FindIssue(p) \/ CreateIssue(p) \/ RecordIssue(p)
  \/ Look(p) \/ Comment(p) \/ PrintRoster(p)
Next ==
  \/ \E n \in Attempts, full \in BOOLEAN : GradeCommit(n, full)
  \/ \E n \in Attempts : OpenIssue(n)
  \/ MasteryMoves \/ RosterApply \/ NextAttempt
  \/ \E p \in Deliverers : Deliver(p) \/ Resume(p)
  \/ \E p \in Publishers, n \in Attempts : Publish(p, n)
  \/ \E p \in Procs : Step(p) \/ Stop(p)
Spec == Init /\ [][Next]_vars

\* A run goes on to its end, and a failed delivery is resumed, as its message
\* asks of the instructor.
FairSpec == /\ Spec
            /\ \A p \in Procs : WF_vars(Step(p))
            /\ \A p \in Deliverers : WF_vars(Resume(p))

----------------------------------------------------------------------------
(* Properties.                                                             *)

Commented(n) == {i \in 1..Len(comments) : comments[i].next = n}

\* Types, and what a run's step says of its attempt, tree and issue.
TypeOK ==
  /\ last \in 0..MaxAttempt
  /\ frozen \subseteq touched /\ touched \subseteq WithRow
  /\ variant \in [Attempts -> Variants \cup {NoVariant}] /\ chosen \in Variants
  /\ issueRow \in [Attempts -> Nat] /\ roster \in 0..MaxAttempt
  /\ repo \in [Attempts -> {"missing", "empty", "has_commits"}]
  /\ pushed \in [Attempts -> Variants \cup {NoVariant}] /\ invited \subseteq Attempts
  /\ issues \in [Attempts -> Seq(Attempts)]
  /\ comments \in Seq([repo : Attempts, issue : Nat \ {0}, next : Attempts])
  /\ \A p \in Procs :
       /\ next[p] = None <=> pc[p] = "idle"
       /\ pc[p] \notin {"idle", "attempt", "state", "render"} => next[p] \in WithRow
       /\ pc[p] \in {"check", "create", "push"} => tree[p] # NoVariant
       /\ pc[p] \in {"record", "look", "comment", "print"} => number[p] # None
  /\ WithRow \subseteq 1..last /\ (last # 0 => last \in WithRow)
  /\ \A n \in Attempts : repo[n] = "has_commits" <=> pushed[n] # NoVariant

\* The next attempt starts only when the one before is frozen, also with two
\* runs at once (deliver_next_attempt, step 1, without --force).  Only publish_repo
\* by hand, which does not ask, makes the row of an attempt earlier.
NextAfterFreeze == \A n \in WithRow \ made : n >= 2 => n - 1 \in frozen

\* A delivery comment promises a repository: it is there, the student has access
\* and the attempt has its row.  And the roster never points at an empty place.
WhatIsSaidIsThere ==
  /\ \A n \in Attempts : Commented(n) # {} =>
       n \in WithRow /\ repo[n] = "has_commits" /\ n \in invited
  /\ roster # None => repo[roster] = "has_commits"

\* "Every GitHub step is idempotent": however often a delivery fails and is
\* resumed, a repository has one comment of it, unless runs met.  (A --resume
\* planned after the roster was changed comments in another repository.)
OneDeliveryComment ==
  ~raced => \A i, j \in 1..Len(comments) :
    comments[i].repo = comments[j].repo /\ comments[i].next = comments[j].next => i = j

\* The repository holds the variant in the database, which decides which gaps are
\* graded, although two renders precede the push and the mastery moves between,
\* and although publish_repo may be run again for a frozen attempt.  Three things
\* tell them apart: two runs at once, a freeze before the repository exists (by a
\* commit of the old one), and publish_repo run again before the freeze.
PublishedAsRecorded ==
  \A n \in Attempts : ~raced /\ n \notin adrift /\ pushed[n] # NoVariant =>
    pushed[n] = variant[n]

\* An attempt that next_attempt recorded is delivered in the end, or has graded
\* work, which makes --resume refuse it, or the roster was changed before its
\* delivery, or publish_repo made a later attempt, which --resume then takes.
Delivered ==
  \A n \in Attempts \ {1} :
    n \in WithRow \ made ~> Commented(n) # {} \/ n \in touched \/ roster = n \/ last > n

\* _upsert_attempt: "a re-render must never silently rewrite which variant a real
\* submission was actually graded against".
GradedVariantKept == [][\A n \in touched : variant'[n] = variant[n]]_vars
=============================================================================
