------------------------------ MODULE Feedback ------------------------------
(***************************************************************************)
(* Feedback by GitHub issue, for one student: one issue per attempt, one   *)
(* comment per graded commit (scripts/post_feedback.py, and the feedback   *)
(* phase of scripts/run_hourly.py).  GitHub and the database are two       *)
(* stores with no transaction in common.  The hourly task runs under its   *)
(* advisory lock; `post_feedback --issue --apply`, run by hand, takes none.*)
(***************************************************************************)
EXTENDS Integers, Sequences, FiniteSets

CONSTANTS
  MaxCommit,    \* graded commits are 1..MaxCommit, in the order (committed_at, sha)
  Attempts,
  AttemptOf,    \* the attempt each commit is graded for
  Unpostable,   \* commits whose plan is refused (placeholder login, no roster row)
  Tasks, Hands, \* processes: hourly tasks, and manual runs
  MaxFaults     \* bound on GitHub errors and crashes together

Commits == 1..MaxCommit
Posters == Tasks \cup Hands
None    == 0

ASSUME FeedbackAssumption ==
  /\ MaxCommit \in Nat /\ MaxFaults \in Nat
  /\ AttemptOf \in [Commits -> Attempts]
  /\ Unpostable \subseteq Commits /\ Tasks \cap Hands = {}

VARIABLES
  graded,    \* commits with committed test_results
  recent,    \* those graded within the lookback
  issueRow,  \* feedback_issues: the issue number of each attempt, or None
  posts,     \* feedback_posts: the commits of channel github_issue_comment
  issues,    \* GitHub: the attempt in the title of each issue, by number
  comments,  \* GitHub: the comments, each in an issue with a commit's marker
  pc, todo, number,  \* each poster: step, what is left of its list, issue
  tx,        \* each poster's uncommitted feedback_issues row and post
  overlapped,  \* have two posters ever been at work at once? (history)
  faults     \* faults so far (a bound)

server == <<issueRow, posts>>
github == <<issues, comments>>
vars == <<graded, recent, issueRow, posts, issues, comments,
          pc, todo, number, tx, overlapped, faults>>

NoTx == [issue |-> None, post |-> FALSE]
Working(p) == pc[p] # "idle"
Oldest(S) == CHOOSE c \in S : \A d \in S : c <= d
Current(p) == Oldest(todo[p])
AttemptAt(p) == AttemptOf[Current(p)]

Init ==
  /\ graded = {} /\ recent = {}
  /\ issueRow = [a \in Attempts |-> None] /\ posts = {}
  /\ issues = <<>> /\ comments = <<>>
  /\ pc = [p \in Posters |-> "idle"]
  /\ todo = [p \in Posters |-> {}]
  /\ number = [p \in Posters |-> None]
  /\ tx = [p \in Posters |-> NoTx]
  /\ overlapped = FALSE /\ faults = 0

\* The grade stage commits a commit's rows; the lookback passes.
Grade(c) ==
  /\ c \notin graded
  /\ graded' = graded \cup {c} /\ recent' = recent \cup {c}
  /\ UNCHANGED <<server, github, pc, todo, number, tx, overlapped, faults>>
Age(c) ==
  /\ c \in recent
  /\ recent' = recent \ {c}
  /\ UNCHANGED <<graded, server, github, pc, todo, number, tx, overlapped, faults>>

\* Mutant: one commit per run, the oldest.
OldestOnly(p) ==
  LET S == (IF p \in Tasks THEN recent ELSE graded) \ posts
  IN  {c \in S : \A d \in S : c <= d}

\* already_posted, and plan_issue_post's reasons to refuse.
Posted(c) == c \in posts
Refused(c) == c \in Unpostable

\* recent_unposted for the task, unposted_commits by hand.
Unposted(p) == (IF p \in Tasks THEN recent ELSE graded) \ posts

\* The list is made once.  A second hourly task exits at once.
Start(p) ==
  /\ ~Working(p)
  /\ p \in Tasks => \A q \in Tasks : ~Working(q)
  /\ Unposted(p) # {}
  /\ todo' = [todo EXCEPT ![p] = Unposted(p)]
  /\ pc' = [pc EXCEPT ![p] = "next"]
  /\ overlapped' = (overlapped \/ \E q \in Posters : Working(q))
  /\ UNCHANGED <<graded, recent, server, github, number, tx, faults>>

\* The outcome is settled: on to the next commit, with no transaction open.
NextCommit(p) ==
  /\ todo' = [todo EXCEPT ![p] = @ \ {Current(p)}]
  /\ number' = [number EXCEPT ![p] = None]
  /\ tx' = [tx EXCEPT ![p] = NoTx]
  /\ pc' = [pc EXCEPT ![p] = "next"]

\* plan_issue_post says already posted, or refused: GitHub is not contacted.
Skip(p) ==
  /\ pc[p] = "next" /\ todo[p] # {}
  /\ Posted(Current(p)) \/ Refused(Current(p))
  /\ NextCommit(p)
  /\ UNCHANGED <<graded, recent, server, github, overlapped, faults>>

\* plan_issue_post: the issue's number if the database knows it.
Plan(p) ==
  /\ pc[p] = "next" /\ todo[p] # {}
  /\ ~Posted(Current(p)) /\ ~Refused(Current(p))
  /\ number' = [number EXCEPT ![p] = issueRow[AttemptAt(p)]]
  /\ pc' = [pc EXCEPT ![p] = IF issueRow[AttemptAt(p)] = None THEN "find" ELSE "look"]
  /\ UNCHANGED <<graded, recent, server, github, todo, tx, overlapped, faults>>

\* Mutant: the database alone is asked.
KnownOnly(a) == {issueRow[a]} \ {None}

\* ensure_issue: the row, then the issues of GitHub with the exact title.
Known(a) ==
  IF issueRow[a] # None THEN {issueRow[a]}
  ELSE {n \in 1..Len(issues) : issues[n] = a}

Find(p) ==
  /\ pc[p] = "find"
  /\ LET found == Known(AttemptAt(p))
     IN  IF found = {}
         THEN pc' = [pc EXCEPT ![p] = "create"] /\ UNCHANGED number
         ELSE /\ \E n \in found : /\ \A k \in found : k <= n   \* newest first
                                  /\ number' = [number EXCEPT ![p] = n]
              /\ pc' = [pc EXCEPT ![p] = "record"]
  /\ UNCHANGED <<graded, recent, server, github, todo, tx, overlapped, faults>>

CreateIssue(p) ==
  /\ pc[p] = "create"
  /\ issues' = Append(issues, AttemptAt(p))
  /\ number' = [number EXCEPT ![p] = Len(issues) + 1]
  /\ pc' = [pc EXCEPT ![p] = "record"]
  /\ UNCHANGED <<graded, recent, server, comments, todo, tx, overlapped, faults>>

\* INSERT ... ON CONFLICT DO NOTHING waits for another's uncommitted row.
RecordIssue(p) ==
  /\ pc[p] = "record"
  /\ \A q \in Posters \ {p} : tx[q].issue # None => AttemptAt(q) # AttemptAt(p)
  /\ tx' = [tx EXCEPT ![p].issue =
              IF issueRow[AttemptAt(p)] = None THEN number[p] ELSE None]
  /\ pc' = [pc EXCEPT ![p] = "look"]
  /\ UNCHANGED <<graded, recent, server, github, todo, number, overlapped, faults>>

Commented(c, n) == \E i \in 1..Len(comments) : comments[i] = [issue |-> n, commit |-> c]

\* Mutants: the marker is not looked for; it is taken for granted.
PostAnyway(c, n) == "comment"
NeverPost(c, n) == "save"

\* A comment with the commit's marker is recovered, not posted again.
Looked(c, n) == IF Commented(c, n) THEN "save" ELSE "comment"

LookForMarker(p) ==
  /\ pc[p] = "look"
  /\ pc' = [pc EXCEPT ![p] = Looked(Current(p), number[p])]
  /\ UNCHANGED <<graded, recent, server, github, todo, number, tx, overlapped, faults>>

CreateComment(p) ==
  /\ pc[p] = "comment"
  /\ comments' = Append(comments, [issue |-> number[p], commit |-> Current(p)])
  /\ pc' = [pc EXCEPT ![p] = "save"]
  /\ UNCHANGED <<graded, recent, server, issues, todo, number, tx, overlapped, faults>>

\* _record_post, with the same wait.
RecordPost(p) ==
  /\ pc[p] = "save"
  /\ \A q \in Posters \ {p} : tx[q].post => Current(q) # Current(p)
  /\ tx' = [tx EXCEPT ![p].post = TRUE]
  /\ pc' = [pc EXCEPT ![p] = "commit"]
  /\ UNCHANGED <<graded, recent, server, github, todo, number, overlapped, faults>>

\* The caller commits after each outcome.
CommitPost(p) ==
  /\ pc[p] = "commit"
  /\ posts' = posts \cup {Current(p)}
  /\ issueRow' = IF tx[p].issue = None THEN issueRow
                 ELSE [issueRow EXCEPT ![AttemptAt(p)] = tx[p].issue]
  /\ NextCommit(p)
  /\ UNCHANGED <<graded, recent, github, overlapped, faults>>

\* A GitHub call answers with an error: a failed outcome, rolled back.  A POST
\* that answers so may have been carried out all the same.
GitHubError(p) ==
  /\ faults < MaxFaults /\ faults' = faults + 1
  /\ pc[p] \in {"find", "create", "look", "comment"}
  /\ \/ UNCHANGED github
     \/ /\ pc[p] = "create"
        /\ issues' = Append(issues, AttemptAt(p)) /\ UNCHANGED comments
     \/ /\ pc[p] = "comment"
        /\ comments' = Append(comments, [issue |-> number[p], commit |-> Current(p)])
        /\ UNCHANGED issues
  /\ NextCommit(p)
  /\ UNCHANGED <<graded, recent, server, overlapped>>

Idle(p) ==
  /\ pc' = [pc EXCEPT ![p] = "idle"]
  /\ todo' = [todo EXCEPT ![p] = {}]
  /\ number' = [number EXCEPT ![p] = None]
  /\ tx' = [tx EXCEPT ![p] = NoTx]

Finish(p) ==
  /\ pc[p] = "next" /\ todo[p] = {}
  /\ Idle(p)
  /\ UNCHANGED <<graded, recent, server, github, overlapped, faults>>

\* The process dies, or a network exception (not an HTTP status) ends its run.
Crash(p) ==
  /\ Working(p)
  /\ faults < MaxFaults /\ faults' = faults + 1
  /\ Idle(p)
  /\ UNCHANGED <<graded, recent, server, github, overlapped>>

Step(p) ==
  \/ Skip(p) \/ Plan(p) \/ Find(p) \/ CreateIssue(p) \/ RecordIssue(p)
  \/ LookForMarker(p) \/ CreateComment(p) \/ RecordPost(p) \/ CommitPost(p)
  \/ Finish(p)
Next ==
  \/ \E c \in Commits : Grade(c) \/ Age(c)
  \/ \E p \in Posters : Start(p) \/ Step(p) \/ GitHubError(p) \/ Crash(p)
Spec == Init /\ [][Next]_vars

\* The task runs every hour, and a run that has begun goes on to its end.
FairSpec == /\ Spec
            /\ \A p \in Tasks : WF_vars(Start(p))
            /\ \A p \in Posters : WF_vars(Step(p))

----------------------------------------------------------------------------
(* Properties.                                                             *)

\* Types, and what a poster's step says of its list and its transaction.
TypeOK ==
  /\ graded \subseteq Commits /\ recent \subseteq graded /\ posts \subseteq Commits
  /\ issueRow \in [Attempts -> Nat]
  /\ issues \in Seq(Attempts)
  /\ comments \in Seq([issue : Nat, commit : Commits])
  /\ pc \in [Posters -> {"idle", "next", "find", "create", "record", "look",
                         "comment", "save", "commit"}]
  /\ todo \in [Posters -> SUBSET Commits]
  /\ number \in [Posters -> Nat]
  /\ tx \in [Posters -> [issue : Nat, post : BOOLEAN]]
  /\ overlapped \in BOOLEAN /\ faults \in 0..MaxFaults
  /\ \A p \in Posters :
       /\ pc[p] \notin {"idle", "next"} => todo[p] # {}
       /\ pc[p] \in {"idle", "next"} => tx[p] = NoTx /\ number[p] = None
       /\ tx[p].post <=> pc[p] = "commit"
       /\ pc[p] \in {"record", "look", "comment", "save", "commit"} =>
            number[p] \in 1..Len(issues)

CommentsOn(c) == {i \in 1..Len(comments) : comments[i].commit = c}

\* D-089: one comment per graded commit, whatever fails or crashes between
\* GitHub and the database, as long as no two runs are at work at once.
OneCommentPerCommit ==
  ~overlapped => \A c \in Commits : Cardinality(CommentsOn(c)) <= 1

\* D-089: and one issue per attempt, which the database row names.
OneIssuePerAttempt ==
  ~overlapped => \A n, k \in 1..Len(issues) : issues[n] = issues[k] => n = k

\* A row says what GitHub has: the issue of the attempt, and a comment of the
\* commit in an issue of its attempt.  This holds for overlapping runs too.
RecordedIsPosted ==
  /\ \A a \in Attempts : issueRow[a] # None =>
       issueRow[a] \in 1..Len(issues) /\ issues[issueRow[a]] = a
  /\ \A c \in posts : \E i \in CommentsOn(c) :
       issues[comments[i].issue] = AttemptOf[c]

\* A commit that is graded gets its comment, or the lookback passes first.
PostedOrOld ==
  \A c \in Commits \ Unpostable : c \in recent ~> c \in posts \/ c \notin recent

\* docs/ARCHITECTURE.md: "one issue per attempt, one comment per commit", with
\* the manual command beside the task.
OneCommentEver == \A c \in Commits : Cardinality(CommentsOn(c)) <= 1
=============================================================================
