--------------------------- MODULE FeedbackProofs ---------------------------
(***************************************************************************)
(* Theorems about Feedback, for any number of commits, attempts, tasks and *)
(* manual runs, and any number of faults.                                  *)
(*                                                                         *)
(* The inductive invariant of the rows is Sound: besides the types, the    *)
(* issue a poster works with is one of its commit's attempt, the row it    *)
(* has not committed names that issue, and a poster past the comment has a *)
(* comment to show.  The one of the counts is Single: without an overlap a *)
(* poster is alone, so what it did not find stays unfound until it has     *)
(* created it.                                                             *)
(***************************************************************************)
EXTENDS Feedback, FiniteSetTheorems, WellFoundedInduction, TLAPS

\* The steps of a poster that has an issue number.
Numbered == {"record", "look", "comment", "save", "commit"}

\* Issue n is there, for the attempt of commit c.
IssueFor(n, c) == n \in 1..Len(issues) /\ issues[n] = AttemptOf[c]

\* What a poster works with: its commit, its issue and its open transaction.
PosterSound(p) ==
  /\ pc[p] \in Numbered => IssueFor(number[p], Current(p))
  /\ tx[p].issue # None => pc[p] \in Numbered /\ tx[p].issue = number[p]
  /\ pc[p] \in {"save", "commit"} => Commented(Current(p), number[p])

\* A comment is in an issue of its commit's attempt.
CommentsPlaced ==
  \A i \in 1..Len(comments) : IssueFor(comments[i].issue, comments[i].commit)

Sound ==
  /\ TypeOK
  /\ \A p \in Posters : PosterSound(p)
  /\ CommentsPlaced
  /\ RecordedIsPosted

\* Without an overlap: one poster at work, one issue of an attempt, one comment
\* of a commit, and what a poster did not find is not there.
Alone == \A p, q \in Posters : Working(p) /\ Working(q) => p = q
OneIssue == \A n, k \in 1..Len(issues) : issues[n] = issues[k] => n = k
OneComment == \A i, j \in 1..Len(comments) :
                comments[i].commit = comments[j].commit => i = j
Unfound(p) ==
  /\ pc[p] = "create" => \A n \in 1..Len(issues) : issues[n] # AttemptAt(p)
  /\ pc[p] = "comment" => \A i \in 1..Len(comments) : comments[i].commit # Current(p)
Single == ~overlapped => /\ Alone /\ OneIssue /\ OneComment
                         /\ \A p \in Posters : Unfound(p)

-----------------------------------------------------------------------------
(* Lemmas.                                                                 *)

\* A set of naturals that is not empty has a least element.
LEMMA HasLeast ==
  ASSUME NEW S \in SUBSET Nat, S # {}
  PROVE  \E c \in S : \A d \in S : c <= d
<1>1. PICK c \in S : \A d \in S : ~ (<<d, c>> \in OpToRel(<, Nat))
  BY NatLessThanWellFounded, WFMin
<1>2. \A d \in S : ~ (d < c)
  BY <1>1 DEF OpToRel
<1>3. QED
  BY <1>2

\* The commit at hand is one of the poster's list.
LEMMA CurrentIsOne ==
  ASSUME TypeOK, NEW p \in Posters, todo[p] # {}
  PROVE  /\ Current(p) \in todo[p] /\ Current(p) \in Commits
         /\ AttemptAt(p) \in Attempts /\ AttemptAt(p) = AttemptOf[Current(p)]
<1>1. todo[p] \in SUBSET Commits /\ Commits \subseteq Nat
  BY FeedbackAssumption DEF TypeOK, Commits
<1>2. \E c \in todo[p] : \A d \in todo[p] : c <= d
  BY <1>1, HasLeast
<1>3. Current(p) \in todo[p]
  BY <1>2 DEF Current, Oldest
<1>4. QED
  BY <1>1, <1>3, FeedbackAssumption DEF AttemptAt

\* Beyond "next" there is a commit at hand.
LEMMA CurrentAtWork ==
  ASSUME TypeOK, NEW p \in Posters, pc[p] \notin {"idle", "next"}
  PROVE  Current(p) \in todo[p] /\ Current(p) \in Commits /\ AttemptAt(p) \in Attempts
<1>1. todo[p] # {}
  BY DEF TypeOK
<1>2. QED
  BY <1>1, CurrentIsOne

\* A poster whose list is unchanged has the same commit at hand.
LEMMA SameCurrent ==
  ASSUME NEW p, todo'[p] = todo[p]
  PROVE  Current(p)' = Current(p) /\ AttemptAt(p)' = AttemptAt(p)
BY DEF Current, AttemptAt

\* What Append does to a sequence.
LEMMA Appended ==
  ASSUME NEW S, NEW s \in Seq(S), NEW e \in S
  PROVE  /\ Append(s, e) \in Seq(S)
         /\ Len(s) \in Nat /\ Len(Append(s, e)) = Len(s) + 1
         /\ \A i \in 1..Len(s) : Append(s, e)[i] = s[i]
         /\ Append(s, e)[Len(s) + 1] = e
BY SMT

\* An entry of a sequence is of its type.
LEMMA ElementOf ==
  ASSUME NEW T, NEW s \in Seq(T), NEW i \in 1..Len(s)
  PROVE  s[i] \in T
OBVIOUS

-----------------------------------------------------------------------------
(* Types.                                                                  *)

\* Every step keeps the types.
LEMMA TypesKept ==
  ASSUME TypeOK, RecordedIsPosted, [Next]_vars
  PROVE  TypeOK'
<1> USE FeedbackAssumption DEF NoTx, None, server, github
<1>1. ASSUME NEW c \in Commits, Grade(c) \/ Age(c)
      PROVE  TypeOK'
  BY <1>1 DEF TypeOK, Grade, Age
<1>2. ASSUME NEW p \in Posters, Start(p)
      PROVE  TypeOK'
  BY <1>2 DEF TypeOK, Start, Working, Unposted
<1>3. ASSUME NEW p \in Posters, Skip(p)
      PROVE  TypeOK'
  BY <1>3 DEF TypeOK, Skip, NextCommit
<1>4. ASSUME NEW p \in Posters, Plan(p)
      PROVE  TypeOK'
  <2>1. AttemptAt(p) \in Attempts
    BY <1>4, CurrentIsOne DEF Plan
  <2> QED
    BY <1>4, <2>1 DEF TypeOK, Plan, RecordedIsPosted
<1>5. ASSUME NEW p \in Posters, Find(p)
      PROVE  TypeOK'
  <2>1. Current(p) \in Commits /\ AttemptAt(p) \in Attempts
    BY <1>5, CurrentAtWork DEF Find
  <2>2. \A n \in Known(AttemptAt(p)) : n \in 1..Len(issues)
    BY <2>1 DEF TypeOK, Known, RecordedIsPosted
  <2>3. CASE Known(AttemptAt(p)) = {}
    BY <1>5, <2>3 DEF TypeOK, Find
  <2>4. CASE Known(AttemptAt(p)) # {}
    <3>1. PICK n \in Known(AttemptAt(p)) : number' = [number EXCEPT ![p] = n]
      BY <1>5, <2>4 DEF Find
    <3>2. n \in Nat /\ n \in 1..Len(issues)
      BY <2>2 DEF TypeOK
    <3> QED
      BY <1>5, <2>4, <3>1, <3>2 DEF TypeOK, Find
  <2> QED
    BY <2>3, <2>4
<1>6. ASSUME NEW p \in Posters, CreateIssue(p)
      PROVE  TypeOK'
  <2>1. Current(p) \in Commits /\ AttemptAt(p) \in Attempts
    BY <1>6, CurrentAtWork DEF CreateIssue
  <2>2. Append(issues, AttemptAt(p)) \in Seq(Attempts) /\ Len(Append(issues, AttemptAt(p))) = Len(issues) + 1
    BY <2>1, Appended DEF TypeOK
  <2> QED
    BY <1>6, <2>1, <2>2 DEF TypeOK, CreateIssue
<1>7. ASSUME NEW p \in Posters, RecordIssue(p)
      PROVE  TypeOK'
  <2>1. Current(p) \in Commits /\ AttemptAt(p) \in Attempts
    BY <1>7, CurrentAtWork DEF RecordIssue
  <2>2. tx' \in [Posters -> [issue : Nat, post : BOOLEAN]]
    <3> DEFINE n == IF issueRow[AttemptAt(p)] = None THEN number[p] ELSE None
    <3>1. n \in Nat
      BY DEF TypeOK
    <3>2. tx' = [tx EXCEPT ![p].issue = n]
      BY <1>7 DEF RecordIssue
    <3> HIDE DEF n
    <3> QED
      BY <3>1, <3>2 DEF TypeOK
  <2>3. ~tx[p].post /\ tx'[p].post = tx[p].post
    BY <1>7 DEF TypeOK, RecordIssue
  <2> QED
    BY <1>7, <2>2, <2>3 DEF TypeOK, RecordIssue
<1>8. ASSUME NEW p \in Posters, LookForMarker(p)
      PROVE  TypeOK'
  BY <1>8 DEF TypeOK, LookForMarker, Looked
<1>9. ASSUME NEW p \in Posters, CreateComment(p)
      PROVE  TypeOK'
  <2>1. Current(p) \in Commits /\ AttemptAt(p) \in Attempts
    BY <1>9, CurrentAtWork DEF CreateComment
  <2>2. pc[p] = "comment" =>
          Append(comments, [issue |-> number[p], commit |-> Current(p)]) \in Seq([issue : Nat, commit : Commits])
    BY <2>1, Appended DEF TypeOK
  <2> QED
    BY <1>9, <2>1, <2>2 DEF TypeOK, CreateComment
<1>10. ASSUME NEW p \in Posters, RecordPost(p)
      PROVE  TypeOK'
  BY <1>10 DEF TypeOK, RecordPost
<1>11. ASSUME NEW p \in Posters, CommitPost(p)
      PROVE  TypeOK'
  <2>1. Current(p) \in Commits /\ AttemptAt(p) \in Attempts
    BY <1>11, CurrentAtWork DEF CommitPost
  <2> QED
    BY <1>11, <2>1 DEF TypeOK, CommitPost, NextCommit
<1>12. ASSUME NEW p \in Posters, GitHubError(p)
      PROVE  TypeOK'
  <2>1. Current(p) \in Commits /\ AttemptAt(p) \in Attempts
    BY <1>12, CurrentAtWork DEF GitHubError
  <2>2. Append(issues, AttemptAt(p)) \in Seq(Attempts) /\ Len(Append(issues, AttemptAt(p))) = Len(issues) + 1
    BY <2>1, Appended DEF TypeOK
  <2>3. pc[p] = "comment" =>
          Append(comments, [issue |-> number[p], commit |-> Current(p)]) \in Seq([issue : Nat, commit : Commits])
    BY <2>1, Appended DEF TypeOK
  <2>4. issues' \in Seq(Attempts) /\ Len(issues) \in Nat /\ Len(issues') \in Nat
        /\ Len(issues) <= Len(issues')
    <3>1. issues' = issues \/ issues' = Append(issues, AttemptAt(p))
      BY <1>12 DEF GitHubError
    <3>2. Len(issues) \in Nat /\ issues \in Seq(Attempts)
      BY DEF TypeOK
    <3> DEFINE s == Append(issues, AttemptAt(p))
    <3>3. issues' = issues \/ issues' = s
      BY <3>1
    <3>4. s \in Seq(Attempts) /\ Len(s) = Len(issues) + 1
      BY <2>2
    <3> HIDE DEF s
    <3> QED
      BY <3>2, <3>3, <3>4
  <2>5. comments' \in Seq([issue : Nat, commit : Commits])
    BY <1>12, <2>3 DEF TypeOK, GitHubError
  <2>6. issueRow' = issueRow /\ posts' = posts
    BY <1>12 DEF GitHubError
  <2>7. NextCommit(p) /\ UNCHANGED <<graded, recent, overlapped>>
        /\ faults < MaxFaults /\ faults' = faults + 1
    BY <1>12 DEF GitHubError
  <2> QED
    BY <2>4, <2>5, <2>6, <2>7 DEF TypeOK, NextCommit
<1>13. ASSUME NEW p \in Posters, Finish(p)
      PROVE  TypeOK'
  BY <1>13 DEF TypeOK, Finish, Idle
<1>14. ASSUME NEW p \in Posters, Crash(p)
      PROVE  TypeOK'
  BY <1>14 DEF TypeOK, Crash, Idle
<1>15. CASE UNCHANGED vars
  BY <1>15 DEF TypeOK, vars
<1> QED
  BY <1>1, <1>2, <1>3, <1>4, <1>5, <1>6, <1>7, <1>8, <1>9, <1>10, <1>11, <1>12, <1>13, <1>14, <1>15 DEF Next, Step

-----------------------------------------------------------------------------
(* What GitHub has stays, and with it what the posters and the rows say.   *)

Grows ==
  /\ Len(issues) <= Len(issues')
  /\ \A n \in 1..Len(issues) : issues'[n] = issues[n]
  /\ Len(comments) <= Len(comments')
  /\ \A i \in 1..Len(comments) : comments'[i] = comments[i]

\* An issue or a comment that is there stays as it is.
LEMMA StepGrows ==
  ASSUME TypeOK, [Next]_vars
  PROVE  Grows
<1> USE DEF server, github
<1>1. Len(issues) \in Nat /\ Len(comments) \in Nat
      /\ issues \in Seq(Attempts) /\ comments \in Seq([issue : Nat, commit : Commits])
  BY DEF TypeOK
<1>2. CASE UNCHANGED github
  BY <1>1, <1>2 DEF Grows
<1>3. ASSUME NEW p \in Posters, pc[p] \in {"create", "comment"},
             \/ issues' = Append(issues, AttemptAt(p)) /\ UNCHANGED comments
             \/ /\ comments' = Append(comments, [issue |-> number[p], commit |-> Current(p)])
                /\ UNCHANGED issues
      PROVE  Grows
  <2>1. AttemptAt(p) \in Attempts
        /\ [issue |-> number[p], commit |-> Current(p)] \in [issue : Nat, commit : Commits]
    BY <1>3, CurrentAtWork DEF TypeOK
  <2>2. CASE issues' = Append(issues, AttemptAt(p)) /\ UNCHANGED comments
    BY <1>1, <2>1, <2>2, Appended DEF Grows
  <2>3. CASE /\ comments' = Append(comments, [issue |-> number[p], commit |-> Current(p)])
             /\ UNCHANGED issues
    BY <1>1, <2>1, <2>3, Appended DEF Grows
  <2>4. QED
    BY <1>3, <2>2, <2>3
<1>4. \/ UNCHANGED github
      \/ \E p \in Posters :
           /\ pc[p] \in {"create", "comment"}
           /\ \/ issues' = Append(issues, AttemptAt(p)) /\ UNCHANGED comments
              \/ /\ comments' = Append(comments, [issue |-> number[p], commit |-> Current(p)])
                 /\ UNCHANGED issues
  BY DEF Next, Step, vars, Grade, Age, Start, Skip, Plan, Find, CreateIssue, RecordIssue,
         LookForMarker, CreateComment, RecordPost, CommitPost, GitHubError, Finish, Crash
<1>5. QED
  BY <1>2, <1>3, <1>4

\* A poster that does not move is as sound as it was.
LEMMA OtherSound ==
  ASSUME TypeOK, TypeOK', Grows, NEW q \in Posters, PosterSound(q),
         pc'[q] = pc[q], todo'[q] = todo[q], number'[q] = number[q], tx'[q] = tx[q]
  PROVE  PosterSound(q)'
<1>1. Current(q)' = Current(q)
  BY SameCurrent
<1>2. Len(issues) \in Nat /\ Len(issues') \in Nat
      /\ Len(comments) \in Nat /\ Len(comments') \in Nat
  BY DEF TypeOK
<1>3. (pc[q] \in Numbered => IssueFor(number[q], Current(q)))'
  BY <1>1, <1>2 DEF PosterSound, IssueFor, Grows, Numbered
<1>4. (pc[q] \in {"save", "commit"} => Commented(Current(q), number[q]))'
  BY <1>1, <1>2 DEF PosterSound, Commented, Grows
<1>5. QED
  BY <1>3, <1>4 DEF PosterSound, Numbered

\* A poster between two commits, or at rest, has nothing to be sound about.
LEMMA RestingSound ==
  ASSUME TypeOK', NEW p \in Posters, pc'[p] \in {"idle", "next"}
  PROVE  PosterSound(p)'
BY DEF TypeOK, PosterSound, Numbered, NoTx

\* The rows stay right when GitHub grows and they are not touched.
LEMMA RowsStay ==
  ASSUME Sound, TypeOK', Grows, UNCHANGED server
  PROVE  RecordedIsPosted'
<1>1. Len(issues) \in Nat /\ Len(issues') \in Nat
      /\ Len(comments) \in Nat /\ Len(comments') \in Nat
  BY DEF TypeOK, Sound
<1>2. issueRow' = issueRow /\ posts' = posts
  BY DEF server
<1>3. \A a \in Attempts : issueRow[a] # None =>
        issueRow[a] \in 1..Len(issues') /\ issues'[issueRow[a]] = a
  BY <1>1 DEF Sound, RecordedIsPosted, Grows
<1>4. ASSUME NEW c \in posts
      PROVE  \E i \in 1..Len(comments') :
               comments'[i].commit = c /\ issues'[comments'[i].issue] = AttemptOf[c]
  <2>1. PICK i \in 1..Len(comments) :
          comments[i].commit = c /\ issues[comments[i].issue] = AttemptOf[c]
    BY DEF Sound, RecordedIsPosted, CommentsOn
  <2>2. comments[i].issue \in 1..Len(issues)
    BY DEF Sound, CommentsPlaced, IssueFor
  <2>3. QED
    BY <1>1, <2>1, <2>2 DEF Grows
<1>5. QED
  BY <1>2, <1>3, <1>4 DEF RecordedIsPosted, CommentsOn

\* A commit of rows says what the poster has seen on GitHub.
LEMMA CommittedRows ==
  ASSUME Sound, NEW p \in Posters, CommitPost(p)
  PROVE  RecordedIsPosted'
<1>1. Current(p) \in Commits /\ AttemptAt(p) \in Attempts
      /\ AttemptAt(p) = AttemptOf[Current(p)]
  BY CurrentAtWork DEF CommitPost, Sound, AttemptAt
<1>2. UNCHANGED github /\ issues' = issues /\ comments' = comments
  BY DEF CommitPost, github
<1>3. ASSUME NEW a \in Attempts, issueRow'[a] # None
      PROVE  issueRow'[a] \in 1..Len(issues) /\ issues[issueRow'[a]] = a
  <2>1. CASE issueRow'[a] = issueRow[a]
    BY <1>3, <2>1 DEF Sound, RecordedIsPosted
  <2>2. CASE issueRow'[a] # issueRow[a]
    <3>1. tx[p].issue # None /\ a = AttemptAt(p) /\ issueRow'[a] = tx[p].issue
      BY <2>2, <1>1 DEF CommitPost, Sound, TypeOK
    <3>2. IssueFor(tx[p].issue, Current(p))
      BY <3>1 DEF Sound, PosterSound
    <3>3. QED
      BY <3>1, <3>2, <1>1 DEF IssueFor
  <2>3. QED
    BY <2>1, <2>2
<1>4. ASSUME NEW c \in posts'
      PROVE  \E i \in 1..Len(comments) :
               comments[i].commit = c /\ issues[comments[i].issue] = AttemptOf[c]
  <2>1. CASE c \in posts
    BY <2>1 DEF Sound, RecordedIsPosted, CommentsOn
  <2>2. CASE c = Current(p)
    <3>1. Commented(c, number[p]) /\ IssueFor(number[p], c)
      BY <2>2 DEF CommitPost, Sound, PosterSound, Numbered
    <3>2. QED
      BY <3>1 DEF Commented, IssueFor
  <2>3. QED
    BY <1>4, <2>1, <2>2 DEF CommitPost
<1>5. QED
  BY <1>2, <1>3, <1>4 DEF RecordedIsPosted, CommentsOn

\* The comment a poster writes is in an issue of its commit's attempt.
LEMMA CommentsStayPlaced ==
  ASSUME Sound, TypeOK', Grows, [Next]_vars
  PROVE  CommentsPlaced'
<1>1. Len(issues) \in Nat /\ Len(issues') \in Nat
      /\ comments \in Seq([issue : Nat, commit : Commits])
  BY DEF TypeOK, Sound
<1>2. CASE comments' = comments
  BY <1>1, <1>2 DEF Sound, CommentsPlaced, IssueFor, Grows
<1>3. ASSUME NEW p \in Posters, pc[p] = "comment", issues' = issues,
             comments' = Append(comments, [issue |-> number[p], commit |-> Current(p)])
      PROVE  CommentsPlaced'
  <2> DEFINE r == [issue |-> number[p], commit |-> Current(p)]
  <2>1. r \in [issue : Nat, commit : Commits]
    BY <1>3, CurrentAtWork DEF TypeOK, Sound
  <2>2. IssueFor(r.issue, r.commit)
    BY <1>3 DEF Sound, PosterSound, Numbered
  <2>3. comments' = Append(comments, r)
    BY <1>3
  <2> HIDE DEF r
  <2>4. /\ Len(comments) \in Nat /\ Len(comments') = Len(comments) + 1
        /\ \A i \in 1..Len(comments) : comments'[i] = comments[i]
        /\ comments'[Len(comments) + 1] = r
    BY <1>1, <2>1, <2>3, Appended
  <2>5. ASSUME NEW i \in 1..Len(comments')
        PROVE  IssueFor(comments'[i].issue, comments'[i].commit)
    BY <2>2, <2>4 DEF Sound, CommentsPlaced
  <2>6. QED
    BY <2>5, <1>3 DEF CommentsPlaced, IssueFor
<1>4. \/ comments' = comments
      \/ \E p \in Posters :
           /\ pc[p] = "comment" /\ issues' = issues
           /\ comments' = Append(comments, [issue |-> number[p], commit |-> Current(p)])
  BY DEF Next, Step, vars, Grade, Age, Start, Skip, Plan, Find, CreateIssue, RecordIssue,
         LookForMarker, CreateComment, RecordPost, CommitPost, GitHubError, Finish, Crash, github
<1>5. QED
  BY <1>2, <1>3, <1>4

\* The poster that moves is sound after its step.
LEMMA MoverSound ==
  ASSUME Sound, TypeOK', Grows, NEW p \in Posters,
         Start(p) \/ Step(p) \/ GitHubError(p) \/ Crash(p)
  PROVE  PosterSound(p)'
<1>1. TypeOK /\ PosterSound(p) /\ RecordedIsPosted
  BY DEF Sound
<1>2. Len(issues) \in Nat /\ issues \in Seq(Attempts)
      /\ comments \in Seq([issue : Nat, commit : Commits])
  BY <1>1 DEF TypeOK
<1>3. CASE Start(p) \/ Skip(p) \/ CommitPost(p) \/ GitHubError(p) \/ Finish(p) \/ Crash(p)
  <2>1. pc'[p] \in {"idle", "next"}
    BY <1>1, <1>3 DEF TypeOK, Start, Skip, CommitPost, GitHubError, Finish, Crash,
                      NextCommit, Idle
  <2>2. QED
    BY <2>1, RestingSound
<1>4. ASSUME pc'[p] \notin {"idle", "next"}, todo' = todo,
             tx'[p].issue # None => pc'[p] \in Numbered /\ tx'[p].issue = number'[p],
             pc'[p] \in Numbered =>
               number'[p] \in 1..Len(issues') /\ issues'[number'[p]] = AttemptAt(p),
             pc'[p] \in {"save", "commit"} =>
               \E i \in 1..Len(comments') :
                 comments'[i] = [issue |-> number'[p], commit |-> Current(p)]
      PROVE  PosterSound(p)'
  <2>1. Current(p)' = Current(p)
    BY <1>4, SameCurrent
  <2>2. QED
    BY <1>4, <2>1 DEF PosterSound, IssueFor, Commented, AttemptAt
<1>5. CASE Plan(p)
  <2>1. AttemptAt(p) \in Attempts /\ tx[p] = NoTx
    BY <1>1, <1>5, CurrentIsOne DEF Plan, TypeOK
  <2>2. CASE issueRow[AttemptAt(p)] = None
    BY <1>1, <1>4, <1>5, <2>1, <2>2 DEF Plan, Numbered, TypeOK, NoTx, github
  <2>3. CASE issueRow[AttemptAt(p)] # None
    BY <1>1, <1>4, <1>5, <2>1, <2>3 DEF Plan, Numbered, TypeOK, NoTx, github, RecordedIsPosted
  <2>4. QED
    BY <2>2, <2>3
<1>6. CASE Find(p)
  <2>1. AttemptAt(p) \in Attempts /\ tx[p].issue = None
    BY <1>1, <1>6, CurrentAtWork DEF Find, PosterSound, Numbered
  <2>2. \A n \in Known(AttemptAt(p)) : n \in 1..Len(issues) /\ issues[n] = AttemptAt(p)
    BY <1>1, <2>1 DEF Known, RecordedIsPosted
  <2>3. CASE Known(AttemptAt(p)) = {}
    BY <1>1, <1>4, <1>6, <2>1, <2>3 DEF Find, Numbered, TypeOK, github
  <2>4. CASE Known(AttemptAt(p)) # {}
    <3>1. PICK n \in Known(AttemptAt(p)) : number' = [number EXCEPT ![p] = n]
      BY <1>6, <2>4 DEF Find
    <3>2. pc'[p] = "record" /\ number'[p] = n /\ tx' = tx /\ todo' = todo /\ issues' = issues
      BY <1>1, <1>6, <2>4, <3>1 DEF Find, TypeOK, github
    <3>3. QED
      BY <1>4, <2>1, <2>2, <3>2 DEF Numbered
  <2>5. QED
    BY <2>3, <2>4
<1>7. CASE CreateIssue(p)
  <2>1. AttemptAt(p) \in Attempts /\ tx[p].issue = None
    BY <1>1, <1>7, CurrentAtWork DEF CreateIssue, PosterSound, Numbered
  <2>2. Len(issues') = Len(issues) + 1 /\ issues'[Len(issues) + 1] = AttemptAt(p)
    BY <1>2, <1>7, <2>1, Appended DEF CreateIssue
  <2>3. pc'[p] = "record" /\ number'[p] = Len(issues) + 1 /\ tx' = tx /\ todo' = todo
    BY <1>1, <1>7 DEF CreateIssue, TypeOK
  <2>4. QED
    BY <1>2, <1>4, <2>1, <2>2, <2>3 DEF Numbered
<1>8. CASE RecordIssue(p)
  <2>1. IssueFor(number[p], Current(p)) /\ UNCHANGED github
    BY <1>1, <1>8 DEF RecordIssue, PosterSound, Numbered
  <2>2. pc'[p] = "look" /\ number' = number /\ todo' = todo
        /\ (tx'[p].issue = number[p] \/ tx'[p].issue = None)
    BY <1>1, <1>8 DEF RecordIssue, TypeOK
  <2>3. QED
    BY <1>4, <2>1, <2>2 DEF IssueFor, Numbered, AttemptAt, github
<1>9. CASE LookForMarker(p) \/ RecordPost(p)
  <2>1. IssueFor(number[p], Current(p)) /\ UNCHANGED github
        /\ (tx[p].issue # None => tx[p].issue = number[p])
    BY <1>1, <1>9 DEF LookForMarker, RecordPost, PosterSound, Numbered
  <2>2. pc'[p] \in {"save", "comment", "commit"} /\ number' = number /\ todo' = todo
        /\ tx'[p].issue = tx[p].issue
    BY <1>1, <1>9 DEF LookForMarker, RecordPost, TypeOK, Looked
  <2>3. pc'[p] \in {"save", "commit"} => Commented(Current(p), number[p])
    BY <1>1, <1>9 DEF LookForMarker, RecordPost, Looked, PosterSound, TypeOK
  <2>4. QED
    BY <1>4, <2>1, <2>2, <2>3 DEF IssueFor, Commented, Numbered, AttemptAt, github
<1>10. CASE CreateComment(p)
  <2> DEFINE r == [issue |-> number[p], commit |-> Current(p)]
  <2>1. IssueFor(number[p], Current(p)) /\ issues' = issues
        /\ (tx[p].issue # None => tx[p].issue = number[p])
    BY <1>1, <1>10 DEF CreateComment, PosterSound, Numbered
  <2>2. r \in [issue : Nat, commit : Commits]
    BY <1>1, <1>10, CurrentAtWork DEF CreateComment, TypeOK
  <2>3. pc'[p] = "save" /\ number' = number /\ todo' = todo /\ tx' = tx
        /\ comments' = Append(comments, r)
    BY <1>1, <1>10 DEF CreateComment, TypeOK
  <2> HIDE DEF r
  <2>4. Len(comments) \in Nat /\ Len(comments') = Len(comments) + 1
        /\ comments'[Len(comments) + 1] = r
    BY <1>2, <2>2, <2>3, Appended
  <2>5. \E i \in 1..Len(comments') : comments'[i] = r
    BY <2>4
  <2>6. QED
    BY <1>4, <2>1, <2>3, <2>5 DEF IssueFor, Numbered, AttemptAt, r
<1>11. QED
  BY <1>3, <1>5, <1>6, <1>7, <1>8, <1>9, <1>10 DEF Step

\* A step of one poster leaves the others where they are.
LEMMA OneMoves ==
  ASSUME TypeOK, NEW p \in Posters, NEW q \in Posters \ {p},
         Start(p) \/ Step(p) \/ GitHubError(p) \/ Crash(p)
  PROVE  /\ pc'[q] = pc[q] /\ todo'[q] = todo[q]
         /\ number'[q] = number[q] /\ tx'[q] = tx[q]
<1> USE DEF TypeOK
<1>1. CASE Start(p)
  BY <1>1 DEF Start
<1>2. CASE Skip(p) \/ CommitPost(p) \/ GitHubError(p)
  <2>1. NextCommit(p)
    BY <1>2 DEF Skip, CommitPost, GitHubError
  <2>2. QED
    BY <2>1 DEF NextCommit
<1>3. CASE Finish(p) \/ Crash(p)
  BY <1>3 DEF Finish, Crash, Idle
<1>4. CASE Plan(p) \/ Find(p) \/ CreateIssue(p)
  BY <1>4 DEF Plan, Find, CreateIssue
<1>5. CASE RecordIssue(p) \/ RecordPost(p) \/ LookForMarker(p) \/ CreateComment(p)
  BY <1>5 DEF RecordIssue, RecordPost, LookForMarker, CreateComment
<1>6. QED
  BY <1>1, <1>2, <1>3, <1>4, <1>5 DEF Step

\* Every step keeps Sound.
LEMMA SoundKept ==
  ASSUME Sound, [Next]_vars
  PROVE  Sound'
<1>1. TypeOK'
  BY TypesKept DEF Sound
<1>2. Grows
  BY StepGrows DEF Sound
<1>3. CommentsPlaced'
  BY <1>1, <1>2, CommentsStayPlaced
<1>4. RecordedIsPosted'
  <2>1. CASE UNCHANGED server
    BY <1>1, <1>2, <2>1, RowsStay
  <2>2. ASSUME NEW p \in Posters, CommitPost(p)
        PROVE  RecordedIsPosted'
    BY <2>2, CommittedRows
  <2>3. UNCHANGED server \/ \E p \in Posters : CommitPost(p)
    BY DEF Next, Step, vars, Grade, Age, Start, Skip, Plan, Find, CreateIssue, RecordIssue,
           LookForMarker, CreateComment, RecordPost, GitHubError, Finish, Crash, server
  <2>4. QED
    BY <2>1, <2>2, <2>3
<1>5. ASSUME NEW q \in Posters
      PROVE  PosterSound(q)'
  <2>1. ASSUME pc'[q] = pc[q], todo'[q] = todo[q], number'[q] = number[q], tx'[q] = tx[q]
        PROVE  PosterSound(q)'
    BY <1>1, <1>2, <2>1, OtherSound DEF Sound
  <2>2. ASSUME NEW p \in Posters, Start(p) \/ Step(p) \/ GitHubError(p) \/ Crash(p)
        PROVE  PosterSound(q)'
    <3>1. CASE p = q
      BY <1>1, <1>2, <2>2, <3>1, MoverSound
    <3>2. CASE p # q
      BY <2>1, <2>2, <3>2, OneMoves DEF Sound
    <3>3. QED
      BY <3>1, <3>2
  <2>3. CASE UNCHANGED <<pc, todo, number, tx>>
    BY <2>1, <2>3
  <2>4. QED
    BY <2>2, <2>3 DEF Next, vars, Grade, Age
<1>6. QED
  BY <1>1, <1>3, <1>4, <1>5 DEF Sound

\* Nothing is posted and nobody is at work.
LEMMA InitSound ==
  Init => Sound
<1> SUFFICES ASSUME Init
             PROVE  Sound
  OBVIOUS
<1>1. issues = <<>> /\ comments = <<>> /\ Len(<<>>) = 0
  BY DEF Init
<1>2. TypeOK
  <2>1. issues \in Seq(Attempts) /\ comments \in Seq([issue : Nat, commit : Commits])
    BY DEF Init
  <2>2. NoTx \in [issue : Nat, post : BOOLEAN] /\ NoTx.post = FALSE
    BY DEF NoTx, None
  <2>3. ASSUME NEW p \in Posters
        PROVE  pc[p] = "idle" /\ tx[p] = NoTx /\ number[p] = None /\ ~tx[p].post
    BY <2>2 DEF Init
  <2>4. tx \in [Posters -> [issue : Nat, post : BOOLEAN]]
    BY <2>2 DEF Init
  <2>5. /\ issueRow \in [Attempts -> Nat] /\ number \in [Posters -> Nat]
        /\ todo \in [Posters -> SUBSET Commits] /\ faults \in 0..MaxFaults
        /\ pc \in [Posters -> {"idle", "next", "find", "create", "record", "look",
                               "comment", "save", "commit"}]
    BY FeedbackAssumption DEF Init, None
  <2>6. QED
    BY <2>1, <2>3, <2>4, <2>5 DEF Init, TypeOK
<1>3. ASSUME NEW p \in Posters
      PROVE  PosterSound(p)
  BY DEF Init, PosterSound, Numbered, NoTx
<1>4. CommentsPlaced /\ RecordedIsPosted
  BY <1>1 DEF Init, CommentsPlaced, RecordedIsPosted
<1>5. QED
  BY <1>2, <1>3, <1>4 DEF Sound

\* The state is well typed, and a poster past its plan has an issue that is there.
THEOREM TypesHold == Spec => []TypeOK
<1>1. Init => Sound
  BY InitSound
<1>2. Sound /\ [Next]_vars => Sound'
  BY SoundKept
<1>3. Sound => TypeOK
  BY DEF Sound
<1>4. QED
  BY <1>1, <1>2, <1>3, PTL DEF Spec

\* Whatever fails or crashes between GitHub and the database, and whoever overlaps,
\* a row of feedback_issues names an issue of its attempt and a row of feedback_posts
\* has its comment (_record_issue and _record_post after the calls, one commit).
THEOREM RowsHaveTheirComment == Spec => []RecordedIsPosted
<1>1. Init => Sound
  BY InitSound
<1>2. Sound /\ [Next]_vars => Sound'
  BY SoundKept
<1>3. Sound => RecordedIsPosted
  BY DEF Sound
<1>4. QED
  BY <1>1, <1>2, <1>3, PTL DEF Spec

-----------------------------------------------------------------------------
(* Without an overlap.                                                     *)

\* An overlap is never forgotten, and a run that starts beside another is one.
LEMMA AloneKept ==
  ASSUME TypeOK, [Next]_vars, ~overlapped', ~overlapped => Alone
  PROVE  ~overlapped /\ Alone'
<1>1. ASSUME NEW p \in Posters, Start(p)
      PROVE  ~overlapped /\ Alone'
  <2>1. ~overlapped /\ \A q \in Posters : pc[q] = "idle"
    BY <1>1 DEF Start, Working
  <2>2. \A q \in Posters \ {p} : pc'[q] = "idle"
    BY <1>1, <2>1 DEF Start, TypeOK
  <2>3. QED
    BY <2>1, <2>2 DEF Alone, Working
<1>2. ASSUME NEW p \in Posters, Step(p) \/ GitHubError(p) \/ Crash(p)
      PROVE  ~overlapped /\ Alone'
  <2>1. overlapped' = overlapped /\ pc[p] # "idle"
    BY <1>2 DEF Step, Skip, Plan, Find, CreateIssue, RecordIssue, LookForMarker,
                CreateComment, RecordPost, CommitPost, Finish, GitHubError, Crash, Working
  <2>2. \A q \in Posters \ {p} : pc'[q] = pc[q]
    BY <1>2, OneMoves
  <2>3. \A q \in Posters : pc'[q] # "idle" => pc[q] # "idle"
    BY <2>1, <2>2
  <2>4. QED
    BY <2>1, <2>3 DEF Alone, Working
<1>3. CASE UNCHANGED <<pc, overlapped>>
  BY <1>3 DEF Alone, Working
<1>4. QED
  BY <1>1, <1>2, <1>3 DEF Next, vars, Grade, Age

\* A poster that creates an issue or a comment has not found one.
LEMMA UnfoundKept ==
  ASSUME Sound, OneIssue, NEW p \in Posters, Step(p)
  PROVE  Unfound(p)'
<1>1. TypeOK /\ PosterSound(p) /\ CommentsPlaced
  BY DEF Sound
<1>2. CASE Find(p) /\ pc'[p] = "create"
  <2>1. Known(AttemptAt(p)) = {} /\ todo' = todo /\ issues' = issues
    BY <1>1, <1>2 DEF Find, TypeOK, github
  <2>2. \A n \in 1..Len(issues) : issues[n] # AttemptAt(p)
    BY <2>1 DEF Known
  <2>3. QED
    BY <1>2, <2>1, <2>2, SameCurrent DEF Unfound
<1>3. CASE LookForMarker(p) /\ pc'[p] = "comment"
  <2>1. /\ todo' = todo /\ comments' = comments
        /\ ~Commented(Current(p), number[p]) /\ IssueFor(number[p], Current(p))
    BY <1>1, <1>3 DEF LookForMarker, Looked, TypeOK, PosterSound, Numbered, github
  <2>2. ASSUME NEW i \in 1..Len(comments), comments[i].commit = Current(p)
        PROVE  FALSE
    <3>1. IssueFor(comments[i].issue, Current(p))
      BY <1>1, <2>2 DEF CommentsPlaced
    <3>2. comments[i].issue = number[p]
      BY <2>1, <3>1 DEF OneIssue, IssueFor
    <3>3. comments[i] \in [issue : Nat, commit : Commits]
      <4>1. comments \in Seq([issue : Nat, commit : Commits]) /\ i \in 1..Len(comments)
        BY <1>1, <2>2 DEF TypeOK
      <4>2. QED
        BY <4>1, ElementOf
    <3>4. comments[i] = [issue |-> number[p], commit |-> Current(p)]
      BY <2>2, <3>2, <3>3
    <3>5. QED
      BY <2>1, <3>4 DEF Commented
  <2>3. QED
    BY <1>3, <2>1, <2>2, SameCurrent DEF Unfound
<1>4. CASE pc'[p] \notin {"create", "comment"}
  BY <1>4 DEF Unfound
<1> HIDE DEF Unfound
<1>5. pc \in [Posters -> {"idle", "next", "find", "create", "record", "look",
                         "comment", "save", "commit"}]
  BY <1>1 DEF TypeOK
<1>6. CASE Skip(p) \/ CommitPost(p) \/ Finish(p)
  <2>1. pc'[p] \in {"next", "idle"}
    BY <1>5, <1>6 DEF Skip, CommitPost, Finish, NextCommit, Idle
  <2>2. QED
    BY <1>4, <2>1
<1>7. CASE Plan(p) \/ CreateIssue(p) \/ RecordIssue(p) \/ CreateComment(p) \/ RecordPost(p)
  <2>1. pc'[p] \in {"find", "record", "look", "save", "commit"}
    BY <1>5, <1>7 DEF Plan, CreateIssue, RecordIssue, CreateComment, RecordPost
  <2>2. QED
    BY <1>4, <2>1
<1>8. CASE Find(p)
  <2>1. pc'[p] \in {"create", "record"}
    BY <1>5, <1>8 DEF Find
  <2>2. QED
    BY <1>2, <1>4, <1>8, <2>1
<1>9. CASE LookForMarker(p)
  <2>1. pc'[p] \in {"save", "comment"}
    BY <1>5, <1>9 DEF LookForMarker, Looked
  <2>2. QED
    BY <1>3, <1>4, <1>9, <2>1
<1>10. QED
  BY <1>6, <1>7, <1>8, <1>9 DEF Step

\* What is created was not there.
LEMMA IssueKept ==
  ASSUME Sound, [Next]_vars, OneIssue, \A p \in Posters : Unfound(p)
  PROVE  OneIssue'
<1>1. TypeOK /\ issues \in Seq(Attempts) /\ Len(issues) \in Nat
  BY DEF Sound, TypeOK
<1>2. CASE issues' = issues
  BY <1>2 DEF OneIssue
<1>3. ASSUME NEW p \in Posters, pc[p] = "create", issues' = Append(issues, AttemptAt(p))
      PROVE  OneIssue'
  <2>1. AttemptAt(p) \in Attempts
    BY <1>1, <1>3, CurrentAtWork
  <2>2. /\ Len(issues') = Len(issues) + 1
        /\ \A n \in 1..Len(issues) : issues'[n] = issues[n]
        /\ issues'[Len(issues) + 1] = AttemptAt(p)
    BY <1>1, <1>3, <2>1, Appended
  <2>3. \A n \in 1..Len(issues) : issues[n] # AttemptAt(p)
    BY <1>3 DEF Unfound
  <2>4. QED
    BY <1>1, <2>2, <2>3 DEF OneIssue
<1>4. issues' = issues \/ \E p \in Posters : pc[p] = "create" /\ issues' = Append(issues, AttemptAt(p))
  BY DEF Next, Step, vars, Grade, Age, Start, Skip, Plan, Find, CreateIssue, RecordIssue,
         LookForMarker, CreateComment, RecordPost, CommitPost, GitHubError, Finish, Crash, github
<1>5. QED
  BY <1>2, <1>3, <1>4

\* And what is posted was not there.
LEMMA CommentKept ==
  ASSUME Sound, [Next]_vars, OneComment, \A p \in Posters : Unfound(p)
  PROVE  OneComment'
<1>1. /\ TypeOK /\ Len(comments) \in Nat
      /\ comments \in Seq([issue : Nat, commit : Commits])
  BY DEF Sound, TypeOK
<1>2. CASE comments' = comments
  BY <1>2 DEF OneComment
<1>3. ASSUME NEW p \in Posters, pc[p] = "comment",
             comments' = Append(comments, [issue |-> number[p], commit |-> Current(p)])
      PROVE  OneComment'
  <2> DEFINE r == [issue |-> number[p], commit |-> Current(p)]
  <2>1. r \in [issue : Nat, commit : Commits] /\ r.commit = Current(p)
    BY <1>1, <1>3, CurrentAtWork DEF TypeOK
  <2>2. comments' = Append(comments, r)
    BY <1>3
  <2> HIDE DEF r
  <2>3. /\ Len(comments') = Len(comments) + 1
        /\ \A n \in 1..Len(comments) : comments'[n] = comments[n]
        /\ comments'[Len(comments) + 1] = r
    BY <1>1, <2>1, <2>2, Appended
  <2>4. \A n \in 1..Len(comments) : comments[n].commit # r.commit
    BY <1>3, <2>1 DEF Unfound
  <2>5. QED
    BY <1>1, <2>3, <2>4 DEF OneComment
<1>4. comments' = comments
      \/ \E p \in Posters : /\ pc[p] = "comment"
                            /\ comments' = Append(comments, [issue |-> number[p], commit |-> Current(p)])
  BY DEF Next, Step, vars, Grade, Age, Start, Skip, Plan, Find, CreateIssue, RecordIssue,
         LookForMarker, CreateComment, RecordPost, CommitPost, GitHubError, Finish, Crash, github
<1>5. QED
  BY <1>2, <1>3, <1>4

\* Every step keeps Single.
LEMMA SingleKept ==
  ASSUME Sound, Single, [Next]_vars
  PROVE  Single'
<1> SUFFICES ASSUME ~overlapped'
             PROVE  Alone' /\ OneIssue' /\ OneComment' /\ \A q \in Posters : Unfound(q)'
  BY DEF Single
<1>1. TypeOK
  BY DEF Sound
<1>2. ~overlapped /\ Alone'
  BY <1>1, AloneKept DEF Single
<1>3. Alone /\ OneIssue /\ OneComment /\ \A q \in Posters : Unfound(q)
  BY <1>2 DEF Single
<1>4. OneIssue' /\ OneComment'
  BY <1>3, IssueKept, CommentKept
<1>5. ASSUME NEW q \in Posters
      PROVE  Unfound(q)'
  <2>1. CASE pc'[q] = "idle"
    BY <2>1 DEF Unfound
  <2>2. ASSUME NEW p \in Posters, Start(p) \/ GitHubError(p) \/ Crash(p)
        PROVE  Unfound(q)'
    <3>1. pc'[p] \in {"idle", "next"}
      BY <1>1, <2>2 DEF Start, GitHubError, Crash, NextCommit, Idle, TypeOK
    <3>2. q # p => pc'[q] = "idle"
      <4>1. CASE Start(p)
        BY <1>1, <1>2, <4>1 DEF Start, Working, TypeOK
      <4>2. CASE GitHubError(p) \/ Crash(p)
        BY <1>1, <1>3, <4>2, OneMoves DEF GitHubError, Crash, Working, Alone
      <4>3. QED
        BY <2>2, <4>1, <4>2
    <3>3. QED
      BY <3>1, <3>2 DEF Unfound
  <2>3. ASSUME NEW p \in Posters, Step(p)
        PROVE  Unfound(q)'
    <3>1. Unfound(p)'
      BY <1>3, <2>3, UnfoundKept
    <3>2. Working(p)
      BY <2>3 DEF Step, Skip, Plan, Find, CreateIssue, RecordIssue, LookForMarker,
                  CreateComment, RecordPost, CommitPost, Finish, Working
    <3>3. q # p => pc'[q] = "idle"
      BY <1>1, <1>3, <2>3, <3>2, OneMoves DEF Working, Alone
    <3>4. CASE q = p
      BY <3>1, <3>4
    <3>5. CASE q # p
      BY <3>3, <3>5 DEF Unfound
    <3>6. QED
      BY <3>4, <3>5
  <2>4. CASE UNCHANGED <<pc, todo, issues, comments>>
    <3>1. Current(q)' = Current(q) /\ AttemptAt(q)' = AttemptAt(q)
      BY <2>4, SameCurrent
    <3>2. QED
      BY <1>3, <2>4, <3>1 DEF Unfound
  <2>5. QED
    BY <2>2, <2>3, <2>4 DEF Next, vars, Grade, Age, github
<1>6. QED
  BY <1>2, <1>4, <1>5

\* With nobody at work nothing is posted twice.
LEMMA InitSingle ==
  Init => Single
<1> SUFFICES ASSUME Init
             PROVE  Single
  OBVIOUS
<1>1. issues = <<>> /\ comments = <<>> /\ Len(<<>>) = 0
  BY DEF Init
<1>2. \A p \in Posters : pc[p] = "idle"
  BY DEF Init
<1>3. QED
  BY <1>1, <1>2 DEF Single, Alone, OneIssue, OneComment, Unfound, Working

\* A set whose elements are all equal has at most one.
LEMMA AtMostOne ==
  ASSUME NEW S, \A i, j \in S : i = j
  PROVE  Cardinality(S) <= 1
<1>1. CASE S = {}
  BY <1>1, FS_EmptySet
<1>2. CASE S # {}
  <2>1. PICK i \in S : S = {i}
    BY <1>2
  <2>2. IsFiniteSet({i}) /\ Cardinality({i}) = 1
    BY FS_Singleton
  <2>3. QED
    BY <2>1, <2>2
<1>3. QED
  BY <1>1, <1>2

\* D-089: one comment of a graded commit, however often GitHub fails or a run is
\* killed between the POST and the commit of its row, while no two runs overlap
\* (the search for the marker in post_issue_feedback).
THEOREM OneCommentOfACommit == Spec => []OneCommentPerCommit
<1>1. Init => Sound /\ Single
  BY InitSound, InitSingle
<1>2. Sound /\ Single /\ [Next]_vars => Sound' /\ Single'
  BY SoundKept, SingleKept
<1>3. Single => OneCommentPerCommit
  <2> SUFFICES ASSUME Single, ~overlapped, NEW c \in Commits
               PROVE  Cardinality(CommentsOn(c)) <= 1
    BY DEF OneCommentPerCommit
  <2>1. \A i, j \in CommentsOn(c) : i = j
    BY DEF Single, OneComment, CommentsOn
  <2>2. QED
    BY <2>1, AtMostOne
<1>4. QED
  BY <1>1, <1>2, <1>3, PTL DEF Spec

\* D-089: and one issue of an attempt (ensure_issue looks for the title before it
\* creates one).
THEOREM OneIssueOfAnAttempt == Spec => []OneIssuePerAttempt
<1>1. Init => Sound /\ Single
  BY InitSound, InitSingle
<1>2. Sound /\ Single /\ [Next]_vars => Sound' /\ Single'
  BY SoundKept, SingleKept
<1>3. Single => OneIssuePerAttempt
  BY DEF Single, OneIssue, OneIssuePerAttempt
<1>4. QED
  BY <1>1, <1>2, <1>3, PTL DEF Spec
=============================================================================
