----------------------------- MODULE RulesProofs -----------------------------
(***************************************************************************)
(* Proofs about the history half of Rules, for every set of commits, dates *)
(* and checks and every order in which they are graded; and about the file *)
(* half, for every master: what the parser accepts, what is released, and  *)
(* which lines of what a student hands in are judged.                      *)
(***************************************************************************)
EXTENDS Rules, FiniteSetTheorems, WellFoundedInduction, TLAPS

-----------------------------------------------------------------------------
(* A text only reads the rows that AsOf gives it. *)

\* The rows two states agree on, as far as the history of commit c goes.
SameRows(c) == \A d \in Commits : Date[d] <= Date[c] => rows'[d] = rows[d]

LEMMA SameHistory ==
  ASSUME NEW c \in Commits, SameRows(c)
  PROVE  /\ AsOf(c)' = AsOf(c) /\ AsOf(c) \subseteq Commits
         /\ \A d \in AsOf(c) : rows'[d] = rows[d]
BY CommitsAssumption DEF SameRows, AsOf, Graded, Local

LEMMA SameRecurring ==
  ASSUME NEW c \in Commits, SameRows(c)
  PROVE  Recurring(AsOf(c))' = Recurring(AsOf(c))
<1> DEFINE Under(g) == {d \in AsOf(c) : \E t \in Checks : <<d, t>> \in Observed(AsOf(c))
                                           /\ GapOf[t] = g /\ FailedRow(<<d, t>>)}
<1>1. \A g : Under(g)' = Under(g)
  BY SameHistory DEF Observed, FailedRow
<1>2. Recurring(AsOf(c)) = {g \in DOMAIN ConceptsOf :
                              Cardinality(Under(g)) >= RecurrenceMinCommits}
  BY DEF Recurring
<1>3. Recurring(AsOf(c))' = {g \in DOMAIN ConceptsOf :
                               Cardinality(Under(g)') >= RecurrenceMinCommits}
  BY DEF Recurring
<1> QED BY <1>1, <1>2, <1>3

LEMMA SameWeakest ==
  ASSUME NEW c \in Commits, SameRows(c)
  PROVE  WeakestConcept(AsOf(c))' = WeakestConcept(AsOf(c))
<1>1. /\ \A k : RowsOf(k, AsOf(c))' = RowsOf(k, AsOf(c))
      /\ \A k : Passes(k, AsOf(c))' = Passes(k, AsOf(c))
  BY SameHistory DEF RowsOf, Passes, Observed, FailedRow
<1> DEFINE Seen == {k \in UNION {ConceptsOf[g] : g \in DOMAIN ConceptsOf} :
                     RowsOf(k, AsOf(c)) # {}}
           AtMost(k, l) == Passes(k, AsOf(c)) * Cardinality(RowsOf(l, AsOf(c)))
                             <= Passes(l, AsOf(c)) * Cardinality(RowsOf(k, AsOf(c)))
           Lowest == {k \in Seen : \A l \in Seen : AtMost(k, l)}
           Weak == {k \in Lowest : Passes(k, AsOf(c)) < Cardinality(RowsOf(k, AsOf(c)))}
<1>2. Seen' = Seen
  BY <1>1
<1>3. \A k, l : AtMost(k, l)' <=> AtMost(k, l)
  BY <1>1
<1>4. Lowest' = Lowest
  <2> HIDE DEF Seen, AtMost
  <2> QED BY <1>2, <1>3
<1>5. Weak' = Weak
  <2> HIDE DEF Lowest
  <2> QED BY <1>1, <1>4
<1>6. WeakestConcept(AsOf(c)) = IF Weak = {} THEN "none" ELSE Min(Weak)
  BY DEF WeakestConcept
<1>7. WeakestConcept(AsOf(c))' = IF Weak' = {} THEN "none" ELSE Min(Weak')
  BY DEF WeakestConcept
<1> HIDE DEF Weak
<1> QED BY <1>5, <1>6, <1>7

LEMMA SameMessage ==
  ASSUME NEW c \in Commits, SameRows(c)
  PROVE  Message(c)' = Message(c)
<1>1. rows'[c] = rows[c]
  BY CommitsAssumption DEF SameRows
<1> QED BY <1>1, SameRecurring, SameWeakest DEF Message, Diagnose

\* The text of a commit knows nothing of commits dated after it, whatever
\* their dates are and in whatever order they are graded.
THEOREM TextStops == Spec => HistoryStops
<1>1. [\A c \in Commits :
        /\ HasMessage(c) /\ HasMessage(c)'
        /\ \A d \in Commits : Date[d] <= Date[c] => rows'[d] = rows[d]
        => Message(c)' = Message(c)]_histvars
  BY SameMessage DEF SameRows
<1> QED BY <1>1, PTL DEF HistoryStops

----------------------------------------------------------------------------
(* Folds over 1..k.  The parser, the renderer, the diff and the merge of     *)
(* ranges are folds with different steps; x tells which: one induction      *)
(* serves all.                                                              *)

Begin == [gaps |-> <<>>, markers |-> {}, open |-> NoGap, error |-> "none"]
Parsing(m)          == [fold |-> "parse", m |-> m]
Rendering(m, hide)  == [fold |-> "render", m |-> m, st |-> Structure(m), hide |-> hide]
Aligning(a, b)      == [fold |-> "align", a |-> a, b |-> b]
Merging(s)          == [fold |-> "merge", s |-> s]
Base(x)       == IF x.fold = "parse" THEN Begin
                 ELSE IF x.fold = "align" THEN {<<0, 0>>, End(x.a, x.b)} ELSE <<>>
Onward(x, s, n) == IF x.fold = "parse" THEN ReadLine(s, x.m[n], n)
                   ELSE IF x.fold = "render" THEN s \o Rendered(x.m, x.st, x.hide, n)
                   ELSE IF x.fold = "align" THEN Round(x.a, x.b, s)
                   ELSE Join(s, x.s[n])

\* f is the function the fold of x over 1..k chooses.
Folds(x, f, k) ==
  f = [s \in SUBSET (1..k) |-> IF s = {} THEN Base(x)
                               ELSE Onward(x, f[s \ {Max(s)}], Max(s))]
Folded(x, k) == (CHOOSE f : Folds(x, f, k))[1..k]

LEMMA HasLeast ==
  ASSUME NEW S \in SUBSET Nat, S # {}
  PROVE  \E c \in S : \A d \in S : c <= d
<1>1. PICK c \in S : \A d \in S : ~ (<<d, c>> \in OpToRel(<, Nat))
  BY NatLessThanWellFounded, WFMin
<1>2. \A d \in S : ~ (d < c)
  BY <1>1 DEF OpToRel
<1> QED BY <1>2

\* Induction, over a set.
LEMMA Climbs ==
  ASSUME NEW N \in Nat, NEW S, 0 \in S, \A k \in 0..(N - 1) : k \in S => k + 1 \in S
  PROVE  \A k \in 0..N : k \in S
<1> DEFINE Out == {k \in 0..N : k \notin S}
<1> SUFFICES ASSUME Out # {} PROVE FALSE
  OBVIOUS
<1>1. PICK k \in Out : \A j \in Out : k <= j
  <2>1. Out \in SUBSET Nat
    OBVIOUS
  <2> HIDE DEF Out
  <2> QED BY <2>1, HasLeast
<1>2. k # 0 /\ k - 1 \in 0..(N - 1) /\ k - 1 \notin Out
  BY <1>1
<1> QED BY <1>1, <1>2

LEMMA MaxIs ==
  ASSUME NEW k \in Nat, NEW s \in SUBSET (1..k), s # {}
  PROVE  Max(s) \in s /\ \A y \in s : Max(s) >= y
<1> DEFINE S == {k - y : y \in s}
<1>1. \A y \in s : y \in Nat /\ k - y \in Nat
  OBVIOUS
<1>2. S \in SUBSET Nat /\ S # {}
  BY <1>1
<1>3. PICK c \in S : \A d \in S : c <= d
  BY <1>2, HasLeast
<1>4. PICK x \in s : c = k - x
  BY <1>3
<1>5. ASSUME NEW y \in s PROVE x >= y
  <2>1. k - y \in S
    OBVIOUS
  <2>2. k - x <= k - y
    BY <1>3, <1>4, <2>1
  <2> QED BY <1>1, <2>2
<1> QED BY <1>5 DEF Max

\* What is left of a set of numbers without its greatest.
LEMMA BelowMax ==
  ASSUME NEW k \in Nat, NEW s \in SUBSET (1..k), s # {}
  PROVE  /\ Max(s) \in 1..k /\ s \ {Max(s)} \in SUBSET (1..k)
         /\ s \ {Max(s)} \in SUBSET (1..(k - 1))
<1>1. Max(s) \in s /\ \A y \in s : Max(s) >= y
  BY MaxIs
<1>2. \A y \in s : y \in Nat /\ 1 <= y /\ y <= k
  OBVIOUS
<1>3. ASSUME NEW y \in s \ {Max(s)} PROVE y \in 1..(k - 1)
  <2>1. /\ y \in Nat /\ 1 <= y /\ y <= k /\ y # Max(s)
        /\ Max(s) \in Nat /\ Max(s) <= k /\ Max(s) >= y
    BY <1>1, <1>2
  <2> QED BY <2>1
<1> QED BY <1>1, <1>3

LEMMA FoldExists ==
  ASSUME NEW x, NEW k \in Nat
  PROVE  \E f : Folds(x, f, k)
<1> DEFINE Missing == {i \in Nat : ~ \E f : Folds(x, f, i)}
<1> SUFFICES ASSUME Missing # {} PROVE FALSE
  OBVIOUS
<1>1. PICK i \in Missing : \A j \in Missing : i <= j
  <2>1. Missing \in SUBSET Nat
    OBVIOUS
  <2> HIDE DEF Missing
  <2> QED BY <2>1, HasLeast
<1>2. i # 0
  <2>1. Folds(x, [s \in SUBSET (1..0) |-> Base(x)], 0)
    BY DEF Folds
  <2> QED BY <1>1, <2>1
<1>3. i - 1 \in Nat /\ i - 1 \notin Missing
  BY <1>1, <1>2
<1>4. PICK f : Folds(x, f, i - 1)
  BY <1>3
<1> DEFINE g == [s \in SUBSET (1..i) |-> IF s = {} THEN Base(x)
                                         ELSE Onward(x, f[s \ {Max(s)}], Max(s))]
<1>5. ASSUME NEW t \in SUBSET (1..(i - 1)) PROVE g[t] = f[t]
  <2>1. t \in SUBSET (1..i)
    BY <1>1, <1>3
  <2>2. f[t] = IF t = {} THEN Base(x) ELSE Onward(x, f[t \ {Max(t)}], Max(t))
    BY <1>4 DEF Folds
  <2> QED BY <2>1, <2>2
<1>6. \A s \in SUBSET (1..i) : s # {} => s \ {Max(s)} \in SUBSET (1..(i - 1))
  BY <1>1, BelowMax
<1>7. \A s \in SUBSET (1..i) : s # {} => g[s \ {Max(s)}] = f[s \ {Max(s)}]
  BY <1>5, <1>6
<1>8. \A s \in SUBSET (1..i) : g[s] = IF s = {} THEN Base(x)
                                      ELSE Onward(x, g[s \ {Max(s)}], Max(s))
  BY <1>7
<1>9. Folds(x, g, i)
  BY <1>8 DEF Folds
<1> QED BY <1>1, <1>9

\* The fold of 1..l inside that of 1..k.
LEMMA FoldInside ==
  ASSUME NEW x, NEW k \in Nat, NEW f, Folds(x, f, k)
  PROVE  /\ f[1..0] = Base(x)
         /\ \A l \in 1..k : f[1..l] = Onward(x, f[1..(l - 1)], l)
<1>1. \A s \in SUBSET (1..k) : f[s] = IF s = {} THEN Base(x)
                                      ELSE Onward(x, f[s \ {Max(s)}], Max(s))
  BY DEF Folds
<1>2. ASSUME NEW l \in 1..k PROVE f[1..l] = Onward(x, f[1..(l - 1)], l)
  <2>1. Max(1..l) = l
    <3>1. 1..l \in SUBSET (1..k) /\ l \in 1..l
      OBVIOUS
    <3>2. Max(1..l) \in 1..l /\ Max(1..l) >= l
      BY <3>1, MaxIs
    <3> QED BY <3>2
  <2>2. (1..l) \ {l} = 1..(l - 1) /\ 1..l # {} /\ 1..l \in SUBSET (1..k)
    OBVIOUS
  <2> QED BY <1>1, <2>1, <2>2
<1>3. f[1..0] = Base(x)
  <2>1. 1..0 = {} /\ {} \in SUBSET (1..k)
    OBVIOUS
  <2> QED BY <1>1, <2>1
<1> QED BY <1>2, <1>3

\* The fold, one element at a time.
LEMMA FoldStep ==
  ASSUME NEW x
  PROVE  /\ Folded(x, 0) = Base(x)
         /\ \A k \in Nat : Folded(x, k + 1) = Onward(x, Folded(x, k), k + 1)
<1>1. \A k \in Nat : Folds(x, CHOOSE f : Folds(x, f, k), k)
  BY FoldExists
<1>2. Folded(x, 0) = Base(x)
  BY <1>1, FoldInside DEF Folded
<1>3. ASSUME NEW k \in Nat
      PROVE  Folded(x, k + 1) = Onward(x, Folded(x, k), k + 1)
  <2> DEFINE f == CHOOSE f : Folds(x, f, k)
             g == CHOOSE g : Folds(x, g, k + 1)
             Apart == {l \in 0..k : f[1..l] # g[1..l]}
  <2>1. Folds(x, f, k) /\ Folds(x, g, k + 1)
    BY <1>1
  <2>2. Folded(x, k) = f[1..k] /\ Folded(x, k + 1) = g[1..(k + 1)]
    BY DEF Folded
  <2> HIDE DEF f, g
  <2>3. /\ f[1..0] = Base(x) /\ g[1..0] = Base(x)
        /\ \A l \in 1..k : f[1..l] = Onward(x, f[1..(l - 1)], l)
        /\ \A l \in 1..(k + 1) : g[1..l] = Onward(x, g[1..(l - 1)], l)
    BY <2>1, FoldInside
  <2>4. Apart = {}
    <3> SUFFICES ASSUME Apart # {} PROVE FALSE
      OBVIOUS
    <3>1. PICK l \in Apart : \A j \in Apart : l <= j
      <4>1. Apart \in SUBSET Nat
        OBVIOUS
      <4> HIDE DEF Apart
      <4> QED BY <4>1, HasLeast
    <3>2. l \in 1..k /\ l - 1 \in 0..k /\ l - 1 \notin Apart
      BY <2>3, <3>1
    <3> QED BY <2>3, <3>1, <3>2
  <2>5. f[1..k] = g[1..k]
    BY <2>4
  <2>6. g[1..(k + 1)] = Onward(x, g[1..k], k + 1)
    BY <2>3
  <2> QED BY <2>2, <2>5, <2>6
<1> QED BY <1>2, <1>3

----------------------------------------------------------------------------
(* The blocks of a master.                                                 *)

\* A master as MasterAssumption has it.
Lines(m) == /\ Len(m) \in Nat
            /\ \A n \in 1..Len(m) : /\ m[n].kind \in Kinds
                                    /\ m[n].kind = "gap" => m[n].defects \subseteq Defects

LEMMA BlockIs ==
  ASSUME NEW m, Lines(m), NEW n \in 1..Len(m)
  PROVE  /\ BlockEnd(m, n) \in (n + 1)..(Len(m) + 1)
         /\ BlockEnd(m, n) = Len(m) + 1 \/ IsMark(m, BlockEnd(m, n))
         /\ \A k \in (n + 1)..(BlockEnd(m, n) - 1) : ~IsMark(m, k)
<1> DEFINE S == {e \in (n + 1)..(Len(m) + 1) : e = Len(m) + 1 \/ IsMark(m, e)}
<1>1. Len(m) \in Nat
  BY DEF Lines
<1>2. S \in SUBSET Nat /\ Len(m) + 1 \in S
  BY <1>1
<1>3. PICK e \in S : \A d \in S : e <= d
  <2> HIDE DEF S
  <2> QED BY <1>2, HasLeast
<1>4. \A k \in (n + 1)..(e - 1) : ~IsMark(m, k)
  <2> SUFFICES ASSUME NEW k \in (n + 1)..(e - 1), IsMark(m, k) PROVE FALSE
    OBVIOUS
  <2>1. k \in S /\ k < e
    BY <1>1, <1>3
  <2> QED BY <1>3, <2>1
<1> QED BY <1>3, <1>4 DEF BlockEnd

LEMMA BodyIs ==
  ASSUME NEW m, Lines(m), NEW n \in 1..Len(m)
  PROVE  /\ BodyStart(m, n) \in (n + 1)..BlockEnd(m, n)
         /\ BodyStart(m, n) = BlockEnd(m, n) \/ m[BodyStart(m, n)].kind = "code"
         /\ \A k \in (n + 1)..(BodyStart(m, n) - 1) : m[k].kind # "code"
<1> DEFINE E == BlockEnd(m, n)
           S == {b \in (n + 1)..E : b = E \/ m[b].kind = "code"}
<1>1. Len(m) \in Nat /\ E \in (n + 1)..(Len(m) + 1) /\ E \in Nat
  BY BlockIs DEF Lines
<1> HIDE DEF E
<1>2. S \in SUBSET Nat /\ E \in S
  BY <1>1
<1>3. PICK b \in S : \A d \in S : b <= d
  <2> HIDE DEF S
  <2> QED BY <1>2, HasLeast
<1>4. \A k \in (n + 1)..(b - 1) : m[k].kind # "code"
  <2> SUFFICES ASSUME NEW k \in (n + 1)..(b - 1), m[k].kind = "code" PROVE FALSE
    OBVIOUS
  <2>1. k \in S /\ k < b
    BY <1>1, <1>3
  <2> QED BY <1>3, <2>1
<1>5. BodyStart(m, n) = CHOOSE c \in (n + 1)..E : /\ c = E \/ m[c].kind = "code"
                                                 /\ \A k \in (n + 1)..(c - 1) : m[k].kind # "code"
  BY DEF BodyStart, E
<1> QED BY <1>3, <1>4, <1>5 DEF E

\* The first k lines may begin a well-formed master: the gaps closed in them are right.
Closed(m, k) == {n \in Headers(m) : BlockEnd(m, n) <= k}
Opens(m, k)  == {n \in Headers(m) : n <= k /\ BlockEnd(m, n) > k}
Prefix(m, k) ==
  /\ \A n \in Headers(m) : n <= k =>
       /\ m[n].defects = {}
       /\ \A j \in Headers(m) \ {n} : j <= k => m[j].id # m[n].id
  /\ \A n \in Closed(m, k) :
       /\ m[BlockEnd(m, n)].kind = "endgap" /\ m[n + 1].kind = "instruct"
       /\ BodyStart(m, n) < BlockEnd(m, n)
  /\ \A e \in 1..Len(m) : e <= k /\ m[e].kind = "endgap" =>
       \E n \in Headers(m) : BlockEnd(m, n) = e

\* Blocks follow one another: of two headers the first one's block ends first.
LEMMA BlocksApart ==
  ASSUME NEW m, Lines(m), NEW n \in Headers(m), NEW j \in Headers(m), n < j
  PROVE  BlockEnd(m, n) <= j
<1>1. n \in 1..Len(m) /\ j \in 1..Len(m) /\ Len(m) \in Nat /\ IsMark(m, j)
  BY DEF Headers, IsMark, Lines
<1> QED BY <1>1, BlockIs

\* What the next line does to the blocks.
LEMMA NextLine ==
  ASSUME NEW m, Lines(m), NEW k \in Nat, k < Len(m)
  PROVE  /\ \A n \in Opens(m, k), j \in Opens(m, k) : n = j
         /\ IsMark(m, k + 1) => /\ \A n \in Opens(m, k) : BlockEnd(m, n) = k + 1
                                /\ Closed(m, k + 1) = Closed(m, k) \cup Opens(m, k)
         /\ ~IsMark(m, k + 1) => /\ Closed(m, k + 1) = Closed(m, k)
                                 /\ Opens(m, k + 1) = Opens(m, k)
         /\ Opens(m, k + 1) = IF m[k + 1].kind = "gap" THEN {k + 1}
                              ELSE IF IsMark(m, k + 1) THEN {} ELSE Opens(m, k)
         /\ \A n \in Headers(m) : n <= k <=> n \in Closed(m, k) \/ n \in Opens(m, k)
<1>1. /\ Len(m) \in Nat /\ k + 1 \in 1..Len(m)
      /\ \A n \in Headers(m) : n \in 1..Len(m)
      /\ \A n \in Headers(m) : /\ BlockEnd(m, n) \in (n + 1)..(Len(m) + 1)
                               /\ BlockEnd(m, n) = Len(m) + 1 \/ IsMark(m, BlockEnd(m, n))
                               /\ \A l \in (n + 1)..(BlockEnd(m, n) - 1) : ~IsMark(m, l)
  BY BlockIs DEF Headers, Lines
<1>2. \A n \in Headers(m) : n \in Nat /\ BlockEnd(m, n) \in Nat /\ n < BlockEnd(m, n)
  BY <1>1
<1>3. \A n \in Opens(m, k), j \in Opens(m, k) : n = j
  <2> SUFFICES ASSUME NEW n \in Opens(m, k), NEW j \in Opens(m, k), n < j PROVE FALSE
    BY <1>2 DEF Opens
  <2>1. BlockEnd(m, n) <= j
    BY BlocksApart DEF Opens
  <2> QED BY <1>2, <2>1 DEF Opens
<1>4. ASSUME NEW n \in Opens(m, k), IsMark(m, k + 1)
      PROVE  BlockEnd(m, n) = k + 1
  <2>1. n \in Headers(m) /\ n <= k /\ BlockEnd(m, n) > k
    BY DEF Opens
  <2> QED BY <1>1, <1>2, <1>4, <2>1
<1>5. ASSUME NEW n \in Headers(m), ~IsMark(m, k + 1)
      PROVE  BlockEnd(m, n) # k + 1
  BY <1>1, <1>5
<1>6. \A n \in Headers(m) : n <= k <=> n \in Closed(m, k) \/ n \in Opens(m, k)
  BY <1>2 DEF Closed, Opens
<1>7. \A n \in Headers(m) : BlockEnd(m, n) = k + 1 => n \in Opens(m, k)
  BY <1>2 DEF Opens
<1>8. \A n \in Headers(m) : BlockEnd(m, n) <= k + 1 <=> BlockEnd(m, n) <= k \/ BlockEnd(m, n) = k + 1
  BY <1>2
<1>9. IsMark(m, k + 1) => Closed(m, k + 1) = Closed(m, k) \cup Opens(m, k)
  BY <1>4, <1>7, <1>8 DEF Closed, Opens
<1>10. ~IsMark(m, k + 1) => Closed(m, k + 1) = Closed(m, k)
  BY <1>5, <1>8 DEF Closed
<1>11. ~IsMark(m, k + 1) => Opens(m, k + 1) = Opens(m, k) /\ k + 1 \notin Headers(m)
  <2> SUFFICES ASSUME ~IsMark(m, k + 1) PROVE Opens(m, k + 1) = Opens(m, k) /\ k + 1 \notin Headers(m)
    OBVIOUS
  <2>1. k + 1 \notin Headers(m)
    BY DEF Headers, IsMark
  <2>2. \A n \in Headers(m) : /\ n <= k + 1 <=> n <= k
                              /\ BlockEnd(m, n) > k + 1 <=> BlockEnd(m, n) > k
    BY <1>2, <1>5, <2>1
  <2> QED BY <2>1, <2>2 DEF Opens
<1>12. IsMark(m, k + 1) => Opens(m, k + 1) = IF m[k + 1].kind = "gap" THEN {k + 1} ELSE {}
  <2>1. \A n \in Opens(m, k + 1) : n = k + 1 \/ n \in Opens(m, k)
    BY <1>2 DEF Opens
  <2>2. IsMark(m, k + 1) => \A n \in Opens(m, k + 1) : n = k + 1 /\ n \in Headers(m)
    BY <1>2, <1>4, <2>1 DEF Opens
  <2>3. k + 1 \in Headers(m) <=> m[k + 1].kind = "gap"
    BY <1>1 DEF Headers
  <2>4. k + 1 \in Headers(m) => k + 1 \in Opens(m, k + 1)
    BY <1>2 DEF Opens
  <2> QED BY <2>2, <2>3, <2>4
<1>13. m[k + 1].kind = "gap" => IsMark(m, k + 1)
  BY DEF IsMark
<1> QED BY <1>3, <1>4, <1>6, <1>9, <1>10, <1>11, <1>12, <1>13

----------------------------------------------------------------------------
(* What the parser has after k lines.                                      *)

\* The states of the parser, by their fields.
IsState(s) == DOMAIN s = {"gaps", "markers", "open", "error"}
StateIs(s, G, M, O, e) == s.gaps = G /\ s.markers = M /\ s.open = O /\ s.error = e
Open(i, c, n, b, f) == [id |-> i, concepts |-> c, opened |-> n, says |-> b, first |-> f]
GapAt(m, n) == [id |-> m[n].id, concepts |-> m[n].concepts, says |-> Instructed(m, n),
                first |-> BodyStart(m, n), last |-> BlockEnd(m, n) - 1]

\* A line that is no text: a mark, or an instruction of a gap that has one.
Instruct(m, n) == m[n + 1].kind = "instruct"
InInstruction(m, j) ==
  \E n \in Headers(m) : n < j /\ j < BodyStart(m, n) /\ Instruct(m, n)
Marked(m, k) == {j \in 1..k : IsMark(m, j) \/ InInstruction(m, j)}

\* The first line of the body of the open gap n, if it is read by line k.
FirstBy(m, n, k) == IF k = n THEN 0
                    ELSE IF ~Instruct(m, n) THEN n + 1
                    ELSE IF BodyStart(m, n) <= k THEN BodyStart(m, n) ELSE 0
\* The lines of its instruction that are read by line k.
SaidBy(m, n, k) == IF k = n \/ ~Instruct(m, n) THEN 0
                   ELSE IF BodyStart(m, n) <= k THEN BodyStart(m, n) - 1 - n ELSE k - n
Said(m, n, k) == [i \in 1..SaidBy(m, n, k) |-> Says(m[n + i])]
Parsed(m, k) == Folded(Parsing(m), k)
Stands(m, k) ==
  LET s == Parsed(m, k)
  IN  /\ IsState(s) /\ s.error = "none" /\ s.markers = Marked(m, k)
      /\ s.gaps \in Seq(Range(s.gaps))
      /\ Range(s.gaps) = {GapAt(m, n) : n \in Closed(m, k)}
      /\ Opens(m, k) = {} => s.open = NoGap
      /\ \A n \in Opens(m, k) :
           s.open = Open(m[n].id, m[n].concepts, n, Said(m, n, k), FirstBy(m, n, k))

LEMMA FailsWith ==
  ASSUME NEW s, IsState(s), NEW why
  PROVE  Fails(s, why).error = why
BY DEF IsState, Fails

LEMMA StateUpdates ==
  ASSUME NEW s, IsState(s), NEW G2, NEW M2, NEW O2
  PROVE  /\ LET t == [s EXCEPT !.open = O2]
            IN  IsState(t) /\ StateIs(t, s.gaps, s.markers, O2, s.error)
         /\ LET t == [s EXCEPT !.open = O2, !.markers = M2]
            IN  IsState(t) /\ StateIs(t, s.gaps, M2, O2, s.error)
         /\ LET t == [s EXCEPT !.open = O2, !.markers = M2, !.gaps = G2]
            IN  IsState(t) /\ StateIs(t, G2, M2, O2, s.error)
<1>1. LET t == [s EXCEPT !.open = O2]
      IN  IsState(t) /\ StateIs(t, s.gaps, s.markers, O2, s.error)
  BY DEF IsState, StateIs
<1>2. LET t == [s EXCEPT !.open = O2, !.markers = M2]
      IN  IsState(t) /\ StateIs(t, s.gaps, M2, O2, s.error)
  BY DEF IsState, StateIs
<1>3. LET t == [s EXCEPT !.open = O2, !.markers = M2, !.gaps = G2]
      IN  IsState(t) /\ StateIs(t, G2, M2, O2, s.error)
  BY DEF IsState, StateIs
<1> QED BY <1>1, <1>2, <1>3

LEMMA OpenUpdates ==
  ASSUME NEW i, NEW c, NEW n, NEW b, NEW f, NEW o, o = Open(i, c, n, b, f)
  PROVE  /\ o # NoGap /\ o.id = i /\ o.concepts = c /\ o.says = b /\ o.first = f
         /\ \A b2 : [o EXCEPT !.says = b2] = Open(i, c, n, b2, f)
         /\ \A f2 : [o EXCEPT !.first = f2] = Open(i, c, n, b, f2)
<1>1. "concepts" \in DOMAIN o /\ "concepts" \notin DOMAIN NoGap
  BY DEF Open, NoGap
<1>2. o.id = i /\ o.concepts = c /\ o.says = b /\ o.first = f
  BY DEF Open
<1>3. ASSUME NEW b2 PROVE [o EXCEPT !.says = b2] = Open(i, c, n, b2, f)
  BY DEF Open
<1>4. ASSUME NEW f2 PROVE [o EXCEPT !.first = f2] = Open(i, c, n, b, f2)
  BY DEF Open
<1> QED BY <1>1, <1>2, <1>3, <1>4

\* What is said of an open gap's instruction, and what the next line adds.
LEMMA SaidIs ==
  ASSUME NEW m, Lines(m), NEW k \in Nat, k <= Len(m),
         NEW n \in 1..Len(m), n <= k, BlockEnd(m, n) > k
  PROVE  /\ Said(m, n, n) = <<>>
         /\ Said(m, n, k) # <<>> <=> k > n /\ Instruct(m, n)
         /\ k > n /\ Instruct(m, n) /\ BodyStart(m, n) <= k => Said(m, n, k) = Instructed(m, n)
<1> DEFINE B == BodyStart(m, n)
           E == BlockEnd(m, n)
<1>1. /\ B \in (n + 1)..E /\ (B = E \/ m[B].kind = "code") /\ E \in (n + 1)..(Len(m) + 1)
      /\ Len(m) \in Nat /\ n \in Nat
  BY BodyIs, BlockIs DEF Lines
<1> HIDE DEF B, E
<1>2. B \in Nat /\ E \in Nat /\ n < B /\ E > k
  BY <1>1 DEF E
<1>3. k > n /\ Instruct(m, n) => B > n + 1
  <2>1. B = n + 1 /\ Instruct(m, n) => B = E
    BY <1>1 DEF Instruct
  <2> QED BY <1>1, <1>2, <2>1
<1>4. SaidBy(m, n, k) = IF k = n \/ ~Instruct(m, n) THEN 0 ELSE IF B <= k THEN B - 1 - n ELSE k - n
  BY DEF SaidBy, B
<1>5. SaidBy(m, n, k) \in Nat /\ (SaidBy(m, n, k) > 0 <=> k > n /\ Instruct(m, n))
  BY <1>1, <1>2, <1>3, <1>4
<1>6. SaidBy(m, n, n) = 0
  BY DEF SaidBy
<1>7. Len(Said(m, n, k)) = SaidBy(m, n, k)
  BY <1>5 DEF Said
<1>8. Said(m, n, k) # <<>> <=> SaidBy(m, n, k) > 0
  <2>1. SaidBy(m, n, k) = 0 => Said(m, n, k) = <<>>
    BY DEF Said
  <2>2. Said(m, n, k) = <<>> => Len(Said(m, n, k)) = 0
    OBVIOUS
  <2> QED BY <1>5, <1>7, <2>1, <2>2
<1>9. k > n /\ Instruct(m, n) /\ B <= k => SaidBy(m, n, k) = B - 1 - n
  BY <1>1, <1>4
<1> QED BY <1>5, <1>6, <1>8, <1>9 DEF Said, Instructed, B

LEMMA SaidNext ==
  ASSUME NEW m, Lines(m), NEW k \in Nat, k < Len(m), NEW n \in 1..Len(m), n <= k
  PROVE  /\ k + 1 < BodyStart(m, n) /\ Instruct(m, n) =>
              Append(Said(m, n, k), Says(m[k + 1])) = Said(m, n, k + 1)
         /\ ~(k + 1 < BodyStart(m, n) /\ Instruct(m, n)) => Said(m, n, k + 1) = Said(m, n, k)
<1> DEFINE B == BodyStart(m, n)
<1>1. B \in Nat /\ n < B /\ n \in Nat /\ Len(m) \in Nat
  <2>1. Len(m) \in Nat /\ BodyStart(m, n) \in (n + 1)..BlockEnd(m, n)
        /\ BlockEnd(m, n) \in (n + 1)..(Len(m) + 1)
    BY BodyIs, BlockIs DEF Lines
  <2> QED BY <2>1
<1>2. \A j \in Nat : SaidBy(m, n, j) = IF j = n \/ ~Instruct(m, n) THEN 0
                                      ELSE IF B <= j THEN B - 1 - n ELSE j - n
  BY DEF SaidBy
<1> HIDE DEF B
<1>3. /\ k + 1 < B /\ Instruct(m, n) => SaidBy(m, n, k) = k - n /\ SaidBy(m, n, k + 1) = k + 1 - n
      /\ ~(k + 1 < B /\ Instruct(m, n)) => SaidBy(m, n, k + 1) = SaidBy(m, n, k)
  BY <1>1, <1>2
<1>4. ASSUME k + 1 < B, Instruct(m, n)
      PROVE  Append(Said(m, n, k), Says(m[k + 1])) = Said(m, n, k + 1)
  <2> DEFINE S == [i \in 1..(k - n) |-> Says(m[n + i])]
             T == [i \in 1..(k + 1 - n) |-> Says(m[n + i])]
             x == Says(m[k + 1])
             V == {Says(m[n + i]) : i \in 1..(k + 1 - n)}
  <2>1. Said(m, n, k) = S /\ Said(m, n, k + 1) = T
    BY <1>3, <1>4 DEF Said
  <2>2. /\ k - n \in Nat /\ k + 1 - n = (k - n) + 1 /\ n + (k + 1 - n) = k + 1
        /\ \A i \in 1..(k - n) : i \in 1..(k + 1 - n)
    BY <1>1
  <2>3. S \in Seq(V) /\ T \in Seq(V) /\ Len(S) = k - n /\ Len(T) = k + 1 - n
    <3>1. /\ \A i \in 1..(k - n) : Says(m[n + i]) \in V
          /\ \A i \in 1..(k + 1 - n) : Says(m[n + i]) \in V
      BY <2>2
    <3>2. k + 1 - n \in Nat
      BY <2>2
    <3> HIDE DEF V
    <3> QED BY <2>2, <3>1, <3>2
  <2>4. \A i \in 1..(k - n) : S[i] = T[i]
    BY <2>2
  <2>5. T[k + 1 - n] = x /\ x \in V
    <3> DEFINE q == k + 1 - n
    <3>1. q \in 1..q /\ n + q = k + 1
      BY <1>1
    <3> HIDE DEF q
    <3>2. T = [i \in 1..q |-> Says(m[n + i])] /\ V = {Says(m[n + i]) : i \in 1..q}
      BY DEF q
    <3>3. T[q] = Says(m[n + q]) /\ Says(m[n + q]) \in V
      <4> HIDE DEF T, V
      <4> QED BY <3>1, <3>2
    <3> QED BY <3>1, <3>3 DEF q
  <2> HIDE DEF S, T, x, V
  <2>7. Append(S, x) = T
    BY <2>2, <2>3, <2>4, <2>5
  <2> QED BY <2>1, <2>7 DEF x
<1> QED BY <1>3, <1>4 DEF Said, B

\* The mark at line k + 1 adds itself to the markers, and so does a line of an
\* instruction; another line adds nothing.
LEMMA MarkedNext ==
  ASSUME NEW m, Lines(m), NEW k \in Nat
  PROVE  Marked(m, k + 1) = IF IsMark(m, k + 1) \/ InInstruction(m, k + 1)
                            THEN Marked(m, k) \cup {k + 1} ELSE Marked(m, k)
<1>1. 1..(k + 1) = (1..k) \cup {k + 1}
  OBVIOUS
<1> QED BY <1>1 DEF Marked

\* A line after k is in an instruction only of the gap that is open after k.
LEMMA InInstructionNext ==
  ASSUME NEW m, Lines(m), NEW k \in Nat, k < Len(m)
  PROVE  InInstruction(m, k + 1) <=> \E n \in Opens(m, k) : k + 1 < BodyStart(m, n) /\ Instruct(m, n)
<1>1. \A n \in Headers(m) : /\ n \in Nat /\ BlockEnd(m, n) \in Nat
                            /\ BodyStart(m, n) \in Nat /\ BodyStart(m, n) <= BlockEnd(m, n)
  <2> SUFFICES ASSUME NEW n \in Headers(m)
               PROVE  /\ n \in Nat /\ BlockEnd(m, n) \in Nat
                      /\ BodyStart(m, n) \in Nat /\ BodyStart(m, n) <= BlockEnd(m, n)
    OBVIOUS
  <2>1. n \in 1..Len(m) /\ Len(m) \in Nat
    BY DEF Headers, Lines
  <2>2. BlockEnd(m, n) \in (n + 1)..(Len(m) + 1) /\ BodyStart(m, n) \in (n + 1)..BlockEnd(m, n)
    BY <2>1, BlockIs, BodyIs
  <2> QED BY <2>1, <2>2
<1>2. \A n \in Headers(m) : n < k + 1 /\ k + 1 < BodyStart(m, n) => n \in Opens(m, k)
  BY <1>1 DEF Opens
<1>3. \A n \in Opens(m, k) : n \in Headers(m) /\ n < k + 1
  BY <1>1 DEF Opens
<1> QED BY <1>2, <1>3 DEF InInstruction

\* When one more line may still begin a well-formed master.
Goes(m, k, l) ==
  CASE m[l].kind = "gap" -> /\ Opens(m, k) = {} /\ m[l].defects = {}
                            /\ \A n \in Closed(m, k) : m[n].id # m[l].id
    [] m[l].kind = "endgap" -> \E n \in Opens(m, k) : Instruct(m, n) /\ BodyStart(m, n) < l
    [] OTHER -> TRUE
LEMMA PrefixNext ==
  ASSUME NEW m, Lines(m), NEW k \in Nat, k < Len(m), Prefix(m, k)
  PROVE  Prefix(m, k + 1) <=> Goes(m, k, k + 1)
<1> DEFINE l == k + 1
<1>1. /\ \A n \in Opens(m, k), j \in Opens(m, k) : n = j
      /\ IsMark(m, l) => /\ \A n \in Opens(m, k) : BlockEnd(m, n) = l
                         /\ Closed(m, l) = Closed(m, k) \cup Opens(m, k)
      /\ ~IsMark(m, l) => /\ Closed(m, l) = Closed(m, k)
                          /\ Opens(m, l) = Opens(m, k)
      /\ \A n \in Headers(m) : n <= k <=> n \in Closed(m, k) \/ n \in Opens(m, k)
  BY NextLine
<1>2. l \in 1..Len(m) /\ Len(m) \in Nat /\ Headers(m) \subseteq 1..Len(m)
  BY DEF Lines, Headers
<1>3. l \in Headers(m) <=> m[l].kind = "gap"
  BY <1>2 DEF Headers
<1>4. \A j \in 1..Len(m) : j <= l <=> j <= k \/ j = l
  BY <1>2
<1>5. CASE m[l].kind = "gap"
  <2>1. IsMark(m, l) /\ l \in Headers(m)
    BY <1>3, <1>5 DEF IsMark
  <2>2. Prefix(m, l) => Opens(m, k) = {}
    BY <1>1, <1>5, <2>1 DEF Prefix
  <2>3. Opens(m, k) = {} => \A n \in Headers(m) : n <= k <=> n \in Closed(m, k)
    BY <1>1
  <2>4. Prefix(m, l) => Goes(m, k, l)
    <3> SUFFICES ASSUME Prefix(m, l) PROVE Goes(m, k, l)
      OBVIOUS
    <3>1. Opens(m, k) = {} /\ Closed(m, k) \subseteq Headers(m)
      BY <2>2 DEF Closed
    <3>2. l <= l /\ l \in Headers(m) /\ \A n \in Closed(m, k) : n <= l /\ n # l
      BY <1>2, <2>1, <2>3, <3>1
    <3>3. m[l].defects = {} /\ \A n \in Closed(m, k) : m[n].id # m[l].id
      BY <3>1, <3>2 DEF Prefix
    <3> QED BY <1>5, <3>1, <3>3 DEF Goes
  <2>5. Goes(m, k, l) => Prefix(m, l)
    <3> SUFFICES ASSUME Goes(m, k, l) PROVE Prefix(m, l)
      OBVIOUS
    <3>1. /\ Opens(m, k) = {} /\ m[l].defects = {}
          /\ \A n \in Closed(m, k) : m[n].id # m[l].id
      BY <1>5 DEF Goes
    <3>2. Closed(m, l) = Closed(m, k)
      BY <1>1, <2>1, <3>1
    <3>3. \A n \in Headers(m) : n <= l <=> n \in Closed(m, k) \/ n = l
      BY <1>2, <1>4, <2>1, <2>3, <3>1
    <3>4. \A n \in Headers(m) : n <= l =>
            /\ m[n].defects = {}
            /\ \A j \in Headers(m) \ {n} : j <= l => m[j].id # m[n].id
      BY <2>3, <3>1, <3>3 DEF Prefix
    <3>5. \A e \in 1..Len(m) : e <= l /\ m[e].kind = "endgap" => e <= k
      BY <1>4, <1>5
    <3> QED BY <3>2, <3>4, <3>5 DEF Prefix
  <2> QED BY <2>4, <2>5
<1>6. CASE m[l].kind = "endgap"
  <2>1. IsMark(m, l) /\ l \notin Headers(m)
    BY <1>3, <1>6 DEF IsMark
  <2>2. \A n \in Headers(m) : n <= l <=> n <= k
    BY <1>2, <1>4, <2>1
  <2>3. Closed(m, l) = Closed(m, k) \cup Opens(m, k)
    BY <1>1, <2>1
  <2>4. Prefix(m, l) => Goes(m, k, l)
    <3> SUFFICES ASSUME Prefix(m, l) PROVE Goes(m, k, l)
      OBVIOUS
    <3>1. PICK n \in Headers(m) : BlockEnd(m, n) = l
      BY <1>2, <1>6 DEF Prefix
    <3>2. n \in Opens(m, k) /\ n \in Closed(m, l)
      <4>1. n \in 1..Len(m) /\ BlockEnd(m, n) \in (n + 1)..(Len(m) + 1)
        BY <1>2, BlockIs
      <4> QED BY <1>2, <3>1, <4>1 DEF Opens, Closed
    <3>3. Instruct(m, n) /\ BodyStart(m, n) < l
      BY <3>1, <3>2 DEF Prefix, Instruct
    <3> QED BY <1>6, <3>2, <3>3 DEF Goes
  <2>5. Goes(m, k, l) => Prefix(m, l)
    <3> SUFFICES ASSUME Goes(m, k, l) PROVE Prefix(m, l)
      OBVIOUS
    <3>1. PICK n \in Opens(m, k) : Instruct(m, n) /\ BodyStart(m, n) < l
      BY <1>6 DEF Goes
    <3>2. BlockEnd(m, n) = l /\ n \in Headers(m) /\ Opens(m, k) = {n}
      BY <1>1, <2>1 DEF Opens
    <3>3. \A j \in Closed(m, l) :
            /\ m[BlockEnd(m, j)].kind = "endgap" /\ m[j + 1].kind = "instruct"
            /\ BodyStart(m, j) < BlockEnd(m, j)
      BY <1>6, <2>3, <3>1, <3>2 DEF Prefix, Instruct
    <3>4. \A e \in 1..Len(m) : e <= l /\ m[e].kind = "endgap" =>
            \E j \in Headers(m) : BlockEnd(m, j) = e
      BY <1>4, <3>2 DEF Prefix
    <3>5. \A j \in Headers(m) : j <= l =>
            /\ m[j].defects = {}
            /\ \A i \in Headers(m) \ {j} : i <= l => m[i].id # m[j].id
      BY <2>2 DEF Prefix
    <3> QED BY <3>3, <3>4, <3>5 DEF Prefix
  <2> QED BY <2>4, <2>5
<1>7. CASE ~IsMark(m, l)
  <2>1. l \notin Headers(m) /\ m[l].kind # "endgap"
    BY <1>3, <1>7 DEF IsMark
  <2>2. \A n \in Headers(m) : n <= l <=> n <= k
    BY <1>2, <1>4, <2>1
  <2>3. \A e \in 1..Len(m) : e <= l /\ m[e].kind = "endgap" => e <= k
    BY <1>4, <2>1
  <2>4. Closed(m, l) = Closed(m, k)
    BY <1>1, <1>7
  <2>5. Prefix(m, l)
    BY <2>2, <2>3, <2>4 DEF Prefix
  <2>6. Goes(m, k, l)
    BY <1>7 DEF Goes, IsMark
  <2> QED BY <2>5, <2>6
<1> QED BY <1>5, <1>6, <1>7 DEF IsMark

LEMMA ParsedNext ==
  ASSUME NEW m, NEW k \in Nat
  PROVE  /\ Parsed(m, 0) = Begin
         /\ Parsed(m, k + 1) = ReadLine(Parsed(m, k), m[k + 1], k + 1)
<1>1. /\ Folded(Parsing(m), 0) = Base(Parsing(m))
      /\ Folded(Parsing(m), k + 1) = Onward(Parsing(m), Folded(Parsing(m), k), k + 1)
  BY FoldStep
<1> QED BY <1>1 DEF Parsed, Parsing, Base, Onward

LEMMA RangeAppend ==
  ASSUME NEW G, G \in Seq(Range(G)), NEW g
  PROVE  /\ Range(Append(G, g)) = Range(G) \cup {g}
         /\ Append(G, g) \in Seq(Range(Append(G, g)))
<1> DEFINE H == Append(G, g)
<1>1. /\ Len(G) \in Nat /\ DOMAIN G = 1..Len(G)
      /\ H \in Seq(Range(G) \cup {g}) /\ Len(H) = Len(G) + 1
      /\ \A i \in 1..Len(G) : H[i] = G[i]
      /\ H[Len(G) + 1] = g
  OBVIOUS
<1>2. DOMAIN H = 1..(Len(G) + 1)
  BY <1>1
<1>3. Range(H) = Range(G) \cup {g}
  BY <1>1, <1>2 DEF Range
<1> QED BY <1>1, <1>3

LEMMA AtGap ==
  ASSUME NEW m, Lines(m), NEW k \in Nat, k < Len(m), Prefix(m, k), Stands(m, k),
         m[k + 1].kind = "gap"
  PROVE  IF Goes(m, k, k + 1) THEN Stands(m, k + 1) ELSE Parsed(m, k + 1).error # "none"
<1> DEFINE l == k + 1
           s == Parsed(m, k)
           t == Parsed(m, l)
<1>1. /\ IsState(s) /\ s.error = "none" /\ s.markers = Marked(m, k)
      /\ s.gaps \in Seq(Range(s.gaps))
      /\ Range(s.gaps) = {GapAt(m, n) : n \in Closed(m, k)}
      /\ Opens(m, k) = {} => s.open = NoGap
      /\ \A n \in Opens(m, k) :
           s.open = Open(m[n].id, m[n].concepts, n, Said(m, n, k), FirstBy(m, n, k))
  BY DEF Stands
<1>2. t = Starts(s, m[l], l)
  BY <1>1, ParsedNext DEF ReadLine
<1>3. IsMark(m, l) /\ l \in 1..Len(m) /\ Len(m) \in Nat
  BY DEF IsMark, Lines
<1>4. Marked(m, l) = Marked(m, k) \cup {l}
  BY <1>3, MarkedNext
<1>5. /\ Closed(m, l) = Closed(m, k) \cup Opens(m, k) /\ Opens(m, l) = {l}
  BY <1>3, NextLine
<1>6. CASE Opens(m, k) # {}
  <2>1. PICK n \in Opens(m, k) : TRUE
    BY <1>6
  <2>2. s.open # NoGap
    <3> DEFINE b == Said(m, n, k)
    <3>1. s.open = Open(m[n].id, m[n].concepts, n, b, FirstBy(m, n, k))
      BY <1>1
    <3> HIDE DEF b, s
    <3> QED BY <3>1, OpenUpdates
  <2>3. t = Fails(s, "nested")
    BY <1>2, <2>2 DEF Starts
  <2>4. t.error = "nested"
    BY <1>1, <2>3, FailsWith
  <2> QED BY <1>6, <2>4 DEF Goes
<1>7. CASE Opens(m, k) = {} /\ m[l].defects # {}
  <2>1. m[l].defects \subseteq Defects
    BY <1>3 DEF Lines
  <2>2. HeaderError(m[l]) # "none"
    BY <1>7, <2>1 DEF HeaderError, Defects
  <2>3. t = Fails(s, HeaderError(m[l]))
    BY <1>1, <1>2, <1>7, <2>2 DEF Starts
  <2>4. t.error = HeaderError(m[l])
    BY <1>1, <2>3, FailsWith
  <2> QED BY <1>7, <2>2, <2>4 DEF Goes
<1>8. CASE Opens(m, k) = {} /\ m[l].defects = {}
  <2>1. HeaderError(m[l]) = "none" /\ s.open = NoGap
    BY <1>1, <1>8 DEF HeaderError
  <2>2. \A n : GapAt(m, n).id = m[n].id
    BY DEF GapAt
  <2>3. (\E g \in Range(s.gaps) : g.id = m[l].id) <=> \E n \in Closed(m, k) : m[n].id = m[l].id
    BY <1>1, <2>2
  <2>4. CASE \E n \in Closed(m, k) : m[n].id = m[l].id
    <3>1. t = Fails(s, "duplicate")
      BY <1>2, <2>1, <2>3, <2>4 DEF Starts
    <3>2. t.error = "duplicate"
      BY <1>1, <3>1, FailsWith
    <3> QED BY <2>4, <3>2 DEF Goes
  <2>5. CASE ~ \E n \in Closed(m, k) : m[n].id = m[l].id
    <3>1. t = [s EXCEPT !.open = OpenGap(m[l], l), !.markers = s.markers \cup {l}]
      BY <1>2, <2>1, <2>3, <2>5 DEF Starts
    <3> HIDE DEF t, s
    <3>2. IsState(t) /\ StateIs(t, s.gaps, s.markers \cup {l}, OpenGap(m[l], l), s.error)
      BY <1>1, <3>1, StateUpdates
    <3>3. t.gaps = s.gaps /\ t.markers = Marked(m, l) /\ t.error = "none"
          /\ t.open = OpenGap(m[l], l)
      BY <1>1, <1>4, <3>2 DEF StateIs
    <3>4. Said(m, l, l) = <<>> /\ FirstBy(m, l, l) = 0
      BY <1>3 DEF FirstBy, Said, SaidBy
    <3>5. Open(m[l].id, m[l].concepts, l, Said(m, l, l), FirstBy(m, l, l))
            = OpenGap(m[l], l)
      <4>1. Open(m[l].id, m[l].concepts, l, <<>>, 0) = OpenGap(m[l], l)
        BY DEF Open, OpenGap
      <4> QED BY <3>4, <4>1
    <3>6. Closed(m, l) = Closed(m, k)
      BY <1>5, <1>8
    <3>7. Range(t.gaps) = {GapAt(m, n) : n \in Closed(m, l)}
      BY <1>1, <3>3, <3>6
    <3>8. \A n \in Opens(m, l) :
            t.open = Open(m[n].id, m[n].concepts, n, Said(m, n, l), FirstBy(m, n, l))
      BY <1>5, <3>3, <3>5
    <3>9. t.gaps \in Seq(Range(t.gaps))
      BY <1>1, <3>3
    <3>10. Stands(m, l)
      BY <1>5, <3>2, <3>3, <3>7, <3>8, <3>9 DEF Stands, t
    <3>11. Goes(m, k, l)
      BY <1>8, <2>5 DEF Goes
    <3> QED BY <3>10, <3>11
  <2> QED BY <2>4, <2>5
<1> QED BY <1>6, <1>7, <1>8

LEMMA AtEnd ==
  ASSUME NEW m, Lines(m), NEW k \in Nat, k < Len(m), Prefix(m, k), Stands(m, k),
         m[k + 1].kind = "endgap"
  PROVE  IF Goes(m, k, k + 1) THEN Stands(m, k + 1) ELSE Parsed(m, k + 1).error # "none"
<1> DEFINE l == k + 1
           s == Parsed(m, k)
           t == Parsed(m, l)
<1>1. /\ IsState(s) /\ s.error = "none" /\ s.markers = Marked(m, k)
      /\ s.gaps \in Seq(Range(s.gaps))
      /\ Range(s.gaps) = {GapAt(m, n) : n \in Closed(m, k)}
      /\ Opens(m, k) = {} => s.open = NoGap
      /\ \A n \in Opens(m, k) :
           s.open = Open(m[n].id, m[n].concepts, n, Said(m, n, k), FirstBy(m, n, k))
  BY DEF Stands
<1>2. t = Ends(s, l)
  <2>1. ~Instructs(s, m[l])
    BY DEF Instructs
  <2> QED BY <1>1, <2>1, ParsedNext DEF ReadLine
<1>3. IsMark(m, l) /\ l \in 1..Len(m) /\ Len(m) \in Nat
  BY DEF IsMark, Lines
<1>4. Marked(m, l) = Marked(m, k) \cup {l}
  BY <1>3, MarkedNext
<1>5. /\ \A n \in Opens(m, k), j \in Opens(m, k) : n = j
      /\ \A n \in Opens(m, k) : BlockEnd(m, n) = l
      /\ Closed(m, l) = Closed(m, k) \cup Opens(m, k) /\ Opens(m, l) = {}
  BY <1>3, NextLine
<1>6. CASE Opens(m, k) = {}
  <2>1. t = Fails(s, "no_gap_open")
    BY <1>1, <1>2, <1>6 DEF Ends
  <2>2. t.error = "no_gap_open"
    BY <1>1, <2>1, FailsWith
  <2> QED BY <1>6, <2>2 DEF Goes
<1>7. CASE Opens(m, k) # {}
  <2>1. PICK n \in Opens(m, k) : TRUE
    BY <1>7
  <2>2. /\ Opens(m, k) = {n} /\ BlockEnd(m, n) = l
        /\ n \in Nat /\ n <= k /\ n \in 1..Len(m)
    BY <1>3, <1>5 DEF Opens, Headers
  <2>3. BodyStart(m, n) \in Nat /\ n < BodyStart(m, n) /\ BodyStart(m, n) <= l
    <3>1. BodyStart(m, n) \in (n + 1)..l
      BY <2>2, BodyIs
    <3> QED BY <1>3, <2>2, <3>1
  <2>4. Goes(m, k, l) <=> Instruct(m, n) /\ BodyStart(m, n) < l
    BY <2>2 DEF Goes
  <2> DEFINE b == Said(m, n, k)
             f == FirstBy(m, n, k)
  <2>9. b # <<>> <=> k > n /\ Instruct(m, n)
    BY <1>3, <2>2, SaidIs
  <2>10. b # <<>> /\ BodyStart(m, n) # l => b = Instructed(m, n)
    <3>1. BodyStart(m, n) # l => BodyStart(m, n) <= k
      BY <2>3
    <3> QED BY <1>3, <2>2, <2>9, <3>1, SaidIs
  <2>5. /\ s.open # NoGap /\ s.open.id = m[n].id /\ s.open.concepts = m[n].concepts
        /\ s.open.says = b /\ s.open.first = f
    <3>1. s.open = Open(m[n].id, m[n].concepts, n, b, f)
      BY <1>1
    <3> HIDE DEF b, f, s
    <3> QED BY <3>1, OpenUpdates
  <2>6. CASE b = <<>>
    <3>1. t = Fails(s, "no_instruct")
      BY <1>2, <2>5, <2>6 DEF Ends
    <3>2. t.error = "no_instruct"
      BY <1>1, <3>1, FailsWith
    <3>3. ~Instruct(m, n)
      BY <2>2, <2>6, <2>9 DEF Instruct
    <3> QED BY <2>4, <3>2, <3>3
  <2>7. CASE b # <<>> /\ BodyStart(m, n) = l
    <3>1. f = 0
      BY <2>2, <2>3, <2>7, <2>9 DEF FirstBy
    <3>2. t = Fails(s, "empty_body")
      BY <1>2, <2>5, <2>7, <3>1 DEF Ends
    <3>3. t.error = "empty_body"
      BY <1>1, <3>2, FailsWith
    <3> QED BY <2>3, <2>4, <2>7, <3>3
  <2>8. CASE b # <<>> /\ BodyStart(m, n) # l
    <3>1. f = BodyStart(m, n) /\ f # 0
      BY <2>2, <2>3, <2>8, <2>9 DEF FirstBy
    <3> HIDE DEF t, s, b, f
    <3>2. t = [s EXCEPT !.open = NoGap, !.markers = s.markers \cup {l},
                        !.gaps = Append(s.gaps, [id |-> s.open.id, concepts |-> s.open.concepts,
                                                 says |-> s.open.says,
                                                 first |-> s.open.first, last |-> l - 1])]
      BY <1>2, <2>5, <2>8, <3>1 DEF Ends
    <3>3. [id |-> s.open.id, concepts |-> s.open.concepts, says |-> s.open.says,
           first |-> s.open.first, last |-> l - 1] = GapAt(m, n)
      BY <2>2, <2>5, <2>8, <2>10, <3>1 DEF GapAt
    <3>4. IsState(t) /\ StateIs(t, Append(s.gaps, GapAt(m, n)), s.markers \cup {l}, NoGap, s.error)
      BY <1>1, <3>2, <3>3, StateUpdates
    <3>5. /\ t.gaps = Append(s.gaps, GapAt(m, n)) /\ t.markers = Marked(m, l)
          /\ t.error = "none" /\ t.open = NoGap
      BY <1>1, <1>4, <3>4 DEF StateIs
    <3>6. /\ Range(t.gaps) = Range(s.gaps) \cup {GapAt(m, n)}
          /\ t.gaps \in Seq(Range(t.gaps))
      <4> DEFINE G == s.gaps
                 g == GapAt(m, n)
      <4>1. G \in Seq(Range(G)) /\ t.gaps = Append(G, g)
        BY <1>1, <3>5 DEF s
      <4> HIDE DEF G, g
      <4>2. Range(t.gaps) = Range(G) \cup {g} /\ t.gaps \in Seq(Range(t.gaps))
        BY <4>1, RangeAppend
      <4> QED BY <4>2 DEF G, g
    <3>7. Closed(m, l) = Closed(m, k) \cup {n}
      BY <1>5, <2>2
    <3>8. Range(t.gaps) = {GapAt(m, j) : j \in Closed(m, l)}
      BY <1>1, <3>6, <3>7
    <3>9. Stands(m, l)
      BY <1>5, <3>4, <3>5, <3>6, <3>8 DEF Stands, t
    <3>10. Goes(m, k, l)
      BY <2>3, <2>4, <2>8, <2>9
    <3> QED BY <3>9, <3>10
  <2> QED BY <2>6, <2>7, <2>8
<1> QED BY <1>6, <1>7

LEMMA AtLine ==
  ASSUME NEW m, Lines(m), NEW k \in Nat, k < Len(m), Stands(m, k), ~IsMark(m, k + 1)
  PROVE  Stands(m, k + 1)
<1> DEFINE l == k + 1
           s == Parsed(m, k)
           t == Parsed(m, l)
<1>1. /\ IsState(s) /\ s.error = "none" /\ s.markers = Marked(m, k)
      /\ s.gaps \in Seq(Range(s.gaps))
      /\ Range(s.gaps) = {GapAt(m, n) : n \in Closed(m, k)}
      /\ Opens(m, k) = {} => s.open = NoGap
      /\ \A n \in Opens(m, k) :
           s.open = Open(m[n].id, m[n].concepts, n, Said(m, n, k), FirstBy(m, n, k))
  BY DEF Stands
<1>2. m[l].kind # "gap" /\ m[l].kind # "endgap"
  BY DEF IsMark
<1>3. t = IF Instructs(s, m[l]) THEN Instruction(s, m[l], l) ELSE Body(s, l)
  BY <1>1, <1>2, ParsedNext DEF ReadLine
<1>4. l \in 1..Len(m) /\ Len(m) \in Nat /\ m[l].kind \in {"instruct", "comment", "code"}
  BY <1>2 DEF Lines, Kinds
<1>5. Marked(m, l) = IF InInstruction(m, l) THEN Marked(m, k) \cup {l} ELSE Marked(m, k)
  BY <1>4, MarkedNext
<1>6. InInstruction(m, l) <=> \E n \in Opens(m, k) : l < BodyStart(m, n) /\ Instruct(m, n)
  BY InInstructionNext
<1>7. /\ \A n \in Opens(m, k), j \in Opens(m, k) : n = j
      /\ Closed(m, l) = Closed(m, k) /\ Opens(m, l) = Opens(m, k)
  BY NextLine
\* It is enough to find the state t.
<1>8. ASSUME IsState(t), NEW O, StateIs(t, s.gaps, Marked(m, l), O, "none"),
             Opens(m, k) = {} => O = NoGap,
             \A n \in Opens(m, k) :
               O = Open(m[n].id, m[n].concepts, n, Said(m, n, l), FirstBy(m, n, l))
      PROVE  Stands(m, l)
  <2> HIDE DEF t, s
  <2>1. /\ t.gaps = s.gaps /\ t.markers = Marked(m, l) /\ t.open = O /\ t.error = "none"
    BY <1>8 DEF StateIs
  <2>2. /\ t.gaps \in Seq(Range(t.gaps))
        /\ Range(t.gaps) = {GapAt(m, n) : n \in Closed(m, l)}
    BY <1>1, <1>7, <2>1
  <2> QED BY <1>7, <1>8, <2>1, <2>2 DEF Stands, t
<1>9. CASE Opens(m, k) = {}
  <2>1. t = s
    BY <1>1, <1>3, <1>9 DEF Instructs, Body
  <2>2. StateIs(t, s.gaps, Marked(m, l), NoGap, "none") /\ IsState(t)
    <3> HIDE DEF t, s
    <3> QED BY <1>1, <1>5, <1>6, <1>9, <2>1 DEF StateIs
  <2> QED BY <1>8, <1>9, <2>2
<1>10. CASE Opens(m, k) # {}
  <2>1. PICK n \in Opens(m, k) : TRUE
    BY <1>10
  <2>2. /\ Opens(m, k) = {n} /\ n \in Nat /\ n <= k /\ n \in 1..Len(m)
        /\ n \in Headers(m) /\ BlockEnd(m, n) > k
    BY <1>4, <1>7 DEF Opens, Headers
  <2>3. BlockEnd(m, n) \in Nat /\ BlockEnd(m, n) # l /\ l < BlockEnd(m, n)
    <3>1. /\ BlockEnd(m, n) \in (n + 1)..(Len(m) + 1)
          /\ BlockEnd(m, n) = Len(m) + 1 \/ IsMark(m, BlockEnd(m, n))
      BY <2>2, BlockIs
    <3>2. BlockEnd(m, n) \in Nat /\ BlockEnd(m, n) # l
      BY <1>4, <2>2, <3>1
    <3> QED BY <1>4, <2>2, <3>2
  <2>4. /\ BodyStart(m, n) \in Nat /\ n < BodyStart(m, n)
        /\ BodyStart(m, n) = l => m[l].kind = "code"
        /\ l < BodyStart(m, n) => m[l].kind # "code"
    <3>1. /\ BodyStart(m, n) \in (n + 1)..BlockEnd(m, n)
          /\ BodyStart(m, n) = BlockEnd(m, n) \/ m[BodyStart(m, n)].kind = "code"
          /\ \A j \in (n + 1)..(BodyStart(m, n) - 1) : m[j].kind # "code"
      BY <2>2, BodyIs
    <3> QED BY <1>4, <2>2, <2>3, <3>1
  <2> DEFINE i == m[n].id
             c == m[n].concepts
             b == Said(m, n, k)
             c2 == Append(b, Says(m[l]))
             f == FirstBy(m, n, k)
  <2>5. s.open = Open(i, c, n, b, f)
    BY <1>1
  <2>15. /\ b # <<>> <=> k > n /\ Instruct(m, n)
         /\ l < BodyStart(m, n) /\ Instruct(m, n) => c2 = Said(m, n, l)
         /\ ~(l < BodyStart(m, n) /\ Instruct(m, n)) => Said(m, n, l) = b
    BY <1>4, <2>2, SaidIs, SaidNext
  <2>6. /\ s.open # NoGap /\ s.open.says = b /\ s.open.first = f
        /\ [s.open EXCEPT !.says = c2] = Open(i, c, n, c2, f)
        /\ [s.open EXCEPT !.first = l] = Open(i, c, n, b, l)
    <3> HIDE DEF s, i, c, b, f, c2
    <3> DEFINE o == s.open
    <3>1. o = Open(i, c, n, b, f)
      BY <2>5
    <3> HIDE DEF o
    <3>2. /\ o # NoGap /\ o.id = i /\ o.concepts = c /\ o.says = b /\ o.first = f
          /\ \A b2 : [o EXCEPT !.says = b2] = Open(i, c, n, b2, f)
          /\ \A f2 : [o EXCEPT !.first = f2] = Open(i, c, n, b, f2)
      BY <3>1, OpenUpdates
    <3>3. [o EXCEPT !.says = c2] = Open(i, c, n, c2, f)
      BY <3>2, Zenon
    <3>4. [o EXCEPT !.first = l] = Open(i, c, n, b, l)
      BY <3>2, Zenon
    <3> QED BY <3>2, <3>3, <3>4, Zenon DEF o
  <2>7. InInstruction(m, l) <=> l < BodyStart(m, n) /\ Instruct(m, n)
    BY <1>6, <2>2
  \* The three things the line can do to the open gap.
  <2>8. ASSUME Instructs(s, m[l]), l < BodyStart(m, n), Instruct(m, n)
        PROVE  Stands(m, l)
    <3>1. t = [s EXCEPT !.open = Open(i, c, n, c2, f), !.markers = s.markers \cup {l}]
      <4>1. t = [s EXCEPT !.open.says = c2, !.markers = s.markers \cup {l}]
        BY <1>3, <2>6, <2>8 DEF Instruction
      <4>2. [s EXCEPT !.open.says = c2, !.markers = s.markers \cup {l}]
              = [s EXCEPT !.open = [s.open EXCEPT !.says = c2],
                          !.markers = s.markers \cup {l}]
        OBVIOUS
      <4> HIDE DEF t, s, c2
      <4> QED BY <2>6, <4>1, <4>2
    <3>2. f = 0 /\ FirstBy(m, n, l) = 0 /\ c2 = Said(m, n, l)
      BY <2>2, <2>4, <2>8, <2>15 DEF FirstBy
    <3> DEFINE O == Open(i, c, n, c2, f)
    <3> HIDE DEF t, s, O
    <3>3. IsState(t) /\ StateIs(t, s.gaps, s.markers \cup {l}, O, s.error)
      BY <1>1, <3>1, StateUpdates DEF O
    <3>4. StateIs(t, s.gaps, Marked(m, l), O, "none")
      BY <1>1, <1>5, <2>7, <2>8, <3>3 DEF StateIs
    <3>5. O = Open(i, c, n, Said(m, n, l), FirstBy(m, n, l))
      BY <3>2 DEF O
    <3> QED BY <1>8, <1>10, <2>2, <3>3, <3>4, <3>5
  <2>9. ASSUME ~Instructs(s, m[l]), f = 0, ~ (l < BodyStart(m, n) /\ Instruct(m, n)),
               FirstBy(m, n, l) = l, b = Said(m, n, l)
        PROVE  Stands(m, l)
    <3>1. t = [s EXCEPT !.open = Open(i, c, n, b, l)]
      <4>1. t = [s EXCEPT !.open.first = l]
        BY <1>3, <2>6, <2>9 DEF Body
      <4>2. [s EXCEPT !.open.first = l] = [s EXCEPT !.open = [s.open EXCEPT !.first = l]]
        OBVIOUS
      <4> HIDE DEF t, s
      <4> QED BY <2>6, <4>1, <4>2
    <3> DEFINE O == Open(i, c, n, b, l)
    <3> HIDE DEF t, s, O
    <3>2. IsState(t) /\ StateIs(t, s.gaps, s.markers, O, s.error)
      BY <1>1, <3>1, StateUpdates DEF O
    <3>3. StateIs(t, s.gaps, Marked(m, l), O, "none")
      BY <1>1, <1>5, <2>7, <2>9, <3>2 DEF StateIs
    <3>4. O = Open(i, c, n, Said(m, n, l), FirstBy(m, n, l))
      BY <2>9 DEF O
    <3> QED BY <1>8, <1>10, <2>2, <3>2, <3>3, <3>4
  <2>10. ASSUME f # 0, ~ (l < BodyStart(m, n) /\ Instruct(m, n)),
                FirstBy(m, n, l) = f, b = Said(m, n, l)
         PROVE  Stands(m, l)
    <3>1. t = s
      BY <1>3, <2>6, <2>10 DEF Body, Instructs
    <3> DEFINE O == Open(i, c, n, b, f)
    <3>2. s.open = O
      BY <2>5
    <3> HIDE DEF t, s, O
    <3>3. StateIs(t, s.gaps, Marked(m, l), O, "none") /\ IsState(t)
      BY <1>1, <1>5, <2>7, <2>10, <3>1, <3>2 DEF StateIs
    <3>4. O = Open(i, c, n, Said(m, n, l), FirstBy(m, n, l))
      BY <2>10 DEF O
    <3> QED BY <1>8, <1>10, <2>2, <3>3, <3>4
  <2>11. CASE k = n /\ Instruct(m, n)
    <3>1. m[l].kind = "instruct" /\ f = 0
      BY <2>11 DEF Instruct, FirstBy
    <3>2. Instructs(s, m[l])
      BY <2>6, <3>1 DEF Instructs
    <3>3. l < BodyStart(m, n)
      BY <2>2, <2>4, <2>11, <3>1
    <3> QED BY <2>8, <2>11, <3>2, <3>3
  <2>12. CASE k = n /\ ~Instruct(m, n)
    <3>1. /\ m[l].kind # "instruct" /\ f = 0 /\ b = <<>>
          /\ FirstBy(m, n, l) = l /\ b = Said(m, n, l)
      BY <2>2, <2>12, <2>15 DEF Instruct, FirstBy
    <3>2. ~Instructs(s, m[l])
      BY <2>6, <3>1 DEF Instructs
    <3> QED BY <2>9, <2>12, <3>1, <3>2
  <2>13. CASE k # n /\ ~Instruct(m, n)
    <3>1. /\ f = n + 1 /\ f # 0 /\ FirstBy(m, n, l) = n + 1
          /\ b = Said(m, n, l)
      BY <2>2, <2>13, <2>15 DEF FirstBy
    <3> QED BY <2>10, <2>13, <3>1
  <2>14. CASE k # n /\ Instruct(m, n)
    <3>1. b # <<>> /\ (~(l < BodyStart(m, n)) => b = Said(m, n, l))
      BY <2>2, <2>14, <2>15
    <3>2. CASE BodyStart(m, n) <= k
      <4>1. f = BodyStart(m, n) /\ f # 0 /\ FirstBy(m, n, l) = f /\ ~(l < BodyStart(m, n))
        BY <2>2, <2>4, <2>14, <3>2 DEF FirstBy
      <4> QED BY <2>10, <3>1, <4>1
    <3>3. CASE BodyStart(m, n) = l
      <4>1. f = 0 /\ FirstBy(m, n, l) = l /\ ~(l < BodyStart(m, n)) /\ m[l].kind = "code"
        BY <2>2, <2>4, <2>14, <3>3 DEF FirstBy
      <4>2. ~Instructs(s, m[l])
        BY <4>1 DEF Instructs
      <4> QED BY <2>9, <3>1, <4>1, <4>2
    <3>4. CASE l < BodyStart(m, n)
      <4>1. f = 0 /\ m[l].kind # "code"
        BY <2>2, <2>4, <2>14, <3>4 DEF FirstBy
      <4>2. Instructs(s, m[l])
        BY <1>4, <2>6, <3>1, <4>1 DEF Instructs
      <4> QED BY <2>8, <2>14, <3>4, <4>2
    <3> QED BY <2>4, <3>2, <3>3, <3>4
  <2> QED BY <2>11, <2>12, <2>13, <2>14
<1> QED BY <1>9, <1>10

LEMMA PrefixShrinks ==
  ASSUME NEW m, Lines(m), NEW k \in Nat, NEW l \in Nat, k <= l, Prefix(m, l)
  PROVE  Prefix(m, k)
<1>1. \A n \in Headers(m) : n \in Nat /\ BlockEnd(m, n) \in Nat
  <2>1. \A n \in Headers(m) : n \in 1..Len(m) /\ Len(m) \in Nat
    BY DEF Headers, Lines
  <2>2. \A n \in Headers(m) : BlockEnd(m, n) \in (n + 1)..(Len(m) + 1)
    BY <2>1, BlockIs
  <2> QED BY <2>1, <2>2
<1>2. /\ \A n \in Headers(m) : n <= k => n <= l
      /\ Closed(m, k) \subseteq Closed(m, l)
  BY <1>1 DEF Closed
<1>3. \A e \in 1..Len(m) : e <= k => e <= l
  BY DEF Lines
<1> QED BY <1>2, <1>3 DEF Prefix

\* After k lines the parser has what a well-formed beginning has, or an error.
LEMMA ParserStands ==
  ASSUME NEW m, Lines(m)
  PROVE  \A k \in 0..Len(m) : IF Prefix(m, k) THEN Stands(m, k) ELSE Parsed(m, k).error # "none"
<1> DEFINE Right(j) == IF Prefix(m, j) THEN Stands(m, j) ELSE Parsed(m, j).error # "none"
           S == {j \in Nat : Right(j)}
<1>1. Len(m) \in Nat
  BY DEF Lines
<1>2. Right(0)
  <2>1. Closed(m, 0) = {} /\ Opens(m, 0) = {} /\ Marked(m, 0) = {}
    <3>1. \A n \in Headers(m) : n \in 1..Len(m) /\ BlockEnd(m, n) \in (n + 1)..(Len(m) + 1)
      BY BlockIs DEF Headers
    <3>2. \A n \in Headers(m) : n \in Nat /\ n # 0 /\ BlockEnd(m, n) > n /\ BlockEnd(m, n) \in Nat
      BY <1>1, <3>1
    <3> QED BY <3>2 DEF Closed, Opens, Marked
  <2>2. /\ IsState(Begin) /\ StateIs(Begin, <<>>, {}, NoGap, "none")
    BY DEF Begin, IsState, StateIs
  <2>3. Range(<<>>) = {} /\ <<>> \in Seq({})
    BY DEF Range
  <2>4. Parsed(m, 0) = Begin
    BY ParsedNext
  <2>5. Stands(m, 0)
    BY <2>1, <2>2, <2>3, <2>4 DEF Stands, StateIs
  <2>6. Prefix(m, 0)
    <3>1. \A n \in 1..Len(m) : ~(n <= 0)
      BY <1>1
    <3> QED BY <2>1, <3>1 DEF Prefix, Headers
  <2> QED BY <2>5, <2>6
<1>3. ASSUME NEW i \in Nat, i < Len(m), Right(i)
      PROVE  Right(i + 1)
  <2> DEFINE j == i + 1
  <2>1. CASE ~Prefix(m, i)
    <3>1. ~Prefix(m, j)
      BY <2>1, PrefixShrinks
    <3>2. Parsed(m, j) = Parsed(m, i)
      BY <1>3, <2>1, ParsedNext DEF ReadLine
    <3> QED BY <1>3, <2>1, <3>1, <3>2
  <2>2. CASE Prefix(m, i)
    <3>1. Stands(m, i)
      BY <1>3, <2>2
    <3>2. Prefix(m, j) <=> Goes(m, i, j)
      BY <1>3, <2>2, PrefixNext
    <3>3. CASE m[j].kind = "gap"
      BY <1>3, <2>2, <3>1, <3>2, <3>3, AtGap
    <3>4. CASE m[j].kind = "endgap"
      BY <1>3, <2>2, <3>1, <3>2, <3>4, AtEnd
    <3>5. CASE ~IsMark(m, j)
      <4>1. Stands(m, j)
        BY <1>3, <3>1, <3>5, AtLine
      <4>2. Goes(m, i, j)
        BY <3>5 DEF Goes, IsMark
      <4> QED BY <3>2, <4>1, <4>2
    <3> QED BY <3>3, <3>4, <3>5 DEF IsMark
  <2> QED BY <2>1, <2>2
<1> HIDE DEF Right
<1>4. \A k \in 0..(Len(m) - 1) : k \in S => k + 1 \in S
  BY <1>1, <1>3
<1>5. 0 \in S
  BY <1>2
<1>6. \A k \in 0..Len(m) : k \in S
  <2> HIDE DEF S
  <2> QED BY <1>1, <1>4, <1>5, Climbs
<1> QED BY <1>6 DEF Right

\* The parser's fold, as Structure has it.
LEMMA StructureIs ==
  ASSUME NEW m, Lines(m)
  PROVE  Structure(m) = LET s == Parsed(m, Len(m))
                        IN  IF s.error = "none" /\ s.open # NoGap THEN Fails(s, "unclosed") ELSE s
<1> DEFINE len == Len(m)
           fold == FoldLeft(LAMBDA s, n : ReadLine(s, m[n], n), Begin, [n \in 1..len |-> n])
           Right(f) == f = [s \in SUBSET (1..len) |->
                              IF s = {} THEN Begin
                              ELSE ReadLine(f[s \ {Max(s)}], m[Max(s)], Max(s))]
<1>1. len \in Nat /\ DOMAIN [n \in 1..len |-> n] = 1..len
  BY DEF Lines
<1>2. \A s \in SUBSET (1..len) : s # {} => Max(s) \in 1..len
  BY <1>1, BelowMax
<1>3. fold = (CHOOSE f : Right(f))[1..len]
  BY <1>1, <1>2 DEF FoldLeft, MapThenFoldSet
<1>4. \A f : Folds(Parsing(m), f, len) <=> Right(f)
  BY DEF Folds, Parsing, Base, Onward
<1>5. Parsed(m, len) = (CHOOSE f : Right(f))[1..len]
  BY <1>4 DEF Parsed, Folded
<1>6. Structure(m) = LET st == fold
                     IN  IF st.error = "none" /\ st.open # NoGap THEN Fails(st, "unclosed") ELSE st
  BY DEF Structure, Begin
<1> QED BY <1>3, <1>5, <1>6

\* The parser accepts the well-formed masters, and finds their gaps and marks.
LEMMA StructureOf ==
  ASSUME NEW m, Lines(m)
  PROVE  /\ Structure(m).error = "none" <=> WellFormed(m)
         /\ WellFormed(m) => /\ Range(Structure(m).gaps) = {GapAt(m, n) : n \in Headers(m)}
                             /\ Structure(m).markers = Marked(m, Len(m))
<1> DEFINE len == Len(m)
           s == Parsed(m, len)
<1>1. len \in Nat /\ len \in 0..len /\ Headers(m) \subseteq 1..len
  BY DEF Lines, Headers
<1>2. IF Prefix(m, len) THEN Stands(m, len) ELSE s.error # "none"
  BY <1>1, ParserStands
<1>3. Structure(m) = IF s.error = "none" /\ s.open # NoGap THEN Fails(s, "unclosed") ELSE s
  BY StructureIs
<1>4. \A n \in Headers(m) : n <= len /\ BlockEnd(m, n) \in Nat
  <2>1. \A n \in Headers(m) : BlockEnd(m, n) \in (n + 1)..(len + 1)
    BY <1>1, BlockIs
  <2> QED BY <1>1, <2>1
<1>5. \A n \in Headers(m) : n \in Opens(m, len) <=> ~(BlockEnd(m, n) <= len)
  BY <1>1, <1>4 DEF Opens
<1>6. WellFormed(m) => Opens(m, len) = {} /\ Closed(m, len) = Headers(m)
  BY <1>5 DEF WellFormed, Opens, Closed
<1>7. \A e \in 1..len : e <= len
  OBVIOUS
<1>8. WellFormed(m) => Prefix(m, len)
  BY <1>6 DEF WellFormed, Prefix
<1>9. Prefix(m, len) /\ Opens(m, len) = {} => WellFormed(m)
  <2> SUFFICES ASSUME Prefix(m, len), Opens(m, len) = {} PROVE WellFormed(m)
    OBVIOUS
  <2>1. \A n \in Headers(m) : n <= len /\ BlockEnd(m, n) <= len /\ n \in Closed(m, len)
    BY <1>4, <1>5 DEF Closed
  <2> QED BY <1>7, <2>1 DEF WellFormed, Prefix
<1>10. ASSUME Stands(m, len), Opens(m, len) # {}
      PROVE  Structure(m).error # "none"
  <2>1. PICK n \in Opens(m, len) : TRUE
    BY <1>10
  <2> DEFINE b == Said(m, n, len)
  <2>2. /\ s.error = "none" /\ IsState(s)
        /\ s.open = Open(m[n].id, m[n].concepts, n, b, FirstBy(m, n, len))
    BY <1>10 DEF Stands
  <2> HIDE DEF b, s
  <2>3. s.open # NoGap
    BY <2>2, OpenUpdates
  <2>4. Structure(m) = Fails(s, "unclosed")
    BY <1>3, <2>2, <2>3
  <2>5. Structure(m).error = "unclosed"
    BY <2>2, <2>4, FailsWith
  <2> QED BY <2>5
<1>11. ASSUME Stands(m, len), Opens(m, len) = {}
       PROVE  /\ Structure(m).error = "none" /\ Structure(m).markers = Marked(m, len)
              /\ Range(Structure(m).gaps) = {GapAt(m, n) : n \in Closed(m, len)}
  <2>1. /\ s.error = "none" /\ s.markers = Marked(m, len) /\ s.open = NoGap
        /\ Range(s.gaps) = {GapAt(m, n) : n \in Closed(m, len)}
    BY <1>11 DEF Stands
  <2> HIDE DEF s
  <2> QED BY <1>3, <2>1
<1>12. CASE WellFormed(m)
  BY <1>2, <1>6, <1>8, <1>11, <1>12
<1>13. CASE ~WellFormed(m)
  <2>1. CASE Prefix(m, len)
    <3>1. Opens(m, len) # {}
      BY <1>9, <1>13, <2>1
    <3> QED BY <1>2, <1>10, <1>13, <2>1, <3>1
  <2>2. CASE ~Prefix(m, len)
    <3>1. Structure(m) = s
      BY <1>2, <1>3, <2>2
    <3> QED BY <1>2, <1>13, <2>2, <3>1
  <2> QED BY <2>1, <2>2
<1> QED BY <1>12, <1>13

----------------------------------------------------------------------------
(* The released file of a well-formed master.                              *)

InBody(m, n, j) == BodyStart(m, n) <= j /\ j < BlockEnd(m, n)

\* The blocks of a well-formed master.
LEMMA BlockFacts ==
  ASSUME NEW m, Lines(m), WellFormed(m), NEW n \in Headers(m)
  PROVE  /\ n \in 1..Len(m) /\ Len(m) \in Nat
         /\ BlockEnd(m, n) \in 1..Len(m) /\ m[BlockEnd(m, n)].kind = "endgap"
         /\ BodyStart(m, n) \in 1..Len(m) /\ m[BodyStart(m, n)].kind = "code"
         /\ n + 1 < BodyStart(m, n) /\ BodyStart(m, n) < BlockEnd(m, n)
         /\ \A j \in 1..Len(m) : n < j /\ j < BlockEnd(m, n) => ~IsMark(m, j)
         /\ Instruct(m, n)
         /\ \A j \in Headers(m) : n < j => BlockEnd(m, n) < j
<1>1. n \in 1..Len(m) /\ Len(m) \in Nat
  BY DEF Headers, Lines
<1>2. /\ BlockEnd(m, n) <= Len(m) /\ m[BlockEnd(m, n)].kind = "endgap"
      /\ m[n + 1].kind = "instruct" /\ BodyStart(m, n) < BlockEnd(m, n)
  BY DEF WellFormed
<1>3. /\ BlockEnd(m, n) \in (n + 1)..(Len(m) + 1)
      /\ \A j \in (n + 1)..(BlockEnd(m, n) - 1) : ~IsMark(m, j)
  BY <1>1, BlockIs
<1>4. /\ BodyStart(m, n) \in (n + 1)..BlockEnd(m, n)
      /\ BodyStart(m, n) = BlockEnd(m, n) \/ m[BodyStart(m, n)].kind = "code"
  BY <1>1, BodyIs
<1>5. /\ BlockEnd(m, n) \in 1..Len(m) /\ BodyStart(m, n) \in 1..Len(m)
      /\ m[BodyStart(m, n)].kind = "code"
  BY <1>1, <1>2, <1>3, <1>4
<1>6. n + 1 < BodyStart(m, n)
  <2>1. BodyStart(m, n) # n + 1
    BY <1>2, <1>5
  <2> QED BY <1>1, <1>4, <1>5, <2>1
<1>7. \A j \in 1..Len(m) : n < j /\ j < BlockEnd(m, n) => ~IsMark(m, j)
  BY <1>1, <1>3
<1>8. ASSUME NEW j \in Headers(m), n < j PROVE BlockEnd(m, n) < j
  <2>1. BlockEnd(m, n) <= j
    BY <1>8, BlocksApart
  <2>2. BlockEnd(m, n) # j /\ j \in 1..Len(m)
    BY <1>2 DEF Headers
  <2> QED BY <1>1, <1>5, <2>1, <2>2
<1> QED BY <1>1, <1>2, <1>5, <1>6, <1>7, <1>8 DEF Instruct

\* A line belongs to one block at most.
LEMMA OneBlock ==
  ASSUME NEW m, Lines(m), WellFormed(m), NEW j \in 1..Len(m),
         NEW n \in Headers(m), n <= j, j <= BlockEnd(m, n),
         NEW i \in Headers(m), i <= j, j <= BlockEnd(m, i)
  PROVE  n = i
<1>1. /\ n \in Nat /\ i \in Nat /\ BlockEnd(m, n) \in Nat /\ BlockEnd(m, i) \in Nat /\ j \in Nat
      /\ n < i => BlockEnd(m, n) < i
      /\ i < n => BlockEnd(m, i) < n
  BY BlockFacts
<1> QED BY <1>1

LEMMA GoneIs ==
  ASSUME NEW m, Lines(m), WellFormed(m), NEW hide, NEW j \in 1..Len(m)
  PROVE  j \in Gone(m, hide) <=> \/ IsMark(m, j) \/ InInstruction(m, j)
                                 \/ \E n \in Stubs(m, hide) : InBody(m, n, j)
<1>1. Len(m) \in Nat /\ j \in Nat
  BY DEF Lines
<1>2. j \in Gone(m, hide) <=> (\E n \in Headers(m) : j \in Taken(m, hide, n)) \/ m[j].kind = "endgap"
  <2>1. j \in Ended(m) <=> m[j].kind = "endgap"
    BY DEF Ended
  <2>2. j \in AllTaken(m, hide) <=> \E n \in Headers(m) : j \in Taken(m, hide, n)
    BY DEF AllTaken
  <2> QED BY <2>1, <2>2 DEF Gone
<1>3. ASSUME NEW n \in Headers(m), j \in Taken(m, hide, n)
      PROVE  \/ IsMark(m, j) \/ InInstruction(m, j)
             \/ \E i \in Stubs(m, hide) : InBody(m, i, j)
  <2>1. /\ n \in Nat /\ BlockEnd(m, n) \in Nat /\ BodyStart(m, n) \in Nat /\ Instruct(m, n)
        /\ m[BlockEnd(m, n)].kind = "endgap" /\ m[n].kind = "gap"
    BY BlockFacts DEF Headers
  <2>2. CASE j = n
    BY <2>1, <2>2 DEF IsMark
  <2>3. CASE n < j /\ j < BodyStart(m, n)
    BY <2>1, <2>3 DEF InInstruction
  <2>4. CASE j >= BodyStart(m, n)
    <3>1. m[n].id \in hide
      BY <1>1, <1>3, <2>1, <2>4 DEF Taken
    <3>2. j <= BlockEnd(m, n) /\ n \in Stubs(m, hide)
      BY <1>1, <1>3, <2>1, <3>1 DEF Stubs, Taken
    <3>3. j = BlockEnd(m, n) \/ InBody(m, n, j)
      BY <1>1, <2>1, <2>4, <3>2 DEF InBody
    <3> QED BY <2>1, <3>2, <3>3 DEF IsMark
  <2> QED BY <1>1, <1>3, <2>1, <2>2, <2>3, <2>4 DEF Taken
<1>4. ASSUME j \in Gone(m, hide)
      PROVE  \/ IsMark(m, j) \/ InInstruction(m, j)
             \/ \E i \in Stubs(m, hide) : InBody(m, i, j)
  BY <1>2, <1>3, <1>4 DEF IsMark
<1>5. \A n \in Headers(m) : /\ n \in Nat /\ BlockEnd(m, n) \in Nat /\ BodyStart(m, n) \in Nat
                            /\ n + 1 < BodyStart(m, n) /\ BodyStart(m, n) < BlockEnd(m, n)
  BY BlockFacts
<1>6. ASSUME IsMark(m, j) PROVE j \in Gone(m, hide)
  <2>1. CASE m[j].kind = "endgap"
    BY <1>2, <2>1
  <2>2. CASE m[j].kind = "gap"
    <3>1. j \in Headers(m)
      BY <2>2 DEF Headers
    <3>2. j \in Taken(m, hide, j)
      BY <1>1, <1>5, <3>1 DEF Taken
    <3> QED BY <1>2, <3>1, <3>2
  <2> QED BY <1>6, <2>1, <2>2 DEF IsMark
<1>7. ASSUME InInstruction(m, j) PROVE j \in Gone(m, hide)
  <2>1. PICK n \in Headers(m) : n < j /\ j < BodyStart(m, n)
    BY <1>7 DEF InInstruction
  <2>2. j \in Taken(m, hide, n)
    BY <1>1, <1>5, <2>1 DEF Taken
  <2> QED BY <1>2, <2>2
<1>8. ASSUME NEW n \in Stubs(m, hide), InBody(m, n, j) PROVE j \in Gone(m, hide)
  <2>1. n \in Headers(m) /\ m[n].id \in hide
    BY DEF Stubs
  <2>2. j \in Taken(m, hide, n)
    BY <1>1, <1>5, <1>8, <2>1 DEF InBody, Taken
  <2> QED BY <1>2, <2>1, <2>2
<1> QED BY <1>4, <1>6, <1>7, <1>8

\* The stub of a gap, and what a line of the master becomes.
StubOf(m, n) == Stub(Instructed(m, n), m[BodyStart(m, n)].indent)
Becomes(m, hide, j) ==
  IF j \notin Gone(m, hide) THEN <<Text(m[j])>>
  ELSE IF \E n \in Stubs(m, hide) : BodyStart(m, n) = j
  THEN StubOf(m, CHOOSE n \in Stubs(m, hide) : BodyStart(m, n) = j)
  ELSE <<>>
LEMMA LineBecomes ==
  ASSUME NEW m, Lines(m), WellFormed(m), NEW hide, NEW j \in 1..Len(m)
  PROVE  Rendered(m, Structure(m), hide, j) = Becomes(m, hide, j)
<1> DEFINE st == Structure(m)
           H == HiddenAt(st, hide, j)
<1>1. /\ Range(st.gaps) = {GapAt(m, n) : n \in Headers(m)}
      /\ st.markers = Marked(m, Len(m))
  BY StructureOf
<1>2. j \in st.markers <=> IsMark(m, j) \/ InInstruction(m, j)
  BY <1>1 DEF Marked
<1>3. \A n \in Headers(m) : /\ n \in Nat /\ BlockEnd(m, n) \in Nat /\ BodyStart(m, n) \in Nat
                            /\ n + 1 < BodyStart(m, n) /\ BodyStart(m, n) < BlockEnd(m, n)
  BY BlockFacts
<1>4. \A n : /\ GapAt(m, n).id = m[n].id /\ GapAt(m, n).first = BodyStart(m, n)
             /\ GapAt(m, n).last = BlockEnd(m, n) - 1 /\ GapAt(m, n).says = Instructed(m, n)
  BY DEF GapAt
<1>5. \A n \in Headers(m) : j \in BodyStart(m, n) .. (BlockEnd(m, n) - 1) <=> InBody(m, n, j)
  BY <1>3 DEF InBody
<1>6. H = {GapAt(m, n) : n \in {i \in Stubs(m, hide) : InBody(m, i, j)}}
  BY <1>1, <1>4, <1>5 DEF HiddenAt, Stubs
<1> HIDE DEF H
<1>7. Rendered(m, st, hide, j) =
        IF j \in st.markers THEN <<>>
        ELSE IF H = {} THEN <<Text(m[j])>>
        ELSE LET g == CHOOSE g \in H : TRUE
             IN  IF j = g.first THEN Stub(g.says, m[j].indent) ELSE <<>>
  BY DEF Rendered, H
<1>8. j \in Gone(m, hide) <=> j \in st.markers \/ H # {}
  BY <1>2, <1>6, GoneIs
\* A hidden body's first line is code, so no mark and no instruction.
<1>9. ASSUME NEW n \in Stubs(m, hide), InBody(m, n, j)
      PROVE  /\ j \notin st.markers /\ H = {GapAt(m, n)}
             /\ \A i \in Stubs(m, hide) : BodyStart(m, i) = j <=> i = n /\ BodyStart(m, n) = j
  <2>1. n \in Headers(m) /\ n < j /\ j < BlockEnd(m, n) /\ BodyStart(m, n) <= j
    BY <1>3, <1>9 DEF Stubs, InBody
  <2>2. \A i \in Headers(m) : i <= j /\ j <= BlockEnd(m, i) => i = n
    BY <1>3, <2>1, OneBlock
  <2>3. ~IsMark(m, j)
    BY <2>1, BlockFacts
  <2>4. ~InInstruction(m, j)
    <3> SUFFICES ASSUME NEW i \in Headers(m), i < j, j < BodyStart(m, i) PROVE FALSE
      BY DEF InInstruction
    <3>1. i = n
      BY <1>3, <2>2
    <3> QED BY <1>3, <2>1, <3>1
  <2>5. \A i \in Stubs(m, hide) : InBody(m, i, j) => i = n
    BY <1>3, <2>2 DEF Stubs, InBody
  <2>6. H = {GapAt(m, n)}
    BY <1>6, <1>9, <2>5
  <2>7. \A i \in Stubs(m, hide) : BodyStart(m, i) = j => i = n
    BY <1>3, <2>2 DEF Stubs
  <2> QED BY <1>2, <2>3, <2>4, <2>6, <2>7
<1>10. CASE j \notin Gone(m, hide)
  BY <1>7, <1>8, <1>10 DEF Becomes
<1>11. CASE \E n \in Stubs(m, hide) : InBody(m, n, j)
  <2>1. PICK n \in Stubs(m, hide) : InBody(m, n, j)
    BY <1>11
  <2>2. /\ j \notin st.markers /\ H = {GapAt(m, n)}
        /\ (\E i \in Stubs(m, hide) : BodyStart(m, i) = j) <=> BodyStart(m, n) = j
        /\ \A i \in Stubs(m, hide) : BodyStart(m, i) = j => i = n
    BY <1>9, <2>1
  <2>3. (CHOOSE g \in H : TRUE) = GapAt(m, n)
    BY <2>2
  <2>4. j \in Gone(m, hide)
    BY <1>8, <2>2
  <2>5. Rendered(m, st, hide, j) = IF j = BodyStart(m, n) THEN StubOf(m, n) ELSE <<>>
    BY <1>4, <1>7, <2>2, <2>3 DEF StubOf
  <2>6. BodyStart(m, n) = j => (CHOOSE i \in Stubs(m, hide) : BodyStart(m, i) = j) = n
    BY <2>1, <2>2
  <2> QED BY <2>2, <2>4, <2>5, <2>6 DEF Becomes
<1>12. CASE j \in Gone(m, hide) /\ ~ \E n \in Stubs(m, hide) : InBody(m, n, j)
  <2>1. H = {} /\ j \in st.markers
    BY <1>6, <1>8, <1>12
  <2>2. ~ \E n \in Stubs(m, hide) : BodyStart(m, n) = j
    BY <1>3, <1>12 DEF Stubs, InBody
  <2> QED BY <1>7, <1>12, <2>1, <2>2 DEF Becomes
<1> QED BY <1>10, <1>11, <1>12

LEMMA RenderUpToIs ==
  ASSUME NEW m, NEW hide, NEW k \in Nat
  PROVE  RenderUpTo(m, Structure(m), hide, k) = Folded(Rendering(m, hide), k)
<1> DEFINE st == Structure(m)
           fold == FoldLeft(LAMBDA out, n : out \o Rendered(m, st, hide, n), <<>>, [n \in 1..k |-> n])
           Right(f) == f = [s \in SUBSET (1..k) |->
                              IF s = {} THEN <<>>
                              ELSE f[s \ {Max(s)}] \o Rendered(m, st, hide, Max(s))]
<1>1. DOMAIN [n \in 1..k |-> n] = 1..k
  OBVIOUS
<1>2. \A s \in SUBSET (1..k) : s # {} => Max(s) \in 1..k
  BY <1>1, BelowMax
<1>3. fold = (CHOOSE f : Right(f))[1..k]
  BY <1>1, <1>2 DEF FoldLeft, MapThenFoldSet
<1>4. \A f : Folds(Rendering(m, hide), f, k) <=> Right(f)
  BY DEF Folds, Rendering, Base, Onward
<1>5. Folded(Rendering(m, hide), k) = (CHOOSE f : Right(f))[1..k]
  BY <1>4 DEF Folded
<1> QED BY <1>3, <1>5 DEF RenderUpTo

\* The lines of a released file.
Pieces(m) == {Text(m[j]) : j \in 1..Len(m)}
               \cup UNION {{StubOf(m, n)[1], StubOf(m, n)[2]} : n \in Headers(m)}
\* The released file after the master's first k lines, and how long it is.
Out(m, hide, k) == RenderUpTo(m, Structure(m), hide, k)
LengthBy(m, hide, k) ==
  Cardinality((1 .. k) \ Gone(m, hide)) + 2 * Cardinality({n \in Stubs(m, hide) : BodyStart(m, n) <= k})

LEMMA StubIs ==
  ASSUME NEW says, NEW indent
  PROVE  Stub(says, indent) = <<Stub(says, indent)[1], Stub(says, indent)[2]>>
<1> DEFINE c == [indent |-> indent, words |-> <<"#">> \o FlattenSeq(says)]
           r == [indent |-> indent, words |-> <<"raise NotImplementedError()">>]
<1>1. Stub(says, indent) = <<c, r>>
  BY DEF Stub
<1> HIDE DEF c, r
<1> QED BY <1>1

LEMMA PiecesOf ==
  ASSUME NEW m
  PROVE  /\ \A j \in 1..Len(m) : <<Text(m[j])>> \in Seq(Pieces(m))
         /\ \A n \in Headers(m) : StubOf(m, n) \in Seq(Pieces(m)) /\ Len(StubOf(m, n)) = 2
<1>1. \A j \in 1..Len(m) : Text(m[j]) \in Pieces(m)
  BY DEF Pieces
<1>2. ASSUME NEW n \in Headers(m)
      PROVE  StubOf(m, n) \in Seq(Pieces(m)) /\ Len(StubOf(m, n)) = 2
  <2> DEFINE p == StubOf(m, n)
  <2>1. p = <<p[1], p[2]>>
    BY StubIs DEF StubOf
  <2>2. p[1] \in Pieces(m) /\ p[2] \in Pieces(m)
    BY DEF Pieces
  <2> HIDE DEF p
  <2>3. <<p[1], p[2]>> \in Seq(Pieces(m)) /\ Len(<<p[1], p[2]>>) = 2
    BY <2>2
  <2> QED BY <2>1, <2>3 DEF p
<1>3. ASSUME NEW j \in 1..Len(m) PROVE <<Text(m[j])>> \in Seq(Pieces(m))
  BY <1>1
<1> QED BY <1>2, <1>3

LEMMA BecomesPieces ==
  ASSUME NEW m, NEW hide, NEW j \in 1..Len(m)
  PROVE  /\ Becomes(m, hide, j) \in Seq(Pieces(m))
         /\ j \notin Gone(m, hide) => Becomes(m, hide, j) = <<Text(m[j])>>
         /\ j \in Gone(m, hide) /\ (\E n \in Stubs(m, hide) : BodyStart(m, n) = j) =>
              Len(Becomes(m, hide, j)) = 2
         /\ j \in Gone(m, hide) /\ (~ \E n \in Stubs(m, hide) : BodyStart(m, n) = j) =>
              Becomes(m, hide, j) = <<>>
<1>1. Stubs(m, hide) \subseteq Headers(m)
  BY DEF Stubs
<1>2. CASE j \notin Gone(m, hide)
  <2>1. Becomes(m, hide, j) = <<Text(m[j])>>
    BY <1>2 DEF Becomes
  <2> QED BY <1>2, <2>1, PiecesOf
<1>3. CASE j \in Gone(m, hide) /\ \E n \in Stubs(m, hide) : BodyStart(m, n) = j
  <2> DEFINE n == CHOOSE n \in Stubs(m, hide) : BodyStart(m, n) = j
  <2>1. n \in Headers(m) /\ Becomes(m, hide, j) = StubOf(m, n)
    BY <1>1, <1>3 DEF Becomes
  <2> HIDE DEF n
  <2> QED BY <1>3, <2>1, PiecesOf
<1>4. CASE j \in Gone(m, hide) /\ ~ \E n \in Stubs(m, hide) : BodyStart(m, n) = j
  <2>1. Becomes(m, hide, j) = <<>>
    BY <1>4 DEF Becomes
  <2> QED BY <1>4, <2>1
<1> QED BY <1>2, <1>3, <1>4

LEMMA OutNext ==
  ASSUME NEW m, Lines(m), WellFormed(m), NEW hide, NEW k \in Nat, k < Len(m)
  PROVE  /\ Out(m, hide, 0) = <<>>
         /\ Out(m, hide, k + 1) = Out(m, hide, k) \o Becomes(m, hide, k + 1)
<1> DEFINE x == Rendering(m, hide)
<1>1. Folded(x, 0) = Base(x) /\ Folded(x, k + 1) = Onward(x, Folded(x, k), k + 1)
  BY FoldStep
<1>2. k + 1 \in 1..Len(m)
  BY DEF Lines
<1>3. Rendered(m, Structure(m), hide, k + 1) = Becomes(m, hide, k + 1)
  BY <1>2, LineBecomes
<1>4. /\ Out(m, hide, 0) = Folded(x, 0) /\ Out(m, hide, k) = Folded(x, k)
      /\ Out(m, hide, k + 1) = Folded(x, k + 1)
  BY RenderUpToIs DEF Out
<1>5. Base(x) = <<>>
  BY DEF Base, Rendering
<1>6. \A s : Onward(x, s, k + 1) = s \o Rendered(m, Structure(m), hide, k + 1)
  BY DEF Onward, Rendering
<1> QED BY <1>1, <1>3, <1>4, <1>5, <1>6

LEMMA LengthNext ==
  ASSUME NEW m, Lines(m), WellFormed(m), NEW hide, NEW k \in Nat, k < Len(m)
  PROVE  /\ LengthBy(m, hide, 0) = 0 /\ LengthBy(m, hide, k) \in Nat
         /\ LengthBy(m, hide, k + 1) = LengthBy(m, hide, k) + Len(Becomes(m, hide, k + 1))
<1> DEFINE l == k + 1
           Stayed(j) == (1..j) \ Gone(m, hide)
           Past(j) == {n \in Stubs(m, hide) : BodyStart(m, n) <= j}
<1>1. Len(m) \in Nat /\ l \in 1..Len(m) /\ l \in Nat
  BY DEF Lines
<1>2. \A n \in Headers(m) : /\ n \in 1..Len(m) /\ BlockEnd(m, n) \in Nat /\ BodyStart(m, n) \in Nat
                            /\ n + 1 < BodyStart(m, n) /\ BodyStart(m, n) < BlockEnd(m, n)
  BY BlockFacts
<1>3. IsFiniteSet(1..k) /\ IsFiniteSet(1..Len(m))
  BY <1>1, FS_Interval
<1>4. IsFiniteSet(Stayed(k)) /\ Cardinality(Stayed(k)) \in Nat
  <2>1. Stayed(k) \subseteq 1..k
    OBVIOUS
  <2> QED BY <1>3, <2>1, FS_Subset, FS_CardinalityType
<1>5. IsFiniteSet(Past(k)) /\ Cardinality(Past(k)) \in Nat
  <2>1. Past(k) \subseteq 1..Len(m)
    BY <1>2 DEF Stubs
  <2> QED BY <1>3, <2>1, FS_Subset, FS_CardinalityType
<1>6. /\ LengthBy(m, hide, k) = Cardinality(Stayed(k)) + 2 * Cardinality(Past(k))
      /\ LengthBy(m, hide, l) = Cardinality(Stayed(l)) + 2 * Cardinality(Past(l))
      /\ LengthBy(m, hide, 0) = Cardinality(Stayed(0)) + 2 * Cardinality(Past(0))
  BY DEF LengthBy
<1>7. Stayed(0) = {} /\ Past(0) = {}
  BY <1>2 DEF Stubs
<1>8. Stayed(l) = IF l \in Gone(m, hide) THEN Stayed(k) ELSE Stayed(k) \cup {l}
  OBVIOUS
<1>9. \A n \in Stubs(m, hide) : BodyStart(m, n) <= l <=> BodyStart(m, n) <= k \/ BodyStart(m, n) = l
  BY <1>2 DEF Stubs
<1>10. Cardinality(Stayed(l)) = Cardinality(Stayed(k)) + (IF l \in Gone(m, hide) THEN 0 ELSE 1)
  <2>1. l \notin Stayed(k)
    OBVIOUS
  <2>2. Stayed(l) = Stayed(k) => Cardinality(Stayed(l)) = Cardinality(Stayed(k))
    OBVIOUS
  <2>3. Stayed(l) = Stayed(k) \cup {l} => Cardinality(Stayed(l)) = Cardinality(Stayed(k)) + 1
    <3> HIDE DEF Stayed
    <3> QED BY <1>4, <2>1, FS_AddElement
  <2> HIDE DEF Stayed
  <2> QED BY <1>4, <1>8, <2>2, <2>3
<1> HIDE DEF Stayed
<1>11. LengthBy(m, hide, 0) = 0
  <2>1. Cardinality({}) = 0
    BY FS_EmptySet
  <2> HIDE DEF Past
  <2> QED BY <1>6, <1>7, <2>1
<1>12. LengthBy(m, hide, k) \in Nat
  <2> HIDE DEF Past
  <2> QED BY <1>4, <1>5, <1>6
<1>13. CASE \E n \in Stubs(m, hide) : BodyStart(m, n) = l
  <2>1. PICK n \in Stubs(m, hide) : BodyStart(m, n) = l
    BY <1>13
  <2>2. ASSUME NEW i \in Stubs(m, hide), BodyStart(m, i) = l PROVE i = n
    BY <1>1, <1>2, <2>1, <2>2, OneBlock DEF Stubs
  <2>3. Past(l) = Past(k) \cup {n}
    BY <1>9, <2>1, <2>2
  <2>4. n \notin Past(k)
    BY <2>1
  <2>5. Cardinality(Past(l)) = Cardinality(Past(k)) + 1
    <3> HIDE DEF Past
    <3> QED BY <1>5, <2>3, <2>4, FS_AddElement
  <2>6. l \in Gone(m, hide)
    <3>1. InBody(m, n, l)
      BY <1>2, <2>1 DEF InBody, Stubs
    <3> QED BY <1>1, <3>1, GoneIs
  <2>7. Len(Becomes(m, hide, l)) = 2
    BY <1>1, <1>13, <2>6, BecomesPieces
  <2>8. LengthBy(m, hide, l) = LengthBy(m, hide, k) + Len(Becomes(m, hide, l))
    <3> HIDE DEF Past, l
    <3> QED BY <1>4, <1>5, <1>6, <1>10, <2>5, <2>6, <2>7
  <2> QED BY <1>11, <1>12, <2>8
<1>14. CASE ~ \E n \in Stubs(m, hide) : BodyStart(m, n) = l
  <2>1. Past(l) = Past(k)
    BY <1>9, <1>14
  <2>2. Len(Becomes(m, hide, l)) = IF l \in Gone(m, hide) THEN 0 ELSE 1
    <3>1. l \in Gone(m, hide) => Becomes(m, hide, l) = <<>>
      BY <1>1, <1>14, BecomesPieces
    <3>2. l \notin Gone(m, hide) => Becomes(m, hide, l) = <<Text(m[l])>>
      BY <1>1, BecomesPieces
    <3>3. Len(<<>>) = 0 /\ \A y : Len(<<y>>) = 1
      OBVIOUS
    <3>4. CASE l \in Gone(m, hide)
      BY <3>1, <3>3, <3>4
    <3>5. CASE l \notin Gone(m, hide)
      BY <3>2, <3>3, <3>5
    <3> QED BY <3>4, <3>5
  <2>3. LengthBy(m, hide, l) = LengthBy(m, hide, k) + Len(Becomes(m, hide, l))
    <3> HIDE DEF Past, l
    <3>1. CASE l \in Gone(m, hide)
      BY <1>4, <1>5, <1>6, <1>10, <2>1, <2>2, <3>1
    <3>2. CASE l \notin Gone(m, hide)
      BY <1>4, <1>5, <1>6, <1>10, <2>1, <2>2, <3>2
    <3> QED BY <3>1, <3>2
  <2> QED BY <1>11, <1>12, <2>3
<1> QED BY <1>13, <1>14

\* The released file grows line by line; what is in it stays.
LEMMA OutGrows ==
  ASSUME NEW m, Lines(m), WellFormed(m), NEW hide
  PROVE  \A k \in 0..Len(m) : /\ Out(m, hide, k) \in Seq(Pieces(m))
                              /\ Len(Out(m, hide, k)) = LengthBy(m, hide, k)
<1> DEFINE Right(k) == /\ Out(m, hide, k) \in Seq(Pieces(m))
                       /\ Len(Out(m, hide, k)) = LengthBy(m, hide, k)
           S == {k \in Nat : Right(k)}
<1>1. Len(m) \in Nat
  BY DEF Lines
<1>2. Right(0)
  <2>1. Folded(Rendering(m, hide), 0) = Base(Rendering(m, hide))
    BY FoldStep
  <2>2. Out(m, hide, 0) = <<>>
    BY <2>1, RenderUpToIs DEF Out, Base, Rendering
  <2>3. LengthBy(m, hide, 0) = 0
    <3>1. \A n \in Stubs(m, hide) : BodyStart(m, n) \in 1..Len(m)
      BY BlockFacts DEF Stubs
    <3>2. /\ (1..0) \ Gone(m, hide) = {}
          /\ {n \in Stubs(m, hide) : BodyStart(m, n) <= 0} = {}
      BY <3>1
    <3> QED BY <3>2, FS_EmptySet DEF LengthBy
  <2>4. <<>> \in Seq(Pieces(m)) /\ Len(<<>>) = 0
    OBVIOUS
  <2> QED BY <2>2, <2>3, <2>4, Zenon
<1>3. ASSUME NEW k \in Nat, k < Len(m), Right(k)
      PROVE  Right(k + 1)
  <2>1. Out(m, hide, k + 1) = Out(m, hide, k) \o Becomes(m, hide, k + 1)
    BY <1>3, OutNext
  <2>2. Becomes(m, hide, k + 1) \in Seq(Pieces(m))
    BY <1>1, <1>3, BecomesPieces
  <2>3. LengthBy(m, hide, k + 1) = LengthBy(m, hide, k) + Len(Becomes(m, hide, k + 1))
    BY <1>3, LengthNext
  <2> DEFINE o == Out(m, hide, k)
             b == Becomes(m, hide, k + 1)
  <2> HIDE DEF o, b
  <2>4. o \in Seq(Pieces(m)) /\ b \in Seq(Pieces(m)) /\ Len(o) = LengthBy(m, hide, k)
    BY <1>3, <2>2 DEF o, b
  <2>5. o \o b \in Seq(Pieces(m)) /\ Len(o \o b) = Len(o) + Len(b)
    BY <2>4
  <2> QED BY <2>1, <2>3, <2>4, <2>5, Zenon DEF o, b
<1> HIDE DEF Right
<1>4. \A k \in 0..(Len(m) - 1) : k \in S => k + 1 \in S
  BY <1>1, <1>3
<1>5. 0 \in S
  BY <1>2
<1>6. \A k \in 0..Len(m) : k \in S
  <2> HIDE DEF S
  <2> QED BY <1>1, <1>4, <1>5, Climbs
<1> QED BY <1>6 DEF Right

LEMMA OutKeeps ==
  ASSUME NEW m, Lines(m), WellFormed(m), NEW hide, NEW j \in 0..Len(m)
  PROVE  \A k \in j..Len(m) :
           /\ Len(Out(m, hide, j)) <= Len(Out(m, hide, k))
           /\ \A i \in 1..Len(Out(m, hide, j)) : Out(m, hide, k)[i] = Out(m, hide, j)[i]
<1> DEFINE O(k) == Out(m, hide, k)
           Right(k) == j <= k => /\ Len(O(j)) <= Len(O(k))
                                 /\ \A i \in 1..Len(O(j)) : O(k)[i] = O(j)[i]
           S == {k \in Nat : Right(k)}
<1>1. Len(m) \in Nat /\ j \in Nat
  BY DEF Lines
<1>2. \A k \in 0..Len(m) : O(k) \in Seq(Pieces(m)) /\ Len(O(k)) \in Nat
  BY OutGrows
<1>3. Right(0)
  BY <1>1, <1>2
<1>4. ASSUME NEW k \in Nat, k < Len(m), Right(k)
      PROVE  Right(k + 1)
  <2>1. O(k + 1) = O(k) \o Becomes(m, hide, k + 1)
    BY <1>4, OutNext
  <2>2. Becomes(m, hide, k + 1) \in Seq(Pieces(m))
    BY <1>1, <1>4, BecomesPieces
  <2>3. O(k) \in Seq(Pieces(m)) /\ k \in 0..Len(m) /\ k + 1 \in 0..Len(m)
    BY <1>1, <1>2, <1>4
  <2>4. /\ Len(O(k)) <= Len(O(k + 1))
        /\ \A i \in 1..Len(O(k)) : O(k + 1)[i] = O(k)[i]
    <3> HIDE DEF O
    <3> QED BY <2>1, <2>2, <2>3
  <2>5. CASE j = k + 1
    BY <1>1, <1>2, <2>5
  <2>6. CASE j <= k
    <3>1. /\ Len(O(j)) <= Len(O(k)) /\ \A i \in 1..Len(O(j)) : O(k)[i] = O(j)[i]
      BY <1>4, <2>6
    <3>2. Len(O(j)) \in Nat /\ Len(O(k)) \in Nat /\ Len(O(k + 1)) \in Nat
      BY <1>2, <2>3
    <3> HIDE DEF O
    <3> QED BY <2>4, <3>1, <3>2
  <2> QED BY <1>1, <2>5, <2>6
<1> HIDE DEF Right
<1>5. \A k \in 0..(Len(m) - 1) : k \in S => k + 1 \in S
  BY <1>1, <1>4
<1>6. 0 \in S
  BY <1>3
<1>7. \A k \in 0..Len(m) : k \in S
  <2> HIDE DEF S
  <2> QED BY <1>1, <1>5, <1>6, Climbs
<1> QED BY <1>1, <1>7 DEF Right

LEMMA PositionIs ==
  ASSUME NEW m, Lines(m), WellFormed(m), NEW hide
  PROVE  /\ \A n \in (1..Len(m)) \ Gone(m, hide) : Position(m, hide, n) = LengthBy(m, hide, n)
         /\ \A n \in Stubs(m, hide) : Position(m, hide, n) = LengthBy(m, hide, BodyStart(m, n) - 1)
<1>1. \A n \in Headers(m) : /\ n \in 1..Len(m) /\ n \in Nat
                            /\ BlockEnd(m, n) \in Nat /\ BodyStart(m, n) \in Nat
                            /\ n + 1 < BodyStart(m, n) /\ BodyStart(m, n) < BlockEnd(m, n)
                            /\ BodyStart(m, n) \in 1..Len(m)
                            /\ \A j \in Headers(m) : n < j => BlockEnd(m, n) < j
  BY BlockFacts
<1>2. ASSUME NEW n \in (1..Len(m)) \ Gone(m, hide)
      PROVE  Position(m, hide, n) = LengthBy(m, hide, n)
  <2>1. n \in Nat
    BY DEF Lines
  <2>2. ASSUME NEW k \in Stubs(m, hide)
        PROVE  k < n <=> BodyStart(m, k) <= n
    <3>1. k \in Headers(m)
      BY DEF Stubs
    <3>2. ~InBody(m, k, n)
      BY <1>2, GoneIs
    <3>3. ~InInstruction(m, n)
      BY <1>2, GoneIs
    <3>4. Instruct(m, k)
      BY <3>1, BlockFacts
    <3>5. ~(k < n /\ n < BodyStart(m, k))
      BY <3>1, <3>3, <3>4 DEF InInstruction
    <3> QED BY <1>1, <2>1, <3>1, <3>5
  <2>3. {k \in Stubs(m, hide) : k < n} = {k \in Stubs(m, hide) : BodyStart(m, k) <= n}
    BY <2>2
  <2> QED BY <2>3 DEF Position, LengthBy
<1>3. ASSUME NEW n \in Stubs(m, hide)
      PROVE  Position(m, hide, n) = LengthBy(m, hide, BodyStart(m, n) - 1)
  <2> DEFINE b == BodyStart(m, n)
  <2>1. n \in Headers(m) /\ b \in Nat /\ b \in 1..Len(m) /\ Instruct(m, n)
    BY <1>1, BlockFacts DEF Stubs
  <2>2. \A k \in Stubs(m, hide) : k < n <=> BodyStart(m, k) <= b - 1
    <3> SUFFICES ASSUME NEW k \in Stubs(m, hide) PROVE k < n <=> BodyStart(m, k) <= b - 1
      OBVIOUS
    <3>1. k \in Headers(m)
      BY DEF Stubs
    <3>2. /\ k \in Nat /\ n \in Nat /\ BodyStart(m, k) \in Nat /\ BlockEnd(m, k) \in Nat
          /\ BlockEnd(m, n) \in Nat /\ n + 1 < b /\ b < BlockEnd(m, n)
          /\ k + 1 < BodyStart(m, k) /\ BodyStart(m, k) < BlockEnd(m, k)
          /\ k < n => BlockEnd(m, k) < n
          /\ n < k => BlockEnd(m, n) < k
      BY <1>1, <2>1, <3>1
    <3>3. k = n => BodyStart(m, k) = b
      OBVIOUS
    <3> HIDE DEF b
    <3> QED BY <2>1, <3>2, <3>3
  <2>3. \A j \in 1..Len(m) : n <= j /\ j < b => j \in Gone(m, hide)
    <3> SUFFICES ASSUME NEW j \in 1..Len(m), n <= j, j < b PROVE j \in Gone(m, hide)
      OBVIOUS
    <3>1. CASE j = n
      <4>1. IsMark(m, j)
        BY <2>1, <3>1 DEF Headers, IsMark
      <4> QED BY <4>1, GoneIs
    <3>2. CASE n < j
      <4>1. InInstruction(m, j)
        BY <2>1, <3>2 DEF InInstruction
      <4> QED BY <4>1, GoneIs
    <3>3. n \in Nat /\ j \in Nat
      BY <1>1, <2>1 DEF Lines
    <3> QED BY <3>1, <3>2, <3>3
  <2>4. (1..n) \ Gone(m, hide) = (1..(b - 1)) \ Gone(m, hide)
    <3>1. n \in Nat /\ n < b /\ Len(m) \in Nat /\ b <= Len(m)
      BY <1>1, <2>1 DEF Lines
    <3>2. \A j \in 1..(b - 1) : j \notin Gone(m, hide) => j \in 1..n
      <4> HIDE DEF b
      <4> QED BY <2>1, <2>3, <3>1
    <3>3. 1..n \subseteq 1..(b - 1)
      <4> HIDE DEF b
      <4> QED BY <2>1, <3>1
    <3> HIDE DEF b
    <3> QED BY <3>2, <3>3
  <2>5. {k \in Stubs(m, hide) : k < n} = {k \in Stubs(m, hide) : BodyStart(m, k) <= b - 1}
    BY <2>2
  <2> QED BY <2>4, <2>5 DEF Position, LengthBy
<1> QED BY <1>2, <1>3

\* What is released of a well-formed master, line by line.
LEMMA ReleaseOf ==
  ASSUME NEW m, Lines(m), WellFormed(m), NEW hide
  PROVE  LET out == Release(m, hide)
             at(n) == Position(m, hide, n)
         IN  /\ Len(out) = Cardinality((1 .. Len(m)) \ Gone(m, hide)) + 2 * Cardinality(Stubs(m, hide))
             /\ \A n \in (1 .. Len(m)) \ Gone(m, hide) : out[at(n)] = Text(m[n])
             /\ \A n \in Stubs(m, hide) : SubSeq(out, at(n) + 1, at(n) + 2) = StubOf(m, n)
             /\ ReleaseRanges(m, hide) = {<<at(n) + 1, at(n) + 2>> : n \in Stubs(m, hide)}
<1> DEFINE len == Len(m)
           out == Release(m, hide)
           O(k) == Out(m, hide, k)
           L(k) == LengthBy(m, hide, k)
           at(n) == Position(m, hide, n)
<1>1. len \in Nat /\ len \in 0..len
  BY DEF Lines
<1>2. out = O(len)
  BY DEF Release, Out
<1>3. \A k \in 0..len : O(k) \in Seq(Pieces(m)) /\ Len(O(k)) = L(k)
  BY OutGrows
<1>4. \A n \in Stubs(m, hide) : n \in Headers(m) /\ BodyStart(m, n) \in 1..len
  BY BlockFacts DEF Stubs
<1>5. Len(out) = Cardinality((1 .. len) \ Gone(m, hide)) + 2 * Cardinality(Stubs(m, hide))
  <2>1. {n \in Stubs(m, hide) : BodyStart(m, n) <= len} = Stubs(m, hide)
    BY <1>4
  <2>2. L(len) = Cardinality((1 .. len) \ Gone(m, hide)) + 2 * Cardinality(Stubs(m, hide))
    BY <2>1 DEF LengthBy
  <2>3. Len(out) = L(len)
    BY <1>1, <1>2, <1>3
  <2> QED BY <2>2, <2>3
\* Line k adds a piece to what line k - 1 left, and the piece stays.
<1>6. ASSUME NEW k \in 1..len
      PROVE  LET p == Becomes(m, hide, k)
             IN  /\ L(k - 1) \in Nat /\ L(k) = L(k - 1) + Len(p) /\ L(k) <= Len(out)
                 /\ \A i \in 1..Len(p) : out[L(k - 1) + i] = p[i]
  <2> DEFINE p == Becomes(m, hide, k)
  <2>1. /\ k - 1 \in Nat /\ k - 1 < len /\ k - 1 \in 0..len /\ k \in 0..len
        /\ (k - 1) + 1 = k /\ len \in k..len
    BY <1>1
  <2>2. O(k) = O(k - 1) \o p
    BY <2>1, OutNext
  <2>3. p \in Seq(Pieces(m))
    BY <1>1, BecomesPieces
  <2>4. /\ Len(O(k)) <= Len(out) /\ \A i \in 1..Len(O(k)) : out[i] = O(k)[i]
    BY <1>2, <2>1, OutKeeps
  <2>5. O(k - 1) \in Seq(Pieces(m)) /\ Len(O(k - 1)) = L(k - 1) /\ Len(O(k)) = L(k)
    BY <1>3, <2>1
  <2> HIDE DEF O, p, out, L
  <2>6. /\ Len(O(k)) = Len(O(k - 1)) + Len(p)
        /\ Len(O(k - 1)) \in Nat /\ Len(p) \in Nat
        /\ \A i \in 1..Len(p) : O(k)[Len(O(k - 1)) + i] = p[i]
    BY <2>2, <2>3, <2>5
  <2>7. \A i \in 1..Len(p) : L(k - 1) + i \in 1..Len(O(k))
    BY <2>5, <2>6
  <2>8. \A i \in 1..Len(p) : out[L(k - 1) + i] = p[i]
    BY <2>4, <2>5, <2>6, <2>7
  <2>9. L(k - 1) \in Nat /\ L(k) = L(k - 1) + Len(p) /\ L(k) <= Len(out)
    BY <2>4, <2>5, <2>6
  <2> QED BY <2>8, <2>9 DEF p
<1>7. ASSUME NEW n \in (1 .. len) \ Gone(m, hide)
      PROVE  out[at(n)] = Text(m[n])
  <2> DEFINE p == Becomes(m, hide, n)
  <2>1. p = <<Text(m[n])>>
    BY <1>7 DEF Becomes
  <2>2. Len(p) = 1 /\ p[1] = Text(m[n])
    BY <2>1
  <2>3. at(n) = L(n)
    BY PositionIs
  <2>4. L(n) = L(n - 1) + Len(p) /\ \A i \in 1..Len(p) : out[L(n - 1) + i] = p[i]
    BY <1>6
  <2> HIDE DEF p, out, L, at
  <2>5. 1 \in 1..Len(p)
    BY <2>2
  <2> QED BY <2>2, <2>3, <2>4, <2>5
<1>8. ASSUME NEW n \in Stubs(m, hide)
      PROVE  SubSeq(out, at(n) + 1, at(n) + 2) = StubOf(m, n)
  <2> DEFINE b == BodyStart(m, n)
             p == Becomes(m, hide, b)
             a == at(n)
  <2>1. b \in 1..len /\ b \in Gone(m, hide) /\ b \in Nat
    <3>1. InBody(m, n, b)
      BY <1>4, BlockFacts DEF InBody
    <3> QED BY <1>4, <3>1, GoneIs
  <2>2. p = StubOf(m, n)
    <3>1. ASSUME NEW i \in Stubs(m, hide), BodyStart(m, i) = b PROVE i = n
      <4>1. i \in Headers(m) /\ n \in Headers(m)
        BY DEF Stubs
      <4>2. /\ n <= b /\ b <= BlockEnd(m, n) /\ i <= b /\ b <= BlockEnd(m, i)
        <5>1. /\ n \in Nat /\ n + 1 < b /\ b < BlockEnd(m, n) /\ BlockEnd(m, n) \in Nat
              /\ i \in Nat /\ i + 1 < b /\ b < BlockEnd(m, i) /\ BlockEnd(m, i) \in Nat
          BY <3>1, <4>1, BlockFacts
        <5> QED BY <2>1, <5>1
      <4> QED BY <2>1, <4>1, <4>2, OneBlock
    <3>2. (CHOOSE i \in Stubs(m, hide) : BodyStart(m, i) = b) = n
      BY <3>1
    <3> QED BY <2>1, <3>2 DEF Becomes
  <2>3. Len(p) = 2 /\ p \in Seq(Pieces(m))
    BY <1>4, <2>2, PiecesOf
  <2>4. a = L(b - 1)
    BY PositionIs
  <2>5. /\ L(b - 1) \in Nat /\ L(b) = L(b - 1) + Len(p) /\ L(b) <= Len(out)
        /\ \A i \in 1..Len(p) : out[L(b - 1) + i] = p[i]
    BY <1>6, <2>1
  <2>6. out \in Seq(Pieces(m))
    BY <1>1, <1>2, <1>3
  <2> HIDE DEF b, p, out, L, at
  <2>7. /\ a \in Nat /\ a + 2 <= Len(out) /\ Len(out) \in Nat
        /\ out[a + 1] = p[1] /\ out[a + 2] = p[2]
    BY <2>3, <2>4, <2>5, <2>6
  <2> HIDE DEF a
  <2>8. /\ SubSeq(out, a + 1, a + 2) \in Seq(Pieces(m))
        /\ Len(SubSeq(out, a + 1, a + 2)) = 2
        /\ SubSeq(out, a + 1, a + 2)[1] = out[a + 1]
        /\ SubSeq(out, a + 1, a + 2)[2] = out[a + 2]
    BY <2>6, <2>7
  <2>9. SubSeq(out, a + 1, a + 2) = p
    BY <2>3, <2>7, <2>8
  <2> QED BY <2>2, <2>9 DEF a
<1>9. ReleaseRanges(m, hide) = {<<at(n) + 1, at(n) + 2>> : n \in Stubs(m, hide)}
  <2> DEFINE st == Structure(m)
             H == {g \in Range(st.gaps) : g.id \in hide}
             o(g) == Len(RenderUpTo(m, st, hide, g.first - 1))
  <2>1. Range(st.gaps) = {GapAt(m, n) : n \in Headers(m)}
    BY StructureOf
  <2>2. \A n : GapAt(m, n).id = m[n].id /\ GapAt(m, n).first = BodyStart(m, n)
    BY DEF GapAt
  <2>3. H = {GapAt(m, n) : n \in Stubs(m, hide)}
    BY <2>1, <2>2 DEF Stubs
  <2>4. ASSUME NEW n \in Stubs(m, hide) PROVE o(GapAt(m, n)) = at(n)
    <3>1. BodyStart(m, n) - 1 \in 0..len
      BY <1>1, <1>4
    <3>2. Len(O(BodyStart(m, n) - 1)) = L(BodyStart(m, n) - 1)
      BY <1>3, <3>1
    <3>3. o(GapAt(m, n)) = Len(O(BodyStart(m, n) - 1))
      BY <2>2 DEF Out
    <3>4. at(n) = L(BodyStart(m, n) - 1)
      BY PositionIs
    <3> QED BY <3>2, <3>3, <3>4
  <2>5. ReleaseRanges(m, hide) = {<<o(g) + 1, o(g) + 2>> : g \in H}
    BY DEF ReleaseRanges
  <2> HIDE DEF H, o, at
  <2> QED BY <2>3, <2>4, <2>5
<1> QED BY <1>5, <1>7, <1>8, <1>9

\* What keeps a well-formed master from being rendered.
LEMMA CanRenderIs ==
  ASSUME NEW m, Lines(m), WellFormed(m), NEW hide \in SUBSET {m[n].id : n \in Headers(m)}
  PROVE  CanRender(m, hide) = (\A n \in Stubs(m, hide) : ~NoBody(m, n))
<1>1. Structure(m).error = "none" /\ GapsOf(m) = {GapAt(m, n) : n \in Headers(m)}
  BY StructureOf DEF GapsOf
<1>2. \A n : /\ GapAt(m, n).id = m[n].id /\ GapAt(m, n).first = BodyStart(m, n)
             /\ GapAt(m, n).last = BlockEnd(m, n) - 1
  BY DEF GapAt
<1>3. Hides(m, hide)
  BY <1>1, <1>2 DEF Hides
<1>4. \A n \in Headers(m) : BodyStart(m, n) < BlockEnd(m, n) - 1 <=> BodyStart(m, n) + 1 # BlockEnd(m, n)
  <2>1. \A n \in Headers(m) : /\ BodyStart(m, n) \in Nat /\ BlockEnd(m, n) \in Nat
                              /\ BodyStart(m, n) < BlockEnd(m, n)
    BY BlockFacts
  <2> QED BY <2>1
<1> DEFINE Fits(g) == g.first < g.last \/ Text(m[g.first]) # Empty
<1>5. \A n \in Headers(m) : Fits(GapAt(m, n)) <=> ~NoBody(m, n)
  BY <1>2, <1>4 DEF NoBody
<1>6. CanRender(m, hide) <=> \A g \in GapsOf(m) : g.id \in hide => Fits(g)
  BY <1>3 DEF CanRender
<1> HIDE DEF Fits
<1>7. CanRender(m, hide) <=> \A n \in Stubs(m, hide) : ~NoBody(m, n)
  BY <1>1, <1>2, <1>5, <1>6 DEF Stubs
<1>8. CanRender(m, hide) \in BOOLEAN
  BY DEF CanRender
<1> QED BY <1>7, <1>8, Zenon

\* ReleaseIsExact in these words.
LEMMA ReleaseExact ==
  ASSUME Lines(master)
  PROVE  ReleaseIsExact
<1>1. (Structure(master).error = "none") = WellFormed(master)
  <2>1. Structure(master).error = "none" <=> WellFormed(master)
    BY StructureOf
  <2>2. WellFormed(master) \in BOOLEAN
    BY DEF WellFormed
  <2> QED BY <2>1, <2>2
<1>2. ASSUME WellFormed(master), NEW hide \in SUBSET {master[n].id : n \in Headers(master)}
      PROVE  LET out == Release(master, hide)
                 kept == (1 .. Len(master)) \ Gone(master, hide)
                 at(n) == Position(master, hide, n)
             IN  /\ CanRender(master, hide)
                      = (\A n \in Stubs(master, hide) : ~NoBody(master, n))
                 /\ Len(out) = Cardinality(kept) + 2 * Cardinality(Stubs(master, hide))
                 /\ \A n \in kept : out[at(n)] = Text(master[n])
                 /\ \A n \in Stubs(master, hide) :
                      SubSeq(out, at(n) + 1, at(n) + 2)
                        = Stub(Instructed(master, n), master[BodyStart(master, n)].indent)
                 /\ ReleaseRanges(master, hide)
                      = {<<at(n) + 1, at(n) + 2>> : n \in Stubs(master, hide)}
  BY <1>2, ReleaseOf, CanRenderIs DEF StubOf
<1> QED BY <1>1, <1>2 DEF ReleaseIsExact

----------------------------------------------------------------------------
\* The master stays the one that was read, and the library's sequences are
\* its lines.
MasterKept == master \in Masters \cup {<<>>}

LEMMA MasterHasLines ==
  ASSUME MasterKept
  PROVE  Lines(master)
<1>1. CASE master = <<>>
  BY <1>1 DEF Lines
<1>2. CASE master \in Masters
  <2>1. /\ master \in Seq(Range(master))
        /\ \A l \in Range(master) : l.kind \in Kinds /\ (l.kind = "gap" => l.defects \subseteq Defects)
    BY <1>2, MasterAssumption
  <2>2. Len(master) \in Nat /\ \A n \in 1..Len(master) : master[n] \in Range(master)
    BY <2>1 DEF Range
  <2> QED BY <2>1, <2>2 DEF Lines
<1> QED BY <1>1, <1>2 DEF MasterKept

\* For every master: the parser accepts it exactly when it is well formed, and
\* then the released file holds, for every choice of hidden gaps, the lines
\* that are text and not hidden, in order, a stub in the place of each hidden
\* body and the ranges of the stubs.
THEOREM ReleasedAsWritten == Spec => []ReleaseIsExact
<1>1. Init => MasterKept
  BY DEF Init, FileInit, NoFile, MasterKept
<1>2. MasterKept /\ [Next]_rulesvars => MasterKept'
  BY DEF MasterKept, Next, FileNext, Deliver, Edit, Insert, Change, Delete, Fill, rulesvars, filevars
<1>3. MasterKept => ReleaseIsExact
  BY MasterHasLines, ReleaseExact
<1> QED BY <1>1, <1>2, <1>3, PTL DEF Spec

----------------------------------------------------------------------------
(* The diff of the released and the submitted file: what its rounds keep.   *)

Sized(a, b) == Len(a) \in Nat /\ Len(b) \in Nat
Start == <<0, 0>>

\* A stop before the first line, after the last one, or at two equal lines.
IsStop(a, b, x) ==
  /\ x[1] \in Nat /\ x[2] \in Nat /\ x = <<x[1], x[2]>>
  /\ \/ x = Start \/ x = End(a, b)
     \/ x[1] \in 1..Len(a) /\ x[2] \in 1..Len(b) /\ a[x[1]] = b[x[2]]
\* Two stops stand in the same order in both files.
Climb(x, y) == \/ x[1] < y[1] /\ x[2] < y[2]
               \/ y[1] < x[1] /\ y[2] < x[2]
               \/ x[1] = y[1] /\ x[2] = y[2]
Aligned(a, b, S) == /\ Start \in S /\ End(a, b) \in S
                    /\ \A x \in S : IsStop(a, b, x)
                    /\ \A x, y \in S : Climb(x, y)
Inside(p, x, y) == x[1] < p[1] /\ p[1] < y[1] /\ x[2] < p[2] /\ p[2] < y[2]

LEMMA StopsIs ==
  ASSUME NEW a, NEW b, Sized(a, b)
  PROVE  Stops(a, b) = Folded(Aligning(a, b), Len(a))
<1> DEFINE len == Len(a)
           begin == {<<0, 0>>, End(a, b)}
           fold == FoldLeft(LAMBDA stops, r : Round(a, b, stops), begin, [r \in 1..len |-> r])
           Is(f) == f = [s \in SUBSET (1..len) |->
                           IF s = {} THEN begin ELSE Round(a, b, f[s \ {Max(s)}])]
<1>1. len \in Nat /\ DOMAIN [r \in 1..len |-> r] = 1..len
  BY DEF Sized
<1>2. \A s \in SUBSET (1..len) : s # {} => Max(s) \in 1..len
  BY <1>1, BelowMax
<1>3. fold = (CHOOSE f : Is(f))[1..len]
  BY <1>1, <1>2 DEF FoldLeft, MapThenFoldSet
<1>4. \A f : Folds(Aligning(a, b), f, len) <=> Is(f)
  BY DEF Folds, Aligning, Base, Onward
<1>5. Folded(Aligning(a, b), len) = (CHOOSE f : Is(f))[1..len]
  BY <1>4 DEF Folded
<1>6. Stops(a, b) = fold
  BY Zenon DEF Stops
<1> HIDE DEF fold
<1> QED BY <1>3, <1>5, <1>6

LEMMA StopsAre ==
  ASSUME NEW a, NEW b, Sized(a, b), NEW S, Aligned(a, b, S), NEW x \in S
  PROVE  /\ x[1] \in Nat /\ x[2] \in Nat /\ x[1] <= Len(a) + 1 /\ x[2] <= Len(b) + 1
         /\ x = <<x[1], x[2]>>
         /\ \/ x = Start \/ x = End(a, b)
            \/ x[1] \in 1..Len(a) /\ x[2] \in 1..Len(b) /\ a[x[1]] = b[x[2]]
<1>1. IsStop(a, b, x) /\ Len(a) \in Nat /\ Len(b) \in Nat
  BY DEF Aligned, Sized
<1>2. x = Start => x[1] = 0 /\ x[2] = 0
  BY DEF Start
<1>3. x = End(a, b) => x[1] = Len(a) + 1 /\ x[2] = Len(b) + 1
  BY DEF End
<1> QED BY <1>1, <1>2, <1>3 DEF IsStop

\* One line of a has one line of b, in the same order.
LEMMA StopsClimb ==
  ASSUME NEW a, NEW b, Sized(a, b), NEW S, Aligned(a, b, S), NEW x \in S, NEW y \in S
  PROVE  /\ x[1] < y[1] <=> x[2] < y[2]
         /\ x[1] = y[1] <=> x[2] = y[2]
         /\ x[1] = y[1] => x = y
<1>1. Climb(x, y)
  BY DEF Aligned
<1>2. /\ x[1] \in Nat /\ x[2] \in Nat /\ x = <<x[1], x[2]>>
      /\ y[1] \in Nat /\ y[2] \in Nat /\ y = <<y[1], y[2]>>
  BY StopsAre
<1> QED BY <1>1, <1>2 DEF Climb

LEMMA AfterIs ==
  ASSUME NEW a, NEW b, Sized(a, b), NEW S, Aligned(a, b, S), NEW x \in S \ {End(a, b)}
  PROVE  LET y == After(S, x)
         IN  /\ y \in S /\ x[1] < y[1] /\ x[2] < y[2]
             /\ \A z \in S : (x[1] < z[1] => y[1] <= z[1]) /\ (x[2] < z[2] => y[2] <= z[2])
<1> DEFINE Later == {z[1] : z \in {z \in S : z[1] > x[1]}}
           Is(y) == y \in S /\ y[1] > x[1] /\ \A z \in S : z[1] > x[1] => z[1] >= y[1]
<1>1. \A z \in S : z[1] \in Nat /\ z[2] \in Nat
  BY StopsAre
<1>2. Later \in SUBSET Nat
  BY <1>1
<1>3. End(a, b) \in S /\ End(a, b)[1] > x[1]
  <2>1. End(a, b) \in S
    BY DEF Aligned
  <2>2. Len(a) \in Nat /\ Len(b) \in Nat /\ End(a, b)[1] = Len(a) + 1 /\ End(a, b)[2] = Len(b) + 1
    BY DEF Sized, End
  <2>3. x[1] <= Len(a) + 1 /\ x[1] \in Nat
    BY StopsAre
  <2>4. x[1] # Len(a) + 1
    BY <2>1, <2>2, StopsClimb
  <2> QED BY <2>1, <2>2, <2>3, <2>4
<1>4. \E y : Is(y)
  <2>1. PICK c \in Later : \A d \in Later : c <= d
    <3>1. Later # {}
      BY <1>3
    <3> HIDE DEF Later
    <3> QED BY <1>2, <3>1, HasLeast
  <2>2. PICK y \in S : y[1] > x[1] /\ c = y[1]
    BY <2>1
  <2>3. \A z \in S : z[1] > x[1] => z[1] \in Later
    OBVIOUS
  <2>4. \A z \in S : z[1] > x[1] => z[1] >= y[1]
    <3> HIDE DEF Later
    <3> QED BY <1>1, <2>1, <2>2, <2>3
  <2> QED BY <2>2, <2>4
<1> DEFINE y == After(S, x)
<1>5. Is(y)
  BY <1>4 DEF After
<1> HIDE DEF y
<1>6. x[2] < y[2]
  BY <1>1, <1>5, StopsClimb
<1>7. ASSUME NEW z \in S, x[2] < z[2] PROVE y[2] <= z[2]
  <2>1. x[1] < z[1]
    BY <1>7, StopsClimb
  <2>2. y[1] <= z[1] /\ y[1] \in Nat /\ z[1] \in Nat /\ y[2] \in Nat /\ z[2] \in Nat
    BY <1>1, <1>5, <2>1
  <2>3. (y[1] < z[1] <=> y[2] < z[2]) /\ (y[1] = z[1] <=> y[2] = z[2])
    BY <1>5, StopsClimb
  <2> QED BY <2>2, <2>3
<1>8. \A z \in S : x[1] < z[1] => y[1] <= z[1]
  BY <1>1, <1>5
<1> QED BY <1>1, <1>5, <1>6, <1>7, <1>8 DEF y

\* Of the blocks two stretches have in common, one is the best.
LEMMA BestIs ==
  ASSUME NEW N \in Nat, NEW C, C # {},
         \A c \in C : c[1] \in Nat /\ c[2] \in Nat /\ c[3] \in Nat /\ c[3] <= N
  PROVE  \E c \in C : \A d \in C : Better(c, d)
<1> DEFINE Short == {N - c[3] : c \in C}
<1>1. PICK c \in C : \A d \in C : c[3] >= d[3]
  <2>1. \A c \in C : c[3] \in Nat /\ N - c[3] \in Nat
    OBVIOUS
  <2>2. Short \in SUBSET Nat /\ Short # {}
    BY <2>1
  <2>3. PICK k \in Short : \A l \in Short : k <= l
    <3> HIDE DEF Short
    <3> QED BY <2>2, HasLeast
  <2>4. PICK c \in C : k = N - c[3]
    OBVIOUS
  <2>5. \A d \in C : N - d[3] \in Short
    OBVIOUS
  <2>6. \A d \in C : N - c[3] <= N - d[3]
    <3> HIDE DEF Short
    <3> QED BY <2>3, <2>4, <2>5
  <2> QED BY <2>1, <2>6
<1> DEFINE Long == {d \in C : d[3] = c[3]}
           Firsts == {d[1] : d \in Long}
<1>2. PICK e \in Long : \A d \in Long : e[1] <= d[1]
  <2>1. Firsts \in SUBSET Nat /\ Firsts # {}
    OBVIOUS
  <2>2. PICK k \in Firsts : \A l \in Firsts : k <= l
    <3> HIDE DEF Firsts
    <3> QED BY <2>1, HasLeast
  <2>3. PICK e \in Long : k = e[1]
    OBVIOUS
  <2>4. \A d \in Long : d[1] \in Firsts
    OBVIOUS
  <2> HIDE DEF Firsts
  <2> QED BY <2>2, <2>3, <2>4
<1> DEFINE Early == {d \in Long : d[1] = e[1]}
           Seconds == {d[2] : d \in Early}
<1>3. PICK f \in Early : \A d \in Early : f[2] <= d[2]
  <2>1. Seconds \in SUBSET Nat /\ Seconds # {}
    OBVIOUS
  <2>2. PICK k \in Seconds : \A l \in Seconds : k <= l
    <3> HIDE DEF Seconds
    <3> QED BY <2>1, HasLeast
  <2>3. PICK f \in Early : k = f[2]
    OBVIOUS
  <2>4. \A d \in Early : d[2] \in Seconds
    OBVIOUS
  <2> HIDE DEF Seconds
  <2> QED BY <2>2, <2>3, <2>4
<1>4. f \in C /\ f[3] = c[3] /\ f[1] = e[1]
  OBVIOUS
<1>5. ASSUME NEW d \in C PROVE Better(f, d)
  <2>1. /\ f[1] \in Nat /\ f[2] \in Nat /\ f[3] \in Nat
        /\ d[1] \in Nat /\ d[2] \in Nat /\ d[3] \in Nat /\ f[3] >= d[3]
    BY <1>1, <1>4
  <2>2. CASE d[3] # f[3]
    BY <2>1, <2>2 DEF Better
  <2>3. CASE d[3] = f[3] /\ d[1] # f[1]
    <3>1. d \in Long
      BY <1>4, <2>3
    <3>2. f[1] <= d[1]
      BY <1>2, <1>4, <3>1
    <3> QED BY <2>1, <2>3, <3>2 DEF Better
  <2>4. CASE d[3] = f[3] /\ d[1] = f[1]
    <3>1. d \in Early
      BY <1>4, <2>4
    <3>2. f[2] <= d[2]
      BY <1>3, <3>1
    <3> QED BY <2>1, <2>4, <3>2 DEF Better
  <2> QED BY <2>2, <2>3, <2>4
<1> QED BY <1>4, <1>5

\* What the diff matches between two stops.
LEMMA LongestIs ==
  ASSUME NEW a, NEW b, Sized(a, b), NEW x, NEW y,
         x[1] \in Nat, x[2] \in Nat, y[1] \in Nat, y[2] \in Nat,
         y[1] <= Len(a) + 1, y[2] <= Len(b) + 1
  PROVE  LET F == FindLongestMatch(a, b, x, y)
         IN  /\ \A p \in F : /\ p[1] \in Nat /\ p[2] \in Nat /\ p = <<p[1], p[2]>>
                             /\ Inside(p, x, y) /\ a[p[1]] = b[p[2]]
             /\ \A p, q \in F : Climb(p, q)
             /\ \A p : Inside(p, x, y) /\ p[1] \in Nat /\ p[2] \in Nat /\ a[p[1]] = b[p[2]] => F # {}
<1> DEFINE F == FindLongestMatch(a, b, x, y)
           C == Common(a, b, x, y)
           best == CHOOSE c \in C : \A d \in C : Better(c, d)
<1>1. Len(a) \in Nat /\ Len(b) \in Nat
  BY DEF Sized
<1>2. \A c \in C :
        /\ c[1] \in x[1] + 1 .. y[1] - 1 /\ c[2] \in x[2] + 1 .. y[2] - 1 /\ c[3] \in 1 .. Len(a)
        /\ c[1] + c[3] <= y[1] /\ c[2] + c[3] <= y[2]
        /\ \A d \in 0 .. c[3] - 1 : a[c[1] + d] = b[c[2] + d]
  BY DEF Common
<1>3. ASSUME NEW c \in C PROVE c[1] \in Nat /\ c[2] \in Nat /\ c[3] \in Nat /\ c[3] <= Len(a)
  <2> DEFINE i == x[1]
             j == x[2]
             k == y[1]
             l == y[2]
             n == Len(a)
  <2>1. /\ c[1] \in i + 1 .. k - 1 /\ c[2] \in j + 1 .. l - 1 /\ c[3] \in 1 .. n
    BY <1>2
  <2>2. i \in Nat /\ j \in Nat /\ k \in Nat /\ l \in Nat /\ n \in Nat
    BY <1>1
  <2> HIDE DEF C, i, j, k, l, n
  <2>3. c[1] \in Nat /\ c[2] \in Nat /\ c[3] \in Nat /\ c[3] <= n
    BY <2>1, <2>2
  <2> QED BY <2>3 DEF n
<1>4. F = IF C = {} THEN {} ELSE {<<best[1] + d, best[2] + d>> : d \in 0 .. best[3] - 1}
  BY DEF FindLongestMatch
<1>5. C # {} => best \in C
  <2> SUFFICES ASSUME C # {} PROVE best \in C
    OBVIOUS
  <2>1. \E c \in C : \A d \in C : Better(c, d)
    <3> HIDE DEF C
    <3> QED BY <1>1, <1>3, BestIs
  <2> HIDE DEF C
  <2> QED BY <2>1
<1> HIDE DEF F, C, best
<1>6. ASSUME NEW p \in F
      PROVE  /\ C # {} /\ \E d \in 0 .. best[3] - 1 : p = <<best[1] + d, best[2] + d>>
  BY <1>4
<1>7. ASSUME NEW p \in F
      PROVE  /\ p[1] \in Nat /\ p[2] \in Nat /\ p = <<p[1], p[2]>>
             /\ Inside(p, x, y) /\ a[p[1]] = b[p[2]]
  <2>1. PICK d \in 0 .. best[3] - 1 : p = <<best[1] + d, best[2] + d>>
    BY <1>6
  <2>2. /\ best[1] \in x[1] + 1 .. y[1] - 1 /\ best[2] \in x[2] + 1 .. y[2] - 1
        /\ best[3] \in Nat /\ best[1] + best[3] <= y[1] /\ best[2] + best[3] <= y[2]
        /\ a[best[1] + d] = b[best[2] + d]
    BY <1>2, <1>3, <1>5, <1>6
  <2>3. p[1] = best[1] + d /\ p[2] = best[2] + d
    BY <2>1
  <2> DEFINE i == x[1]
             j == x[2]
             k == y[1]
             l == y[2]
             s == best[1]
             t == best[2]
             n == best[3]
  <2>4. /\ s + d \in Nat /\ t + d \in Nat /\ i < s + d /\ s + d < k /\ j < t + d /\ t + d < l
    <3>1. /\ s \in i + 1 .. k - 1 /\ t \in j + 1 .. l - 1 /\ n \in Nat
          /\ s + n <= k /\ t + n <= l /\ d \in 0 .. n - 1
      BY <2>2
    <3>2. i \in Nat /\ j \in Nat /\ k \in Nat /\ l \in Nat
      OBVIOUS
    <3> HIDE DEF i, j, k, l, s, t, n
    <3>3. s \in Nat /\ t \in Nat /\ i < s /\ j < t /\ d \in Nat /\ d < n
      BY <3>1, <3>2
    <3> QED BY <3>1, <3>2, <3>3
  <2>5. p[1] \in Nat /\ p[2] \in Nat /\ Inside(p, x, y)
    BY <2>3, <2>4 DEF Inside
  <2>6. p = <<p[1], p[2]>>
    BY <2>1, <2>3
  <2> QED BY <2>2, <2>3, <2>5, <2>6
<1>8. ASSUME NEW p \in F, NEW q \in F PROVE Climb(p, q)
  <2>1. PICK d \in 0 .. best[3] - 1 : p = <<best[1] + d, best[2] + d>>
    BY <1>6
  <2>2. PICK e \in 0 .. best[3] - 1 : q = <<best[1] + e, best[2] + e>>
    BY <1>6
  <2>3. best[1] \in Nat /\ best[2] \in Nat /\ d \in Int /\ e \in Int
    BY <1>3, <1>5, <1>6
  <2>4. p[1] = best[1] + d /\ p[2] = best[2] + d /\ q[1] = best[1] + e /\ q[2] = best[2] + e
    BY <2>1, <2>2
  <2> QED BY <2>3, <2>4 DEF Climb
<1>9. ASSUME NEW p, Inside(p, x, y), p[1] \in Nat, p[2] \in Nat, a[p[1]] = b[p[2]]
      PROVE  F # {}
  <2> DEFINE c == <<p[1], p[2], 1>>
             i == p[1]
             j == p[2]
  <2>1. /\ i \in x[1] + 1 .. y[1] - 1 /\ j \in x[2] + 1 .. y[2] - 1 /\ 1 \in 1 .. Len(a)
        /\ i + 1 <= y[1] /\ j + 1 <= y[2]
    <3> DEFINE e == x[1]
               f == x[2]
               k == y[1]
               l == y[2]
               n == Len(a)
    <3>1. e < i /\ i < k /\ f < j /\ j < l /\ k <= n + 1
      BY <1>9 DEF Inside
    <3>2. /\ e \in Nat /\ f \in Nat /\ k \in Nat /\ l \in Nat /\ n \in Nat
          /\ i \in Nat /\ j \in Nat
      BY <1>1, <1>9
    <3> HIDE DEF i, j, e, f, k, l, n
    <3>3. /\ i \in e + 1 .. k - 1 /\ j \in f + 1 .. l - 1 /\ 1 \in 1 .. n
          /\ i + 1 <= k /\ j + 1 <= l
      BY <3>1, <3>2
    <3> QED BY <3>3 DEF e, f, k, l, n
  <2>2. \A d \in 0 .. 1 - 1 : a[i + d] = b[j + d]
    <3>1. \A d \in 0 .. 1 - 1 : d = 0
      OBVIOUS
    <3>2. i + 0 = i /\ j + 0 = j
      BY <1>9
    <3> QED BY <1>9, <3>1, <3>2
  <2>3. c \in (x[1] + 1 .. y[1] - 1) \X (x[2] + 1 .. y[2] - 1) \X (1 .. Len(a))
    BY <2>1
  <2>4. c[1] = i /\ c[2] = j /\ c[3] = 1
    OBVIOUS
  <2> HIDE DEF c, i, j
  <2>5. c \in C
    BY <2>1, <2>2, <2>3, <2>4 DEF C, Common
  <2>6. 0 \in 0 .. best[3] - 1
    BY <1>2, <1>5, <2>5
  <2> QED BY <1>4, <2>5, <2>6
<1> QED BY <1>7, <1>8, <1>9 DEF F

\* Nothing of S is strictly between a stop and the next.
LEMMA Neighbours ==
  ASSUME NEW a, NEW b, Sized(a, b), NEW S, Aligned(a, b, S), NEW x \in S \ {End(a, b)},
         NEW p, p[1] \in Nat, p[2] \in Nat, Inside(p, x, After(S, x)), NEW z \in S
  PROVE  Climb(p, z) /\ Climb(z, p) /\ z[1] # p[1]
<1> DEFINE y == After(S, x)
<1>1. y \in S /\ \A t \in S : (x[1] < t[1] => y[1] <= t[1]) /\ (x[2] < t[2] => y[2] <= t[2])
  BY AfterIs
<1>2. /\ x[1] \in Nat /\ x[2] \in Nat /\ y[1] \in Nat /\ y[2] \in Nat
      /\ z[1] \in Nat /\ z[2] \in Nat
  BY <1>1, StopsAre
<1>3. x[1] < z[1] <=> x[2] < z[2]
  BY StopsClimb
<1>4. x[1] < p[1] /\ p[1] < y[1] /\ x[2] < p[2] /\ p[2] < y[2]
  BY DEF Inside
<1>5. (x[1] < z[1] => y[1] <= z[1]) /\ (x[2] < z[2] => y[2] <= z[2])
  BY <1>1
<1> HIDE DEF y
<1> QED BY <1>2, <1>3, <1>4, <1>5 DEF Climb

\* What one round adds lies between a stop and the next.
Added(a, b, S, p) == \E x \in S \ {End(a, b)} : p \in FindLongestMatch(a, b, x, After(S, x))

LEMMA AddedIs ==
  ASSUME NEW a, NEW b, Sized(a, b), NEW S, Aligned(a, b, S), NEW x \in S \ {End(a, b)}
  PROVE  LET y == After(S, x)
             F == FindLongestMatch(a, b, x, y)
         IN  /\ \A p \in F : /\ p[1] \in Nat /\ p[2] \in Nat /\ p = <<p[1], p[2]>>
                             /\ Inside(p, x, y) /\ a[p[1]] = b[p[2]]
             /\ \A p, q \in F : Climb(p, q)
             /\ \A p : Inside(p, x, y) /\ p[1] \in Nat /\ p[2] \in Nat /\ a[p[1]] = b[p[2]] => F # {}
<1> DEFINE y == After(S, x)
<1>1. y \in S
  BY AfterIs
<1>2. /\ x[1] \in Nat /\ x[2] \in Nat /\ y[1] \in Nat /\ y[2] \in Nat
      /\ y[1] <= Len(a) + 1 /\ y[2] <= Len(b) + 1
  BY <1>1, StopsAre
<1> HIDE DEF y
<1>3. LET F == FindLongestMatch(a, b, x, y)
      IN  /\ \A p \in F : /\ p[1] \in Nat /\ p[2] \in Nat /\ p = <<p[1], p[2]>>
                          /\ Inside(p, x, y) /\ a[p[1]] = b[p[2]]
          /\ \A p, q \in F : Climb(p, q)
          /\ \A p : Inside(p, x, y) /\ p[1] \in Nat /\ p[2] \in Nat /\ a[p[1]] = b[p[2]] => F # {}
  BY <1>2, LongestIs
<1> QED BY <1>3 DEF y

LEMMA RoundIs ==
  ASSUME NEW a, NEW b, NEW S
  PROVE  /\ S \subseteq Round(a, b, S)
         /\ \A p \in Round(a, b, S) : p \in S \/ Added(a, b, S, p)
         /\ \A x \in S \ {End(a, b)} : FindLongestMatch(a, b, x, After(S, x)) \subseteq Round(a, b, S)
BY DEF Round, Added

LEMMA RoundAligned ==
  ASSUME NEW a, NEW b, Sized(a, b), NEW S, Aligned(a, b, S)
  PROVE  Aligned(a, b, Round(a, b, S))
<1> DEFINE T == Round(a, b, S)
<1>1. S \subseteq T /\ \A p \in T : p \in S \/ Added(a, b, S, p)
  BY RoundIs
<1> HIDE DEF T
<1>2. /\ Start \in S /\ End(a, b) \in S /\ Len(a) \in Nat /\ Len(b) \in Nat
      /\ \A x \in S : IsStop(a, b, x)
      /\ \A x, y \in S : Climb(x, y)
  BY DEF Aligned, Sized
<1>3. ASSUME NEW p, Added(a, b, S, p)
      PROVE  /\ IsStop(a, b, p) /\ p[1] \in Nat /\ p[2] \in Nat
             /\ \E x \in S \ {End(a, b)} : /\ Inside(p, x, After(S, x))
                                           /\ p \in FindLongestMatch(a, b, x, After(S, x))
  <2>1. PICK x \in S \ {End(a, b)} : p \in FindLongestMatch(a, b, x, After(S, x))
    BY <1>3 DEF Added
  <2> DEFINE y == After(S, x)
  <2>2. /\ p[1] \in Nat /\ p[2] \in Nat /\ p = <<p[1], p[2]>>
        /\ Inside(p, x, y) /\ a[p[1]] = b[p[2]]
    BY <2>1, AddedIs
  <2>3. y \in S
    BY AfterIs
  <2>4. /\ x[1] \in Nat /\ x[2] \in Nat /\ y[1] \in Nat /\ y[2] \in Nat
        /\ y[1] <= Len(a) + 1 /\ y[2] <= Len(b) + 1
    BY <2>3, StopsAre
  <2>5. p[1] \in 1..Len(a) /\ p[2] \in 1..Len(b)
    <3> HIDE DEF y
    <3> QED BY <1>2, <2>2, <2>4 DEF Inside
  <2>6. IsStop(a, b, p)
    BY <2>2, <2>5 DEF IsStop
  <2> QED BY <2>1, <2>2, <2>6
<1>4. ASSUME NEW p, Added(a, b, S, p), NEW z \in S PROVE Climb(p, z) /\ Climb(z, p)
  BY <1>3, <1>4, Neighbours
<1>5. ASSUME NEW p, NEW q, Added(a, b, S, p), Added(a, b, S, q) PROVE Climb(p, q)
  <2>1. PICK x \in S \ {End(a, b)} : /\ Inside(p, x, After(S, x))
                                     /\ p \in FindLongestMatch(a, b, x, After(S, x))
    BY <1>3, <1>5
  <2>2. PICK u \in S \ {End(a, b)} : /\ Inside(q, u, After(S, u))
                                     /\ q \in FindLongestMatch(a, b, u, After(S, u))
    BY <1>3, <1>5
  <2>3. p[1] \in Nat /\ p[2] \in Nat /\ q[1] \in Nat /\ q[2] \in Nat
    BY <1>3, <1>5
  <2>4. CASE x = u
    BY <2>1, <2>2, <2>4, AddedIs
  <2>5. CASE x # u
    <3> DEFINE y == After(S, x)
               v == After(S, u)
    <3>1. /\ y \in S /\ \A z \in S : (x[1] < z[1] => y[1] <= z[1]) /\ (x[2] < z[2] => y[2] <= z[2])
          /\ v \in S /\ \A z \in S : (u[1] < z[1] => v[1] <= z[1]) /\ (u[2] < z[2] => v[2] <= z[2])
      BY AfterIs
    <3>2. /\ x[1] \in Nat /\ x[2] \in Nat /\ y[1] \in Nat /\ y[2] \in Nat
          /\ u[1] \in Nat /\ u[2] \in Nat /\ v[1] \in Nat /\ v[2] \in Nat
      BY <3>1, StopsAre
    <3>3. (x[1] < u[1] <=> x[2] < u[2]) /\ (u[1] < x[1] <=> u[2] < x[2]) /\ x[1] # u[1]
      BY <2>5, StopsClimb
    <3>4. /\ x[1] < u[1] => y[1] <= u[1]
          /\ x[2] < u[2] => y[2] <= u[2]
          /\ u[1] < x[1] => v[1] <= x[1]
          /\ u[2] < x[2] => v[2] <= x[2]
      BY <3>1
    <3>5. /\ x[1] < p[1] /\ p[1] < y[1] /\ x[2] < p[2] /\ p[2] < y[2]
          /\ u[1] < q[1] /\ q[1] < v[1] /\ u[2] < q[2] /\ q[2] < v[2]
      BY <2>1, <2>2 DEF Inside
    <3> HIDE DEF y, v
    <3>6. CASE x[1] < u[1]
      BY <2>3, <3>2, <3>3, <3>4, <3>5, <3>6 DEF Climb
    <3>7. CASE u[1] < x[1]
      BY <2>3, <3>2, <3>3, <3>4, <3>5, <3>7 DEF Climb
    <3> QED BY <3>2, <3>3, <3>6, <3>7
  <2> QED BY <2>4, <2>5
<1>6. \A p \in T : IsStop(a, b, p)
  BY <1>1, <1>2, <1>3
<1>7. ASSUME NEW p \in T, NEW q \in T PROVE Climb(p, q)
  BY <1>1, <1>2, <1>4, <1>5
<1>8. Start \in T /\ End(a, b) \in T
  BY <1>1, <1>2
<1> QED BY <1>6, <1>7, <1>8 DEF Aligned, T

\* A stretch between two stops that still has a line in common has grown
\* shorter by a line in each round.
Shrunk(a, b, S, r) ==
  \A x \in S \ {End(a, b)} : \A p :
    Inside(p, x, After(S, x)) /\ p[1] \in Nat /\ p[2] \in Nat /\ a[p[1]] = b[p[2]]
      => After(S, x)[1] - x[1] <= Len(a) - r + 1

LEMMA RoundShrinks ==
  ASSUME NEW a, NEW b, Sized(a, b), NEW S, Aligned(a, b, S), NEW r \in Nat, Shrunk(a, b, S, r)
  PROVE  Shrunk(a, b, Round(a, b, S), r + 1)
<1> DEFINE T == Round(a, b, S)
<1>1. S \subseteq T /\ \A p \in T : p \in S \/ Added(a, b, S, p)
  BY RoundIs
<1>2. Aligned(a, b, T)
  BY RoundAligned
<1>3. \A x \in S \ {End(a, b)} : FindLongestMatch(a, b, x, After(S, x)) \subseteq T
  BY RoundIs
<1> HIDE DEF T
<1>4. SUFFICES ASSUME NEW x \in T \ {End(a, b)}, NEW p,
                      Inside(p, x, After(T, x)), p[1] \in Nat, p[2] \in Nat, a[p[1]] = b[p[2]]
               PROVE  After(T, x)[1] - x[1] <= Len(a) - (r + 1) + 1
  BY DEF Shrunk, T
<1> DEFINE y == After(T, x)
<1>5. /\ y \in T /\ x[1] < y[1] /\ x[2] < y[2]
      /\ \A z \in T : (x[1] < z[1] => y[1] <= z[1]) /\ (x[2] < z[2] => y[2] <= z[2])
  BY <1>2, AfterIs
<1>6. x[1] \in Nat /\ x[2] \in Nat /\ y[1] \in Nat /\ y[2] \in Nat /\ Len(a) \in Nat
  BY <1>2, <1>5, StopsAre DEF Sized
\* It lies in a stretch of the round before.
<1>7. \E u \in S \ {End(a, b)} : /\ u[1] <= x[1] /\ u[2] <= x[2]
                                 /\ x[1] < After(S, u)[1] /\ x[2] < After(S, u)[2]
  <2>1. CASE x \in S
    <3>1. x[1] < After(S, x)[1] /\ x[2] < After(S, x)[2] /\ x[1] <= x[1] /\ x[2] <= x[2]
      BY <1>6, <2>1, AfterIs
    <3> QED BY <2>1, <3>1
  <2>2. CASE Added(a, b, S, x)
    <3>1. PICK u \in S \ {End(a, b)} : x \in FindLongestMatch(a, b, u, After(S, u))
      BY <2>2 DEF Added
    <3>2. Inside(x, u, After(S, u))
      BY <3>1, AddedIs
    <3>3. u[1] \in Nat /\ u[2] \in Nat
      BY StopsAre
    <3>4. u[1] <= x[1] /\ u[2] <= x[2]
      BY <1>6, <3>2, <3>3 DEF Inside
    <3> QED BY <3>2, <3>4 DEF Inside
  <2> QED BY <1>1, <2>1, <2>2
<1>8. PICK u \in S \ {End(a, b)} : /\ u[1] <= x[1] /\ u[2] <= x[2]
                                   /\ x[1] < After(S, u)[1] /\ x[2] < After(S, u)[2]
  BY <1>7
<1> DEFINE v == After(S, u)
<1>9. v \in S /\ v \in T /\ u \in T
  BY <1>1, AfterIs
<1>10. u[1] \in Nat /\ u[2] \in Nat /\ v[1] \in Nat /\ v[2] \in Nat
  BY <1>9, StopsAre
<1>11. y[1] <= v[1] /\ y[2] <= v[2]
  BY <1>5, <1>8, <1>9
<1>12. x[1] < p[1] /\ p[1] < y[1] /\ x[2] < p[2] /\ p[2] < y[2]
  BY <1>4 DEF Inside
<1>13. Inside(p, u, v)
  <2>1. u[1] <= x[1] /\ u[2] <= x[2]
    BY <1>8
  <2> HIDE DEF y, v
  <2>2. u[1] < p[1] /\ p[1] < v[1] /\ u[2] < p[2] /\ p[2] < v[2]
    BY <1>4, <1>6, <1>10, <1>11, <1>12, <2>1
  <2> QED BY <2>2 DEF Inside
<1>14. v[1] - u[1] <= Len(a) - r + 1
  BY <1>4, <1>13 DEF Shrunk
<1>15. PICK q \in FindLongestMatch(a, b, u, v) : TRUE
  BY <1>4, <1>13, AddedIs
<1>16. q \in T /\ q[1] \in Nat /\ u[1] < q[1] /\ q[1] < v[1]
  BY <1>3, <1>15, AddedIs DEF Inside
<1>17. x[1] < q[1] => y[1] <= q[1]
  BY <1>5, <1>16
<1>18. u[1] <= x[1]
  BY <1>8
<1> HIDE DEF y, v
<1>19. y[1] - x[1] <= Len(a) - (r + 1) + 1
  <2>1. y[1] - x[1] < v[1] - u[1]
    BY <1>6, <1>10, <1>11, <1>16, <1>17, <1>18
  <2> QED BY <1>6, <1>10, <1>14, <2>1
<1> QED BY <1>19 DEF y

\* No line is left between two stops that the other file has there as well.
LEMMA StopsStand ==
  ASSUME NEW a, NEW b, Sized(a, b)
  PROVE  /\ Aligned(a, b, Stops(a, b))
         /\ \A x \in Stops(a, b) \ {End(a, b)} : \A p :
              Inside(p, x, After(Stops(a, b), x)) /\ p[1] \in Nat /\ p[2] \in Nat => a[p[1]] # b[p[2]]
<1> DEFINE F(k) == Folded(Aligning(a, b), k)
           K == {k \in Nat : Aligned(a, b, F(k)) /\ Shrunk(a, b, F(k), k)}
<1>1. Len(a) \in Nat /\ Len(b) \in Nat
  BY DEF Sized
<1>2. /\ F(0) = {Start, End(a, b)}
      /\ \A k \in Nat : F(k + 1) = Round(a, b, F(k))
  <2>1. /\ F(0) = Base(Aligning(a, b))
        /\ \A k \in Nat : F(k + 1) = Onward(Aligning(a, b), F(k), k + 1)
    BY FoldStep
  <2> HIDE DEF F
  <2>2. Base(Aligning(a, b)) = {Start, End(a, b)}
    BY DEF Base, Aligning, Start
  <2>3. \A s, k : Onward(Aligning(a, b), s, k) = Round(a, b, s)
    BY DEF Onward, Aligning
  <2> QED BY <2>1, <2>2, <2>3
<1> HIDE DEF F
<1>3. 0 \in K
  <2> DEFINE S == {Start, End(a, b)}
  <2>1. /\ Start[1] = 0 /\ Start[2] = 0 /\ Start = <<Start[1], Start[2]>>
        /\ End(a, b)[1] = Len(a) + 1 /\ End(a, b)[2] = Len(b) + 1
        /\ End(a, b) = <<End(a, b)[1], End(a, b)[2]>>
    BY DEF Start, End
  <2>2. Aligned(a, b, S)
    <3>1. IsStop(a, b, Start) /\ IsStop(a, b, End(a, b))
      BY <1>1, <2>1 DEF IsStop
    <3>2. /\ Climb(Start, Start) /\ Climb(End(a, b), End(a, b))
          /\ Climb(Start, End(a, b)) /\ Climb(End(a, b), Start)
      BY <1>1, <2>1 DEF Climb
    <3> QED BY <3>1, <3>2 DEF Aligned
  <2>3. Shrunk(a, b, S, 0)
    <3> SUFFICES ASSUME NEW x \in S \ {End(a, b)} PROVE After(S, x)[1] - x[1] <= Len(a) - 0 + 1
      BY DEF Shrunk
    <3> DEFINE y == After(S, x)
    <3>1. y \in S
      BY <2>2, AfterIs
    <3>2. /\ x[1] \in Nat /\ y[1] \in Nat /\ y[1] <= Len(a) + 1
      BY <2>2, <3>1, StopsAre
    <3> HIDE DEF y
    <3>3. y[1] - x[1] <= Len(a) - 0 + 1
      BY <1>1, <3>2
    <3> QED BY <3>3 DEF y
  <2> QED BY <1>2, <2>2, <2>3
<1>4. ASSUME NEW k \in 0..(Len(a) - 1), k \in K PROVE k + 1 \in K
  <2>1. k \in Nat /\ Aligned(a, b, F(k)) /\ Shrunk(a, b, F(k), k)
    BY <1>4
  <2>2. Aligned(a, b, Round(a, b, F(k))) /\ Shrunk(a, b, Round(a, b, F(k)), k + 1)
    BY <2>1, RoundAligned, RoundShrinks
  <2> QED BY <1>2, <2>1, <2>2
<1>5. \A k \in 0..Len(a) : k \in K
  <2> HIDE DEF K
  <2> QED BY <1>1, <1>3, <1>4, Climbs
<1> DEFINE S == Stops(a, b)
<1>6. S = F(Len(a))
  BY StopsIs DEF F
<1>7. Aligned(a, b, S) /\ Shrunk(a, b, S, Len(a))
  BY <1>1, <1>5, <1>6
<1> HIDE DEF S
<1>8. ASSUME NEW x \in S \ {End(a, b)}, NEW p,
             Inside(p, x, After(S, x)), p[1] \in Nat, p[2] \in Nat, a[p[1]] = b[p[2]]
      PROVE  FALSE
  <2> DEFINE y == After(S, x)
  <2>1. y[1] - x[1] <= Len(a) - Len(a) + 1
    BY <1>7, <1>8 DEF Shrunk
  <2>2. y \in S
    BY <1>7, AfterIs
  <2>3. x[1] \in Nat /\ y[1] \in Nat
    BY <1>7, <2>2, StopsAre
  <2>4. x[1] < p[1] /\ p[1] < y[1]
    BY <1>8 DEF Inside
  <2> HIDE DEF y
  <2> QED BY <1>1, <1>8, <2>1, <2>3, <2>4
<1> QED BY <1>7, <1>8 DEF S

----------------------------------------------------------------------------
(* The lines between two stops: changed ones.                              *)

LEMMA StopsHold ==
  ASSUME NEW a, NEW b, Sized(a, b)
  PROVE  /\ Len(a) \in Nat /\ Len(b) \in Nat /\ Aligned(a, b, Stops(a, b))
         /\ Start \in Stops(a, b) /\ End(a, b) \in Stops(a, b)
         /\ Start[1] = 0 /\ Start[2] = 0
         /\ End(a, b)[1] = Len(a) + 1 /\ End(a, b)[2] = Len(b) + 1
BY StopsStand DEF Aligned, Start, End, Sized

\* The lines of b that are not matched.
Other(a, b) == {j \in 1..Len(b) : \A x \in Stops(a, b) : x[2] # j}

\* A line of b stands between two stops, in the block that follows the first,
\* exactly when it is not matched.
Between(a, b, j, x) == /\ x \in Stops(a, b) \ {End(a, b)}
                       /\ x[2] < j /\ j < After(Stops(a, b), x)[2]

LEMMA StopOf ==
  ASSUME NEW a, NEW b, Sized(a, b), NEW j \in Other(a, b)
  PROVE  \E x : Between(a, b, j, x)
<1> DEFINE S == Stops(a, b)
           Back == {j - x[2] : x \in {x \in S : x[2] < j}}
<1>1. \A x \in S : x[1] \in Nat /\ x[2] \in Nat
  BY StopsHold, StopsAre
<1>2. Len(b) \in Nat /\ Len(a) \in Nat /\ j \in 1..Len(b)
  BY DEF Sized, Other
<1>3. Back \in SUBSET Nat
  BY <1>1, <1>2
<1>4. Back # {}
  <2>1. Start \in S /\ Start[2] = 0
    BY StopsHold
  <2>2. Start[2] < j
    BY <1>2, <2>1
  <2> QED BY <2>1, <2>2
<1>5. PICK c \in Back : \A d \in Back : c <= d
  <2> HIDE DEF Back
  <2> QED BY <1>3, <1>4, HasLeast
<1>6. PICK x \in S : x[2] < j /\ c = j - x[2]
  BY <1>5
<1>7. \A z \in S : z[2] < j => j - z[2] \in Back
  OBVIOUS
<1>8. \A z \in S : z[2] < j => z[2] <= x[2]
  <2> HIDE DEF Back, S
  <2>1. \A z \in S : z[2] < j => j - x[2] <= j - z[2]
    BY <1>5, <1>6, <1>7
  <2> QED BY <1>1, <1>2, <1>6, <2>1
<1>9. x # End(a, b)
  <2>1. x = End(a, b) => x[2] = Len(b) + 1
    BY StopsHold
  <2> QED BY <1>2, <1>6, <2>1
<1> DEFINE y == After(S, x)
<1>10. y \in S /\ x[2] < y[2]
  BY <1>6, <1>9, StopsHold, AfterIs
<1>11. y[2] # j
  BY <1>10 DEF Other
<1>12. ~ (y[2] < j)
  <2> HIDE DEF y
  <2> QED BY <1>1, <1>6, <1>8, <1>10
<1>13. j < y[2]
  <2>1. y[2] \in Nat
    BY <1>1, <1>10
  <2> HIDE DEF y
  <2> QED BY <1>2, <1>11, <1>12, <2>1
<1> QED BY <1>6, <1>9, <1>13 DEF Between

LEMMA BetweenIs ==
  ASSUME NEW a, NEW b, Sized(a, b), NEW j \in Int, NEW x, Between(a, b, j, x)
  PROVE  j \in Other(a, b)
<1> DEFINE S == Stops(a, b)
           y == After(S, x)
<1>1. Len(b) \in Nat /\ Len(a) \in Nat
  BY DEF Sized
<1>2. /\ x \in S \ {End(a, b)} /\ x[2] < j /\ j < y[2]
  BY DEF Between
<1>3. /\ y \in S /\ \A z \in S : x[2] < z[2] => y[2] <= z[2]
  BY <1>2, StopsHold, AfterIs
<1>4. x[2] \in Nat /\ y[2] \in Nat /\ y[2] <= Len(b) + 1
  BY <1>2, <1>3, StopsHold, StopsAre
<1>5. j \in 1..Len(b)
  <2> HIDE DEF y
  <2> QED BY <1>1, <1>2, <1>4
<1>6. ASSUME NEW z \in S, z[2] = j PROVE FALSE
  <2>1. y[2] <= j
    BY <1>2, <1>3, <1>6
  <2> HIDE DEF y
  <2> QED BY <1>2, <1>4, <2>1
<1> QED BY <1>5, <1>6 DEF Other

\* Equal lines that are not matched have changed places with a matched one.
LEMMA OthersCross ==
  ASSUME NEW a, NEW b, Sized(a, b), NEW j \in Other(a, b), NEW i \in 1..Len(a),
         \A x \in Stops(a, b) : x[1] # i, a[i] = b[j]
  PROVE  \E x \in Stops(a, b) \ {Start, End(a, b)} : x[1] < i <=> x[2] > j
<1> SUFFICES ASSUME \A x \in Stops(a, b) \ {Start, End(a, b)} : ~(x[1] < i <=> x[2] > j) PROVE FALSE
  OBVIOUS
<1> DEFINE S == Stops(a, b)
<1>1. PICK x : Between(a, b, j, x)
  BY StopOf
<1> DEFINE y == After(S, x)
<1>2. /\ x \in S \ {End(a, b)} /\ x[2] < j /\ j < y[2] /\ y \in S
  BY <1>1, StopsHold, AfterIs DEF Between
<1>3. /\ x[1] \in Nat /\ x[2] \in Nat /\ y[1] \in Nat /\ y[2] \in Nat
      /\ Len(a) \in Nat /\ Len(b) \in Nat /\ j \in 1..Len(b) /\ j \in Nat /\ i \in Nat /\ 0 < i /\ i < Len(a) + 1
  BY <1>2, StopsHold, StopsAre DEF Other
<1>4. x[1] < i
  <2>1. CASE x = Start
    BY <1>3, <2>1, StopsHold
  <2>2. CASE x # Start
    BY <1>2, <1>3, <2>2
  <2> QED BY <2>1, <2>2
<1>5. i < y[1]
  <2>1. CASE y = End(a, b)
    BY <1>3, <2>1, StopsHold
  <2>2. CASE y # End(a, b)
    <3>1. y # Start
      <4>1. y[2] # 0
        <5> HIDE DEF y
        <5> QED BY <1>2, <1>3
      <4> QED BY <4>1, StopsHold
    <3>2. ~(y[1] < i <=> y[2] > j) /\ y[1] # i
      BY <1>2, <2>2, <3>1
    <3> HIDE DEF y
    <3> QED BY <1>2, <1>3, <3>2
  <2> QED BY <2>1, <2>2
<1>6. Inside(<<i, j>>, x, y) /\ <<i, j>>[1] = i /\ <<i, j>>[2] = j
  <2> HIDE DEF y
  <2> QED BY <1>2, <1>4, <1>5 DEF Inside
<1>7. a[i] # b[j]
  <2> DEFINE p == <<i, j>>
  <2>1. Inside(p, x, y) /\ p[1] \in Nat /\ p[2] \in Nat /\ p[1] = i /\ p[2] = j
    BY <1>3, <1>6
  <2> HIDE DEF p, y
  <2>2. a[p[1]] # b[p[2]]
    BY <1>2, <2>1, StopsStand DEF y
  <2> QED BY <2>1, <2>2
<1> QED BY <1>7

\* The lines left around an unmatched one are those of the two stops.
LeftOf(j, S)  == Max({x[1] : x \in {y \in S : y[2] < j}})
RightOf(j, S) == Min({x[1] : x \in {y \in S : y[2] > j}})

LEMMA NeighboursAre ==
  ASSUME NEW a, NEW b, Sized(a, b), NEW j \in Other(a, b), NEW x, Between(a, b, j, x)
  PROVE  /\ LeftOf(j, Stops(a, b)) = x[1]
         /\ RightOf(j, Stops(a, b)) = After(Stops(a, b), x)[1]
<1> DEFINE S == Stops(a, b)
           y == After(S, x)
           L == {z[1] : z \in {z \in S : z[2] < j}}
           R == {z[1] : z \in {z \in S : z[2] > j}}
<1>1. Aligned(a, b, S) /\ j \in Nat
  BY StopsHold DEF Other
<1>2. /\ x \in S \ {End(a, b)} /\ x[2] < j /\ j < y[2]
  BY DEF Between
<1>3. /\ y \in S /\ x[1] < y[1] /\ \A z \in S : x[2] < z[2] => y[2] <= z[2]
  BY <1>1, <1>2, AfterIs
<1>4. \A z \in S : z[1] \in Nat /\ z[2] \in Nat
  BY <1>1, StopsAre
<1>5. /\ x[1] \in Nat /\ x[2] \in Nat /\ y[1] \in Nat /\ y[2] \in Nat
  BY <1>2, <1>3, <1>4
<1>6. x[1] \in L /\ y[1] \in R
  BY <1>1, <1>2, <1>3, <1>5
<1>7. ASSUME NEW n \in L PROVE n \in Nat /\ n <= x[1]
  <2>1. PICK z \in S : z[2] < j /\ n = z[1]
    OBVIOUS
  <2>2. ~(x[2] < z[2])
    <3>1. x[2] < z[2] => y[2] <= z[2]
      BY <1>3, <2>1
    <3>2. z[2] \in Nat
      BY <1>4, <2>1
    <3> HIDE DEF y
    <3> QED BY <1>1, <1>2, <1>5, <2>1, <3>1, <3>2
  <2>3. x[1] < z[1] <=> x[2] < z[2]
    BY <1>1, <1>2, StopsClimb
  <2> QED BY <1>4, <1>5, <2>1, <2>2, <2>3
<1>8. ASSUME NEW n \in R PROVE n \in Nat /\ y[1] <= n
  <2>1. PICK z \in S : z[2] > j /\ n = z[1]
    OBVIOUS
  <2>2. y[2] <= z[2]
    <3>1. x[2] < z[2]
      BY <1>1, <1>2, <1>4, <1>5, <2>1
    <3> QED BY <1>3, <3>1
  <2>3. z[1] < y[1] <=> z[2] < y[2]
    BY <1>1, <1>3, StopsClimb
  <2>4. z[1] \in Nat /\ z[2] \in Nat
    BY <1>4
  <2> HIDE DEF y
  <2> QED BY <1>5, <2>1, <2>2, <2>3, <2>4
<1> HIDE DEF L, R, y
<1>9. Max(L) = x[1]
  <2>1. \A m \in L : (\A n \in L : m >= n) => m = x[1]
    BY <1>5, <1>6, <1>7
  <2>2. \A n \in L : x[1] >= n
    BY <1>5, <1>7
  <2> QED BY <1>6, <2>1, <2>2 DEF Max
<1>10. Min(R) = y[1]
  <2>1. \A m \in R : (\A n \in R : m <= n) => m = y[1]
    BY <1>5, <1>6, <1>8
  <2>2. \A n \in R : y[1] <= n
    BY <1>5, <1>8
  <2> QED BY <1>6, <2>1, <2>2 DEF Min
<1> QED BY <1>9, <1>10 DEF LeftOf, RightOf, L, R, y

\* The ranges of stubs: two lines each.
StubRanges(R) == \A r \in R : r[1] \in Nat \ {0} /\ r[2] = r[1] + 1

LEMMA InGapIs ==
  ASSUME NEW a, NEW b, Sized(a, b), NEW R, StubRanges(R),
         NEW j \in Other(a, b), NEW x, Between(a, b, j, x)
  PROVE  InGap(Block(Stops(a, b), x), HalfOpen(R)) <=> InAGap(j, Stops(a, b), R)
<1> DEFINE S == Stops(a, b)
           y == After(S, x)
           op == Block(S, x)
<1>1. LeftOf(j, Stops(a, b)) = x[1] /\ RightOf(j, Stops(a, b)) = y[1]
  BY NeighboursAre
<1>2. x \in S \ {End(a, b)} /\ y \in S
  BY StopsHold, AfterIs DEF Between
<1>3. x[1] \in Nat /\ y[1] \in Nat
  BY <1>2, StopsHold, StopsAre
<1>4. op.i1 = x[1] /\ op.i2 = y[1] - 1
  BY DEF Block
<1>5. InAGap(j, Stops(a, b), R) <=>
        \E r \in R : IF y[1] = x[1] + 1 THEN x[1] \in r[1] .. r[2] \/ y[1] \in r[1] .. r[2]
                     ELSE r[1] <= x[1] + 1 /\ y[1] - 1 <= r[2]
  BY <1>1 DEF InAGap, LeftOf, RightOf
<1> HIDE DEF y, op
<1>6. InGap(op, HalfOpen(R)) <=>
        \E r \in R : IF x[1] = y[1] - 1 THEN r[1] - 1 <= x[1] /\ x[1] <= r[2]
                     ELSE r[1] - 1 <= x[1] /\ y[1] - 1 <= r[2]
  <2>1. \A r \in R : <<r[1] - 1, r[2]>>[1] = r[1] - 1 /\ <<r[1] - 1, r[2]>>[2] = r[2]
    OBVIOUS
  <2> QED BY <1>4, <2>1 DEF InGap, HalfOpen
<1>7. ASSUME NEW r \in R
      PROVE  (IF y[1] = x[1] + 1 THEN x[1] \in r[1] .. r[2] \/ y[1] \in r[1] .. r[2]
              ELSE r[1] <= x[1] + 1 /\ y[1] - 1 <= r[2])
             <=> (IF x[1] = y[1] - 1 THEN r[1] - 1 <= x[1] /\ x[1] <= r[2]
                  ELSE r[1] - 1 <= x[1] /\ y[1] - 1 <= r[2])
  <2>1. r[1] \in Nat \ {0} /\ r[2] = r[1] + 1
    BY DEF StubRanges
  <2> DEFINE p == x[1]
             q == y[1]
             c == r[1]
             d == r[2]
  <2> SUFFICES (IF q = p + 1 THEN p \in c .. d \/ q \in c .. d ELSE c <= p + 1 /\ q - 1 <= d)
               <=> (IF p = q - 1 THEN c - 1 <= p /\ p <= d ELSE c - 1 <= p /\ q - 1 <= d)
    OBVIOUS
  <2>2. p \in Nat /\ q \in Nat /\ c \in Nat /\ d = c + 1
    BY <1>3, <2>1
  <2> HIDE DEF p, q, c, d
  <2>3. CASE q = p + 1
    <3>1. p = q - 1
      BY <2>2, <2>3
    <3>2. (p \in c .. d \/ q \in c .. d) <=> (c - 1 <= p /\ p <= d)
      BY <2>2, <2>3
    <3> QED BY <2>3, <3>1, <3>2
  <2>4. CASE q # p + 1
    <3>1. p # q - 1
      BY <2>2, <2>4
    <3>2. (c <= p + 1 /\ q - 1 <= d) <=> (c - 1 <= p /\ q - 1 <= d)
      BY <2>2
    <3> QED BY <2>4, <3>1, <3>2
  <2> QED BY <2>3, <2>4
<1>8. InGap(op, HalfOpen(R)) <=> InAGap(j, Stops(a, b), R)
  BY <1>5, <1>6, <1>7
<1> QED BY <1>8 DEF op

\* The ranges a student is judged on.
LEMMA SubmittedIs ==
  ASSUME NEW a, NEW b, Sized(a, b), NEW R, NEW r \in SubmittedRanges(a, b, R)
  PROVE  /\ r[1] \in Nat /\ r[2] \in Nat /\ 1 <= r[1] /\ r[1] <= r[2] /\ r[2] <= Len(b)
         /\ r = <<r[1], r[2]>>
         /\ \E x \in Stops(a, b) \ {End(a, b)} :
              /\ InGap(Block(Stops(a, b), x), HalfOpen(R))
              /\ r[1] = x[2] + 1 /\ r[2] = After(Stops(a, b), x)[2] - 1
<1> DEFINE S == Stops(a, b)
<1>1. PICK op \in Opcodes(a, b) : ~Deletes(op) /\ InGap(op, HalfOpen(R)) /\ r = <<op.j1 + 1, op.j2>>
  BY DEF SubmittedRanges
<1>2. PICK x \in S \ {End(a, b)} : op = Block(S, x)
  BY <1>1 DEF Opcodes, End
<1> DEFINE y == After(S, x)
<1>3. op.j1 = x[2] /\ op.j2 = y[2] - 1
  BY <1>2 DEF Block
<1>4. y \in S /\ x[2] < y[2]
  BY <1>2, StopsHold, AfterIs
<1>5. x[2] \in Nat /\ y[2] \in Nat /\ y[2] <= Len(b) + 1 /\ Len(b) \in Nat
  BY <1>2, <1>4, StopsHold, StopsAre DEF Sized
<1>6. r[1] = x[2] + 1 /\ r[2] = y[2] - 1 /\ r = <<r[1], r[2]>>
  BY <1>1, <1>3
<1>7. x[2] # y[2] - 1
  BY <1>1, <1>3 DEF Deletes
<1>8. r[1] \in Nat /\ r[2] \in Nat /\ 1 <= r[1] /\ r[1] <= r[2] /\ r[2] <= Len(b)
  <2> HIDE DEF y
  <2> QED BY <1>4, <1>5, <1>6, <1>7
<1> QED BY <1>1, <1>2, <1>6, <1>8

LEMMA InSubmitted ==
  ASSUME NEW a, NEW b, Sized(a, b), NEW R, NEW j \in Int
  PROVE  (\E r \in SubmittedRanges(a, b, R) : j \in r[1] .. r[2])
           <=> \E x : Between(a, b, j, x) /\ InGap(Block(Stops(a, b), x), HalfOpen(R))
<1> DEFINE S == Stops(a, b)
<1>1. ASSUME NEW r \in SubmittedRanges(a, b, R), j \in r[1] .. r[2]
      PROVE  \E x : Between(a, b, j, x) /\ InGap(Block(S, x), HalfOpen(R))
  <2>1. PICK x \in S \ {End(a, b)} : /\ InGap(Block(S, x), HalfOpen(R))
                                        /\ r[1] = x[2] + 1 /\ r[2] = After(S, x)[2] - 1
    BY SubmittedIs
  <2> DEFINE y == After(S, x)
  <2>2. y \in S
    BY StopsHold, AfterIs
  <2>3. x[2] \in Nat /\ y[2] \in Nat
    BY <2>2, StopsHold, StopsAre
  <2>4. x[2] < j /\ j < y[2]
    <3> HIDE DEF y
    <3>1. r[1] = x[2] + 1 /\ r[2] = y[2] - 1
      BY <2>1 DEF y
    <3> QED BY <1>1, <2>3, <3>1
  <2> QED BY <2>1, <2>4 DEF Between
<1>2. ASSUME NEW x, Between(a, b, j, x), InGap(Block(S, x), HalfOpen(R))
      PROVE  \E r \in SubmittedRanges(a, b, R) : j \in r[1] .. r[2]
  <2> DEFINE y == After(S, x)
             op == Block(S, x)
             r == <<op.j1 + 1, op.j2>>
  <2>1. x \in S \ {End(a, b)} /\ x[2] < j /\ j < y[2]
    BY <1>2 DEF Between
  <2>2. y \in S
    BY <2>1, StopsHold, AfterIs
  <2>3. x[2] \in Nat /\ y[2] \in Nat
    BY <2>1, <2>2, StopsHold, StopsAre
  <2>4. op.j1 = x[2] /\ op.j2 = y[2] - 1
    BY DEF Block
  <2> HIDE DEF y
  <2>5. op.j1 < op.j2 /\ ~Deletes(op)
    <3> HIDE DEF op
    <3> QED BY <2>1, <2>3, <2>4 DEF Deletes
  <2>6. op \in Opcodes(a, b)
    BY <2>1, <2>5 DEF Opcodes, End
  <2>7. r \in SubmittedRanges(a, b, R)
    <3> HIDE DEF op
    <3>1. InGap(op, HalfOpen(R))
      BY <1>2 DEF op
    <3> QED BY <2>5, <2>6, <3>1 DEF SubmittedRanges
  <2>8. j \in r[1] .. r[2]
    <3>1. r[1] = x[2] + 1 /\ r[2] = y[2] - 1
      <4> HIDE DEF op
      <4> QED BY <2>4
    <3> HIDE DEF r
    <3> QED BY <2>1, <2>3, <3>1
  <2> QED BY <2>7, <2>8
<1> QED BY <1>1, <1>2

\* The same for the lines outside.
LEMMA InNumbers ==
  ASSUME NEW a, NEW b, Sized(a, b), NEW R, NEW j
  PROVE  j \in ScopeReport(a, b, R).numbers
           <=> j \in Int /\ \E x : Between(a, b, j, x) /\ ~InGap(Block(Stops(a, b), x), HalfOpen(R))
<1> DEFINE S == Stops(a, b)
           Outside == {op \in Opcodes(a, b) : ~InGap(op, HalfOpen(R))}
<1>1. ScopeReport(a, b, R).numbers = UNION {op.j1 + 1 .. op.j2 : op \in {o \in Outside : ~Deletes(o)}}
  BY DEF ScopeReport
<1>2. ASSUME NEW op \in Outside, ~Deletes(op), j \in op.j1 + 1 .. op.j2
      PROVE  j \in Int /\ \E x : Between(a, b, j, x) /\ ~InGap(Block(S, x), HalfOpen(R))
  <2>1. PICK x \in S \ {End(a, b)} : op = Block(S, x)
    BY DEF Opcodes, End
  <2> DEFINE y == After(S, x)
  <2>2. op.j1 = x[2] /\ op.j2 = y[2] - 1
    BY <2>1 DEF Block
  <2>3. y \in S
    BY StopsHold, AfterIs
  <2>4. x[2] \in Nat /\ y[2] \in Nat
    BY <2>3, StopsHold, StopsAre
  <2>5. j \in Int /\ x[2] < j /\ j < y[2]
    <3> HIDE DEF y
    <3> QED BY <1>2, <2>2, <2>4
  <2> QED BY <2>1, <2>5 DEF Between
<1>3. ASSUME j \in Int, NEW x, Between(a, b, j, x), ~InGap(Block(S, x), HalfOpen(R))
      PROVE  \E op \in Outside : ~Deletes(op) /\ j \in op.j1 + 1 .. op.j2
  <2> DEFINE y == After(S, x)
             op == Block(S, x)
  <2>1. x \in S \ {End(a, b)} /\ x[2] < j /\ j < y[2]
    BY <1>3 DEF Between
  <2>2. y \in S
    BY <2>1, StopsHold, AfterIs
  <2>3. x[2] \in Nat /\ y[2] \in Nat
    BY <2>1, <2>2, StopsHold, StopsAre
  <2>4. op.j1 = x[2] /\ op.j2 = y[2] - 1
    BY DEF Block
  <2> HIDE DEF y
  <2>5. op.j1 < op.j2 /\ ~Deletes(op) /\ j \in op.j1 + 1 .. op.j2
    <3> HIDE DEF op
    <3> QED BY <1>3, <2>1, <2>3, <2>4 DEF Deletes
  <2>6. op \in Opcodes(a, b)
    BY <2>1, <2>5 DEF Opcodes, End
  <2>7. op \in Outside
    BY <1>3, <2>6
  <2> QED BY <2>5, <2>7
<1> HIDE DEF Outside
<1> QED BY <1>1, <1>2, <1>3

Judges(a, b, R) == LinesOf(SubmittedRanges(a, b, R))

LEMMA JudgedIs ==
  ASSUME NEW a, NEW b, Sized(a, b), NEW R, StubRanges(R)
  PROVE  /\ Judges(a, b, R) = {j \in Other(a, b) : InAGap(j, Stops(a, b), R)}
         /\ ScopeReport(a, b, R).numbers = Other(a, b) \ Judges(a, b, R)
<1> DEFINE S == Stops(a, b)
           In(x) == InGap(Block(S, x), HalfOpen(R))
<1>1. ASSUME NEW j PROVE j \in Judges(a, b, R) <=> j \in Int /\ \E r \in SubmittedRanges(a, b, R) : j \in r[1] .. r[2]
  BY SubmittedIs DEF Judges, LinesOf
<1>2. \A j \in Int : \A x : Between(a, b, j, x) => j \in Other(a, b)
  BY BetweenIs
<1>3. \A j \in Other(a, b) : j \in Int /\ \E x : Between(a, b, j, x)
  BY StopOf DEF Other
<1>4. \A j \in Other(a, b) : \A x : Between(a, b, j, x) => (In(x) <=> InAGap(j, S, R))
  BY InGapIs
<1>5. \A j \in Int : (\E r \in SubmittedRanges(a, b, R) : j \in r[1] .. r[2])
                       <=> \E x : Between(a, b, j, x) /\ In(x)
  BY InSubmitted
<1>6. \A j : j \in ScopeReport(a, b, R).numbers
               <=> j \in Int /\ \E x : Between(a, b, j, x) /\ ~In(x)
  BY InNumbers
<1> HIDE DEF In, S
<1>7. ASSUME NEW j PROVE j \in Judges(a, b, R) <=> j \in Other(a, b) /\ InAGap(j, S, R)
  BY <1>1, <1>2, <1>3, <1>4, <1>5
<1>8. ASSUME NEW j PROVE j \in ScopeReport(a, b, R).numbers <=> j \in Other(a, b) /\ ~InAGap(j, S, R)
  BY <1>2, <1>3, <1>4, <1>6
<1> QED BY <1>7, <1>8 DEF S

\* One finding on every line, and one on none: as many count as are judged.
LEMMA CountedIs ==
  ASSUME NEW a, NEW b, Sized(a, b), NEW R
  PROVE  /\ IsFiniteSet(Judges(a, b, R))
         /\ Cardinality(Attributed([line : {NoLine} \cup 1 .. Len(b)], SubmittedRanges(a, b, R)))
              = Cardinality(Judges(a, b, R))
<1> DEFINE A == Attributed([line : {NoLine} \cup 1 .. Len(b)], SubmittedRanges(a, b, R))
           J == Judges(a, b, R)
           g == [j \in J |-> [line |-> j]]
<1>1. Len(b) \in Nat
  BY DEF Sized
<1>2. ASSUME NEW j \in J PROVE j \in 1..Len(b) /\ \E r \in SubmittedRanges(a, b, R) : r[1] <= j /\ j <= r[2]
  <2>1. PICK r \in SubmittedRanges(a, b, R) : j \in r[1] .. r[2]
    BY DEF Judges, LinesOf
  <2>2. r[1] \in Nat /\ r[2] \in Nat /\ 1 <= r[1] /\ r[1] <= r[2] /\ r[2] <= Len(b)
    BY SubmittedIs
  <2> QED BY <1>1, <2>1, <2>2
<1>3. IsFiniteSet(J)
  <2>1. J \in SUBSET (1..Len(b))
    BY <1>2
  <2>2. IsFiniteSet(1..Len(b))
    BY <1>1, FS_Interval
  <2> QED BY <2>1, <2>2, FS_Subset
<1>4. ASSUME NEW j \in J PROVE [line |-> j] \in A
  <2>1. j \in 1..Len(b) /\ j # NoLine
    BY <1>1, <1>2 DEF NoLine
  <2>2. [line |-> j] \in [line : {NoLine} \cup 1 .. Len(b)] /\ [line |-> j].line = j
    BY <2>1
  <2> HIDE DEF J
  <2> QED BY <1>2, <2>1, <2>2 DEF Attributed
<1>5. ASSUME NEW f \in A PROVE f.line \in J /\ f = [line |-> f.line]
  <2>1. /\ f \in [line : {NoLine} \cup 1 .. Len(b)] /\ f.line # NoLine
        /\ \E r \in SubmittedRanges(a, b, R) : r[1] <= f.line /\ f.line <= r[2]
    BY DEF Attributed
  <2>2. f.line \in 1 .. Len(b) /\ f = [line |-> f.line]
    BY <2>1
  <2>3. PICK r \in SubmittedRanges(a, b, R) : r[1] <= f.line /\ f.line <= r[2]
    BY <2>1
  <2>4. f.line \in r[1] .. r[2]
    BY <1>1, <2>2, <2>3, SubmittedIs
  <2> QED BY <2>2, <2>4 DEF Judges, LinesOf
<1> HIDE DEF A, J
<1>6. g \in Bijection(J, A)
  <2>1. g \in [J -> A]
    BY <1>4
  <2>2. \A i, j \in J : g[i] = g[j] => i = j
    <3>1. ASSUME NEW i \in J, NEW j \in J, g[i] = g[j] PROVE i = j
      <4>1. g[i].line = i /\ g[j].line = j
        OBVIOUS
      <4> QED BY <3>1, <4>1
    <3> QED BY <3>1
  <2>3. \A f \in A : \E j \in J : g[j] = f
    BY <1>5
  <2> HIDE DEF g
  <2> QED BY <2>1, <2>2, <2>3 DEF Bijection, Injection, Surjection, IsInjective
<1>7. Cardinality(A) = Cardinality(J)
  BY <1>3, <1>6, FS_Bijection DEF ExistsBijection
<1> QED BY <1>3, <1>7 DEF A, J

----------------------------------------------------------------------------
(* The ranges a judge is shown.                                            *)

Bounded(ranges, top) ==
  \A r \in ranges : /\ r[1] \in Nat /\ r[2] \in Nat /\ 1 <= r[1] /\ r[1] <= r[2] /\ r[2] <= top
                    /\ r = <<r[1], r[2]>>

\* Every range has a place in the order of its own.
Rank(ranges, r) == Cardinality({s \in ranges : Before(s, r)})

LEMMA RankIs ==
  ASSUME NEW W, IsFiniteSet(W), NEW top \in Nat, Bounded(W, top)
  PROVE  /\ \A r \in W : Rank(W, r) \in 0 .. Cardinality(W) - 1
         /\ \A r, s \in W : Before(r, s) => Rank(W, r) < Rank(W, s)
         /\ \A r, s \in W : r = s \/ Before(r, s) \/ Before(s, r)
<1> DEFINE Under(r) == {s \in W : Before(s, r)}
<1>1. \A r \in W : r[1] \in Nat /\ r[2] \in Nat /\ r = <<r[1], r[2]>>
  BY DEF Bounded
<1>2. \A r \in W : /\ IsFiniteSet(Under(r)) /\ Cardinality(Under(r)) \in Nat
                   /\ r \notin Under(r) /\ Under(r) \subseteq W
  <2> SUFFICES ASSUME NEW r \in W
               PROVE  /\ IsFiniteSet(Under(r)) /\ Cardinality(Under(r)) \in Nat
                      /\ r \notin Under(r) /\ Under(r) \subseteq W
    OBVIOUS
  <2>1. Under(r) \in SUBSET W
    OBVIOUS
  <2>2. r \notin Under(r)
    BY <1>1 DEF Before
  <2> HIDE DEF Under
  <2> QED BY <2>1, <2>2, FS_Subset, FS_CardinalityType
<1>3. ASSUME NEW r \in W, NEW s \in W, Before(r, s) PROVE Cardinality(Under(r)) < Cardinality(Under(s))
  <2>1. Under(r) \cup {r} \in SUBSET Under(s)
    <3> SUFFICES ASSUME NEW t \in W, Before(t, r) PROVE Before(t, s)
      BY <1>3
    <3>1. /\ r[1] \in Nat /\ r[2] \in Nat /\ s[1] \in Nat /\ s[2] \in Nat
          /\ t[1] \in Nat /\ t[2] \in Nat
      BY <1>1
    <3> QED BY <1>3, <3>1 DEF Before
  <2>2. /\ IsFiniteSet(Under(r)) /\ IsFiniteSet(Under(s)) /\ r \notin Under(r)
        /\ Cardinality(Under(r)) \in Nat /\ Cardinality(Under(s)) \in Nat
    BY <1>2
  <2> HIDE DEF Under
  <2>3. Cardinality(Under(r) \cup {r}) = Cardinality(Under(r)) + 1
    BY <2>2, FS_AddElement
  <2>4. Cardinality(Under(r) \cup {r}) <= Cardinality(Under(s))
    BY <2>1, <2>2, FS_Subset
  <2> QED BY <2>2, <2>3, <2>4
<1>4. ASSUME NEW r \in W PROVE Cardinality(Under(r)) \in 0 .. Cardinality(W) - 1
  <2>1. /\ IsFiniteSet(Under(r)) /\ Cardinality(Under(r)) \in Nat /\ r \notin Under(r)
        /\ Under(r) \cup {r} \in SUBSET W
    BY <1>2
  <2>2. Cardinality(W) \in Nat
    BY FS_CardinalityType
  <2> HIDE DEF Under
  <2>3. Cardinality(Under(r) \cup {r}) = Cardinality(Under(r)) + 1
    BY <2>1, FS_AddElement
  <2>4. Cardinality(Under(r) \cup {r}) <= Cardinality(W)
    BY <2>1, FS_Subset
  <2> QED BY <2>1, <2>2, <2>3, <2>4
<1>5. ASSUME NEW r \in W, NEW s \in W PROVE r = s \/ Before(r, s) \/ Before(s, r)
  <2>1. /\ r[1] \in Nat /\ r[2] \in Nat /\ s[1] \in Nat /\ s[2] \in Nat
        /\ (r[1] = s[1] /\ r[2] = s[2] => r = s)
    BY <1>1
  <2> QED BY <2>1 DEF Before
<1> QED BY <1>3, <1>4, <1>5 DEF Rank

LEMMA SortedIs ==
  ASSUME NEW W, IsFiniteSet(W), NEW top \in Nat, Bounded(W, top)
  PROVE  /\ Cardinality(W) \in Nat /\ DOMAIN Sorted(W) = 1..Cardinality(W)
         /\ \A k \in 1..Cardinality(W) : Sorted(W)[k] \in W
         /\ \A r \in W : \E k \in 1..Cardinality(W) : Sorted(W)[k] = r
         /\ \A k, l \in 1..Cardinality(W) : k < l => Sorted(W)[k][1] <= Sorted(W)[l][1]
<1> DEFINE K == Cardinality(W)
           g == [r \in W |-> Rank(W, r) + 1]
<1>1. K \in Nat
  BY FS_CardinalityType
<1>2. /\ \A r \in W : Rank(W, r) \in 0 .. K - 1
      /\ \A r, s \in W : Before(r, s) => Rank(W, r) < Rank(W, s)
      /\ \A r, s \in W : r = s \/ Before(r, s) \/ Before(s, r)
  BY RankIs
<1>3. g \in Injection(W, 1..K)
  <2>1. g \in [W -> 1..K]
    BY <1>1, <1>2
  <2>2. ASSUME NEW r \in W, NEW s \in W, g[r] = g[s] PROVE r = s
    <3>1. Rank(W, r) \in Nat /\ Rank(W, s) \in Nat /\ Rank(W, r) + 1 = Rank(W, s) + 1
      BY <1>2, <2>2
    <3> QED BY <1>2, <3>1
  <2>3. DOMAIN g = W
    OBVIOUS
  <2> HIDE DEF g
  <2> QED BY <2>1, <2>2, <2>3 DEF Injection, IsInjective
<1>4. IsFiniteSet(1..K) /\ Cardinality(1..K) = K
  BY <1>1, FS_Interval
<1>5. g \in Surjection(W, 1..K)
  <2> HIDE DEF g
  <2> QED BY <1>3, <1>4, FS_Injection
<1>6. ASSUME NEW k \in 1..K PROVE \E r \in W : Rank(W, r) = k - 1
  <2>1. PICK r \in W : g[r] = k
    BY <1>5 DEF Surjection
  <2>2. Rank(W, r) + 1 = k /\ Rank(W, r) \in 0 .. K - 1
    BY <1>2, <2>1
  <2> QED BY <1>1, <2>2
<1>7. ASSUME NEW k \in 1..K PROVE Sorted(W)[k] \in W /\ Rank(W, Sorted(W)[k]) = k - 1
  <2>1. Sorted(W)[k] = CHOOSE r \in W : Rank(W, r) = k - 1
    BY DEF Sorted, Rank
  <2> QED BY <1>6, <2>1
<1>8. DOMAIN Sorted(W) = 1..K
  BY DEF Sorted
<1>9. ASSUME NEW r \in W PROVE \E k \in 1..K : Sorted(W)[k] = r
  <2> DEFINE k == Rank(W, r) + 1
  <2>1. k \in 1..K /\ k - 1 = Rank(W, r)
    BY <1>1, <1>2
  <2>2. Sorted(W)[k] \in W /\ Rank(W, Sorted(W)[k]) = Rank(W, r)
    BY <1>7, <2>1
  <2>3. Rank(W, r) \in Nat
    BY <1>2
  <2> HIDE DEF k
  <2>4. Sorted(W)[k] = r
    BY <1>2, <2>2, <2>3
  <2> QED BY <2>1, <2>4
<1>10. ASSUME NEW k \in 1..K, NEW l \in 1..K, k < l PROVE Sorted(W)[k][1] <= Sorted(W)[l][1]
  <2> DEFINE r == Sorted(W)[k]
             s == Sorted(W)[l]
  <2>1. r \in W /\ s \in W /\ Rank(W, r) = k - 1 /\ Rank(W, s) = l - 1
    BY <1>7
  <2> HIDE DEF r, s
  <2>2. Before(r, s)
    BY <1>2, <1>10, <2>1
  <2>3. r[1] \in Nat /\ s[1] \in Nat
    BY <2>1 DEF Bounded
  <2> QED BY <2>2, <2>3 DEF Before, r, s
<1> QED BY <1>1, <1>7, <1>8, <1>9, <1>10

LEMMA MergeIs ==
  ASSUME NEW W, Cardinality(W) \in Nat
  PROVE  Merge(W) = Folded(Merging(Sorted(W)), Cardinality(W))
<1> DEFINE K == Cardinality(W)
           q == Sorted(W)
           fold == FoldLeft(Join, <<>>, q)
           Is(f) == f = [s \in SUBSET (1..K) |->
                           IF s = {} THEN <<>> ELSE Join(f[s \ {Max(s)}], q[Max(s)])]
<1>1. DOMAIN q = 1..K
  BY DEF Sorted
<1>2. \A s \in SUBSET (1..K) : s # {} => Max(s) \in 1..K
  BY BelowMax
<1> HIDE DEF q, K
<1>3. fold = (CHOOSE f : Is(f))[1..K]
  BY <1>1, <1>2 DEF FoldLeft, MapThenFoldSet
<1>4. \A f : Folds(Merging(q), f, K) <=> Is(f)
  BY DEF Folds, Merging, Base, Onward
<1>5. Folded(Merging(q), K) = (CHOOSE f : Is(f))[1..K]
  BY <1>4 DEF Folded
<1> QED BY <1>3, <1>5 DEF Merge, q, K

\* The ranges merged so far: apart, in order, around all that were taken.
Merged(M, s, k, top) ==
  /\ M \in Seq(Nat \X Nat)
  /\ \A i \in 1..Len(M) : 1 <= M[i][1] /\ M[i][1] <= M[i][2] /\ M[i][2] <= top
  /\ \A i \in 1..(Len(M) - 1) : M[i][2] + 1 < M[i + 1][1]
  /\ \A l \in 1..k : \E i \in 1..Len(M) : M[i][1] <= s[l][1] /\ s[l][2] <= M[i][2]
  /\ k > 0 => Len(M) > 0 /\ M[Len(M)][1] <= s[k][1]
  /\ k = 0 => Len(M) = 0

LEMMA JoinIs ==
  ASSUME NEW top \in Nat, NEW k \in Nat, NEW s, NEW M, Merged(M, s, k, top),
         s[k + 1] \in Nat \X Nat, 1 <= s[k + 1][1], s[k + 1][1] <= s[k + 1][2], s[k + 1][2] <= top,
         k > 0 => s[k] \in Nat \X Nat /\ s[k][1] <= s[k + 1][1],
         \A l \in 1..k : s[l] \in Nat \X Nat
  PROVE  Merged(Join(M, s[k + 1]), s, k + 1, top)
<1> DEFINE r == s[k + 1]
           N == Join(M, r)
           n == Len(M)
<1>1. /\ M \in Seq(Nat \X Nat) /\ n \in Nat
      /\ \A i \in 1..n : /\ M[i] \in Nat \X Nat /\ M[i][1] \in Nat /\ M[i][2] \in Nat
                         /\ 1 <= M[i][1] /\ M[i][1] <= M[i][2] /\ M[i][2] <= top
      /\ \A i \in 1..(n - 1) : M[i][2] + 1 < M[i + 1][1]
      /\ \A l \in 1..k : \E i \in 1..n : M[i][1] <= s[l][1] /\ s[l][2] <= M[i][2]
      /\ k > 0 => n > 0 /\ M[n][1] <= s[k][1]
      /\ k = 0 => n = 0
  BY DEF Merged
<1>2. /\ r \in Nat \X Nat /\ r[1] \in Nat /\ r[2] \in Nat
      /\ 1 <= r[1] /\ r[1] <= r[2] /\ r[2] <= top
  OBVIOUS
<1>3. M # <<>> <=> n > 0
  BY <1>1
<1>4. CASE n > 0 /\ r[1] <= M[n][2] + 1
  <2> DEFINE h == Max({M[n][2], r[2]})
             e == <<M[n][1], h>>
  <2>1. n \in 1..n
    BY <1>1, <1>4
  <2>2. N = [M EXCEPT ![n] = e]
    BY <1>3, <1>4 DEF Join, Last
  <2>3. h \in Nat /\ M[n][2] <= h /\ r[2] <= h /\ h <= top /\ (h = M[n][2] \/ h = r[2])
    <3>1. M[n][2] \in Nat /\ r[2] \in Nat /\ M[n][2] <= top /\ r[2] <= top
      BY <1>1, <1>2, <2>1
    <3>2. \E c \in {M[n][2], r[2]} : \A d \in {M[n][2], r[2]} : c >= d
      BY <3>1
    <3>3. h \in {M[n][2], r[2]} /\ \A d \in {M[n][2], r[2]} : h >= d
      BY <3>2 DEF Max
    <3> HIDE DEF h
    <3> QED BY <3>1, <3>3
  <2>4. e \in Nat \X Nat /\ e[1] = M[n][1] /\ e[2] = h
    BY <1>1, <2>1, <2>3
  <2> HIDE DEF h, e, N, r
  <2>5. /\ N \in Seq(Nat \X Nat) /\ Len(N) = n /\ N[n] = e
        /\ \A i \in 1..n : i # n => N[i] = M[i]
    BY <1>1, <2>1, <2>2, <2>4
  <2>6. \A i \in 1..n : 1 <= N[i][1] /\ N[i][1] <= N[i][2] /\ N[i][2] <= top
    <3> SUFFICES ASSUME NEW i \in 1..n PROVE 1 <= N[i][1] /\ N[i][1] <= N[i][2] /\ N[i][2] <= top
      OBVIOUS
    <3>1. CASE i = n
      <4>1. 1 <= M[n][1] /\ M[n][1] <= M[n][2] /\ M[n][1] \in Nat /\ M[n][2] \in Nat
        BY <1>1, <2>1
      <4> QED BY <2>3, <2>4, <2>5, <3>1, <4>1
    <3>2. CASE i # n
      BY <1>1, <2>5, <3>2
    <3> QED BY <3>1, <3>2
  <2>7. ASSUME NEW i \in 1..(n - 1) PROVE N[i][2] + 1 < N[i + 1][1]
    <3>1. i \in 1..n /\ i # n /\ i + 1 \in 1..n
      <4>1. n \in Nat
        BY <1>1
      <4> HIDE DEF n
      <4> QED BY <4>1
    <3>2. i \in 1..n /\ i # n /\ i + 1 \in 1..n /\ N[i] = M[i]
      BY <2>5, <3>1
    <3>3. N[i + 1][1] = M[i + 1][1]
      <4>1. CASE i + 1 = n
        BY <2>4, <2>5, <4>1
      <4>2. CASE i + 1 # n
        BY <2>5, <3>2, <4>2
      <4> QED BY <4>1, <4>2
    <3> QED BY <1>1, <3>2, <3>3
  <2>8. M[n][1] <= r[1] /\ r = s[k + 1]
    <3>1. k > 0
      BY <1>1, <1>4
    <3>2. M[n][1] \in Nat /\ s[k][1] \in Nat /\ M[n][1] <= s[k][1] /\ s[k][1] <= r[1]
      BY <1>1, <2>1, <3>1 DEF r
    <3> QED BY <1>2, <3>2 DEF r
  <2>9. ASSUME NEW l \in 1..(k + 1) PROVE \E i \in 1..n : N[i][1] <= s[l][1] /\ s[l][2] <= N[i][2]
    <3>1. CASE l = k + 1
      <4> QED BY <2>1, <2>3, <2>4, <2>5, <2>8, <3>1 DEF r
    <3>2. CASE l \in 1..k
      <4>1. PICK i \in 1..n : M[i][1] <= s[l][1] /\ s[l][2] <= M[i][2]
        BY <1>1, <3>2
      <4>2. CASE i = n
        <5>1. s[l][2] \in Nat /\ M[n][2] \in Nat /\ M[n][2] <= h /\ h \in Nat
          BY <1>1, <2>1, <2>3, <3>2
        <5>2. s[l][2] <= h
          BY <4>1, <4>2, <5>1
        <5> QED BY <2>1, <2>4, <2>5, <4>1, <4>2, <5>2
      <4>3. CASE i # n
        BY <2>5, <4>1, <4>3
      <4> QED BY <4>2, <4>3
    <3> QED BY <3>1, <3>2
  <2>10. Len(N) > 0 /\ N[Len(N)][1] <= s[k + 1][1]
    BY <1>4, <2>4, <2>5, <2>8
  <2> QED BY <2>5, <2>6, <2>7, <2>9, <2>10 DEF Merged, N, r
<1>5. CASE ~(n > 0 /\ r[1] <= M[n][2] + 1)
  <2>1. N = Append(M, r)
    BY <1>3, <1>5 DEF Join, Last
  <2> HIDE DEF N, r
  <2>2. /\ N \in Seq(Nat \X Nat) /\ Len(N) = n + 1 /\ N[n + 1] = r
        /\ \A i \in 1..n : N[i] = M[i]
    BY <1>1, <1>2, <2>1
  <2>3. \A i \in 1..(n + 1) : 1 <= N[i][1] /\ N[i][1] <= N[i][2] /\ N[i][2] <= top
    <3> SUFFICES ASSUME NEW i \in 1..(n + 1) PROVE 1 <= N[i][1] /\ N[i][1] <= N[i][2] /\ N[i][2] <= top
      OBVIOUS
    <3>1. CASE i = n + 1
      BY <1>2, <2>2, <3>1
    <3>2. CASE i # n + 1
      <4>1. i \in 1..n
        BY <1>1, <3>2
      <4> QED BY <1>1, <2>2, <4>1
    <3> QED BY <3>1, <3>2
  <2>4. ASSUME NEW i \in 1..n PROVE N[i][2] + 1 < N[i + 1][1]
    <3>1. CASE i = n
      <4>1. M[n][2] \in Nat /\ n > 0
        BY <1>1, <3>1
      <4> QED BY <1>2, <1>5, <2>2, <3>1, <4>1
    <3>2. CASE i # n
      <4>1. i \in 1..(n - 1) /\ i + 1 \in 1..n
        BY <1>1, <3>2
      <4> QED BY <1>1, <2>2, <4>1
    <3> QED BY <3>1, <3>2
  <2>5. ASSUME NEW l \in 1..(k + 1) PROVE \E i \in 1..(n + 1) : N[i][1] <= s[l][1] /\ s[l][2] <= N[i][2]
    <3>1. CASE l = k + 1
      <4>1. n + 1 \in 1..(n + 1) /\ N[n + 1] = s[l]
        BY <1>1, <2>2, <3>1 DEF r
      <4>2. N[n + 1][1] <= s[l][1] /\ s[l][2] <= N[n + 1][2]
        BY <1>2, <2>2, <3>1 DEF r
      <4> QED BY <4>1, <4>2
    <3>2. CASE l \in 1..k
      <4>1. PICK i \in 1..n : M[i][1] <= s[l][1] /\ s[l][2] <= M[i][2]
        BY <1>1, <3>2
      <4>2. i \in 1..(n + 1) /\ N[i] = M[i]
        BY <1>1, <2>2
      <4> QED BY <4>1, <4>2
    <3> QED BY <3>1, <3>2
  <2>6. Len(N) > 0 /\ N[Len(N)][1] <= s[k + 1][1]
    <3>1. s[k + 1] = r /\ N[Len(N)] = r /\ Len(N) > 0
      BY <1>1, <2>2 DEF r
    <3>2. r[1] <= r[1]
      BY <1>2
    <3> QED BY <3>1, <3>2
  <2>7. \A i \in 1..(Len(N) - 1) : N[i][2] + 1 < N[i + 1][1]
    BY <1>1, <2>2, <2>4
  <2> QED BY <2>2, <2>3, <2>5, <2>6, <2>7 DEF Merged, N, r
<1> QED BY <1>4, <1>5

LEMMA MergedIs ==
  ASSUME NEW W, IsFiniteSet(W), NEW top \in Nat, Bounded(W, top)
  PROVE  /\ Merge(W) \in Seq(Nat \X Nat)
         /\ \A i \in 1..Len(Merge(W)) : /\ 1 <= Merge(W)[i][1] /\ Merge(W)[i][1] <= Merge(W)[i][2]
                                        /\ Merge(W)[i][2] <= top
         /\ \A i \in 1..(Len(Merge(W)) - 1) : Merge(W)[i][2] + 1 < Merge(W)[i + 1][1]
         /\ \A r \in W : \E i \in 1..Len(Merge(W)) : Merge(W)[i][1] <= r[1] /\ r[2] <= Merge(W)[i][2]
<1> DEFINE K == Cardinality(W)
           q == Sorted(W)
           F(k) == Folded(Merging(q), k)
           S == {k \in Nat : Merged(F(k), q, k, top)}
<1>1. /\ K \in Nat
      /\ \A k \in 1..K : q[k] \in W
      /\ \A r \in W : \E k \in 1..K : q[k] = r
      /\ \A k, l \in 1..K : k < l => q[k][1] <= q[l][1]
  BY SortedIs
<1> HIDE DEF K
<1>2. \A k \in 1..K : /\ q[k] \in Nat \X Nat /\ 1 <= q[k][1] /\ q[k][1] <= q[k][2] /\ q[k][2] <= top
  <2>1. \A r \in W : /\ r[1] \in Nat /\ r[2] \in Nat /\ 1 <= r[1] /\ r[1] <= r[2] /\ r[2] <= top
                     /\ r = <<r[1], r[2]>>
    BY DEF Bounded
  <2>2. \A r \in W : r \in Nat \X Nat
    BY <2>1
  <2> HIDE DEF q
  <2> QED BY <1>1, <2>1, <2>2
<1>3. /\ F(0) = <<>>
      /\ \A k \in Nat : F(k + 1) = Join(F(k), q[k + 1])
  <2>1. /\ F(0) = Base(Merging(q))
        /\ \A k \in Nat : F(k + 1) = Onward(Merging(q), F(k), k + 1)
    BY FoldStep
  <2> HIDE DEF q, F
  <2> QED BY <2>1 DEF Base, Onward, Merging
<1> HIDE DEF q, F
<1>4. 0 \in S
  <2>1. <<>> \in Seq(Nat \X Nat) /\ Len(<<>>) = 0
    OBVIOUS
  <2>2. Merged(<<>>, q, 0, top)
    BY <2>1 DEF Merged
  <2> QED BY <1>3, <2>2
<1>5. ASSUME NEW k \in 0..(K - 1), k \in S PROVE k + 1 \in S
  <2>1. k \in Nat /\ Merged(F(k), q, k, top) /\ k + 1 \in 1..K
    BY <1>1, <1>5
  <2>2. k > 0 => q[k] \in Nat \X Nat /\ q[k][1] <= q[k + 1][1]
    <3> SUFFICES ASSUME k > 0 PROVE q[k] \in Nat \X Nat /\ q[k][1] <= q[k + 1][1]
      OBVIOUS
    <3>1. k \in 1..K /\ k < k + 1
      BY <1>1
    <3> QED BY <1>1, <1>2, <2>1, <3>1
  <2>3. \A l \in 1..k : q[l] \in Nat \X Nat
    <3> SUFFICES ASSUME NEW l \in 1..k PROVE q[l] \in Nat \X Nat
      OBVIOUS
    <3>1. l \in 1..K
      BY <1>1
    <3> QED BY <1>2, <3>1
  <2>4. Merged(Join(F(k), q[k + 1]), q, k + 1, top)
    BY <1>2, <2>1, <2>2, <2>3, JoinIs
  <2> QED BY <1>3, <2>1, <2>4
<1>6. \A k \in 0..K : k \in S
  <2> HIDE DEF S
  <2> QED BY <1>1, <1>4, <1>5, Climbs
<1>7. Merged(F(K), q, K, top)
  BY <1>1, <1>6
<1>8. Merge(W) = F(K)
  BY <1>1, MergeIs DEF K, q, F
<1>9. \A r \in W : \E i \in 1..Len(F(K)) : F(K)[i][1] <= r[1] /\ r[2] <= F(K)[i][2]
  BY <1>1, <1>7 DEF Merged
<1> QED BY <1>7, <1>8, <1>9 DEF Merged

\* A range with its context, within the file.
Around(r, top) == <<Max({1, r[1] - Context}), Min({top, r[2] + Context})>>

LEMMA AroundIs ==
  ASSUME NEW r, r[1] \in Nat, r[2] \in Nat, 1 <= r[1], r[1] <= r[2], NEW top \in Nat, r[2] <= top
  PROVE  /\ Around(r, top)[1] \in Nat /\ Around(r, top)[2] \in Nat /\ Around(r, top) = <<Around(r, top)[1], Around(r, top)[2]>>
         /\ 1 <= Around(r, top)[1] /\ Around(r, top)[1] <= r[1] /\ r[2] <= Around(r, top)[2] /\ Around(r, top)[2] <= top
<1> DEFINE l == Max({1, r[1] - Context})
           h == Min({top, r[2] + Context})
           p == r[1]
           q == r[2]
<1>1. Context \in Nat
  BY BoundsAssumption
<1>2. p \in Nat /\ q \in Nat /\ 1 <= p /\ p <= q /\ q <= top
  OBVIOUS
<1>3. l = Max({1, p - Context}) /\ h = Min({top, q + Context}) /\ Around(r, top) = <<l, h>>
  BY DEF Around
<1> HIDE DEF l, h, p, q
<1>4. l \in {1, p - Context} /\ \A d \in {1, p - Context} : l >= d
  <2>1. \E c \in {1, p - Context} : \A d \in {1, p - Context} : c >= d
    BY <1>1, <1>2
  <2> QED BY <1>3, <2>1 DEF Max
<1>5. h \in {top, q + Context} /\ \A d \in {top, q + Context} : h <= d
  <2>1. \E c \in {top, q + Context} : \A d \in {top, q + Context} : c <= d
    BY <1>1, <1>2
  <2> QED BY <1>3, <2>1 DEF Min
<1>6. l \in Nat /\ 1 <= l /\ l <= p
  BY <1>1, <1>2, <1>4
<1>7. h \in Nat /\ q <= h /\ h <= top
  BY <1>1, <1>2, <1>5
<1> QED BY <1>3, <1>6, <1>7 DEF p, q

LEMMA ShownIs ==
  ASSUME NEW m, NEW hide, NEW b, Sized(Release(m, hide), b)
  PROVE  LET shown == Shown(m, hide, b)
         IN  /\ Judges(Release(m, hide), b, ReleaseRanges(m, hide))
                  \subseteq UNION {shown[k][1] .. shown[k][2] : k \in 1 .. Len(shown)}
             /\ \A k \in 1 .. Len(shown) + 1 :
                  Omitted(shown, Len(b))[k] >= (IF k \in 2 .. Len(shown) THEN 1 ELSE 0)
<1> DEFINE SR == SubmittedRanges(Release(m, hide), b, ReleaseRanges(m, hide))
           top == Len(b)
           W == {Around(r, top) : r \in SR}
           shown == Shown(m, hide, b)
           n == Len(shown)
<1>1. Len(b) \in Nat
  BY DEF Sized
<1>2. shown = Merge(W)
  BY DEF Shown, Around
<1>3. \A r \in SR : /\ r[1] \in Nat /\ r[2] \in Nat /\ 1 <= r[1] /\ r[1] <= r[2] /\ r[2] <= top
  BY SubmittedIs
<1> HIDE DEF SR
<1>4. Bounded(W, top)
  <2>1. ASSUME NEW r \in SR
        PROVE  LET w == Around(r, top)
               IN  /\ w[1] \in Nat /\ w[2] \in Nat /\ 1 <= w[1] /\ w[1] <= w[2] /\ w[2] <= top
                   /\ w = <<w[1], w[2]>>
    <3>1. r[1] \in Nat /\ r[2] \in Nat /\ 1 <= r[1] /\ r[1] <= r[2] /\ r[2] <= top
      BY <1>3
    <3>2. /\ Around(r, top)[1] \in Nat /\ Around(r, top)[2] \in Nat /\ Around(r, top) = <<Around(r, top)[1], Around(r, top)[2]>>
          /\ 1 <= Around(r, top)[1] /\ Around(r, top)[1] <= r[1] /\ r[2] <= Around(r, top)[2] /\ Around(r, top)[2] <= top
      BY <1>1, <3>1, AroundIs
    <3> QED BY <1>1, <3>1, <3>2
  <2> QED BY <2>1 DEF Bounded
<1>5. IsFiniteSet(W)
  <2>1. W \in SUBSET ((1..top) \X (1..top))
    <3> SUFFICES ASSUME NEW w \in W PROVE w \in (1..top) \X (1..top)
      OBVIOUS
    <3>1. w[1] \in Nat /\ w[2] \in Nat /\ 1 <= w[1] /\ w[1] <= w[2] /\ w[2] <= top /\ w = <<w[1], w[2]>>
      BY <1>4 DEF Bounded
    <3>2. w[1] \in 1..top /\ w[2] \in 1..top
      BY <1>1, <3>1
    <3> QED BY <3>1, <3>2
  <2>2. IsFiniteSet(1..top)
    BY <1>1, FS_Interval
  <2>3. IsFiniteSet((1..top) \X (1..top))
    BY <2>2, FS_Product
  <2> HIDE DEF W
  <2> QED BY <2>1, <2>3, FS_Subset
<1> HIDE DEF W, shown
<1>6. /\ shown \in Seq(Nat \X Nat)
      /\ \A i \in 1..n : 1 <= shown[i][1] /\ shown[i][1] <= shown[i][2] /\ shown[i][2] <= top
      /\ \A i \in 1..(n - 1) : shown[i][2] + 1 < shown[i + 1][1]
      /\ \A w \in W : \E i \in 1..n : shown[i][1] <= w[1] /\ w[2] <= shown[i][2]
  BY <1>1, <1>2, <1>4, <1>5, MergedIs
<1>7. n \in Nat /\ \A i \in 1..n : shown[i][1] \in Nat /\ shown[i][2] \in Nat
  BY <1>6
<1>8. ASSUME NEW j \in Judges(Release(m, hide), b, ReleaseRanges(m, hide))
      PROVE  j \in UNION {shown[k][1] .. shown[k][2] : k \in 1 .. n}
  <2>1. PICK r \in SR : j \in r[1] .. r[2]
    BY DEF Judges, LinesOf, SR
  <2>2. /\ r[1] \in Nat /\ r[2] \in Nat /\ 1 <= r[1] /\ r[1] <= r[2] /\ r[2] <= top
    BY <1>3
  <2> DEFINE w == Around(r, top)
  <2>3. w[1] \in Nat /\ w[2] \in Nat /\ w[1] <= r[1] /\ r[2] <= w[2]
    BY <1>1, <2>2, AroundIs
  <2>4. w \in W
    BY DEF W
  <2> HIDE DEF w
  <2>5. PICK i \in 1..n : shown[i][1] <= w[1] /\ w[2] <= shown[i][2]
    BY <1>6, <2>4
  <2>6. shown[i][1] \in Nat /\ shown[i][2] \in Nat
    BY <1>7
  <2>7. j \in shown[i][1] .. shown[i][2]
    BY <2>1, <2>2, <2>3, <2>5, <2>6
  <2> QED BY <2>7
<1>9. ASSUME NEW k \in 1 .. n + 1
      PROVE  Omitted(shown, top)[k] >= (IF k \in 2 .. n THEN 1 ELSE 0)
  <2>1. Omitted(shown, top)[k] = (IF k > n THEN top + 1 ELSE shown[k][1])
                                   - (IF k = 1 THEN 1 ELSE shown[k - 1][2] + 1)
    BY DEF Omitted
  <2>2. CASE k \in 2 .. n
    <3>1. k - 1 \in 1 .. (n - 1) /\ (k - 1) + 1 = k /\ k \in 1..n /\ k - 1 \in 1..n /\ ~(k > n) /\ k # 1
      BY <1>7, <2>2
    <3>2. shown[k - 1][2] + 1 < shown[k][1]
      BY <1>6, <3>1
    <3>3. shown[k][1] \in Nat /\ shown[k - 1][2] \in Nat
      BY <1>7, <3>1
    <3> QED BY <2>1, <2>2, <3>1, <3>2, <3>3
  <2>3. CASE k = 1 /\ n > 0
    <3>1. 1 \in 1..n /\ k \notin 2..n /\ ~(k > n)
      BY <1>7, <2>3
    <3>2. shown[1][1] \in Nat /\ 1 <= shown[1][1]
      BY <1>6, <1>7, <3>1
    <3> QED BY <2>1, <2>3, <3>1, <3>2
  <2>4. CASE k = 1 /\ n = 0
    BY <1>1, <2>1, <2>4
  <2>5. CASE k = n + 1 /\ n > 0
    <3>1. n \in 1..n /\ k - 1 = n /\ k \notin 2..n /\ k > n /\ k # 1
      BY <1>7, <2>5
    <3>2. shown[n][2] \in Nat /\ shown[n][2] <= top
      BY <1>6, <1>7, <3>1
    <3> QED BY <1>1, <2>1, <3>1, <3>2
  <2>6. k \in 2..n \/ k = 1 \/ k = n + 1
    BY <1>7
  <2>7. n = 0 \/ n > 0
    BY <1>7
  <2> QED BY <2>2, <2>3, <2>4, <2>5, <2>6, <2>7
<1> QED BY <1>8, <1>9 DEF shown

----------------------------------------------------------------------------
(* From the release to the student's last edit.                            *)

\* The file as it is released.
LEMMA ReleasedIs ==
  ASSUME NEW m, Lines(m), WellFormed(m), NEW hide
  PROVE  /\ Len(Release(m, hide)) \in Nat
         /\ StubRanges(ReleaseRanges(m, hide))
         /\ hide = {} => ReleaseRanges(m, hide) = {}
<1> DEFINE o == Release(m, hide)
<1>1. Len(m) \in Nat /\ Len(m) \in 0..Len(m)
  BY DEF Lines
<1>2. o = Out(m, hide, Len(m))
  BY DEF Release, Out
<1>3. o \in Seq(Pieces(m))
  BY <1>1, <1>2, OutGrows
<1>4. StubRanges(ReleaseRanges(m, hide))
  <2>1. ReleaseRanges(m, hide) = {<<Position(m, hide, n) + 1, Position(m, hide, n) + 2>> : n \in Stubs(m, hide)}
    BY ReleaseOf
  <2>2. \A n \in Stubs(m, hide) : Position(m, hide, n) \in Nat
    <3> SUFFICES ASSUME NEW n \in Stubs(m, hide) PROVE Position(m, hide, n) \in Nat
      OBVIOUS
    <3>1. Position(m, hide, n) = LengthBy(m, hide, BodyStart(m, n) - 1)
      BY PositionIs
    <3>2. BodyStart(m, n) \in 1..Len(m)
      BY BlockFacts DEF Stubs
    <3>3. BodyStart(m, n) - 1 \in Nat /\ BodyStart(m, n) - 1 < Len(m)
      BY <1>1, <3>2
    <3>4. LengthBy(m, hide, BodyStart(m, n) - 1) \in Nat
      BY <3>3, LengthNext
    <3> QED BY <3>1, <3>4
  <2>3. ASSUME NEW r \in ReleaseRanges(m, hide) PROVE r[1] \in Nat \ {0} /\ r[2] = r[1] + 1
    <3>1. PICK n \in Stubs(m, hide) : r = <<Position(m, hide, n) + 1, Position(m, hide, n) + 2>>
      BY <2>1
    <3>2. Position(m, hide, n) \in Nat
      BY <2>2
    <3> QED BY <3>1, <3>2
  <2> QED BY <2>3 DEF StubRanges
<1>5. hide = {} => ReleaseRanges(m, hide) = {}
  BY DEF ReleaseRanges
<1> HIDE DEF o
<1>6. Len(o) \in Nat
  BY <1>3
<1> QED BY <1>4, <1>5, <1>6 DEF o

Ids(m) == {m[n].id : n \in Headers(m)}

LEMMA AcceptedIs ==
  ASSUME NEW m, Lines(m), Structure(m).error = "none"
  PROVE  WellFormed(m) /\ {g.id : g \in GapsOf(m)} = Ids(m)
<1>1. WellFormed(m) /\ GapsOf(m) = {GapAt(m, n) : n \in Headers(m)}
  BY StructureOf DEF GapsOf
<1>2. \A n \in Headers(m) : GapAt(m, n).id = m[n].id
  BY DEF GapAt
<1> QED BY <1>1, <1>2 DEF Ids

\* What the student's file is, from the release to the last edit.
IsSeq(s) == \E S : s \in Seq(S)
FileStands ==
  /\ MasterKept
  /\ file # NULL => Hides(master, hidden) /\ IsSeq(file)

LEMMA TextsAre ==
  ASSUME IsSeq(file)
  PROVE  Len(file) \in Nat /\ Len(Texts) = Len(file)
<1>1. Len(file) \in Nat
  BY DEF IsSeq
<1> QED BY <1>1 DEF Texts

LEMMA JudgedRight ==
  ASSUME FileStands
  PROVE  JudgedAreTheirs
<1> SUFFICES ASSUME file # NULL PROVE JudgedAreTheirs
  BY DEF JudgedAreTheirs
<1> DEFINE a == Released
           b == Texts
           R == Ranges
           S == Stops(a, b)
           J == LinesOf(SubmittedRanges(a, b, R))
           matched == S \ {<<0, 0>>, End(a, b)}
           other == (1 .. Len(b)) \ {x[2] : x \in matched}
           findings == [line : {NoLine} \cup 1 .. Len(b)]
           shown == Shown(master, hidden, b)
<1>1. /\ Lines(master) /\ WellFormed(master) /\ Hides(master, hidden)
      /\ a = Release(master, hidden) /\ R = ReleaseRanges(master, hidden)
  <2>1. Lines(master) /\ Hides(master, hidden)
    BY MasterHasLines DEF FileStands
  <2> QED BY <2>1, AcceptedIs DEF Hides, Released, Ranges
<1>2. StubRanges(R) /\ (hidden = {} => R = {}) /\ Sized(a, b)
  <2>1. Len(a) \in Nat /\ StubRanges(R) /\ (hidden = {} => R = {})
    BY <1>1, ReleasedIs
  <2>2. Len(b) \in Nat
    BY TextsAre DEF FileStands
  <2> QED BY <2>1, <2>2 DEF Sized
<1> HIDE DEF a, b, R
<1>3. /\ Aligned(a, b, S) /\ Start \in S /\ Start[2] = 0 /\ Start[1] = 0
      /\ End(a, b)[1] = Len(a) + 1 /\ End(a, b)[2] = Len(b) + 1
      /\ Len(a) \in Nat /\ Len(b) \in Nat /\ matched = S \ {Start, End(a, b)}
  BY <1>2, StopsHold DEF Start
<1>4. other = Other(a, b)
  BY <1>3 DEF Other
<1>5. J = {j \in other : InAGap(j, S, R)} /\ ScopeReport(a, b, R).numbers = other \ J
  BY <1>2, <1>4, JudgedIs DEF Judges
<1>6. \A x \in matched : a[x[1]] = b[x[2]]
  BY <1>2, <1>3, StopsAre
<1>7. \A x, y \in S : x[1] < y[1] <=> x[2] < y[2]
  BY <1>2, <1>3, StopsClimb
<1>8. ASSUME NEW i \in (1 .. Len(a)) \ {x[1] : x \in matched}, NEW j \in other, a[i] = b[j]
      PROVE  \E x \in matched : x[1] < i <=> x[2] > j
  <2>1. i \in 1 .. Len(a) /\ \A x \in S : x[1] # i
    BY <1>3
  <2>2. j \in Other(a, b)
    BY <1>4
  <2> HIDE DEF S, matched, other
  <2>3. \E x \in Stops(a, b) \ {Start, End(a, b)} : x[1] < i <=> x[2] > j
    BY <1>2, <1>8, <2>1, <2>2, OthersCross DEF S
  <2> QED BY <1>3, <2>3 DEF S
<1>9. LintMeasure(a, b, R, findings).violations = Cardinality(J)
  <2>1. LintMeasure(a, b, R, findings).violations
          = Cardinality(Attributed(findings, SubmittedRanges(a, b, R)))
    BY DEF LintMeasure
  <2> QED BY <1>2, <2>1, CountedIs DEF Judges
<1>10. Unavailable(master, hidden, b) = (J = {})
  <2>1. SubmittedRanges(a, b, R) = {} <=> J = {}
    <3>1. \A r \in SubmittedRanges(a, b, R) : r[1] \in r[1] .. r[2]
      <4> SUFFICES ASSUME NEW r \in SubmittedRanges(a, b, R) PROVE r[1] \in r[1] .. r[2]
        OBVIOUS
      <4>1. r[1] \in Nat /\ r[2] \in Nat /\ r[1] <= r[2]
        BY <1>2, SubmittedIs
      <4> QED BY <4>1
    <3> QED BY <3>1 DEF LinesOf
  <2>2. hidden = {} => SubmittedRanges(a, b, R) = {}
    <3> SUFFICES ASSUME hidden = {}, NEW r \in SubmittedRanges(a, b, R) PROVE FALSE
      OBVIOUS
    <3>1. \E x : InGap(Block(Stops(a, b), x), HalfOpen(R))
      BY <1>2, SubmittedIs
    <3>2. HalfOpen(R) = {}
      BY <1>2 DEF HalfOpen
    <3> QED BY <3>1, <3>2 DEF InGap
  <2> HIDE DEF J
  <2>3. Unavailable(master, hidden, b) <=> hidden = {} \/ SubmittedRanges(a, b, R) = {}
    BY <1>1 DEF Unavailable
  <2>4. Unavailable(master, hidden, b) <=> J = {}
    BY <2>1, <2>2, <2>3
  <2>5. Unavailable(master, hidden, b) \in BOOLEAN
    BY DEF Unavailable
  <2> QED BY <2>4, <2>5
<1>11. /\ J \subseteq UNION {shown[k][1] .. shown[k][2] : k \in 1 .. Len(shown)}
       /\ \A k \in 1 .. Len(shown) + 1 :
            Omitted(shown, Len(b))[k] >= (IF k \in 2 .. Len(shown) THEN 1 ELSE 0)
  BY <1>1, <1>2, ShownIs DEF Judges
<1> HIDE DEF S, J, matched, other, findings, shown
<1>12. /\ \A x \in matched : a[x[1]] = b[x[2]]
       /\ \A x, y \in S : x[1] < y[1] <=> x[2] < y[2]
       /\ \A i \in (1 .. Len(a)) \ {x[1] : x \in matched}, j \in other :
            a[i] = b[j] => \E x \in matched : x[1] < i <=> x[2] > j
       /\ J = {j \in other : InAGap(j, S, R)}
       /\ ScopeReport(a, b, R).numbers = other \ J
       /\ LintMeasure(a, b, R, findings).violations = Cardinality(J)
       /\ Unavailable(master, hidden, b) = (J = {})
       /\ J \subseteq UNION {shown[k][1] .. shown[k][2] : k \in 1 .. Len(shown)}
       /\ \A k \in 1 .. Len(shown) + 1 :
            Omitted(shown, Len(b))[k] >= (IF k \in 2 .. Len(shown) THEN 1 ELSE 0)
  BY <1>5, <1>6, <1>7, <1>8, <1>9, <1>10, <1>11
<1> QED BY <1>12 DEF JudgedAreTheirs, a, b, R, S, J, matched, other, findings, shown

LEMMA DeliverStands ==
  ASSUME FileStands, Deliver
  PROVE  FileStands'
<1> DEFINE o == Release(master, hidden')
<1>1. /\ master' = master /\ CanRender(master, hidden')
      /\ file' = [n \in 1 .. Len(o) |-> [text |-> o[n], from |-> n]]
  BY DEF Deliver
<1>2. Lines(master) /\ MasterKept
  BY MasterHasLines DEF FileStands
<1>3. Hides(master, hidden')
  BY <1>1 DEF CanRender
<1>4. WellFormed(master)
  BY <1>2, <1>3, AcceptedIs DEF Hides
<1>5. Len(o) \in Nat
  BY <1>2, <1>4, ReleasedIs
<1> HIDE DEF o
<1>6. IsSeq(file')
  <2> DEFINE S == {[text |-> o[n], from |-> n] : n \in 1 .. Len(o)}
  <2>1. file' \in Seq(S)
    BY <1>1, <1>5
  <2> QED BY <2>1 DEF IsSeq
<1>7. Hides(master, hidden)' /\ IsSeq(file)'
  BY <1>1, <1>3, <1>6 DEF Hides, IsSeq
<1> QED BY <1>1, <1>2, <1>7 DEF FileStands, MasterKept

LEMMA Sequences ==
  ASSUME NEW s, IsSeq(s), NEW e, NEW n \in Nat
  PROVE  /\ n \in 1 .. Len(s) + 1 => IsSeq(InsertAt(s, n, e))
         /\ n \in 1 .. Len(s) => IsSeq(ReplaceAt(s, n, e)) /\ IsSeq(RemoveAt(s, n))
<1>1. PICK S : s \in Seq(S)
  BY DEF IsSeq
<1> DEFINE T == S \cup {e}
<1>2. s \in Seq(T) /\ e \in T /\ Len(s) \in Nat
  BY <1>1
<1> HIDE DEF T
<1>3. n \in 1 .. Len(s) + 1 => InsertAt(s, n, e) \in Seq(T)
  <2> SUFFICES ASSUME n \in 1 .. Len(s) + 1 PROVE InsertAt(s, n, e) \in Seq(T)
    OBVIOUS
  <2>1. SubSeq(s, 1, n - 1) \in Seq(T) /\ SubSeq(s, n, Len(s)) \in Seq(T) /\ <<e>> \in Seq(T)
    BY <1>2
  <2> QED BY <2>1 DEF InsertAt
<1>4. n \in 1 .. Len(s) => ReplaceAt(s, n, e) \in Seq(T)
  BY <1>2 DEF ReplaceAt
<1>5. n \in 1 .. Len(s) => RemoveAt(s, n) \in Seq(T)
  <2> SUFFICES ASSUME n \in 1 .. Len(s) PROVE RemoveAt(s, n) \in Seq(T)
    OBVIOUS
  <2>1. SubSeq(s, 1, n - 1) \in Seq(T) /\ SubSeq(s, n + 1, Len(s)) \in Seq(T)
    BY <1>2
  <2> QED BY <2>1 DEF RemoveAt
<1> QED BY <1>3, <1>4, <1>5 DEF IsSeq

\* A step of the student leaves a file in the place of the file.
LEMMA EditStands ==
  ASSUME FileStands, file # NULL, Insert \/ Change \/ Delete \/ Fill
  PROVE  FileStands'
<1>1. MasterKept /\ Hides(master, hidden) /\ IsSeq(file) /\ Len(file) \in Nat
  BY TextsAre DEF FileStands
<1>2. ASSUME NEW lines, Edit(lines), IsSeq(lines) PROVE FileStands'
  <2>1. master' = master /\ hidden' = hidden /\ file' = lines
    BY <1>2 DEF Edit
  <2>2. Hides(master, hidden)' /\ IsSeq(file)' /\ MasterKept'
    BY <1>1, <1>2, <2>1 DEF Hides, IsSeq, MasterKept
  <2> QED BY <2>2 DEF FileStands
<1>3. CASE Insert
  <2>1. PICK n \in 1 .. Len(file) + 1, t \in Writes : Edit(InsertAt(file, n, Line(t)))
    BY <1>3 DEF Insert
  <2>2. n \in Nat
    BY <1>1
  <2>3. IsSeq(InsertAt(file, n, Line(t)))
    BY <1>1, <2>1, <2>2, Sequences
  <2> QED BY <1>2, <2>1, <2>3
<1>4. CASE Change
  <2>1. PICK n \in 1 .. Len(file), t \in Writes : Edit(ReplaceAt(file, n, Line(t)))
    BY <1>4 DEF Change
  <2>2. n \in Nat
    BY <1>1
  <2>3. IsSeq(ReplaceAt(file, n, Line(t)))
    BY <1>1, <2>1, <2>2, Sequences
  <2> QED BY <1>2, <2>1, <2>3
<1>5. CASE Delete
  <2>1. PICK n \in 1 .. Len(file) : Edit(RemoveAt(file, n))
    BY <1>5 DEF Delete
  <2>2. n \in Nat
    BY <1>1
  <2>3. IsSeq(RemoveAt(file, n))
    BY <1>1, <2>1, <2>2, Sequences
  <2> QED BY <1>2, <2>1, <2>3
<1>6. CASE Fill
  <2>1. PICK n \in 1 .. Len(file) - 1, s \in Solutions :
          Edit(SubSeq(file, 1, n - 1) \o [k \in 1 .. Len(s) |-> Line(s[k])]
                 \o SubSeq(file, n + 2, Len(file)))
    BY <1>6 DEF Fill
  <2>2. PICK S : file \in Seq(S)
    BY <1>1 DEF IsSeq
  <2> DEFINE u == SubSeq(file, 1, n - 1)
             v == SubSeq(file, n + 2, Len(file))
             w == [k \in 1 .. Len(s) |-> Line(s[k])]
             T == S \cup {Line(s[k]) : k \in 1 .. Len(s)}
  <2>3. Len(s) \in Nat
    BY SolutionsAssumption
  <2>4. file \in Seq(T) /\ w \in Seq(T)
    BY <2>2, <2>3
  <2> HIDE DEF T, w
  <2>5. u \in Seq(T) /\ v \in Seq(T)
    BY <1>1, <2>4
  <2>6. u \o w \o v \in Seq(T)
    BY <2>4, <2>5
  <2>7. IsSeq(u \o w \o v)
    BY <2>6 DEF IsSeq
  <2> QED BY <1>2, <2>1, <2>7 DEF w
<1> QED BY <1>3, <1>4, <1>5, <1>6

\* For every master, variant and sequence of edits, whatever lines are alike:
\* the diff's matched lines are released lines in their order, the ones that
\* are judged are exactly the others that stand in a gap between them, all are
\* counted once, and the excerpt a judge is shown holds them and counts what
\* it omits.
THEOREM JudgedAsWritten == Spec => []JudgedAreTheirs
<1>1. Init => FileStands
  BY DEF Init, FileInit, NoFile, FileStands, MasterKept
<1>2. FileStands /\ [Next]_rulesvars => FileStands'
  <2> SUFFICES ASSUME FileStands, [Next]_rulesvars PROVE FileStands'
    OBVIOUS
  <2>1. CASE FileNext
    BY <2>1, DeliverStands, EditStands DEF FileNext
  <2>2. CASE UNCHANGED filevars
    <3>1. master' = master /\ file' = file /\ hidden' = hidden
      BY <2>2 DEF filevars
    <3> QED BY <3>1 DEF FileStands, MasterKept, Hides, IsSeq
  <2> QED BY <2>1, <2>2 DEF Next, rulesvars
<1>3. FileStands => JudgedAreTheirs
  BY JudgedRight
<1> QED BY <1>1, <1>2, <1>3, PTL DEF Spec
=============================================================================
