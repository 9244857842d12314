-------------------------------- MODULE Gaps --------------------------------
(***************************************************************************)
(* The gap markup of a master file and the lines a student answers for     *)
(* (assessment/gap_parser.py, gap_generator.py, scope_check.py,            *)
(* lint_scope.py, agents/scope.py): from the master and the hidden gaps to *)
(* the released file, and from the student's edits back to the lines that  *)
(* are counted, linted, shown to a judge and quoted.                       *)
(*                                                                         *)
(* A line of a master has a kind and a text, of which its indentation and   *)
(* its words are kept; a header has the fields of its gap.  The diff sees   *)
(* texts, and texts repeat: blank lines, and the line of every stub that    *)
(* raises.  Where a line of the student's file comes from is kept beside    *)
(* its text, for the properties only.                                       *)
(***************************************************************************)
EXTENDS Integers, FiniteSets, Sequences, SequencesExt, FiniteSetsExt

CONSTANTS
  Masters,      \* master files, as sequences of lines
  Concepts,     \* the concepts of config/concepts.yaml
  Students,     \* [mastery, n_obs] by concept, from the profiles
  Writes,       \* the texts a student writes
  Solutions,    \* what a student writes in the place of a stub
  Edits,        \* bound on the edits of a student
  Context       \* CONTEXT_LINES around a judged line

ASSUME BoundsAssumption == Edits \in Nat /\ Context \in Nat
\* A line of a master has one of these kinds, a header what its fields lack.
Kinds   == {"gap", "instruct", "comment", "code", "endgap"}
Defects == {"no_concepts", "no_id", "bad_difficulty"}
ASSUME MasterAssumption == \A m \in Masters :
  /\ m \in Seq(Range(m))
  /\ \A l \in Range(m) : l.kind \in Kinds /\ (l.kind = "gap" => l.defects \subseteq Defects)
ASSUME SolutionsAssumption == \A s \in Solutions : s \in Seq(Range(s))

VARIABLES
  master,  \* the master file
  file,    \* the student's file, NULL before the release: of each line its
           \* text and the released line it is, 0 for the student's own
  hidden,  \* the gaps of the student's variant
  edits    \* how often the student has edited it
filevars == <<master, file, hidden, edits>>

NULL  == <<[is |-> "null"]>>
NoGap == [id |-> "none"]
Mine  == 0

Text(l) == [indent |-> l.indent, words |-> l.words]
Empty   == [indent |-> 0, words |-> <<>>]
\* An instruction is a comment line: its mark comes before what it says.
Says(l) == Tail(l.words)

----------------------------------------------------------------------------
(* The parser: one pass over the lines, with the gap that is open.         *)

\* _parse_gap_header: the fields in the order they are looked for.
HeaderError(l) ==
  IF "no_concepts" \in l.defects THEN "no_concepts"
  ELSE IF "no_id" \in l.defects THEN "no_id"
  ELSE IF "bad_difficulty" \in l.defects THEN "bad_difficulty"
  ELSE "none"

OpenGap(l, n) == [id |-> l.id, concepts |-> l.concepts, opened |-> n,
                  says |-> <<>>, first |-> 0]

Fails(st, why) == [st EXCEPT !.error = why]
Starts(st, l, n) ==
  IF st.open # NoGap THEN Fails(st, "nested")
  ELSE IF HeaderError(l) # "none" THEN Fails(st, HeaderError(l))
  ELSE IF \E g \in Range(st.gaps) : g.id = l.id THEN Fails(st, "duplicate")
  ELSE [st EXCEPT !.open = OpenGap(l, n), !.markers = @ \cup {n}]

\* Before the body an @instruct, and after one a plain comment, belongs to
\* the instruction.
Instructs(st, l) == /\ st.open # NoGap /\ st.open.first = 0
                    /\ \/ l.kind = "instruct"
                       \/ l.kind = "comment" /\ st.open.says # <<>>

\* Mutant: the continuation lines of an instruction are no markers.
OnlyTheFirst(st, l, n) ==
  [st EXCEPT !.open.says = Append(@, Says(l)),
             !.markers = IF st.open.says # <<>> THEN @ ELSE @ \cup {n}]

Instruction(st, l, n) ==
  [st EXCEPT !.open.says = Append(@, Says(l)), !.markers = @ \cup {n}]

Ends(st, n) ==
  IF st.open = NoGap THEN Fails(st, "no_gap_open")
  ELSE IF st.open.says = <<>> THEN Fails(st, "no_instruct")
  ELSE IF st.open.first = 0 THEN Fails(st, "empty_body")
  ELSE [st EXCEPT !.open = NoGap, !.markers = @ \cup {n},
                  !.gaps = Append(@, [id |-> st.open.id, concepts |-> st.open.concepts,
                                      says |-> st.open.says,
                                      first |-> st.open.first, last |-> n - 1])]

Body(st, n) == IF st.open # NoGap /\ st.open.first = 0
               THEN [st EXCEPT !.open.first = n] ELSE st

\* _parse_gap_structure: the gaps in order and the lines that are no text.
ReadLine(st, l, n) ==
  IF st.error # "none" THEN st
  ELSE IF l.kind = "gap" THEN Starts(st, l, n)
  ELSE IF Instructs(st, l) THEN Instruction(st, l, n)
  ELSE IF l.kind = "endgap" THEN Ends(st, n)
  ELSE Body(st, n)
Structure(m) ==
  LET st == FoldLeft(LAMBDA s, n : ReadLine(s, m[n], n),
                     [gaps |-> <<>>, markers |-> {}, open |-> NoGap, error |-> "none"],
                     [n \in 1..Len(m) |-> n])
  IN  IF st.error = "none" /\ st.open # NoGap THEN Fails(st, "unclosed") ELSE st

GapsOf(m) == Range(Structure(m).gaps)

\* parse_master: a concept nobody defined is an error as well.
ParseError(m) ==
  IF Structure(m).error # "none" THEN Structure(m).error
  ELSE IF \E g \in GapsOf(m) : ~(g.concepts \subseteq Concepts) THEN "unknown_concept"
  ELSE "none"

----------------------------------------------------------------------------
(* The released file.                                                      *)

\* What takes the place of a hidden body, indented as the body's first line.
Stub(says, indent) ==
  <<[indent |-> indent, words |-> <<"#">> \o FlattenSeq(says)],
    [indent |-> indent, words |-> <<"raise NotImplementedError()">>]>>
HiddenAt(st, hide, n) == {g \in Range(st.gaps) : g.id \in hide /\ n \in g.first .. g.last}

\* render_student_file_with_ranges, line by line.
Rendered(m, st, hide, n) ==
  IF n \in st.markers THEN <<>>
  ELSE IF HiddenAt(st, hide, n) = {} THEN <<Text(m[n])>>
  ELSE LET g == CHOOSE g \in HiddenAt(st, hide, n) : TRUE
       IN  IF n = g.first THEN Stub(g.says, m[n].indent) ELSE <<>>
RenderUpTo(m, st, hide, last) ==
  FoldLeft(LAMBDA out, n : out \o Rendered(m, st, hide, n), <<>>, [n \in 1..last |-> n])
Release(m, hide) == RenderUpTo(m, Structure(m), hide, Len(m))
ReleaseRanges(m, hide) ==
  LET st == Structure(m)
      out(g) == Len(RenderUpTo(m, st, hide, g.first - 1))
  IN  {<<out(g) + 1, out(g) + 2>> : g \in {h \in Range(st.gaps) : h.id \in hide}}

\* The text of a body that is one empty line has no first line to be indented
\* as: IndexError.  An unknown gap is a GapParseError, as is a bad master.
Hides(m, hide)     == /\ Structure(m).error = "none"
                      /\ hide \subseteq {g.id : g \in GapsOf(m)}
CanRender(m, hide) == /\ Hides(m, hide)
                      /\ \A g \in GapsOf(m) : g.id \in hide =>
                           g.first < g.last \/ Text(m[g.first]) # Empty

\* select_variant: every gap of one concept; the concept with the lowest
\* mastery among those observed three times, else any (the seed decides).
MinObs == 3
Variant(m, concept) == {g.id : g \in {h \in GapsOf(m) : concept \in h.concepts}}
SelectVariant(m, mastery, n_obs) ==
  LET all == UNION {g.concepts : g \in GapsOf(m)}
      qualifying == {c \in all : n_obs[c] >= MinObs}
      lowest == {c \in qualifying : \A d \in qualifying : mastery[c] <= mastery[d]}
  IN  {Variant(m, c) : c \in IF qualifying = {} THEN all
                             ELSE {CHOOSE c \in lowest : \A d \in lowest : c <= d}}

----------------------------------------------------------------------------
(* The student's lines.                                                    *)

\* difflib.SequenceMatcher, which matches lines by their text: the pairs of
\* lines it matches, with a stop before the first and after the last line.
\* Between two stops it takes the longest block the two files have in common,
\* of equal ones the first in a and then in b, and goes on around it; here one
\* round for all the stretches that are left, and no more rounds than lines.
After(stops, x) == CHOOSE y \in stops : y[1] > x[1] /\ \A z \in stops : z[1] > x[1] => z[1] >= y[1]
Common(a, b, x, y) ==
  {c \in (x[1] + 1 .. y[1] - 1) \X (x[2] + 1 .. y[2] - 1) \X (1 .. Len(a)) :
     /\ c[1] + c[3] <= y[1] /\ c[2] + c[3] <= y[2]
     /\ \A d \in 0 .. c[3] - 1 : a[c[1] + d] = b[c[2] + d]}
Better(c, d) == \/ c[3] > d[3]
                \/ c[3] = d[3] /\ (c[1] < d[1] \/ (c[1] = d[1] /\ c[2] <= d[2]))
FindLongestMatch(a, b, x, y) ==
  LET common == Common(a, b, x, y)
  IN  IF common = {} THEN {}
      ELSE LET c == CHOOSE c \in common : \A d \in common : Better(c, d)
           IN  {<<c[1] + d, c[2] + d>> : d \in 0 .. c[3] - 1}
End(a, b) == <<Len(a) + 1, Len(b) + 1>>
Round(a, b, stops) ==
  stops \cup UNION {FindLongestMatch(a, b, x, After(stops, x)) : x \in stops \ {End(a, b)}}
Stops(a, b) == FoldLeft(LAMBDA stops, r : Round(a, b, stops), {<<0, 0>>, End(a, b)},
                        [r \in 1 .. Len(a) |-> r])

\* get_opcodes without the equal blocks: half-open ranges from zero.
Block(stops, x) == [i1 |-> x[1], i2 |-> After(stops, x)[1] - 1,
                    j1 |-> x[2], j2 |-> After(stops, x)[2] - 1]
Opcodes(a, b) ==
  LET stops == Stops(a, b)
  IN  {op \in {Block(stops, x) : x \in stops \ {End(a, b)}} :
         op.i1 < op.i2 \/ op.j1 < op.j2}

\* Mutant: the ranges, from one and inclusive, are taken for half-open ones.
AsTheyCome(ranges) == ranges

\* _to_half_open_zero_indexed.
HalfOpen(ranges) == {<<r[1] - 1, r[2]>> : r \in ranges}

\* Mutant: a block that touches a gap counts as inside it.
Overlaps(op, gaps) == \E g \in gaps : g[1] <= op.i2 /\ op.i1 <= g[2]

\* _opcode_is_in_gap: an insertion at either edge is inside; a block that
\* also covers lines outside the gap is not.
InGap(op, gaps) ==
  IF op.i1 = op.i2 THEN \E g \in gaps : g[1] <= op.i1 /\ op.i1 <= g[2]
  ELSE \E g \in gaps : g[1] <= op.i1 /\ op.i2 <= g[2]

Deletes(op) == op.j1 = op.j2
Changed(op) == IF Deletes(op) THEN op.i2 - op.i1 ELSE op.j2 - op.j1

\* scope_check.
ScopeReport(a, b, ranges) ==
  LET outside == {op \in Opcodes(a, b) : ~InGap(op, HalfOpen(ranges))}
      count(ops) == MapThenSumSet(Changed, ops)
  IN  [in_gap |-> count(Opcodes(a, b) \ outside), out_of_scope |-> count(outside),
       numbers |-> UNION {op.j1 + 1 .. op.j2 : op \in {o \in outside : ~Deletes(o)}}]

\* in_gap_submitted_ranges, in the numbering of the submitted file.
SubmittedRanges(a, b, ranges) ==
  {<<op.j1 + 1, op.j2>> :
     op \in {o \in Opcodes(a, b) : ~Deletes(o) /\ InGap(o, HalfOpen(ranges))}}

NoLine == 0
\* filter_lint_findings: a finding without a line is nobody's.
Attributed(findings, ranges) ==
  {f \in findings : f.line # NoLine /\ \E r \in ranges : r[1] <= f.line /\ f.line <= r[2]}

\* measure: the two numbers the attempt keeps.
LintMeasure(a, b, ranges, findings) ==
  [violations |-> Cardinality(Attributed(findings, SubmittedRanges(a, b, ranges))),
   changed_loc |-> ScopeReport(a, b, ranges).in_gap]

\* _merge: ranges that overlap or touch become one, in the order of the first
\* and then of the last line (by rank: the prover knows no SortSeq).
Before(r, s) == r[1] < s[1] \/ (r[1] = s[1] /\ r[2] < s[2])
Sorted(ranges) ==
  [k \in 1 .. Cardinality(ranges) |->
     CHOOSE r \in ranges : Cardinality({s \in ranges : Before(s, r)}) = k - 1]
Join(done, r) ==
  IF done # <<>> /\ r[1] <= Last(done)[2] + 1
  THEN [done EXCEPT ![Len(done)] = <<@[1], Max({@[2], r[2]})>>]
  ELSE Append(done, r)
Merge(ranges) == FoldLeft(Join, <<>>, Sorted(ranges))

\* judged_excerpt: the ranges shown of b, and what stands between them.
Unavailable(m, hide, b) ==
  \/ hide = {} \/ ~Hides(m, hide)
  \/ SubmittedRanges(Release(m, hide), b, ReleaseRanges(m, hide)) = {}
Shown(m, hide, b) ==
  Merge({<<Max({1, r[1] - Context}), Min({Len(b), r[2] + Context})>> :
           r \in SubmittedRanges(Release(m, hide), b, ReleaseRanges(m, hide))})
Omitted(shown, total) ==
  [k \in 1 .. Len(shown) + 1 |->
     (IF k > Len(shown) THEN total + 1 ELSE shown[k][1])
       - (IF k = 1 THEN 1 ELSE shown[k - 1][2] + 1)]

----------------------------------------------------------------------------
\* A master is on disk; who the student is decides the first variant.
FileInit == /\ master \in Masters /\ file = NULL /\ hidden = {} /\ edits = 0

Deliver ==
  /\ file = NULL /\ ParseError(master) = "none" /\ GapsOf(master) # {}
  /\ \E s \in Students : hidden' \in SelectVariant(master, s.mastery, s.n_obs)
  /\ CanRender(master, hidden')
  /\ LET released == Release(master, hidden')
     IN  file' = [n \in 1 .. Len(released) |-> [text |-> released[n], from |-> n]]
  /\ UNCHANGED <<master, edits>>

\* The student writes, changes and deletes lines, and fills a stub.
Line(t) == [text |-> t, from |-> Mine]
Edit(lines) == /\ file # NULL /\ edits < Edits /\ edits' = edits + 1
               /\ file' = lines /\ UNCHANGED <<master, hidden>>
Insert  == \E n \in 1 .. Len(file) + 1, t \in Writes : Edit(InsertAt(file, n, Line(t)))
Change  == \E n \in 1 .. Len(file), t \in Writes :
             file[n].text # t /\ Edit(ReplaceAt(file, n, Line(t)))
Delete  == \E n \in 1 .. Len(file) : Edit(RemoveAt(file, n))
Fill    == \E n \in 1 .. Len(file) - 1, s \in Solutions :
             /\ <<file[n].from, file[n + 1].from>> \in ReleaseRanges(master, hidden)
             /\ Edit(SubSeq(file, 1, n - 1) \o [k \in 1 .. Len(s) |-> Line(s[k])]
                       \o SubSeq(file, n + 2, Len(file)))
FileNext == Deliver \/ (file # NULL /\ (Insert \/ Change \/ Delete \/ Fill))

----------------------------------------------------------------------------
(* What a master means, said without the parser.                           *)

IsMark(m, n) == m[n].kind \in {"gap", "endgap"}
\* The lines between a gap's header and the next mark.
BlockEnd(m, n) == CHOOSE e \in n + 1 .. Len(m) + 1 :
                    /\ e = Len(m) + 1 \/ IsMark(m, e)
                    /\ \A k \in n + 1 .. e - 1 : ~IsMark(m, k)
\* The first line that is neither an @instruct nor a comment.
BodyStart(m, n) == CHOOSE b \in n + 1 .. BlockEnd(m, n) :
                     /\ b = BlockEnd(m, n) \/ m[b].kind = "code"
                     /\ \A k \in n + 1 .. b - 1 : m[k].kind # "code"
Headers(m) == {n \in 1 .. Len(m) : m[n].kind = "gap"}
WellFormed(m) ==
  /\ \A n \in Headers(m) :
       /\ m[n].defects = {} /\ \A k \in Headers(m) \ {n} : m[k].id # m[n].id
       /\ BlockEnd(m, n) <= Len(m) /\ m[BlockEnd(m, n)].kind = "endgap"
       /\ m[n + 1].kind = "instruct" /\ BodyStart(m, n) < BlockEnd(m, n)
  /\ \A e \in 1 .. Len(m) : m[e].kind = "endgap" =>
       \E n \in Headers(m) : BlockEnd(m, n) = e

\* The gaps that get a stub, and the lines that are not released: of a gap
\* the header and the instruction, of a hidden one the body, every end.
Stubs(m, hide) == {n \in Headers(m) : m[n].id \in hide}
Taken(m, hide, n) == n .. (IF m[n].id \in hide THEN BlockEnd(m, n) ELSE BodyStart(m, n) - 1)
AllTaken(m, hide) == UNION {Taken(m, hide, n) : n \in Headers(m)}
Ended(m) == {e \in 1 .. Len(m) : m[e].kind = "endgap"}
Gone(m, hide) == AllTaken(m, hide) \cup Ended(m)
\* The place of line n in the released file, or of what precedes its stub.
Position(m, hide, n) ==
  Cardinality((1 .. n) \ Gone(m, hide)) + 2 * Cardinality({k \in Stubs(m, hide) : k < n})

\* What a gap's instruction says, line by line.
Instructed(m, n) == [k \in 1 .. BodyStart(m, n) - 1 - n |-> Says(m[n + k])]
\* A body of one empty line.
NoBody(m, n) == BodyStart(m, n) + 1 = BlockEnd(m, n) /\ Text(m[BodyStart(m, n)]) = Empty

\* A master is accepted when it is well formed, and it can be released when no
\* hidden body is one empty line.  What is released is exact: every line of it
\* that is text and not in a hidden body, in order, with one stub in the place
\* of each hidden body, where the ranges say, with the gap's instruction and
\* the indentation of the body's first line.
ReleaseIsExact ==
  /\ (Structure(master).error = "none") = WellFormed(master)
  /\ WellFormed(master) =>
       \A hide \in SUBSET {master[n].id : n \in Headers(master)} :
         LET out == Release(master, hide)
             kept == (1 .. Len(master)) \ Gone(master, hide)
             at(n) == Position(master, hide, n)
         IN  /\ CanRender(master, hide) = (\A n \in Stubs(master, hide) : ~NoBody(master, n))
             /\ Len(out) = Cardinality(kept) + 2 * Cardinality(Stubs(master, hide))
             /\ \A n \in kept : out[at(n)] = Text(master[n])
             /\ \A n \in Stubs(master, hide) :
                  SubSeq(out, at(n) + 1, at(n) + 2)
                    = Stub(Instructed(master, n), master[BodyStart(master, n)].indent)
             /\ ReleaseRanges(master, hide) = {<<at(n) + 1, at(n) + 2>> : n \in Stubs(master, hide)}

\* A stub stands where its gap's code stood: "a dedented `raise` inside an
\* indented block is a Python file that will not parse, which is the one
\* failure this function exists to prevent" (gap_parser.py:308-310).
FirstOfCode(m, n) == CHOOSE k \in BodyStart(m, n) .. BlockEnd(m, n) - 1 :
                       /\ m[k].words # <<>>
                       /\ \A j \in BodyStart(m, n) .. k - 1 : m[j].words = <<>>
StubsAreIndented ==
  file # NULL =>
    \A n \in Stubs(master, hidden) :
      (\E k \in BodyStart(master, n) .. BlockEnd(master, n) - 1 : master[k].words # <<>>) =>
        Release(master, hidden)[Position(master, hidden, n) + 2].indent
          = master[FirstOfCode(master, n)].indent

\* A line stands in a gap by the lines that are left around it, as pairs of a
\* released and a present line: the ones between were all stub of one gap, or
\* there were none and a neighbour is a stub.
InAGap(j, left, ranges) ==
  LET before == Max({x[1] : x \in {y \in left : y[2] < j}})
      after  == Min({x[1] : x \in {y \in left : y[2] > j}})
  IN  \E r \in ranges :
        IF after = before + 1 THEN before \in r[1] .. r[2] \/ after \in r[1] .. r[2]
        ELSE r[1] <= before + 1 /\ after - 1 <= r[2]

Released == Release(master, hidden)
Ranges   == ReleaseRanges(master, hidden)
Texts    == [j \in 1 .. Len(file) |-> file[j].text]
LinesOf(ranges) == UNION {r[1] .. r[2] : r \in ranges}
Judged   == LinesOf(SubmittedRanges(Released, Texts, Ranges))

\* The lines of a hand-in that are counted, linted and judged as the student's,
\* the ones reported as out of scope and the ones that are taken for released
\* lines are all of its lines, each once.  The last keep the text and the order
\* of the release; no other line reads like a released one but where it has
\* changed places with one of them; and judged is exactly what stands in a gap
\* between them (invariant 14: "findings outside gap line ranges are never
\* attributed to the student", scope_check.py:95-96).  A judge sees the judged
\* lines once, in order, and is told of every line left out.
JudgedAreTheirs ==
  file # NULL =>
    LET a == Released
        b == Texts
        ranges == Ranges
        same == Stops(a, b)
        matched == same \ {<<0, 0>>, End(a, b)}
        other == (1 .. Len(b)) \ {x[2] : x \in matched}
        judged == LinesOf(SubmittedRanges(a, b, ranges))
        shown == Shown(master, hidden, b)
        findings == [line : {NoLine} \cup 1 .. Len(b)]
    IN  /\ \A x \in matched : a[x[1]] = b[x[2]]
        /\ \A x, y \in same : x[1] < y[1] <=> x[2] < y[2]
        /\ \A i \in (1 .. Len(a)) \ {x[1] : x \in matched}, j \in other :
             a[i] = b[j] => \E x \in matched : x[1] < i <=> x[2] > j
        /\ judged = {j \in other : InAGap(j, same, ranges)}
        /\ ScopeReport(a, b, ranges).numbers = other \ judged
        /\ LintMeasure(a, b, ranges, findings).violations = Cardinality(judged)
        /\ Unavailable(master, hidden, b) = (judged = {})
        /\ judged \subseteq UNION {shown[k][1] .. shown[k][2] : k \in 1 .. Len(shown)}
        /\ \A k \in 1 .. Len(shown) + 1 :
             Omitted(shown, Len(b))[k] >= (IF k \in 2 .. Len(shown) THEN 1 ELSE 0)

\* By who wrote it: the student's lines, and where they stand.
Written == {j \in 1 .. Len(file) : file[j].from = Mine}
Kept    == {<<file[j].from, j>> : j \in (1 .. Len(file)) \ Written}
             \cup {<<0, 0>>, End(Released, file)}
Theirs  == {j \in Written : InAGap(j, Kept, Ranges)}

\* The student works in the gaps: the lines are new ones and stand in a gap; a
\* stub is left as it is or loses its raise, and no two lines that follow each
\* other, of one stub or of two that touch, are gone with nothing in their
\* place.  The instructions differ from each other and from the text, and only
\* stubs raise.
WorksInGaps ==
  LET a == Released
      kept == Kept
      ranges == Ranges
      lost == (1 .. Len(a)) \ {x[1] : x \in kept}
  IN  /\ Theirs = Written /\ lost \subseteq LinesOf(ranges)
      /\ \A j \in Written : file[j].text \notin Range(a)
      /\ \A x, y \in kept : y[2] = x[2] + 1 => y[1] <= x[1] + 2
      /\ \A r \in ranges :
           /\ r[2] \in lost \/ \E x, y \in kept : x[1] = r[1] /\ y = <<r[2], x[2] + 1>>
           /\ \A n \in 1 .. Len(a) : /\ a[n] = a[r[1]] => n = r[1]
                                     /\ a[n] = a[r[2]] => n \in LinesOf(ranges)

\* A student who works in the gaps is judged by all of that work and has
\* touched nothing else, whatever lines the rest of the file repeats: "a clean
\* edit ... is attributed precisely" (scope_check.py:98-99).
FilledGapsAreJudged ==
  file # NULL /\ WorksInGaps =>
    Judged = Written /\ ScopeReport(Released, Texts, Ranges).out_of_scope = 0

\* One line inserted in a gap: "an insert exactly at a gap's boundary is still
\* an edit made while working inside that gap, not a separate out-of-scope act"
\* (scope_check.py:84-85).
EditsAtTheEdgeAreInside ==
  /\ file # NULL /\ Theirs # {} /\ Written = Theirs
  /\ edits = 1 /\ 1 .. Len(Released) \subseteq {x[1] : x \in Kept}
  => ScopeReport(Released, Texts, Ranges).out_of_scope = 0
=============================================================================
