------------------------------- MODULE Memory -------------------------------
(***************************************************************************)
(* memory/memory.py: the append-only log of traces of one student and the  *)
(* learner_profile row that caches what the log implies.  Every public     *)
(* method that writes is here; any number of processes call them, each in  *)
(* a transaction it owns or one it joined (several calls, one commit), at  *)
(* READ COMMITTED: a statement sees what is committed when it runs and     *)
(* what its own transaction wrote.                                         *)
(*                                                                         *)
(* A mastery value is the set of evidence traces folded into it: BKT is    *)
(* computed over them in the total order (observed_at, trace_id), so equal *)
(* sets give equal numbers.  The weaknesses are a set, without the array's *)
(* order.                                                                  *)
(***************************************************************************)
EXTENDS Integers, FiniteSets

CONSTANTS
  Actors,     \* processes that call the memory
  Concepts,   \* concept ids, unclassified left out: those calls do nothing
  Gaps, ConceptOf,  \* the gaps observed, and the first concept of each
  Calls,      \* the methods the instance calls (TLC; all of them in the code)
  MaxTrace, MaxTx  \* bounds: traces, transactions

MasteryKinds == {"ci_run", "mastery_observation"}
\* Kinds that only a rebuild carries into the profile: their notes or ids.
Recents      == {"reflection_run", "session_summary"}
Kinds == MasteryKinds \cup Recents \cup
           {"mastery_update", "weakness_opened", "intervention_linked"}
Keep  == 5    \* REFLECTIONS_MAX and SESSION_DIGEST_MAX
NoId  == 0
Ids   == Nat \ {0}

\* ts is now(), the start of the transaction; about is the gap observed or the
\* weakness a link or a reflection is about; cites are trace ids.
Trace == [id : Ids, ts : Nat, kind : Kinds, concept : Concepts,
          ok : BOOLEAN, about : Nat, cites : SUBSET Ids]
Weakness == [id : Ids, concept : Concepts, evidence : SUBSET Ids,
             status : {"open", "closed", "escalated"}, links : SUBSET Ids]
Profile == [mastery : [Concepts -> SUBSET Ids], weaknesses : SUBSET Weakness,
            recent : [Recents -> SUBSET Ids]]

ASSUME ConceptAssumption ==
  /\ Concepts # {} /\ Gaps \subseteq Ids /\ ConceptOf \in [Gaps -> Concepts]
  /\ Concepts \cap (Recents \cup {"weaknesses"}) = {}
ASSUME CallAssumption ==
  Calls \subseteq {"log_trace", "record_mastery_observation", "update_mastery",
    "apply_recurrence_rule", "open_weakness", "link_intervention",
    "rebuild_from_traces", "rebuild_mastery_from_traces"}
ASSUME BoundAssumption == MaxTrace \in Nat /\ MaxTx \in Nat

VARIABLES
  log,       \* committed traces
  profile,   \* the committed learner_profile row
  lastId,    \* the trace_id sequence: never given back, not even on rollback
  clock,     \* transactions begun so far
  tx,        \* each actor's open transaction
  pc, at,    \* each actor's next statement, and the concept or weakness of it
  left, read,  \* a rebuild: the parts still to read, and what was read
  alone      \* has no other transaction been open during this one? (history)

vars == <<log, profile, lastId, clock, tx, pc, at, left, read, alone>>

Empty == [mastery |-> [c \in Concepts |-> {}], weaknesses |-> {},
          recent |-> [k \in Recents |-> {}]]
NoTx == [ts |-> 0, traces |-> {}, locked |-> FALSE,
         profile |-> Empty]

Nowhere == [concept |-> CHOOSE c \in Concepts : TRUE, id |-> NoId]

----------------------------------------------------------------------------
(* What the log implies.                                                   *)

Before(s, t) == s.ts < t.ts \/ (s.ts = t.ts /\ s.id < t.id)

\* _replay_concept
Evidence(L, c) == {t.id : t \in {u \in L : u.kind \in MasteryKinds /\ u.concept = c}}

\* _recover_reflections, _recover_session_digest: the last few of one kind.
Recent(L, k) ==
  {t.id : t \in {u \in L : /\ u.kind = k
                           /\ Cardinality({v \in L : v.kind = k /\ Before(u, v)}) < Keep}}

\* The reflections about the weakness that trace o opened.
About(L, o) == {t \in L : t.kind = "reflection_run" /\ t.about = o.id /\ Before(o, t)}
Status(L, o) ==
  IF About(L, o) = {} THEN "open"
  ELSE IF \E t \in About(L, o) : t.ok /\ \A u \in About(L, o) : ~Before(t, u)
       THEN "closed" ELSE "escalated"
Links(L, o) ==
  UNION {t.cites : t \in {u \in L : /\ u.kind = "intervention_linked"
                                    /\ u.about = o.id /\ Before(o, u)}}

\* Mutant: the rule of opening alone, without the later life of a weakness.
JustOpened(L) ==
  {[id |-> o.id, concept |-> o.concept, evidence |-> o.cites,
    status |-> "open", links |-> {}] :
     o \in {t \in L : t.kind = "weakness_opened"}}

\* _replay_weaknesses: one pass over the log in (ts, trace_id) order.
Replayed(L) ==
  {[id |-> o.id, concept |-> o.concept, evidence |-> o.cites,
    status |-> Status(L, o), links |-> Links(L, o)] :
     o \in {t \in L : t.kind = "weakness_opened"}}

Project(L) ==
  [mastery    |-> [c \in Concepts |-> Evidence(L, c)],
   weaknesses |-> Replayed(L),
   recent     |-> [k \in Recents |-> Recent(L, k)]]

----------------------------------------------------------------------------
(* Transactions.                                                           *)

VisibleLog(a)      == log \cup tx[a].traces
VisibleProfile(a)  == IF tx[a].locked THEN tx[a].profile ELSE profile

\* Mutant: two transactions write the row at once.
NoRowLock(a) == TRUE

ProfileFree(a) == \A b \in Actors \ {a} : ~tx[b].locked
Insert(a, t)   == [tx EXCEPT ![a].traces = @ \cup {t}]
\* An upsert of the profile row: the row's newest committed version, changed.
Write(a, p, S) == [tx EXCEPT ![a].locked = TRUE, ![a].profile = p,
                             ![a].traces = @ \cup S]
NewTrace(a, kind, c, ok, about, cites) ==
  [id |-> lastId + 1, ts |-> tx[a].ts, kind |-> kind, concept |-> c,
   ok |-> ok, about |-> about, cites |-> cites]

Init ==
  /\ log = {} /\ profile = Empty
  /\ lastId = 0 /\ clock = 0
  /\ tx = [a \in Actors |-> NoTx]
  /\ pc = [a \in Actors |-> "idle"]
  /\ at = [a \in Actors |-> Nowhere]
  /\ left = [a \in Actors |-> {}]
  /\ read = [a \in Actors |-> Empty]
  /\ alone = [a \in Actors |-> FALSE]

committed == <<log, profile>>
locals    == <<at, left, read>>

\* A call begins; a call returns, and its locals are gone.
Call(a, m)    == pc[a] = "open" /\ m \in Calls
Forget(a)     == /\ at' = [at EXCEPT ![a] = Nowhere]
                 /\ left' = [left EXCEPT ![a] = {}]
                 /\ read' = [read EXCEPT ![a] = Empty]
Return(a)     == pc' = [pc EXCEPT ![a] = "open"] /\ Forget(a)

\* db.connect and the first statement's BEGIN, which fixes now().
Begin(a) ==
  /\ pc[a] = "idle" /\ clock < MaxTx
  /\ clock' = clock + 1
  /\ tx' = [tx EXCEPT ![a] = [NoTx EXCEPT !.ts = clock + 1]]
  /\ alone' = [b \in Actors |-> b = a /\ \A d \in Actors : tx[d].ts = 0]
  /\ pc' = [pc EXCEPT ![a] = "open"]
  /\ UNCHANGED <<committed, lastId, locals>>

\* log_trace of a CI run, a reflection or a session summary: nothing else
\* changes, and the profile learns of the last two only in a rebuild.
LogTrace(a) ==
  /\ Call(a, "log_trace") /\ lastId < MaxTrace
  /\ lastId' = lastId + 1
  /\ \E c \in Concepts, ok \in BOOLEAN :
       \/ tx' = Insert(a, NewTrace(a, "ci_run", c, ok, NoId, {}))
       \/ ok /\ tx' = Insert(a, NewTrace(a, "session_summary", c, ok, NoId, {}))
       \/ \E w \in VisibleProfile(a).weaknesses :
            /\ w.concept = c
            /\ tx' = Insert(a, NewTrace(a, "reflection_run", c, ok, w.id, {}))
  /\ UNCHANGED <<committed, clock, pc, locals, alone>>

Observed(a, g) ==
  \E t \in VisibleLog(a) : t.kind = "mastery_observation" /\ t.about = g

\* record_mastery_observation; the caller may call update_mastery next.
Observe(a) ==
  /\ Call(a, "record_mastery_observation") /\ lastId < MaxTrace
  /\ \E g \in Gaps, ok \in BOOLEAN :
       /\ ~Observed(a, g)
       /\ tx' = Insert(a, NewTrace(a, "mastery_observation", ConceptOf[g], ok, g, {}))
  /\ lastId' = lastId + 1
  /\ UNCHANGED <<committed, clock, pc, locals, alone>>

\* update_mastery, first statement: the replay of one concept.
Replay(a) ==
  /\ Call(a, "update_mastery") /\ lastId < MaxTrace
  /\ \E c \in Concepts :
       /\ Evidence(VisibleLog(a), c) # {}
       /\ read' = [read EXCEPT ![a].mastery[c] = Evidence(VisibleLog(a), c)]
       /\ at' = [at EXCEPT ![a].concept = c]
  /\ pc' = [pc EXCEPT ![a] = "merge"]
  /\ UNCHANGED <<committed, lastId, clock, tx, left, alone>>

\* _merge_mastery and the audit trace.
Merge(a) ==
  /\ pc[a] = "merge" /\ ProfileFree(a) /\ lastId < MaxTrace
  /\ LET c == at[a].concept
         p == [VisibleProfile(a) EXCEPT !.mastery[c] = read[a].mastery[c]]
     IN  tx' = Write(a, p, {NewTrace(a, "mastery_update", c, TRUE, NoId, {})})
  /\ lastId' = lastId + 1
  /\ Return(a)
  /\ UNCHANGED <<committed, clock, alone>>

\* _failure_evidence_by_error_class; an error class stands for its concept.
Failures(a, c) ==
  {t.id : t \in {u \in VisibleLog(a) : u.kind = "ci_run" /\ u.concept = c /\ ~u.ok}}

\* apply_recurrence_rule: is a weakness open for the concept already?
CheckOpen(a) ==
  /\ Call(a, "apply_recurrence_rule")
  /\ \E c \in Concepts :
       /\ \A w \in VisibleProfile(a).weaknesses : ~(w.concept = c /\ w.status = "open")
       /\ at' = [at EXCEPT ![a].concept = c]
  /\ pc' = [pc EXCEPT ![a] = "recur"]
  /\ UNCHANGED <<committed, lastId, clock, tx, left, read, alone>>

NotRecurred(a) ==
  /\ pc[a] = "recur"
  /\ Cardinality(Failures(a, at[a].concept)) < 2
  /\ Return(a)
  /\ UNCHANGED <<committed, lastId, clock, tx, alone>>

\* open_weakness, by the recurrence rule or directly: its trace comes first,
\* for the id of the weakness is the id of the trace.
OpenWeakness(a) ==
  /\ lastId < MaxTrace
  /\ \E c \in Concepts :
       /\ \/ Call(a, "open_weakness")
          \/ pc[a] = "recur" /\ c = at[a].concept /\ Cardinality(Failures(a, c)) >= 2
       /\ tx' = Insert(a, NewTrace(a, "weakness_opened", c, TRUE, NoId, Failures(a, c)))
       /\ at' = [at EXCEPT ![a] = [concept |-> c, id |-> lastId + 1]]
  /\ lastId' = lastId + 1
  /\ pc' = [pc EXCEPT ![a] = "append"]
  /\ UNCHANGED <<committed, clock, left, read, alone>>

\* _append_weakness
Append(a) ==
  /\ pc[a] = "append" /\ ProfileFree(a)
  /\ \E o \in tx[a].traces :
       /\ o.id = at[a].id
       /\ LET w == [id |-> o.id, concept |-> o.concept, evidence |-> o.cites,
                    status |-> "open", links |-> {}]
          IN  tx' = Write(a, [VisibleProfile(a) EXCEPT !.weaknesses = @ \cup {w}], {})
  /\ Return(a)
  /\ UNCHANGED <<committed, lastId, clock, alone>>

\* _link_intervention_sql: the weakness's own array, inside the row.
Linked(W, id, t) ==
  {IF w.id = id THEN [w EXCEPT !.links = @ \cup {t}] ELSE w : w \in W}

\* link_intervention of a known weakness (an unknown one raises: Rollback).
Link(a) ==
  /\ Call(a, "link_intervention") /\ ProfileFree(a) /\ lastId < MaxTrace
  /\ \E w \in VisibleProfile(a).weaknesses : \E t \in VisibleLog(a) :
       LET p == [VisibleProfile(a) EXCEPT !.weaknesses = Linked(@, w.id, t.id)]
       IN  tx' = Write(a, p, {NewTrace(a, "intervention_linked", w.concept,
                                       TRUE, w.id, {t.id})})
  /\ lastId' = lastId + 1
  /\ UNCHANGED <<committed, clock, pc, locals, alone>>

WithEvidence(a) == {c \in Concepts : Evidence(VisibleLog(a), c) # {}}
Others == Recents \cup {"weaknesses"}

\* rebuild_from_traces, or rebuild_mastery_from_traces (no other part).
Rebuild(a) ==
  /\ \/ /\ Call(a, "rebuild_from_traces")
        /\ left' = [left EXCEPT ![a] = WithEvidence(a) \cup Others]
        /\ pc' = [pc EXCEPT ![a] = "rebuild"]
     \/ /\ Call(a, "rebuild_mastery_from_traces")
        /\ left' = [left EXCEPT ![a] = WithEvidence(a)]
        /\ pc' = [pc EXCEPT ![a] = "rebuild mastery"]
  /\ UNCHANGED <<committed, lastId, clock, tx, at, read, alone>>

\* One SELECT of the rebuild, of a part in a fixed order.
ReadPart(a) ==
  /\ left[a] # {}
  /\ LET p   == CHOOSE q \in left[a] : TRUE
         now == Project(VisibleLog(a))
     IN  /\ left' = [left EXCEPT ![a] = @ \ {p}]
         /\ read' = [read EXCEPT ![a] =
              CASE p \in Concepts      -> [@ EXCEPT !.mastery[p] = now.mastery[p]]
                [] p \in Recents       -> [@ EXCEPT !.recent[p] = now.recent[p]]
                [] p = "weaknesses"    -> [@ EXCEPT !.weaknesses = now.weaknesses]]
  /\ UNCHANGED <<committed, lastId, clock, tx, pc, at, alone>>

\* Mutant: the column list of the UPDATE without reflections and digest.
ForgetRecent(a) == [read[a] EXCEPT !.recent = VisibleProfile(a).recent]

\* _write_whole_profile, or _merge_mastery of every concept replayed.
Whole(a) == read[a]
Merged(a) ==
  [VisibleProfile(a) EXCEPT !.mastery =
     [c \in Concepts |-> IF read[a].mastery[c] # {} THEN read[a].mastery[c] ELSE @[c]]]
WriteProfile(a) ==
  /\ left[a] = {} /\ ProfileFree(a)
  /\ \/ pc[a] = "rebuild" /\ tx' = Write(a, Whole(a), {})
     \/ pc[a] = "rebuild mastery" /\ tx' = Write(a, Merged(a), {})
  /\ Return(a)
  /\ UNCHANGED <<committed, lastId, clock, alone>>

\* Back to no transaction.
Over(a) ==
  /\ tx' = [tx EXCEPT ![a] = NoTx]
  /\ pc' = [pc EXCEPT ![a] = "idle"]
  /\ Forget(a)
  /\ UNCHANGED <<lastId, clock, alone>>

Commit(a) ==
  /\ pc[a] = "open"
  /\ log' = log \cup tx[a].traces
  /\ profile' = VisibleProfile(a)
  /\ Over(a)

\* Mutant: the profile is written outside the transaction of its trace.
UndoLog(a) == log' = log /\ profile' = VisibleProfile(a)

Undo(a) == UNCHANGED committed

\* An exception, a crash, a deadlock: at any statement.
Rollback(a) == pc[a] # "idle" /\ Undo(a) /\ Over(a)

Step(a) ==
  \/ Begin(a) \/ LogTrace(a) \/ Observe(a) \/ Replay(a) \/ Merge(a)
  \/ CheckOpen(a) \/ NotRecurred(a) \/ OpenWeakness(a) \/ Append(a) \/ Link(a)
  \/ Rebuild(a) \/ ReadPart(a) \/ WriteProfile(a)
  \/ Commit(a) \/ Rollback(a)
Next == \E a \in Actors : Step(a)
Spec == Init /\ [][Next]_vars

----------------------------------------------------------------------------
(* Properties.                                                             *)

\* Types; the row lock has one holder, and an idle actor no transaction.
TypeOK ==
  /\ log \subseteq Trace /\ profile \in Profile
  /\ lastId \in Nat /\ clock \in Nat
  /\ tx \in [Actors -> [ts : Nat, traces : SUBSET Trace,
                        locked : BOOLEAN, profile : Profile]]
  /\ pc \in [Actors -> {"idle", "open", "merge", "recur", "append", "rebuild",
                        "rebuild mastery"}]
  /\ at \in [Actors -> [concept : Concepts, id : Nat]]
  /\ left \in [Actors -> SUBSET (Concepts \cup Others)]
  /\ read \in [Actors -> Profile]
  /\ alone \in [Actors -> BOOLEAN]
  /\ \A a, b \in Actors : tx[a].locked /\ tx[b].locked => a = b

\* What a profile holds has its record: evidence for a mastery, the opening
\* trace of a weakness with its evidence, the trace of each link, a reflection
\* for a status, the note or summary.
Backed(p, L) ==
  /\ \A c \in Concepts : p.mastery[c] \subseteq Evidence(L, c)
  /\ \A w \in p.weaknesses :
       /\ \E o \in L : /\ o.kind = "weakness_opened" /\ o.id = w.id
                       /\ o.concept = w.concept /\ o.cites = w.evidence
       /\ \A t \in w.links : \E l \in L :
            l.kind = "intervention_linked" /\ l.about = w.id /\ l.cites = {t}
       /\ w.status # "open" =>
            \E r \in L : r.kind = "reflection_run" /\ r.about = w.id
  /\ \A k \in Recents : p.recent[k] \subseteq {t.id : t \in {u \in L : u.kind = k}}

\* update_mastery's docstring: a belief in the profile with no record of where
\* it came from is the one state event sourcing exists to make impossible.
BeliefLogged == Backed(profile, log)

\* What the actor's transaction does is followed through: mastery is updated
\* after the evidence, and nothing is logged that only a rebuild applies.
Settled(a) ==
  \A t \in tx[a].traces :
    /\ t.kind \notin Recents
    /\ t.kind \in MasteryKinds =>
         \E u \in tx[a].traces :
           u.kind = "mastery_update" /\ u.concept = t.concept /\ u.id > t.id

\* D-007, D-012: a transaction that overlaps no other leaves the cached
\* profile equal to the replay of the log, whatever calls it is made of.
SerialKeeps ==
  [][\A a \in Actors :
       Commit(a) /\ alone[a] /\ Settled(a) /\ profile = Project(log)
         => profile' = Project(log')]_vars

\* rebuild_from_traces: whatever the profile was, a rebuild that overlaps no
\* other transaction makes it what the log implies.
RebuildHeals ==
  [][\A a \in Actors :
       pc[a] = "rebuild" /\ WriteProfile(a) /\ alone[a]
         => VisibleProfile(a)' = Project(VisibleLog(a))]_vars

\* update_mastery's docstring: "Identical to a rebuild."  When nothing runs and
\* every piece of evidence was followed by an update in its own transaction,
\* the cached mastery is the replay.
UpdatesEqualRebuild ==
  (\A a \in Actors : pc[a] = "idle") =>
    \A c \in Concepts :
      (\A t \in log : t.kind \in MasteryKinds /\ t.concept = c =>
         \E u \in log : /\ u.kind = "mastery_update" /\ u.concept = c
                        /\ u.ts = t.ts /\ u.id > t.id)
      => profile.mastery[c] = Evidence(log, c)
=============================================================================
