---------------------------- MODULE MemoryProofs ----------------------------
(***************************************************************************)
(* Theorems about Memory, for any number of processes, concepts, gaps,     *)
(* traces and transactions, and any set of calls.                          *)
(*                                                                         *)
(* Two inductive invariants.  Sound: the profile a transaction sees, and   *)
(* what its rebuild has read, have their record in the log it sees.        *)
(* Serial: what a transaction that overlaps no other has read, and has     *)
(* written, is what its log implies, as far as it has followed its traces  *)
(* through; for that the traces have distinct ids, and those of the        *)
(* transaction are the last in the total order.                            *)
(***************************************************************************)
EXTENDS Memory, TLAPS

Rebuilding == {"rebuild", "rebuild mastery"}

\* A link names one trace.
OneCited(L) == \A l \in L : l.kind = "intervention_linked" => \E i \in l.cites : l.cites = {i}

\* Parts are left to read only in a rebuild, and nothing is kept from the last call.
Between(a) == /\ left[a] # {} => pc[a] \in Rebuilding
              /\ pc[a] \in {"idle", "open"} => read[a] = Empty

ActorSound(a) ==
  /\ Backed(VisibleProfile(a), VisibleLog(a))
  /\ Backed(read[a], VisibleLog(a))
  /\ OneCited(VisibleLog(a))
  /\ \A t \in tx[a].traces : t.id <= lastId
  /\ pc[a] = "append" => \A o \in tx[a].traces : o.id = at[a].id => o.kind = "weakness_opened"
Sound ==
  /\ TypeOK /\ BeliefLogged /\ OneCited(log)
  /\ \A a \in Actors : Between(a) /\ ActorSound(a)

\* The traces of all transactions have distinct ids, and those of one its time.
Everywhere == log \cup UNION {tx[a].traces : a \in Actors}
Ordered ==
  /\ \A t, u \in Everywhere : t.id = u.id => t = u
  /\ \A t \in Everywhere : t.id <= lastId /\ t.ts <= clock
  /\ \A a \in Actors : \A t \in tx[a].traces : t.ts = tx[a].ts

\* Nothing is open at rest, and a transaction is solo while the others rest.
Solo(a) == alone[a] /\ pc[a] # "idle"
Rested(a) ==
  /\ tx[a].ts <= clock /\ (tx[a].ts = 0 <=> pc[a] = "idle")
  /\ pc[a] = "idle" => tx[a] = NoTx
  /\ Solo(a) => (\A b \in Actors \ {a} : pc[b] = "idle") /\ \A t \in log : t.ts < tx[a].ts

\* What is read is what the log implies.
ReadSound(a) ==
  LET L == VisibleLog(a)
  IN  Solo(a) =>
        /\ pc[a] = "merge" => read[a].mastery[at[a].concept] = Evidence(L, at[a].concept)
        /\ pc[a] \in Rebuilding =>
             \A c \in Concepts \ left[a] : read[a].mastery[c] = Evidence(L, c)
        /\ pc[a] = "rebuild" =>
             /\ \A k \in Recents \ left[a] : read[a].recent[k] = Recent(L, k)
             /\ "weaknesses" \notin left[a] => read[a].weaknesses = Replayed(L)

\* What is written is what the log implies, for a concept whose evidence has been
\* followed by an update, and for the rest while nothing is logged that only a
\* rebuild carries over; the weakness just opened is still to be appended.
FollowedUp(a, c) ==
  \A t \in tx[a].traces : t.kind \in MasteryKinds /\ t.concept = c =>
    \E u \in tx[a].traces : u.kind = "mastery_update" /\ u.concept = c /\ u.id > t.id
Opened(o) == [id |-> o.id, concept |-> o.concept, evidence |-> o.cites,
              status |-> "open", links |-> {}]
ToAppend(a) ==
  {Opened(o) : o \in {t \in tx[a].traces : pc[a] = "append" /\ t.id = at[a].id}}
MasteryHeld(a) ==
  \A c \in Concepts :
    FollowedUp(a, c) => VisibleProfile(a).mastery[c] = Evidence(VisibleLog(a), c)
RestHeld(a) ==
  (\A t \in tx[a].traces : t.kind \notin Recents) =>
    /\ VisibleProfile(a).weaknesses \cup ToAppend(a) = Replayed(VisibleLog(a))
    /\ VisibleProfile(a).recent = [k \in Recents |-> Recent(VisibleLog(a), k)]
WrittenSound(a) ==
  Solo(a) /\ profile = Project(log) => MasteryHeld(a) /\ RestHeld(a)
Serial ==
  /\ Ordered
  /\ \A a \in Actors : Rested(a) /\ ReadSound(a) /\ WrittenSound(a)

-----------------------------------------------------------------------------
(* Lemmas.                                                                 *)

\* What has its record keeps it when the log grows.
LEMMA BackedStays ==
  ASSUME NEW p, NEW L, NEW M, L \subseteq M, Backed(p, L)
  PROVE  Backed(p, M)
<1>1. \A c \in Concepts : Evidence(L, c) \subseteq Evidence(M, c)
  BY DEF Evidence
<1>2. \A k \in Recents : {t.id : t \in {u \in L : u.kind = k}} \subseteq {t.id : t \in {u \in M : u.kind = k}}
  OBVIOUS
<1>3. QED
  BY <1>1, <1>2 DEF Backed

\* What the log implies is a profile, and has its record.
LEMMA ProjectTyped ==
  ASSUME NEW L \in SUBSET Trace
  PROVE  /\ \A c \in Concepts : Evidence(L, c) \in SUBSET Ids
         /\ Replayed(L) \in SUBSET Weakness
         /\ \A k \in Recents : Recent(L, k) \in SUBSET Ids
<1>1. \A t \in L : t \in Trace
  OBVIOUS
<1>2. \A c \in Concepts : Evidence(L, c) \in SUBSET Ids
  BY <1>1 DEF Evidence, Trace
<1>3. \A k \in Recents : Recent(L, k) \in SUBSET Ids
  BY <1>1 DEF Recent, Trace
<1>4. ASSUME NEW o \in L
      PROVE  [id |-> o.id, concept |-> o.concept, evidence |-> o.cites,
              status |-> Status(L, o), links |-> Links(L, o)] \in Weakness
  <2>1. Status(L, o) \in {"open", "closed", "escalated"}
    BY DEF Status
  <2>2. Links(L, o) \in SUBSET Ids
    BY <1>1 DEF Links, Trace
  <2>3. o.id \in Ids /\ o.concept \in Concepts /\ o.cites \in SUBSET Ids
    BY <1>1, <1>4 DEF Trace
  <2>4. QED
    BY <2>1, <2>2, <2>3 DEF Weakness
<1>5. Replayed(L) \in SUBSET Weakness
  BY <1>4 DEF Replayed
<1>6. QED
  BY <1>2, <1>3, <1>5

LEMMA ProjectBacked ==
  ASSUME NEW L \in SUBSET Trace, OneCited(L)
  PROVE  /\ \A c \in Concepts : Evidence(L, c) \subseteq Evidence(L, c)
         /\ \A w \in Replayed(L) :
              /\ \E o \in L : /\ o.kind = "weakness_opened" /\ o.id = w.id
                              /\ o.concept = w.concept /\ o.cites = w.evidence
              /\ \A t \in w.links : \E l \in L :
                   l.kind = "intervention_linked" /\ l.about = w.id /\ l.cites = {t}
              /\ w.status # "open" =>
                   \E r \in L : r.kind = "reflection_run" /\ r.about = w.id
         /\ \A k \in Recents : Recent(L, k) \subseteq {t.id : t \in {u \in L : u.kind = k}}
<1>1. ASSUME NEW w \in Replayed(L)
      PROVE  /\ \E o \in L : /\ o.kind = "weakness_opened" /\ o.id = w.id
                             /\ o.concept = w.concept /\ o.cites = w.evidence
             /\ \A t \in w.links : \E l \in L :
                  l.kind = "intervention_linked" /\ l.about = w.id /\ l.cites = {t}
             /\ w.status # "open" =>
                  \E r \in L : r.kind = "reflection_run" /\ r.about = w.id
  <2>1. PICK o \in L : /\ o.kind = "weakness_opened" /\ w.id = o.id /\ w.concept = o.concept
                       /\ w.evidence = o.cites /\ w.status = Status(L, o) /\ w.links = Links(L, o)
    BY DEF Replayed
  <2>2. ASSUME NEW t \in Links(L, o)
        PROVE  \E l \in L : l.kind = "intervention_linked" /\ l.about = o.id /\ l.cites = {t}
    <3>1. PICK l \in L : l.kind = "intervention_linked" /\ l.about = o.id /\ t \in l.cites
      BY <2>2 DEF Links
    <3>2. QED
      BY <3>1 DEF OneCited
  <2>3. Status(L, o) # "open" => \E r \in L : r.kind = "reflection_run" /\ r.about = o.id
    BY DEF Status, About
  <2>4. QED
    BY <2>1, <2>2, <2>3
<1>2. \A k \in Recents : Recent(L, k) \subseteq {t.id : t \in {u \in L : u.kind = k}}
  BY DEF Recent
<1>3. QED
  BY <1>1, <1>2

\* A new trace is a trace.
LEMMA NewTraceTyped ==
  ASSUME TypeOK, NEW a \in Actors, NEW kind \in Kinds, NEW c \in Concepts, NEW ok \in BOOLEAN,
         NEW about \in Nat, NEW cites \in SUBSET Ids
  PROVE  /\ NewTrace(a, kind, c, ok, about, cites) \in Trace
         /\ NewTrace(a, kind, c, ok, about, cites).id = lastId + 1
<1>1. lastId \in Nat /\ tx[a].ts \in Nat
  BY DEF TypeOK
<1>2. lastId + 1 \in Ids
  BY <1>1 DEF Ids
<1>3. QED
  BY <1>1, <1>2 DEF NewTrace, Trace

\* What a transaction sees is typed.
LEMMA VisibleTyped ==
  ASSUME TypeOK, NEW a \in Actors
  PROVE  VisibleLog(a) \in SUBSET Trace /\ VisibleProfile(a) \in Profile
BY DEF TypeOK, VisibleLog, VisibleProfile

\* A profile with one part replaced.
LEMMA PartReplaced ==
  ASSUME NEW p \in Profile
  PROVE  /\ \A c \in Concepts, S \in SUBSET Ids : [p EXCEPT !.mastery[c] = S] \in Profile
         /\ \A W \in SUBSET Weakness : [p EXCEPT !.weaknesses = W] \in Profile
         /\ \A k \in Recents, S \in SUBSET Ids : [p EXCEPT !.recent[k] = S] \in Profile
BY DEF Profile

-----------------------------------------------------------------------------
(* Types.                                                                  *)

Steps == {"idle", "open", "merge", "recur", "append", "rebuild", "rebuild mastery"}

\* What the TypeOK of a step comes down to, for the actor that makes it.
LEMMA StepTypes ==
  ASSUME TypeOK, NEW a \in Actors,
         NEW ts \in Nat, NEW T \in SUBSET Trace, NEW k \in BOOLEAN, NEW p \in Profile,
         tx' = [tx EXCEPT ![a] = [ts |-> ts, traces |-> T, locked |-> k, profile |-> p]],
         k => tx[a].locked \/ ProfileFree(a),
         log' \in SUBSET Trace, profile' \in Profile, lastId' \in Nat, clock' \in Nat,
         pc' \in [Actors -> Steps], at' \in [Actors -> [concept : Concepts, id : Nat]],
         left' \in [Actors -> SUBSET (Concepts \cup Others)], read' \in [Actors -> Profile],
         alone' \in [Actors -> BOOLEAN]
  PROVE  TypeOK'
<1>1. tx' \in [Actors -> [ts : Nat, traces : SUBSET Trace, locked : BOOLEAN, profile : Profile]]
  BY DEF TypeOK
<1>2. \A b \in Actors : tx'[b].locked => b = a \/ tx[b].locked
  BY DEF TypeOK
<1>3. \A b, d \in Actors : tx'[b].locked /\ tx'[d].locked => b = d
  <2>1. \A b \in Actors : tx'[a].locked /\ tx'[b].locked => a = b
    BY <1>2 DEF TypeOK, ProfileFree
  <2>2. QED
    BY <1>2, <2>1 DEF TypeOK
<1>4. QED
  BY <1>1, <1>3 DEF TypeOK, Steps

\* The record of a transaction, by its fields.
TxOf(ts, T, k, p) == [ts |-> ts, traces |-> T, locked |-> k, profile |-> p]

\* What an insert and a write make of the transaction.
LEMMA Shapes ==
  ASSUME TypeOK, NEW a \in Actors
  PROVE  /\ \A t : Insert(a, t) =
              [tx EXCEPT ![a] = TxOf(tx[a].ts, tx[a].traces \cup {t}, tx[a].locked, tx[a].profile)]
         /\ \A n \in Nat : [NoTx EXCEPT !.ts = n] = TxOf(n, {}, FALSE, Empty)
         /\ NoTx = TxOf(0, {}, FALSE, Empty)
<1>1. tx[a] \in [ts : Nat, traces : SUBSET Trace, locked : BOOLEAN, profile : Profile]
  BY DEF TypeOK
<1>2. ASSUME NEW t
      PROVE  Insert(a, t) =
               [tx EXCEPT ![a] = TxOf(tx[a].ts, tx[a].traces \cup {t}, tx[a].locked, tx[a].profile)]
  <2> DEFINE T == tx[a].traces \cup {t}
             r == tx[a]
  <2>1. Insert(a, t) = [tx EXCEPT ![a] = [r EXCEPT !.traces = T]]
    BY DEF Insert
  <2>2. r \in [ts : Nat, traces : SUBSET Trace, locked : BOOLEAN, profile : Profile]
    BY <1>1
  <2> HIDE DEF T, r
  <2>3. [r EXCEPT !.traces = T] = TxOf(r.ts, T, r.locked, r.profile)
    BY <2>2 DEF TxOf
  <2>4. QED
    BY <2>1, <2>3 DEF T, r
<1>3. \A n \in Nat : [NoTx EXCEPT !.ts = n] = TxOf(n, {}, FALSE, Empty)
  <2>1. /\ NoTx \in [ts : Nat, traces : SUBSET Trace, locked : BOOLEAN, profile : {Empty}]
        /\ NoTx.locked = FALSE /\ NoTx.traces = {} /\ NoTx.profile = Empty
    BY DEF NoTx
  <2>2. ASSUME NEW n \in Nat
        PROVE  [NoTx EXCEPT !.ts = n] = TxOf(n, {}, FALSE, Empty)
    <3>1. [NoTx EXCEPT !.ts = n] = TxOf(n, NoTx.traces, NoTx.locked, NoTx.profile)
      BY <2>1 DEF TxOf
    <3>2. QED
      BY <2>1, <3>1, Zenon
  <2>3. QED
    BY <2>2
<1>4. NoTx = TxOf(0, {}, FALSE, Empty)
  BY DEF NoTx, TxOf
<1>5. QED
  BY <1>2, <1>3, <1>4

LEMMA WriteShape ==
  ASSUME TypeOK, NEW a \in Actors, NEW p \in Profile, NEW S
  PROVE  Write(a, p, S) = [tx EXCEPT ![a] = TxOf(tx[a].ts, tx[a].traces \cup S, TRUE, p)]
<1> DEFINE T == tx[a].traces \cup S
           r == tx[a]
<1>1. Write(a, p, S) = [tx EXCEPT ![a] = [[[r EXCEPT !.locked = TRUE] EXCEPT !.profile = p]
                                            EXCEPT !.traces = T]]
  BY DEF Write
<1>2. r \in [ts : Nat, traces : SUBSET Trace, locked : BOOLEAN, profile : Profile]
  BY DEF TypeOK
<1> HIDE DEF T, r
<1> DEFINE q == [r EXCEPT !.locked = TRUE]
           u == [q EXCEPT !.profile = p]
<1>3. /\ q \in [ts : Nat, traces : SUBSET Trace, locked : BOOLEAN, profile : Profile]
      /\ q.ts = r.ts /\ q.locked = TRUE
  BY <1>2
<1> HIDE DEF q
<1>4. /\ u \in [ts : Nat, traces : SUBSET Trace, locked : BOOLEAN, profile : Profile]
      /\ u.ts = q.ts /\ u.locked = q.locked /\ u.profile = p
  BY <1>3
<1> HIDE DEF u
<1>5. [u EXCEPT !.traces = T] = TxOf(u.ts, T, u.locked, u.profile)
  BY <1>4 DEF TxOf
<1>6. [[[r EXCEPT !.locked = TRUE] EXCEPT !.profile = p] EXCEPT !.traces = T] = TxOf(r.ts, T, TRUE, p)
  BY <1>3, <1>4, <1>5 DEF q, u
<1>7. QED
  BY <1>1, <1>6 DEF T, r

\* A step that inserts one trace.
Inserts(a, t) ==
  /\ tx' = [tx EXCEPT ![a] = TxOf(tx[a].ts, tx[a].traces \cup {t}, tx[a].locked, tx[a].profile)]
  /\ t \in Trace /\ t.id = lastId + 1 /\ t.ts = tx[a].ts /\ lastId' = lastId + 1
  /\ UNCHANGED <<log, profile, clock, alone>>

\* A step that writes the profile row, with the traces S of the call.
Writes(a, p, S) ==
  /\ tx' = [tx EXCEPT ![a] = TxOf(tx[a].ts, tx[a].traces \cup S, TRUE, p)]
  /\ ProfileFree(a) /\ p \in Profile
  /\ S \in SUBSET Trace
  /\ \A t \in S : t.id = lastId + 1 /\ t.ts = tx[a].ts
  /\ lastId' = (IF S = {} THEN lastId ELSE lastId + 1)
  /\ UNCHANGED <<log, profile, clock, alone>>

\* Both keep the types.
LEMMA RowTypes ==
  ASSUME TypeOK, NEW a \in Actors, 
         (\E t : Inserts(a, t)) \/ (\E p, S : Writes(a, p, S)),
         pc' \in [Actors -> Steps], at' \in [Actors -> [concept : Concepts, id : Nat]],
         left' \in [Actors -> SUBSET (Concepts \cup Others)], read' \in [Actors -> Profile]
  PROVE  TypeOK'
<1> USE DEF TxOf
<1>1. /\ tx[a].ts \in Nat /\ tx[a].traces \in SUBSET Trace /\ tx[a].locked \in BOOLEAN
      /\ tx[a].profile \in Profile
  BY DEF TypeOK
<1>2. /\ log \in SUBSET Trace /\ profile \in Profile /\ lastId \in Nat /\ clock \in Nat
      /\ alone \in [Actors -> BOOLEAN]
  BY DEF TypeOK
<1>3. ASSUME NEW t, Inserts(a, t)
      PROVE  TypeOK'
  <2>1. tx[a].traces \cup {t} \in SUBSET Trace /\ lastId' \in Nat
    BY <1>1, <1>2, <1>3 DEF Inserts
  <2>2. UNCHANGED <<log, profile, clock, alone>>
        /\ tx' = [tx EXCEPT ![a] = [ts |-> tx[a].ts, traces |-> tx[a].traces \cup {t},
                                    locked |-> tx[a].locked, profile |-> tx[a].profile]]
    BY <1>3 DEF Inserts
  <2>3. QED
    BY <1>1, <1>2, <2>1, <2>2, StepTypes
<1>4. ASSUME NEW p, NEW S, Writes(a, p, S)
      PROVE  TypeOK'
  <2>1. tx[a].traces \cup S \in SUBSET Trace /\ lastId' \in Nat
    BY <1>1, <1>2, <1>4 DEF Writes
  <2>2. UNCHANGED <<log, profile, clock, alone>> /\ ProfileFree(a) /\ p \in Profile
        /\ tx' = [tx EXCEPT ![a] = [ts |-> tx[a].ts, traces |-> tx[a].traces \cup S,
                                    locked |-> TRUE, profile |-> p]]
    BY <1>4 DEF Writes
  <2>3. QED
    BY <1>1, <1>2, <2>1, <2>2, StepTypes
<1>5. QED
  BY <1>3, <1>4

-----------------------------------------------------------------------------
(* What each call does to the rows.                                        *)

\* The traces LogTrace, Observe and OpenWeakness insert.
LEMMA LogTraceRows ==
  ASSUME TypeOK, NEW a \in Actors, LogTrace(a)
  PROVE  \E t : /\ Inserts(a, t) /\ t.kind \in {"ci_run", "session_summary", "reflection_run"}
                /\ UNCHANGED <<pc, at, left, read>>
<1>1. PICK c \in Concepts, ok \in BOOLEAN :
        \/ tx' = Insert(a, NewTrace(a, "ci_run", c, ok, NoId, {}))
        \/ ok /\ tx' = Insert(a, NewTrace(a, "session_summary", c, ok, NoId, {}))
        \/ \E w \in VisibleProfile(a).weaknesses :
             /\ w.concept = c
             /\ tx' = Insert(a, NewTrace(a, "reflection_run", c, ok, w.id, {}))
  BY DEF LogTrace
<1>2. PICK kind \in {"ci_run", "session_summary", "reflection_run"}, about \in Nat :
        tx' = Insert(a, NewTrace(a, kind, c, ok, about, {}))
  <2>1. \A w \in VisibleProfile(a).weaknesses : w.id \in Nat
    BY VisibleTyped DEF Profile, Weakness, Ids
  <2>2. NoId \in Nat
    BY DEF NoId
  <2>3. QED
    BY <1>1, <2>1, <2>2
<1> DEFINE t == NewTrace(a, kind, c, ok, about, {})
<1>3. t \in Trace /\ t.id = lastId + 1
  BY NewTraceTyped DEF Kinds, MasteryKinds, Recents
<1>4. t.ts = tx[a].ts /\ t.kind = kind
  BY DEF NewTrace
<1>5. tx' = Insert(a, t)
  BY <1>2
<1> HIDE DEF t
<1>6. tx' = [tx EXCEPT ![a] = TxOf(tx[a].ts, tx[a].traces \cup {t}, tx[a].locked, tx[a].profile)]
  BY <1>5, Shapes
<1>7. Inserts(a, t)
  BY <1>3, <1>4, <1>6 DEF Inserts, LogTrace, committed
<1>8. QED
  BY <1>4, <1>7 DEF LogTrace, locals

LEMMA ObserveRows ==
  ASSUME TypeOK, NEW a \in Actors, Observe(a)
  PROVE  \E t : /\ Inserts(a, t) /\ t.kind = "mastery_observation"
                /\ UNCHANGED <<pc, at, left, read>>
<1>1. PICK g \in Gaps, ok \in BOOLEAN :
        tx' = Insert(a, NewTrace(a, "mastery_observation", ConceptOf[g], ok, g, {}))
  BY DEF Observe
<1> DEFINE t == NewTrace(a, "mastery_observation", ConceptOf[g], ok, g, {})
<1>2. ConceptOf[g] \in Concepts /\ g \in Nat
  BY ConceptAssumption DEF Ids
<1>3. t \in Trace /\ t.id = lastId + 1
  BY <1>2, NewTraceTyped DEF Kinds, MasteryKinds
<1>4. t.ts = tx[a].ts /\ t.kind = "mastery_observation"
  BY DEF NewTrace
<1>5. tx' = Insert(a, t)
  BY <1>1
<1> HIDE DEF t
<1>6. tx' = [tx EXCEPT ![a] = TxOf(tx[a].ts, tx[a].traces \cup {t}, tx[a].locked, tx[a].profile)]
  BY <1>5, Shapes
<1>7. Inserts(a, t)
  BY <1>3, <1>4, <1>6 DEF Inserts, Observe, committed
<1>8. QED
  BY <1>4, <1>7 DEF Observe, locals

LEMMA OpenRows ==
  ASSUME TypeOK, NEW a \in Actors, OpenWeakness(a)
  PROVE  \E t : /\ Inserts(a, t) /\ t.kind = "weakness_opened" /\ pc[a] # "append"
                /\ at' = [at EXCEPT ![a] = [concept |-> t.concept, id |-> lastId + 1]]
                /\ pc' = [pc EXCEPT ![a] = "append"] /\ UNCHANGED <<left, read>>
<1>1. PICK c \in Concepts :
        /\ tx' = Insert(a, NewTrace(a, "weakness_opened", c, TRUE, NoId, Failures(a, c)))
        /\ at' = [at EXCEPT ![a] = [concept |-> c, id |-> lastId + 1]]
        /\ pc[a] \in {"open", "recur"}
  BY DEF OpenWeakness, Call
<1> DEFINE t == NewTrace(a, "weakness_opened", c, TRUE, NoId, Failures(a, c))
<1>2. Failures(a, c) \in SUBSET Ids /\ NoId \in Nat
  BY VisibleTyped DEF Failures, Trace, NoId
<1>3. t \in Trace /\ t.id = lastId + 1
  BY <1>2, NewTraceTyped DEF Kinds
<1>4. t.ts = tx[a].ts /\ t.kind = "weakness_opened" /\ t.concept = c
  BY DEF NewTrace
<1>5. tx' = Insert(a, t)
  BY <1>1
<1> HIDE DEF t
<1>6. tx' = [tx EXCEPT ![a] = TxOf(tx[a].ts, tx[a].traces \cup {t}, tx[a].locked, tx[a].profile)]
  BY <1>5, Shapes
<1>7. Inserts(a, t)
  BY <1>3, <1>4, <1>6 DEF Inserts, OpenWeakness, committed
<1>8. QED
  BY <1>1, <1>4, <1>7 DEF OpenWeakness

\* A call that returns forgets its locals.
LEMMA Returned ==
  ASSUME TypeOK, NEW a \in Actors, Return(a)
  PROVE  /\ pc' \in [Actors -> Steps] /\ at' \in [Actors -> [concept : Concepts, id : Nat]]
         /\ left' \in [Actors -> SUBSET (Concepts \cup Others)] /\ read' \in [Actors -> Profile]
         /\ pc' = [pc EXCEPT ![a] = "open"] /\ read' = [read EXCEPT ![a] = Empty]
         /\ pc'[a] = "open" /\ read'[a] = Empty
<1>1. Nowhere \in [concept : Concepts, id : Nat]
  <2>1. (CHOOSE c \in Concepts : TRUE) \in Concepts
    BY ConceptAssumption
  <2>2. QED
    BY <2>1 DEF Nowhere, NoId
<1>2. Empty \in Profile
  BY DEF Empty, Profile
<1>3. QED
  BY <1>1, <1>2 DEF TypeOK, Return, Forget, Steps

\* What Merge, Append, Link and WriteProfile write.
LEMMA MergeRows ==
  ASSUME TypeOK, NEW a \in Actors, Merge(a)
  PROVE  \E t, p : /\ Writes(a, p, {t}) /\ t.kind = "mastery_update" /\ t.concept = at[a].concept
                   /\ p.mastery = [VisibleProfile(a).mastery EXCEPT
                                     ![at[a].concept] = read[a].mastery[at[a].concept]]
                   /\ p.weaknesses = VisibleProfile(a).weaknesses
                   /\ p.recent = VisibleProfile(a).recent
                   /\ pc[a] = "merge" /\ at[a].concept \in Concepts /\ Return(a)
<1> DEFINE c == at[a].concept
           V == VisibleProfile(a)
           S == read[a].mastery[c]
           M == [V.mastery EXCEPT ![c] = S]
           p == [V EXCEPT !.mastery = M]
           t == NewTrace(a, "mastery_update", c, TRUE, NoId, {})
<1>1. c \in Concepts /\ S \in SUBSET Ids /\ V \in Profile
  <2>1. at[a] \in [concept : Concepts, id : Nat] /\ read[a] \in Profile
    BY DEF TypeOK
  <2>2. QED
    BY <2>1, VisibleTyped DEF Profile
<1>2. t \in Trace /\ t.id = lastId + 1
  BY <1>1, NewTraceTyped DEF Kinds, NoId
<1>3. t.ts = tx[a].ts /\ t.kind = "mastery_update" /\ t.concept = c
  BY DEF NewTrace
<1>4. tx' = Write(a, p, {t}) /\ ProfileFree(a) /\ lastId' = lastId + 1 /\ pc[a] = "merge" /\ Return(a)
      /\ UNCHANGED <<log, profile, clock, alone>>
  BY DEF Merge, committed
<1>5. M \in [Concepts -> SUBSET Ids]
  BY <1>1 DEF Profile
<1> HIDE DEF c, V, S, M, t
<1>6. p \in Profile /\ p.mastery = M /\ p.weaknesses = V.weaknesses /\ p.recent = V.recent
  BY <1>1, <1>5 DEF Profile
<1> HIDE DEF p
<1>7. tx' = [tx EXCEPT ![a] = TxOf(tx[a].ts, tx[a].traces \cup {t}, TRUE, p)]
  BY <1>4, <1>6, WriteShape, Zenon
<1>8. Writes(a, p, {t})
  BY <1>2, <1>3, <1>4, <1>6, <1>7 DEF Writes
<1>9. QED
  BY <1>1, <1>3, <1>4, <1>6, <1>8 DEF c, V, S, M

LEMMA AppendRows ==
  ASSUME TypeOK, NEW a \in Actors, Append(a)
  PROVE  \E o, p :
           /\ o \in tx[a].traces
           /\ Writes(a, p, {}) /\ o.id = at[a].id /\ pc[a] = "append"
           /\ p.mastery = VisibleProfile(a).mastery
           /\ p.weaknesses = VisibleProfile(a).weaknesses \cup {Opened(o)}
           /\ p.recent = VisibleProfile(a).recent
           /\ Return(a)
<1>1. PICK o \in tx[a].traces :
        /\ o.id = at[a].id
        /\ tx' = Write(a, [VisibleProfile(a) EXCEPT !.weaknesses = @ \cup {Opened(o)}], {})
  BY DEF Append, Opened
<1> DEFINE V == VisibleProfile(a)
           W == V.weaknesses \cup {Opened(o)}
           p == [V EXCEPT !.weaknesses = W]
<1>2. V \in Profile /\ Opened(o) \in Weakness
  <2>1. o \in Trace
    BY DEF TypeOK
  <2>2. QED
    BY <2>1, VisibleTyped DEF Opened, Weakness, Trace
<1>3. W \in SUBSET Weakness
  BY <1>2 DEF Profile
<1>4. tx' = Write(a, p, {}) /\ ProfileFree(a) /\ pc[a] = "append" /\ Return(a)
      /\ UNCHANGED <<log, profile, clock, lastId, alone>>
  BY <1>1 DEF Append, committed
<1> HIDE DEF V, W
<1>5. p \in Profile /\ p.mastery = V.mastery /\ p.weaknesses = W /\ p.recent = V.recent
  BY <1>2, <1>3, PartReplaced DEF Profile
<1> HIDE DEF p
<1>6. tx' = [tx EXCEPT ![a] = TxOf(tx[a].ts, tx[a].traces \cup {}, TRUE, p)]
  BY <1>4, <1>5, WriteShape, Zenon
<1>7. Writes(a, p, {})
  BY <1>4, <1>5, <1>6 DEF Writes
<1>8. QED
  BY <1>1, <1>4, <1>5, <1>7 DEF V, W

LEMMA LinkRows ==
  ASSUME TypeOK, NEW a \in Actors, Link(a)
  PROVE  \E w, u, t, p :
           /\ w \in VisibleProfile(a).weaknesses /\ u \in VisibleLog(a)
           /\ Writes(a, p, {t}) /\ t.kind = "intervention_linked" /\ t.about = w.id
           /\ t.cites = {u.id} /\ u.id \in Ids
           /\ p.mastery = VisibleProfile(a).mastery
           /\ p.weaknesses = Linked(VisibleProfile(a).weaknesses, w.id, u.id)
           /\ p.recent = VisibleProfile(a).recent
           /\ pc[a] = "open" /\ UNCHANGED <<pc, at, left, read>>
<1>1. PICK w \in VisibleProfile(a).weaknesses, u \in VisibleLog(a) :
        tx' = Write(a, [VisibleProfile(a) EXCEPT !.weaknesses = Linked(@, w.id, u.id)],
                    {NewTrace(a, "intervention_linked", w.concept, TRUE, w.id, {u.id})})
  BY DEF Link
<1> DEFINE V == VisibleProfile(a)
           W == Linked(V.weaknesses, w.id, u.id)
           p == [V EXCEPT !.weaknesses = W]
           t == NewTrace(a, "intervention_linked", w.concept, TRUE, w.id, {u.id})
<1>2. V \in Profile /\ V.weaknesses \in SUBSET Weakness /\ w \in Weakness /\ u.id \in Ids
  BY VisibleTyped DEF Profile, Trace
<1>3. W \in SUBSET Weakness
  <2>1. ASSUME NEW v \in Weakness
        PROVE  [v EXCEPT !.links = v.links \cup {u.id}] \in Weakness
    BY <1>2 DEF Weakness
  <2>2. QED
    BY <1>2, <2>1 DEF Linked
<1>4. t \in Trace /\ t.id = lastId + 1
  <2>1. w.concept \in Concepts /\ w.id \in Nat
    BY <1>2 DEF Weakness, Ids
  <2>2. QED
    BY <1>2, <2>1, NewTraceTyped DEF Kinds
<1>5. t.ts = tx[a].ts /\ t.kind = "intervention_linked" /\ t.about = w.id /\ t.cites = {u.id}
  BY DEF NewTrace
<1>6. tx' = Write(a, p, {t}) /\ ProfileFree(a) /\ lastId' = lastId + 1 /\ pc[a] = "open"
      /\ UNCHANGED <<log, profile, clock, alone, pc, at, left, read>>
  BY <1>1 DEF Link, Call, committed, locals
<1> HIDE DEF V, W, t
<1>7. p \in Profile /\ p.mastery = V.mastery /\ p.weaknesses = W /\ p.recent = V.recent
  BY <1>2, <1>3, PartReplaced DEF Profile
<1> HIDE DEF p
<1>8. tx' = [tx EXCEPT ![a] = TxOf(tx[a].ts, tx[a].traces \cup {t}, TRUE, p)]
  BY <1>6, <1>7, WriteShape, Zenon
<1>9. Writes(a, p, {t})
  BY <1>4, <1>5, <1>6, <1>7, <1>8 DEF Writes
<1>10. QED
  BY <1>1, <1>2, <1>5, <1>6, <1>7, <1>9 DEF V, W

LEMMA WholeRows ==
  ASSUME TypeOK, NEW a \in Actors, WriteProfile(a)
  PROVE  \E p : /\ Writes(a, p, {}) /\ left[a] = {} /\ Return(a)
                /\ \/ pc[a] = "rebuild" /\ p = read[a]
                   \/ /\ pc[a] = "rebuild mastery"
                      /\ p.mastery = [c \in Concepts |-> IF read[a].mastery[c] # {} THEN read[a].mastery[c]
                                                         ELSE VisibleProfile(a).mastery[c]]
                      /\ p.weaknesses = VisibleProfile(a).weaknesses
                      /\ p.recent = VisibleProfile(a).recent
<1> DEFINE V == VisibleProfile(a)
           M == [c \in Concepts |-> IF read[a].mastery[c] # {} THEN read[a].mastery[c] ELSE V.mastery[c]]
           q == [V EXCEPT !.mastery = M]
<1>1. V \in Profile /\ read[a] \in Profile
  BY VisibleTyped DEF TypeOK
<1>2. M \in [Concepts -> SUBSET Ids]
  BY <1>1 DEF Profile
<1>3. PICK p : /\ tx' = Write(a, p, {})
                /\ \/ pc[a] = "rebuild" /\ p = read[a]
                   \/ pc[a] = "rebuild mastery" /\ p = q
  <2>1. Merged(a) = q
    BY DEF Merged
  <2>2. Whole(a) = read[a]
    BY DEF Whole
  <2>3. \/ pc[a] = "rebuild" /\ tx' = Write(a, Whole(a), {})
        \/ pc[a] = "rebuild mastery" /\ tx' = Write(a, Merged(a), {})
    BY DEF WriteProfile
  <2> HIDE DEF q
  <2>4. QED
    BY <2>1, <2>2, <2>3, Zenon
<1>4. ProfileFree(a) /\ left[a] = {} /\ Return(a) /\ UNCHANGED <<log, profile, clock, lastId, alone>>
  BY DEF WriteProfile, committed
<1> HIDE DEF V, M
<1>5. q \in Profile /\ q.mastery = M /\ q.weaknesses = V.weaknesses /\ q.recent = V.recent
  BY <1>1, <1>2 DEF Profile
<1> HIDE DEF q
<1>6. p \in Profile
  BY <1>1, <1>3, <1>5
<1>7. tx' = [tx EXCEPT ![a] = TxOf(tx[a].ts, tx[a].traces \cup {}, TRUE, p)]
  BY <1>3, <1>6, WriteShape, Zenon
<1>8. Writes(a, p, {})
  BY <1>4, <1>6, <1>7 DEF Writes
<1>9. QED
  BY <1>3, <1>4, <1>5, <1>8 DEF V, M

-----------------------------------------------------------------------------
(* Type correctness.                                                       *)

\* A step that leaves the rows and the transactions alone keeps the types.
LEMMA LocalTypes ==
  ASSUME TypeOK, NEW a \in Actors, UNCHANGED <<committed, lastId, clock, tx, alone>>,
         pc' \in [Actors -> Steps], at' \in [Actors -> [concept : Concepts, id : Nat]],
         left' \in [Actors -> SUBSET (Concepts \cup Others)], read' \in [Actors -> Profile]
  PROVE  TypeOK'
BY DEF TypeOK, Steps, committed

LEMMA Locals ==
  ASSUME TypeOK, NEW a \in Actors
  PROVE  /\ pc \in [Actors -> Steps] /\ at \in [Actors -> [concept : Concepts, id : Nat]]
         /\ left \in [Actors -> SUBSET (Concepts \cup Others)] /\ read \in [Actors -> Profile]
BY DEF TypeOK, Steps

\* What a replay and a SELECT of a rebuild read.
LEMMA ReplayReads ==
  ASSUME TypeOK, NEW a \in Actors, Replay(a)
  PROVE  \E c \in Concepts :
           /\ read' = [read EXCEPT ![a] = [read[a] EXCEPT !.mastery =
                         [read[a].mastery EXCEPT ![c] = Evidence(VisibleLog(a), c)]]]
           /\ at' = [at EXCEPT ![a] = [at[a] EXCEPT !.concept = c]]
           /\ pc[a] = "open" /\ pc' = [pc EXCEPT ![a] = "merge"]
           /\ read' \in [Actors -> Profile] /\ at' \in [Actors -> [concept : Concepts, id : Nat]]
<1>1. PICK c \in Concepts :
        /\ read' = [read EXCEPT ![a].mastery[c] = Evidence(VisibleLog(a), c)]
        /\ at' = [at EXCEPT ![a].concept = c]
  BY DEF Replay
<1> DEFINE E == Evidence(VisibleLog(a), c)
           M == [read[a].mastery EXCEPT ![c] = E]
<1>2. E \in SUBSET Ids
  BY VisibleTyped, ProjectTyped
<1>3. /\ read' = [read EXCEPT ![a] = [read[a] EXCEPT !.mastery = M]]
      /\ at' = [at EXCEPT ![a] = [at[a] EXCEPT !.concept = c]]
  BY <1>1
<1> HIDE DEF E
<1>4. M \in [Concepts -> SUBSET Ids]
  BY <1>2, Locals DEF Profile
<1> HIDE DEF M
<1>5. [read[a] EXCEPT !.mastery = M] \in Profile /\ [at[a] EXCEPT !.concept = c] \in [concept : Concepts, id : Nat]
  BY <1>4, Locals DEF Profile
<1>6. read' \in [Actors -> Profile] /\ at' \in [Actors -> [concept : Concepts, id : Nat]]
  BY <1>3, <1>5, Locals
<1>7. QED
  BY <1>3, <1>6 DEF Replay, Call, M, E

LEMMA PartReads ==
  ASSUME TypeOK, NEW a \in Actors, ReadPart(a)
  PROVE  \E p \in left[a], r \in Profile :
           /\ left' = [left EXCEPT ![a] = left[a] \ {p}]
           /\ read' = [read EXCEPT ![a] = r]
           /\ \/ /\ p \in Concepts
                 /\ r.mastery = [read[a].mastery EXCEPT ![p] = Evidence(VisibleLog(a), p)]
                 /\ r.weaknesses = read[a].weaknesses /\ r.recent = read[a].recent
              \/ /\ p \in Recents
                 /\ r.mastery = read[a].mastery /\ r.weaknesses = read[a].weaknesses
                 /\ r.recent = [read[a].recent EXCEPT ![p] = Recent(VisibleLog(a), p)]
              \/ /\ p = "weaknesses"
                 /\ r.mastery = read[a].mastery /\ r.weaknesses = Replayed(VisibleLog(a))
                 /\ r.recent = read[a].recent
<1> DEFINE L == VisibleLog(a)
           now == Project(L)
           p == CHOOSE q \in left[a] : TRUE
           V == read[a]
           rc == [V EXCEPT !.mastery[p] = now.mastery[p]]
           rr == [V EXCEPT !.recent[p] = now.recent[p]]
           rw == [V EXCEPT !.weaknesses = now.weaknesses]
           r == CASE p \in Concepts -> rc [] p \in Recents -> rr [] p = "weaknesses" -> rw
<1>1. left' = [left EXCEPT ![a] = left[a] \ {p}] /\ read' = [read EXCEPT ![a] = r]
  BY DEF ReadPart
<1>2. p \in left[a] /\ p \in Concepts \cup Others
  <2>1. left[a] # {}
    BY DEF ReadPart
  <2>2. p \in left[a]
    BY <2>1
  <2>3. QED
    BY <2>2, Locals
<1>3. /\ now.mastery = [c \in Concepts |-> Evidence(L, c)] /\ now.weaknesses = Replayed(L)
      /\ now.recent = [k \in Recents |-> Recent(L, k)]
  BY DEF Project
<1>4. /\ \A c \in Concepts : Evidence(L, c) \in SUBSET Ids
      /\ Replayed(L) \in SUBSET Weakness
      /\ \A k \in Recents : Recent(L, k) \in SUBSET Ids
  BY VisibleTyped, ProjectTyped
<1>5. V \in Profile
  BY Locals
<1> HIDE DEF L, now, p, V, rc, rr, rw
<1>6. CASE p \in Concepts
  <2>1. p \notin Recents /\ p # "weaknesses"
    BY <1>6, ConceptAssumption
  <2>2. r = rc
    BY <1>6, <2>1
  <2>3. r = [V EXCEPT !.mastery[p] = now.mastery[p]]
    BY <2>2 DEF rc
  <2> DEFINE S == Evidence(L, p)
  <2>4. S \in SUBSET Ids /\ now.mastery[p] = S
    BY <1>3, <1>4, <1>6
  <2> HIDE DEF r, S
  <2>5. r = [V EXCEPT !.mastery[p] = S]
    BY <2>3, <2>4, Zenon
  <2>6. /\ r \in Profile /\ r.weaknesses = V.weaknesses /\ r.recent = V.recent
        /\ r.mastery = [V.mastery EXCEPT ![p] = S]
    BY <2>4, <2>5, <1>5, <1>6 DEF Profile
  <2>7. QED
    BY <1>1, <1>2, <1>6, <2>6 DEF V, S, L
<1>7. CASE p \in Recents
  <2>1. p \notin Concepts /\ p # "weaknesses"
    BY <1>7, ConceptAssumption DEF Recents
  <2>2. r = rr
    BY <1>7, <2>1
  <2>3. r = [V EXCEPT !.recent[p] = now.recent[p]]
    BY <2>2 DEF rr
  <2> DEFINE S == Recent(L, p)
  <2>4. S \in SUBSET Ids /\ now.recent[p] = S
    BY <1>3, <1>4, <1>7
  <2> HIDE DEF r, S
  <2>5. r = [V EXCEPT !.recent[p] = S]
    BY <2>3, <2>4, Zenon
  <2>6. /\ r \in Profile /\ r.weaknesses = V.weaknesses /\ r.mastery = V.mastery
        /\ r.recent = [V.recent EXCEPT ![p] = S]
    BY <2>4, <2>5, <1>5, <1>7 DEF Profile
  <2>7. QED
    BY <1>1, <1>2, <1>7, <2>6 DEF V, S, L
<1>8. CASE p = "weaknesses"
  <2>1. p \notin Concepts /\ p \notin Recents
    BY <1>8, ConceptAssumption DEF Recents
  <2>2. r = rw
    BY <1>8, <2>1
  <2>3. r = [V EXCEPT !.weaknesses = now.weaknesses]
    BY <2>2 DEF rw
  <2> HIDE DEF r
  <2>4. /\ r \in Profile /\ r.recent = V.recent /\ r.mastery = V.mastery
        /\ r.weaknesses = Replayed(L)
    BY <1>3, <1>4, <2>3, <1>5 DEF Profile
  <2>5. QED
    BY <1>1, <1>2, <1>8, <2>4 DEF V, L
<1>9. QED
  BY <1>2, <1>6, <1>7, <1>8 DEF Others

LEMMA TypesKept == TypeOK /\ [Next]_vars => TypeOK'
<1> SUFFICES ASSUME TypeOK, [Next]_vars PROVE TypeOK'
  OBVIOUS
<1>1. CASE UNCHANGED vars
  BY <1>1 DEF TypeOK, vars
<1>2. ASSUME NEW a \in Actors, Step(a)
      PROVE  TypeOK'
  <2>1. CASE Begin(a)
    <3>1. /\ log \in SUBSET Trace /\ profile \in Profile /\ lastId \in Nat /\ clock \in Nat
      BY DEF TypeOK
    <3>2. clock + 1 \in Nat /\ Empty \in Profile /\ {} \in SUBSET Trace
      BY <3>1 DEF Empty, Profile
    <3>3. tx' = [tx EXCEPT ![a] = TxOf(clock + 1, {}, FALSE, Empty)]
      BY <2>1, <3>2, Shapes DEF Begin
    <3>4. alone' \in [Actors -> BOOLEAN] /\ pc' \in [Actors -> Steps]
      BY <2>1, Locals DEF Begin, Steps
    <3>5. UNCHANGED <<log, profile, lastId, at, left, read>> /\ clock' = clock + 1
      BY <2>1 DEF Begin, committed, locals
    <3>6. tx' = [tx EXCEPT ![a] = [ts |-> clock + 1, traces |-> {}, locked |-> FALSE, profile |-> Empty]]
      BY <3>3 DEF TxOf
    <3>7. QED
      BY <3>1, <3>2, <3>4, <3>5, <3>6, Locals, StepTypes
  <2>2. CASE LogTrace(a)
    BY <2>2, LogTraceRows, RowTypes, Locals
  <2>3. CASE Observe(a)
    BY <2>3, ObserveRows, RowTypes, Locals
  <2>4. CASE Replay(a)
    <3>1. pc' \in [Actors -> Steps]
      BY <2>4, ReplayReads, Locals DEF Steps
    <3>2. QED
      BY <2>4, <3>1, ReplayReads, Locals, LocalTypes DEF Replay
  <2>5. CASE Merge(a)
    BY <2>5, MergeRows, Returned, RowTypes
  <2>6. CASE CheckOpen(a)
    <3>1. PICK c \in Concepts : at' = [at EXCEPT ![a].concept = c]
      BY <2>6 DEF CheckOpen
    <3>2. at' \in [Actors -> [concept : Concepts, id : Nat]]
      BY <3>1, Locals
    <3>3. pc' \in [Actors -> Steps]
      BY <2>6, Locals DEF CheckOpen, Steps
    <3>4. QED
      BY <2>6, <3>2, <3>3, Locals, LocalTypes DEF CheckOpen
  <2>7. CASE NotRecurred(a)
    BY <2>7, Returned, LocalTypes DEF NotRecurred
  <2>8. CASE OpenWeakness(a)
    <3>1. PICK t : Inserts(a, t) /\ at' = [at EXCEPT ![a] = [concept |-> t.concept, id |-> lastId + 1]]
                   /\ pc' = [pc EXCEPT ![a] = "append"] /\ UNCHANGED <<left, read>>
      BY <2>8, OpenRows
    <3>2. t.concept \in Concepts /\ lastId + 1 \in Nat
      <4>1. t \in Trace /\ lastId \in Nat
        BY <3>1 DEF Inserts, TypeOK
      <4>2. QED
        BY <4>1 DEF Trace
    <3>3. at' \in [Actors -> [concept : Concepts, id : Nat]] /\ pc' \in [Actors -> Steps]
      BY <3>1, <3>2, Locals DEF Steps
    <3>4. QED
      BY <3>1, <3>3, Locals, RowTypes
  <2>9. CASE Append(a)
    BY <2>9, AppendRows, Returned, RowTypes
  <2>10. CASE Link(a)
    <3>1. PICK t, p : Writes(a, p, {t})
      BY <2>10, LinkRows
    <3>2. UNCHANGED <<pc, at, left, read>>
      BY <2>10 DEF Link, locals
    <3>3. QED
      BY <3>1, <3>2, RowTypes, Locals
  <2>11. CASE Rebuild(a)
    <3>1. left' \in [Actors -> SUBSET (Concepts \cup Others)]
      BY <2>11, Locals DEF Rebuild, WithEvidence
    <3>2. pc' \in [Actors -> Steps]
      BY <2>11, Locals DEF Rebuild, Steps
    <3>3. QED
      BY <2>11, <3>1, <3>2, Locals, LocalTypes DEF Rebuild
  <2>12. CASE ReadPart(a)
    <3>1. left' \in [Actors -> SUBSET (Concepts \cup Others)] /\ read' \in [Actors -> Profile]
      <4>1. PICK p \in left[a], r \in Profile : left' = [left EXCEPT ![a] = left[a] \ {p}] /\ read' = [read EXCEPT ![a] = r]
        BY <2>12, PartReads
      <4>2. QED
        BY <4>1, Locals
    <3>2. QED
      BY <2>12, <3>1, Locals, LocalTypes DEF ReadPart
  <2>13. CASE WriteProfile(a)
    BY <2>13, WholeRows, Returned, RowTypes
  <2>14. ASSUME Over(a), log' \in SUBSET Trace, profile' \in Profile
         PROVE  TypeOK'
    <3>1. lastId' \in Nat /\ clock' \in Nat /\ alone' \in [Actors -> BOOLEAN] /\ 0 \in Nat
          /\ Empty \in Profile /\ {} \in SUBSET Trace
      BY <2>14 DEF TypeOK, Over, Empty, Profile
    <3>2. tx' = [tx EXCEPT ![a] = [ts |-> 0, traces |-> {}, locked |-> FALSE, profile |-> Empty]]
      BY <2>14 DEF Over, NoTx
    <3>3. Nowhere \in [concept : Concepts, id : Nat]
      BY ConceptAssumption DEF Nowhere, NoId
    <3>4. /\ pc' \in [Actors -> Steps] /\ at' \in [Actors -> [concept : Concepts, id : Nat]]
          /\ left' \in [Actors -> SUBSET (Concepts \cup Others)] /\ read' \in [Actors -> Profile]
      BY <2>14, <3>1, <3>3, Locals DEF Over, Forget, Steps
    <3>5. QED
      BY <2>14, <3>1, <3>2, <3>4, StepTypes
  <2>15. CASE Commit(a)
    <3>1. log' \in SUBSET Trace /\ profile' \in Profile
      BY <2>15, VisibleTyped DEF Commit, VisibleLog
    <3>2. QED
      BY <2>14, <2>15, <3>1 DEF Commit
  <2>16. CASE Rollback(a)
    <3>1. log' \in SUBSET Trace /\ profile' \in Profile
      BY <2>16 DEF Rollback, Undo, committed, TypeOK
    <3>2. QED
      BY <2>14, <2>16, <3>1 DEF Rollback
  <2>17. QED
    BY <1>2, <2>1, <2>2, <2>3, <2>4, <2>5, <2>6, <2>7, <2>8, <2>9, <2>10, <2>11, <2>12, <2>13,
       <2>15, <2>16 DEF Step
<1>3. QED
  BY <1>1, <1>2 DEF Next

-----------------------------------------------------------------------------
(* What a profile holds has its record.                                    *)

LEMMA EmptyBacked == \A L : Backed(Empty, L)
BY DEF Empty, Backed

\* What the transaction of the step, and the others, see after it.
LEMMA InsertsSeen ==
  ASSUME TypeOK, NEW a \in Actors, NEW t, Inserts(a, t)
  PROVE  /\ VisibleLog(a)' = VisibleLog(a) \cup {t} /\ VisibleProfile(a)' = VisibleProfile(a)
         /\ tx'[a].traces = tx[a].traces \cup {t} /\ tx'[a].ts = tx[a].ts
         /\ \A b \in Actors \ {a} : tx'[b] = tx[b]
<1>1. tx'[a] = TxOf(tx[a].ts, tx[a].traces \cup {t}, tx[a].locked, tx[a].profile)
      /\ (\A b \in Actors \ {a} : tx'[b] = tx[b]) /\ UNCHANGED <<log, profile>>
  BY DEF Inserts, TypeOK
<1>2. /\ tx'[a].traces = tx[a].traces \cup {t} /\ tx'[a].ts = tx[a].ts
      /\ tx'[a].locked = tx[a].locked /\ tx'[a].profile = tx[a].profile
  BY <1>1 DEF TxOf
<1>3. QED
  BY <1>1, <1>2 DEF VisibleLog, VisibleProfile

LEMMA WritesSeen ==
  ASSUME TypeOK, NEW a \in Actors, NEW p, NEW S, Writes(a, p, S)
  PROVE  /\ VisibleLog(a)' = VisibleLog(a) \cup S /\ VisibleProfile(a)' = p
         /\ tx'[a].traces = tx[a].traces \cup S /\ tx'[a].ts = tx[a].ts
         /\ \A b \in Actors \ {a} : tx'[b] = tx[b]
<1>1. tx'[a] = TxOf(tx[a].ts, tx[a].traces \cup S, TRUE, p)
      /\ (\A b \in Actors \ {a} : tx'[b] = tx[b]) /\ UNCHANGED <<log, profile>>
  BY DEF Writes, TypeOK
<1>2. /\ tx'[a].traces = tx[a].traces \cup S /\ tx'[a].ts = tx[a].ts /\ tx'[a].profile = p
  BY <1>1 DEF TxOf
<1>3. tx'[a].locked
  BY <1>1 DEF TxOf
<1>4. QED
  BY <1>1, <1>2, <1>3 DEF VisibleLog, VisibleProfile

\* A step moves the locals of its own actor only.
LEMMA OthersKeepLocals ==
  ASSUME TypeOK, NEW a \in Actors, Step(a), NEW b \in Actors \ {a}
  PROVE  pc'[b] = pc[b] /\ at'[b] = at[b] /\ left'[b] = left[b] /\ read'[b] = read[b] /\ tx'[b] = tx[b]
<1>1. /\ pc'[b] = pc[b] /\ at'[b] = at[b] /\ left'[b] = left[b] /\ read'[b] = read[b]
  BY DEF TypeOK, Step, Begin, LogTrace, Observe, Replay, Merge, CheckOpen, NotRecurred, OpenWeakness,
     Append, Link, Rebuild, ReadPart, WriteProfile, Commit, Rollback, Over, Return, Forget, locals
<1>2. tx'[b] = tx[b]
  BY DEF TypeOK, Step, Begin, LogTrace, Observe, Replay, Merge, CheckOpen, NotRecurred, OpenWeakness,
     Append, Link, Rebuild, ReadPart, WriteProfile, Commit, Rollback, Over, Insert, Write
<1>3. QED
  BY <1>1, <1>2

\* The log only grows, and ids only go up.
LEMMA RowsGrow ==
  ASSUME TypeOK, NEW a \in Actors, Step(a)
  PROVE  /\ log \subseteq log' /\ lastId <= lastId'
         /\ UNCHANGED <<log, profile>> \/ (Commit(a) /\ log' = VisibleLog(a) /\ profile' = VisibleProfile(a))
<1>1. lastId \in Nat
  BY DEF TypeOK
<1>2. lastId' = lastId \/ lastId' = lastId + 1
  BY DEF Step, Begin, LogTrace, Observe, Replay, Merge, CheckOpen, NotRecurred, OpenWeakness,
     Append, Link, Rebuild, ReadPart, WriteProfile, Commit, Rollback, Over
<1>3. UNCHANGED <<log, profile>> \/ (Commit(a) /\ log' = VisibleLog(a) /\ profile' = VisibleProfile(a))
  BY DEF Step, Begin, LogTrace, Observe, Replay, Merge, CheckOpen, NotRecurred, OpenWeakness,
     Append, Link, Rebuild, ReadPart, WriteProfile, Commit, Rollback, Undo, committed, VisibleLog
<1>4. log \subseteq log'
  BY <1>3 DEF VisibleLog
<1>5. QED
  BY <1>1, <1>2, <1>3, <1>4

\* An actor that does not move stays sound.
LEMMA OthersStaySound ==
  ASSUME Sound, NEW a \in Actors, Step(a), NEW b \in Actors \ {a}
  PROVE  ActorSound(b)' /\ BeliefLogged' /\ OneCited(log)'
<1>1. TypeOK /\ ActorSound(a) /\ ActorSound(b) /\ BeliefLogged /\ OneCited(log)
  BY DEF Sound
<1>2. /\ pc'[b] = pc[b] /\ at'[b] = at[b] /\ read'[b] = read[b] /\ tx'[b] = tx[b]
  BY <1>1, OthersKeepLocals
<1>3. /\ log \subseteq log' /\ lastId <= lastId'
      /\ UNCHANGED <<log, profile>> \/ (log' = VisibleLog(a) /\ profile' = VisibleProfile(a))
  BY <1>1, RowsGrow
<1>4. BeliefLogged' /\ OneCited(log)'
  BY <1>1, <1>3 DEF BeliefLogged, ActorSound
<1>5. VisibleLog(b)' = log' \cup tx[b].traces /\ VisibleLog(b) = log \cup tx[b].traces
  BY <1>2 DEF VisibleLog
<1>6. OneCited(VisibleLog(b))'
  <2>1. OneCited(log') /\ OneCited(VisibleLog(b))
    BY <1>1, <1>4 DEF ActorSound
  <2>2. QED
    BY <2>1, <1>5 DEF OneCited
<1>7. Backed(VisibleProfile(b), VisibleLog(b))'
  <2>1. VisibleLog(b) \subseteq VisibleLog(b)' /\ log' \subseteq VisibleLog(b)'
    BY <1>3, <1>5
  <2>2. VisibleProfile(b)' = VisibleProfile(b) \/ VisibleProfile(b)' = profile'
    BY <1>2 DEF VisibleProfile
  <2>3. Backed(profile', log')
    BY <1>4 DEF BeliefLogged
  <2>4. Backed(VisibleProfile(b), VisibleLog(b))
    BY <1>1 DEF ActorSound
  <2>5. QED
    BY <2>1, <2>2, <2>3, <2>4, BackedStays
<1>8. Backed(read[b], VisibleLog(b))'
  BY <1>1, <1>2, <1>3, <1>5, BackedStays DEF ActorSound
<1>9. \A t \in tx'[b].traces : t.id <= lastId'
  <2>1. \A t \in tx[b].traces : t.id \in Nat /\ t.id <= lastId
    <3>1. \A t \in tx[b].traces : t \in Trace
      BY <1>1 DEF TypeOK
    <3>2. QED
      BY <1>1, <3>1 DEF ActorSound, Trace, Ids
  <2>2. lastId \in Nat /\ lastId' \in Nat
    BY <1>1, TypesKept DEF TypeOK, Next
  <2>3. QED
    BY <1>2, <1>3, <2>1, <2>2
<1>10. QED
  BY <1>1, <1>2, <1>4, <1>6, <1>7, <1>8, <1>9 DEF ActorSound

\* An insert keeps the actor sound, when it is not of a link.
LEMMA InsertSound ==
  ASSUME Sound, TypeOK', NEW a \in Actors, NEW t, Inserts(a, t), t.kind # "intervention_linked",
         read'[a] = read[a] \/ read'[a] = Empty,
         pc'[a] # "append" \/ (t.kind = "weakness_opened" /\ at'[a].id = lastId + 1)
  PROVE  ActorSound(a)'
<1>1. TypeOK /\ ActorSound(a)
  BY DEF Sound
<1>2. /\ VisibleLog(a)' = VisibleLog(a) \cup {t} /\ VisibleProfile(a)' = VisibleProfile(a)
      /\ tx'[a].traces = tx[a].traces \cup {t}
  BY <1>1, InsertsSeen
<1>3. Backed(VisibleProfile(a), VisibleLog(a))'
  BY <1>1, <1>2, BackedStays DEF ActorSound
<1>4. Backed(read[a], VisibleLog(a))'
  <2>1. Backed(read[a], VisibleLog(a)')
    BY <1>1, <1>2, BackedStays DEF ActorSound
  <2>2. QED
    BY <2>1, EmptyBacked
<1>5. OneCited(VisibleLog(a))'
  <2>1. OneCited(VisibleLog(a))
    BY <1>1 DEF ActorSound
  <2>2. QED
    BY <2>1, <1>2 DEF OneCited
<1>6. \A u \in tx[a].traces : u.id \in Nat /\ u.id <= lastId
  <2>1. \A u \in tx[a].traces : u \in Trace
    BY <1>1 DEF TypeOK
  <2>2. QED
    BY <1>1, <2>1 DEF ActorSound, Trace, Ids
<1>7. lastId \in Nat /\ lastId' = lastId + 1 /\ t.id = lastId + 1
  BY <1>1 DEF Inserts, TypeOK
<1>8. \A u \in tx'[a].traces : u.id <= lastId'
  BY <1>2, <1>6, <1>7
<1>9. pc'[a] = "append" => \A o \in tx'[a].traces : o.id = at'[a].id => o.kind = "weakness_opened"
  BY <1>2, <1>6, <1>7
<1>10. QED
  BY <1>3, <1>4, <1>5, <1>8, <1>9 DEF ActorSound

\* A write keeps the actor sound, when the profile written has its record.
LEMMA WriteSound ==
  ASSUME Sound, NEW a \in Actors, NEW p, NEW S, Writes(a, p, S), pc'[a] # "append",
         Backed(p, VisibleLog(a) \cup S), OneCited(S), read'[a] = read[a] \/ read'[a] = Empty
  PROVE  ActorSound(a)'
<1>1. TypeOK /\ ActorSound(a)
  BY DEF Sound
<1>2. /\ VisibleLog(a)' = VisibleLog(a) \cup S /\ VisibleProfile(a)' = p
      /\ tx'[a].traces = tx[a].traces \cup S
  BY <1>1, WritesSeen
<1>3. Backed(VisibleProfile(a), VisibleLog(a))'
  BY <1>2
<1>4. Backed(read[a], VisibleLog(a))'
  <2>1. Backed(read[a], VisibleLog(a)')
    BY <1>1, <1>2, BackedStays DEF ActorSound
  <2>2. QED
    BY <2>1, EmptyBacked
<1>5. OneCited(VisibleLog(a))'
  <2>1. OneCited(VisibleLog(a))
    BY <1>1 DEF ActorSound
  <2>2. QED
    BY <2>1, <1>2 DEF OneCited
<1>6. \A u \in tx[a].traces : u.id \in Nat /\ u.id <= lastId
  <2>1. \A u \in tx[a].traces : u \in Trace
    BY <1>1 DEF TypeOK
  <2>2. QED
    BY <1>1, <2>1 DEF ActorSound, Trace, Ids
<1>7. lastId \in Nat /\ (S # {} => lastId' = lastId + 1) /\ (S = {} => lastId' = lastId)
      /\ \A t \in S : t.id = lastId + 1
  BY <1>1 DEF Writes, TypeOK
<1>8. \A u \in tx'[a].traces : u.id <= lastId'
  BY <1>2, <1>6, <1>7
<1>9. QED
  BY <1>3, <1>4, <1>5, <1>8 DEF ActorSound

\* A step that only reads keeps the actor sound, when what it read has its record.
LEMMA ReadStaysSound ==
  ASSUME Sound, NEW a \in Actors, UNCHANGED <<log, profile, lastId, tx>>,
         Backed(read'[a], VisibleLog(a)),
         pc'[a] # "append" \/ (pc[a] = "append" /\ at'[a] = at[a])
  PROVE  ActorSound(a)'
<1>1. ActorSound(a) /\ VisibleLog(a)' = VisibleLog(a) /\ VisibleProfile(a)' = VisibleProfile(a)
  BY DEF Sound, VisibleLog, VisibleProfile
<1>2. OneCited(VisibleLog(a))'
  BY <1>1 DEF ActorSound, OneCited
<1>3. QED
  BY <1>1, <1>2 DEF ActorSound

LEMMA MergeBacked ==
  ASSUME Sound, NEW a \in Actors, Merge(a)
  PROVE  ActorSound(a)'
<1>1. TypeOK /\ ActorSound(a)
  BY DEF Sound
<1> DEFINE L == VisibleLog(a)
           V == VisibleProfile(a)
           c == at[a].concept
<1>2. PICK t, p :
        /\ Writes(a, p, {t}) /\ t.kind = "mastery_update"
        /\ p.mastery = [V.mastery EXCEPT ![c] = read[a].mastery[c]]
        /\ p.weaknesses = V.weaknesses /\ p.recent = V.recent /\ c \in Concepts /\ Return(a)
  BY <1>1, MergeRows
<1>3. V \in Profile
  BY <1>1, VisibleTyped
<1>4. Backed(V, L) /\ Backed(read[a], L)
  BY <1>1 DEF ActorSound
<1> HIDE DEF L, V, c
<1>5. Backed(p, L)
  <2>1. \A d \in Concepts : p.mastery[d] \subseteq Evidence(L, d)
    BY <1>2, <1>3, <1>4 DEF Backed, Profile
  <2>2. QED
    BY <2>1, <1>2, <1>4 DEF Backed
<1>6. Backed(p, VisibleLog(a) \cup {t})
  BY <1>5, BackedStays DEF L
<1>7. OneCited({t}) /\ pc'[a] # "append" /\ read'[a] = Empty
  BY <1>1, <1>2, Returned DEF OneCited
<1>8. QED
  BY <1>2, <1>6, <1>7, WriteSound

LEMMA AppendBacked ==
  ASSUME Sound, NEW a \in Actors, Append(a)
  PROVE  ActorSound(a)'
<1>1. TypeOK /\ ActorSound(a)
  BY DEF Sound
<1> DEFINE L == VisibleLog(a)
           V == VisibleProfile(a)
<1>2. PICK o, p :
        /\ o \in tx[a].traces
        /\ Writes(a, p, {}) /\ o.id = at[a].id /\ pc[a] = "append"
        /\ p.mastery = V.mastery /\ p.weaknesses = V.weaknesses \cup {Opened(o)}
        /\ p.recent = V.recent /\ Return(a)
  BY <1>1, AppendRows
<1>3. o \in L /\ o.kind = "weakness_opened"
  BY <1>1, <1>2 DEF ActorSound, VisibleLog
<1>4. Backed(V, L)
  BY <1>1 DEF ActorSound
<1> HIDE DEF L, V
<1>5. Backed(p, L)
  <2>1. /\ Opened(o).id = o.id /\ Opened(o).concept = o.concept /\ Opened(o).evidence = o.cites
        /\ Opened(o).links = {} /\ Opened(o).status = "open"
    BY DEF Opened
  <2> DEFINE BackedOne(w) ==
        /\ \E u \in L : /\ u.kind = "weakness_opened" /\ u.id = w.id
                        /\ u.concept = w.concept /\ u.cites = w.evidence
        /\ \A t \in w.links : \E l \in L :
             l.kind = "intervention_linked" /\ l.about = w.id /\ l.cites = {t}
        /\ w.status # "open" => \E r \in L : r.kind = "reflection_run" /\ r.about = w.id
  <2>2. BackedOne(Opened(o))
    BY <2>1, <1>3
  <2>3. \A w \in V.weaknesses : BackedOne(w)
    BY <1>4 DEF Backed
  <2>4. \A w \in p.weaknesses : BackedOne(w)
    BY <2>2, <2>3, <1>2
  <2>5. QED
    BY <2>4, <1>2, <1>4 DEF Backed
<1>6. Backed(p, VisibleLog(a) \cup {})
  BY <1>5, BackedStays DEF L
<1>7. OneCited({}) /\ pc'[a] # "append" /\ read'[a] = Empty
  BY <1>1, <1>2, Returned DEF OneCited
<1>8. QED
  BY <1>2, <1>6, <1>7, WriteSound

LEMMA LinkBacked ==
  ASSUME Sound, NEW a \in Actors, Link(a)
  PROVE  ActorSound(a)'
<1>1. TypeOK /\ ActorSound(a)
  BY DEF Sound
<1> DEFINE L == VisibleLog(a)
           V == VisibleProfile(a)
<1>2. PICK w, u, t, p :
        /\ w \in V.weaknesses /\ u \in L
        /\ Writes(a, p, {t}) /\ t.kind = "intervention_linked" /\ t.about = w.id /\ t.cites = {u.id}
        /\ p.mastery = V.mastery /\ p.weaknesses = Linked(V.weaknesses, w.id, u.id)
        /\ p.recent = V.recent /\ pc[a] = "open" /\ UNCHANGED <<pc, at, left, read>>
  BY <1>1, LinkRows
<1>3. V \in Profile /\ Backed(V, L)
  BY <1>1, VisibleTyped DEF ActorSound
<1> HIDE DEF L, V
<1> DEFINE M == L \cup {t}
           BackedOne(v) ==
             /\ \E o \in M : /\ o.kind = "weakness_opened" /\ o.id = v.id
                             /\ o.concept = v.concept /\ o.cites = v.evidence
             /\ \A i \in v.links : \E l \in M :
                  l.kind = "intervention_linked" /\ l.about = v.id /\ l.cites = {i}
             /\ v.status # "open" => \E r \in M : r.kind = "reflection_run" /\ r.about = v.id
<1>4. Backed(V, M)
  BY <1>3, BackedStays
<1>5. ASSUME NEW v \in V.weaknesses
      PROVE  BackedOne(v) /\ (v.id = w.id => BackedOne([v EXCEPT !.links = v.links \cup {u.id}]))
  <2>1. v \in Weakness
    BY <1>3 DEF Profile
  <2>2. BackedOne(v)
    BY <1>4 DEF Backed
  <2> DEFINE x == [v EXCEPT !.links = v.links \cup {u.id}]
  <2>3. /\ x.id = v.id /\ x.concept = v.concept /\ x.evidence = v.evidence
        /\ x.status = v.status /\ x.links = v.links \cup {u.id}
    BY <2>1 DEF Weakness
  <2> HIDE DEF x
  <2>4. t \in M
    OBVIOUS
  <2> HIDE DEF M
  <2>5. ASSUME v.id = w.id
        PROVE  BackedOne(x)
    BY <2>2, <2>3, <2>4, <2>5, <1>2
  <2>6. QED
    BY <2>2, <2>5 DEF x
<1>6. \A v \in p.weaknesses : BackedOne(v)
  <2> HIDE DEF BackedOne
  <2>1. \A v \in p.weaknesses : \E x \in V.weaknesses :
          \/ v = x
          \/ x.id = w.id /\ v = [x EXCEPT !.links = x.links \cup {u.id}]
    BY <1>2 DEF Linked
  <2>2. QED
    BY <2>1, <1>5
<1>7. Backed(p, M)
  BY <1>2, <1>4, <1>6 DEF Backed
<1>8. OneCited({t}) /\ pc'[a] # "append" /\ read'[a] = read[a]
  BY <1>1, <1>2 DEF OneCited
<1>9. QED
  BY <1>2, <1>7, <1>8, WriteSound DEF L

LEMMA WholeBacked ==
  ASSUME Sound, NEW a \in Actors, WriteProfile(a)
  PROVE  ActorSound(a)'
<1>1. TypeOK /\ ActorSound(a)
  BY DEF Sound
<1> DEFINE L == VisibleLog(a)
           V == VisibleProfile(a)
<1>2. PICK p :
        /\ Writes(a, p, {}) /\ Return(a)
        /\ \/ p = read[a]
           \/ /\ p.mastery = [c \in Concepts |-> IF read[a].mastery[c] # {} THEN read[a].mastery[c]
                                                 ELSE V.mastery[c]]
              /\ p.weaknesses = V.weaknesses /\ p.recent = V.recent
  BY <1>1, WholeRows
<1>3. Backed(V, L) /\ Backed(read[a], L)
  BY <1>1 DEF ActorSound
<1> HIDE DEF L, V
<1>4. Backed(p, L)
  <2>1. CASE p = read[a]
    BY <2>1, <1>3
  <2>2. CASE p # read[a]
    <3>1. \A d \in Concepts : p.mastery[d] \subseteq Evidence(L, d)
      BY <2>2, <1>2, <1>3 DEF Backed
    <3>2. QED
      BY <3>1, <2>2, <1>2, <1>3 DEF Backed
  <2>3. QED
    BY <2>1, <2>2
<1>5. Backed(p, VisibleLog(a) \cup {})
  BY <1>4, BackedStays DEF L
<1>6. OneCited({}) /\ pc'[a] # "append" /\ read'[a] = Empty
  BY <1>1, <1>2, Returned DEF OneCited
<1>7. QED
  BY <1>2, <1>5, <1>6, WriteSound

LEMMA ReplayBacked ==
  ASSUME Sound, NEW a \in Actors, Replay(a)
  PROVE  ActorSound(a)'
<1>1. TypeOK /\ ActorSound(a)
  BY DEF Sound
<1> DEFINE L == VisibleLog(a)
           R == read[a]
<1>2. PICK c \in Concepts :
        /\ read' = [read EXCEPT ![a] = [R EXCEPT !.mastery = [R.mastery EXCEPT ![c] = Evidence(L, c)]]]
        /\ pc' = [pc EXCEPT ![a] = "merge"]
  BY <1>1, ReplayReads
<1>3. R \in Profile /\ Backed(R, L) /\ pc'[a] # "append"
      /\ read'[a] = [R EXCEPT !.mastery = [R.mastery EXCEPT ![c] = Evidence(L, c)]]
  BY <1>1, <1>2, Locals DEF ActorSound
<1> HIDE DEF L, R
<1> DEFINE E == Evidence(L, c)
           M == [R.mastery EXCEPT ![c] = E]
           r == [R EXCEPT !.mastery = M]
<1>4. /\ \A d \in Concepts : M[d] = (IF d = c THEN E ELSE R.mastery[d])
  BY <1>3 DEF Profile
<1> HIDE DEF M
<1>5. r.mastery = M /\ r.weaknesses = R.weaknesses /\ r.recent = R.recent
  BY <1>3 DEF Profile
<1>6. r = read'[a]
  BY <1>3 DEF M
<1> HIDE DEF r
<1>7. Backed(r, L)
  BY <1>3, <1>4, <1>5 DEF Backed
<1>8. UNCHANGED <<log, profile, lastId, tx>>
  BY DEF Replay, committed
<1>9. QED
  BY <1>3, <1>6, <1>7, <1>8, ReadStaysSound DEF L

LEMMA PartBacked ==
  ASSUME Sound, NEW a \in Actors, ReadPart(a)
  PROVE  ActorSound(a)'
<1>1. TypeOK /\ ActorSound(a)
  BY DEF Sound
<1> DEFINE L == VisibleLog(a)
           R == read[a]
<1>2. PICK p \in left[a], r \in Profile :
        /\ left' = [left EXCEPT ![a] = left[a] \ {p}]
        /\ read' = [read EXCEPT ![a] = r]
        /\ \/ /\ p \in Concepts
              /\ r.mastery = [R.mastery EXCEPT ![p] = Evidence(L, p)]
              /\ r.weaknesses = R.weaknesses /\ r.recent = R.recent
           \/ /\ p \in Recents
              /\ r.mastery = R.mastery /\ r.weaknesses = R.weaknesses
              /\ r.recent = [R.recent EXCEPT ![p] = Recent(L, p)]
           \/ /\ p = "weaknesses"
              /\ r.mastery = R.mastery /\ r.weaknesses = Replayed(L)
              /\ r.recent = R.recent
  BY <1>1, PartReads, Zenon
<1>3. R \in Profile /\ Backed(R, L) /\ OneCited(L) /\ L \in SUBSET Trace
  BY <1>1, Locals, VisibleTyped DEF ActorSound
<1>4. read'[a] = r
  BY <1>1, <1>2, Locals
<1> HIDE DEF L, R
<1>5. \A d \in Concepts : r.mastery[d] \subseteq Evidence(L, d)
  BY <1>2, <1>3 DEF Backed, Profile
<1>6. \A k \in Recents : r.recent[k] \subseteq {t.id : t \in {u \in L : u.kind = k}}
  <2>1. \A k \in Recents : Recent(L, k) \subseteq {t.id : t \in {u \in L : u.kind = k}}
    BY <1>3, ProjectBacked
  <2>2. \A k \in Recents : r.recent[k] = R.recent[k] \/ r.recent[k] = Recent(L, k)
    BY <1>2, <1>3 DEF Profile
  <2>3. QED
    BY <2>1, <2>2, <1>3 DEF Backed
<1>7. Backed(r, L)
  <2>1. CASE r.weaknesses = R.weaknesses
    BY <2>1, <1>3, <1>5, <1>6 DEF Backed
  <2>2. CASE r.weaknesses = Replayed(L)
    BY <2>2, <1>3, <1>5, <1>6, ProjectBacked DEF Backed
  <2>3. QED
    BY <2>1, <2>2, <1>2
<1>8. UNCHANGED <<log, profile, lastId, tx, pc, at>>
  BY DEF ReadPart, committed
<1>9. QED
  BY <1>4, <1>7, <1>8, ReadStaysSound DEF L

LEMMA BetweenKept ==
  ASSUME TypeOK, NEW a \in Actors, Step(a), NEW b \in Actors, Between(b), Between(a)
  PROVE  Between(b)'
<1>1. CASE b # a
  <2>1. pc'[b] = pc[b] /\ left'[b] = left[b] /\ read'[b] = read[b]
    BY <1>1, OthersKeepLocals
  <2>2. QED
    BY <2>1 DEF Between
<1>2. CASE b = a
  <2>1. ASSUME Return(a) \/ Over(a)
        PROVE  Between(a)'
    <3>1. left'[a] = {} /\ read'[a] = Empty
      BY <2>1, Locals DEF Return, Over, Forget
    <3>2. QED
      BY <3>1 DEF Between
  <2>2. ASSUME UNCHANGED <<left, read>>, pc[a] \notin Rebuilding,
               pc'[a] = "open" => pc[a] \in {"idle", "open"}, pc'[a] # "idle"
        PROVE  Between(a)'
    BY <2>2 DEF Between
  <2>3. CASE Begin(a) \/ LogTrace(a) \/ Observe(a) \/ CheckOpen(a) \/ OpenWeakness(a) \/ Link(a)
    <3>1. UNCHANGED <<left, read>> /\ pc[a] \notin Rebuilding
      BY <2>3 DEF Begin, LogTrace, Observe, CheckOpen, OpenWeakness, Link, Call, locals, Rebuilding
    <3>2. (pc'[a] = "open" => pc[a] \in {"idle", "open"}) /\ pc'[a] # "idle"
      BY <2>3, Locals DEF Begin, LogTrace, Observe, CheckOpen, OpenWeakness, Link, Call
    <3>3. QED
      BY <1>2, <2>2, <3>1, <3>2
  <2>4. CASE Replay(a)
    <3>1. pc'[a] = "merge" /\ left' = left /\ pc[a] = "open"
      BY <2>4, Locals DEF Replay, Call
    <3>2. QED
      BY <3>1, <1>2 DEF Between, Rebuilding
  <2>5. CASE Rebuild(a)
    <3>1. pc'[a] \in Rebuilding
      BY <2>5, Locals DEF Rebuild, Rebuilding
    <3>2. QED
      BY <3>1, <1>2 DEF Between, Rebuilding
  <2>6. CASE ReadPart(a)
    <3>1. pc' = pc /\ left[a] # {}
      BY <2>6 DEF ReadPart
    <3>2. QED
      BY <3>1, <1>2 DEF Between, Rebuilding
  <2>7. QED
    BY <1>2, <2>1, <2>3, <2>4, <2>5, <2>6
    DEF Step, Merge, NotRecurred, Append, WriteProfile, Commit, Rollback
<1>3. QED
  BY <1>1, <1>2

\* Sound is inductive.
LEMMA SoundKept == Sound /\ [Next]_vars => Sound'
<1> SUFFICES ASSUME Sound, [Next]_vars PROVE Sound'
  OBVIOUS
<1>1. TypeOK /\ TypeOK'
  BY TypesKept DEF Sound
<1>2. CASE UNCHANGED vars
  BY <1>1, <1>2 DEF Sound, BeliefLogged, Between, ActorSound, VisibleLog, VisibleProfile, vars, OneCited
<1>3. ASSUME NEW a \in Actors, Step(a)
      PROVE  Sound'
  <2>1. \A b \in Actors \ {a} : ActorSound(b)'
    BY <1>3, OthersStaySound
  <2>2. BeliefLogged' /\ OneCited(log)'
    <3>1. log' = log \/ log' = VisibleLog(a)
      BY <1>1, <1>3, RowsGrow
    <3>2. UNCHANGED <<log, profile>> \/ (log' = VisibleLog(a) /\ profile' = VisibleProfile(a))
      BY <1>1, <1>3, RowsGrow
    <3>3. QED
      BY <3>2 DEF Sound, ActorSound, BeliefLogged
  <2>3. ActorSound(a)'
    <3>1. CASE Begin(a)
      <4>1. /\ tx'[a] = TxOf(clock + 1, {}, FALSE, Empty) /\ UNCHANGED <<log, profile, read>>
            /\ pc'[a] = "open"
        BY <1>1, <3>1, Shapes DEF Begin, TypeOK, committed, locals
      <4>2. tx'[a].traces = {} /\ tx'[a].locked = FALSE
        BY <4>1 DEF TxOf
      <4>3. VisibleLog(a)' = log /\ VisibleProfile(a)' = profile
        BY <4>1, <4>2 DEF VisibleLog, VisibleProfile
      <4>4. QED
        <5>1. Backed(profile, log) /\ OneCited(log) /\ read[a] = Empty
          BY <3>1 DEF Sound, Between, BeliefLogged, Begin
        <5>2. QED
          BY <4>1, <4>2, <4>3, <5>1, EmptyBacked DEF ActorSound
    <3>2. CASE LogTrace(a)
      BY <1>1, <3>2, LogTraceRows, InsertSound DEF LogTrace, Call
    <3>3. CASE Observe(a)
      BY <1>1, <3>3, ObserveRows, InsertSound DEF Observe, Call
    <3>4. CASE Replay(a)
      BY <3>4, ReplayBacked
    <3>5. CASE Merge(a)
      BY <3>5, MergeBacked
    <3>6. CASE CheckOpen(a)
      <4>1. UNCHANGED <<log, profile, lastId, tx, read>> /\ pc'[a] = "recur"
        BY <1>1, <3>6 DEF CheckOpen, committed, TypeOK
      <4>2. Backed(read[a], VisibleLog(a))
        BY DEF Sound, ActorSound
      <4>3. QED
        BY <4>1, <4>2, ReadStaysSound
    <3>7. CASE NotRecurred(a)
      <4>1. UNCHANGED <<log, profile, lastId, tx>> /\ pc'[a] = "open" /\ read'[a] = Empty
        BY <1>1, <3>7, Returned DEF NotRecurred, committed
      <4>2. QED
        BY <4>1, EmptyBacked, ReadStaysSound
    <3>8. CASE OpenWeakness(a)
      <4>1. PICK t : Inserts(a, t) /\ t.kind = "weakness_opened"
                     /\ at' = [at EXCEPT ![a] = [concept |-> t.concept, id |-> lastId + 1]]
                     /\ UNCHANGED <<left, read>>
        BY <1>1, <3>8, OpenRows
      <4>2. at'[a].id = lastId + 1
        BY <1>1, <4>1 DEF TypeOK
      <4>3. QED
        BY <1>1, <4>1, <4>2, InsertSound
    <3>9. CASE Append(a)
      BY <3>9, AppendBacked
    <3>10. CASE Link(a)
      BY <3>10, LinkBacked
    <3>11. CASE Rebuild(a)
      <4>1. UNCHANGED <<log, profile, lastId, tx, read>> /\ pc'[a] # "append"
        BY <1>1, <3>11 DEF Rebuild, committed, TypeOK
      <4>2. Backed(read[a], VisibleLog(a))
        BY DEF Sound, ActorSound
      <4>3. QED
        BY <4>1, <4>2, ReadStaysSound
    <3>12. CASE ReadPart(a)
      BY <3>12, PartBacked
    <3>13. CASE WriteProfile(a)
      BY <3>13, WholeBacked
    <3>14. ASSUME Over(a)
           PROVE  ActorSound(a)'
      <4>1. tx'[a] = TxOf(0, {}, FALSE, Empty) /\ read'[a] = Empty /\ pc'[a] = "idle"
        BY <1>1, <3>14, Shapes DEF Over, Forget, TypeOK
      <4>2. tx'[a].traces = {} /\ tx'[a].locked = FALSE
        BY <4>1 DEF TxOf
      <4>3. VisibleLog(a)' = log' /\ VisibleProfile(a)' = profile'
        BY <4>2 DEF VisibleLog, VisibleProfile
      <4>4. QED
        BY <4>1, <4>2, <4>3, <2>2, EmptyBacked DEF ActorSound, BeliefLogged
    <3>15. CASE Commit(a)
      BY <3>14, <3>15 DEF Commit
    <3>16. CASE Rollback(a)
      BY <3>14, <3>16 DEF Rollback
    <3>17. QED
      BY <1>3, <3>1, <3>2, <3>3, <3>4, <3>5, <3>6, <3>7, <3>8, <3>9, <3>10, <3>11, <3>12, <3>13,
         <3>15, <3>16 DEF Step
  <2>4. QED
    <3>1. \A b \in Actors : Between(b)'
      BY <1>1, <1>3, BetweenKept DEF Sound
    <3>2. QED
      BY <1>1, <2>1, <2>2, <2>3, <3>1 DEF Sound
<1>4. QED
  BY <1>2, <1>3 DEF Next

LEMMA InitSound == Init => Sound
<1> SUFFICES ASSUME Init PROVE Sound
  OBVIOUS
<1>1. Empty \in Profile /\ Nowhere \in [concept : Concepts, id : Nat]
  BY ConceptAssumption DEF Empty, Profile, Nowhere, NoId
<1>2. \A a \in Actors : tx[a].traces = {} /\ tx[a].locked = FALSE
  BY DEF Init, NoTx
<1>3. TypeOK
  <2>1. NoTx \in [ts : Nat, traces : SUBSET Trace, locked : BOOLEAN, profile : Profile]
    BY <1>1 DEF NoTx
  <2>2. QED
    BY <1>1, <1>2, <2>1 DEF Init, TypeOK
<1>4. BeliefLogged /\ OneCited(log)
  BY EmptyBacked DEF Init, BeliefLogged, OneCited
<1>5. ASSUME NEW a \in Actors
      PROVE  Between(a) /\ ActorSound(a)
  <2>1. VisibleLog(a) = log /\ VisibleProfile(a) = profile /\ pc[a] = "idle" /\ read[a] = Empty
        /\ left[a] = {}
    BY <1>2 DEF Init, VisibleLog, VisibleProfile
  <2>2. QED
    BY <1>2, <1>4, <2>1, EmptyBacked DEF Between, ActorSound, BeliefLogged
<1>6. QED
  BY <1>3, <1>4, <1>5 DEF Sound

LEMMA AlwaysSound == Spec => []Sound
BY InitSound, SoundKept, PTL DEF Spec

\* The rows and the transactions are well typed, and the lock of the profile row
\* has one holder.
THEOREM TypesHold == Spec => []TypeOK
<1>1. Sound => TypeOK
  BY DEF Sound
<1>2. QED
  BY <1>1, AlwaysSound, PTL

\* Everything the committed profile holds has its trace in the committed log:
\* the evidence of a mastery, the opening of a weakness, its links, what closed
\* it, the notes and summaries.  However calls interleave and transactions fail.
THEOREM BeliefsAreLogged == Spec => []BeliefLogged
<1>1. Sound => BeliefLogged
  BY DEF Sound
<1>2. QED
  BY <1>1, AlwaysSound, PTL

-----------------------------------------------------------------------------
(* What one more trace changes of what the log implies.                    *)

LEMMA EvidenceGrows ==
  ASSUME NEW L, NEW t, NEW c, t.kind \notin MasteryKinds \/ t.concept # c
  PROVE  Evidence(L \cup {t}, c) = Evidence(L, c)
BY DEF Evidence

LEMMA RecentGrows ==
  ASSUME NEW L, NEW t, t.kind \notin Recents, NEW k \in Recents
  PROVE  Recent(L \cup {t}, k) = Recent(L, k)
<1>1. ASSUME NEW u
      PROVE  {v \in L \cup {t} : v.kind = k /\ Before(u, v)} = {v \in L : v.kind = k /\ Before(u, v)}
  OBVIOUS
<1> DEFINE F(M) == {u \in M : /\ u.kind = k
                             /\ Cardinality({v \in M : v.kind = k /\ Before(u, v)}) < Keep}
<1>2. F(L \cup {t}) = F(L)
  BY <1>1
<1>3. QED
  BY <1>2, Zenon DEF Recent

\* The weakness a trace opened, as the log tells its life.
Life(L, o) == [id |-> o.id, concept |-> o.concept, evidence |-> o.cites,
               status |-> Status(L, o), links |-> Links(L, o)]

LEMMA LivesGrow ==
  ASSUME NEW L, NEW t, NEW o
  PROVE  /\ t.kind # "reflection_run" => Status(L \cup {t}, o) = Status(L, o)
         /\ t.kind # "intervention_linked" \/ t.about # o.id \/ ~Before(o, t)
              => Links(L \cup {t}, o) = Links(L, o)
         /\ t.kind = "intervention_linked" /\ t.about = o.id /\ Before(o, t)
              => Links(L \cup {t}, o) = Links(L, o) \cup t.cites
<1> DEFINE M == L \cup {t}
<1>1. ASSUME t.kind # "reflection_run"
      PROVE  Status(M, o) = Status(L, o)
  <2>1. About(M, o) = About(L, o)
    BY <1>1 DEF About
  <2>2. QED
    BY <2>1 DEF Status
<1>2. Links(M, o) = UNION {u.cites : u \in {v \in M : /\ v.kind = "intervention_linked"
                                                     /\ v.about = o.id /\ Before(o, v)}}
  BY DEF Links
<1>3. ASSUME t.kind # "intervention_linked" \/ t.about # o.id \/ ~Before(o, t)
      PROVE  Links(M, o) = Links(L, o)
  <2>1. {v \in M : v.kind = "intervention_linked" /\ v.about = o.id /\ Before(o, v)}
          = {v \in L : v.kind = "intervention_linked" /\ v.about = o.id /\ Before(o, v)}
    BY <1>3
  <2>2. QED
    BY <2>1 DEF Links
<1>4. ASSUME t.kind = "intervention_linked", t.about = o.id, Before(o, t)
      PROVE  Links(M, o) = Links(L, o) \cup t.cites
  <2>1. {v \in M : v.kind = "intervention_linked" /\ v.about = o.id /\ Before(o, v)}
          = {v \in L : v.kind = "intervention_linked" /\ v.about = o.id /\ Before(o, v)} \cup {t}
    BY <1>4
  <2> DEFINE S == {v \in L : v.kind = "intervention_linked" /\ v.about = o.id /\ Before(o, v)}
  <2>2. Links(L, o) = UNION {u.cites : u \in S} /\ Links(M, o) = UNION {u.cites : u \in S \cup {t}}
    BY <2>1 DEF Links
  <2> HIDE DEF S, M
  <2>3. QED
    BY <2>2
<1>5. QED
  BY <1>1, <1>3, <1>4

LEMMA ReplayedGrows ==
  ASSUME NEW L, NEW t,
         t.kind \notin {"weakness_opened", "reflection_run", "intervention_linked"}
  PROVE  Replayed(L \cup {t}) = Replayed(L)
<1> DEFINE M == L \cup {t}
<1>1. {o \in M : o.kind = "weakness_opened"} = {o \in L : o.kind = "weakness_opened"}
  OBVIOUS
<1>2. \A o : Life(M, o) = Life(L, o)
  BY LivesGrow DEF Life
<1>3. \A K : Replayed(K) = {Life(K, o) : o \in {u \in K : u.kind = "weakness_opened"}}
  BY DEF Replayed, Life
<1> HIDE DEF M
<1>4. QED
  BY <1>1, <1>2, <1>3 DEF M

\* The trace of an opening adds one open weakness, when it comes last.
LEMMA ReplayedOpens ==
  ASSUME NEW L, NEW t, t.kind = "weakness_opened", \A u \in L : ~Before(t, u)
  PROVE  Replayed(L \cup {t}) = Replayed(L) \cup {Opened(t)}
<1> DEFINE M == L \cup {t}
<1>1. {o \in M : o.kind = "weakness_opened"} = {o \in L : o.kind = "weakness_opened"} \cup {t}
  OBVIOUS
<1>2. \A o : Life(M, o) = Life(L, o)
  BY LivesGrow DEF Life
<1>3. Life(L, t) = Opened(t)
  <2>1. About(L, t) = {} /\ Links(L, t) = {}
    BY DEF About, Links
  <2>2. QED
    BY <2>1 DEF Life, Opened, Status
<1>4. \A K : Replayed(K) = {Life(K, o) : o \in {u \in K : u.kind = "weakness_opened"}}
  BY DEF Replayed, Life
<1> HIDE DEF M
<1>5. Replayed(M) = {Life(L, o) : o \in {u \in L : u.kind = "weakness_opened"} \cup {t}}
  BY <1>1, <1>2, <1>4
<1>6. QED
  BY <1>3, <1>4, <1>5 DEF M

\* The trace of a link adds it to its weakness, when it comes last.
LEMMA ReplayedLinks ==
  ASSUME NEW L, NEW t, NEW i, t.kind = "intervention_linked", t.cites = {i},
         \A u \in L : Before(u, t)
  PROVE  Replayed(L \cup {t}) = Linked(Replayed(L), t.about, i)
<1> DEFINE M == L \cup {t}
           O == {u \in L : u.kind = "weakness_opened"}
           Add(w) == IF w.id = t.about THEN [w EXCEPT !.links = @ \cup {i}] ELSE w
<1>1. {o \in M : o.kind = "weakness_opened"} = O
  OBVIOUS
<1>2. \A K : Replayed(K) = {Life(K, o) : o \in {u \in K : u.kind = "weakness_opened"}}
  BY DEF Replayed, Life
<1>3. ASSUME NEW o \in O
      PROVE  Life(M, o) = Add(Life(L, o))
  <2> DEFINE S == Status(L, o)
             K == Links(L, o)
  <2>1. Status(M, o) = S /\ Links(M, o) = (IF o.id = t.about THEN K \cup {i} ELSE K)
    <3>1. Before(o, t) /\ t.kind # "reflection_run"
      OBVIOUS
    <3>2. QED
      BY <3>1, LivesGrow
  <2>2. Life(M, o) = [id |-> o.id, concept |-> o.concept, evidence |-> o.cites, status |-> S,
                      links |-> IF o.id = t.about THEN K \cup {i} ELSE K]
    BY <2>1 DEF Life
  <2>3. Life(L, o) = [id |-> o.id, concept |-> o.concept, evidence |-> o.cites, status |-> S, links |-> K]
    BY DEF Life
  <2> HIDE DEF S, K, M, O
  <2>4. CASE o.id = t.about
    BY <2>2, <2>3, <2>4
  <2>5. CASE o.id # t.about
    BY <2>2, <2>3, <2>5
  <2>6. QED
    BY <2>4, <2>5
<1>4. Linked(Replayed(L), t.about, i) = {Add(w) : w \in Replayed(L)}
  BY DEF Linked
<1> HIDE DEF M, Add
<1>5. Replayed(M) = {Add(Life(L, o)) : o \in O}
  BY <1>1, <1>2, <1>3
<1>6. QED
  BY <1>2, <1>4, <1>5 DEF M

-----------------------------------------------------------------------------
(* The order of the traces, and solo transactions.                         *)

\* What a step inside a transaction does to the rows: S is what it inserts.
Within(a, S) ==
  /\ tx'[a].traces = tx[a].traces \cup S /\ tx'[a].ts = tx[a].ts
  /\ \A t \in S : t \in Trace /\ t.id = lastId + 1 /\ t.ts = tx[a].ts
  /\ \A t, u \in S : t = u
  /\ lastId' = (IF S = {} THEN lastId ELSE lastId + 1)
  /\ UNCHANGED <<log, profile, clock, alone>>
  /\ pc[a] # "idle" /\ pc'[a] # "idle"

LEMMA WithinByRows ==
  ASSUME TypeOK, NEW a \in Actors, pc[a] # "idle", pc'[a] # "idle"
  PROVE  /\ \A t : Inserts(a, t) => Within(a, {t})
         /\ \A p, t : Writes(a, p, {t}) => Within(a, {t})
         /\ \A p : Writes(a, p, {}) => Within(a, {})
         /\ UNCHANGED <<committed, lastId, clock, tx, alone>> => Within(a, {})
<1>1. ASSUME NEW t, Inserts(a, t)
      PROVE  Within(a, {t})
  BY <1>1, InsertsSeen DEF Inserts, Within
<1>2. ASSUME NEW p, NEW t, Writes(a, p, {t})
      PROVE  Within(a, {t})
  <2>1. /\ \A u \in {t} : u \in Trace /\ u.id = lastId + 1 /\ u.ts = tx[a].ts
        /\ lastId' = lastId + 1 /\ UNCHANGED <<log, profile, clock, alone>>
    BY <1>2 DEF Writes
  <2>2. tx'[a].traces = tx[a].traces \cup {t} /\ tx'[a].ts = tx[a].ts
    BY <1>2, WritesSeen
  <2>3. QED
    BY <2>1, <2>2 DEF Within
<1>3. ASSUME NEW p, Writes(a, p, {})
      PROVE  Within(a, {})
  <2>1. lastId' = lastId /\ UNCHANGED <<log, profile, clock, alone>>
    BY <1>3 DEF Writes
  <2>2. tx'[a].traces = tx[a].traces \cup {} /\ tx'[a].ts = tx[a].ts
    BY <1>3, WritesSeen
  <2>3. QED
    BY <2>1, <2>2 DEF Within
<1>4. ASSUME UNCHANGED <<committed, lastId, clock, tx, alone>>
      PROVE  Within(a, {})
  BY <1>4 DEF Within, committed
<1>5. QED
  BY <1>1, <1>2, <1>3, <1>4

LEMMA WithinStep ==
  ASSUME TypeOK, NEW a \in Actors, Between(a), Step(a), ~Begin(a), ~Commit(a), ~Rollback(a)
  PROVE  \E S : Within(a, S)
<1>1. pc[a] # "idle" /\ pc'[a] # "idle"
  <2>1. CASE ReadPart(a)
    BY <2>1 DEF ReadPart, Between, Rebuilding
  <2>2. CASE ~ReadPart(a)
    BY <2>2, Locals DEF Step, LogTrace, Observe, Replay, Merge, CheckOpen, NotRecurred, OpenWeakness,
       Append, Link, Rebuild, WriteProfile, Call, Return
  <2>3. QED
    BY <2>1, <2>2
<1>2. CASE LogTrace(a)
  BY <1>1, <1>2, LogTraceRows, WithinByRows
<1>3. CASE Observe(a)
  BY <1>1, <1>3, ObserveRows, WithinByRows
<1>4. CASE Merge(a)
  BY <1>1, <1>4, MergeRows, WithinByRows
<1>5. CASE OpenWeakness(a)
  BY <1>1, <1>5, OpenRows, WithinByRows
<1>6. CASE Append(a)
  BY <1>1, <1>6, AppendRows, WithinByRows
<1>7. CASE Link(a)
  BY <1>1, <1>7, LinkRows, WithinByRows
<1>8. CASE WriteProfile(a)
  BY <1>1, <1>8, WholeRows, WithinByRows
<1>9. CASE Replay(a) \/ CheckOpen(a) \/ NotRecurred(a) \/ Rebuild(a) \/ ReadPart(a)
  <2>1. UNCHANGED <<committed, lastId, clock, tx, alone>>
    BY <1>9 DEF Replay, CheckOpen, NotRecurred, Rebuild, ReadPart
  <2>2. QED
    BY <1>1, <2>1, WithinByRows
<1>10. QED
  BY <1>2, <1>3, <1>4, <1>5, <1>6, <1>7, <1>8, <1>9 DEF Step

LEMMA TracesTyped ==
  ASSUME TypeOK
  PROVE  /\ \A t \in Everywhere : t \in Trace /\ t.id \in Nat /\ t.ts \in Nat
         /\ \A a \in Actors : tx[a].ts \in Nat
         /\ lastId \in Nat /\ clock \in Nat
<1>1. \A t \in Everywhere : t \in Trace
  <2>1. log \subseteq Trace /\ \A a \in Actors : tx[a].traces \subseteq Trace
    BY DEF TypeOK
  <2>2. QED
    BY <2>1 DEF Everywhere
<1>2. \A t \in Trace : t.id \in Nat /\ t.ts \in Nat
  BY DEF Trace, Ids
<1>3. QED
  BY <1>1, <1>2 DEF TypeOK

LEMMA BegunTx ==
  ASSUME TypeOK, NEW a \in Actors, Begin(a)
  PROVE  tx'[a] = TxOf(clock + 1, {}, FALSE, Empty)
<1>1. clock + 1 \in Nat
  BY TracesTyped
<1>2. tx' = [tx EXCEPT ![a] = TxOf(clock + 1, {}, FALSE, Empty)]
  BY <1>1, Shapes DEF Begin
<1>3. QED
  BY <1>2 DEF TypeOK

LEMMA OrderedKept ==
  ASSUME Sound, Serial, NEW a \in Actors, Step(a)
  PROVE  Ordered'
<1>1. TypeOK /\ Between(a) /\ Ordered /\ Rested(a)
  BY DEF Sound, Serial
<1>2. \A b \in Actors \ {a} : tx'[b] = tx[b]
  BY <1>1, OthersKeepLocals
<1>3. tx[a].ts <= clock
  BY <1>1 DEF Rested
<1>4. ASSUME NEW S, Within(a, S)
      PROVE  Ordered'
  <2>1. \A t \in Everywhere' : t \in Everywhere \/ t \in S
    BY <1>2, <1>4 DEF Everywhere, Within
  <2>2. \A t \in Everywhere : t.id # lastId + 1
    BY <1>1, TracesTyped DEF Ordered
  <2>3. \A t, u \in Everywhere' : t.id = u.id => t = u
    BY <1>1, <1>4, <2>1, <2>2 DEF Ordered, Within
  <2>4. \A t \in Everywhere' : t.id <= lastId' /\ t.ts <= clock'
    BY <1>1, <1>3, <1>4, <2>1, TracesTyped DEF Ordered, Within
  <2>5. \A b \in Actors : \A t \in tx'[b].traces : t.ts = tx'[b].ts
    BY <1>1, <1>2, <1>4 DEF Ordered, Within
  <2>6. QED
    BY <2>3, <2>4, <2>5 DEF Ordered
<1>5. ASSUME tx'[a].traces = {}, log' \subseteq log \cup tx[a].traces, lastId' = lastId,
             clock' \in Nat, clock <= clock'
      PROVE  Ordered'
  <2>1. \A t \in Everywhere' : t \in Everywhere
    BY <1>2, <1>5 DEF Everywhere
  <2>2. \A t \in Everywhere' : t.id <= lastId' /\ t.ts <= clock'
    BY <1>1, <1>5, <2>1, TracesTyped DEF Ordered
  <2>3. \A b \in Actors : \A t \in tx'[b].traces : t.ts = tx'[b].ts
    BY <1>1, <1>2, <1>5 DEF Ordered
  <2>4. QED
    BY <1>1, <2>1, <2>2, <2>3 DEF Ordered
<1>6. CASE Begin(a)
  <2>1. tx'[a] = TxOf(clock + 1, {}, FALSE, Empty) /\ UNCHANGED <<log, lastId>> /\ clock' = clock + 1
    BY <1>1, <1>6, BegunTx DEF Begin, committed
  <2>2. tx'[a].traces = {} /\ clock' \in Nat /\ clock <= clock'
    BY <1>1, <2>1, TracesTyped DEF TxOf
  <2>3. QED
    BY <1>5, <2>1, <2>2
<1>7. CASE Commit(a) \/ Rollback(a)
  <2>1. Over(a) /\ log' \subseteq log \cup tx[a].traces
    BY <1>7 DEF Commit, Rollback, Undo, committed
  <2>2. tx'[a] = TxOf(0, {}, FALSE, Empty) /\ UNCHANGED <<lastId, clock>>
    BY <1>1, <2>1, Shapes DEF Over, TypeOK
  <2>3. tx'[a].traces = {} /\ clock' \in Nat /\ clock <= clock'
    BY <1>1, <2>2, TracesTyped DEF TxOf
  <2>4. QED
    BY <1>5, <2>1, <2>2, <2>3
<1>8. CASE ~Begin(a) /\ ~Commit(a) /\ ~Rollback(a)
  BY <1>1, <1>4, <1>8, WithinStep
<1>9. QED
  BY <1>6, <1>7, <1>8

\* A transaction that is solo after a step was the one to move, and was solo or
\* has just begun.
LEMMA SoloSteps ==
  ASSUME Sound, Serial, NEW a \in Actors, Step(a), NEW b \in Actors, Solo(b)'
  PROVE  b = a /\ (Solo(a) \/ Begin(a))
<1>1. TypeOK /\ Between(a) /\ Rested(a) /\ Rested(b)
  BY DEF Sound, Serial
<1>2. CASE Begin(a)
  BY <1>1, <1>2 DEF Begin, Solo, TypeOK
<1>3. CASE ~Begin(a)
  <2>1. alone' = alone
    BY <1>3 DEF Step, LogTrace, Observe, Replay, Merge, CheckOpen, NotRecurred, OpenWeakness,
       Append, Link, Rebuild, ReadPart, WriteProfile, Commit, Rollback, Over
  <2>2. pc[a] # "idle"
    <3>1. CASE ReadPart(a)
      BY <1>1, <3>1 DEF ReadPart, Between, Rebuilding
    <3>2. CASE ~ReadPart(a)
      BY <1>3, <3>2 DEF Step, LogTrace, Observe, Replay, Merge, CheckOpen, NotRecurred, OpenWeakness,
         Append, Link, Rebuild, WriteProfile, Commit, Rollback, Call
    <3>3. QED
      BY <3>1, <3>2
  <2>3. CASE b = a
    BY <2>1, <2>2, <2>3 DEF Solo
  <2>4. CASE b # a
    <3>1. pc'[b] = pc[b]
      BY <1>1, <2>4, OthersKeepLocals
    <3>2. Solo(b)
      BY <2>1, <3>1 DEF Solo
    <3>3. pc[a] = "idle"
      BY <1>1, <2>4, <3>2 DEF Rested
    <3>4. QED
      BY <2>2, <3>3
  <2>5. QED
    BY <2>3, <2>4
<1>4. QED
  BY <1>2, <1>3

LEMMA RestedKept ==
  ASSUME Sound, Serial, NEW a \in Actors, Step(a), NEW b \in Actors
  PROVE  Rested(b)'
<1>1. TypeOK /\ TypeOK' /\ Between(a) /\ Ordered /\ Rested(a) /\ Rested(b)
  BY TypesKept DEF Sound, Serial, Next
<1>2. \A d \in Actors \ {a} : tx'[d] = tx[d] /\ pc'[d] = pc[d]
  BY <1>1, OthersKeepLocals
<1>3. CASE Begin(a)
  <2>1. /\ tx'[a] = TxOf(clock + 1, {}, FALSE, Empty) /\ UNCHANGED log /\ clock' = clock + 1
        /\ pc'[a] = "open" /\ (alone'[a] <=> \A d \in Actors : tx[d].ts = 0)
    BY <1>1, <1>3, BegunTx, Locals DEF Begin, committed
  <2>2. tx'[a].ts = clock + 1
    BY <2>1 DEF TxOf
  <2>3. Solo(b)' => b = a /\ (\A d \in Actors \ {b} : pc'[d] = "idle") /\ \A t \in log' : t.ts < tx'[b].ts
    <3>1. ASSUME Solo(b)'
          PROVE  b = a
      BY <3>1, SoloSteps
    <3>2. ASSUME Solo(b)', b = a, NEW d \in Actors \ {a}
          PROVE  pc'[d] = "idle"
      BY <1>2, <2>1, <3>2 DEF Solo, Serial, Rested
    <3>3. \A t \in log : t.ts < clock + 1
      BY <1>1, TracesTyped DEF Ordered, Everywhere
    <3>4. QED
      BY <3>1, <3>2, <3>3, <2>1, <2>2
  <2>4. CASE b = a
    <3>1. tx'[a].ts <= clock' /\ tx'[a].ts # 0
      <4>1. clock \in Nat
        BY <1>1, TracesTyped
      <4>2. tx'[a].ts = clock + 1 /\ clock' = clock + 1
        BY <2>1, <2>2
      <4>3. QED
        BY <4>1, <4>2
    <3>2. pc'[a] # "idle"
      BY <2>1
    <3>3. QED
      BY <2>3, <2>4, <3>1, <3>2 DEF Rested
  <2>5. CASE b # a
    <3>1. tx[b].ts <= clock'
      BY <1>1, <2>1, TracesTyped DEF Rested
    <3>2. QED
      BY <1>1, <1>2, <2>3, <2>5, <3>1 DEF Rested
  <2>6. QED
    BY <2>4, <2>5
<1>4. CASE Commit(a) \/ Rollback(a)
  <2>1. Over(a)
    BY <1>4 DEF Commit, Rollback
  <2>2. tx'[a] = NoTx /\ pc'[a] = "idle" /\ UNCHANGED <<clock, alone>>
    BY <1>1, <2>1 DEF Over, TypeOK
  <2>3. NoTx.ts = 0
    BY DEF NoTx
  <2>4. ~Solo(b)'
    <3>1. ASSUME Solo(b)'
          PROVE  FALSE
      <4>1. b = a
        BY <3>1, SoloSteps
      <4>2. QED
        BY <2>2, <3>1, <4>1 DEF Solo
    <3>2. QED
      BY <3>1
  <2>5. QED
    BY <1>1, <1>2, <2>2, <2>3, <2>4, TracesTyped DEF Rested
<1>5. CASE ~Begin(a) /\ ~Commit(a) /\ ~Rollback(a)
  <2>1. PICK S : Within(a, S)
    BY <1>1, <1>5, WithinStep
  <2>2. Solo(b)' => Solo(b)
    BY <1>5, SoloSteps
  <2>3. QED
    BY <1>1, <1>2, <2>1, <2>2 DEF Rested, Within
<1>6. QED
  BY <1>3, <1>4, <1>5

\* The trace a solo transaction inserts comes last.
LEMMA NewIsLast ==
  ASSUME Sound, Serial, NEW a \in Actors, Solo(a), NEW t, t.id = lastId + 1, t.ts = tx[a].ts
  PROVE  \A u \in VisibleLog(a) : Before(u, t) /\ ~Before(t, u) /\ u.id # t.id
<1>1. TypeOK /\ Ordered /\ Rested(a)
  BY DEF Sound, Serial
<1>2. ASSUME NEW u \in VisibleLog(a)
      PROVE  u.id \in Nat /\ u.ts \in Nat /\ u.id <= lastId /\ (u.ts < tx[a].ts \/ u.ts = tx[a].ts)
  <2>1. u \in Everywhere
    BY DEF VisibleLog, Everywhere
  <2>2. u \in log \/ u \in tx[a].traces
    BY DEF VisibleLog
  <2>3. QED
    BY <1>1, <2>1, <2>2, TracesTyped DEF Ordered, Rested
<1>3. lastId \in Nat /\ tx[a].ts \in Nat
  BY <1>1, TracesTyped
<1>4. QED
  BY <1>2, <1>3 DEF Before

-----------------------------------------------------------------------------
(* What a solo transaction has read.                                       *)

LEMMA ReadSoundKept ==
  ASSUME Sound, Serial, NEW a \in Actors, Step(a), NEW b \in Actors
  PROVE  ReadSound(b)'
<1> SUFFICES ASSUME Solo(b)' PROVE ReadSound(b)'
  BY DEF ReadSound
<1>1. TypeOK /\ Between(a) /\ ReadSound(a) /\ b = a
  BY SoloSteps DEF Sound, Serial
<1> DEFINE L == VisibleLog(a)
<1>2. ASSUME UNCHANGED <<committed, tx>>
      PROVE  L' = L
  BY <1>2 DEF VisibleLog, committed
<1>3. CASE Replay(a)
  <2>1. PICK c \in Concepts :
          /\ read' = [read EXCEPT ![a] = [read[a] EXCEPT !.mastery =
                        [read[a].mastery EXCEPT ![c] = Evidence(VisibleLog(a), c)]]]
          /\ at' = [at EXCEPT ![a] = [at[a] EXCEPT !.concept = c]]
          /\ pc' = [pc EXCEPT ![a] = "merge"]
    BY <1>1, <1>3, ReplayReads
  <2>2. L' = L
    BY <1>2, <1>3 DEF Replay
  <2> HIDE DEF L
  <2>3. /\ read[a] \in Profile /\ at[a] \in [concept : Concepts, id : Nat]
        /\ pc'[a] = "merge" /\ at'[a] = [at[a] EXCEPT !.concept = c]
    BY <1>1, <2>1, Locals
  <2>4. at'[a].concept = c
    BY <2>3
  <2> DEFINE E == Evidence(L, c)
             M == [read[a].mastery EXCEPT ![c] = E]
  <2>5. read'[a] = [read[a] EXCEPT !.mastery = M]
    BY <1>1, <2>1, Locals DEF L
  <2>6. M[c] = E
    BY <2>3 DEF Profile
  <2> HIDE DEF M, E
  <2>7. read'[a].mastery = M
    BY <2>3, <2>5 DEF Profile
  <2>8. read'[a].mastery[at'[a].concept] = Evidence(L', at'[a].concept)
    BY <2>2, <2>4, <2>6, <2>7 DEF E
  <2>9. QED
    BY <1>1, <2>3, <2>8 DEF ReadSound, Rebuilding, L
<1>4. CASE Rebuild(a)
  <2>1. /\ pc'[a] \in Rebuilding /\ read' = read /\ pc[a] = "open"
        /\ left'[a] = WithEvidence(a) \cup Others \/ (pc'[a] # "rebuild" /\ left'[a] = WithEvidence(a))
    BY <1>1, <1>4, Locals DEF Rebuild, Rebuilding, Call
  <2>2. L' = L
    BY <1>2, <1>4 DEF Rebuild
  <2>3. read'[a] = Empty
    BY <1>1, <2>1 DEF Between
  <2>4. \A c \in Concepts \ left'[a] : Evidence(L, c) = {}
    BY <2>1 DEF WithEvidence
  <2>5. \A c \in Concepts : read'[a].mastery[c] = {}
    BY <2>3 DEF Empty
  <2>6. pc'[a] = "rebuild" => Recents \ left'[a] = {} /\ "weaknesses" \in left'[a]
    BY <2>1 DEF Others
  <2>7. pc'[a] # "merge"
    BY <2>1 DEF Rebuilding
  <2> HIDE DEF L
  <2>8. QED
    BY <1>1, <2>2, <2>4, <2>5, <2>6, <2>7 DEF ReadSound, L
<1>5. CASE ReadPart(a)
  <2>1. PICK p \in left[a], r \in Profile :
          /\ left' = [left EXCEPT ![a] = left[a] \ {p}]
          /\ read' = [read EXCEPT ![a] = r]
          /\ \/ /\ p \in Concepts
                /\ r.mastery = [read[a].mastery EXCEPT ![p] = Evidence(VisibleLog(a), p)]
                /\ r.weaknesses = read[a].weaknesses /\ r.recent = read[a].recent
             \/ /\ p \in Recents
                /\ r.mastery = read[a].mastery /\ r.weaknesses = read[a].weaknesses
                /\ r.recent = [read[a].recent EXCEPT ![p] = Recent(VisibleLog(a), p)]
             \/ /\ p = "weaknesses"
                /\ r.mastery = read[a].mastery /\ r.weaknesses = Replayed(VisibleLog(a))
                /\ r.recent = read[a].recent
    BY <1>1, <1>5, PartReads, Zenon
  <2>2. pc' = pc /\ pc[a] \in Rebuilding /\ L' = L /\ ~Begin(a)
    BY <1>1, <1>2, <1>5 DEF ReadPart, Between, Begin, Rebuilding
  <2>3. Solo(a)
    BY <2>2, SoloSteps
  <2> HIDE DEF L
  <2>4. /\ read[a] \in Profile /\ read'[a] = r /\ left'[a] = left[a] \ {p}
    BY <1>1, <2>1, Locals
  <2>5. /\ \A c \in Concepts \ left[a] : read[a].mastery[c] = Evidence(L, c)
        /\ pc[a] = "rebuild" =>
             /\ \A k \in Recents \ left[a] : read[a].recent[k] = Recent(L, k)
             /\ "weaknesses" \notin left[a] => read[a].weaknesses = Replayed(L)
    BY <1>1, <2>2, <2>3 DEF ReadSound, L
  <2>6. p \in Concepts => p \notin Recents /\ p # "weaknesses"
    BY ConceptAssumption
  <2>7. p \in Recents => p # "weaknesses"
    BY DEF Recents
  <2>8. \A c \in Concepts \ left'[a] : read'[a].mastery[c] = Evidence(L, c)
    BY <2>1, <2>4, <2>5, <2>6 DEF Profile, L
  <2>9. pc[a] = "rebuild" => \A k \in Recents \ left'[a] : read'[a].recent[k] = Recent(L, k)
    BY <2>1, <2>4, <2>5, <2>6, <2>7 DEF Profile, L
  <2>10. pc[a] = "rebuild" /\ "weaknesses" \notin left'[a] => read'[a].weaknesses = Replayed(L)
    BY <2>1, <2>4, <2>5, <2>6, <2>7 DEF L
  <2>11. pc[a] # "merge"
    BY <2>2 DEF Rebuilding
  <2>12. QED
    BY <1>1, <2>2, <2>8, <2>9, <2>10, <2>11 DEF ReadSound, L
<1>6. CASE ~Replay(a) /\ ~Rebuild(a) /\ ~ReadPart(a)
  <2>1. pc'[a] \notin {"merge"} \cup Rebuilding
    BY <1>1, <1>6, Locals DEF Step, Begin, LogTrace, Observe, Merge, CheckOpen, NotRecurred, OpenWeakness,
       Append, Link, WriteProfile, Commit, Rollback, Over, Call, Return, Rebuilding
  <2>2. QED
    BY <1>1, <2>1 DEF ReadSound, Rebuilding
<1>7. QED
  BY <1>3, <1>4, <1>5, <1>6

-----------------------------------------------------------------------------
(* What a solo transaction has written.                                    *)

\* A step that leaves the mastery alone, and is not the trace of an update.
LEMMA MasteryStays ==
  ASSUME Sound, Serial, NEW a \in Actors, Solo(a), profile = Project(log), NEW S, Within(a, S),
         VisibleLog(a)' = VisibleLog(a) \cup S,
         VisibleProfile(a)'.mastery = VisibleProfile(a).mastery,
         \A t \in S : t.kind # "mastery_update"
  PROVE  MasteryHeld(a)'
<1>1. MasteryHeld(a) /\ TypeOK
  BY DEF Sound, Serial, WrittenSound
<1>2. ASSUME NEW c \in Concepts, FollowedUp(a, c)'
      PROVE  VisibleProfile(a)'.mastery[c] = Evidence(VisibleLog(a)', c)
  <2>1. \A t \in tx[a].traces \cup S : t.kind \in MasteryKinds /\ t.concept = c =>
          \E u \in tx[a].traces \cup S : u.kind = "mastery_update" /\ u.concept = c /\ u.id > t.id
    BY <1>2 DEF FollowedUp, Within
  <2>2. FollowedUp(a, c)
    BY <2>1 DEF FollowedUp
  <2>3. ASSUME NEW t \in S, t.kind \in MasteryKinds, t.concept = c
        PROVE  FALSE
    <3>1. PICK u \in tx[a].traces : u.id > t.id
      BY <2>1, <2>3
    <3>2. u \in Everywhere
      BY DEF Everywhere
    <3>3. u.id \in Nat /\ u.id <= lastId /\ t.id = lastId + 1 /\ lastId \in Nat
      BY <1>1, <3>2, TracesTyped DEF Serial, Ordered, Within
    <3>4. QED
      BY <3>1, <3>3
  <2>4. Evidence(VisibleLog(a) \cup S, c) = Evidence(VisibleLog(a), c)
    BY <2>3 DEF Evidence
  <2>5. QED
    BY <1>1, <2>2, <2>4 DEF MasteryHeld
<1>3. QED
  BY <1>2 DEF MasteryHeld

LEMMA NothingToAppend ==
  ASSUME NEW a
  PROVE  /\ pc[a] # "append" => ToAppend(a) = {}
         /\ pc'[a] # "append" => ToAppend(a)' = {}
BY DEF ToAppend

\* A step that leaves the rest alone, and is not the trace of an opening or a link.
LEMMA RestStays ==
  ASSUME Sound, Serial, NEW a \in Actors, Solo(a), profile = Project(log), NEW S, Within(a, S),
         VisibleLog(a)' = VisibleLog(a) \cup S,
         VisibleProfile(a)'.weaknesses = VisibleProfile(a).weaknesses,
         VisibleProfile(a)'.recent = VisibleProfile(a).recent,
         \A t \in S : t.kind \notin {"weakness_opened", "intervention_linked"},
         pc[a] # "append", pc'[a] # "append"
  PROVE  RestHeld(a)'
<1> DEFINE L == VisibleLog(a)
           V == VisibleProfile(a)
<1> SUFFICES ASSUME \A t \in tx'[a].traces : t.kind \notin Recents
             PROVE  /\ V'.weaknesses \cup ToAppend(a)' = Replayed(L')
                    /\ V'.recent = [k \in Recents |-> Recent(L', k)]
  BY DEF RestHeld
<1>1. /\ \A t \in tx[a].traces : t.kind \notin Recents
      /\ \A t \in S : t.kind \notin Recents
      /\ \A t, u \in S : t = u
  BY DEF Within
<1>2. V.weaknesses = Replayed(L) /\ V.recent = [k \in Recents |-> Recent(L, k)]
  <2>1. RestHeld(a)
    BY DEF Serial, WrittenSound
  <2>2. QED
    BY <1>1, <2>1, NothingToAppend DEF RestHeld
<1>3. ToAppend(a)' = {}
  BY NothingToAppend
<1>4. L' = L \cup S /\ V'.weaknesses = V.weaknesses /\ V'.recent = V.recent
  OBVIOUS
<1> HIDE DEF L, V
<1>5. Replayed(L') = Replayed(L) /\ \A k \in Recents : Recent(L', k) = Recent(L, k)
  <2>1. CASE S = {}
    <3>1. L' = L
      BY <1>4, <2>1
    <3>2. QED
      BY <3>1
  <2>2. CASE S # {}
    <3>1. PICK t \in S : S = {t}
      BY <1>1, <2>2
    <3>2. t.kind \notin Recents /\ t.kind \notin {"weakness_opened", "reflection_run", "intervention_linked"}
      BY <1>1 DEF Recents
    <3>3. L' = L \cup {t}
      BY <1>4, <3>1
    <3>4. QED
      BY <3>2, <3>3, ReplayedGrows, RecentGrows
  <2>3. QED
    BY <2>1, <2>2
<1>6. QED
  BY <1>2, <1>3, <1>4, <1>5

\* The first step of a transaction.
LEMMA BegunHeld ==
  ASSUME Sound, Serial, NEW a \in Actors, Begin(a), profile = Project(log)
  PROVE  MasteryHeld(a)' /\ RestHeld(a)'
<1>1. TypeOK /\ UNCHANGED <<log, profile>> /\ pc'[a] = "open"
  BY Locals DEF Sound, Begin, committed
<1>2. tx'[a] = TxOf(clock + 1, {}, FALSE, Empty)
  BY <1>1, BegunTx
<1>3. tx'[a].traces = {} /\ tx'[a].locked = FALSE
  BY <1>2 DEF TxOf
<1>4. VisibleLog(a)' = log /\ VisibleProfile(a)' = profile
  BY <1>1, <1>3 DEF VisibleLog, VisibleProfile
<1>5. /\ \A c \in Concepts : profile.mastery[c] = Evidence(log, c)
      /\ profile.weaknesses = Replayed(log) /\ profile.recent = [k \in Recents |-> Recent(log, k)]
  BY DEF Project
<1>6. QED
  BY <1>1, <1>4, <1>5, NothingToAppend DEF MasteryHeld, RestHeld

\* A step that changes no row.
LEMMA StillHeld ==
  ASSUME Sound, Serial, NEW a \in Actors, Solo(a), profile = Project(log),
         UNCHANGED <<committed, lastId, clock, tx, alone>>,
         pc[a] \notin {"idle", "append"}, pc'[a] \notin {"idle", "append"}
  PROVE  MasteryHeld(a)' /\ RestHeld(a)'
<1>1. /\ VisibleLog(a)' = VisibleLog(a) \cup {} /\ VisibleProfile(a)' = VisibleProfile(a)
  BY DEF VisibleLog, VisibleProfile, committed
<1>2. Within(a, {})
  BY WithinByRows DEF Sound
<1>3. QED
  BY <1>1, <1>2, MasteryStays, RestStays

\* An insert that only adds to the log, or that opens a weakness.
LEMMA TraceHeld ==
  ASSUME Sound, Serial, NEW a \in Actors, Solo(a), profile = Project(log), NEW t, Inserts(a, t),
         t.kind \notin {"mastery_update", "weakness_opened", "intervention_linked"},
         pc[a] = "open", pc'[a] = "open"
  PROVE  MasteryHeld(a)' /\ RestHeld(a)'
<1>1. TypeOK
  BY DEF Sound
<1>2. Within(a, {t})
  BY <1>1, WithinByRows
<1>3. VisibleLog(a)' = VisibleLog(a) \cup {t} /\ VisibleProfile(a)' = VisibleProfile(a)
  BY <1>1, InsertsSeen
<1>4. QED
  BY <1>2, <1>3, MasteryStays, RestStays

LEMMA OpenHeld ==
  ASSUME Sound, Serial, NEW a \in Actors, Solo(a), profile = Project(log), OpenWeakness(a)
  PROVE  MasteryHeld(a)' /\ RestHeld(a)'
<1>1. TypeOK
  BY DEF Sound
<1>2. PICK t : /\ Inserts(a, t) /\ t.kind = "weakness_opened" /\ pc[a] # "append"
               /\ at' = [at EXCEPT ![a] = [concept |-> t.concept, id |-> lastId + 1]]
               /\ pc' = [pc EXCEPT ![a] = "append"]
  BY <1>1, OpenRows
<1> DEFINE L == VisibleLog(a)
           V == VisibleProfile(a)
<1>3. L' = L \cup {t} /\ V' = V /\ tx'[a].traces = tx[a].traces \cup {t}
  BY <1>1, <1>2, InsertsSeen
<1>4. pc'[a] = "append" /\ at'[a].id = lastId + 1 /\ t.id = lastId + 1 /\ pc[a] # "idle"
      /\ t.ts = tx[a].ts
  BY <1>1, <1>2, Locals DEF Inserts, Solo
<1>5. MasteryHeld(a)'
  <2>1. Within(a, {t})
    BY <1>1, <1>2, <1>4, WithinByRows
  <2>2. QED
    BY <1>2, <1>3, <2>1, MasteryStays
<1>6. \A u \in L : ~Before(t, u) /\ u.id # lastId + 1
  BY <1>4, NewIsLast
<1>7. Replayed(L') = Replayed(L) \cup {Opened(t)} /\ \A k \in Recents : Recent(L', k) = Recent(L, k)
  BY <1>2, <1>3, <1>6, ReplayedOpens, RecentGrows DEF Recents
<1>8. ToAppend(a) = {} /\ ToAppend(a)' = {Opened(t)}
  <2>1. \A u \in tx[a].traces : u.id # lastId + 1
    BY <1>6 DEF VisibleLog
  <2>2. {u \in tx'[a].traces : pc'[a] = "append" /\ u.id = at'[a].id} = {t}
    BY <1>3, <1>4, <2>1
  <2>3. ToAppend(a)' = {Opened(o) : o \in {u \in tx'[a].traces : pc'[a] = "append" /\ u.id = at'[a].id}}
    BY DEF ToAppend, Opened
  <2>4. QED
    BY <1>2, <2>2, <2>3, NothingToAppend
<1>9. RestHeld(a)
  BY DEF Serial, WrittenSound
<1> HIDE DEF L, V
<1>10. (\A u \in tx'[a].traces : u.kind \notin Recents) =>
         V'.weaknesses \cup ToAppend(a)' = Replayed(L') /\ V'.recent = [k \in Recents |-> Recent(L', k)]
  BY <1>3, <1>7, <1>8, <1>9 DEF RestHeld, L, V
<1>11. QED
  BY <1>5, <1>10 DEF RestHeld, L, V

LEMMA AppendHeld ==
  ASSUME Sound, Serial, NEW a \in Actors, Solo(a), profile = Project(log), Append(a)
  PROVE  MasteryHeld(a)' /\ RestHeld(a)'
<1>1. TypeOK /\ Ordered /\ RestHeld(a)
  BY DEF Sound, Serial, WrittenSound
<1> DEFINE L == VisibleLog(a)
           V == VisibleProfile(a)
<1>2. PICK o, p :
        /\ o \in tx[a].traces
        /\ Writes(a, p, {}) /\ o.id = at[a].id /\ pc[a] = "append"
        /\ p.mastery = V.mastery /\ p.weaknesses = V.weaknesses \cup {Opened(o)}
        /\ p.recent = V.recent /\ Return(a)
  BY <1>1, AppendRows
<1>3. L' = L \cup {} /\ V' = p /\ tx'[a].traces = tx[a].traces \cup {} /\ pc'[a] = "open"
  <2>1. L' = L \cup {} /\ V' = p /\ tx'[a].traces = tx[a].traces \cup {}
    BY <1>1, <1>2, WritesSeen, Zenon
  <2>2. pc'[a] = "open"
    BY <1>1, <1>2, Returned
  <2>3. QED
    BY <2>1, <2>2
<1>4. MasteryHeld(a)'
  <2>1. Within(a, {})
    BY <1>1, <1>2, <1>3, WithinByRows
  <2>2. QED
    BY <1>2, <1>3, <2>1, MasteryStays
<1>5. ToAppend(a) = {Opened(o)} /\ ToAppend(a)' = {}
  <2>1. {t \in tx[a].traces : pc[a] = "append" /\ t.id = at[a].id} = {o}
    BY <1>1, <1>2 DEF Ordered, Everywhere
  <2>2. ToAppend(a) = {Opened(t) : t \in {u \in tx[a].traces : pc[a] = "append" /\ u.id = at[a].id}}
    BY DEF ToAppend, Opened
  <2>3. QED
    BY <1>3, <2>1, <2>2, NothingToAppend
<1> HIDE DEF L, V
<1>6. L' = L
  BY <1>3
<1>7. (\A u \in tx'[a].traces : u.kind \notin Recents) =>
        V'.weaknesses \cup ToAppend(a)' = Replayed(L') /\ V'.recent = [k \in Recents |-> Recent(L', k)]
  BY <1>1, <1>2, <1>3, <1>5, <1>6 DEF RestHeld, L, V
<1>8. QED
  BY <1>4, <1>7 DEF RestHeld, L, V

LEMMA LinkHeld ==
  ASSUME Sound, Serial, NEW a \in Actors, Solo(a), profile = Project(log), Link(a)
  PROVE  MasteryHeld(a)' /\ RestHeld(a)'
<1>1. TypeOK /\ RestHeld(a)
  BY DEF Sound, Serial, WrittenSound
<1> DEFINE L == VisibleLog(a)
           V == VisibleProfile(a)
<1>2. PICK w, u, t, p :
        /\ w \in V.weaknesses /\ u \in L
        /\ Writes(a, p, {t}) /\ t.kind = "intervention_linked" /\ t.about = w.id /\ t.cites = {u.id}
        /\ p.mastery = V.mastery /\ p.weaknesses = Linked(V.weaknesses, w.id, u.id)
        /\ p.recent = V.recent /\ pc[a] = "open" /\ UNCHANGED <<pc, at, left, read>>
  BY <1>1, LinkRows
<1>3. L' = L \cup {t} /\ V' = p /\ tx'[a].traces = tx[a].traces \cup {t}
  BY <1>1, <1>2, WritesSeen
<1>4. MasteryHeld(a)'
  <2>1. Within(a, {t})
    BY <1>1, <1>2, WithinByRows
  <2>2. QED
    BY <1>2, <1>3, <2>1, MasteryStays
<1>5. \A v \in L : Before(v, t)
  <2>1. t.id = lastId + 1 /\ t.ts = tx[a].ts
    BY <1>2 DEF Writes
  <2>2. QED
    BY <2>1, NewIsLast
<1>6. Replayed(L') = Linked(Replayed(L), w.id, u.id) /\ \A k \in Recents : Recent(L', k) = Recent(L, k)
  <2>1. Replayed(L \cup {t}) = Linked(Replayed(L), t.about, u.id)
    BY <1>2, <1>5, ReplayedLinks
  <2>2. t.kind \notin Recents
    BY <1>2 DEF Recents
  <2>3. QED
    BY <1>2, <1>3, <2>1, <2>2, RecentGrows
<1>7. ToAppend(a) = {} /\ ToAppend(a)' = {}
  BY <1>2, NothingToAppend
<1> HIDE DEF L, V
<1>8. (\A v \in tx'[a].traces : v.kind \notin Recents) =>
        V'.weaknesses \cup ToAppend(a)' = Replayed(L') /\ V'.recent = [k \in Recents |-> Recent(L', k)]
  <2>1. ASSUME \A v \in tx'[a].traces : v.kind \notin Recents
        PROVE  V.weaknesses = Replayed(L) /\ V.recent = [k \in Recents |-> Recent(L, k)]
    BY <1>1, <1>3, <1>7, <2>1 DEF RestHeld, L, V
  <2>2. QED
    BY <1>2, <1>3, <1>6, <1>7, <2>1
<1>9. QED
  BY <1>4, <1>8 DEF RestHeld, L, V

LEMMA MergeHeld ==
  ASSUME Sound, Serial, NEW a \in Actors, Solo(a), profile = Project(log), Merge(a)
  PROVE  MasteryHeld(a)' /\ RestHeld(a)'
<1>1. TypeOK /\ MasteryHeld(a) /\ ReadSound(a)
  BY DEF Sound, Serial, WrittenSound
<1> DEFINE L == VisibleLog(a)
           V == VisibleProfile(a)
           m == at[a].concept
<1>2. PICK t, p :
        /\ Writes(a, p, {t}) /\ t.kind = "mastery_update" /\ t.concept = m
        /\ p.mastery = [V.mastery EXCEPT ![m] = read[a].mastery[m]]
        /\ p.weaknesses = V.weaknesses /\ p.recent = V.recent
        /\ pc[a] = "merge" /\ m \in Concepts /\ Return(a)
  BY <1>1, MergeRows
<1>3. L' = L \cup {t} /\ V' = p /\ tx'[a].traces = tx[a].traces \cup {t} /\ pc'[a] = "open"
  BY <1>1, <1>2, WritesSeen, Returned
<1>4. RestHeld(a)'
  <2>1. Within(a, {t})
    BY <1>1, <1>2, <1>3, WithinByRows
  <2>2. QED
    BY <1>2, <1>3, <2>1, RestStays
<1>5. read[a].mastery[m] = Evidence(L, m) /\ V \in Profile
  BY <1>1, <1>2, VisibleTyped DEF ReadSound
<1>6. \A c \in Concepts : Evidence(L', c) = Evidence(L, c)
  BY <1>2, <1>3, EvidenceGrows DEF MasteryKinds
<1>7. \A c \in Concepts : c # m /\ FollowedUp(a, c)' => FollowedUp(a, c)
  BY <1>2, <1>3 DEF FollowedUp, MasteryKinds
<1> HIDE DEF L, V, m
<1>8. ASSUME NEW c \in Concepts, FollowedUp(a, c)'
      PROVE  V'.mastery[c] = Evidence(L', c)
  <2>1. CASE c = m
    BY <1>2, <1>3, <1>5, <1>6, <2>1 DEF Profile
  <2>2. CASE c # m
    <3>1. V.mastery[c] = Evidence(L, c)
      BY <1>1, <1>7, <1>8, <2>2 DEF MasteryHeld, L, V
    <3>2. V'.mastery[c] = V.mastery[c]
      BY <1>2, <1>3, <1>5, <2>2 DEF Profile
    <3>3. QED
      BY <1>6, <3>1, <3>2
  <2>3. QED
    BY <2>1, <2>2
<1>9. QED
  BY <1>4, <1>8 DEF MasteryHeld, L, V

LEMMA WholeHeld ==
  ASSUME Sound, Serial, NEW a \in Actors, Solo(a), profile = Project(log), WriteProfile(a)
  PROVE  MasteryHeld(a)' /\ RestHeld(a)'
<1>1. TypeOK /\ ReadSound(a) /\ ActorSound(a)
  BY DEF Sound, Serial
<1> DEFINE L == VisibleLog(a)
           V == VisibleProfile(a)
<1>2. PICK p :
        /\ Writes(a, p, {}) /\ left[a] = {} /\ Return(a)
        /\ \/ pc[a] = "rebuild" /\ p = read[a]
           \/ /\ pc[a] = "rebuild mastery"
              /\ p.mastery = [c \in Concepts |-> IF read[a].mastery[c] # {} THEN read[a].mastery[c]
                                                 ELSE V.mastery[c]]
              /\ p.weaknesses = V.weaknesses /\ p.recent = V.recent
  BY <1>1, WholeRows
<1>3. L' = L \cup {} /\ V' = p /\ tx'[a].traces = tx[a].traces \cup {} /\ pc'[a] = "open"
  <2>1. L' = L \cup {} /\ V' = p /\ tx'[a].traces = tx[a].traces \cup {}
    <3>1. Writes(a, p, {})
      BY <1>2
    <3>2. QED
      BY <1>1, <3>1, WritesSeen, Zenon
  <2>2. pc'[a] = "open"
    BY <1>1, <1>2, Returned
  <2>3. QED
    BY <2>1, <2>2
<1>4. \A c \in Concepts : read[a].mastery[c] = Evidence(L, c)
  BY <1>1, <1>2 DEF ReadSound, Rebuilding
<1>5. \A c \in Concepts : V.mastery[c] \subseteq Evidence(L, c)
  BY <1>1 DEF ActorSound, Backed
<1> HIDE DEF L, V
<1>6. L' = L
  BY <1>3
<1>7. \A c \in Concepts : p.mastery[c] = Evidence(L, c)
  <2>1. ASSUME NEW c \in Concepts, pc[a] = "rebuild mastery"
        PROVE  p.mastery[c] = Evidence(L, c)
    <3>1. p.mastery[c] = (IF Evidence(L, c) # {} THEN Evidence(L, c) ELSE V.mastery[c])
      BY <1>2, <1>4, <2>1
    <3>2. QED
      BY <1>5, <3>1
  <2>2. QED
    BY <1>2, <1>4, <2>1
<1>8. MasteryHeld(a)'
  BY <1>3, <1>6, <1>7 DEF MasteryHeld, L, V
<1>9. CASE pc[a] = "rebuild"
  <2>1. /\ p.weaknesses = Replayed(L) /\ p \in Profile
        /\ \A k \in Recents : p.recent[k] = Recent(L, k)
    BY <1>1, <1>2, <1>9, Locals DEF ReadSound, L
  <2>2. p.recent = [k \in Recents |-> Recent(L, k)]
    BY <2>1 DEF Profile
  <2>3. ToAppend(a)' = {}
    BY <1>3, NothingToAppend
  <2>4. V'.weaknesses \cup ToAppend(a)' = Replayed(L') /\ V'.recent = [k \in Recents |-> Recent(L', k)]
    BY <1>3, <1>6, <2>1, <2>2, <2>3
  <2>5. QED
    BY <1>8, <2>4 DEF RestHeld, L, V
<1>10. CASE pc[a] = "rebuild mastery"
  <2>1. Within(a, {})
    BY <1>1, <1>2, <1>3, <1>10, WithinByRows
  <2>2. V'.weaknesses = V.weaknesses /\ V'.recent = V.recent
    BY <1>2, <1>3, <1>10
  <2>3. RestHeld(a)'
    <3>1. VisibleLog(a)' = VisibleLog(a) \cup {}
      BY <1>3 DEF L
    <3>2. /\ VisibleProfile(a)'.weaknesses = VisibleProfile(a).weaknesses
          /\ VisibleProfile(a)'.recent = VisibleProfile(a).recent
      BY <2>2 DEF V
    <3>3. pc[a] # "append" /\ pc'[a] # "append"
      BY <1>3, <1>10
    <3>4. QED
      BY <2>1, <3>1, <3>2, <3>3, RestStays
  <2>4. QED
    BY <1>8, <2>3
<1>11. QED
  BY <1>2, <1>9, <1>10

LEMMA WrittenSoundKept ==
  ASSUME Sound, Serial, NEW a \in Actors, Step(a), NEW b \in Actors
  PROVE  WrittenSound(b)'
<1> SUFFICES ASSUME Solo(b)', profile' = Project(log') PROVE MasteryHeld(b)' /\ RestHeld(b)'
  BY DEF WrittenSound
<1>1. TypeOK /\ Between(a) /\ b = a /\ (Solo(a) \/ Begin(a))
  BY SoloSteps DEF Sound, Serial
<1>2. ~Commit(a) /\ ~Rollback(a)
  <2>1. ASSUME Over(a)
        PROVE  FALSE
    BY <1>1, <2>1, Locals DEF Over, Solo
  <2>2. QED
    BY <2>1 DEF Commit, Rollback
<1>3. profile = Project(log)
  BY <1>1, <1>2, RowsGrow
<1>4. CASE Begin(a)
  BY <1>1, <1>3, <1>4, BegunHeld
<1>5. CASE ~Begin(a)
  <2>1. Solo(a)
    BY <1>1, <1>5
  <2>2. CASE LogTrace(a)
    <3>1. pc[a] = "open" /\ pc' = pc
      BY <2>2 DEF LogTrace, Call
    <3>2. QED
      BY <1>1, <1>3, <2>1, <2>2, <3>1, LogTraceRows, TraceHeld
  <2>3. CASE Observe(a)
    <3>1. pc[a] = "open" /\ pc' = pc
      BY <2>3 DEF Observe, Call
    <3>2. QED
      BY <1>1, <1>3, <2>1, <2>3, <3>1, ObserveRows, TraceHeld
  <2>4. CASE Merge(a)
    BY <1>1, <1>3, <2>1, <2>4, MergeHeld
  <2>5. CASE OpenWeakness(a)
    BY <1>1, <1>3, <2>1, <2>5, OpenHeld
  <2>6. CASE Append(a)
    BY <1>1, <1>3, <2>1, <2>6, AppendHeld
  <2>7. CASE Link(a)
    BY <1>1, <1>3, <2>1, <2>7, LinkHeld
  <2>8. CASE WriteProfile(a)
    BY <1>1, <1>3, <2>1, <2>8, WholeHeld
  <2>9. CASE Replay(a) \/ CheckOpen(a) \/ NotRecurred(a) \/ Rebuild(a) \/ ReadPart(a)
    <3>1. UNCHANGED <<committed, lastId, clock, tx, alone>>
      BY <2>9 DEF Replay, CheckOpen, NotRecurred, Rebuild, ReadPart
    <3>2. CASE ReadPart(a)
      <4>1. pc' = pc /\ pc[a] \in Rebuilding
        BY <1>1, <3>2 DEF ReadPart, Between
      <4>2. QED
        BY <1>1, <1>3, <2>1, <3>1, <4>1, StillHeld DEF Rebuilding
    <3>3. CASE ~ReadPart(a)
      <4>1. pc[a] \notin {"idle", "append"} /\ pc'[a] \notin {"idle", "append"}
        BY <1>1, <2>9, <3>3, Locals DEF Replay, CheckOpen, NotRecurred, Rebuild, Call, Return
      <4>2. QED
        BY <1>1, <1>3, <2>1, <3>1, <4>1, StillHeld
    <3>4. QED
      BY <3>2, <3>3
  <2>10. QED
    BY <1>2, <1>5, <2>2, <2>3, <2>4, <2>5, <2>6, <2>7, <2>8, <2>9 DEF Step
<1>6. QED
  BY <1>4, <1>5

\* Serial is inductive, relative to Sound.
LEMMA SerialKept == Sound /\ Serial /\ [Next]_vars => Serial'
<1> SUFFICES ASSUME Sound, Serial, [Next]_vars PROVE Serial'
  OBVIOUS
<1>1. CASE UNCHANGED vars
  <2>1. \A a \in Actors : /\ VisibleLog(a)' = VisibleLog(a) /\ VisibleProfile(a)' = VisibleProfile(a)
                          /\ ToAppend(a)' = ToAppend(a) /\ (Solo(a)' <=> Solo(a))
    BY <1>1 DEF vars, VisibleLog, VisibleProfile, ToAppend, Solo
  <2>2. UNCHANGED <<log, profile, lastId, clock, tx, pc, at, left, read, alone>>
    BY <1>1 DEF vars
  <2>3. Ordered'
    BY <2>2 DEF Serial, Ordered, Everywhere
  <2>4. \A a \in Actors : Rested(a)' /\ ReadSound(a)'
    BY <2>1, <2>2 DEF Serial, Rested, ReadSound
  <2>5. \A a \in Actors : WrittenSound(a)'
    BY <2>1, <2>2 DEF Serial, WrittenSound, MasteryHeld, RestHeld, FollowedUp
  <2>6. QED
    BY <2>3, <2>4, <2>5 DEF Serial
<1>2. ASSUME NEW a \in Actors, Step(a)
      PROVE  Serial'
  BY <1>2, OrderedKept, RestedKept, ReadSoundKept, WrittenSoundKept DEF Serial
<1>3. QED
  BY <1>1, <1>2 DEF Next

LEMMA InitSerial == Init => Serial
<1> SUFFICES ASSUME Init PROVE Serial
  OBVIOUS
<1>1. \A a \in Actors : tx[a] = NoTx /\ pc[a] = "idle" /\ alone[a] = FALSE
  BY DEF Init
<1>2. NoTx.traces = {} /\ NoTx.ts = 0
  BY DEF NoTx
<1>3. Everywhere = {}
  BY <1>1, <1>2 DEF Init, Everywhere
<1>4. Ordered
  BY <1>1, <1>2, <1>3 DEF Ordered
<1>5. ASSUME NEW a \in Actors
      PROVE  Rested(a) /\ ReadSound(a) /\ WrittenSound(a)
  <2>1. ~Solo(a)
    BY <1>1 DEF Solo
  <2>2. clock = 0
    BY DEF Init
  <2>3. QED
    BY <1>1, <1>2, <2>1, <2>2 DEF Rested, ReadSound, WrittenSound
<1>6. QED
  BY <1>4, <1>5 DEF Serial

LEMMA AlwaysSerial == Spec => [](Sound /\ Serial)
<1>1. Init => Sound /\ Serial
  BY InitSound, InitSerial
<1>2. Sound /\ Serial /\ [Next]_vars => (Sound /\ Serial)'
  BY SoundKept, SerialKept
<1>3. QED
  BY <1>1, <1>2, PTL DEF Spec

\* A rebuild that overlaps no other transaction makes the profile what the log
\* implies, whatever it was before.
THEOREM ARebuildHeals == Spec => RebuildHeals
<1>1. Sound /\ Serial /\ [Next]_vars =>
        [\A a \in Actors :
           pc[a] = "rebuild" /\ WriteProfile(a) /\ alone[a]
             => VisibleProfile(a)' = Project(VisibleLog(a))]_vars
  <2> SUFFICES ASSUME Sound, Serial, NEW a \in Actors, pc[a] = "rebuild", WriteProfile(a), alone[a]
               PROVE  VisibleProfile(a)' = Project(VisibleLog(a))
    OBVIOUS
  <2>1. TypeOK /\ ReadSound(a) /\ Solo(a)
    BY DEF Sound, Serial, Solo
  <2>2. PICK p : Writes(a, p, {}) /\ left[a] = {} /\ p = read[a]
    BY <2>1, WholeRows
  <2>3. VisibleProfile(a)' = read[a] /\ read[a] \in Profile
    BY <2>1, <2>2, WritesSeen, Locals
  <2> DEFINE L == VisibleLog(a)
             r == read[a]
  <2>4. /\ \A c \in Concepts : r.mastery[c] = Evidence(L, c)
        /\ \A k \in Recents : r.recent[k] = Recent(L, k)
        /\ r.weaknesses = Replayed(L)
    BY <2>1, <2>2 DEF ReadSound, Rebuilding
  <2>5. r \in Profile
    BY <2>3
  <2> HIDE DEF L, r
  <2>6. r.mastery = [c \in Concepts |-> Evidence(L, c)] /\ r.recent = [k \in Recents |-> Recent(L, k)]
    BY <2>4, <2>5 DEF Profile
  <2>7. r = Project(L)
    BY <2>4, <2>5, <2>6 DEF Profile, Project
  <2>8. QED
    BY <2>3, <2>7 DEF L, r
<1>2. QED
  BY <1>1, AlwaysSerial, PTL DEF Spec, RebuildHeals

\* A transaction that overlaps no other, and follows its traces through, leaves
\* the cached profile equal to the replay of the log, whatever calls it is made of.
THEOREM SerialTransactionsKeep == Spec => SerialKeeps
<1>1. Sound /\ Serial /\ [Next]_vars =>
        [\A a \in Actors :
           Commit(a) /\ alone[a] /\ Settled(a) /\ profile = Project(log)
             => profile' = Project(log')]_vars
  <2> SUFFICES ASSUME Sound, Serial, NEW a \in Actors, Commit(a), alone[a], Settled(a),
                      profile = Project(log)
               PROVE  profile' = Project(log')
    OBVIOUS
  <2> DEFINE L == VisibleLog(a)
             V == VisibleProfile(a)
  <2>1. TypeOK /\ WrittenSound(a) /\ pc[a] = "open" /\ Solo(a)
    BY DEF Sound, Serial, Solo, Commit
  <2>2. log' = L /\ profile' = V /\ V \in Profile
    BY <2>1, VisibleTyped DEF Commit, VisibleLog
  <2>3. \A c \in Concepts : FollowedUp(a, c)
    BY DEF Settled, FollowedUp
  <2>4. \A t \in tx[a].traces : t.kind \notin Recents
    BY DEF Settled
  <2>5. ToAppend(a) = {}
    BY <2>1, NothingToAppend
  <2>6. MasteryHeld(a) /\ RestHeld(a)
    BY <2>1 DEF WrittenSound
  <2>7. \A c \in Concepts : V.mastery[c] = Evidence(L, c)
    BY <2>3, <2>6 DEF MasteryHeld
  <2>8. V.weaknesses = Replayed(L) /\ V.recent = [k \in Recents |-> Recent(L, k)]
    BY <2>4, <2>5, <2>6 DEF RestHeld
  <2> HIDE DEF L, V
  <2>9. V.mastery = [c \in Concepts |-> Evidence(L, c)]
    BY <2>2, <2>7 DEF Profile
  <2>10. V = Project(L)
    BY <2>2, <2>8, <2>9 DEF Profile, Project
  <2>11. QED
    BY <2>2, <2>10
<1>2. QED
  BY <1>1, AlwaysSerial, PTL DEF Spec, SerialKeeps
=============================================================================
