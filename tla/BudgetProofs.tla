---------------------------- MODULE BudgetProofs ----------------------------
(***************************************************************************)
(* Proofs about Budget for every run cap, daily cap and chain of models.   *)
(***************************************************************************)
EXTENDS Budget, TLAPS

USE DEF Agents, Answers

-----------------------------------------------------------------------------
(* The inductive invariant. *)

\* Without a run nothing is reserved or counted.
Idle == pc = "off" => work = NoWork /\ budget = NoBudget /\ ceiling = NoCeiling

\* Two calls are reserved exactly while judge() is at work or about to be settled.
Reserving == budget.reserved = IF pc \in {"call", "settle"} THEN WorstCase ELSE 0

\* The run's own accounts.
Accounts ==
  /\ budget.used = budget.counted + budget.reserved
  /\ budget.used <= RunCap
  /\ ceiling.count <= ceiling.cap /\ ceiling.cap <= RunCap

\* What is reserved still fits under the daily cap, and so does the ceiling on top of
\* what other runs of the day have counted.
Capped ==
  /\ ledger + budget.reserved <= DayCap
  /\ ledger + ceiling.cap <= DayCap + budget.counted

\* Apart from this run (its real calls, and those it counted) the ledger covers the day.
Covered == real + budget.counted <= ledger + slack + ceiling.count

\* What the commit at hand has cost.
Costs ==
  /\ budget.counted + budget.reserved <= work.before + WorstCase * work.asked
  /\ work.asked <= MaxJudges[work.agent]
  /\ pc = "agent" => work.asked < MaxJudges[work.agent]

Numbers == Idle /\ Reserving /\ Accounts /\ Capped /\ Covered /\ Costs
Inv == TypeOK /\ Numbers

-----------------------------------------------------------------------------
\* Every action of Next, by name: the case splits below follow it.
LEMMA StepCases ==
  ASSUME Next
  PROVE  \/ Start \/ (\E a \in Agents : NextCommit(a)) \/ End \/ Charge \/ Refuse
         \/ Settle \/ CacheHit \/ (\E v \in Answers : CallAnswers(v)) \/ CallFails
         \/ CallerError \/ Blocked \/ ChainFails \/ Crash \/ Midnight
  BY DEF Next, Step

LEMMA ConstantTypes ==
  /\ NoWork \in Works /\ NoBudget \in Budgets /\ NoCeiling \in Ceilings
  /\ NoCall \in Calls /\ NoCache \in Caches
  BY BudgetAssumption DEF NoWork, NoBudget, NoCeiling, NoCall, NoCache, Works, Budgets,
     Ceilings, Calls, Caches

\* The numbers as integers, for the arithmetic below.
LEMMA NumberTypes ==
  ASSUME TypeOK
  PROVE  /\ ledger \in Nat /\ real \in Nat /\ slack \in Nat
         /\ budget.used \in Nat /\ budget.reserved \in Nat /\ budget.counted \in Nat
         /\ ceiling.cap \in Nat /\ ceiling.count \in Nat
         /\ work.asked \in Nat /\ work.before \in Nat /\ work.agent \in Agents
         /\ RunCap \in Nat /\ DayCap \in Nat
  BY BudgetAssumption DEF TypeOK, Budgets, Ceilings, Works, WorstCase

LEMMA JudgesType == \A a \in Agents : MaxJudges[a] \in 1..2
  BY DEF MaxJudges

\* What a judge() is settled to is at most what was reserved for it.
LEMMA MadeType == Made \in 0..2
  BY DEF Made, Counted, WorstCase

LEMMA CallType ==
  ASSUME call \in Calls
  PROVE  /\ call.again \in BOOLEAN /\ call.attempt \in 1..2 /\ call.at \in Nat \ {0}
         /\ call.hit \in [1..2 -> BOOLEAN] /\ call.result \in Answers \cup {"error"}
  BY DEF Calls

\* A call keeps its type when a field is given another value of the field's.
LEMMA CallUpdate ==
  ASSUME NEW c \in Calls
  PROVE  /\ \A j \in Nat \ {0} : [c EXCEPT !.at = j] \in Calls
         /\ \A k \in 1..2 : \A j \in Nat \ {0} : [c EXCEPT !.attempt = k, !.at = j] \in Calls
         /\ \A v \in Answers \cup {"error"} : [c EXCEPT !.result = v] \in Calls
         /\ \A b \in BOOLEAN : [c EXCEPT !.again = b] \in Calls
         /\ \A k \in 1..2 : \A b \in BOOLEAN : [c EXCEPT !.hit[k] = b] \in Calls
  BY DEF Calls

\* Answer keeps the call's type and ends in "call" or "settle".
LEMMA AnswerType ==
  ASSUME call \in Calls, pc = "call", NEW v \in Answers, NEW h \in BOOLEAN, Answer(v, h)
  PROVE  call' \in Calls /\ pc' \in {"call", "settle"}
<1> DEFINE seen == [call EXCEPT !.hit[call.attempt] = h]
<1>1. seen \in Calls
  BY CallType, CallUpdate
<1>2. CASE v = "invalid" /\ call.attempt = 1
  <2>1. call' = [seen EXCEPT !.attempt = 2, !.at = 1] /\ pc' = pc
    BY <1>2 DEF Answer
  <2>2. 2 \in 1..2 /\ 1 \in Nat \ {0}
    OBVIOUS
  <2> QED BY <2>1, <2>2, <1>1, CallUpdate
<1>3. CASE ~(v = "invalid" /\ call.attempt = 1)
  <2>1. call' = [seen EXCEPT !.result = v] /\ pc' = "settle"
    BY <1>3 DEF Answer
  <2> QED BY <2>1, <1>1, CallUpdate
<1> QED BY <1>2, <1>3

-----------------------------------------------------------------------------
LEMMA InitInv == Init => Inv
<1> SUFFICES ASSUME Init PROVE Inv
  OBVIOUS
<1>1. TypeOK
  BY ConstantTypes DEF Init, TypeOK
<1>2. Numbers
  BY BudgetAssumption, JudgesType
     DEF Init, Numbers, Idle, Reserving, Accounts, Capped, Covered, Costs, NoWork,
         NoBudget, NoCeiling, WorstCase, MaxJudges
<1> QED BY <1>1, <1>2 DEF Inv

LEMMA NextType ==
  ASSUME Inv, [Next]_vars
  PROVE  TypeOK'
<1> USE BudgetAssumption DEF Inv, TypeOK, WorstCase
<1>1. CASE Start
  BY <1>1 DEF Start, HardCapOf, Left, Ceilings
<1>2. CASE \E a \in Agents : NextCommit(a)
  BY <1>2 DEF NextCommit, Works, Budgets
<1>3. CASE End
  BY <1>3, ConstantTypes DEF End, Off, Extra, Ceilings, Budgets
<1>4. CASE Charge
  <2>1. budget.reserved = 0
    BY <1>4 DEF Charge, Numbers, Reserving
  <2>2. budget' = [used |-> budget.used + 2, reserved |-> budget.reserved + 2,
                   counted |-> budget.counted]
    BY <1>4 DEF Charge, Budgets
  <2>3. budget' \in Budgets
    BY <2>1, <2>2, NumberTypes DEF Budgets
  <2>4. call' \in Calls
    BY <1>4, ConstantTypes, CallUpdate DEF Charge
  <2>5. work' \in Works
    BY <1>4 DEF Charge, Works
  <2> QED BY <1>4, <2>3, <2>4, <2>5 DEF Charge
<1>5. CASE Refuse
  BY <1>5 DEF Refuse
<1>6. CASE Settle
  <2>1. budget' \in Budgets
    BY <1>6, MadeType DEF Settle, Settled, Unused, Numbers, Reserving, Accounts, Budgets
  <2>2. ledger' \in Nat
    BY <1>6, MadeType DEF Settle
  <2>3. pc' \in {"ready", "agent"}
    BY <1>6 DEF Settle
  <2> QED BY <1>6, <2>1, <2>2, <2>3, ConstantTypes DEF Settle
<1>7. CASE CacheHit
  <2>1. cache[call.attempt][call.at] \in Answers /\ pc = "call"
    BY <1>7, CallType DEF CacheHit, InChain, Cached, Caches
  <2> QED BY <1>7, <2>1, AnswerType DEF CacheHit
<1>8. CASE \E v \in Answers : CallAnswers(v)
  <2> PICK v \in Answers : CallAnswers(v)
    BY <1>8
  <2>1. pc = "call" /\ Answer(v, FALSE) /\ Reach
    BY DEF CallAnswers, Reach, InChain
  <2>2. cache' \in Caches
    BY CallType DEF CallAnswers, Caches
  <2>3. call' \in Calls /\ pc' \in {"call", "settle"}
    BY <2>1, AnswerType
  <2>4. ceiling' \in Ceilings /\ real' \in Nat
    BY <2>1 DEF Reach, Ceilings
  <2> QED BY <2>1, <2>2, <2>3, <2>4 DEF Reach
<1>9. CASE CallFails
  <2>1. PICK j \in {NextModel} \cup NextProvider : call' = [call EXCEPT !.at = j]
    BY <1>9 DEF CallFails
  <2>2. j \in Nat \ {0}
    BY <2>1, CallType DEF NextModel, NextProvider
  <2>3. ceiling' \in Ceilings /\ real' \in Nat
    BY <1>9 DEF CallFails, Reach, Ceilings
  <2> QED BY <1>9, <2>1, <2>2, <2>3, CallUpdate DEF CallFails, Reach
<1>10. CASE CallerError
  <2>1. ceiling' \in Ceilings /\ real' \in Nat
    BY <1>10 DEF CallerError, Reach, Ceilings
  <2> QED BY <1>10, <2>1, CallUpdate DEF CallerError, Reach
<1>11. CASE Blocked
  <2>1. NextModel \in Nat \ {0}
    BY CallType DEF NextModel
  <2> QED BY <1>11, <2>1, CallUpdate DEF Blocked
<1>12. CASE ChainFails
  BY <1>12, CallUpdate DEF ChainFails
<1>13. CASE Crash
  BY <1>13, ConstantTypes DEF Crash, Off
<1>14. CASE Midnight
  BY <1>14 DEF Midnight
<1>15. CASE UNCHANGED vars
  BY <1>15 DEF vars
<1> QED BY <1>1, <1>2, <1>3, <1>4, <1>5, <1>6, <1>7, <1>8, <1>9, <1>10, <1>11, <1>12,
           <1>13, <1>14, <1>15, StepCases

-----------------------------------------------------------------------------
\* While judge() is at work only the ceiling and the real calls move, and together.
LEMMA ChainNumbers ==
  ASSUME Inv, pc = "call", pc' \in {"call", "settle"},
         UNCHANGED <<ledger, work, budget, slack>>,
         Reach \/ UNCHANGED <<ceiling, real>>
  PROVE  Numbers'
<1> USE NumberTypes DEF Inv, Numbers
<1>1. Idle' /\ Reserving' /\ Costs'
  BY DEF Idle, Reserving, Costs
<1>2. CASE Reach
  <2>1. ceiling'.cap = ceiling.cap /\ ceiling'.count = ceiling.count + 1 /\ real' = real + 1
        /\ ceiling.count < ceiling.cap
    BY <1>2 DEF Reach, TypeOK, Ceilings
  <2> QED BY <2>1, <1>1 DEF Accounts, Capped, Covered
<1>3. CASE UNCHANGED <<ceiling, real>>
  BY <1>3, <1>1 DEF Accounts, Capped, Covered
<1> QED BY <1>2, <1>3

\* What remains when a run is over.
LEMMA OffNumbers ==
  ASSUME Off, NEW l \in Nat, NEW r \in Nat, NEW s \in Nat,
         ledger' = l, real' = r, slack' = s, l <= DayCap, r <= l + s
  PROVE  Numbers'
<1>1. /\ pc' = "off" /\ work' = NoWork /\ budget' = NoBudget /\ ceiling' = NoCeiling
      /\ work'.asked = 0 /\ work'.before = 0 /\ work'.agent = "feedback"
      /\ budget'.used = 0 /\ budget'.reserved = 0 /\ budget'.counted = 0
      /\ ceiling'.cap = 0 /\ ceiling'.count = 0
  BY DEF Off, NoWork, NoBudget, NoCeiling
<1>2. Idle' /\ Reserving' /\ Accounts' /\ Costs'
  BY <1>1, BudgetAssumption DEF Idle, Reserving, Accounts, Costs, MaxJudges, WorstCase
<1>3. Capped' /\ Covered'
  BY <1>1, BudgetAssumption DEF Capped, Covered
<1> QED BY <1>2, <1>3 DEF Numbers

LEMMA NextNumbers ==
  ASSUME Inv, [Next]_vars
  PROVE  Numbers'
<1> USE DEF Inv
<1>a. /\ ledger \in Nat /\ real \in Nat /\ slack \in Nat
      /\ budget.used \in Nat /\ budget.reserved \in Nat /\ budget.counted \in Nat
      /\ ceiling.cap \in Nat /\ ceiling.count \in Nat
      /\ work.asked \in Nat /\ work.before \in Nat /\ work.agent \in Agents
      /\ RunCap \in Nat /\ DayCap \in Nat
  BY NumberTypes
<1> USE <1>a
<1>1. CASE Start
  <2>1. ceiling' = [cap |-> HardCapOf, count |-> 0] /\ HardCapOf \in Nat
        /\ HardCapOf <= RunCap /\ ledger + HardCapOf <= DayCap
    BY <1>1 DEF Start, HardCapOf, Left, Numbers, Capped
  <2> QED BY <1>1, <2>1
          DEF Start, Numbers, Idle, Reserving, Accounts, Capped, Covered, Costs, NoBudget,
              NoCeiling
<1>2. CASE \E a \in Agents : NextCommit(a)
  <2>1. PICK a \in Agents : NextCommit(a)
    BY <1>2
  <2>2. work'.agent = a /\ work'.asked = 0 /\ work'.before = budget.counted
    BY <2>1 DEF NextCommit
  <2>3. /\ pc = "ready" /\ pc' = "agent" /\ UNCHANGED <<ledger, budget, ceiling, real, slack>>
    BY <2>1 DEF NextCommit
  <2>4. Idle' /\ Reserving' /\ Accounts' /\ Capped' /\ Covered'
    BY <2>3 DEF Numbers, Idle, Reserving, Accounts, Capped, Covered
  <2>5. budget.reserved = 0 /\ MaxJudges[a] \in 1..2
    BY <2>3, JudgesType DEF Numbers, Reserving
  <2>6. Costs'
    BY <2>2, <2>3, <2>5 DEF Costs, WorstCase
  <2> QED BY <2>4, <2>6 DEF Numbers
<1>3. CASE End
  <2>1. budget.reserved = 0
    BY <1>3 DEF End, Numbers, Reserving
  <2> DEFINE l == ledger + Extra
  <2>2. l \in Nat /\ l <= DayCap /\ real <= l + slack
    BY <2>1 DEF Extra, Numbers, Accounts, Capped, Covered
  <2>3. Off /\ ledger' = l /\ real' = real /\ slack' = slack
    BY <1>3 DEF End
  <2> HIDE DEF l
  <2> QED BY <2>2, <2>3, OffNumbers
<1>4. CASE Charge
  <2>1. /\ budget'.used = budget.used + 2 /\ budget'.reserved = budget.reserved + 2
        /\ budget'.counted = budget.counted
    BY <1>4 DEF Charge, TypeOK, Budgets, WorstCase
  <2>2. work'.asked = work.asked + 1 /\ work'.agent = work.agent /\ work'.before = work.before
    BY <1>4 DEF Charge, TypeOK, Works
  <2>3. /\ pc = "agent" /\ pc' = "call" /\ UNCHANGED <<ledger, ceiling, real, slack>>
        /\ 2 <= RunCap - budget.used /\ ledger + budget.reserved + 2 <= DayCap
    BY <1>4 DEF Charge, Fits, WorstCase
  <2>4. budget.reserved = 0
    BY <2>3 DEF Numbers, Reserving
  <2>5. Idle' /\ Reserving'
    BY <2>1, <2>3, <2>4 DEF Idle, Reserving, WorstCase
  <2>6. Accounts' /\ Capped' /\ Covered'
    BY <2>1, <2>3 DEF Numbers, Accounts, Capped, Covered
  <2>7. MaxJudges[work.agent] \in 1..2
    BY JudgesType
  <2>8. Costs'
    BY <2>1, <2>2, <2>3, <2>7 DEF Numbers, Costs, WorstCase
  <2> QED BY <2>5, <2>6, <2>8 DEF Numbers
<1>5. CASE Refuse
  BY <1>5 DEF Refuse, Numbers, Idle, Reserving, Accounts, Capped, Covered, Costs
<1>6. CASE Settle
  <2>1. budget.reserved = 2
    BY <1>6 DEF Settle, Numbers, Reserving, WorstCase
  <2>2. /\ budget'.used = budget.used - (2 - Made) /\ budget'.reserved = 0
        /\ budget'.counted = budget.counted + Made
    BY <1>6, <2>1, MadeType DEF Settle, Settled, Unused, WorstCase
  <2>3. /\ ledger' = ledger + Made
        /\ UNCHANGED <<work, ceiling, real, slack>>
        /\ pc' \in {"ready", "agent"}
        /\ pc' = "agent" => work.asked < MaxJudges[work.agent]
    BY <1>6 DEF Settle
  <2> QED BY <2>1, <2>2, <2>3, MadeType, JudgesType
          DEF Numbers, Idle, Reserving, Accounts, Capped, Covered, Costs, WorstCase
<1>7. CASE CacheHit
  <2>1. cache[call.attempt][call.at] \in Answers /\ pc = "call"
    <3>1. call.attempt \in 1..2 /\ call.at \in 1..Models /\ pc = "call"
      BY <1>7, CallType, BudgetAssumption DEF CacheHit, InChain, TypeOK
    <3> QED BY <1>7, <3>1 DEF CacheHit, Cached, Caches, TypeOK
  <2>2. pc' \in {"call", "settle"}
    BY <1>7, <2>1, AnswerType DEF CacheHit, TypeOK
  <2> QED BY <1>7, <2>1, <2>2, ChainNumbers DEF CacheHit
<1>8. CASE \E v \in Answers : CallAnswers(v)
  <2>1. PICK v \in Answers : CallAnswers(v)
    BY <1>8
  <2>2. pc = "call" /\ Reach /\ pc' \in {"call", "settle"}
    BY <2>1, AnswerType DEF CallAnswers, Reach, InChain, TypeOK
  <2>3. UNCHANGED <<ledger, work, budget, slack>>
    BY <2>2 DEF Reach
  <2> QED BY <2>2, <2>3, ChainNumbers
<1>9. CASE CallFails \/ CallerError
  <2>1. pc = "call" /\ Reach /\ pc' \in {"call", "settle"}
    BY <1>9 DEF CallFails, CallerError, Reach, InChain
  <2>2. UNCHANGED <<ledger, work, budget, slack>>
    BY <2>1 DEF Reach
  <2> QED BY <2>1, <2>2, ChainNumbers
<1>10. CASE Blocked \/ ChainFails
  <2>1. /\ pc = "call" /\ pc' \in {"call", "settle"}
        /\ UNCHANGED <<ledger, work, budget, slack>> /\ UNCHANGED <<ceiling, real>>
    BY <1>10 DEF Blocked, ChainFails, InChain
  <2> QED BY <2>1, ChainNumbers
<1>11. CASE Crash
  <2> DEFINE s == slack + RunCap
  <2>1. s \in Nat /\ ledger <= DayCap /\ real <= ledger + s
    BY DEF Numbers, Accounts, Capped, Covered
  <2>2. Off /\ ledger' = ledger /\ real' = real /\ slack' = s
    BY <1>11 DEF Crash
  <2> HIDE DEF s
  <2> QED BY <2>1, <2>2, OffNumbers
<1>12. CASE Midnight
  <2>1. /\ ledger' = 0 /\ real' = 0 /\ slack' = IF pc = "off" THEN 0 ELSE RunCap
        /\ UNCHANGED <<pc, work, budget, ceiling>>
    BY <1>12 DEF Midnight
  <2>2. Idle' /\ Reserving' /\ Accounts' /\ Costs'
    BY <2>1 DEF Numbers, Idle, Reserving, Accounts, Costs
  <2>3. Capped'
    BY <2>1 DEF Numbers, Capped
  <2>4. Covered'
    BY <2>1 DEF Numbers, Accounts, Covered, Idle, NoBudget, NoCeiling
  <2> QED BY <2>2, <2>3, <2>4 DEF Numbers
<1>13. CASE UNCHANGED vars
  BY <1>13 DEF vars, Numbers, Idle, Reserving, Accounts, Capped, Covered, Costs
<1> QED BY <1>1, <1>2, <1>3, <1>4, <1>5, <1>6, <1>7, <1>8, <1>9, <1>10, <1>11, <1>12,
           <1>13, StepCases

LEMMA Inductive == Spec => []Inv
<1>1. Inv /\ [Next]_vars => Inv'
  BY NextType, NextNumbers DEF Inv
<1> QED BY <1>1, InitInv, PTL DEF Spec

-----------------------------------------------------------------------------
\* Every variable keeps its type.
THEOREM TypeCorrect == Spec => []TypeOK
<1>1. Inv => TypeOK
  BY DEF Inv
<1> QED BY <1>1, Inductive, PTL

\* No run uses or calls more than its cap (agents/budget.py:18).
THEOREM RunCapKept == Spec => []RunCapHolds
<1>1. Inv => RunCapHolds
  BY NumberTypes, BudgetAssumption DEF Inv, Numbers, Accounts, RunCapHolds
<1> QED BY <1>1, Inductive, PTL

\* The ledger of a day stays within the daily cap.
THEOREM LedgerKept == Spec => []LedgerWithinCap
<1>1. Inv => LedgerWithinCap
  BY NumberTypes DEF Inv, Numbers, Capped, LedgerWithinCap
<1> QED BY <1>1, Inductive, PTL

\* The daily cap holds for the calls providers really receive, but for one run's worth for
\* each killed run and for a run that came over midnight (scripts/run_cycle.py:743-745).
THEOREM DayCapKept == Spec => []DayCapHolds
<1>1. Inv => DayCapHolds
  BY NumberTypes DEF Inv, Numbers, Accounts, Capped, Covered, DayCapHolds
<1> QED BY <1>1, Inductive, PTL

\* Between runs the ledger covers every real call of the day, with the same exception.
THEOREM RealCallsCovered == Spec => []LedgerCovers
<1>1. Inv => LedgerCovers
  BY NumberTypes DEF Inv, Numbers, Idle, Covered, LedgerCovers, NoBudget, NoCeiling
<1> QED BY <1>1, Inductive, PTL

\* A commit costs at most the calls its agent may make (scripts/run_cycle.py:228-229).
THEOREM CommitCostKept == Spec => []CommitCost
<1>1. Inv => CommitCost
  BY NumberTypes DEF Inv, Numbers, Costs, CommitCost, MaxJudges, WorstCase
<1> QED BY <1>1, Inductive, PTL
=============================================================================
