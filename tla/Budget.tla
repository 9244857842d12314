------------------------------- MODULE Budget -------------------------------
(***************************************************************************)
(* The calls a cycle makes to an LLM provider and the three things that    *)
(* count them: the run's CallBudget (agents/budget.py), the UsageLedger    *)
(* file shared by the runs of a day, and the HardCap around the provider   *)
(* handlers (scripts/run_cycle.py:745-762).  The gateway (system/llm.py)   *)
(* is what a call costs: a chain of models, a cache, one corrective retry. *)
(* One run at a time: run_cycle holds an advisory lock.                    *)
(***************************************************************************)
EXTENDS Integers

CONSTANTS
  RunCap,     \* --llm-run-cap, the budget's max_calls
  DayCap,     \* --llm-daily-cap
  Models,     \* the length of the gateway's chain of models
  ProviderOf, \* the provider of each model of the chain
  MaxCommit,  \* bound: the commits of one run that reach an agent
  MaxCrash    \* bound: the runs that are killed in a day

WorstCase == 2
ThreeJudges == [feedback |-> 3, code |-> 1]
MaxJudges == [feedback |-> 2, code |-> 1]
Agents == {"feedback", "code"}

ASSUME BudgetAssumption ==
  /\ RunCap \in Nat /\ DayCap \in Nat /\ Models \in Nat
  /\ ProviderOf \in [1..Models -> Nat]
  /\ MaxCommit \in Nat /\ MaxCrash \in Nat

VARIABLES
  ledger,  \* the ledger file: the calls counted today (other days are never read)
  pc,      \* "off" (no run), "ready" (between commits), "agent", "call", "settle"
  work,    \* the commit at hand: its agent, the judge() calls it asked for, the
           \* count when it began, and how many commits the run has had
  budget,  \* the run's CallBudget: used, _reserved, and by_model's total
  ceiling, \* the run's HardCap: cap and count
  call,    \* the judge() call at hand
  cache,   \* what the gateway's CACHE holds for the two prompts of a repeated judge()
  real,    \* history: the calls providers really received today
  slack,   \* history: what the ledger may have missed of today
  crashes  \* history: the runs killed today

vars == <<ledger, pc, work, budget, ceiling, call, cache, real, slack, crashes>>

Answers == {"valid", "invalid"}
\* The state of the commit at hand, of a CallBudget, a HardCap, a judge() and the CACHE.
Works == [agent : Agents, asked : Nat, before : Nat, commits : Nat]
Budgets == [used : Nat, reserved : {0, WorstCase}, counted : Nat]
Ceilings == [cap : Nat, count : Nat]
Calls == [again : BOOLEAN, attempt : 1..2, at : Nat \ {0}, hit : [1..2 -> BOOLEAN],
          result : Answers \cup {"error"}]
Caches == [1..2 -> [1..Models -> Answers \cup {"none"}]]

NoWork == [agent |-> "feedback", asked |-> 0, before |-> 0, commits |-> 0]
NoBudget == [used |-> 0, reserved |-> 0, counted |-> 0]
NoCeiling == [cap |-> 0, count |-> 0]
NoCall == [again |-> FALSE, attempt |-> 1, at |-> 1, hit |-> [k \in 1..2 |-> FALSE],
           result |-> "error"]
NoCache == [k \in 1..2 |-> [m \in 1..Models |-> "none"]]

Init ==
  /\ pc = "off" /\ ledger = 0 /\ real = 0 /\ slack = 0 /\ crashes = 0
  /\ work = NoWork /\ budget = NoBudget /\ ceiling = NoCeiling
  /\ call = NoCall /\ cache = NoCache

-----------------------------------------------------------------------------
(* The run. *)

\* What is left of the daily cap.
Left == IF ledger < DayCap THEN DayCap - ledger ELSE 0
RunCapOnly == RunCap
HardCapOf == IF Left < RunCap THEN Left ELSE RunCap

\* The run's memory is gone.
Off ==
  /\ pc' = "off" /\ work' = NoWork /\ budget' = NoBudget /\ ceiling' = NoCeiling
  /\ call' = NoCall /\ cache' = NoCache

\* A run takes the lock, reads the ledger and wraps the handlers.
Start ==
  /\ pc = "off"
  /\ pc' = "ready" /\ ceiling' = [cap |-> HardCapOf, count |-> 0]
  /\ UNCHANGED <<ledger, work, budget, call, cache, real, slack, crashes>>

\* A graded commit reaches an agent: a failing one the Feedback Agent, a passing one the
\* Code Agent.
NextCommit(a) ==
  /\ pc = "ready" /\ work.commits < MaxCommit
  /\ pc' = "agent"
  /\ work' = [agent |-> a, asked |-> 0, before |-> budget.counted,
              commits |-> work.commits + 1]
  /\ UNCHANGED <<ledger, budget, ceiling, call, cache, real, slack, crashes>>

\* The real calls that the gateway's records do not show, at the end of a run.
NoExtra == 0
SignedExtra == ceiling.count - budget.counted
Extra == IF ceiling.count > budget.counted THEN ceiling.count - budget.counted ELSE 0

End ==
  /\ pc = "ready"
  /\ ledger' = ledger + Extra
  /\ Off
  /\ UNCHANGED <<real, slack, crashes>>

\* The process is killed.  The ledger file keeps what was settled, and the calls of this
\* run, at most RunCap, may be missing from it.
Crash ==
  /\ pc # "off" /\ crashes < MaxCrash
  /\ crashes' = crashes + 1
  /\ slack' = slack + RunCap
  /\ Off
  /\ UNCHANGED <<ledger, real>>

\* A run at work over midnight goes on with the ceiling it computed on the day before.
Midnight ==
  /\ ledger' = 0 /\ real' = 0 /\ crashes' = 0
  /\ slack' = IF pc = "off" THEN 0 ELSE RunCap
  /\ UNCHANGED <<pc, work, budget, ceiling, call, cache>>

-----------------------------------------------------------------------------
(* CallBudget. *)

FitsNow == WorstCase <= RunCap - budget.used /\ ledger + budget.reserved < DayCap
Fits ==
  /\ WorstCase <= RunCap - budget.used
  /\ ledger + budget.reserved + WorstCase <= DayCap

\* charge: the worst case is reserved before a judge().  The prompt may be one that the
\* process sent before (again); the corrective prompt of a rejected answer is new.
Charge ==
  /\ pc = "agent" /\ Fits
  /\ budget' = [budget EXCEPT !.used = @ + WorstCase, !.reserved = @ + WorstCase]
  /\ work' = [work EXCEPT !.asked = @ + 1]
  /\ \E b \in BOOLEAN : /\ b => work.asked = 0
                        /\ call' = [NoCall EXCEPT !.again = b]
  /\ pc' = "call"
  /\ UNCHANGED <<ledger, ceiling, cache, real, slack, crashes>>

\* BudgetExceeded: the agent makes no call and ends.
Refuse ==
  /\ pc = "agent" /\ ~Fits
  /\ pc' = "ready"
  /\ UNCHANGED <<ledger, work, budget, ceiling, call, cache, real, slack, crashes>>

\* model_counts: the records of judge() that were no cache hits; a success of the second
\* attempt comes without the record of the first.
Records == IF call.result = "valid" THEN {call.attempt} ELSE {1, 2}
Live == {k \in Records : ~call.hit[k]}
Counted == IF 2 \in Live THEN 2 ELSE IF 1 \in Live THEN 1 ELSE 0
\* settle_unknown when judge() raised anything but SchemaValidationError.
Made == IF call.result = "error" THEN WorstCase ELSE Counted

Unused == IF Made < WorstCase THEN WorstCase - Made ELSE 0
GiveAllBack ==
  [used |-> budget.used - WorstCase, reserved |-> budget.reserved - WorstCase,
   counted |-> budget.counted + Made]
Settled ==
  [used |-> budget.used - Unused, reserved |-> budget.reserved - WorstCase,
   counted |-> budget.counted + Made]

\* settle, settle_unknown: the reservation becomes what was made, in the budget and, at
\* once, in the ledger file.
Settle ==
  /\ pc = "settle"
  /\ budget' = Settled
  /\ ledger' = ledger + Made
  /\ pc' \in {"ready"} \cup {s \in {"agent"} : /\ call.result = "valid"
                                               /\ work.asked < MaxJudges[work.agent]}
  /\ call' = NoCall
  /\ UNCHANGED <<work, ceiling, cache, real, slack, crashes>>

-----------------------------------------------------------------------------
(* The gateway: judge, and the chain of models it walks. *)

InChain == pc = "call" /\ call.at <= Models
Cached == call.again /\ cache[call.attempt][call.at] # "none"

\* judge has an answer to its attempt: valid, or invalid and sent again once, or invalid
\* twice (SchemaValidationError).
Answer(v, h) ==
  LET seen == [call EXCEPT !.hit[call.attempt] = h]
  IN IF v = "invalid" /\ call.attempt = 1
     THEN call' = [seen EXCEPT !.attempt = 2, !.at = 1] /\ UNCHANGED pc
     ELSE call' = [seen EXCEPT !.result = v] /\ pc' = "settle"

CacheHit ==
  /\ InChain /\ Cached
  /\ Answer(cache[call.attempt][call.at], TRUE)
  /\ UNCHANGED <<ledger, work, budget, ceiling, cache, real, slack, crashes>>

\* HardCap: a handler below the ceiling is called and counted.
Reach ==
  /\ InChain /\ ~Cached /\ ceiling.count < ceiling.cap
  /\ ceiling' = [ceiling EXCEPT !.count = @ + 1]
  /\ real' = real + 1
  /\ UNCHANGED <<ledger, work, budget, slack, crashes>>

CallAnswers(v) ==
  /\ Reach
  /\ cache' = IF call.again THEN [cache EXCEPT ![call.attempt][call.at] = v] ELSE cache
  /\ Answer(v, FALSE)

SameModel == call.at
NextModel == call.at + 1

\* Where the chain goes on after a failed call: the next model, or, when the account is
\* exhausted (quota_billing), the next provider.
NextProvider ==
  {j \in (call.at + 1)..(Models + 1) :
     /\ j <= Models => ProviderOf[j] # ProviderOf[call.at]
     /\ \A m \in (call.at + 1)..(j - 1) : ProviderOf[m] = ProviderOf[call.at]}

CallFails ==
  /\ Reach
  /\ \E j \in {NextModel} \cup NextProvider : call' = [call EXCEPT !.at = j]
  /\ UNCHANGED <<pc, cache>>

\* A ValueError, TypeError or NotImplementedError of a handler ends judge at once.
CallerError ==
  /\ Reach
  /\ pc' = "settle" /\ call' = [call EXCEPT !.result = "error"]
  /\ UNCHANGED cache

\* CapReached is a failed call like any other: the chain goes on, and every model refuses.
Blocked ==
  /\ InChain /\ ~Cached /\ ceiling.count >= ceiling.cap
  /\ call' = [call EXCEPT !.at = NextModel]
  /\ UNCHANGED <<ledger, pc, work, budget, ceiling, cache, real, slack, crashes>>

\* Every model failed.
ChainFails ==
  /\ pc = "call" /\ call.at > Models
  /\ pc' = "settle" /\ call' = [call EXCEPT !.result = "error"]
  /\ UNCHANGED <<ledger, work, budget, ceiling, cache, real, slack, crashes>>

-----------------------------------------------------------------------------
Step ==
  \/ End \/ Charge \/ Refuse \/ Settle
  \/ CacheHit \/ (\E v \in Answers : CallAnswers(v)) \/ CallFails \/ CallerError
  \/ Blocked \/ ChainFails

Next ==
  \/ Start \/ (\E a \in Agents : NextCommit(a)) \/ Step \/ Crash \/ Midnight

Spec == Init /\ [][Next]_vars

\* A run that is not killed goes on: every call to a provider has a timeout.
FairSpec == Spec /\ WF_vars(Step)

-----------------------------------------------------------------------------
\* The values each variable takes.
TypeOK ==
  /\ ledger \in Nat /\ real \in Nat /\ slack \in Nat /\ crashes \in Nat
  /\ pc \in {"off", "ready", "agent", "call", "settle"}
  /\ work \in Works /\ budget \in Budgets /\ ceiling \in Ceilings
  /\ call \in Calls /\ cache \in Caches

\* agents/budget.py:18, "a cap is never exceeded, not even by a retry": what the run has used
\* is what it counted and what it has reserved, never more than its cap, and at most its cap
\* of real calls was made whatever the chain of models did.
RunCapHolds ==
  /\ budget.used = budget.counted + budget.reserved
  /\ budget.used <= RunCap /\ ceiling.count <= RunCap

\* The ledger of a day never counts more than the daily cap, with the failed calls that a
\* run adds at its end.
LedgerWithinCap == ledger <= DayCap

\* scripts/run_cycle.py:743-745: what providers receive in a day stays within the daily cap,
\* failed calls of the chain included, but for one run's worth of calls for each run of that
\* day that was killed or that came over from the day before.
DayCapHolds == real <= DayCap + slack

\* Between runs the ledger of today covers every real call, with the same exception.
LedgerCovers == pc = "off" => real <= ledger + slack

\* scripts/run_cycle.py:228-229: a commit costs at most 4 counted calls with the Feedback
\* Agent and 2 with the Code Agent.
CommitCost == budget.counted - work.before <= (IF work.agent = "feedback" THEN 4 ELSE 2)

\* A reservation is settled (or its run is killed): it does not stay in the budget.
NothingStaysReserved == budget.reserved > 0 ~> budget.reserved = 0
=============================================================================
