------------------------------ MODULE LLMBudget ------------------------------
(***************************************************************************)
(* The budget of LLM calls of a targeted study: RuntimeLLMBudgetGuard        *)
(* (factori/llm_budget.py) under TargetedLLMBudgetManager                    *)
(* (factori/targeted_llm_budget.py).  The limit belongs to the study, which  *)
(* may take several invocations of the command; the running total belongs to *)
(* the process, and starts again from the accounting records on disk.        *)
(*                                                                         *)
(* Out of each invocation's limit the manager holds back TailReserve calls,  *)
(* for the critics and the manuscript, and one for the adaptive questioner,  *)
(* until the study releases them.  The cost limit is the call limit once     *)
(* more: every call is estimated at the same cost.  A record is written      *)
(* after its call, so a process that dies in between loses the call.         *)
(***************************************************************************)
EXTENDS Integers

CONSTANT TailReserve   \* reserve_calls: what _paper_tail_call_reserve returns

ASSUME ReserveAssumption == TailReserve \in Nat

VARIABLES
  recorded,   \* the persisted attempts: [calls, repairs, transports]
  open,       \* is there a manager?
  config,     \* its limits, as configured: [calls, repairs]
  limit,      \* its guard's limits: [calls, repairs]
  usage,      \* its guard's running total: [calls, repairs]
  tailHeld,   \* is the paper tail's reserve held?
  askHeld,    \* is the questioner's call held?
  performed,  \* history: calls that reached the provider
  lost,       \* history: those whose record was never written
  granted,    \* history: the largest limits configured so far
  tailEver    \* history: has the tail's reserve ever been released?

budgetHistory == <<performed, lost, granted, tailEver>>
budgetVars == <<recorded, open, config, limit, usage, tailHeld, askHeld, budgetHistory>>

\* The larger of two numbers: the max(0, ...) of _active_budget, and history.
Larger(m, n) == IF m >= n THEN m ELSE n

\* Mutants of ActiveBudget: the tail's reserve is not held back; every repair is
\* given back, not only those whose transport failed.
ActiveBudgetWithoutTail(c, tail, ask, r) ==
  [calls   |-> Larger(0, c.calls - (IF ask THEN 1 ELSE 0)),
   repairs |-> c.repairs + r.transports]

ActiveBudgetRefundingAll(c, tail, ask, r) ==
  [calls   |-> Larger(0, c.calls - (IF tail THEN TailReserve ELSE 0)
                                 - (IF ask THEN 1 ELSE 0)),
   repairs |-> c.repairs + r.repairs]

\* _active_budget.  Failed transports of repairs do not count against the
\* repairs, but only those that are on record when the budget is computed.
ActiveBudget(c, tail, ask, r) ==
  [calls   |-> Larger(0, c.calls - (IF tail THEN TailReserve ELSE 0)
                                 - (IF ask THEN 1 ELSE 0)),
   repairs |-> c.repairs + r.transports]

\* can_spend_optional, and authorize_call for one call.
CanSpend(calls, repairs) ==
  /\ usage.calls + calls <= limit.calls
  /\ usage.repairs + repairs <= limit.repairs

\* remaining_optional_calls.
RemainingCalls == Larger(0, limit.calls - usage.calls)

\* A step named "llm-quality-repair" also counts as a repair.
Kinds == {"plain", "repair"}
Repairs(kind) == IF kind = "repair" THEN 1 ELSE 0
Outcomes == {"answer", "error", "transport"}

-----------------------------------------------------------------------------
BudgetInit ==
  /\ recorded = [calls |-> 0, repairs |-> 0, transports |-> 0]
  /\ open = FALSE
  /\ config = [calls |-> 0, repairs |-> 0]
  /\ limit = [calls |-> 0, repairs |-> 0]
  /\ usage = [calls |-> 0, repairs |-> 0]
  /\ tailHeld = FALSE /\ askHeld = FALSE
  /\ performed = 0 /\ lost = 0
  /\ granted = [calls |-> 0, repairs |-> 0]
  /\ tailEver = FALSE

\* __post_init__: the usage is what the accounting records add up to.
Open(c) ==
  /\ ~open
  /\ open' = TRUE /\ config' = c
  /\ limit' = ActiveBudget(c, TRUE, TRUE, recorded)
  /\ usage' = [calls |-> recorded.calls, repairs |-> recorded.repairs]
  /\ tailHeld' = TRUE /\ askHeld' = TRUE
  /\ granted' = [calls   |-> Larger(granted.calls, c.calls),
                 repairs |-> Larger(granted.repairs, c.repairs)]
  /\ UNCHANGED <<recorded, performed, lost, tailEver>>

\* Mutant of BudgetCall: the call is made without authorize_call.
BudgetCallUnguarded(kind, outcome) ==
  /\ open
  /\ performed' = performed + 1
  /\ usage' = [calls |-> usage.calls + 1, repairs |-> usage.repairs + Repairs(kind)]
  /\ recorded' = [calls      |-> recorded.calls + 1,
                  repairs    |-> recorded.repairs + Repairs(kind),
                  transports |-> recorded.transports +
                                 (IF outcome = "transport" THEN Repairs(kind) ELSE 0)]
  /\ UNCHANGED <<open, config, limit, tailHeld, askHeld, lost, granted, tailEver>>

\* call: authorized, made, and its record written, failed or not.
BudgetCall(kind, outcome) ==
  /\ open /\ CanSpend(1, Repairs(kind))
  /\ performed' = performed + 1
  /\ usage' = [calls |-> usage.calls + 1, repairs |-> usage.repairs + Repairs(kind)]
  /\ recorded' = [calls      |-> recorded.calls + 1,
                  repairs    |-> recorded.repairs + Repairs(kind),
                  transports |-> recorded.transports +
                                 (IF outcome = "transport" THEN Repairs(kind) ELSE 0)]
  /\ UNCHANGED <<open, config, limit, tailHeld, askHeld, lost, granted, tailEver>>

\* The process dies between the call and _persist_record.
LoseCall(kind) ==
  /\ open /\ CanSpend(1, Repairs(kind))
  /\ performed' = performed + 1 /\ lost' = lost + 1
  /\ open' = FALSE
  /\ UNCHANGED <<recorded, config, limit, usage, tailHeld, askHeld, granted, tailEver>>

\* release_paper_tail_reserve.
ReleaseTail ==
  /\ open /\ tailHeld
  /\ tailHeld' = FALSE /\ tailEver' = TRUE
  /\ limit' = ActiveBudget(config, FALSE, askHeld, recorded)
  /\ UNCHANGED <<recorded, open, config, usage, askHeld, performed, lost, granted>>

\* release_adaptive_questioner_reserve.
ReleaseAsk ==
  /\ open /\ askHeld
  /\ askHeld' = FALSE
  /\ limit' = ActiveBudget(config, tailHeld, FALSE, recorded)
  /\ UNCHANGED <<recorded, open, config, usage, tailHeld, budgetHistory>>

\* The process ends.
Close ==
  /\ open /\ open' = FALSE
  /\ UNCHANGED <<recorded, config, limit, usage, tailHeld, askHeld, budgetHistory>>

Configs == [calls : Nat, repairs : Nat]

BudgetNext ==
  \/ \E c \in Configs : Open(c)
  \/ \E kind \in Kinds, outcome \in Outcomes : BudgetCall(kind, outcome)
  \/ \E kind \in Kinds : LoseCall(kind)
  \/ ReleaseTail \/ ReleaseAsk \/ Close

BudgetSpec == BudgetInit /\ [][BudgetNext]_budgetVars

-----------------------------------------------------------------------------
BudgetTypeOK ==
  /\ recorded \in [calls : Nat, repairs : Nat, transports : Nat]
  /\ config \in Configs /\ limit \in Configs /\ usage \in Configs
  /\ granted \in Configs
  /\ open \in BOOLEAN /\ tailHeld \in BOOLEAN /\ askHeld \in BOOLEAN
  /\ tailEver \in BOOLEAN
  /\ performed \in Nat /\ lost \in Nat

\* The provider is called at most as often as the largest limit says, plus
\* once for each process that died between a call and its record: whatever the
\* number of invocations, the studies' total is not spent again by the next one.
CallsWithinGrant == performed <= granted.calls + lost

\* Until the study has released the paper tail once, its reserve is untouched:
\* no stage, repair or questioner before it, in whichever invocation, has used
\* a call of it.
TailReserveKept == tailEver \/ recorded.calls <= Larger(0, granted.calls - TailReserve)

\* The repairs that were answered stay within the allowance that the adaptive
\* limits add up to, although failed transports extend it.
RepairsWithinGrant == recorded.repairs - recorded.transports <= granted.repairs
=============================================================================
