--------------------------- MODULE LLMBudgetProofs ---------------------------
(***************************************************************************)
(* The budget of a targeted study holds across all its invocations, for      *)
(* every reserve, every sequence of limits, raised or lowered, and any       *)
(* number of processes that die.                                             *)
(*                                                                         *)
(* The guard compares its usage with its limit, both in memory.  What makes  *)
(* that a bound on the study is that the usage is the number on record       *)
(* whenever a process runs (Bound), and that the limit is one the invocation *)
(* was granted, less the reserves it holds.                                  *)
(***************************************************************************)
EXTENDS LLMBudget, TLAPS

USE DEF budgetHistory

\* While a process runs, its running total is what is on record, and its limits
\* are within what was granted.
Bound ==
  open =>
    /\ usage.calls = recorded.calls /\ usage.repairs = recorded.repairs
    /\ config.calls <= granted.calls /\ config.repairs <= granted.repairs
    /\ limit.calls <= granted.calls
    /\ limit.repairs <= granted.repairs + recorded.transports
    /\ ~tailEver => /\ tailHeld
                    /\ limit.calls <= Larger(0, granted.calls - TailReserve)

\* The calls on record and those that were lost are all the calls there were.
Accounted == performed = recorded.calls + lost /\ recorded.calls <= granted.calls

BudgetInv ==
  BudgetTypeOK /\ Bound /\ Accounted /\ TailReserveKept /\ RepairsWithinGrant

-----------------------------------------------------------------------------
\* A limit is never above what is configured, nor, with the tail held, above
\* what is left of it without the tail.
LEMMA ActiveBudgetBounds ==
  ASSUME NEW c \in Configs, NEW tail \in BOOLEAN, NEW ask \in BOOLEAN,
         NEW r \in [calls : Nat, repairs : Nat, transports : Nat]
  PROVE  /\ ActiveBudget(c, tail, ask, r) \in Configs
         /\ ActiveBudget(c, tail, ask, r).calls <= c.calls
         /\ ActiveBudget(c, tail, ask, r).repairs = c.repairs + r.transports
         /\ tail => ActiveBudget(c, tail, ask, r).calls <= Larger(0, c.calls - TailReserve)
<1> DEFINE held == IF tail THEN TailReserve ELSE 0
           one == IF ask THEN 1 ELSE 0
           room == Larger(0, c.calls - held - one)
<1>1. held \in Nat /\ one \in Nat /\ (tail => held = TailReserve)
  BY ReserveAssumption
<1>2. c.calls \in Nat /\ c.repairs \in Nat /\ r.transports \in Nat
  BY DEF Configs
<1>3. ActiveBudget(c, tail, ask, r) = [calls |-> room, repairs |-> c.repairs + r.transports]
  BY DEF ActiveBudget
<1> HIDE DEF held, one
<1>4. room \in Nat /\ room <= c.calls /\ room <= Larger(0, c.calls - held)
  BY <1>1, <1>2 DEF Larger
<1> HIDE DEF room
<1>5. ActiveBudget(c, tail, ask, r) \in Configs
  BY <1>2, <1>3, <1>4 DEF Configs
<1>6. tail => room <= Larger(0, c.calls - TailReserve)
  BY <1>1, <1>4
<1> QED BY <1>3, <1>4, <1>5, <1>6

LEMMA BudgetInitInv == BudgetInit => BudgetInv
<1> SUFFICES ASSUME BudgetInit PROVE BudgetInv
  OBVIOUS
<1>1. BudgetTypeOK
  BY DEF BudgetInit, BudgetTypeOK, Configs
<1>2. Bound
  BY DEF BudgetInit, Bound
<1>3. Accounted /\ RepairsWithinGrant
  BY DEF BudgetInit, Accounted, RepairsWithinGrant
<1>4. TailReserveKept
  BY ReserveAssumption DEF BudgetInit, TailReserveKept, Larger
<1> QED BY <1>1, <1>2, <1>3, <1>4 DEF BudgetInv

\* A new process takes over the recorded calls and is granted a limit.
LEMMA OpenKeeps ==
  ASSUME BudgetInv, NEW c \in Configs, Open(c)
  PROVE  BudgetInv'
<1> DEFINE a == ActiveBudget(c, TRUE, TRUE, recorded)
<1>1. /\ a \in Configs /\ a.calls <= c.calls
      /\ a.repairs = c.repairs + recorded.transports
      /\ a.calls <= Larger(0, c.calls - TailReserve)
  BY ActiveBudgetBounds DEF BudgetInv, BudgetTypeOK
<1>2. /\ limit' = a /\ config' = c /\ open' /\ open' \in BOOLEAN
      /\ recorded' = recorded /\ tailHeld' = TRUE /\ askHeld' = TRUE
      /\ performed' = performed /\ lost' = lost /\ tailEver' = tailEver
      /\ usage' = [calls |-> recorded.calls, repairs |-> recorded.repairs]
      /\ granted' = [calls   |-> Larger(granted.calls, c.calls),
                     repairs |-> Larger(granted.repairs, c.repairs)]
  BY DEF Open
<1> HIDE DEF a
<1>3. /\ granted' \in Configs
      /\ granted'.calls >= granted.calls /\ granted'.calls >= c.calls
      /\ granted'.repairs >= granted.repairs /\ granted'.repairs >= c.repairs
  BY <1>2 DEF BudgetInv, BudgetTypeOK, Configs, Larger
<1>4. BudgetTypeOK'
  BY <1>1, <1>2, <1>3 DEF BudgetInv, BudgetTypeOK, Configs
<1>5. Bound'
  BY <1>1, <1>2, <1>3, ReserveAssumption
     DEF Bound, BudgetInv, BudgetTypeOK, Configs, Larger
<1>6. Accounted'
  BY <1>2, <1>3 DEF Accounted, BudgetInv, BudgetTypeOK, Configs
<1>7. TailReserveKept'
  BY <1>2, <1>3, ReserveAssumption
     DEF TailReserveKept, BudgetInv, BudgetTypeOK, Configs, Larger
<1>8. RepairsWithinGrant'
  BY <1>2, <1>3 DEF RepairsWithinGrant, BudgetInv, BudgetTypeOK, Configs
<1> QED BY <1>4, <1>5, <1>6, <1>7, <1>8 DEF BudgetInv

\* A call that was authorized is one the limits have room for.
LEMMA BudgetCallKeeps ==
  ASSUME BudgetInv, NEW kind \in Kinds, NEW outcome \in Outcomes,
         BudgetCall(kind, outcome)
  PROVE  BudgetInv'
<1> DEFINE k == Repairs(kind)
           t == IF outcome = "transport" THEN k ELSE 0
<1>1. k \in {0, 1} /\ t \in {0, 1} /\ t <= k
  BY DEF Repairs, Kinds
<1>2. /\ open /\ usage.calls + 1 <= limit.calls /\ usage.repairs + k <= limit.repairs
      /\ performed' = performed + 1
      /\ usage' = [calls |-> usage.calls + 1, repairs |-> usage.repairs + k]
      /\ recorded' = [calls      |-> recorded.calls + 1,
                      repairs    |-> recorded.repairs + k,
                      transports |-> recorded.transports + t]
      /\ open' = open /\ config' = config /\ limit' = limit
      /\ tailHeld' = tailHeld /\ askHeld' = askHeld /\ lost' = lost
      /\ granted' = granted /\ tailEver' = tailEver
  BY DEF BudgetCall, CanSpend
<1> HIDE DEF k, t
<1>3. BudgetTypeOK'
  BY <1>1, <1>2 DEF BudgetInv, BudgetTypeOK, Configs
<1>4. Bound'
  BY <1>1, <1>2 DEF Bound, BudgetInv, BudgetTypeOK, Configs
<1>5. Accounted'
  BY <1>2 DEF Accounted, Bound, BudgetInv, BudgetTypeOK, Configs
<1>6. TailReserveKept'
  BY <1>2, ReserveAssumption
     DEF TailReserveKept, Bound, BudgetInv, BudgetTypeOK, Configs, Larger
<1>7. RepairsWithinGrant'
  <2>1. CASE t = k
    BY <2>1, <1>1, <1>2 DEF RepairsWithinGrant, BudgetInv, BudgetTypeOK, Configs
  <2>2. CASE t # k
    BY <2>2, <1>1, <1>2 DEF RepairsWithinGrant, Bound, BudgetInv, BudgetTypeOK, Configs
  <2> QED BY <2>1, <2>2
<1> QED BY <1>3, <1>4, <1>5, <1>6, <1>7 DEF BudgetInv

LEMMA LoseCallKeeps ==
  ASSUME BudgetInv, NEW kind \in Kinds, LoseCall(kind)
  PROVE  BudgetInv'
<1>1. /\ performed' = performed + 1 /\ lost' = lost + 1 /\ open' = FALSE
      /\ recorded' = recorded /\ config' = config /\ limit' = limit /\ usage' = usage
      /\ tailHeld' = tailHeld /\ askHeld' = askHeld /\ granted' = granted
      /\ tailEver' = tailEver
  BY DEF LoseCall
<1>2. BudgetTypeOK'
  <2>1. performed' \in Nat /\ lost' \in Nat
    BY <1>1 DEF BudgetInv, BudgetTypeOK
  <2>2. /\ open' \in BOOLEAN /\ tailHeld' \in BOOLEAN
        /\ askHeld' \in BOOLEAN /\ tailEver' \in BOOLEAN
    BY <1>1, Zenon DEF BudgetInv, BudgetTypeOK
  <2>3. /\ config' = config /\ limit' = limit /\ usage' = usage
        /\ granted' = granted /\ recorded' = recorded
    BY <1>1
  <2> QED BY <2>1, <2>2, <2>3 DEF BudgetInv, BudgetTypeOK
<1>5. Bound'
  BY <1>1 DEF Bound
<1>3. Accounted'
  BY <1>1 DEF BudgetInv, BudgetTypeOK, Accounted
<1>4. TailReserveKept' /\ RepairsWithinGrant'
  BY <1>1 DEF BudgetInv, TailReserveKept, RepairsWithinGrant
<1> QED BY <1>2, <1>3, <1>4, <1>5 DEF BudgetInv

\* A release only replaces the limit by one computed from the same grant.
LEMMA ReleaseTailKeeps ==
  ASSUME BudgetInv, ReleaseTail
  PROVE  BudgetInv'
<1>1. /\ open /\ open' = open /\ config' = config /\ recorded' = recorded
      /\ usage' = usage /\ granted' = granted /\ performed' = performed /\ lost' = lost
      /\ tailHeld' = FALSE /\ askHeld' = askHeld /\ tailEver' = TRUE
      /\ limit' = ActiveBudget(config, FALSE, askHeld, recorded)
  BY DEF ReleaseTail
<1>2. config \in Configs /\ askHeld \in BOOLEAN
      /\ recorded \in [calls : Nat, repairs : Nat, transports : Nat]
  BY DEF BudgetInv, BudgetTypeOK
<1>3. /\ limit' \in Configs /\ limit'.calls <= config.calls
      /\ limit'.repairs = config.repairs + recorded.transports
  BY <1>1, <1>2, ActiveBudgetBounds
<1>4. BudgetTypeOK'
  BY <1>1, <1>3 DEF BudgetInv, BudgetTypeOK
<1>5. /\ usage'.calls = recorded'.calls /\ usage'.repairs = recorded'.repairs
      /\ config.calls <= granted.calls /\ config.repairs <= granted.repairs
  BY <1>1 DEF Bound, BudgetInv
<1>6. /\ limit'.calls <= granted'.calls
      /\ limit'.repairs <= granted'.repairs + recorded'.transports
  <2>1. /\ limit'.calls \in Nat /\ limit'.repairs \in Nat
        /\ config.calls \in Nat /\ config.repairs \in Nat
        /\ granted.calls \in Nat /\ granted.repairs \in Nat /\ recorded.transports \in Nat
    BY <1>2, <1>3 DEF BudgetInv, BudgetTypeOK, Configs
  <2>2. granted' = granted /\ recorded' = recorded
    BY <1>1
  <2> QED BY <2>1, <2>2, <1>3, <1>5
<1>7. Bound'
  BY <1>1, <1>5, <1>6 DEF Bound
<1> QED
  BY <1>1, <1>4, <1>7 DEF BudgetInv, Accounted, TailReserveKept, RepairsWithinGrant

LEMMA ReleaseAskKeeps ==
  ASSUME BudgetInv, ReleaseAsk
  PROVE  BudgetInv'
<1>1. /\ open /\ open' = open /\ config' = config /\ recorded' = recorded
      /\ usage' = usage /\ granted' = granted /\ performed' = performed /\ lost' = lost
      /\ tailHeld' = tailHeld /\ askHeld' = FALSE /\ tailEver' = tailEver
      /\ limit' = ActiveBudget(config, tailHeld, FALSE, recorded)
  BY DEF ReleaseAsk
<1>2. config \in Configs /\ tailHeld \in BOOLEAN
      /\ recorded \in [calls : Nat, repairs : Nat, transports : Nat]
  BY DEF BudgetInv, BudgetTypeOK
<1>3. /\ limit' \in Configs /\ limit'.calls <= config.calls
      /\ limit'.repairs = config.repairs + recorded.transports
      /\ tailHeld => limit'.calls <= Larger(0, config.calls - TailReserve)
  BY <1>1, <1>2, ActiveBudgetBounds
<1>4. BudgetTypeOK'
  BY <1>1, <1>3 DEF BudgetInv, BudgetTypeOK
<1>5. /\ usage'.calls = recorded'.calls /\ usage'.repairs = recorded'.repairs
      /\ config.calls <= granted.calls /\ config.repairs <= granted.repairs
  BY <1>1 DEF Bound, BudgetInv
<1>11. ~tailEver => tailHeld
  <2>1. open /\ Bound
    BY DEF ReleaseAsk, BudgetInv
  <2> QED BY <2>1, Zenon DEF Bound
<1>6. /\ limit'.calls <= granted'.calls
      /\ limit'.repairs <= granted'.repairs + recorded'.transports
  <2>1. /\ limit'.calls \in Nat /\ limit'.repairs \in Nat
        /\ config.calls \in Nat /\ config.repairs \in Nat
        /\ granted.calls \in Nat /\ granted.repairs \in Nat /\ recorded.transports \in Nat
    BY <1>2, <1>3 DEF BudgetInv, BudgetTypeOK, Configs
  <2>2. granted' = granted /\ recorded' = recorded
    BY <1>1
  <2> QED BY <2>1, <2>2, <1>3, <1>5
<1>7. Larger(0, config.calls - TailReserve) <= Larger(0, granted.calls - TailReserve)
  BY <1>2, <1>5, ReserveAssumption DEF BudgetInv, BudgetTypeOK, Configs, Larger
<1>8. /\ Larger(0, config.calls - TailReserve) \in Int
      /\ Larger(0, granted.calls - TailReserve) \in Int
  BY <1>2, ReserveAssumption DEF BudgetInv, BudgetTypeOK, Configs, Larger
<1>9. tailHeld => limit'.calls <= Larger(0, granted'.calls - TailReserve)
  <2>1. limit'.calls \in Int
    BY <1>3 DEF Configs
  <2>2. granted' = granted
    BY <1>1
  <2> QED BY <2>1, <2>2, <1>3, <1>7, <1>8, SMTT(20)
<1>10. Bound'
  BY <1>1, <1>5, <1>6, <1>9, <1>11 DEF Bound
<1> QED
  BY <1>1, <1>4, <1>10 DEF BudgetInv, Accounted, TailReserveKept, RepairsWithinGrant

LEMMA BudgetStepKeeps ==
  ASSUME BudgetInv, [BudgetNext]_budgetVars
  PROVE  BudgetInv'
<1>1. CASE Close
  BY <1>1 DEF Close, BudgetInv, BudgetTypeOK, Bound, Accounted, TailReserveKept,
              RepairsWithinGrant
<1>2. CASE UNCHANGED budgetVars
  BY <1>2 DEF budgetVars, BudgetInv, BudgetTypeOK, Bound, Accounted,
              TailReserveKept, RepairsWithinGrant
<1> QED
  BY <1>1, <1>2, OpenKeeps, BudgetCallKeeps, LoseCallKeeps,
     ReleaseTailKeeps, ReleaseAskKeeps DEF BudgetNext

\* The inductive invariant implies what the budget promises.
LEMMA BudgetInvImplies == BudgetInv => CallsWithinGrant
BY DEF BudgetInv, BudgetTypeOK, Accounted, CallsWithinGrant, Configs

\* Whatever the limits of the invocations and however they end, the calls made
\* stay within the largest limit but for those a crash lost, the paper tail's
\* reserve stays whole until it is released, and answered repairs stay within
\* their allowance.
THEOREM BudgetSafe ==
  BudgetSpec => [](BudgetTypeOK /\ CallsWithinGrant /\ TailReserveKept /\ RepairsWithinGrant)
<1>1. BudgetInv => BudgetTypeOK /\ CallsWithinGrant /\ TailReserveKept /\ RepairsWithinGrant
  BY BudgetInvImplies DEF BudgetInv
<1> QED BY <1>1, BudgetInitInv, BudgetStepKeeps, PTL DEF BudgetSpec
=============================================================================
