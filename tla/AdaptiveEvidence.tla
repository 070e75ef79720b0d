--------------------------- MODULE AdaptiveEvidence ---------------------------
(***************************************************************************)
(* run_adaptive_evidence_loop (factori/adaptive_evidence.py): an LLM questions *)
(* the latest execution and decides to accept it, to repair its code or its   *)
(* plan, or to stop; every pass appends a loop report, from which a later     *)
(* invocation continues, reopens the loop or only repeats its verdict.        *)
(*                                                                         *)
(* The questioner's answer, and the local rules that turn it into a decision  *)
(* (_normalize_decision and what follows it), are one choice among the        *)
(* decisions those rules leave possible.  The sandbox's timeout never changes, *)
(* so its retry never runs.                                                  *)
(***************************************************************************)
EXTENDS EvidenceExecution

VARIABLES
  loop,          \* persisted: the last loop report
  cur,           \* the invocation's own counts: [code, plan], and the decision taken
  seen,          \* the execution under question: [exec, code]
  limits,        \* this invocation's limits: [iterations, code, plan]
  adjudication   \* persisted: the last adjudication: [exec, verdict]

adaptiveVars == <<loop, cur, seen, limits, adjudication>>

NoLoop == [status |-> "none", why |-> "none", iterations |-> 0, code |-> 0, plan |-> 0,
           source |-> 0, action |-> "none", hadCode |-> FALSE, maxIterations |-> 0]
NoCur == [code |-> 0, plan |-> 0, action |-> "none"]
NoSeen == [exec |-> 0, code |-> {}]

Satisfied == loop.status = "satisfied"
Terminal == {"satisfied", "stopped_weak_branch", "stopped_no_progress",
             "budget_exhausted", "blocked"}

\* The critics asked for a repair of execution e: _post_critic_diagnostics.
PostCritic(e) == adjudication.exec = e /\ adjudication.verdict = "repair"

\* recover_historical_code_artifacts: the report's code and its package's.
Recovered(e) == CodeOf(execs[e].pkg)

\* _code_repair_target finds something to repair in execution e.
HasTarget(e, completedToo) ==
  \E p \in Recovered(e) : completedToo \/ execs[e].res[p] # "done"

\* adaptive_loop_can_resume, in the order of its tests.
CanResume(lim) ==
  LET e == Actionable
      codeLeft == lim.code > loop.code
      planLeft == lim.plan > loop.plan
  IN  /\ lim.iterations > loop.iterations
      /\ \/ PostCritic(e) /\ codeLeft
         \/ Ready(e) /\ loop.iterations > 0 /\ e # loop.source
         \/ DeferredIn(e)
         \/ HasTarget(e, loop.action = "repair_code") /\ codeLeft
         \/ loop.status = "budget_exhausted"
         \/ loop.why = "transport"
         \/ /\ loop.status = "stopped_no_progress"
            /\ \/ ~Ready(e) /\ (codeLeft \/ planLeft)
               \/ loop.why = "limit" /\ lim.iterations > loop.maxIterations
               \/ /\ loop.why # "limit" /\ loop.iterations > 0
                  /\ \/ loop.hadCode /\ codeLeft
                     \/ loop.action = "repair_code" /\ codeLeft
                     \/ loop.action \in {"repair_plan", "stop_unplanned"} /\ planLeft

\* A loop report: what the report says, beside the invocation's counts.
Report(status, why, counts, iterations) ==
  loop' = [loop EXCEPT !.status = status, !.why = why, !.iterations = iterations,
                       !.code = counts.code, !.plan = counts.plan,
                       !.maxIterations = limits.iterations]

\* The pass is over: its decision and its effect are recorded, and the loop goes
\* on if the report says so.
EndIteration(status, why, counts) ==
  /\ loop' = [status |-> status, why |-> why, iterations |-> loop.iterations + 1,
              code |-> counts.code, plan |-> counts.plan, source |-> seen.exec,
              action |-> cur.action, hadCode |-> seen.code # {},
              maxIterations |-> limits.iterations]
  /\ cur' = [counts EXCEPT !.action = "none"]
  /\ pc' = IF status = "in_progress" THEN "loop" ELSE "record"

-----------------------------------------------------------------------------
\* The counts an invocation starts from: a repair whose transport failed is given
\* back here.
StartCounts == [code   |-> IF loop.why = "transport" THEN Larger(0, loop.code - 1)
                           ELSE loop.code,
                plan   |-> loop.plan,
                action |-> "none"]

\* A terminal loop that cannot be resumed repeats its report; any other goes on.
EnterLoop ==
  /\ pc = "adaptive"
  /\ IF loop.status \in Terminal /\ ~(CanResume(limits) /\ CanSpend(1, 0))
     THEN pc' = "record" /\ UNCHANGED cur
     ELSE pc' = "loop" /\ cur' = StartCounts
  /\ UNCHANGED <<packages, execs, work, failures, budgetVars,
                 loop, seen, limits, adjudication>>

\* Mutant of LimitReached: the loop takes its limit to be exceeded only.
LimitExceeded ==
  /\ pc = "loop" /\ loop.iterations > limits.iterations
  /\ Report("stopped_no_progress", "limit", cur, loop.iterations)
  /\ pc' = "record"
  /\ UNCHANGED <<packages, execs, work, failures, budgetVars,
                 cur, seen, limits, adjudication>>

\* The loop's range is used up.
LimitReached ==
  /\ pc = "loop" /\ loop.iterations >= limits.iterations
  /\ Report("stopped_no_progress", "limit", cur, loop.iterations)
  /\ pc' = "record"
  /\ UNCHANGED <<packages, execs, work, failures, budgetVars,
                 cur, seen, limits, adjudication>>

\* The pass begins: one deferred plan is continued, if a call is left, before the
\* questioner's own budget is looked at.
BeginPass ==
  /\ pc = "loop" /\ loop.iterations < limits.iterations
  /\ IF DeferredIn(Actionable) /\ CanSpend(1, 0)
     THEN Begin("continue", 1, 1, 0, NoTarget, FALSE) /\ UNCHANGED seen
     ELSE /\ seen' = [exec |-> Actionable, code |-> Recovered(Actionable)]
          /\ pc' = "ask" /\ UNCHANGED work
  /\ UNCHANGED <<packages, execs, failures, budgetVars,
                 loop, cur, limits, adjudication>>

\* What the continuation raised is swallowed; what it wrote is questioned as it
\* is, without the code of earlier executions.
Continued ==
  /\ pc = "return" /\ work.caller = "continue"
  /\ seen' = IF work.end = "ok"
             THEN [exec |-> Len(execs), code |-> execs[Len(execs)].code]
             ELSE [exec |-> Actionable, code |-> Recovered(Actionable)]
  /\ pc' = "ask" /\ work' = NoWork
  /\ UNCHANGED <<packages, execs, failures, budgetVars,
                 loop, cur, limits, adjudication>>

\* No call is left for the questioner: the loop ends with its last decision.
AskBlocked ==
  /\ pc = "ask" /\ ~CanSpend(1, 0)
  /\ Report("budget_exhausted", "none", cur, loop.iterations)
  /\ pc' = "record"
  /\ UNCHANGED <<packages, execs, work, failures, budgetVars,
                 cur, seen, limits, adjudication>>

\* Accepting needs an execution of the current package, ready, without findings.
Acceptable ==
  /\ Ready(seen.exec) /\ execs[seen.exec].pkg = Package /\ ~PostCritic(seen.exec)

\* Repairing code needs code, or a plan that has none yet.
Repairable == seen.code # {} \/ ~Ready(seen.exec)

\* "stop_unplanned" is a stop_no_progress whose findings ask for a plan repair
\* that the allowance refuses.
Decisions ==
  (IF Acceptable THEN {"accept"} ELSE {})
    \cup (IF Repairable THEN {"repair_code"} ELSE {})
    \cup (IF cur.plan >= limits.plan THEN {"stop_unplanned"} ELSE {})
    \cup {"repair_plan", "stop_no_progress", "stop_weak_branch", "blocked"}

\* The questioner is called; an error ends the stage.
Ask ==
  /\ pc = "ask"
  /\ \E outcome \in Outcomes :
       /\ BudgetCall("plain", outcome) /\ Fail(outcome)
       /\ IF outcome = "answer"
          THEN pc' = "act" /\ \E d \in Decisions : cur' = [cur EXCEPT !.action = d]
          ELSE pc' = "failed" /\ UNCHANGED cur
  /\ UNCHANGED <<packages, execs, work, loop, seen, limits, adjudication>>

\* Decisions that end the loop.
ActTerminal ==
  /\ pc = "act"
  /\ \/ cur.action = "accept" /\ EndIteration("satisfied", "none", cur)
     \/ cur.action = "stop_weak_branch" /\ EndIteration("stopped_weak_branch", "none", cur)
     \/ /\ cur.action \in {"stop_no_progress", "stop_unplanned"}
        /\ EndIteration("stopped_no_progress", "none", cur)
     \/ cur.action = "blocked" /\ EndIteration("blocked", "none", cur)
  /\ UNCHANGED <<packages, execs, work, failures, budgetVars,
                 seen, limits, adjudication>>

\* A code repair the allowance or the budget refuses.
RefuseCodeRepair ==
  /\ pc = "act" /\ cur.action = "repair_code"
  /\ IF cur.code >= limits.code
     THEN EndIteration("stopped_no_progress", "none", cur)
     ELSE ~CanSpend(2, 2) /\ EndIteration("budget_exhausted", "none", cur)
  /\ UNCHANGED <<packages, execs, work, failures, budgetVars,
                 seen, limits, adjudication>>

\* A code repair: of a plan that has code, or the generation of a missing one.
BeginCodeRepair ==
  /\ pc = "act" /\ cur.action = "repair_code"
  /\ cur.code < limits.code /\ CanSpend(2, 2)
  /\ cur' = [cur EXCEPT !.code = @ + 1]
  /\ IF seen.code = {} THEN Begin("code", 1, 1, 1, NoTarget, FALSE)
     ELSE \E p \in seen.code : Begin("code", 1, 0, 1, p, FALSE)
  /\ UNCHANGED <<packages, execs, failures, budgetVars,
                 loop, seen, limits, adjudication>>

\* The code repair has ended.  The attempt is given back when the budget or the
\* transport failed.
CodeRepairDone ==
  /\ pc = "return" /\ work.caller = "code"
  /\ LET back == [cur EXCEPT !.code = Larger(0, @ - 1)]
     IN  \/ work.end = "ok" /\ EndIteration("in_progress", "none", cur)
         \/ work.end = "budget" /\ EndIteration("budget_exhausted", "none", back)
         \/ work.end = "transport" /\ EndIteration("blocked", "transport", back)
         \/ work.end = "error" /\ EndIteration("blocked", "none", cur)
  /\ work' = NoWork
  /\ UNCHANGED <<packages, execs, failures, budgetVars, seen, limits, adjudication>>

\* A plan repair the allowance or the budget refuses.
RefusePlanRepair ==
  /\ pc = "act" /\ cur.action = "repair_plan"
  /\ IF cur.plan >= limits.plan
     THEN EndIteration("stopped_no_progress", "none", cur)
     ELSE ~CanSpend(3, 2) /\ EndIteration("budget_exhausted", "none", cur)
  /\ UNCHANGED <<packages, execs, work, failures, budgetVars,
                 seen, limits, adjudication>>

\* A plan repair: a new package report, and its execution from a fresh history.
RepairPlan ==
  /\ pc = "act" /\ cur.action = "repair_plan"
  /\ cur.plan < limits.plan /\ CanSpend(3, 2)
  /\ \E outcome \in Outcomes :
       /\ BudgetCall("repair", outcome) /\ Fail(outcome)
       /\ IF outcome = "answer"
          THEN /\ \E n \in Plans : packages' = Append(packages, n)
               /\ cur' = [cur EXCEPT !.plan = @ + 1]
               /\ pc' = "replanned" /\ UNCHANGED loop
          ELSE EndIteration("blocked", "none", cur) /\ UNCHANGED packages
  /\ UNCHANGED <<execs, work, seen, limits, adjudication>>

ExecuteReplanned ==
  /\ pc = "replanned"
  /\ Begin("plan", MaxPlans, RemainingCalls, 1, NoTarget, TRUE)
  /\ UNCHANGED <<packages, execs, failures, budgetVars, adaptiveVars>>

PlanRepairDone ==
  /\ pc = "return" /\ work.caller = "plan"
  /\ \/ work.end = "ok" /\ EndIteration("in_progress", "none", cur)
     \/ work.end = "budget" /\ EndIteration("budget_exhausted", "none", cur)
     \/ work.end \in {"error", "transport"} /\ EndIteration("blocked", "none", cur)
  /\ work' = NoWork
  /\ UNCHANGED <<packages, execs, failures, budgetVars, seen, limits, adjudication>>

AdaptiveCall(kind) ==
  \/ kind = "plain"  /\ pc = "ask"
  \/ kind = "repair" /\ pc = "act" /\ cur.action = "repair_plan"
                     /\ cur.plan < limits.plan /\ CanSpend(3, 2)

AdaptiveInit ==
  /\ loop = NoLoop /\ cur = NoCur /\ seen = NoSeen
  /\ limits = [iterations |-> 0, code |-> 0, plan |-> 0]
  /\ adjudication = [exec |-> 0, verdict |-> "none"]
=============================================================================
