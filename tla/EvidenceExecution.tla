-------------------------- MODULE EvidenceExecution --------------------------
(***************************************************************************)
(* execute_hybrid_evidence_packages (factori/hybrid_evidence_packages.py):   *)
(* one execution of the artifact plans of the latest evidence package.  Each *)
(* execution ends in a report appended to the run's history, or raises, and  *)
(* then leaves nothing but its accounting records: what it had paid for and  *)
(* executed so far is lost.                                                *)
(*                                                                         *)
(* A package has 1 to MaxPlans plans; every one is required and asks for       *)
(* generated code.  An accepted code artifact is executed in the sandbox,      *)
(* which completes the plan or fails.                                        *)
(***************************************************************************)
EXTENDS LLMBudget, Sequences, FiniteSetsExt, Functions

CONSTANTS
  MaxPlans,     \* bound: plans in a package
  MaxFailures   \* bound: calls that end in an error, over a whole history

ASSUME ExecutionAssumption == MaxPlans \in Nat \ {0} /\ MaxFailures \in Nat

Plans == 1..MaxPlans

VARIABLES
  packages,   \* persisted: the package reports, each as its number of plans
  execs,      \* persisted: the execution reports, [pkg, res, code, target]
  work,       \* the execution in progress
  pc,         \* where the process is
  failures    \* calls that ended in an error

execVars == <<packages, execs, work, pc, failures>>

\* res[p] is "done" (completed and supporting adjudication), "failed",
\* "rejected" (a scientific repair the local checks refused) or "deferred".
NoTarget == 0
NoWork == [caller |-> "none", todo |-> {}, res |-> <<>>, code |-> {}, gen |-> 0,
           fix |-> 0, target |-> NoTarget, broken |-> NoTarget, end |-> "none"]

\* The last package report, and the plans of one.
Package == Len(packages)
PlansOf(k) == 1..packages[k]

\* Plans whose code, generated by some execution of package k, is on record.
CodeOf(k) == UNION {execs[i].code : i \in {j \in DOMAIN execs : execs[j].pkg = k}}

\* Mutant of DoneOf: only the last execution is looked at.
DoneOfLast(k) == {p \in PlansOf(k) : execs # <<>> /\ execs[Len(execs)].pkg = k
                                       /\ execs[Len(execs)].res[p] = "done"}

\* Plans of package k that some execution of it completed: _resumable_m103_results
\* over the whole history.
DoneOf(k) == {p \in PlansOf(k) : \E i \in DOMAIN execs :
                                   execs[i].pkg = k /\ execs[i].res[p] = "done"}

Results(e) == Range(execs[e].res)
Ready(e) == Results(e) = {"done"}
DeferredIn(e) == "deferred" \in Results(e)

\* _is_rejected_repair_only_report.
RejectedOnly(e) == execs[e].code = {} /\ Results(e) = {"rejected"}

\* load_latest_actionable_execution_report: a report that holds nothing but a
\* rejected repair does not hide the execution before it.
Actionable ==
  LET last == Len(execs)
      shown == {e \in 1..(last - 1) :
                  /\ execs[e].pkg = execs[last].pkg
                  /\ execs[e].code # {} \/ "done" \in Results(e)}
  IN  IF last > 0 /\ RejectedOnly(last) /\ shown # {} THEN Max(shown) ELSE last

\* The first n members of a set of plans, in the order of the plans.
FirstOf(n, S) == {p \in S : Cardinality({q \in S : q < p}) < n}

\* An execution for `caller`: at most `cap` plans, `gen` generated artifacts and
\* `fix` runtime repairs, with a scientific repair of plan `target`.  `fresh` is
\* allow_repaired_package_revision.  Refused when the history's last execution is
\* of another package.
Begin(caller, cap, gen, fix, target, fresh) ==
  LET stale == execs # <<>> /\ execs[Len(execs)].pkg # Package /\ ~fresh
      kept == DoneOf(Package) \ {target}
  IN  /\ work' = [caller |-> caller,
                  todo   |-> IF stale THEN {} ELSE FirstOf(cap, PlansOf(Package) \ kept),
                  res    |-> [p \in PlansOf(Package) |->
                                IF p \in kept THEN "done" ELSE "deferred"],
                  code   |-> {}, gen |-> gen, fix |-> fix, target |-> target,
                  broken |-> NoTarget,
                  end    |-> IF stale THEN "error" ELSE "none"]
      /\ pc' = IF stale THEN "return" ELSE "execute"

-----------------------------------------------------------------------------
\* The plan whose turn it is.
Turn(p) ==
  /\ pc = "execute" /\ work.broken = NoTarget
  /\ p \in work.todo /\ \A q \in work.todo : p <= q

Fail(outcome) ==
  IF outcome = "answer" THEN UNCHANGED failures
  ELSE failures < MaxFailures /\ failures' = failures + 1

\* An exception leaves the execution; nothing of it is persisted.
Raise(end) == work' = [NoWork EXCEPT !.caller = work.caller, !.end = end] /\ pc' = "return"

\* Plan p is settled with result r, and without code of this execution.
Settle(p, r) ==
  work' = [work EXCEPT !.res[p] = r, !.todo = @ \ {p}] /\ UNCHANGED pc

\* Mutant of Execute: the execution's allowance of runtime repairs is not looked at.
ExecuteRepairing(p, fixable, paid) ==
  /\ \/ \E r \in {"done", "failed"} :
          work' = [work EXCEPT !.res[p] = r, !.todo = @ \ {p}, !.code = @ \cup {p},
                               !.gen = @ - paid]
     \/ /\ fixable
        /\ work' = [work EXCEPT !.broken = p, !.code = @ \cup {p}, !.gen = @ - paid]
  /\ UNCHANGED pc

\* The sandbox ran code for plan p, which cost `paid` generations.  A runtime
\* failure that can be repaired goes to attempt_runtime_repair, if the execution
\* has a repair left.
Execute(p, fixable, paid) ==
  /\ \/ \E r \in {"done", "failed"} :
          work' = [work EXCEPT !.res[p] = r, !.todo = @ \ {p}, !.code = @ \cup {p},
                               !.gen = @ - paid]
     \/ /\ fixable /\ work.fix > 0
        /\ work' = [work EXCEPT !.broken = p, !.code = @ \cup {p}, !.gen = @ - paid]
  /\ UNCHANGED pc

\* A scientific repair of the target: an error ends the execution, a refused
\* answer is recorded as the plan's result; no runtime repair follows it.
RepairTarget(p) ==
  /\ Turn(p) /\ p = work.target
  /\ \E outcome \in Outcomes :
       /\ BudgetCall("repair", outcome) /\ Fail(outcome)
       /\ IF outcome # "answer" THEN Raise(outcome)
          ELSE Settle(p, "rejected") \/ Execute(p, FALSE, 0)
  /\ UNCHANGED <<packages, execs>>

\* Code of an earlier execution of the same package that the safety audit passes
\* again is executed again, unpaid; where it does not, the plan needs new code.
Reexecute(p) ==
  /\ Turn(p) /\ p # work.target /\ p \in CodeOf(Package)
  /\ Execute(p, TRUE, 0)
  /\ UNCHANGED <<packages, execs, failures, budgetVars>>

\* No generation is left in this execution: _budget_deferred_result.
DeferPlan(p) ==
  /\ Turn(p) /\ p # work.target /\ work.gen = 0
  /\ Settle(p, "deferred")
  /\ UNCHANGED <<packages, execs, failures, budgetVars>>

\* Code is generated.  In strict mode a refused proposal raises, as an error does.
Generate(p) ==
  /\ Turn(p) /\ p # work.target /\ work.gen > 0
  /\ \E outcome \in Outcomes :
       /\ BudgetCall("plain", outcome) /\ Fail(outcome)
       /\ IF outcome # "answer" THEN Raise(outcome)
          ELSE Execute(p, TRUE, 1)
  /\ UNCHANGED <<packages, execs>>

\* attempt_runtime_repair: a failed call or a refused answer leaves the plan
\* failed; the budget's exception is not caught there.
RuntimeRepair ==
  /\ pc = "execute" /\ work.broken # NoTarget
  /\ \E outcome \in Outcomes :
       /\ BudgetCall("repair", outcome) /\ Fail(outcome)
       /\ \E r \in IF outcome = "answer" THEN {"done", "failed"} ELSE {"failed"} :
            work' = [work EXCEPT !.res[work.broken] = r, !.todo = @ \ {work.broken},
                                 !.fix = @ - 1, !.broken = NoTarget]
  /\ UNCHANGED <<packages, execs, pc>>

\* The kind of the call the execution is about to make, if it is.
ExecutionCall(kind) ==
  \/ kind = "repair" /\ pc = "execute" /\ work.broken # NoTarget
  \/ kind = "repair" /\ \E p \in Plans : Turn(p) /\ p = work.target
  \/ kind = "plain"  /\ \E p \in Plans :
       Turn(p) /\ p # work.target /\ work.gen > 0

\* The call's authorization fails: LLMBudgetExceeded leaves the execution.
ExecutionBlocked ==
  /\ \E kind \in Kinds : ExecutionCall(kind) /\ ~CanSpend(1, Repairs(kind))
  /\ Raise("budget")
  /\ UNCHANGED <<packages, execs, failures, budgetVars>>

\* The report is written, after the last plan.
WriteReport ==
  /\ pc = "execute" /\ work.todo = {} /\ work.broken = NoTarget
  /\ execs' = Append(execs, [pkg    |-> Package, res |-> work.res,
                             code   |-> work.code, target |-> work.target])
  /\ work' = [NoWork EXCEPT !.caller = work.caller, !.end = "ok"]
  /\ pc' = "return"
  /\ UNCHANGED <<packages, failures, budgetVars>>

ExecutionInit ==
  /\ packages = <<>> /\ execs = <<>> /\ work = NoWork /\ pc = "idle" /\ failures = 0

=============================================================================
