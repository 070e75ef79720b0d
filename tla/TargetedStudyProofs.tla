------------------------- MODULE TargetedStudyProofs -------------------------
(***************************************************************************)
(* What holds of a targeted study for all packages, limits, failures and      *)
(* kills.                                                                    *)
(*                                                                         *)
(* First, its calls keep to the budget: whatever the stages, the loop and     *)
(* the executions do, each of their steps is a step of LLMBudget or leaves    *)
(* the budget alone, so that the study implements BudgetSpec and inherits     *)
(* what is proved of it.                                                     *)
(*                                                                         *)
(* Second, completed plans stay completed.  The invariant: an execution        *)
(* starts with every completed plan of its package settled, and never comes   *)
(* back to one; reports are of packages that exist, whose plans no later      *)
(* package changes.  The proof looks at what a step does to the packages, the  *)
(* reports and the execution in progress (six shapes), and then at each shape. *)
(***************************************************************************)
EXTENDS TargetedStudy, LLMBudgetProofs

LEMMA CallKind == "plain" \in Kinds /\ "repair" \in Kinds
BY DEF Kinds

LEMMA InitBudget == Init => BudgetInit
BY DEF Init

\* The steps of an execution.
LEMMA ExecutionStep ==
  ASSUME \/ \E p \in Plans : RepairTarget(p) \/ Reexecute(p) \/ DeferPlan(p) \/ Generate(p)
         \/ RuntimeRepair \/ ExecutionBlocked \/ WriteReport
  PROVE  [BudgetNext]_budgetVars
<1>1. CASE \E p \in Plans : RepairTarget(p)
  BY <1>1, CallKind DEF RepairTarget, BudgetNext
<1>2. CASE \E p \in Plans : Reexecute(p)
  BY <1>2 DEF Reexecute
<1>3. CASE \E p \in Plans : DeferPlan(p)
  BY <1>3 DEF DeferPlan
<1>4. CASE \E p \in Plans : Generate(p)
  BY <1>4, CallKind DEF Generate, BudgetNext
<1>5. CASE RuntimeRepair
  BY <1>5, CallKind DEF RuntimeRepair, BudgetNext
<1>6. CASE ExecutionBlocked
  BY <1>6 DEF ExecutionBlocked
<1>7. CASE WriteReport
  BY <1>7 DEF WriteReport
<1> QED BY <1>1, <1>2, <1>3, <1>4, <1>5, <1>6, <1>7

\* The steps of the adaptive loop: only the questions and the plan repairs call.
LEMMA AdaptiveStep ==
  ASSUME \/ EnterLoop \/ LimitReached \/ BeginPass \/ Continued \/ AskBlocked \/ Ask
         \/ ActTerminal \/ RefuseCodeRepair \/ BeginCodeRepair \/ CodeRepairDone
         \/ RefusePlanRepair \/ RepairPlan \/ ExecuteReplanned \/ PlanRepairDone
  PROVE  [BudgetNext]_budgetVars
<1>1. CASE Ask
  BY <1>1, CallKind DEF Ask, BudgetNext
<1>2. CASE RepairPlan
  BY <1>2, CallKind DEF RepairPlan, BudgetNext
<1>3. CASE EnterLoop \/ LimitReached \/ BeginPass \/ Continued \/ AskBlocked
  BY <1>3 DEF EnterLoop, LimitReached, BeginPass, Continued, AskBlocked
<1>4. CASE ActTerminal \/ RefuseCodeRepair \/ BeginCodeRepair \/ CodeRepairDone
  BY <1>4 DEF ActTerminal, RefuseCodeRepair, BeginCodeRepair, CodeRepairDone
<1>5. CASE RefusePlanRepair \/ ExecuteReplanned \/ PlanRepairDone
  BY <1>5 DEF RefusePlanRepair, ExecuteReplanned, PlanRepairDone
<1> QED BY <1>1, <1>2, <1>3, <1>4, <1>5


\* The stages: four of them call.
LEMMA StageStep ==
  ASSUME \/ SkipStage \/ EnterStage \/ PlanStage \/ ExecutionStage \/ ExecutionStageDone
         \/ CritiqueStage \/ CritiqueRefused \/ AdjudicationStage \/ ManuscriptStage
         \/ ManuscriptDeferred \/ AssemblyStage \/ BundleStage \/ CheckStage
         \/ StageBlocked \/ Record \/ ReleaseQuestioner \/ PassGate \/ StopAtGate
         \/ FailStage \/ Finish
  PROVE  [BudgetNext]_budgetVars
<1>1. CASE PlanStage
  BY <1>1, CallKind DEF PlanStage, StageCall, BudgetNext
<1>2. CASE CritiqueStage
  BY <1>2, CallKind DEF CritiqueStage, StageCall, BudgetNext
<1>3. CASE AdjudicationStage \/ CritiqueRefused
  BY <1>3, CallKind DEF AdjudicationStage, CritiqueRefused, StageCall, BudgetNext
<1>4. CASE ManuscriptStage
  BY <1>4, CallKind DEF ManuscriptStage, StageCall, BudgetNext
<1>5. CASE SkipStage \/ EnterStage \/ ExecutionStage \/ ExecutionStageDone
  BY <1>5 DEF SkipStage, EnterStage, ExecutionStage, ExecutionStageDone
<1>6. CASE ManuscriptDeferred \/ AssemblyStage \/ BundleStage
  BY <1>6 DEF ManuscriptDeferred, AssemblyStage, BundleStage
<1>7. CASE CheckStage \/ StageBlocked \/ Record
  BY <1>7 DEF CheckStage, StageBlocked, Record
<1>8. CASE ReleaseQuestioner \/ PassGate
  BY <1>8 DEF ReleaseQuestioner, PassGate, BudgetNext
<1>9. CASE StopAtGate \/ FailStage \/ Finish
  BY <1>9 DEF StopAtGate, FailStage, Finish, End, BudgetNext
<1> QED BY <1>1, <1>2, <1>3, <1>4, <1>5, <1>6, <1>7, <1>8, <1>9

\* An invocation opens the budget with limits of its own, and a kill closes it,
\* in the middle of a call or not.
LEMMA StartStep ==
  ASSUME runs + 1 \in DOMAIN Grants, NEW g \in Grants[runs + 1], Start(g)
  PROVE  [BudgetNext]_budgetVars
<1>1. g \in [calls : Nat, iterations : Nat \ {0}, code : Nat, plan : Nat]
  BY StudyAssumption
<1>2. Allowed(g) \in Configs
  BY <1>1 DEF Allowed, Configs
<1>3. Open(Allowed(g))
  BY DEF Start
<1> QED BY <1>2, <1>3 DEF BudgetNext

LEMMA KillStep == ASSUME Kill \/ KillInCall PROVE [BudgetNext]_budgetVars
BY DEF Kill, KillInCall, BudgetNext

LEMMA StudyStep == ASSUME [Next]_vars PROVE [BudgetNext]_budgetVars
<1>1. CASE Process
  BY <1>1, ExecutionStep, AdaptiveStep, StageStep DEF Process
<1>2. CASE Kill \/ KillInCall
  BY <1>2, KillStep
<1>3. CASE runs + 1 \in DOMAIN Grants /\ \E g \in Grants[runs + 1] : Start(g)
  BY <1>3, StartStep
<1>4. CASE UNCHANGED vars
  BY <1>4 DEF vars
<1> QED BY <1>1, <1>2, <1>3, <1>4 DEF Next

\* The study is an implementation of the budget, whatever its stages do.
THEOREM StudyKeepsBudget == Spec => BudgetSpec
<1>1. Init => BudgetInit
  BY InitBudget
<1>2. [Next]_vars => [BudgetNext]_budgetVars
  BY StudyStep
<1> QED BY <1>1, <1>2, PTL DEF Spec, BudgetSpec

\* However often a study is resumed, killed or refused, it makes no more calls than
\* its largest limit and those lost with a killed process.
THEOREM StudyCalls == Spec => []CallsWithinGrant
BY StudyKeepsBudget, BudgetSafe, PTL

\* What the critics and the manuscript need is left when the evidence is accepted.
THEOREM StudyTail == Spec => []TailReserveKept
BY StudyKeepsBudget, BudgetSafe, PTL

\* The runtime, scientific and plan repairs of all invocations keep to the
\* allowance.
THEOREM StudyRepairs == Spec => []RepairsWithinGrant
BY StudyKeepsBudget, BudgetSafe, PTL

-----------------------------------------------------------------------------

PlanResults == {"done", "failed", "rejected", "deferred"}

\* Nothing is executed, or recorded, before the first package.
PackageFirst ==
  /\ stage \in Stages
  /\ packages = <<>> => /\ pc \in {"idle", "stage", "planning", "failed"}
                        /\ stage = "planning" /\ done = {} /\ Completed(checkpoint) = {}

\* A sequence, of whatever it holds.
IsSeq(s) == s \in Seq({s[i] : i \in DOMAIN s})

HistoryOK ==
  /\ packages \in Seq(Plans) /\ IsSeq(execs)
  /\ \A e \in DOMAIN execs : execs[e].pkg \in DOMAIN packages

\* The execution in progress, of the last package.
IsWork(w) ==
  /\ w = [caller |-> w.caller, todo |-> w.todo, res |-> w.res, code |-> w.code,
          gen |-> w.gen, fix |-> w.fix, target |-> w.target, broken |-> w.broken,
          end |-> w.end]
  /\ w.res \in [PlansOf(Package) -> PlanResults]
  /\ w.todo \subseteq PlansOf(Package)
  /\ w.broken \in PlansOf(Package) \cup {NoTarget}

\* It has nothing more to do about what was completed before.
Untouched(w) ==
  \A p \in DoneOf(Package) :
    p # w.target => w.res[p] = "done" /\ p \notin w.todo /\ p # w.broken

WorkOK == pc = "execute" => packages # <<>> /\ IsWork(work) /\ Untouched(work)

KeptInv == PackageFirst /\ HistoryOK /\ WorkOK /\ CompletedPlansKept

-----------------------------------------------------------------------------
\* What a step can do to <<packages, execs, work, pc>>.
Outside == UNCHANGED <<packages, execs>> /\ pc' # "execute"
Still == UNCHANGED <<packages, execs, work, pc>>
Begins ==
  /\ UNCHANGED <<packages, execs>> /\ packages # <<>>
  /\ \E caller, cap, gen, fix, target, fresh : Begin(caller, cap, gen, fix, target, fresh)
Works ==
  /\ UNCHANGED <<packages, execs, pc>> /\ pc = "execute"
  /\ IsWork(work')
  /\ work'.target = work.target /\ work'.todo \subseteq work.todo
  /\ work'.broken \in work.todo \cup {NoTarget}
  /\ \A q \in PlansOf(Package) :
       q \notin work.todo /\ q # work.broken => work'.res[q] = work.res[q]
Writes ==
  /\ pc = "execute" /\ pc' # "execute" /\ UNCHANGED packages
  /\ execs' = Append(execs, [pkg    |-> Package, res |-> work.res,
                             code   |-> work.code, target |-> work.target])
AddsPackage ==
  /\ \E n \in Plans : packages' = Append(packages, n)
  /\ UNCHANGED execs /\ pc' # "execute"

-----------------------------------------------------------------------------
LEMMA OrderFacts ==
  /\ DOMAIN Order = 1..9
  /\ \A s \in Stages : /\ Place(s) \in 1..9 /\ Order[Place(s)] = s
                       /\ s # "check" => Order[Place(s) + 1] \in Stages
<1>1. DOMAIN Order = 1..9
  BY DEF Order
<1>2. ASSUME NEW s \in Stages PROVE Place(s) \in 1..9 /\ Order[Place(s)] = s
  <2>1. \E i \in DOMAIN Order : Order[i] = s
    BY <1>2 DEF Stages
  <2> QED BY <1>1, <2>1 DEF Place
<1>3. ASSUME NEW s \in Stages, s # "check" PROVE Place(s) # 9
  BY <1>2, <1>3 DEF Order
<1>4. ASSUME NEW i \in 1..9 PROVE Order[i] \in Stages
  BY <1>1, <1>4 DEF Stages
<1>5. ASSUME NEW s \in Stages, s # "check" PROVE Order[Place(s) + 1] \in Stages
  <2>1. Place(s) + 1 \in 1..9
    BY <1>2, <1>3, <1>5
  <2> QED BY <2>1, <1>4
<1> QED BY <1>1, <1>2, <1>5

LEMMA AdvanceFacts ==
  ASSUME stage \in Stages, Advance
  PROVE  stage' \in Stages /\ pc' \in {"release", "gate", "finish", "stage"}
BY OrderFacts DEF Advance

\* Appending to a sequence.
LEMMA AppendFacts ==
  ASSUME NEW s, IsSeq(s), NEW x
  PROVE  /\ IsSeq(Append(s, x)) /\ Len(s) \in Nat /\ DOMAIN s = 1..Len(s)
         /\ Len(Append(s, x)) = Len(s) + 1 /\ DOMAIN Append(s, x) = 1..(Len(s) + 1)
         /\ \A i \in 1..Len(s) : Append(s, x)[i] = s[i]
         /\ Append(s, x)[Len(s) + 1] = x
<1> DEFINE S == {s[i] : i \in DOMAIN s}
           T == S \cup {x}
           t == Append(s, x)
<1>1. s \in Seq(S) /\ Len(s) \in Nat /\ DOMAIN s = 1..Len(s)
  BY DEF IsSeq
<1>2. \A i \in 1..Len(s) : s[i] \in T
  BY <1>1
<1>3. s \in Seq(T) /\ x \in T
  BY <1>1, <1>2
<1> HIDE DEF T
<1>4. /\ t \in Seq(T) /\ Len(t) = Len(s) + 1 /\ t[Len(s) + 1] = x
      /\ \A i \in 1..Len(s) : t[i] = s[i]
  BY <1>1, <1>3
<1>5. DOMAIN t = 1..(Len(s) + 1)
  BY <1>1, <1>4
<1>6. t \in Seq({t[i] : i \in DOMAIN t})
  BY <1>1, <1>4, <1>5
<1> QED BY <1>1, <1>4, <1>5, <1>6 DEF IsSeq

-----------------------------------------------------------------------------
\* The plan whose turn it is, is one of the execution's, and is still to do.
LEMMA TurnFacts ==
  ASSUME HistoryOK, WorkOK, NEW p \in Plans, Turn(p)
  PROVE  /\ pc = "execute" /\ IsWork(work) /\ Untouched(work) /\ packages # <<>>
         /\ p \in work.todo /\ work.broken = NoTarget /\ p # NoTarget
         /\ p \in PlansOf(Package)
<1>1. pc = "execute" /\ p \in work.todo /\ work.broken = NoTarget
  BY DEF Turn
<1> QED BY <1>1 DEF WorkOK, IsWork, NoTarget, Plans

\* The ways an execution goes on: a result for the plan whose turn it is, with or
\* without code, or a runtime repair of it.
LEMMA SettleShape ==
  ASSUME IsWork(work), NEW p \in work.todo, NEW r \in PlanResults, Settle(p, r),
         work.broken = NoTarget, pc = "execute", UNCHANGED <<packages, execs>>
  PROVE  Works
<1>1. /\ work'.res = [work.res EXCEPT ![p] = r] /\ work'.todo = work.todo \ {p}
      /\ work'.broken = NoTarget /\ work'.target = work.target
  BY DEF IsWork, Settle
<1>2. p \in PlansOf(Package)
  BY DEF IsWork
<1>3. work'.res \in [PlansOf(Package) -> PlanResults]
  BY <1>1, <1>2 DEF IsWork
<1>4. IsWork(work')
  BY <1>1, <1>3 DEF IsWork, Settle
<1>5. \A q \in PlansOf(Package) :
        q \notin work.todo /\ q # work.broken => work'.res[q] = work.res[q]
  BY <1>1 DEF IsWork
<1> QED BY <1>1, <1>4, <1>5 DEF Works, Settle

LEMMA ExecuteShape ==
  ASSUME IsWork(work), NEW p \in work.todo, NEW fixable, NEW paid,
         Execute(p, fixable, paid),
         work.broken = NoTarget, pc = "execute", UNCHANGED <<packages, execs>>
  PROVE  Works
<1>0. p \in PlansOf(Package)
  BY DEF IsWork
<1>1. CASE \E r \in {"done", "failed"} :
             work' = [work EXCEPT !.res[p] = r, !.todo = @ \ {p}, !.code = @ \cup {p},
                                  !.gen = @ - paid]
  <2>1. PICK r \in {"done", "failed"} :
             work' = [work EXCEPT !.res[p] = r, !.todo = @ \ {p}, !.code = @ \cup {p},
                                  !.gen = @ - paid]
    BY <1>1
  <2>2. /\ work'.res = [work.res EXCEPT ![p] = r] /\ work'.todo = work.todo \ {p}
        /\ work'.broken = NoTarget /\ work'.target = work.target
    BY <2>1 DEF IsWork
  <2>3. work'.res \in [PlansOf(Package) -> PlanResults]
    BY <1>0, <2>2 DEF IsWork, PlanResults
  <2>4. IsWork(work')
    BY <2>1, <2>2, <2>3 DEF IsWork
  <2>5. \A q \in PlansOf(Package) :
          q \notin work.todo /\ q # work.broken => work'.res[q] = work.res[q]
    BY <2>2 DEF IsWork
  <2> QED BY <2>2, <2>4, <2>5 DEF Works, Execute
<1>2. CASE work' = [work EXCEPT !.broken = p, !.code = @ \cup {p}, !.gen = @ - paid]
  <2>1. /\ work'.res = work.res /\ work'.todo = work.todo
        /\ work'.broken = p /\ work'.target = work.target
    BY <1>2 DEF IsWork
  <2>2. IsWork(work')
    BY <1>0, <1>2, <2>1 DEF IsWork
  <2> QED BY <2>1, <2>2 DEF Works, Execute
<1> QED BY <1>1, <1>2 DEF Execute

LEMMA RuntimeRepairShape ==
  ASSUME HistoryOK, WorkOK, RuntimeRepair
  PROVE  Works
<1>1. pc = "execute" /\ work.broken # NoTarget /\ UNCHANGED <<packages, execs, pc>>
  BY DEF RuntimeRepair
<1>2. IsWork(work) /\ work.broken \in PlansOf(Package)
  BY <1>1 DEF WorkOK, IsWork
<1>3. PICK r \in {"done", "failed"} :
        work' = [work EXCEPT !.res[work.broken] = r, !.todo = @ \ {work.broken},
                             !.fix = @ - 1, !.broken = NoTarget]
  BY DEF RuntimeRepair
<1>4. /\ work'.res = [work.res EXCEPT ![work.broken] = r]
      /\ work'.todo = work.todo \ {work.broken}
      /\ work'.broken = NoTarget /\ work'.target = work.target
  BY <1>2, <1>3 DEF IsWork
<1>5. work'.res \in [PlansOf(Package) -> PlanResults]
  BY <1>2, <1>4 DEF IsWork, PlanResults
<1>6. IsWork(work')
  BY <1>2, <1>3, <1>4, <1>5 DEF IsWork
<1>7. \A q \in PlansOf(Package) :
        q \notin work.todo /\ q # work.broken => work'.res[q] = work.res[q]
  BY <1>2, <1>4 DEF IsWork
<1> QED BY <1>1, <1>4, <1>6, <1>7 DEF Works

LEMMA RaiseShape ==
  ASSUME NEW end, Raise(end), UNCHANGED <<packages, execs>> PROVE Outside
BY DEF Raise, Outside

LEMMA PlanShape ==
  ASSUME HistoryOK, WorkOK, NEW p \in Plans,
         RepairTarget(p) \/ Reexecute(p) \/ DeferPlan(p) \/ Generate(p)
  PROVE  Works \/ Outside
<1>1. Turn(p) /\ UNCHANGED <<packages, execs>>
  BY DEF RepairTarget, Reexecute, DeferPlan, Generate
<1>2. pc = "execute" /\ IsWork(work) /\ p \in work.todo /\ work.broken = NoTarget
  BY <1>1, TurnFacts
<1>3. "rejected" \in PlanResults /\ "deferred" \in PlanResults
  BY DEF PlanResults
<1>4. CASE \/ Settle(p, "rejected") \/ Settle(p, "deferred")
  BY <1>1, <1>2, <1>3, <1>4, SettleShape
<1>5. CASE Execute(p, FALSE, 0) \/ Execute(p, TRUE, 0) \/ Execute(p, TRUE, 1)
  BY <1>1, <1>2, <1>5, ExecuteShape
<1>6. CASE \E outcome_ \in Outcomes : Raise(outcome_)
  BY <1>1, <1>6, RaiseShape
<1>7. \/ \E outcome_ \in Outcomes : Raise(outcome_)
      \/ Settle(p, "rejected") \/ Settle(p, "deferred")
      \/ Execute(p, FALSE, 0) \/ Execute(p, TRUE, 0) \/ Execute(p, TRUE, 1)
  BY Zenon DEF RepairTarget, Reexecute, DeferPlan, Generate
<1> QED BY <1>4, <1>5, <1>6, <1>7

\* Every step has one of the shapes.
LEMMA ExecutionShape ==
  ASSUME HistoryOK, WorkOK,
         \/ \E p \in Plans : RepairTarget(p) \/ Reexecute(p) \/ DeferPlan(p) \/ Generate(p)
         \/ RuntimeRepair \/ ExecutionBlocked \/ WriteReport
  PROVE  Works \/ Outside \/ Writes
<1>1. CASE \E p \in Plans : RepairTarget(p) \/ Reexecute(p) \/ DeferPlan(p) \/ Generate(p)
  BY <1>1, PlanShape
<1>2. CASE RuntimeRepair
  BY <1>2, RuntimeRepairShape
<1>3. CASE ExecutionBlocked
  BY <1>3, RaiseShape DEF ExecutionBlocked
<1>4. CASE WriteReport
  BY <1>4 DEF WriteReport, Writes
<1> QED BY <1>1, <1>2, <1>3, <1>4

LEMMA LoopShape ==
  ASSUME PackageFirst,
         \/ EnterLoop \/ LimitReached \/ BeginPass \/ Continued \/ AskBlocked \/ Ask
         \/ ActTerminal \/ RefuseCodeRepair \/ BeginCodeRepair \/ CodeRepairDone
         \/ RefusePlanRepair \/ RepairPlan \/ ExecuteReplanned \/ PlanRepairDone
  PROVE  /\ Outside \/ Begins \/ AddsPackage
         /\ packages # <<>>
<1>0. ASSUME NEW status, NEW why, NEW counts, EndIteration(status, why, counts)
      PROVE  pc' # "execute"
  BY <1>0 DEF EndIteration
<1>1. CASE EnterLoop \/ LimitReached \/ Continued \/ AskBlocked
  BY <1>1 DEF EnterLoop, LimitReached, Continued, AskBlocked, Outside, PackageFirst
<1>2. CASE Ask
  BY <1>2 DEF Ask, Outside, PackageFirst
<1>3. CASE ActTerminal \/ RefuseCodeRepair \/ RefusePlanRepair
  <2>1. packages # <<>>
    BY <1>3 DEF ActTerminal, RefuseCodeRepair, RefusePlanRepair, PackageFirst
  <2>2. UNCHANGED <<packages, execs>>
    BY <1>3 DEF ActTerminal, RefuseCodeRepair, RefusePlanRepair
  <2>3. pc' # "execute"
    BY <1>0, <1>3 DEF ActTerminal, RefuseCodeRepair, RefusePlanRepair
  <2> QED BY <2>1, <2>2, <2>3 DEF Outside
<1>4. CASE CodeRepairDone
  <2>1. packages # <<>> /\ UNCHANGED <<packages, execs>>
    BY <1>4 DEF CodeRepairDone, PackageFirst
  <2>2. pc' # "execute"
    BY <1>0, <1>4 DEF CodeRepairDone
  <2> QED BY <2>1, <2>2 DEF Outside
<1>5. CASE PlanRepairDone
  <2>1. packages # <<>> /\ UNCHANGED <<packages, execs>>
    BY <1>5 DEF PlanRepairDone, PackageFirst
  <2>2. pc' # "execute"
    BY <1>0, <1>5 DEF PlanRepairDone
  <2> QED BY <2>1, <2>2 DEF Outside
<1>6. CASE RepairPlan
  <2>1. packages # <<>> /\ UNCHANGED execs
    BY <1>6 DEF RepairPlan, PackageFirst
  <2>2. CASE /\ \E n \in Plans : packages' = Append(packages, n)
             /\ pc' = "replanned"
    BY <2>1, <2>2 DEF AddsPackage
  <2>3. CASE EndIteration("blocked", "none", cur) /\ UNCHANGED packages
    BY <1>0, <2>1, <2>3 DEF Outside
  <2> QED BY <1>6, <2>1, <2>2, <2>3, Zenon DEF RepairPlan
<1>7. CASE BeginPass
  <2>1. packages # <<>> /\ UNCHANGED <<packages, execs>>
    BY <1>7 DEF BeginPass, PackageFirst
  <2>2. Begin("continue", 1, 1, 0, NoTarget, FALSE) \/ pc' = "ask"
    BY <1>7, Zenon DEF BeginPass
  <2> QED BY <2>1, <2>2 DEF Begins, Outside
<1>8. CASE BeginCodeRepair
  <2>1. packages # <<>> /\ UNCHANGED <<packages, execs>>
    BY <1>8 DEF BeginCodeRepair, PackageFirst
  <2>2. \/ Begin("code", 1, 1, 1, NoTarget, FALSE)
        \/ \E p \in seen.code : Begin("code", 1, 0, 1, p, FALSE)
    BY <1>8, Zenon DEF BeginCodeRepair
  <2> QED BY <2>1, <2>2, Zenon DEF Begins
<1>9. CASE ExecuteReplanned
  <2>1. packages # <<>> /\ UNCHANGED <<packages, execs>>
    BY <1>9 DEF ExecuteReplanned, PackageFirst
  <2> QED BY <1>9, <2>1, Zenon DEF Begins, ExecuteReplanned
<1> QED BY <1>1, <1>2, <1>3, <1>4, <1>5, <1>6, <1>7, <1>8, <1>9

LEMMA StageShape ==
  ASSUME PackageFirst,
         \/ SkipStage \/ EnterStage \/ PlanStage \/ ExecutionStage \/ ExecutionStageDone
         \/ CritiqueStage \/ CritiqueRefused \/ AdjudicationStage \/ ManuscriptStage
         \/ ManuscriptDeferred \/ AssemblyStage \/ BundleStage \/ CheckStage
         \/ StageBlocked \/ Record \/ ReleaseQuestioner \/ PassGate \/ StopAtGate
         \/ FailStage \/ Finish
  PROVE  (Outside \/ Begins \/ AddsPackage) /\ PackageFirst'
<1>0. stage \in Stages /\ "execute" \notin Stages /\ "planning" \in Stages
  BY DEF PackageFirst, Stages, Order
<1>1. CASE SkipStage
  <2>1. /\ stage' \in Stages /\ pc' # "execute"
    BY <1>0, <1>1, AdvanceFacts DEF SkipStage
  <2>2. packages # <<>> /\ UNCHANGED <<packages, execs>>
    BY <1>1 DEF SkipStage, PackageFirst
  <2> QED BY <2>1, <2>2 DEF Outside, PackageFirst
<1>2. CASE Record
  <2>1. /\ stage' \in Stages /\ pc' # "execute"
    BY <1>0, <1>2, AdvanceFacts DEF Record
  <2>2. packages # <<>> /\ UNCHANGED <<packages, execs>>
    BY <1>2 DEF Record, PackageFirst
  <2> QED BY <2>1, <2>2 DEF Outside, PackageFirst
<1>3. CASE EnterStage
  BY <1>0, <1>3 DEF EnterStage, studyVars, Outside, PackageFirst, Completed
<1>4. CASE PlanStage
  <2>1. PICK n \in Plans :
          StageCall(packages' = Append(packages, n) /\ UNCHANGED <<adjudication, tail, written>>)
    BY <1>4 DEF PlanStage
  <2>2. /\ UNCHANGED <<execs, stage, done, checkpoint>>
        /\ \/ pc' = "record" /\ packages' = Append(packages, n)
           \/ pc' = "failed" /\ UNCHANGED packages
    BY <2>1, Zenon DEF StageCall
  <2>3. CASE pc' = "record" /\ packages' = Append(packages, n)
    <3>1. packages' # <<>>
      BY <2>3
    <3> QED BY <1>0, <2>2, <2>3, <3>1 DEF AddsPackage, PackageFirst
  <2>4. CASE pc' = "failed" /\ UNCHANGED packages
    BY <2>2, <2>4 DEF Outside, PackageFirst, Completed
  <2> QED BY <2>2, <2>3, <2>4
<1>5. CASE ExecutionStage
  <2>1. packages # <<>> /\ UNCHANGED <<packages, execs, stage>>
    BY <1>5 DEF ExecutionStage, studyVars, PackageFirst
  <2>2. Begins
    BY <1>5, <2>1, Zenon DEF ExecutionStage, Begins
  <2> QED BY <1>0, <2>1, <2>2 DEF PackageFirst
<1>6. CASE CritiqueStage \/ AdjudicationStage \/ ManuscriptStage
  <2>1. packages # <<>> /\ UNCHANGED <<execs, stage>>
    BY <1>6 DEF CritiqueStage, AdjudicationStage, ManuscriptStage, StageCall, PackageFirst,
                studyVars
  <2>2. UNCHANGED packages /\ pc' # "execute"
    BY <1>6 DEF CritiqueStage, AdjudicationStage, ManuscriptStage, StageCall
  <2> QED BY <1>0, <2>1, <2>2 DEF Outside, PackageFirst
<1>7. CASE ExecutionStageDone \/ CritiqueRefused \/ CheckStage
  BY <1>0, <1>7 DEF ExecutionStageDone, CritiqueRefused, CheckStage, studyVars,
                    Outside, PackageFirst
<1>8. CASE ManuscriptDeferred \/ AssemblyStage \/ BundleStage
  BY <1>0, <1>8 DEF ManuscriptDeferred, AssemblyStage, BundleStage, Outside, PackageFirst
<1>9. CASE StageBlocked \/ ReleaseQuestioner \/ PassGate
  BY <1>0, <1>9 DEF StageBlocked, ReleaseQuestioner, PassGate, studyVars, Outside,
                    PackageFirst, Completed
<1>10. CASE StopAtGate \/ FailStage \/ Finish
  BY <1>0, <1>10 DEF StopAtGate, FailStage, Finish, End, Leave, Outside, PackageFirst,
                     Completed
<1> QED BY <1>1, <1>2, <1>3, <1>4, <1>5, <1>6, <1>7, <1>8, <1>9, <1>10

LEMMA StartShape ==
  ASSUME PackageFirst, NEW g, Start(g)
  PROVE  Outside /\ PackageFirst'
<1>1. /\ UNCHANGED <<packages, execs, checkpoint>> /\ pc' = "stage" /\ stage' = "planning"
  BY DEF Start
<1>2. done' \subseteq Completed(checkpoint)
  BY DEF Start
<1>3. "planning" \in Stages
  BY DEF Stages, Order
<1> QED BY <1>1, <1>2, <1>3 DEF Outside, PackageFirst, Completed

LEMMA KillShape ==
  ASSUME PackageFirst, Kill \/ KillInCall
  PROVE  Outside /\ PackageFirst'
<1>1. Leave
  BY DEF Kill, KillInCall
<1>2. "planning" \in Stages
  BY DEF Stages, Order
<1> QED BY <1>1, <1>2 DEF Leave, Outside, PackageFirst, Completed

LEMMA StudyShape ==
  ASSUME KeptInv, [Next]_vars
  PROVE  /\ Outside \/ Still \/ Begins \/ Works \/ Writes \/ AddsPackage
         /\ PackageFirst'
<1>1. PackageFirst /\ HistoryOK /\ WorkOK
  BY DEF KeptInv
<1> DEFINE Execution ==
             \/ \E p \in Plans : RepairTarget(p) \/ Reexecute(p) \/ DeferPlan(p) \/ Generate(p)
             \/ RuntimeRepair \/ ExecutionBlocked \/ WriteReport
           Loop ==
             \/ EnterLoop \/ LimitReached \/ BeginPass \/ Continued \/ AskBlocked \/ Ask
             \/ ActTerminal \/ RefuseCodeRepair \/ BeginCodeRepair \/ CodeRepairDone
             \/ RefusePlanRepair \/ RepairPlan \/ ExecuteReplanned \/ PlanRepairDone
<1>2. CASE Execution /\ UNCHANGED <<adaptiveVars, studyVars>>
  <2>1. Works \/ Outside \/ Writes
    BY <1>1, <1>2, ExecutionShape
  <2>2. UNCHANGED <<stage, packages>> /\ stage \in Stages
    BY <1>1, <1>2, <2>1 DEF Works, Outside, Writes, studyVars, PackageFirst
  <2>3. pc = "execute"
    BY <1>2 DEF RepairTarget, Reexecute, DeferPlan, Generate, Turn, RuntimeRepair,
                ExecutionBlocked, ExecutionCall, WriteReport
  <2>4. packages # <<>>
    BY <1>1, <2>3 DEF PackageFirst
  <2> QED BY <2>1, <2>2, <2>4 DEF PackageFirst
<1>3. CASE Loop /\ UNCHANGED studyVars
  <2>1. (Outside \/ Begins \/ AddsPackage) /\ packages # <<>>
    BY <1>1, <1>3, LoopShape
  <2>2. packages' # <<>>
    BY <1>1, <2>1 DEF Outside, Begins, AddsPackage, HistoryOK
  <2>3. stage' \in Stages
    BY <1>1, <1>3 DEF studyVars, PackageFirst
  <2> QED BY <2>1, <2>2, <2>3 DEF PackageFirst
<1>4. CASE \E g \in Grants[runs + 1] : Start(g)
  BY <1>1, <1>4, StartShape
<1>5. CASE Kill \/ KillInCall
  BY <1>1, <1>5, KillShape
<1>6. CASE UNCHANGED vars
  BY <1>1, <1>6 DEF vars, execVars, studyVars, Still, PackageFirst, Completed
<1>7. CASE Process
  BY <1>1, <1>2, <1>3, <1>7, StageShape DEF Process
<1> QED BY <1>4, <1>5, <1>6, <1>7 DEF Next

-----------------------------------------------------------------------------
\* What is completed of a package depends on the reports and that package only.
LEMMA DoneOfSame ==
  ASSUME UNCHANGED <<packages, execs>>
  PROVE  DoneOf(Package)' = DoneOf(Package) /\ PlansOf(Package)' = PlansOf(Package)
BY DEF DoneOf, Package, PlansOf

\* No new report: nothing in the history to compare.
LEMMA HistorySame ==
  ASSUME HistoryOK, CompletedPlansKept, UNCHANGED <<packages, execs>>
  PROVE  HistoryOK' /\ CompletedPlansKept'
BY DEF HistoryOK, IsSeq, CompletedPlansKept, PlansOf

LEMMA BeginsKeeps ==
  ASSUME HistoryOK, Begins
  PROVE  WorkOK'
<1>1. PICK caller, cap, gen, fix, target, fresh : Begin(caller, cap, gen, fix, target, fresh)
  BY DEF Begins
<1>2. CASE pc' # "execute"
  BY <1>2 DEF WorkOK
<1>3. CASE pc' = "execute"
  <2> DEFINE kept == DoneOf(Package) \ {target}
             todo == FirstOf(cap, PlansOf(Package) \ kept)
             res == [p \in PlansOf(Package) |-> IF p \in kept THEN "done" ELSE "deferred"]
  <2>1. work' = [caller |-> caller, todo |-> todo, res |-> res, code |-> {}, gen |-> gen,
                 fix |-> fix, target |-> target, broken |-> NoTarget, end |-> "none"]
    BY <1>1, <1>3, Zenon DEF Begin
  <2>2. todo \subseteq PlansOf(Package) /\ todo \cap kept = {}
    BY DEF FirstOf
  <2>3. res \in [PlansOf(Package) -> PlanResults]
    BY DEF PlanResults
  <2>4. DoneOf(Package) \subseteq PlansOf(Package) /\ NoTarget \notin DoneOf(Package)
    <3>1. PlansOf(Package) \subseteq 1..packages[Package]
      BY DEF PlansOf
    <3> QED BY <3>1 DEF DoneOf, NoTarget
  <2> HIDE DEF todo, res
  <2>5. IsWork(work')
    BY <2>1, <2>2, <2>3 DEF IsWork
  <2>6. ASSUME NEW p \in DoneOf(Package), p # target
        PROVE  res[p] = "done" /\ p \notin todo /\ p # NoTarget
    BY <2>2, <2>4, <2>6 DEF res
  <2>7. Untouched(work')
    BY <2>1, <2>6 DEF Untouched
  <2>8. UNCHANGED <<packages, execs>> /\ packages # <<>>
    BY DEF Begins
  <2>9. IsWork(work)' /\ Untouched(work)'
    BY <2>5, <2>7, <2>8, DoneOfSame DEF IsWork, Untouched
  <2> QED BY <2>8, <2>9 DEF WorkOK
<1> QED BY <1>2, <1>3

LEMMA WorksKeeps ==
  ASSUME HistoryOK, WorkOK, Works
  PROVE  WorkOK'
<1>1. IsWork(work) /\ Untouched(work) /\ packages # <<>> /\ UNCHANGED <<packages, execs>>
  BY DEF Works, WorkOK
<1>2. ASSUME NEW p \in DoneOf(Package), p # work'.target
      PROVE  work'.res[p] = "done" /\ p \notin work'.todo /\ p # work'.broken
  <2>1. p \in PlansOf(Package) /\ p # NoTarget
    BY DEF DoneOf, PlansOf, NoTarget
  <2>2. work.res[p] = "done" /\ p \notin work.todo /\ p # work.broken
    BY <1>1, <1>2 DEF Works, Untouched
  <2> QED BY <2>1, <2>2 DEF Works
<1>3. IsWork(work') /\ Untouched(work')
  BY <1>2 DEF Works, Untouched
<1>4. IsWork(work)' /\ Untouched(work)'
  BY <1>1, <1>3, DoneOfSame DEF IsWork, Untouched
<1> QED BY <1>1, <1>4 DEF WorkOK

\* The new report, of the last package, against the older ones.
LEMMA WritesKeeps ==
  ASSUME HistoryOK, WorkOK, CompletedPlansKept, Writes
  PROVE  HistoryOK' /\ WorkOK' /\ CompletedPlansKept'
<1> DEFINE new == Len(execs) + 1
           x == [pkg |-> Package, res |-> work.res, code |-> work.code, target |-> work.target]
<1>1. /\ IsSeq(execs') /\ Len(execs) \in Nat
      /\ DOMAIN execs = 1..Len(execs) /\ DOMAIN execs' = 1..new
      /\ \A i \in 1..Len(execs) : execs'[i] = execs[i]
      /\ execs'[new] = x
  BY AppendFacts DEF Writes, HistoryOK
<1>2. UNCHANGED packages /\ packages # <<>> /\ Untouched(work)
  BY DEF Writes, WorkOK
<1>3. Package \in DOMAIN packages
  BY <1>2 DEF HistoryOK, Package
<1>4. HistoryOK'
  <2>1. ASSUME NEW e \in 1..new PROVE execs'[e].pkg \in DOMAIN packages
    <3>1. e \in 1..Len(execs) \/ e = new
      BY <1>1
    <3> QED BY <1>1, <1>3, <3>1 DEF HistoryOK
  <2> QED BY <1>1, <1>2, <2>1 DEF HistoryOK
<1>5. ASSUME NEW i \in 1..new, NEW j \in 1..new, i < j, execs'[i].pkg = execs'[j].pkg,
             NEW p \in PlansOf(execs'[i].pkg), execs'[i].res[p] = "done",
             execs'[j].target # p
      PROVE  execs'[j].res[p] = "done"
  <2>1. i \in 1..Len(execs) /\ execs'[i] = execs[i]
    BY <1>1, <1>5
  <2>2. CASE j = new
    <3>1. execs[i].pkg = Package /\ p # work.target
      BY <1>1, <1>5, <2>1, <2>2
    <3>2. p \in DoneOf(Package)
      BY <1>1, <1>5, <2>1, <3>1 DEF DoneOf
    <3> QED BY <1>1, <1>2, <2>2, <3>1, <3>2 DEF Untouched
  <2>3. CASE j # new
    <3>1. j \in 1..Len(execs) /\ execs'[j] = execs[j]
      BY <1>1, <2>3
    <3> QED BY <1>1, <1>5, <2>1, <3>1 DEF CompletedPlansKept
  <2> QED BY <2>2, <2>3
<1>6. CompletedPlansKept'
  <2>1. \A k : PlansOf(k)' = PlansOf(k)
    BY <1>2 DEF PlansOf
  <2> QED BY <1>1, <1>5, <2>1 DEF CompletedPlansKept
<1> QED BY <1>4, <1>6 DEF Writes, WorkOK

\* A new package: the reports' packages keep their plans.
LEMMA PlansKeep ==
  ASSUME HistoryOK, CompletedPlansKept, AddsPackage
  PROVE  HistoryOK' /\ CompletedPlansKept'
<1>1. PICK n \in Plans : packages' = Append(packages, n)
  BY DEF AddsPackage
<1>2. UNCHANGED execs
  BY DEF AddsPackage
<1>3. /\ packages \in Seq(Plans) /\ packages' \in Seq(Plans)
      /\ DOMAIN packages \subseteq DOMAIN packages'
      /\ \A k \in DOMAIN packages : packages'[k] = packages[k]
  BY <1>1 DEF HistoryOK
<1>4. HistoryOK'
  BY <1>2, <1>3 DEF HistoryOK, IsSeq
<1>5. \A k \in DOMAIN packages : PlansOf(k)' = PlansOf(k)
  BY <1>3 DEF PlansOf
<1> QED BY <1>2, <1>4, <1>5 DEF CompletedPlansKept, HistoryOK

LEMMA KeptInit == Init => KeptInv
<1> SUFFICES ASSUME Init PROVE KeptInv
  OBVIOUS
<1>1. packages = <<>> /\ execs = <<>> /\ pc = "idle"
  BY DEF Init, ExecutionInit
<1>2. stage = "planning" /\ done = {} /\ checkpoint = NoRecords
  BY DEF Init
<1>3. "planning" \in Stages /\ Completed(checkpoint) = {}
  BY <1>2 DEF Stages, Order, Completed, NoRecords, NoRecord
<1>4. HistoryOK
  BY <1>1 DEF HistoryOK, IsSeq
<1> QED
  BY <1>1, <1>2, <1>3, <1>4 DEF KeptInv, PackageFirst, WorkOK, CompletedPlansKept

LEMMA KeptStep == ASSUME KeptInv, [Next]_vars PROVE KeptInv'
<1>1. PackageFirst' /\ (Outside \/ Still \/ Begins \/ Works \/ Writes \/ AddsPackage)
  BY StudyShape
<1>2. HistoryOK /\ WorkOK /\ CompletedPlansKept
  BY DEF KeptInv
<1>3. CASE Outside
  BY <1>1, <1>2, <1>3, HistorySame DEF Outside, WorkOK, KeptInv
<1>4. CASE Still
  <2>1. HistoryOK' /\ CompletedPlansKept'
    BY <1>2, <1>4, HistorySame DEF Still
  <2>2. WorkOK'
    BY <1>2, <1>4, DoneOfSame DEF Still, WorkOK, IsWork, Untouched
  <2> QED BY <1>1, <2>1, <2>2 DEF KeptInv
<1>5. CASE Begins
  BY <1>1, <1>2, <1>5, HistorySame, BeginsKeeps DEF Begins, KeptInv
<1>6. CASE Works
  BY <1>1, <1>2, <1>6, HistorySame, WorksKeeps DEF Works, KeptInv
<1>7. CASE Writes
  BY <1>1, <1>2, <1>7, WritesKeeps DEF KeptInv
<1>8. CASE AddsPackage
  BY <1>1, <1>2, <1>8, PlansKeep DEF AddsPackage, WorkOK, KeptInv
<1> QED BY <1>1, <1>3, <1>4, <1>5, <1>6, <1>7, <1>8

\* A plan that an execution has completed stays completed in all the later reports
\* of its package but those of its own repair, whatever failed or was killed in
\* between and however the budget cut the executions short.
THEOREM CompletedKept == Spec => []CompletedPlansKept
<1>1. KeptInv => CompletedPlansKept
  BY DEF KeptInv
<1> QED BY <1>1, KeptInit, KeptStep, PTL DEF Spec
=============================================================================
