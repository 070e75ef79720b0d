---------------------------- MODULE TargetedStudy ----------------------------
(***************************************************************************)
(* run_targeted_study in full mode (factori/targeted_study.py): a sequence of *)
(* stages, each followed by a checkpoint that says which stages are complete  *)
(* and from which upstream outputs; an invocation resumes from the last one.  *)
(* The process may be killed anywhere, between a stage's outputs and its      *)
(* checkpoint among others.                                                *)
(*                                                                         *)
(* Stages that differ in nothing the properties see are one: the planning      *)
(* stages, the three of the manuscript, and the assembly and verification of    *)
(* the paper.  The PDF is not rendered.                                      *)
(***************************************************************************)
EXTENDS AdaptiveEvidence

CONSTANTS
  Grants,    \* the limits, [calls, iterations, code, plan], that a caller may
             \* give at the first invocation, the second, ...: the bound on them
  MaxKills   \* bound: killed invocations

ASSUME StudyAssumption ==
  /\ Grants \in Seq(SUBSET [calls : Nat, iterations : Nat \ {0}, code : Nat, plan : Nat])
  /\ MaxKills \in Nat

VARIABLES
  stage,       \* the stage whose turn it is
  done,        \* `completed`: the stages to skip
  records,     \* stage -> [status, in, out], in the process
  checkpoint,  \* persisted: the same, in the last checkpoint
  tail,        \* persisted: what the last manuscript, assembly and bundle say
  written,     \* history: the execution the last ready manuscript was written from
  outcome,     \* what the last invocation to end by itself reported
  runs, kills  \* counters of the bounds

studyVars == <<stage, done, records, checkpoint, tail, written, outcome, runs, kills>>
vars == <<execVars, adaptiveVars, studyVars, budgetVars>>

Order == <<"planning", "execution", "adaptive", "critique",
           "adjudication", "manuscript", "assembly", "bundle", "check">>
Stages == {Order[i] : i \in DOMAIN Order}
Place(s) == CHOOSE i \in DOMAIN Order : Order[i] = s
PaperTail == {"manuscript", "assembly", "bundle"}
From(s) == {t \in Stages : Place(t) >= Place(s)}

NoRecord == [status |-> "none", in |-> [t \in Stages |-> 0], out |-> 0]
NoRecords == [s \in Stages |-> NoRecord]

\* _stage_input_fingerprint: the outputs of the completed stages before s.
Upstream(rs, s) ==
  [t \in Stages |-> IF Place(t) < Place(s) /\ rs[t].status = "completed"
                    THEN rs[t].out ELSE 0]

Completed(rs) == {s \in Stages : rs[s].status = "completed"}

\* _invalidate_stale_completed_stages: everything from the first completed stage
\* whose recorded inputs are not what they would be now.
Stale(rs) == {s \in Completed(rs) : rs[s].in # Upstream(rs, s)}
Invalidated(rs) == UNION {From(s) : s \in Stale(rs)}

\* _discard_stage_and_downstream for an adaptive loop that can go on.
Reopened(d, lim) ==
  IF "adaptive" \in d /\ loop.status # "none" /\ CanResume(lim)
  THEN From("adaptive") ELSE {}

\* _reopen_deferred_paper_tail.
ReopenedTail ==
  IF tail.manuscript = "deferred" THEN From("manuscript")
  ELSE IF tail.assembly = "deferred" THEN From("assembly")
  ELSE IF tail.bundle = "deferred" THEN From("bundle") ELSE {}

\* _minimum_required_call_count: planning, a generation, a question, the tail.
MinimumCalls == 3 + TailReserve

\* _active_budget: one quality repair for the initial code, two for each repair.
Allowed(g) == [calls |-> g.calls, repairs |-> 1 + 2 * g.code + 2 * g.plan]

-----------------------------------------------------------------------------
\* The process is gone, with all that was only in its memory.
Leave ==
  /\ pc' = "idle" /\ stage' = "planning" /\ done' = {} /\ records' = checkpoint
  /\ work' = NoWork /\ cur' = NoCur /\ seen' = NoSeen
  /\ UNCHANGED <<packages, execs, failures, loop, limits, adjudication,
                 checkpoint, tail, written, runs>>

\* Mutant of Start: what the reopened loop feeds is not discarded.
StartShallow(g) ==
  /\ pc = "idle" /\ g.calls >= MinimumCalls
  /\ Open(Allowed(g))
  /\ limits' = [iterations |-> g.iterations, code |-> g.code, plan |-> g.plan]
  /\ LET current == Completed(checkpoint) \ Invalidated(checkpoint)
     IN  done' = (current \ (Reopened(current, limits') \cap {"adaptive"})) \ ReopenedTail
  /\ records' = checkpoint
  /\ stage' = "planning" /\ pc' = "stage" /\ runs' = runs + 1 /\ outcome' = "none"
  /\ UNCHANGED <<packages, execs, work, failures, loop, cur, seen, adjudication,
                 checkpoint, tail, written, kills>>

\* An invocation: the preflight, the budget from the records on disk, and the
\* stages the last checkpoint lets it skip.  The configuration's limits are not
\* part of what a resumed run compares with its checkpoint.
Start(g) ==
  /\ pc = "idle" /\ g.calls >= MinimumCalls
  /\ Open(Allowed(g))
  /\ limits' = [iterations |-> g.iterations, code |-> g.code, plan |-> g.plan]
  /\ LET current == Completed(checkpoint) \ Invalidated(checkpoint)
     IN  done' = (current \ Reopened(current, limits')) \ ReopenedTail
  /\ records' = checkpoint
  /\ stage' = "planning" /\ pc' = "stage" /\ runs' = runs + 1 /\ outcome' = "none"
  /\ UNCHANGED <<packages, execs, work, failures, loop, cur, seen, adjudication,
                 checkpoint, tail, written, kills>>

\* On to the next stage; around the adaptive one the reserves are released.
Advance ==
  /\ stage' = IF stage = "check" THEN stage ELSE Order[Place(stage) + 1]
  /\ pc' = CASE stage = "execution" -> "release"
             [] stage = "adaptive" -> "gate"
             [] stage = "check" -> "finish"
             [] OTHER -> "stage"

SkipStage ==
  /\ pc = "stage" /\ stage \in done
  /\ Advance
  /\ UNCHANGED <<packages, execs, work, failures, budgetVars, adaptiveVars, done, records,
                 checkpoint, tail, written, outcome, runs, kills>>

EnterStage ==
  /\ pc = "stage" /\ stage \notin done
  /\ pc' = stage
  /\ UNCHANGED <<packages, execs, work, failures, budgetVars, adaptiveVars, studyVars>>

\* A stage's call: `answered` is what the stage writes then; an error fails it.
StageCall(answered) ==
  \E outcome_ \in Outcomes :
    /\ BudgetCall("plain", outcome_) /\ Fail(outcome_)
    /\ IF outcome_ = "answer" THEN pc' = "record" /\ answered
       ELSE pc' = "failed" /\ UNCHANGED <<packages, adjudication, tail, written>>
    /\ UNCHANGED <<execs, work, loop, cur, seen, limits, stage, done, records,
                   checkpoint, outcome, runs, kills>>

PlanStage ==
  /\ pc = "planning"
  /\ \E n \in Plans :
       StageCall(packages' = Append(packages, n) /\ UNCHANGED <<adjudication, tail, written>>)

\* The first execution; its runtime repair is allowed if two calls are left.
ExecutionStage ==
  /\ pc = "execution"
  /\ Begin("stage", MaxPlans, RemainingCalls, IF CanSpend(2, 1) THEN 1 ELSE 0, NoTarget, FALSE)
  /\ UNCHANGED <<packages, execs, failures, budgetVars, adaptiveVars, studyVars>>

ExecutionStageDone ==
  /\ pc = "return" /\ work.caller = "stage"
  /\ pc' = IF work.end = "ok" THEN "record" ELSE "failed"
  /\ work' = NoWork
  /\ UNCHANGED <<packages, execs, failures, budgetVars, adaptiveVars, studyVars>>

\* The critics and the adjudication read the last execution report there is.
CritiqueStage ==
  /\ pc = "critique" /\ execs[Len(execs)].code # {}
  /\ StageCall(UNCHANGED <<packages, adjudication, tail, written>>)

\* A report that executed no code of its own has no execution record: the strict
\* production check refuses it, after the critics have answered.
CritiqueRefused ==
  /\ pc = "critique" /\ execs[Len(execs)].code = {}
  /\ \E outcome_ \in Outcomes : BudgetCall("plain", outcome_) /\ Fail(outcome_)
  /\ pc' = "failed"
  /\ UNCHANGED <<packages, execs, work, adaptiveVars, studyVars>>

\* A package without results of its own is no nucleus: _primary_blockers.
Verdicts ==
  (IF execs[Len(execs)].pkg = Package THEN {"nucleus"} ELSE {}) \cup {"repair", "none"}

\* A report that is not adjudication-ready fails the stage, without a call.
AdjudicationStage ==
  /\ pc = "adjudication"
  /\ IF Ready(Len(execs))
     THEN \E v \in Verdicts :
            StageCall(/\ adjudication' = [exec |-> Len(execs), verdict |-> v]
                      /\ UNCHANGED <<packages, tail, written>>)
     ELSE /\ pc' = "failed"
          /\ UNCHANGED <<packages, execs, work, failures, budgetVars, adaptiveVars,
                         studyVars>>

\* _prerequisite_blockers of the manuscript: the chosen package is the last one, and
\* the last execution report completed its plans.
Covered ==
  /\ adjudication.verdict = "nucleus" /\ execs[adjudication.exec].pkg = Package
  /\ execs[Len(execs)].pkg = Package /\ Ready(Len(execs))

\* The manuscript is written from the last execution report, or deferred.
ManuscriptStage ==
  /\ pc = "manuscript" /\ Covered
  /\ \E state \in {"ready", "deferred"} :
       StageCall(/\ tail' = [tail EXCEPT !.manuscript = state]
                 /\ written' = IF state = "ready" THEN Len(execs) ELSE written
                 /\ UNCHANGED <<packages, adjudication>>)

\* Without them there is no call.
ManuscriptDeferred ==
  /\ pc = "manuscript" /\ ~Covered
  /\ tail' = [tail EXCEPT !.manuscript = "deferred"]
  /\ pc' = "record"
  /\ UNCHANGED <<packages, execs, work, failures, budgetVars, adaptiveVars, stage, done,
                 records, checkpoint, written, outcome, runs, kills>>

\* The assembly is deferred without a ready manuscript, and may be with one; so
\* is the bundle, of what the assembly and its verification left.
AssemblyStage ==
  /\ pc = "assembly"
  /\ \E state \in IF tail.manuscript = "ready" THEN {"ready", "deferred"} ELSE {"deferred"} :
       tail' = [tail EXCEPT !.assembly = state]
  /\ pc' = "record"
  /\ UNCHANGED <<packages, execs, work, failures, budgetVars, adaptiveVars, stage, done,
                 records, checkpoint, written, outcome, runs, kills>>

BundleStage ==
  /\ pc = "bundle"
  /\ \E state \in IF tail.assembly = "ready" THEN {"ready", "deferred"} ELSE {"deferred"} :
       tail' = [tail EXCEPT !.bundle = state]
  /\ pc' = "record"
  /\ UNCHANGED <<packages, execs, work, failures, budgetVars, adaptiveVars, stage, done,
                 records, checkpoint, written, outcome, runs, kills>>

CheckStage ==
  /\ pc = "check" /\ pc' = "record"
  /\ UNCHANGED <<packages, execs, work, failures, budgetVars, adaptiveVars, studyVars>>

\* The budget blocks a stage's call.
StageCalling ==
  \/ pc \in {"planning", "critique"}
  \/ pc = "adjudication" /\ Ready(Len(execs))
  \/ pc = "manuscript" /\ Covered

StageBlocked ==
  /\ StageCalling /\ ~CanSpend(1, 0)
  /\ pc' = "failed"
  /\ UNCHANGED <<packages, execs, work, failures, budgetVars, adaptiveVars, studyVars>>

\* The stage's record and a checkpoint.
StageDeferred ==
  \/ stage = "adaptive" /\ loop.status = "budget_exhausted"
  \/ stage \in PaperTail /\ tail[stage] = "deferred"

Record ==
  /\ pc = "record"
  /\ records' = [records EXCEPT ![stage] =
                   [status |-> IF StageDeferred THEN "deferred" ELSE "completed",
                    in     |-> Upstream(records, stage),
                    out    |-> @.out + 1]]
  /\ done' = IF StageDeferred THEN done ELSE done \cup {stage}
  /\ checkpoint' = records'
  /\ Advance
  /\ UNCHANGED <<packages, execs, work, failures, budgetVars, adaptiveVars,
                 tail, written, outcome, runs, kills>>

\* After the execution, in every invocation.
ReleaseQuestioner ==
  /\ pc = "release" /\ ReleaseAsk
  /\ pc' = "stage"
  /\ UNCHANGED <<packages, execs, work, failures, adaptiveVars, studyVars>>

\* Mutant of PassGate: the loop's verdict is not looked at.
PassGateUnchecked ==
  /\ pc = "gate" /\ Ready(Actionable)
  /\ ReleaseTail /\ pc' = "stage"
  /\ UNCHANGED <<packages, execs, work, failures, adaptiveVars, studyVars>>

\* Accepted, ready evidence opens the way to the paper.
PassGate ==
  /\ pc = "gate" /\ Satisfied /\ Ready(Actionable)
  /\ ReleaseTail /\ pc' = "stage"
  /\ UNCHANGED <<packages, execs, work, failures, adaptiveVars, studyVars>>

\* The ways an invocation ends by itself.
End(result) == outcome' = result /\ Close /\ Leave /\ UNCHANGED kills

StopAtGate ==
  /\ pc = "gate" /\ ~(Satisfied /\ Ready(Actionable))
  /\ End(IF Satisfied THEN "failed" ELSE "deferred")

FailStage == pc = "failed" /\ End("failed")

Finish ==
  /\ pc = "finish"
  /\ End(IF \E s \in PaperTail : records[s].status = "deferred"
         THEN "deferred" ELSE "completed")

\* The ways it does not.
Kill ==
  /\ pc # "idle" /\ kills < MaxKills /\ kills' = kills + 1
  /\ Close /\ Leave /\ UNCHANGED outcome

\* The call the process is about to make, whichever part of it makes it.
Calling(kind) ==
  \/ ExecutionCall(kind)
  \/ AdaptiveCall(kind)
  \/ kind = "plain" /\ StageCalling

KillInCall ==
  /\ pc # "idle" /\ kills < MaxKills /\ kills' = kills + 1
  /\ \E kind \in Kinds : Calling(kind) /\ LoseCall(kind)
  /\ Leave /\ UNCHANGED outcome

Init ==
  /\ BudgetInit /\ ExecutionInit /\ AdaptiveInit
  /\ stage = "planning" /\ done = {} /\ records = NoRecords /\ checkpoint = NoRecords
  /\ tail = [s \in PaperTail |-> "none"]
  /\ written = 0 /\ outcome = "none" /\ runs = 0 /\ kills = 0

\* What the process does by itself.
Process ==
  \/ \E p \in Plans : RepairTarget(p) /\ UNCHANGED <<adaptiveVars, studyVars>>
  \/ \E p \in Plans : Reexecute(p) /\ UNCHANGED <<adaptiveVars, studyVars>>
  \/ \E p \in Plans : DeferPlan(p) /\ UNCHANGED <<adaptiveVars, studyVars>>
  \/ \E p \in Plans : Generate(p) /\ UNCHANGED <<adaptiveVars, studyVars>>
  \/ RuntimeRepair /\ UNCHANGED <<adaptiveVars, studyVars>>
  \/ ExecutionBlocked /\ UNCHANGED <<adaptiveVars, studyVars>>
  \/ WriteReport /\ UNCHANGED <<adaptiveVars, studyVars>>
  \/ EnterLoop /\ UNCHANGED studyVars
  \/ LimitReached /\ UNCHANGED studyVars
  \/ BeginPass /\ UNCHANGED studyVars
  \/ Continued /\ UNCHANGED studyVars
  \/ AskBlocked /\ UNCHANGED studyVars
  \/ Ask /\ UNCHANGED studyVars
  \/ ActTerminal /\ UNCHANGED studyVars
  \/ RefuseCodeRepair /\ UNCHANGED studyVars
  \/ BeginCodeRepair /\ UNCHANGED studyVars
  \/ CodeRepairDone /\ UNCHANGED studyVars
  \/ RefusePlanRepair /\ UNCHANGED studyVars
  \/ RepairPlan /\ UNCHANGED studyVars
  \/ ExecuteReplanned /\ UNCHANGED studyVars
  \/ PlanRepairDone /\ UNCHANGED studyVars
  \/ SkipStage \/ EnterStage \/ PlanStage \/ ExecutionStage \/ ExecutionStageDone
  \/ CritiqueStage \/ CritiqueRefused \/ AdjudicationStage \/ ManuscriptStage
  \/ ManuscriptDeferred \/ AssemblyStage \/ BundleStage \/ CheckStage \/ StageBlocked \/ Record
  \/ ReleaseQuestioner \/ PassGate \/ StopAtGate \/ FailStage \/ Finish

Next ==
  \/ runs + 1 \in DOMAIN Grants /\ \E g \in Grants[runs + 1] : Start(g)
  \/ Process
  \/ Kill \/ KillInCall

Spec == Init /\ [][Next]_vars

\* The process is a single thread that waits on nothing but its own calls, which
\* have a timeout: it goes on until it ends.
FairSpec == Spec /\ WF_vars(Process)

-----------------------------------------------------------------------------
Statuses == {"none", "completed", "deferred"}

TypeOK ==
  /\ BudgetTypeOK
  /\ packages \in Seq(Plans) /\ failures \in 0..MaxFailures
  /\ \A e \in DOMAIN execs :
       /\ execs[e].pkg \in DOMAIN packages /\ execs[e].target \in Plans \cup {NoTarget}
       /\ execs[e].res \in [PlansOf(execs[e].pkg) ->
                            {"done", "failed", "rejected", "deferred"}]
       /\ execs[e].code \subseteq Plans
  /\ work.todo \subseteq Plans /\ work.gen \in Nat /\ work.fix \in 0..1
  /\ stage \in Stages /\ done \subseteq Stages
  /\ DOMAIN checkpoint = Stages
  /\ \A s \in Stages : checkpoint[s].status \in Statuses
  /\ loop.source \in 0..Len(execs) /\ adjudication.exec \in 0..Len(execs)
  /\ (pc = "idle") = ~open

\* A study that reports itself completed has a complete record for every stage,
\* and the paper's bundle and all before it were made from the outputs that the
\* stages before them have now: nothing the paper rests on was redone after what
\* depends on it.  Of the closing check, on which nothing depends, only the record is
\* claimed.  The records outlive the invalidation of their stages, in memory and in
\* the checkpoints (_set_stage_record replaces one stage's only), so that this rests
\* on the fingerprints and on the order of the stages.
CompletedIsCurrent ==
  outcome = "completed" =>
    \A s \in Stages : /\ checkpoint[s].status = "completed"
                      /\ s # "check" => checkpoint[s].in = Upstream(checkpoint, s)

\* The paper of a completed study was written from an execution that is ready, of the
\* package that the critics chose for its nucleus when they read that execution or an
\* earlier one of the package; and the questioner has accepted one that was ready.
PaperRestsOnAdjudicated ==
  outcome = "completed" =>
    /\ Satisfied /\ Ready(loop.source)
    /\ adjudication.verdict = "nucleus" /\ Ready(adjudication.exec)
    /\ adjudication.exec <= written /\ Ready(written)
    /\ execs[written].pkg = execs[adjudication.exec].pkg

\* A plan that some execution of a package has completed is complete in all the
\* package's later reports, but for those whose own repair targeted it.
CompletedPlansKept ==
  \A i, j \in DOMAIN execs :
    i < j /\ execs[i].pkg = execs[j].pkg =>
      \A p \in PlansOf(execs[i].pkg) : execs[i].res[p] = "done" /\ execs[j].target # p
                         => execs[j].res[p] = "done"

\* An invocation that was started ends, whatever its calls return.
InvocationEnds == pc # "idle" ~> pc = "idle"

\* load_latest_actionable_execution_report keeps a rejected repair from replacing
\* the evidence: the critics are given what the questioner accepted.
CriticsReadAccepted == pc = "critique" => Len(execs) = loop.source

\* COMMANDS.md: the stages of the paper "remain unreachable until an accepted
\* adjudication-ready evidence result exists"; adaptive_evidence.py: "A bounded repair
\* was executed; re-questioning is required."  The paper of a completed study was
\* written from the execution that the questioner accepted.
PaperRestsOnAccepted == outcome = "completed" => written = loop.source
=============================================================================
