-------------------------- MODULE StudyRecordsProofs --------------------------
(***************************************************************************)
(* What a study that reports itself completed rests on, for all limits,       *)
(* raised or lowered between its invocations, and for any kills.              *)
(*                                                                         *)
(* A record is sound when it was made from the outputs that the stages        *)
(* before it have now.  A resumed invocation skips sound stages only, and all  *)
(* that was made before one is sound too (RecordsInv, DoneInv); what such a    *)
(* stage left on disk is what its record stands for (TailInv, PaperInv).  At    *)
(* the end every stage has been skipped or run again.                         *)
(***************************************************************************)
EXTENDS TargetedStudyProofs, FiniteSetTheorems, WellFoundedInduction

-----------------------------------------------------------------------------
(* The stages' records, and where the process is. *)

Earlier(s) == {t \in Stages : Place(t) < Place(s)}

\* The stages the bundle and all before it are made by.
Made == Stages \ {"check"}

\* The stages this invocation has left behind.
Passed == IF pc = "finish" THEN Stages ELSE Earlier(stage)

\* Between two stages, or outside of an invocation.
Between == {"idle", "stage", "release", "gate", "finish"}
LoopLabels == {"loop", "ask", "act", "replanned"}
Labels == Between \cup LoopLabels \cup Stages \cup {"record", "failed", "execute", "return"}

WhereInv ==
  /\ pc \in Labels /\ stage \in Stages
  /\ pc \in Stages => stage = pc
  /\ pc \in LoopLabels \cup {"release"} => stage = "adaptive"
  /\ pc \in {"execute", "return"} =>
       stage = IF work.caller = "stage" THEN "execution" ELSE "adaptive"
  /\ pc \in {"gate"} => stage = "critique"
  /\ pc = "finish" => stage = "check"
  /\ pc \notin Between => stage \notin done
  /\ pc = "idle" => stage = "planning" /\ done = {}
  /\ outcome # "none" => pc = "idle"

\* A record is of the outputs that the stages before it have now.
Sound(s) ==
  /\ checkpoint[s].status = "completed"
  /\ \A t \in Earlier(s) : checkpoint[s].in[t] = checkpoint[t].out

RecordsInv ==
  /\ records = checkpoint
  /\ checkpoint \in [Stages -> [status : Statuses, in : [Stages -> Nat], out : Nat]]
  /\ \A s \in Stages : checkpoint[s].status # "none" => checkpoint[s].out > 0
  /\ \A s, t \in Stages : checkpoint[s].in[t] <= checkpoint[t].out
  /\ \A s, t \in Stages : t \notin Earlier(s) => checkpoint[s].in[t] = 0
  /\ \A s \in Made \cap Completed(checkpoint) :
       \A t \in Earlier(s) : checkpoint[s].in[t] > 0
  /\ \A s, t \in Stages :
       checkpoint[s].in[t] > 0 /\ checkpoint[s].in[t] = checkpoint[t].out
         => checkpoint[t].status = "completed"
  /\ \A s \in Made : Sound(s) => \A t \in Earlier(s) : Sound(t)

\* The loop is about to be run, and with it everything after it.
LoopAhead == stage \in {"planning", "execution", "adaptive"} /\ "adaptive" \notin done

TailDeferred(t) ==
  t \in PaperTail /\ tail[t] = "deferred" /\ checkpoint[t].status = "deferred"

DoneInv ==
  /\ done \subseteq Completed(checkpoint)
  /\ \A s \in Made \cap done : Sound(s) /\ Earlier(s) \subseteq done
  /\ pc # "idle" =>
       \A s \in Made \ done : Sound(s) => LoopAhead /\ s \in From("adaptive")
  /\ \A t \in Passed :
       t \in done \/ TailDeferred(t) \/ (pc = "gate" /\ t = "adaptive" /\ ~Satisfied)

Nucleus ==
  /\ adjudication.verdict = "nucleus"
  /\ adjudication.exec \in DOMAIN execs /\ Ready(adjudication.exec)

\* What the manuscript was written from.
PaperFacts ==
  /\ Nucleus
  /\ written \in DOMAIN execs /\ Ready(written) /\ adjudication.exec <= written
  /\ execs[written].pkg = execs[adjudication.exec].pkg

TailInv ==
  /\ tail \in [PaperTail -> {"none", "ready", "deferred"}]
  /\ \A t \in PaperTail : Sound(t) => tail[t] = "ready"
  /\ pc = "record" /\ stage \in PaperTail => tail[stage] # "none"
  /\ pc = "record" /\ stage = "assembly" /\ tail.assembly = "ready" => tail.manuscript = "ready"
  /\ pc = "record" /\ stage = "bundle" /\ tail.bundle = "ready" => tail.assembly = "ready"

IsLoop(l) ==
  l = [status |-> l.status, why |-> l.why, iterations |-> l.iterations, code |-> l.code,
       plan |-> l.plan, source |-> l.source, action |-> l.action, hadCode |-> l.hadCode,
       maxIterations |-> l.maxIterations]
IsCur(c) == c = [code |-> c.code, plan |-> c.plan, action |-> c.action]

EvidenceInv ==
  /\ IsLoop(loop) /\ IsCur(cur)
  /\ adjudication.exec \in 0..Len(execs) /\ seen.exec \in 0..Len(execs)
  /\ loop.source \in 0..Len(execs)
  /\ adjudication.verdict = "nucleus" => Nucleus
  /\ Satisfied => loop.source \in DOMAIN execs /\ Ready(loop.source)
  /\ "execution" \in Completed(checkpoint) => execs # <<>>
  /\ pc = "record" /\ stage = "execution" => execs # <<>>
  /\ pc = "return" /\ work.end = "ok" => execs # <<>>
  /\ pc = "ask" => seen.exec # 0
  /\ pc = "act" /\ cur.action = "accept" => seen.exec # 0 /\ Ready(seen.exec)

PaperInv ==
  /\ Sound("manuscript") => PaperFacts
  /\ pc = "record" /\ stage = "manuscript" /\ tail.manuscript = "ready" => PaperFacts
  /\ "adaptive" \in Passed /\ pc # "gate" => Satisfied
  /\ outcome = "completed" =>
       Satisfied /\ \A s \in Stages : /\ checkpoint[s].status = "completed"
                                      /\ s # "check" => Sound(s)

StudyInv == WhereInv /\ RecordsInv /\ DoneInv /\ TailInv /\ EvidenceInv /\ PaperInv

-----------------------------------------------------------------------------
(* The order of the stages. *)

LEMMA StageList ==
  Stages = {"planning", "execution", "adaptive", "critique", "adjudication",
            "manuscript", "assembly", "bundle", "check"}
<1>1. DOMAIN Order = 1..9
  BY OrderFacts
<1> QED BY <1>1 DEF Stages, Order

LEMMA Places ==
  /\ Place("planning") = 1 /\ Place("execution") = 2 /\ Place("adaptive") = 3
  /\ Place("critique") = 4 /\ Place("adjudication") = 5 /\ Place("manuscript") = 6
  /\ Place("assembly") = 7 /\ Place("bundle") = 8 /\ Place("check") = 9
<1>1. \A s \in Stages : Place(s) \in 1..9 /\ Order[Place(s)] = s
  BY OrderFacts
<1> QED BY <1>1, StageList DEF Order

LEMMA Apart == \A s, t \in Stages : Place(s) = Place(t) => s = t
BY OrderFacts

LEMMA AdvanceMoves ==
  ASSUME stage \in Stages, pc # "finish", Advance
  PROVE  /\ stage' \in Stages
         /\ pc' = IF stage = "execution" THEN "release" ELSE IF stage = "adaptive" THEN "gate"
                  ELSE IF stage = "check" THEN "finish" ELSE "stage"
         /\ stage = "check" => stage' = "check"
         /\ stage = "planning" => stage' = "execution"
         /\ stage = "execution" => stage' = "adaptive"
         /\ stage = "adaptive" => stage' = "critique"
         /\ Passed' = Passed \cup {stage}
<1>1. /\ stage' \in Stages
      /\ pc' = IF stage = "execution" THEN "release" ELSE IF stage = "adaptive" THEN "gate"
               ELSE IF stage = "check" THEN "finish" ELSE "stage"
  BY OrderFacts DEF Advance
<1>2. /\ stage = "check" => stage' = "check"
      /\ stage = "planning" => stage' = "execution"
      /\ stage = "execution" => stage' = "adaptive"
      /\ stage = "adaptive" => stage' = "critique"
  BY Places DEF Advance, Order
<1>3. CASE stage = "check"
  <2>1. Passed' = Stages /\ Passed = Earlier("check")
    BY <1>1, <1>3 DEF Passed
  <2>2. Stages = Earlier("check") \cup {"check"}
    BY StageList, Places DEF Earlier
  <2> QED BY <1>1, <1>2, <1>3, <2>1, <2>2
<1>4. CASE stage # "check"
  <2>1. stage' = Order[Place(stage) + 1] /\ Place(stage) \in 1..9 /\ Place(stage) # 9
    BY <1>4, OrderFacts DEF Advance, Order
  <2>2. Place(stage') = Place(stage) + 1
    BY <2>1, Places DEF Order
  <2>3. \A t \in Stages : Place(t) < Place(stage') <=> Place(t) < Place(stage) \/ t = stage
    BY <2>1, <2>2, OrderFacts, Apart
  <2>4. Earlier(stage') = Earlier(stage) \cup {stage}
    BY <2>3 DEF Earlier
  <2>5. pc' # "finish"
    BY <1>1, <1>4
  <2> QED BY <1>1, <1>2, <2>4, <2>5 DEF Passed
<1> QED BY <1>3, <1>4

LEMMA EarlierFacts ==
  /\ \A s \in Stages : Earlier(s) \subseteq Made /\ s \notin Earlier(s)
  /\ \A s, t \in Stages : t \in Earlier(s) => Earlier(t) \subseteq Earlier(s)
  /\ \A s, t \in Stages : t \in Earlier(s) \/ t = s \/ s \in Earlier(t)
  /\ \A s, t \in Stages : t \in From(s) <=> t = s \/ s \in Earlier(t)
<1>1. \A s \in Stages : Place(s) \in 1..9
  BY OrderFacts
<1>2. \A s \in Stages : Earlier(s) \subseteq Made /\ s \notin Earlier(s)
  BY <1>1, Places DEF Earlier, Made
<1>3. \A s, t \in Stages : t \in Earlier(s) => Earlier(t) \subseteq Earlier(s)
  BY <1>1 DEF Earlier
<1>4. \A s, t \in Stages : t \in Earlier(s) \/ t = s \/ s \in Earlier(t)
  BY <1>1, Apart DEF Earlier
<1>5. \A s, t \in Stages : t \in From(s) <=> t = s \/ s \in Earlier(t)
  BY <1>1, Apart DEF Earlier, From
<1> QED BY <1>2, <1>3, <1>4, <1>5

-----------------------------------------------------------------------------
(* Where the process is. *)

\* An execution goes on or returns to its caller, with a report written if it
\* ended well.
LEMMA ExecutionMoves ==
  ASSUME HistoryOK, WorkOK,
         \/ \E p \in Plans : RepairTarget(p) \/ Reexecute(p) \/ DeferPlan(p) \/ Generate(p)
         \/ RuntimeRepair \/ ExecutionBlocked \/ WriteReport
  PROVE  /\ pc = "execute" /\ pc' \in {"execute", "return"} /\ work'.caller = work.caller
         /\ pc' = "return" /\ work'.end = "ok" => execs' # <<>>
<1>1. pc = "execute"
  BY DEF RepairTarget, Reexecute, DeferPlan, Generate, Turn, RuntimeRepair,
         ExecutionBlocked, ExecutionCall, WriteReport
<1>2. IsWork(work)
  BY <1>1 DEF WorkOK
<1>3. ASSUME NEW end, Raise(end), end # "ok"
      PROVE  pc' = "return" /\ work'.caller = work.caller /\ work'.end # "ok"
  BY <1>3 DEF Raise, NoWork
<1>4. ASSUME NEW p \in Plans,
             RepairTarget(p) \/ Reexecute(p) \/ DeferPlan(p) \/ Generate(p)
      PROVE  /\ pc' \in {"execute", "return"} /\ work'.caller = work.caller
             /\ pc' = "return" => work'.end # "ok"
  <2>1. ASSUME NEW r, Settle(p, r)
        PROVE  pc' = pc /\ work'.caller = work.caller
    BY <1>2, <2>1 DEF Settle, IsWork
  <2>2. ASSUME NEW fixable, NEW paid, Execute(p, fixable, paid)
        PROVE  pc' = pc /\ work'.caller = work.caller
    BY <1>2, <2>2, Zenon DEF Execute, IsWork
  <2>3. \/ \E outcome_ \in Outcomes : outcome_ # "answer" /\ Raise(outcome_)
        \/ Settle(p, "rejected") \/ Settle(p, "deferred")
        \/ Execute(p, FALSE, 0) \/ Execute(p, TRUE, 0) \/ Execute(p, TRUE, 1)
    BY <1>4, Zenon DEF RepairTarget, Reexecute, DeferPlan, Generate
  <2>4. "ok" \notin Outcomes
    BY DEF Outcomes
  <2> QED BY <1>1, <1>3, <2>1, <2>2, <2>3, <2>4
<1>5. CASE RuntimeRepair
  BY <1>1, <1>2, <1>5 DEF RuntimeRepair, IsWork
<1>6. CASE ExecutionBlocked
  BY <1>1, <1>3, <1>6 DEF ExecutionBlocked
<1>7. CASE WriteReport
  <2>1. execs' # <<>>
    BY <1>7, AppendFacts DEF WriteReport, HistoryOK
  <2> QED BY <1>1, <1>7, <2>1 DEF WriteReport, NoWork
<1> QED BY <1>1, <1>4, <1>5, <1>6, <1>7

LEMMA BeginMoves ==
  ASSUME NEW caller, NEW cap, NEW gen, NEW fix, NEW target, NEW fresh,
         Begin(caller, cap, gen, fix, target, fresh)
  PROVE  pc' \in {"execute", "return"} /\ work'.caller = caller /\ work'.end # "ok"
BY DEF Begin

\* The loop goes on, starts an execution of its own, or ends its stage.
LEMMA LoopMoves ==
  ASSUME WhereInv,
         \/ EnterLoop \/ LimitReached \/ BeginPass \/ Continued \/ AskBlocked \/ Ask
         \/ ActTerminal \/ RefuseCodeRepair \/ BeginCodeRepair \/ CodeRepairDone
         \/ RefusePlanRepair \/ RepairPlan \/ ExecuteReplanned \/ PlanRepairDone
  PROVE  /\ stage = "adaptive" /\ UNCHANGED <<execs, adjudication>>
         /\ pc \in LoopLabels \cup {"adaptive", "return"}
         /\ pc' \in LoopLabels \cup {"record", "failed", "execute", "return"}
         /\ pc' \in {"execute", "return"} => work'.caller # "stage" /\ work'.end # "ok"
<1>0. /\ "adaptive" \in Stages /\ LoopLabels = {"loop", "ask", "act", "replanned"}
      /\ pc \in LoopLabels \cup {"adaptive"} => stage = "adaptive"
      /\ pc = "return" /\ work.caller # "stage" => stage = "adaptive"
  BY StageList DEF WhereInv, LoopLabels
<1>1. ASSUME NEW status, NEW why, NEW counts, EndIteration(status, why, counts)
      PROVE  pc' \in {"loop", "record"}
  BY <1>1 DEF EndIteration
<1>2. CASE EnterLoop \/ LimitReached \/ AskBlocked \/ Continued
  BY <1>0, <1>2 DEF EnterLoop, LimitReached, AskBlocked, Continued
<1>3. CASE Ask
  BY <1>0, <1>3 DEF Ask
<1>4. CASE ActTerminal \/ RefuseCodeRepair \/ RefusePlanRepair
  BY <1>0, <1>1, <1>4 DEF ActTerminal, RefuseCodeRepair, RefusePlanRepair
<1>5. CASE CodeRepairDone
  <2>1. pc' \in {"loop", "record"}
    BY <1>1, <1>5 DEF CodeRepairDone
  <2> QED BY <1>0, <1>5, <2>1 DEF CodeRepairDone
<1>6. CASE PlanRepairDone
  <2>1. pc' \in {"loop", "record"}
    BY <1>1, <1>6 DEF PlanRepairDone
  <2> QED BY <1>0, <1>6, <2>1 DEF PlanRepairDone
<1>7. CASE RepairPlan
  <2>1. pc' \in {"replanned", "loop", "record"}
    BY <1>1, <1>7, Zenon DEF RepairPlan
  <2> QED BY <1>0, <1>7, <2>1 DEF RepairPlan
<1>8. CASE BeginPass
  <2>1. Begin("continue", 1, 1, 0, NoTarget, FALSE) \/ pc' = "ask"
    BY <1>8, Zenon DEF BeginPass
  <2>2. \/ pc' \in {"execute", "return"} /\ work'.caller = "continue" /\ work'.end # "ok"
        \/ pc' = "ask"
    BY <2>1, BeginMoves
  <2>3. pc = "loop" /\ UNCHANGED <<execs, adjudication>>
    BY <1>8 DEF BeginPass
  <2> QED BY <1>0, <2>2, <2>3
<1>9. CASE BeginCodeRepair
  <2>1. \/ Begin("code", 1, 1, 1, NoTarget, FALSE)
        \/ \E p \in seen.code : Begin("code", 1, 0, 1, p, FALSE)
    BY <1>9, Zenon DEF BeginCodeRepair
  <2>2. pc' \in {"execute", "return"} /\ work'.caller = "code" /\ work'.end # "ok"
    BY <2>1, BeginMoves
  <2>3. pc = "act" /\ UNCHANGED <<execs, adjudication>>
    BY <1>9 DEF BeginCodeRepair
  <2> QED BY <1>0, <2>2, <2>3
<1>10. CASE ExecuteReplanned
  <2>1. pc' \in {"execute", "return"} /\ work'.caller = "plan" /\ work'.end # "ok"
    BY <1>10, BeginMoves DEF ExecuteReplanned
  <2>2. pc = "replanned" /\ UNCHANGED <<execs, adjudication>>
    BY <1>10 DEF ExecuteReplanned, adaptiveVars
  <2> QED BY <1>0, <2>1, <2>2
<1> QED BY <1>2, <1>3, <1>4, <1>5, <1>6, <1>7, <1>8, <1>9, <1>10

\* The adjudication, by what its first test says.
Adjudicates ==
  /\ pc = "adjudication" /\ Ready(Len(execs))
  /\ \E v \in Verdicts :
       StageCall(/\ adjudication' = [exec |-> Len(execs), verdict |-> v]
                 /\ UNCHANGED <<packages, tail, written>>)
AdjudicationRefused ==
  /\ pc = "adjudication" /\ pc' = "failed"
  /\ UNCHANGED <<packages, execs, work, failures, budgetVars, adaptiveVars, studyVars>>

LEMMA AdjudicationSplit == AdjudicationStage => Adjudicates \/ AdjudicationRefused
BY Zenon DEF AdjudicationStage, Adjudicates, AdjudicationRefused

\* The steps of a stage other than those of the loop and of an execution.
LEMMA WithinMoves ==
  ASSUME WhereInv,
         \/ PlanStage \/ ExecutionStage \/ ExecutionStageDone \/ CritiqueStage
         \/ CritiqueRefused \/ Adjudicates \/ AdjudicationRefused \/ ManuscriptStage
         \/ ManuscriptDeferred \/ AssemblyStage \/ BundleStage \/ CheckStage \/ StageBlocked
  PROVE  /\ UNCHANGED <<execs, loop, stage, done, records, checkpoint, outcome>>
         /\ pc \in Stages \cup {"return"} /\ pc # "adaptive"
         /\ pc' \in {"record", "failed", "execute", "return"}
         /\ pc' \in {"execute", "return"} =>
              stage = "execution" /\ work'.caller = "stage" /\ work'.end # "ok"
<1>0. /\ {"planning", "execution", "critique", "adjudication", "manuscript", "assembly",
          "bundle", "check"} \subseteq Stages
      /\ pc \in Stages => stage = pc
  BY StageList DEF WhereInv
<1>1. ASSUME NEW answered, StageCall(answered)
      PROVE  /\ UNCHANGED <<execs, loop, stage, done, records, checkpoint, outcome>>
             /\ pc' \in {"record", "failed"}
  BY <1>1 DEF StageCall
<1>2. CASE PlanStage
  BY <1>0, <1>1, <1>2 DEF PlanStage
<1>3. CASE ExecutionStage
  BY <1>0, <1>3, BeginMoves DEF ExecutionStage, adaptiveVars, studyVars
<1>4. CASE ExecutionStageDone
  BY <1>4 DEF ExecutionStageDone, adaptiveVars, studyVars
<1>5. CASE CritiqueStage \/ Adjudicates \/ ManuscriptStage
  <2>1. PICK answered : StageCall(answered)
    BY <1>5, Zenon DEF CritiqueStage, Adjudicates, ManuscriptStage
  <2>2. pc \in {"critique", "adjudication", "manuscript"}
    BY <1>5 DEF CritiqueStage, Adjudicates, ManuscriptStage
  <2> QED BY <1>0, <1>1, <2>1, <2>2
<1>6. CASE CritiqueRefused \/ AdjudicationRefused \/ StageBlocked \/ CheckStage
  BY <1>0, <1>6 DEF CritiqueRefused, AdjudicationRefused, StageBlocked, StageCalling, CheckStage,
                    adaptiveVars, studyVars
<1>7. CASE ManuscriptDeferred \/ AssemblyStage \/ BundleStage
  BY <1>0, <1>7 DEF ManuscriptDeferred, AssemblyStage, BundleStage, adaptiveVars
<1> QED BY <1>2, <1>3, <1>4, <1>5, <1>6, <1>7

-----------------------------------------------------------------------------
(* The steps, by what they can change. *)

Executes ==
  /\ \/ \E p \in Plans : RepairTarget(p) \/ Reexecute(p) \/ DeferPlan(p) \/ Generate(p)
     \/ RuntimeRepair \/ ExecutionBlocked \/ WriteReport
  /\ UNCHANGED <<adaptiveVars, studyVars>>
Loops ==
  /\ \/ EnterLoop \/ LimitReached \/ BeginPass \/ Continued \/ AskBlocked \/ Ask
     \/ ActTerminal \/ RefuseCodeRepair \/ BeginCodeRepair \/ CodeRepairDone
     \/ RefusePlanRepair \/ RepairPlan \/ ExecuteReplanned \/ PlanRepairDone
  /\ UNCHANGED studyVars
Within ==
  \/ PlanStage \/ ExecutionStage \/ ExecutionStageDone \/ CritiqueStage
  \/ CritiqueRefused \/ Adjudicates \/ AdjudicationRefused \/ ManuscriptStage
  \/ ManuscriptDeferred \/ AssemblyStage \/ BundleStage \/ CheckStage \/ StageBlocked
Leaves == Kill \/ KillInCall \/ StopAtGate \/ FailStage \/ Finish
Starts == \E g : Start(g)

\* Stages, the loop and executions take these steps.
Inner == Executes \/ Loops \/ Within \/ EnterStage \/ ReleaseQuestioner \/ PassGate

LEMMA StudySteps ==
  ASSUME [Next]_vars
  PROVE  Inner \/ SkipStage \/ Record \/ Leaves \/ Starts \/ UNCHANGED vars
<1>1. CASE Process
  BY <1>1, AdjudicationSplit, Zenon DEF Process, Inner, Executes, Loops, Within, Leaves
<1>2. CASE \E g \in Grants[runs + 1] : Start(g)
  BY <1>2 DEF Starts
<1> QED BY <1>1, <1>2 DEF Next, Leaves

LEMMA LeavesMoves ==
  ASSUME Leaves
  PROVE  /\ pc # "idle" /\ pc' = "idle" /\ stage' = "planning" /\ done' = {}
         /\ records' = checkpoint
         /\ UNCHANGED <<packages, execs, loop, adjudication, checkpoint, tail, written>>
         /\ seen' = NoSeen /\ cur' = NoCur
         /\ outcome' \in {outcome, "failed", "deferred", "completed"}
         /\ outcome' = "completed" /\ outcome # "completed" =>
              Finish /\ \A s \in PaperTail : records[s].status # "deferred"
<1>1. Leave /\ pc # "idle"
  BY DEF Leaves, Kill, KillInCall, StopAtGate, FailStage, Finish, End
<1>2. outcome' \in {outcome, "failed", "deferred", "completed"}
  BY DEF Leaves, Kill, KillInCall, StopAtGate, FailStage, Finish, End
<1>3. outcome' = "completed" /\ outcome # "completed" =>
        Finish /\ \A s \in PaperTail : records[s].status # "deferred"
  BY DEF Leaves, Kill, KillInCall, StopAtGate, FailStage, Finish, End
<1> QED BY <1>1, <1>2, <1>3 DEF Leave

LEMMA StartsMoves ==
  ASSUME Starts
  PROVE  /\ pc = "idle" /\ pc' = "stage" /\ stage' = "planning" /\ outcome' = "none"
         /\ records' = checkpoint
         /\ \E lim : done' = ((Completed(checkpoint) \ Invalidated(checkpoint))
                        \ Reopened(Completed(checkpoint) \ Invalidated(checkpoint), lim))
                       \ ReopenedTail
         /\ UNCHANGED <<packages, execs, work, loop, cur, seen, adjudication, checkpoint,
                        tail, written>>
BY DEF Starts, Start

\* The steps inside a stage, and to and from it.
LEMMA InnerMoves ==
  ASSUME HistoryOK, WorkOK, WhereInv, Inner
  PROVE  /\ UNCHANGED <<stage, done, records, checkpoint, outcome>>
         /\ pc # "idle" /\ pc # "finish"
         /\ pc' \in Labels \ {"idle", "gate", "finish", "release"}
         /\ WhereInv'
<1>0. /\ pc \in Labels /\ stage \in Stages /\ pc \in Stages => stage = pc
      /\ pc \notin Between => stage \notin done
      /\ pc = "idle" => stage = "planning" /\ done = {}
      /\ outcome # "none" => pc = "idle"
      /\ "adaptive" \in Stages
      /\ Between \cap ({"record", "failed", "execute", "return"} \cup Stages \cup LoopLabels) = {}
      /\ Stages \cap ({"record", "failed", "execute", "return"} \cup Between \cup LoopLabels) = {}
      /\ LoopLabels \cap ({"record", "failed", "execute", "return"} \cup Between) = {}
  BY StageList DEF WhereInv, Between, LoopLabels
<1>1. CASE Executes
  <2>1. /\ pc = "execute" /\ pc' \in {"execute", "return"} /\ work'.caller = work.caller
    BY <1>1, ExecutionMoves DEF Executes
  <2>2. UNCHANGED <<stage, done, records, checkpoint, outcome>>
    BY <1>1 DEF Executes, studyVars
  <2>3. stage = IF work.caller = "stage" THEN "execution" ELSE "adaptive"
    BY <2>1 DEF WhereInv
  <2> QED BY <1>0, <2>1, <2>2, <2>3 DEF WhereInv, Labels, Between
<1>2. CASE Loops
  <2>1. /\ stage = "adaptive"
        /\ pc \in LoopLabels \cup {"adaptive", "return"}
        /\ pc' \in LoopLabels \cup {"record", "failed", "execute", "return"}
        /\ pc' \in {"execute", "return"} => work'.caller # "stage"
    BY <1>2, LoopMoves DEF Loops
  <2>2. UNCHANGED <<stage, done, records, checkpoint, outcome>>
    BY <1>2 DEF Loops, studyVars
  <2> QED BY <1>0, <2>1, <2>2 DEF WhereInv, Labels, Between
<1>3. CASE Within
  <2>1. /\ UNCHANGED <<stage, done, records, checkpoint, outcome>>
        /\ pc \in Stages \cup {"return"}
        /\ pc' \in {"record", "failed", "execute", "return"}
        /\ pc' \in {"execute", "return"} =>
              stage = "execution" /\ work'.caller = "stage"
    BY <1>3, WithinMoves DEF Within
  <2> QED BY <1>0, <2>1 DEF WhereInv, Labels, Between
<1>4. CASE EnterStage
  <2>1. /\ UNCHANGED <<stage, done, records, checkpoint, outcome>>
        /\ pc = "stage" /\ pc' = stage /\ stage \notin done
    BY <1>4 DEF EnterStage, studyVars
  <2> QED BY <1>0, <2>1 DEF WhereInv, Labels, Between
<1>5. CASE ReleaseQuestioner \/ PassGate
  <2>1. /\ UNCHANGED <<stage, done, records, checkpoint, outcome>>
        /\ pc \in {"release", "gate"} /\ pc' = "stage"
    BY <1>5 DEF ReleaseQuestioner, PassGate, studyVars
  <2> QED BY <1>0, <2>1 DEF WhereInv, Labels, Between
<1> QED BY <1>1, <1>2, <1>3, <1>4, <1>5 DEF Inner

LEMMA WhereStep ==
  ASSUME KeptInv, WhereInv, [Next]_vars
  PROVE  WhereInv'
<1>0. "planning" \in Stages /\ HistoryOK /\ WorkOK /\ stage \in Stages
  BY StageList DEF KeptInv, WhereInv
<1>1. CASE Inner
  BY <1>0, <1>1, InnerMoves
<1>2. CASE SkipStage \/ Record
  <2>1. Advance /\ pc # "finish" /\ pc # "idle" /\ UNCHANGED outcome
    BY <1>2 DEF SkipStage, Record
  <2>2. /\ stage' \in Stages
        /\ pc' = IF stage = "execution" THEN "release" ELSE IF stage = "adaptive" THEN "gate"
                 ELSE IF stage = "check" THEN "finish" ELSE "stage"
        /\ stage = "check" => stage' = "check"
        /\ stage = "execution" => stage' = "adaptive"
        /\ stage = "adaptive" => stage' = "critique"
    BY <1>0, <2>1, AdvanceMoves
  <2> QED BY <2>1, <2>2, StageList DEF WhereInv, Labels, Between, LoopLabels
<1>3. CASE Leaves
  <2>1. pc' = "idle" /\ stage' = "planning" /\ done' = {}
    BY <1>3, LeavesMoves
  <2> QED BY <1>0, <2>1, StageList DEF WhereInv, Labels, Between, LoopLabels
<1>4. CASE Starts
  <2>1. pc' = "stage" /\ stage' = "planning" /\ outcome' = "none"
    BY <1>4, StartsMoves
  <2> QED BY <1>0, <2>1, StageList DEF WhereInv, Labels, Between, LoopLabels
<1>5. CASE UNCHANGED vars
  BY <1>5 DEF vars, execVars, studyVars, WhereInv
<1> QED BY <1>1, <1>2, <1>3, <1>4, <1>5, StudySteps

-----------------------------------------------------------------------------
(* The records. *)

LEMMA RecordsSame ==
  ASSUME RecordsInv, UNCHANGED checkpoint, records' = checkpoint
  PROVE  RecordsInv' /\ \A s : Sound(s)' = Sound(s)
BY DEF RecordsInv, Sound, Completed

\* What has been left behind when a stage completes is complete itself: a paper's
\* stage completes only if those before it are not deferred.
LEMMA AllBefore ==
  ASSUME WhereInv, DoneInv, TailInv, pc = "record", stage \in Made, ~StageDeferred
  PROVE  Earlier(stage) \subseteq done
<1>1. stage \in Stages /\ Passed = Earlier(stage)
  BY DEF WhereInv, Passed
<1>2. SUFFICES ASSUME NEW t \in Earlier(stage), TailDeferred(t) PROVE t \in done
  BY <1>1 DEF DoneInv
<1>3. t \in {"manuscript", "assembly", "bundle"} /\ tail[t] = "deferred"
  BY <1>2 DEF TailDeferred, PaperTail
<1>4. stage \in {"assembly", "bundle"} /\ (stage = "assembly" => t = "manuscript")
      /\ t \in {"manuscript", "assembly"}
  BY <1>1, <1>2, <1>3, StageList, Places DEF Earlier, Made
<1>5. stage \in PaperTail /\ tail[stage] = "ready"
  <2>1. stage \in PaperTail
    BY <1>4 DEF PaperTail
  <2> QED BY <2>1 DEF TailInv, StageDeferred
<1>6. CASE stage = "assembly"
  BY <1>3, <1>4, <1>5, <1>6 DEF TailInv
<1>7. CASE stage = "bundle"
  <2>1. tail.assembly = "ready"
    BY <1>5, <1>7 DEF TailInv
  <2>2. "assembly" \in Earlier(stage) /\ "assembly" \in Made /\ "manuscript" \in Earlier("assembly")
    BY <1>7, StageList, Places DEF Earlier, Made
  <2>3. "assembly" \in done
    BY <1>1, <2>1, <2>2 DEF DoneInv, TailDeferred
  <2>4. Earlier("assembly") \subseteq done
    BY <2>2, <2>3 DEF DoneInv
  <2> QED BY <1>4, <2>2, <2>3, <2>4
<1> QED BY <1>4, <1>6, <1>7

\* The record of one stage is replaced.
LEMMA RecordWrites ==
  ASSUME RecordsInv, WhereInv, Record
  PROVE  /\ checkpoint' \in [Stages -> [status : Statuses, in : [Stages -> Nat], out : Nat]]
         /\ records' = checkpoint'
         /\ \A t \in Stages \ {stage} : checkpoint'[t] = checkpoint[t]
         /\ checkpoint'[stage].status = IF StageDeferred THEN "deferred" ELSE "completed"
         /\ checkpoint'[stage].out = checkpoint[stage].out + 1
         /\ \A t \in Stages :
              checkpoint'[stage].in[t] =
                IF t \in Earlier(stage) /\ checkpoint[t].status = "completed"
                THEN checkpoint[t].out ELSE 0
<1> DEFINE new == [status |-> IF StageDeferred THEN "deferred" ELSE "completed",
                   in     |-> Upstream(checkpoint, stage),
                   out    |-> checkpoint[stage].out + 1]
<1>1. /\ records = checkpoint /\ stage \in Stages
      /\ checkpoint \in [Stages -> [status : Statuses, in : [Stages -> Nat], out : Nat]]
  BY DEF RecordsInv, WhereInv
<1>2. Upstream(checkpoint, stage) =
        [t \in Stages |-> IF t \in Earlier(stage) /\ checkpoint[t].status = "completed"
                          THEN checkpoint[t].out ELSE 0]
  BY DEF Upstream, Earlier
<1>3. new \in [status : Statuses, in : [Stages -> Nat], out : Nat]
  <2>1. Upstream(checkpoint, stage) \in [Stages -> Nat]
    BY <1>1, <1>2
  <2>2. (IF StageDeferred THEN "deferred" ELSE "completed") \in Statuses
    BY DEF Statuses
  <2>3. checkpoint[stage].out + 1 \in Nat
    BY <1>1
  <2> QED BY <2>1, <2>2, <2>3
<1>4. records' = [checkpoint EXCEPT ![stage] = new] /\ checkpoint' = records'
  BY <1>1 DEF Record
<1> HIDE DEF new
<1>5. checkpoint' = [checkpoint EXCEPT ![stage] = new]
  BY <1>4
<1>6. /\ checkpoint' \in [Stages -> [status : Statuses, in : [Stages -> Nat], out : Nat]]
      /\ \A t \in Stages \ {stage} : checkpoint'[t] = checkpoint[t]
      /\ checkpoint'[stage] = new
  BY <1>1, <1>3, <1>5
<1>7. /\ checkpoint'[stage].status = IF StageDeferred THEN "deferred" ELSE "completed"
      /\ checkpoint'[stage].out = checkpoint[stage].out + 1
      /\ checkpoint'[stage].in = Upstream(checkpoint, stage)
  BY <1>6 DEF new
<1> QED BY <1>2, <1>4, <1>6, <1>7


\* The numbers in the records.
LEMMA RecordNumbers ==
  ASSUME NEW c \in [Stages -> [status : Statuses, in : [Stages -> Nat], out : Nat]]
  PROVE  \A s, t \in Stages : c[s].in[t] \in Nat /\ c[t].out \in Nat
OBVIOUS

\* What is sound afterwards: a later stage is not, an earlier one as before, and
\* the stage itself if it is complete.
LEMMA RecordSound ==
  ASSUME RecordsInv, WhereInv, DoneInv, TailInv, Record, NEW x \in Stages, x = stage
  PROVE  /\ \A s \in Stages : s # x => (Sound(s)' <=> Sound(s) /\ x \notin Earlier(s))
         /\ Sound(x)' => ~StageDeferred
         /\ x \in Made /\ ~StageDeferred =>
              /\ Sound(x)' /\ Earlier(x) \subseteq done
              /\ \A t \in Earlier(x) : checkpoint'[x].in[t] > 0
<1>0. /\ x \notin done /\ pc = "record"
      /\ \A s, t \in Stages : checkpoint[s].in[t] <= checkpoint[t].out
      /\ \A s, t \in Stages : checkpoint[s].in[t] \in Nat /\ checkpoint[t].out \in Nat
      /\ \A t \in Stages \ {x} : checkpoint'[t] = checkpoint[t]
      /\ checkpoint'[x].out = checkpoint[x].out + 1
      /\ x \notin Earlier(x)
      /\ \A s : Earlier(s) \subseteq Stages
  BY RecordWrites, RecordNumbers, EarlierFacts
     DEF RecordsInv, WhereInv, Record, Between, Earlier
<1>1. ASSUME NEW s \in Stages, s # x
      PROVE  Sound(s)' <=> Sound(s) /\ x \notin Earlier(s)
  <2>1. CASE x \in Earlier(s)
    <3>1. checkpoint'[s].in[x] # checkpoint'[x].out
      BY <1>0, <1>1
    <3> QED BY <2>1, <3>1 DEF Sound
  <2>2. CASE x \notin Earlier(s)
    <3>1. \A t \in Earlier(s) : checkpoint'[t] = checkpoint[t]
      BY <1>0, <2>2
    <3> QED BY <1>0, <1>1, <2>2, <3>1 DEF Sound
  <2> QED BY <2>1, <2>2
<1>2. Sound(x)' => ~StageDeferred
  BY RecordWrites DEF Sound
<1>3. ASSUME x \in Made, ~StageDeferred
      PROVE  /\ Sound(x)' /\ Earlier(x) \subseteq done
             /\ \A t \in Earlier(x) : checkpoint'[x].in[t] > 0
  <2>1. Earlier(x) \subseteq done
    BY <1>0, <1>3, AllBefore
  <2>2. ASSUME NEW t \in Earlier(x)
        PROVE  /\ checkpoint'[x].in[t] = checkpoint'[t].out
               /\ checkpoint'[x].in[t] > 0
    <3>1. t \in Stages /\ t # x /\ checkpoint[t].status = "completed"
      BY <1>0, <2>1 DEF DoneInv, Completed
    <3>2. checkpoint[t].out > 0
      BY <3>1 DEF RecordsInv
    <3>3. checkpoint'[x].in[t] = checkpoint[t].out
      BY <3>1, RecordWrites
    <3>4. checkpoint'[t] = checkpoint[t]
      BY <1>0, <3>1
    <3> QED BY <3>2, <3>3, <3>4
  <2>3. checkpoint'[x].status = "completed"
    BY <1>3, RecordWrites
  <2> QED BY <2>1, <2>2, <2>3 DEF Sound
<1> QED BY <1>1, <1>2, <1>3

LEMMA RecordKeepsRecords ==
  ASSUME RecordsInv, WhereInv, DoneInv, TailInv, Record
  PROVE  RecordsInv'
<1> DEFINE Records == [Stages -> [status : Statuses, in : [Stages -> Nat], out : Nat]]
<1>x. PICK x \in Stages : x = stage
  BY DEF WhereInv
<1>0. /\ checkpoint \in Records /\ checkpoint' \in Records /\ records' = checkpoint'
      /\ \A t \in Stages \ {x} : checkpoint'[t] = checkpoint[t]
      /\ checkpoint'[x].status \in {"deferred", "completed"}
      /\ checkpoint'[x].out = checkpoint[x].out + 1
      /\ \A t \in Stages :
           checkpoint'[x].in[t] =
             IF t \in Earlier(x) /\ checkpoint[t].status = "completed"
             THEN checkpoint[t].out ELSE 0
  BY <1>x, RecordWrites DEF RecordsInv
<1> HIDE DEF Records
<1>t. /\ \A s, t \in Stages : checkpoint[s].in[t] \in Nat /\ checkpoint[t].out \in Nat
      /\ \A s, t \in Stages : checkpoint'[s].in[t] \in Nat /\ checkpoint'[t].out \in Nat
  BY <1>0, RecordNumbers DEF Records
<1>s. /\ \A s \in Stages : s # x => (Sound(s)' <=> Sound(s) /\ x \notin Earlier(s))
      /\ Sound(x)' => ~StageDeferred
      /\ x \in Made /\ ~StageDeferred =>
              /\ Sound(x)' /\ Earlier(x) \subseteq done
              /\ \A t \in Earlier(x) : checkpoint'[x].in[t] > 0
  BY <1>x, RecordSound
<1>1. \A t \in Stages : checkpoint[t].out <= checkpoint'[t].out
  BY <1>0, <1>t
<1>2. \A s \in Stages : checkpoint'[s].status # "none" => checkpoint'[s].out > 0
  BY <1>0, <1>t DEF RecordsInv
<1>3. ASSUME NEW s \in Stages, NEW t \in Stages
      PROVE  checkpoint'[s].in[t] <= checkpoint'[t].out
  <2>1. CASE s = x
    BY <1>0, <1>1, <1>t, <2>1
  <2>2. CASE s # x
    <3>1. checkpoint'[s].in[t] <= checkpoint[t].out
      BY <1>0, <2>2 DEF RecordsInv
    <3> QED BY <1>1, <1>t, <3>1
  <2> QED BY <2>1, <2>2
<1>4. ASSUME NEW s \in Stages, NEW t \in Stages, t \notin Earlier(s)
      PROVE  checkpoint'[s].in[t] = 0
  <2>1. CASE s = x
    BY <1>0, <1>4, <2>1
  <2>2. CASE s # x
    <3>1. checkpoint[s].in[t] = 0
      BY <1>4 DEF RecordsInv
    <3> QED BY <1>0, <2>2, <3>1
  <2> QED BY <2>1, <2>2
<1>5. ASSUME NEW s \in Made, checkpoint'[s].status = "completed", NEW t \in Earlier(s)
      PROVE  checkpoint'[s].in[t] > 0
  <2>1. CASE s = x
    <3>1. ~StageDeferred
      BY <1>5, <1>x, <2>1, RecordWrites
    <3> QED BY <1>5, <1>s, <2>1, <3>1
  <2>2. CASE s # x
    BY <1>0, <1>5, <2>2 DEF RecordsInv, Made, Completed
  <2> QED BY <2>1, <2>2
<1>6. ASSUME NEW s \in Stages, NEW t \in Stages,
             checkpoint'[s].in[t] > 0, checkpoint'[s].in[t] = checkpoint'[t].out
      PROVE  checkpoint'[t].status = "completed"
  <2>1. CASE t = x
    <3>1. CASE s = x
      <4>1. x \notin Earlier(x)
        BY EarlierFacts
      <4>2. checkpoint'[x].in[x] = 0
        BY <1>0, <4>1
      <4> QED BY <1>6, <2>1, <3>1, <4>2
    <3>2. CASE s # x
      <4>1. checkpoint'[s].in[t] <= checkpoint[t].out
        BY <1>0, <2>1, <3>2 DEF RecordsInv
      <4> QED BY <1>0, <1>6, <1>t, <2>1, <4>1
    <3> QED BY <3>1, <3>2
  <2>2. CASE t # x /\ s # x
    BY <1>0, <1>6, <2>2 DEF RecordsInv
  <2>3. CASE t # x /\ s = x
    BY <1>0, <1>6, <2>3
  <2> QED BY <2>1, <2>2, <2>3
<1>7. ASSUME NEW s \in Made, Sound(s)', NEW t \in Earlier(s)
      PROVE  Sound(t)'
  <2>0. s \in Stages /\ t \in Made /\ t \in Stages /\ t # s /\ Earlier(t) \subseteq Earlier(s)
    BY <1>7, EarlierFacts DEF Made
  <2>1. CASE s = x
    <3>1. t \in done /\ x \notin Earlier(t)
      BY <1>7, <1>s, <2>0, <2>1, EarlierFacts
    <3>2. Sound(t)
      BY <2>0, <3>1 DEF DoneInv
    <3> QED BY <1>s, <2>0, <2>1, <3>1, <3>2
  <2>2. CASE s # x
    <3>1. Sound(s) /\ x \notin Earlier(s)
      BY <1>7, <1>s, <2>0, <2>2
    <3>2. Sound(t) /\ t # x /\ x \notin Earlier(t)
      BY <1>7, <2>0, <3>1 DEF RecordsInv
    <3> QED BY <1>s, <2>0, <3>2
  <2> QED BY <2>1, <2>2
<1> QED BY <1>0, <1>2, <1>3, <1>4, <1>5, <1>6, <1>7 DEF RecordsInv, Completed, Records

-----------------------------------------------------------------------------
(* The stages to skip. *)

\* What a stage of the paper leaves.  Only its own state changes, at its turn.
LEMMA TailMoves ==
  ASSUME WhereInv, TailInv, Inner
  PROVE  /\ tail' \in [PaperTail -> {"none", "ready", "deferred"}]
         /\ \/ tail' = tail
            \/ /\ pc = stage /\ stage \in PaperTail /\ stage \notin done
               /\ \A t \in PaperTail : t # stage => tail'[t] = tail[t]
         /\ pc' = "record" /\ stage \in PaperTail =>
              /\ pc = stage /\ tail'[stage] # "none"
              /\ stage = "manuscript" /\ tail'.manuscript = "ready" => ManuscriptStage
              /\ stage = "assembly" /\ tail'.assembly = "ready" => tail'.manuscript = "ready"
              /\ stage = "bundle" /\ tail'.bundle = "ready" => tail'.assembly = "ready"
<1>0. /\ tail \in [PaperTail -> {"none", "ready", "deferred"}]
      /\ PaperTail = {"manuscript", "assembly", "bundle"} /\ PaperTail \subseteq Stages
      /\ pc \in Stages => stage = pc /\ stage \notin done
  BY StageList DEF TailInv, PaperTail, WhereInv, Between
<1>1. ASSUME NEW s \in PaperTail, NEW state \in {"ready", "deferred"},
             pc = s, tail' = [tail EXCEPT ![s] = state]
      PROVE  /\ tail' \in [PaperTail -> {"none", "ready", "deferred"}]
             /\ pc = stage /\ stage = s /\ stage \in PaperTail /\ stage \notin done
             /\ \A t \in PaperTail : t # stage => tail'[t] = tail[t]
             /\ tail'[stage] = state /\ tail'[stage] # "none"
  BY <1>0, <1>1
<1>2. CASE ManuscriptStage
  <2>1. pc = "manuscript"
        /\ (tail' = tail \/ \E state \in {"ready", "deferred"} :
                              tail' = [tail EXCEPT !.manuscript = state])
        /\ (pc' = "record" => \E state \in {"ready", "deferred"} :
                              tail' = [tail EXCEPT !.manuscript = state])
    BY <1>2 DEF ManuscriptStage, StageCall
  <2> QED BY <1>0, <1>1, <1>2, <2>1
<1>3. CASE ManuscriptDeferred
  <2>1. pc = "manuscript" /\ tail' = [tail EXCEPT !.manuscript = "deferred"]
    BY <1>3 DEF ManuscriptDeferred
  <2>2. tail'.manuscript = "deferred"
    BY <1>0, <2>1
  <2> QED BY <1>0, <1>1, <2>1, <2>2
<1>4. CASE AssemblyStage
  <2>1. pc = "assembly"
    BY <1>4 DEF AssemblyStage
  <2>2. PICK state \in {"ready", "deferred"} :
          /\ tail' = [tail EXCEPT !.assembly = state]
          /\ state = "ready" => tail.manuscript = "ready"
    BY <1>4 DEF AssemblyStage
  <2>3. tail'.assembly = state /\ tail'.manuscript = tail.manuscript
    BY <1>0, <2>2
  <2> QED BY <1>0, <1>1, <2>1, <2>2, <2>3
<1>5. CASE BundleStage
  <2>1. pc = "bundle"
    BY <1>5 DEF BundleStage
  <2>2. PICK state \in {"ready", "deferred"} :
          /\ tail' = [tail EXCEPT !.bundle = state]
          /\ state = "ready" => tail.assembly = "ready"
    BY <1>5 DEF BundleStage
  <2>3. tail'.bundle = state /\ tail'.assembly = tail.assembly
    BY <1>0, <2>2
  <2> QED BY <1>0, <1>1, <2>1, <2>2, <2>3
<1>6. CASE Executes
  <2>1. tail' = tail /\ stage \notin PaperTail
    <3>1. pc = "execute"
      BY <1>6 DEF Executes, RepairTarget, Reexecute, DeferPlan, Generate, Turn, RuntimeRepair,
             ExecutionBlocked, ExecutionCall, WriteReport
    <3> QED BY <1>0, <1>6, <3>1 DEF Executes, studyVars, WhereInv
  <2> QED BY <1>0, <2>1
<1>7. CASE Loops
  <2>1. tail' = tail /\ stage \notin PaperTail
    BY <1>0, <1>7, LoopMoves DEF Loops, studyVars
  <2> QED BY <1>0, <2>1
<1>8. CASE PlanStage \/ CritiqueStage \/ Adjudicates
  <2>1. pc \in {"planning", "critique", "adjudication"} /\ tail' = tail
    BY <1>8 DEF PlanStage, CritiqueStage, Adjudicates, StageCall
  <2> QED BY <1>0, <2>1, StageList
<1>9. CASE \/ ExecutionStage \/ ExecutionStageDone \/ CritiqueRefused
           \/ AdjudicationRefused \/ CheckStage
  <2>1. /\ \/ pc \in {"execution", "critique", "adjudication", "check"}
           \/ pc = "return" /\ work.caller = "stage"
        /\ tail' = tail
    BY <1>9 DEF ExecutionStage, ExecutionStageDone, CritiqueRefused, AdjudicationRefused,
                CheckStage, studyVars
  <2>2. stage \notin PaperTail
    BY <1>0, <2>1, StageList DEF WhereInv
  <2> QED BY <1>0, <2>1, <2>2
<1>10. CASE StageBlocked \/ EnterStage \/ ReleaseQuestioner \/ PassGate
  <2>1. tail' = tail /\ (pc' = "failed" \/ pc' = stage \/ pc' = "stage")
    BY <1>10 DEF StageBlocked, EnterStage, ReleaseQuestioner, PassGate, studyVars
  <2>2. "record" \notin Stages /\ stage \in Stages
    BY StageList DEF WhereInv
  <2> QED BY <1>0, <2>1, <2>2
<1> QED BY <1>2, <1>3, <1>4, <1>5, <1>6, <1>7, <1>8, <1>9, <1>10 DEF Inner, Within

\* After the loop, a stage that is not to be skipped has nothing sound on disk.
LEMMA UnsoundAhead ==
  ASSUME DoneInv, pc # "idle", stage \in Made, stage \notin done,
         stage \notin {"planning", "execution", "adaptive"}
  PROVE  ~Sound(stage)
BY DEF DoneInv, LoopAhead

LEMMA InnerDone ==
  ASSUME HistoryOK, WorkOK, WhereInv, RecordsInv, DoneInv, TailInv, Inner
  PROVE  DoneInv'
<1>0. /\ UNCHANGED <<stage, done, records, checkpoint, outcome>>
      /\ pc # "idle" /\ pc # "finish" /\ pc' \notin {"idle", "gate", "finish", "release"}
      /\ stage \in Stages /\ records' = checkpoint
  BY InnerMoves DEF RecordsInv, WhereInv
<1>1. \A s : Sound(s)' = Sound(s)
  BY <1>0 DEF Sound
<1>2. Passed' = Passed /\ Passed = Earlier(stage) /\ LoopAhead' = LoopAhead
  BY <1>0 DEF Passed, LoopAhead, Earlier
<1>3. ASSUME NEW t \in Passed
      PROVE  t \in done \/ TailDeferred(t)'
  <2>1. t # stage
    BY <1>0, <1>2, <1>3, EarlierFacts
  <2>2. t \in done \/ TailDeferred(t)
    <3>1. pc = "gate" => Satisfied
      BY <1>0, StageList DEF Inner, PassGate, Executes, Loops, Within, EnterStage, ReleaseQuestioner,
         RepairTarget, Reexecute, DeferPlan, Generate, Turn, RuntimeRepair,
         ExecutionBlocked, ExecutionCall, WriteReport,
         EnterLoop, LimitReached, BeginPass, Continued, AskBlocked, Ask, ActTerminal,
         RefuseCodeRepair, BeginCodeRepair, CodeRepairDone, RefusePlanRepair, RepairPlan,
         ExecuteReplanned, PlanRepairDone, PlanStage, ExecutionStage, ExecutionStageDone,
         CritiqueStage, CritiqueRefused, Adjudicates, AdjudicationRefused, ManuscriptStage,
         ManuscriptDeferred, AssemblyStage, BundleStage, CheckStage, StageBlocked, StageCalling
    <3> QED BY <1>3, <3>1 DEF DoneInv
  <2>3. TailDeferred(t) => TailDeferred(t)'
    BY <1>0, <2>1, TailMoves DEF TailDeferred
  <2> QED BY <2>2, <2>3
<1>4. done' \subseteq Completed(checkpoint)'
  BY <1>0 DEF DoneInv, Completed
<1>5. \A s \in Made \cap done' : Sound(s)' /\ Earlier(s) \subseteq done'
  BY <1>0, <1>1 DEF DoneInv
<1>6. \A s \in Made \ done' : Sound(s)' => LoopAhead' /\ s \in From("adaptive")
  BY <1>0, <1>1, <1>2 DEF DoneInv
<1> QED BY <1>0, <1>2, <1>3, <1>4, <1>5, <1>6 DEF DoneInv

LEMMA RecordDone ==
  ASSUME WhereInv, RecordsInv, DoneInv, TailInv, Record
  PROVE  DoneInv'
<1>x. PICK x \in Stages : x = stage
  BY DEF WhereInv
<1>0. /\ x \notin done /\ pc = "record" /\ x \notin Earlier(x)
      /\ done' = IF StageDeferred THEN done ELSE done \cup {x}
      /\ \A t \in Stages \ {x} : checkpoint'[t] = checkpoint[t]
      /\ checkpoint'[x].status = IF StageDeferred THEN "deferred" ELSE "completed"
      /\ UNCHANGED <<tail, loop>> /\ Advance
      /\ Passed = Earlier(x) /\ done \subseteq Stages
  BY <1>x, RecordWrites, EarlierFacts
     DEF WhereInv, Record, Between, Passed, DoneInv, Completed, adaptiveVars
<1>s. /\ \A s \in Stages : s # x => (Sound(s)' <=> Sound(s) /\ x \notin Earlier(s))
      /\ Sound(x)' => ~StageDeferred
      /\ x \in Made /\ ~StageDeferred => Sound(x)' /\ Earlier(x) \subseteq done
  BY <1>x, RecordSound
<1>a. /\ Passed' = Passed \cup {x} /\ pc' # "idle"
      /\ x = "adaptive" => pc' = "gate"
  BY <1>x, <1>0, AdvanceMoves
<1>1. done' \subseteq Completed(checkpoint)'
  BY <1>0 DEF DoneInv, Completed
<1>2. ASSUME NEW s \in Made \cap done'
      PROVE  Sound(s)' /\ Earlier(s) \subseteq done'
  <2>0. s \in Stages
    BY DEF Made
  <2>1. CASE s = x
    BY <1>0, <1>s, <1>2, <2>1
  <2>2. CASE s # x
    <3>1. Sound(s) /\ Earlier(s) \subseteq done
      BY <1>0, <1>2, <2>2 DEF DoneInv
    <3> QED BY <1>0, <1>s, <2>0, <2>2, <3>1
  <2> QED BY <2>1, <2>2
<1>3. ASSUME NEW s \in Made \ done', Sound(s)'
      PROVE  FALSE
  <2>0. s \in Stages
    BY DEF Made
  <2>1. s # x
    BY <1>0, <1>s, <1>3
  <2>2. Sound(s) /\ x \notin Earlier(s) /\ s \notin done
    BY <1>0, <1>s, <1>3, <2>0, <2>1
  <2>3. x \in {"planning", "execution", "adaptive"} /\ s \in From("adaptive")
    BY <1>x, <1>0, <2>2 DEF DoneInv, LoopAhead
  <2>4. x \in Earlier(s)
    <3>1. "adaptive" \in Stages /\ {"planning", "execution"} \subseteq Earlier("adaptive")
      BY StageList, Places DEF Earlier
    <3>2. s = "adaptive" \/ "adaptive" \in Earlier(s)
      BY <2>0, <2>3, <3>1, EarlierFacts
    <3> QED BY <2>0, <2>1, <2>3, <3>1, <3>2, EarlierFacts
  <2> QED BY <2>2, <2>4
<1>4. ASSUME NEW t \in Passed'
      PROVE  t \in done' \/ TailDeferred(t)' \/ (pc' = "gate" /\ t = "adaptive" /\ ~Satisfied')
  <2>1. CASE t = x /\ StageDeferred
    <3>1. CASE x = "adaptive"
      <4>1. loop.status = "budget_exhausted"
        BY <1>x, <2>1, <3>1 DEF StageDeferred, PaperTail
      <4> QED BY <1>0, <1>a, <2>1, <3>1, <4>1 DEF Satisfied
    <3>2. CASE x # "adaptive"
      <4>1. x \in PaperTail /\ tail[x] = "deferred"
        BY <1>x, <2>1, <3>2 DEF StageDeferred
      <4> QED BY <1>0, <2>1, <4>1 DEF TailDeferred
    <3> QED BY <3>1, <3>2
  <2>2. CASE t = x /\ ~StageDeferred
    BY <1>0, <2>2
  <2>3. CASE t # x
    <3>1. t \in Earlier(x) /\ t \in Stages
      BY <1>0, <1>4, <1>a, <2>3 DEF Earlier
    <3>2. t \in done \/ TailDeferred(t)
      BY <1>0, <3>1 DEF DoneInv
    <3> QED BY <1>0, <2>3, <3>1, <3>2 DEF TailDeferred
  <2> QED BY <2>1, <2>2, <2>3
<1> QED BY <1>1, <1>2, <1>3, <1>4 DEF DoneInv

LEMMA SkipDone ==
  ASSUME WhereInv, RecordsInv, DoneInv, SkipStage
  PROVE  DoneInv'
<1>0. /\ pc = "stage" /\ stage \in done /\ stage \in Stages /\ Advance
      /\ UNCHANGED <<done, checkpoint, tail, loop>>
  BY DEF SkipStage, WhereInv, adaptiveVars
<1>1. /\ Passed' = Passed \cup {stage} /\ pc' # "idle"
      /\ stage = "planning" => stage' = "execution"
      /\ stage = "execution" => stage' = "adaptive"
  BY <1>0, AdvanceMoves
<1>2. LoopAhead => LoopAhead'
  BY <1>0, <1>1 DEF LoopAhead
<1>3. \A s : Sound(s)' = Sound(s) /\ TailDeferred(s)' = TailDeferred(s)
  BY <1>0 DEF Sound, TailDeferred
<1>4. \A t \in Passed' : t \in done' \/ TailDeferred(t)'
  BY <1>0, <1>1, <1>3 DEF DoneInv
<1>5. done' \subseteq Completed(checkpoint)'
  BY <1>0 DEF DoneInv, Completed
<1>6. \A s \in Made \cap done' : Sound(s)' /\ Earlier(s) \subseteq done'
  BY <1>0, <1>3 DEF DoneInv
<1>7. \A s \in Made \ done' : Sound(s)' => LoopAhead' /\ s \in From("adaptive")
  BY <1>0, <1>2, <1>3 DEF DoneInv
<1> QED BY <1>4, <1>5, <1>6, <1>7 DEF DoneInv

\* A sound stage's inputs are what they would be now, and the other way round.
LEMMA SoundIsCurrent ==
  ASSUME RecordsInv, NEW s \in Made
  PROVE  Sound(s) <=> s \in Completed(checkpoint) \ Stale(checkpoint)
<1>0. /\ s \in Stages /\ Earlier(s) \subseteq Stages /\ Earlier(s) \subseteq Made
      /\ checkpoint[s].in \in [Stages -> Nat]
      /\ Upstream(checkpoint, s) =
           [t \in Stages |-> IF t \in Earlier(s) /\ checkpoint[t].status = "completed"
                             THEN checkpoint[t].out ELSE 0]
  BY EarlierFacts DEF RecordsInv, Made, Earlier, Upstream
<1>1. ASSUME Sound(s)
      PROVE  s \in Completed(checkpoint) \ Stale(checkpoint)
  <2>1. \A t \in Earlier(s) : checkpoint[t].status = "completed" /\ checkpoint[s].in[t] = checkpoint[t].out
    BY <1>0, <1>1 DEF RecordsInv, Sound
  <2>2. \A t \in Stages : checkpoint[s].in[t] =
          IF t \in Earlier(s) /\ checkpoint[t].status = "completed" THEN checkpoint[t].out ELSE 0
    BY <1>0, <2>1 DEF RecordsInv
  <2>3. checkpoint[s].in = Upstream(checkpoint, s)
    BY <1>0, <2>2
  <2> QED BY <1>0, <1>1, <2>3 DEF Sound, Completed, Stale
<1>2. ASSUME s \in Completed(checkpoint) \ Stale(checkpoint)
      PROVE  Sound(s)
  <2>1. checkpoint[s].in = Upstream(checkpoint, s) /\ checkpoint[s].status = "completed"
    BY <1>2 DEF Completed, Stale
  <2>2. \A t \in Earlier(s) : checkpoint[s].in[t] > 0
    BY <1>0, <1>2 DEF RecordsInv
  <2>3. \A t \in Earlier(s) : checkpoint[s].in[t] = checkpoint[t].out
    BY <1>0, <2>1, <2>2
  <2> QED BY <2>1, <2>3 DEF Sound
<1> QED BY <1>1, <1>2

\* A resumed invocation skips the sound stages, but for the loop that it reopens and
\* what follows it.
LEMMA StartDone ==
  ASSUME WhereInv, RecordsInv, DoneInv, TailInv, Starts
  PROVE  DoneInv'
<1> DEFINE current == Completed(checkpoint) \ Invalidated(checkpoint)
<1>0. PICK lim : done' = (current \ Reopened(current, lim)) \ ReopenedTail
  BY StartsMoves
<1>1. /\ pc' = "stage" /\ stage' = "planning" /\ records' = checkpoint
      /\ UNCHANGED <<loop, checkpoint, tail>>
  BY StartsMoves
<1>2. \A s : Sound(s)' = Sound(s)
  BY <1>1 DEF Sound
<1>3. ASSUME NEW s \in Made, Sound(s)
      PROVE  s \in current
  <2>1. s \in Stages /\ s \in Completed(checkpoint)
    BY <1>3, SoundIsCurrent DEF Made
  <2>2. ASSUME NEW u \in Stale(checkpoint), s \in From(u) PROVE FALSE
    <3>1. u \in Stages
      BY DEF Stale, Completed
    <3>2. u = s \/ u \in Earlier(s)
      BY <2>1, <2>2, <3>1, EarlierFacts
    <3>3. Sound(u) /\ u \in Made
      BY <1>3, <2>1, <3>2, EarlierFacts DEF RecordsInv
    <3> QED BY <2>2, <3>3, SoundIsCurrent
  <2> QED BY <2>1, <2>2 DEF Invalidated
<1>4. ASSUME NEW s \in Made \cap current
      PROVE  Sound(s) /\ Earlier(s) \subseteq current
  <2>1. s \in Stages /\ s \in From(s)
    BY EarlierFacts DEF Made
  <2>2. Sound(s)
    BY <1>4, <2>1, SoundIsCurrent DEF Invalidated
  <2>3. \A t \in Earlier(s) : Sound(t) /\ t \in Made
    BY <1>4, <2>1, <2>2, EarlierFacts DEF RecordsInv
  <2> QED BY <1>3, <2>2, <2>3
<1>5. \A S \in {Reopened(current, lim), ReopenedTail} : \A s, t \in Stages :
        t \in S /\ t \in Earlier(s) => s \in S
  <2>1. \A u : From(u) \subseteq Stages
    BY DEF From
  <2>2. ASSUME NEW u \in Stages, NEW s \in Stages, NEW t \in Stages, t \in From(u), t \in Earlier(s)
        PROVE  s \in From(u)
    BY <2>2, EarlierFacts
  <2>3. {"adaptive", "manuscript", "assembly", "bundle"} \subseteq Stages
    BY StageList
  <2>4. \A S \in {Reopened(current, lim), ReopenedTail} : S = {} \/ \E u \in Stages : S = From(u)
    BY <2>3 DEF Reopened, ReopenedTail
  <2> QED BY <2>2, <2>4
<1>6. ASSUME NEW s \in Made, Sound(s)
      PROVE  s \notin ReopenedTail
  <2>0. /\ s \in Stages /\ {"manuscript", "assembly", "bundle"} \subseteq Stages
        /\ PaperTail = {"manuscript", "assembly", "bundle"}
    BY StageList DEF Made, PaperTail
  <2>1. ASSUME NEW t \in PaperTail, s \in From(t) PROVE tail[t] = "ready"
    <3>1. t \in Stages /\ (t = s \/ t \in Earlier(s))
      BY <2>0, <2>1, EarlierFacts
    <3>2. Sound(t)
      BY <1>6, <2>0, <3>1 DEF RecordsInv
    <3> QED BY <3>2 DEF TailInv
  <2> QED BY <2>0, <2>1 DEF ReopenedTail
<1>7. done' \subseteq Completed(checkpoint)'
  BY <1>0, <1>1
<1>8. ASSUME NEW s \in Made \cap done'
      PROVE  Sound(s)' /\ Earlier(s) \subseteq done'
  <2>1. s \in current /\ s \in Stages
    BY <1>0, <1>8 DEF Made
  <2>2. Sound(s) /\ Earlier(s) \subseteq current /\ Earlier(s) \subseteq Stages
    BY <1>4, <1>8, <2>1 DEF Earlier
  <2> QED BY <1>0, <1>2, <1>5, <1>8, <2>1, <2>2
<1>9. ASSUME NEW s \in Made \ done', Sound(s)'
      PROVE  LoopAhead' /\ s \in From("adaptive")
  <2>1. Sound(s) /\ s \in current /\ s \notin ReopenedTail
    BY <1>2, <1>3, <1>6, <1>9
  <2>2. s \in Reopened(current, lim)
    BY <1>0, <1>9, <2>1
  <2>3. Reopened(current, lim) = From("adaptive") /\ "adaptive" \in From("adaptive")
    BY <2>2, StageList, EarlierFacts DEF Reopened
  <2>4. "adaptive" \notin done'
    BY <1>0, <2>3
  <2> QED BY <1>1, <2>2, <2>3, <2>4 DEF LoopAhead
<1>10. Passed' = {}
  <2>1. Earlier("planning") = {}
    BY Places, OrderFacts DEF Earlier
  <2> QED BY <1>1, <2>1 DEF Passed
<1> QED BY <1>7, <1>8, <1>9, <1>10 DEF DoneInv

LEMMA DoneStep ==
  ASSUME HistoryOK, WorkOK, WhereInv, RecordsInv, DoneInv, TailInv, [Next]_vars
  PROVE  DoneInv'
<1>1. CASE Leaves
  <2>1. pc' = "idle" /\ stage' = "planning" /\ done' = {}
    BY <1>1, LeavesMoves
  <2>2. Earlier("planning") = {}
    BY Places, OrderFacts DEF Earlier
  <2>3. Passed' = {}
    BY <2>1, <2>2 DEF Passed
  <2> QED BY <2>1, <2>3 DEF DoneInv
<1>2. CASE UNCHANGED vars
  BY <1>2 DEF vars, execVars, studyVars, adaptiveVars, DoneInv, Completed, Sound, LoopAhead, Passed,
              TailDeferred, Satisfied
<1> QED BY <1>1, <1>2, InnerDone, RecordDone, SkipDone, StartDone, StudySteps

LEMMA RecordsStep ==
  ASSUME HistoryOK, WorkOK, WhereInv, RecordsInv, DoneInv, TailInv, [Next]_vars
  PROVE  RecordsInv'
<1>1. CASE Inner
  BY <1>1, InnerMoves, RecordsSame DEF RecordsInv
<1>2. CASE SkipStage
  BY <1>2, RecordsSame DEF SkipStage, RecordsInv
<1>3. CASE Leaves
  BY <1>3, LeavesMoves, RecordsSame
<1>4. CASE Starts
  BY <1>4, StartsMoves, RecordsSame
<1>5. CASE UNCHANGED vars
  BY <1>5, RecordsSame DEF vars, studyVars, RecordsInv
<1> QED BY <1>1, <1>2, <1>3, <1>4, <1>5, RecordKeepsRecords, StudySteps

LEMMA TailStep ==
  ASSUME HistoryOK, WorkOK, WhereInv, RecordsInv, DoneInv, TailInv, [Next]_vars
  PROVE  TailInv'
<1>0. /\ PaperTail = {"manuscript", "assembly", "bundle"} /\ PaperTail \subseteq Made
      /\ PaperTail \cap {"planning", "execution", "adaptive"} = {}
  BY StageList DEF PaperTail, Made
<1>1. CASE Inner
  <2>1. UNCHANGED <<stage, checkpoint>> /\ pc # "idle" /\ stage \in Stages
    BY <1>1, InnerMoves DEF WhereInv
  <2>2. \A t : Sound(t)' = Sound(t)
    BY <2>1 DEF Sound
  <2>3. ASSUME NEW t \in PaperTail, Sound(t) PROVE tail'[t] = "ready"
    <3>1. tail'[t] = tail[t]
      BY <1>0, <1>1, <2>1, <2>3, TailMoves, UnsoundAhead
    <3> QED BY <2>3, <3>1 DEF TailInv
  <2> QED BY <1>0, <1>1, <2>1, <2>2, <2>3, TailMoves DEF TailInv
<1>2. CASE Record
  <2>x. PICK x \in Stages : x = stage
    BY DEF WhereInv
  <2>1. tail' = tail /\ pc = "record" /\ pc' # "record"
    BY <1>2, <2>x, AdvanceMoves DEF Record
  <2>2. ASSUME NEW t \in PaperTail, Sound(t)' PROVE tail[t] = "ready"
    <3>0. t \in Stages
      BY <1>0 DEF Made
    <3>1. CASE t = x
      <4>1. ~StageDeferred
        BY <1>2, <2>2, <3>1, RecordSound, <2>x
      <4> QED BY <2>1, <2>x, <3>1, <4>1 DEF StageDeferred, TailInv
    <3>2. CASE t # x
      <4>1. Sound(t)
        BY <1>2, <2>2, <2>x, <3>0, <3>2, RecordSound
      <4> QED BY <4>1 DEF TailInv
    <3> QED BY <3>1, <3>2
  <2> QED BY <2>1, <2>2 DEF TailInv
<1>3. CASE SkipStage \/ Leaves \/ Starts \/ UNCHANGED vars
  <2>1. UNCHANGED <<tail, checkpoint>> /\ (pc' # "record" \/ UNCHANGED <<pc, stage>>)
    BY <1>3, AdvanceMoves, LeavesMoves, StartsMoves
       DEF SkipStage, vars, execVars, studyVars, WhereInv
  <2> QED BY <2>1 DEF TailInv, Sound
<1> QED BY <1>1, <1>2, <1>3, StudySteps

-----------------------------------------------------------------------------
(* The evidence. *)

\* A set of numbers up to n has a greatest one.
LEMMA Greatest ==
  ASSUME NEW n \in Nat, NEW S \in SUBSET (1..n), S # {}
  PROVE  Max(S) \in S
<1> DEFINE Smaller == StrictSubsetOrdering(1..n)
           Ends == {k..n : k \in S}
<1>1. IsWellFoundedOn(Smaller, FiniteSubsetsOf(1..n))
  BY FS_StrictSubsetOrderingWellFounded
<1>2. Ends \subseteq FiniteSubsetsOf(1..n) /\ Ends # {}
  <2>1. FiniteSubsetsOf(1..n) = SUBSET (1..n)
    <3>1. 1 \in Int /\ n \in Int
      OBVIOUS
    <3>2. IsFiniteSet(1..n)
      BY <3>1, FS_Interval
    <3> QED BY <3>2, FS_FiniteSubsetsOfFinite
  <2>2. \A k \in S : k..n \in SUBSET (1..n)
    OBVIOUS
  <2>3. \A T \in Ends : T \in FiniteSubsetsOf(1..n)
    BY <2>1, <2>2
  <2>4. PICK k \in S : TRUE
    OBVIOUS
  <2>5. k..n \in Ends
    OBVIOUS
  <2> QED BY <2>3, <2>5
<1>3. PICK T \in Ends : \A U \in Ends : <<U, T>> \notin Smaller
  <2> HIDE DEF Smaller, Ends
  <2> QED BY <1>1, <1>2, WFMin
<1>4. PICK x \in S : T = x..n
  BY <1>3
<1>5. ASSUME NEW y \in S, y > x PROVE FALSE
  <2>1. y..n \in SUBSET (1..n) /\ T \in SUBSET (1..n) /\ y..n \subseteq T /\ x \in T /\ x \notin y..n
    BY <1>4, <1>5
  <2>2. <<y..n, T>> \in Smaller
    BY <2>1 DEF StrictSubsetOrdering
  <2> QED BY <1>3, <2>2
<1>6. \A y \in S : x >= y
  BY <1>5
<1> QED BY <1>6 DEF Max

\* The last report, or an earlier one in its place.
LEMMA ActionableFacts ==
  ASSUME HistoryOK, execs # <<>>
  PROVE  Actionable \in DOMAIN execs /\ Actionable # 0
<1> DEFINE n == Len(execs)
           shown == {e \in 1..(n - 1) : /\ execs[e].pkg = execs[n].pkg
                                        /\ execs[e].code # {} \/ "done" \in Results(e)}
<1>1. n \in Nat /\ n # 0 /\ DOMAIN execs = 1..n
  BY DEF HistoryOK, IsSeq
<1>2. Actionable = IF n > 0 /\ RejectedOnly(n) /\ shown # {} THEN Max(shown) ELSE n
  BY DEF Actionable
<1>3. shown \in SUBSET (1..n)
  BY <1>1
<1>4. shown # {} => Max(shown) \in shown
  <2> HIDE DEF shown, n
  <2> QED BY <1>1, <1>3, Greatest
<1>5. Actionable \in 1..n
  <2>1. n \in 1..n
    BY <1>1
  <2>2. shown # {} => Max(shown) \in 1..n
    BY <1>3, <1>4
  <2>3. Actionable = n \/ (shown # {} /\ Actionable = Max(shown))
    <3> HIDE DEF shown, n
    <3> QED BY <1>2
  <2> HIDE DEF shown, n
  <2> QED BY <2>1, <2>2, <2>3
<1> QED BY <1>1, <1>5

\* Reports are only added.
LEMMA ReportsKept ==
  ASSUME KeptInv, [Next]_vars
  PROVE  /\ Len(execs) \in Nat /\ Len(execs') \in Nat /\ Len(execs) <= Len(execs')
         /\ DOMAIN execs = 1..Len(execs) /\ DOMAIN execs' = 1..Len(execs')
         /\ execs # <<>> => execs' # <<>>
         /\ \A e \in DOMAIN execs : execs'[e] = execs[e] /\ (Ready(e) => Ready(e)')
<1>1. IsSeq(execs) /\ Len(execs) \in Nat /\ DOMAIN execs = 1..Len(execs)
  BY DEF KeptInv, HistoryOK, IsSeq
<1>2. execs' = execs \/ \E r : execs' = Append(execs, r)
  BY StudyShape DEF Outside, Still, Begins, Works, Writes, AddsPackage
<1>3. /\ Len(execs') \in Nat /\ Len(execs) <= Len(execs')
      /\ DOMAIN execs' = 1..Len(execs')
      /\ execs # <<>> => execs' # <<>>
      /\ \A e \in DOMAIN execs : execs'[e] = execs[e]
  <2>1. CASE execs' = execs
    BY <1>1, <2>1
  <2>2. ASSUME NEW r, execs' = Append(execs, r)
        PROVE  /\ Len(execs') = Len(execs) + 1 /\ DOMAIN execs' = 1..(Len(execs) + 1)
               /\ \A e \in 1..Len(execs) : execs'[e] = execs[e]
    BY <1>1, <2>2, AppendFacts
  <2>3. \A r : execs' = Append(execs, r) => execs' # <<>>
    BY <1>1, <2>2
  <2> QED BY <1>1, <1>2, <2>1, <2>2, <2>3
<1>4. \A e \in DOMAIN execs : Ready(e) => Ready(e)'
  BY <1>3 DEF Ready, Results, Range
<1> QED BY <1>1, <1>3, <1>4

\* The stages after the execution have a report to read.
LEMMA Executed ==
  ASSUME WhereInv, DoneInv, EvidenceInv, pc # "finish", "execution" \in Earlier(stage)
  PROVE  execs # <<>>
<1>1. "execution" \in Passed /\ "execution" \notin PaperTail
  BY DEF Passed, PaperTail
<1>2. "execution" \in done
  BY <1>1 DEF DoneInv, TailDeferred
<1> QED BY <1>2 DEF DoneInv, EvidenceInv

\* What was adjudicated or accepted remains what it was.
LEMMA EvidenceCarried ==
  ASSUME KeptInv, [Next]_vars, EvidenceInv
  PROVE  /\ adjudication' = adjudication =>
              /\ adjudication'.exec \in 0..Len(execs')
              /\ adjudication'.verdict = "nucleus" => Nucleus'
         /\ loop' = loop =>
              /\ loop'.source \in 0..Len(execs')
              /\ Satisfied' => loop'.source \in DOMAIN execs' /\ Ready(loop.source)'
         /\ seen' = seen => seen'.exec \in 0..Len(execs')
         /\ checkpoint' = checkpoint =>
              ("execution" \in Completed(checkpoint)' => execs' # <<>>)
<1>1. /\ Len(execs) \in Nat /\ Len(execs') \in Nat /\ Len(execs) <= Len(execs')
      /\ DOMAIN execs = 1..Len(execs) /\ DOMAIN execs' = 1..Len(execs')
      /\ execs # <<>> => execs' # <<>>
      /\ \A e \in DOMAIN execs : Ready(e) => Ready(e)'
  BY ReportsKept
<1>2. /\ adjudication.exec \in 0..Len(execs) /\ loop.source \in 0..Len(execs)
      /\ seen.exec \in 0..Len(execs)
  BY DEF EvidenceInv
<1>3. ASSUME adjudication' = adjudication, adjudication'.verdict = "nucleus"
      PROVE  Nucleus'
  <2>1. PICK e : e = adjudication.exec
    OBVIOUS
  <2>2. e \in DOMAIN execs /\ Ready(e)
    BY <1>3, <2>1 DEF EvidenceInv, Nucleus
  <2>3. e \in DOMAIN execs' /\ Ready(e)' /\ e = adjudication'.exec
    BY <1>1, <1>3, <2>1, <2>2
  <2> QED BY <1>3, <2>3 DEF Nucleus, Ready, Results
<1>4. ASSUME loop' = loop, Satisfied'
      PROVE  loop'.source \in DOMAIN execs' /\ Ready(loop.source)'
  <2>1. PICK e : e = loop.source
    OBVIOUS
  <2>2. e \in DOMAIN execs /\ Ready(e)
    BY <1>4, <2>1 DEF EvidenceInv, Satisfied
  <2>3. e \in DOMAIN execs' /\ Ready(e)' /\ e = loop'.source
    BY <1>1, <1>4, <2>1, <2>2
  <2> QED BY <2>3 DEF Ready, Results
<1>5. ASSUME checkpoint' = checkpoint, "execution" \in Completed(checkpoint)'
      PROVE  execs' # <<>>
  BY <1>1, <1>5 DEF EvidenceInv, Completed
<1> QED BY <1>1, <1>2, <1>3, <1>4, <1>5

\* The loop is satisfied with what it has just accepted, and accepts what is ready.
LoopFacts ==
  /\ IsLoop(loop') /\ IsCur(cur')
  /\ seen'.exec \in 0..Len(execs) /\ loop'.source \in 0..Len(execs)
  /\ loop'.status = "satisfied" => loop'.source \in DOMAIN execs /\ Ready(loop'.source)
  /\ pc' = "ask" => seen'.exec # 0
  /\ pc' = "act" /\ cur'.action = "accept" => seen'.exec # 0 /\ Ready(seen'.exec)

LEMMA LoopEvidence ==
  ASSUME HistoryOK, WhereInv, DoneInv, EvidenceInv, Loops
  PROVE  LoopFacts
<1>0. /\ stage = "adaptive" /\ pc \in LoopLabels \cup {"adaptive", "return"}
      /\ pc' \in {"execute", "return"} => work'.caller # "stage"
  BY LoopMoves DEF Loops
<1>1. execs # <<>>
  <2>1. "execution" \in Earlier(stage) /\ pc # "finish"
    BY <1>0, StageList, Places DEF Earlier, LoopLabels
  <2> QED BY <2>1, Executed
<1>2. /\ Actionable \in 0..Len(execs) /\ Actionable # 0
      /\ Len(execs) \in 0..Len(execs) /\ Len(execs) # 0 /\ DOMAIN execs = 1..Len(execs)
  BY <1>1, ActionableFacts DEF HistoryOK, IsSeq
<1>3. /\ IsLoop(loop) /\ IsCur(cur) /\ seen.exec \in 0..Len(execs)
      /\ loop.source \in 0..Len(execs)
      /\ loop.status = "satisfied" => loop.source \in DOMAIN execs /\ Ready(loop.source)
      /\ pc = "ask" => seen.exec # 0
      /\ pc = "act" /\ cur.action = "accept" => seen.exec # 0 /\ Ready(seen.exec)
  BY DEF EvidenceInv, Satisfied
<1>4. ASSUME NEW status, NEW why, NEW counts, IsCur(counts), seen' = seen,
             EndIteration(status, why, counts),
             status = "satisfied" => seen.exec # 0 /\ Ready(seen.exec)
      PROVE  LoopFacts
  <2>1. /\ IsLoop(loop') /\ loop'.status = status /\ loop'.source = seen.exec
        /\ pc' \in {"loop", "record"}
    BY <1>4 DEF EndIteration, IsLoop
  <2>2. IsCur(cur')
    BY <1>4 DEF EndIteration, IsCur
  <2> QED BY <1>2, <1>3, <1>4, <2>1, <2>2 DEF LoopFacts
<1>5. ASSUME NEW status, NEW why, status # "satisfied", seen' = seen, cur' = cur, pc' = "record",
             Report(status, why, cur, loop.iterations)
      PROVE  LoopFacts
  <2>1. IsLoop(loop') /\ loop'.status = status /\ loop'.source = loop.source
    BY <1>3, <1>5 DEF Report, IsLoop
  <2> QED BY <1>3, <1>5, <2>1 DEF LoopFacts
<1>6. CASE EnterLoop
  <2>1. /\ UNCHANGED <<loop, seen>> /\ (cur' = cur \/ cur' = StartCounts)
        /\ pc' \in {"record", "loop"}
    BY <1>6 DEF EnterLoop
  <2>2. IsCur(cur')
    BY <1>3, <2>1 DEF IsCur, StartCounts
  <2> QED BY <1>3, <2>1, <2>2 DEF LoopFacts
<1>7. CASE LimitReached
  BY <1>5, <1>7 DEF LimitReached
<1>8. CASE AskBlocked
  BY <1>5, <1>8 DEF AskBlocked
<1>9. CASE BeginPass
  <2>1. UNCHANGED <<loop, cur>> /\ pc' # "act"
        /\ ((UNCHANGED seen /\ pc' # "ask") \/ (seen'.exec = Actionable))
    <3>1. \/ UNCHANGED seen /\ Begin("continue", 1, 1, 0, NoTarget, FALSE)
          \/ pc' = "ask" /\ seen' = [exec |-> Actionable, code |-> Recovered(Actionable)]
      BY <1>9, Zenon DEF BeginPass
    <3>2. UNCHANGED <<loop, cur>>
      BY <1>9 DEF BeginPass
    <3>3. CASE UNCHANGED seen /\ Begin("continue", 1, 1, 0, NoTarget, FALSE)
      BY <3>2, <3>3, BeginMoves
    <3>4. CASE pc' = "ask" /\ seen' = [exec |-> Actionable, code |-> Recovered(Actionable)]
      BY <3>2, <3>4
    <3> QED BY <3>1, <3>3, <3>4
  <2> QED BY <1>2, <1>3, <2>1 DEF LoopFacts
<1>10. CASE Continued
  <2>1. /\ UNCHANGED <<loop, cur>> /\ pc' = "ask"
        /\ seen'.exec = Len(execs) \/ seen'.exec = Actionable
    BY <1>10 DEF Continued
  <2> QED BY <1>2, <1>3, <2>1 DEF LoopFacts
<1>11. CASE Ask
  <2>1. UNCHANGED <<loop, seen>> /\ pc = "ask"
        /\ \/ pc' = "act" /\ \E d \in Decisions : cur' = [cur EXCEPT !.action = d]
           \/ pc' = "failed" /\ UNCHANGED cur
    BY <1>11 DEF Ask
  <2>2. ASSUME NEW d \in Decisions, cur' = [cur EXCEPT !.action = d]
        PROVE  IsCur(cur') /\ cur'.action = d
    BY <1>3, <2>2 DEF IsCur
  <2>3. "accept" \in Decisions => Ready(seen.exec)
    BY DEF Decisions, Acceptable
  <2> QED BY <1>3, <2>1, <2>2, <2>3 DEF LoopFacts
<1>12. CASE ActTerminal
  <2>1. \E status, why : /\ EndIteration(status, why, cur)
                         /\ status = "satisfied" => cur.action = "accept"
    BY <1>12 DEF ActTerminal
  <2>2. pc = "act" /\ seen' = seen
    BY <1>12 DEF ActTerminal
  <2> QED BY <1>3, <1>4, <2>1, <2>2
<1>13. CASE RefuseCodeRepair \/ RefusePlanRepair
  <2>1. \E status, why : EndIteration(status, why, cur) /\ status # "satisfied"
    BY <1>13 DEF RefuseCodeRepair, RefusePlanRepair
  <2>2. seen' = seen
    BY <1>13 DEF RefuseCodeRepair, RefusePlanRepair
  <2> QED BY <1>3, <1>4, <2>1, <2>2
<1>14. CASE BeginCodeRepair
  <2>1. UNCHANGED <<loop, seen>> /\ cur' = [cur EXCEPT !.code = @ + 1]
    BY <1>14 DEF BeginCodeRepair
  <2>2. \/ Begin("code", 1, 1, 1, NoTarget, FALSE)
        \/ \E p \in seen.code : Begin("code", 1, 0, 1, p, FALSE)
    BY <1>14, Zenon DEF BeginCodeRepair
  <2>3. pc' \in {"execute", "return"}
    BY <2>2, BeginMoves
  <2>4. IsCur(cur')
    BY <1>3, <2>1 DEF IsCur
  <2> QED BY <1>3, <2>1, <2>3, <2>4 DEF LoopFacts
<1>15. CASE CodeRepairDone
  <2> DEFINE back == [cur EXCEPT !.code = Larger(0, @ - 1)]
  <2>1. IsCur(back)
    BY <1>3 DEF IsCur
  <2>2. seen' = seen
    BY <1>15 DEF CodeRepairDone
  <2>3. \E status, why : /\ EndIteration(status, why, cur) \/ EndIteration(status, why, back)
                         /\ status # "satisfied"
    BY <1>15 DEF CodeRepairDone
  <2> HIDE DEF back
  <2> QED BY <1>3, <1>4, <2>1, <2>2, <2>3
<1>16. CASE RepairPlan
  <2>1. seen' = seen
        /\ \/ /\ cur' = [cur EXCEPT !.plan = @ + 1]
              /\ pc' = "replanned" /\ UNCHANGED loop
           \/ EndIteration("blocked", "none", cur)
    BY <1>16, Zenon DEF RepairPlan
  <2>2. CASE cur' = [cur EXCEPT !.plan = @ + 1] /\ pc' = "replanned" /\ UNCHANGED loop
    <3>1. IsCur(cur')
      BY <1>3, <2>2 DEF IsCur
    <3> QED BY <1>3, <2>1, <2>2, <3>1 DEF LoopFacts
  <2> QED BY <1>3, <1>4, <2>1, <2>2
<1>17. CASE ExecuteReplanned
  <2>1. UNCHANGED <<loop, cur, seen>> /\ pc' \in {"execute", "return"}
    BY <1>17, BeginMoves DEF ExecuteReplanned, adaptiveVars
  <2> QED BY <1>3, <2>1 DEF LoopFacts
<1>18. CASE PlanRepairDone
  <2>1. \E status, why : EndIteration(status, why, cur) /\ status # "satisfied"
    BY <1>18 DEF PlanRepairDone
  <2>2. seen' = seen
    BY <1>18 DEF PlanRepairDone
  <2> QED BY <1>3, <1>4, <2>1, <2>2
<1> QED BY <1>6, <1>7, <1>8, <1>9, <1>10, <1>11, <1>12, <1>13, <1>14, <1>15, <1>16, <1>17,
           <1>18 DEF Loops

\* The stages' own steps: the critics choose what is ready, and the first execution
\* completes with a report.
LEMMA WithinEvidence ==
  ASSUME HistoryOK, WhereInv, DoneInv, EvidenceInv, Within
  PROVE  /\ UNCHANGED <<execs, loop, cur, seen, checkpoint>>
         /\ \/ adjudication' = adjudication
            \/ /\ pc = "adjudication" /\ pc = stage
               /\ adjudication'.exec = Len(execs) /\ execs # <<>> /\ Ready(Len(execs))
         /\ pc' = "record" /\ stage = "execution" => execs # <<>>
<1>0. UNCHANGED <<execs, loop, stage, checkpoint>>
  BY WithinMoves DEF Within
<1>1. UNCHANGED <<cur, seen>>
  <2>1. ASSUME NEW answered, StageCall(answered) PROVE UNCHANGED <<cur, seen>>
    BY <2>1 DEF StageCall
  <2>2. CASE PlanStage \/ CritiqueStage \/ Adjudicates \/ ManuscriptStage
    BY <2>1, <2>2, Zenon DEF PlanStage, CritiqueStage, Adjudicates, ManuscriptStage
  <2>3. CASE ~(PlanStage \/ CritiqueStage \/ Adjudicates \/ ManuscriptStage)
    BY <2>3 DEF Within, ExecutionStage, ExecutionStageDone, CritiqueRefused,
       AdjudicationRefused, ManuscriptDeferred, AssemblyStage, BundleStage, CheckStage, StageBlocked, adaptiveVars
  <2> QED BY <2>2, <2>3
<1>2. CASE Adjudicates
  <2>1. /\ pc = "adjudication" /\ Ready(Len(execs))
        /\ adjudication' = adjudication \/ \E v : adjudication' = [exec |-> Len(execs), verdict |-> v]
    BY <1>2 DEF Adjudicates, StageCall
  <2>2. pc = stage
    BY <2>1, StageList DEF WhereInv
  <2>3. execs # <<>>
    <3>1. "execution" \in Earlier(stage)
      BY <2>1, <2>2, StageList, Places DEF Earlier
    <3> QED BY <2>1, <3>1, Executed
  <2> QED BY <1>0, <1>1, <2>1, <2>2, <2>3
<1>3. CASE ExecutionStageDone
  <2>1. adjudication' = adjudication /\ pc = "return" /\ (pc' = "record" => work.end = "ok")
    BY <1>3 DEF ExecutionStageDone, adaptiveVars
  <2> QED BY <1>0, <1>1, <2>1 DEF EvidenceInv
<1>4. CASE ~Adjudicates /\ ~ExecutionStageDone
  <2>1. adjudication' = adjudication
    BY <1>4 DEF Within, PlanStage, CritiqueStage, ManuscriptStage, StageCall,
       ExecutionStage, CritiqueRefused, AdjudicationRefused, ManuscriptDeferred,
       AssemblyStage, BundleStage, CheckStage, StageBlocked, adaptiveVars
  <2>2. pc = "execution" => pc' # "record"
    BY <1>4, BeginMoves DEF Within, PlanStage, CritiqueStage, ManuscriptStage,
       ExecutionStage, CritiqueRefused, AdjudicationRefused, ManuscriptDeferred,
       AssemblyStage, BundleStage, CheckStage, StageBlocked
  <2>3. pc \in Stages
    BY <1>4, StageList DEF Within, PlanStage, CritiqueStage, ManuscriptStage,
       ExecutionStage, CritiqueRefused, AdjudicationRefused, ManuscriptDeferred,
       AssemblyStage, BundleStage, CheckStage, StageBlocked, StageCalling
  <2> QED BY <1>0, <1>1, <2>1, <2>2, <2>3 DEF WhereInv
<1> QED BY <1>2, <1>3, <1>4

LEMMA EvidenceStep ==
  ASSUME KeptInv, WhereInv, RecordsInv, DoneInv, EvidenceInv, [Next]_vars
  PROVE  EvidenceInv'
<1>0. HistoryOK /\ WorkOK /\ IsLoop(loop) /\ IsCur(cur)
  BY DEF KeptInv, EvidenceInv
<1>1. CASE Executes
  <2>1. /\ UNCHANGED <<loop, cur, seen, adjudication, checkpoint>>
        /\ pc' \in {"execute", "return"} /\ (pc' = "return" /\ work'.end = "ok" => execs' # <<>>)
    BY <1>0, <1>1, ExecutionMoves DEF Executes, adaptiveVars, studyVars
  <2> QED BY <1>0, <2>1, EvidenceCarried DEF EvidenceInv
<1>2. CASE Loops
  <2>1. /\ LoopFacts /\ stage = "adaptive" /\ UNCHANGED <<execs, adjudication, stage, checkpoint>>
        /\ pc' = "return" => work'.end # "ok"
    BY <1>0, <1>2, LoopEvidence, LoopMoves DEF Loops, studyVars
  <2>2. /\ Satisfied' => loop'.source \in DOMAIN execs' /\ Ready(loop.source)'
        /\ pc' = "act" /\ cur'.action = "accept" => seen'.exec # 0 /\ Ready(seen.exec)'
    BY <2>1 DEF LoopFacts, Ready, Results, Satisfied
  <2> QED BY <2>1, <2>2, EvidenceCarried DEF EvidenceInv, LoopFacts
<1>3. CASE Within
  <2>1. /\ UNCHANGED <<execs, loop, cur, seen, checkpoint, stage>>
        /\ \/ adjudication' = adjudication
           \/ adjudication'.exec = Len(execs) /\ execs # <<>> /\ Ready(Len(execs))
        /\ pc' = "record" /\ stage = "execution" => execs # <<>>
        /\ pc' \in {"record", "failed", "execute", "return"}
        /\ pc' = "return" => work'.end # "ok"
    BY <1>0, <1>3, WithinEvidence, WithinMoves DEF Within
  <2>2. Len(execs) \in Nat /\ (execs # <<>> => Len(execs) \in DOMAIN execs)
    BY <1>0 DEF HistoryOK, IsSeq
  <2>3. adjudication'.exec \in 0..Len(execs') /\ (adjudication'.verdict = "nucleus" => Nucleus')
    <3>1. CASE adjudication' = adjudication
      BY <3>1, EvidenceCarried
    <3>2. CASE adjudication'.exec = Len(execs) /\ execs # <<>> /\ Ready(Len(execs))
      BY <2>1, <2>2, <3>2 DEF Nucleus, Ready, Results
    <3> QED BY <2>1, <3>1, <3>2
  <2> QED BY <1>0, <2>1, <2>3, EvidenceCarried DEF EvidenceInv
<1>4. CASE EnterStage \/ ReleaseQuestioner \/ PassGate \/ SkipStage \/ Starts
  <2>1. UNCHANGED <<loop, cur, seen, adjudication, checkpoint>>
    BY <1>4, StartsMoves
       DEF EnterStage, ReleaseQuestioner, PassGate, SkipStage, adaptiveVars, studyVars
  <2>2. pc' \notin {"record", "return", "ask", "act"}
    BY <1>4, StartsMoves, AdvanceMoves, StageList
       DEF EnterStage, ReleaseQuestioner, PassGate, SkipStage, WhereInv
  <2> QED BY <1>0, <2>1, <2>2, EvidenceCarried DEF EvidenceInv
<1>5. CASE Record
  <2>x. PICK x \in Stages : x = stage
    BY DEF WhereInv
  <2>1. UNCHANGED <<loop, cur, seen, adjudication, execs>> /\ pc = "record"
    BY <1>5 DEF Record, adaptiveVars
  <2>2. pc' \notin {"record", "return", "ask", "act"}
    BY <1>5, <2>x, AdvanceMoves DEF Record
  <2>3. "execution" \in Completed(checkpoint)' => execs # <<>>
    BY <1>5, <2>x, <2>1, RecordWrites DEF EvidenceInv, Completed
  <2> QED BY <1>0, <2>1, <2>2, <2>3, EvidenceCarried DEF EvidenceInv
<1>6. CASE Leaves
  <2>1. /\ UNCHANGED <<execs, loop, adjudication, checkpoint>>
        /\ seen' = NoSeen /\ cur' = NoCur /\ pc' = "idle"
    BY <1>6, LeavesMoves
  <2>2. IsCur(cur') /\ seen'.exec = 0 /\ Len(execs) \in Nat
    BY <1>0, <2>1 DEF IsCur, NoCur, NoSeen, HistoryOK, IsSeq
  <2> QED BY <1>0, <2>1, <2>2, EvidenceCarried DEF EvidenceInv
<1>7. CASE UNCHANGED vars
  BY <1>7 DEF vars, execVars, adaptiveVars, studyVars, EvidenceInv, Nucleus, Satisfied, Ready,
              Results, Completed
<1> QED BY <1>1, <1>2, <1>3, <1>4, <1>5, <1>6, <1>7, StudySteps DEF Inner

-----------------------------------------------------------------------------
(* The paper. *)

\* What is written from an execution remains so until the next writing or the next
\* choice of the critics.
LEMMA PaperCarried ==
  ASSUME KeptInv, [Next]_vars, PaperFacts, UNCHANGED <<adjudication, written>>
  PROVE  PaperFacts'
<1>1. /\ Len(execs) \in Nat /\ Len(execs') \in Nat /\ Len(execs) <= Len(execs')
      /\ DOMAIN execs = 1..Len(execs) /\ DOMAIN execs' = 1..Len(execs')
      /\ \A e \in DOMAIN execs : execs'[e] = execs[e] /\ (Ready(e) => Ready(e)')
  BY ReportsKept
<1>2. PICK a, w : a = adjudication.exec /\ w = written
  OBVIOUS
<1>3. /\ a \in DOMAIN execs /\ Ready(a) /\ w \in DOMAIN execs /\ Ready(w) /\ a <= w
      /\ execs[w].pkg = execs[a].pkg /\ adjudication.verdict = "nucleus"
  BY <1>2 DEF PaperFacts, Nucleus
<1>4. /\ a \in DOMAIN execs' /\ Ready(a)' /\ w \in DOMAIN execs' /\ Ready(w)'
      /\ execs'[w].pkg = execs'[a].pkg /\ a = adjudication'.exec /\ w = written'
  BY <1>1, <1>2, <1>3
<1> QED BY <1>3, <1>4 DEF PaperFacts, Nucleus, Ready, Results

\* The manuscript is written from what the critics have chosen, or from a later
\* execution of the same package.
LEMMA ManuscriptFacts ==
  ASSUME HistoryOK, WhereInv, DoneInv, EvidenceInv, ManuscriptStage, pc' = "record",
         TailInv, tail'.manuscript = "ready"
  PROVE  PaperFacts'
<1>1. /\ pc = "manuscript" /\ Covered /\ UNCHANGED <<execs, adjudication, packages>>
      /\ \E state \in {"ready", "deferred"} :
           /\ tail' = [tail EXCEPT !.manuscript = state]
           /\ written' = IF state = "ready" THEN Len(execs) ELSE written
  BY DEF ManuscriptStage, StageCall
<1>2. tail \in [PaperTail -> {"none", "ready", "deferred"}] /\ "manuscript" \in PaperTail
  BY DEF TailInv, PaperTail
<1>3. written' = Len(execs)
  BY <1>1, <1>2
<1>4. execs # <<>>
  <2>1. pc = stage /\ "execution" \in Earlier(stage)
    BY <1>1, StageList, Places DEF WhereInv, Earlier
  <2> QED BY <1>1, <2>1, Executed
<1>5. Len(execs) \in DOMAIN execs /\ DOMAIN execs = 1..Len(execs)
  BY <1>4 DEF HistoryOK, IsSeq
<1>6. Nucleus /\ Ready(Len(execs)) /\ execs[Len(execs)].pkg = execs[adjudication.exec].pkg
  BY <1>1 DEF Covered, EvidenceInv
<1>7. adjudication.exec <= Len(execs)
  BY <1>5, <1>6 DEF Nucleus
<1> QED BY <1>1, <1>3, <1>5, <1>6, <1>7 DEF PaperFacts, Nucleus, Ready, Results

\* What a paper rests on is changed at its stage's turn only, before the manuscript is
\* sound.
LEMMA InnerPaper ==
  ASSUME KeptInv, WhereInv, RecordsInv, DoneInv, TailInv, EvidenceInv, Inner
  PROVE  Sound("manuscript") => UNCHANGED <<adjudication, written>>
<1>0. /\ {"adjudication", "manuscript"} \subseteq Made
      /\ "adjudication" \in Earlier("manuscript")
      /\ pc # "idle"
      /\ pc \in Stages => stage = pc /\ stage \notin done
  BY StageList, Places, InnerMoves DEF Made, Earlier, KeptInv, WhereInv, Between
<1>1. ASSUME Sound("manuscript"), stage \in {"adjudication", "manuscript"}
      PROVE  stage \in done
  <2>1. Sound(stage) /\ stage \in Made
    BY <1>0, <1>1 DEF RecordsInv
  <2> QED BY <1>0, <1>1, <2>1 DEF DoneInv, LoopAhead
<1>2. CASE Adjudicates
  <2>1. pc = "adjudication"
    BY <1>2 DEF Adjudicates
  <2> QED BY <1>0, <1>1, <2>1, StageList
<1>3. CASE ManuscriptStage
  <2>1. pc = "manuscript"
    BY <1>3 DEF ManuscriptStage
  <2> QED BY <1>0, <1>1, <2>1, StageList
<1>4. CASE ~Adjudicates /\ ~ManuscriptStage
  <2>1. CASE Executes \/ Loops
    BY <2>1, LoopMoves DEF Executes, Loops, adaptiveVars, studyVars
  <2>2. CASE ~Executes /\ ~Loops
    BY <1>4, <2>2 DEF Inner, Within, PlanStage, CritiqueStage, StageCall, EnterStage,
       ReleaseQuestioner, PassGate, ExecutionStage, ExecutionStageDone, CritiqueRefused,
       AdjudicationRefused, ManuscriptDeferred, AssemblyStage, BundleStage, CheckStage,
       StageBlocked, adaptiveVars, studyVars
  <2> QED BY <2>1, <2>2
<1> QED BY <1>2, <1>3, <1>4

\* The way to the paper is open only to a satisfied loop.
LEMMA GateStep ==
  ASSUME KeptInv, WhereInv, RecordsInv, PaperInv, [Next]_vars
  PROVE  "adaptive" \in Passed' /\ pc' # "gate" => Satisfied'
<1>0. HistoryOK /\ WorkOK /\ stage \in Stages
      /\ ("adaptive" \in Passed /\ pc # "gate" => Satisfied)
  BY DEF KeptInv, WhereInv, PaperInv
<1>1. CASE Inner
  <2>1. /\ UNCHANGED stage /\ pc # "finish" /\ pc' # "finish"
    BY <1>0, <1>1, InnerMoves
  <2>2. Passed' = Passed /\ Passed = Earlier(stage)
    BY <2>1 DEF Passed, Earlier
  <2>3. CASE Loops
    <3>1. stage = "adaptive" /\ "adaptive" \notin Earlier("adaptive")
      BY <2>3, LoopMoves, EarlierFacts, StageList DEF Loops
    <3> QED BY <2>2, <3>1
  <2>4. CASE PassGate
    BY <2>4 DEF PassGate, adaptiveVars, Satisfied
  <2>5. CASE ~Loops /\ ~PassGate
    <3>1. loop' = loop
      BY <1>1, <2>5, WithinMoves
         DEF Inner, Executes, EnterStage, ReleaseQuestioner, adaptiveVars, Within
    <3>2. pc # "gate"
      <4>1. CASE Executes
        BY <1>0, <4>1, ExecutionMoves DEF Executes
      <4>2. CASE Within
        BY <4>2, WithinMoves, StageList DEF Within
      <4> QED BY <1>1, <2>5, <4>1, <4>2 DEF Inner, EnterStage, ReleaseQuestioner
    <3> QED BY <1>0, <2>2, <3>1, <3>2 DEF Satisfied
  <2> QED BY <2>3, <2>4, <2>5
<1>2. CASE SkipStage \/ Record
  <2>1. Advance /\ pc \notin {"finish", "gate"} /\ loop' = loop
    BY <1>2 DEF SkipStage, Record, adaptiveVars
  <2>2. Passed' = Passed \cup {stage} /\ (stage = "adaptive" => pc' = "gate")
    BY <1>0, <2>1, AdvanceMoves
  <2> QED BY <1>0, <2>1, <2>2 DEF Satisfied
<1>3. CASE Leaves \/ Starts
  <2>1. pc' # "finish" /\ stage' = "planning"
    BY <1>3, LeavesMoves, StartsMoves
  <2>2. "adaptive" \notin Earlier("planning")
    BY Places DEF Earlier
  <2> QED BY <2>1, <2>2 DEF Passed
<1>4. CASE UNCHANGED vars
  BY <1>0, <1>4 DEF vars, execVars, adaptiveVars, studyVars, Passed, Satisfied
<1> QED BY <1>1, <1>2, <1>3, <1>4, StudySteps

PaperDone ==
  Satisfied /\ \A s \in Stages : /\ checkpoint[s].status = "completed"
                                 /\ s # "check" => Sound(s)

\* At the end no stage has been left deferred.
LEMMA FinishFacts ==
  ASSUME WhereInv, RecordsInv, DoneInv, PaperInv, Finish,
         \A s \in PaperTail : records[s].status # "deferred"
  PROVE  PaperDone
<1>1. pc = "finish" /\ Passed = Stages /\ records = checkpoint /\ "adaptive" \in Stages
  BY StageList DEF Finish, Passed, RecordsInv
<1>2. \A s \in Stages : s \in done
  BY <1>1 DEF DoneInv, TailDeferred
<1>3. Satisfied
  BY <1>1 DEF PaperInv
<1> QED BY <1>2, <1>3 DEF PaperDone, DoneInv, Completed, Made

LEMMA PaperStep ==
  ASSUME KeptInv, WhereInv, RecordsInv, DoneInv, TailInv, EvidenceInv, PaperInv, [Next]_vars
  PROVE  PaperInv'
<1>0. HistoryOK /\ WorkOK /\ stage \in Stages /\ {"manuscript"} \subseteq Made \cap Stages
  BY StageList DEF KeptInv, WhereInv, Made
<1>1. "adaptive" \in Passed' /\ pc' # "gate" => Satisfied'
  BY GateStep
<1>2. Sound("manuscript")' => PaperFacts'
  <2>1. CASE Inner
    <3>1. Sound("manuscript")' => Sound("manuscript")
      BY <1>0, <2>1, InnerMoves DEF Sound
    <3> QED BY <2>1, <3>1, InnerPaper, PaperCarried DEF PaperInv
  <2>2. CASE Record
    <3>x. PICK x \in Stages : x = stage
      BY <1>0
    <3>1. UNCHANGED <<adjudication, written>> /\ pc = "record"
      BY <2>2 DEF Record, adaptiveVars
    <3>2. CASE x = "manuscript"
      <4>1. Sound("manuscript")' => ~StageDeferred
        BY <2>2, <3>x, <3>2, RecordSound
      <4>2. x \in PaperTail
        BY <3>2 DEF PaperTail
      <4>3. ~StageDeferred => tail.manuscript = "ready"
        BY <3>x, <3>1, <3>2, <4>2 DEF StageDeferred, TailInv
      <4> QED BY <3>x, <3>1, <3>2, <4>1, <4>3, PaperCarried DEF PaperInv
    <3>3. CASE x # "manuscript"
      <4>1. Sound("manuscript")' => Sound("manuscript")
        BY <1>0, <2>2, <3>x, <3>3, RecordSound
      <4> QED BY <3>1, <4>1, PaperCarried DEF PaperInv
    <3> QED BY <3>2, <3>3
  <2>3. CASE SkipStage \/ Leaves \/ Starts \/ UNCHANGED vars
    <3>1. UNCHANGED <<adjudication, written, checkpoint>>
      BY <2>3, LeavesMoves, StartsMoves DEF SkipStage, adaptiveVars, vars, studyVars
    <3>2. Sound("manuscript")' => Sound("manuscript")
      BY <3>1 DEF Sound
    <3> QED BY <3>1, <3>2, PaperCarried DEF PaperInv
  <2> QED BY <2>1, <2>2, <2>3, StudySteps
<1>3. pc' = "record" /\ stage' = "manuscript" /\ tail'.manuscript = "ready" => PaperFacts'
  <2> SUFFICES ASSUME pc' = "record", stage' = "manuscript", tail'.manuscript = "ready"
               PROVE  PaperFacts'
    OBVIOUS
  <2>1. CASE Inner
    <3>1. stage = "manuscript" /\ stage \in PaperTail
      BY <1>0, <2>1, InnerMoves DEF PaperTail
    <3>2. ManuscriptStage
      BY <2>1, <3>1, TailMoves
    <3> QED BY <1>0, <3>2, ManuscriptFacts
  <2>2. CASE Record \/ SkipStage
    <3>1. pc' # "record"
      BY <1>0, <2>2, AdvanceMoves DEF Record, SkipStage
    <3> QED BY <3>1
  <2>3. CASE Leaves \/ Starts
    BY <2>3, LeavesMoves, StartsMoves
  <2>4. CASE UNCHANGED vars
    BY <2>4, PaperCarried DEF vars, execVars, adaptiveVars, studyVars, PaperInv
  <2> QED BY <2>1, <2>2, <2>3, <2>4, StudySteps
<1>4. outcome' = "completed" => PaperDone'
  <2> SUFFICES ASSUME outcome' = "completed" PROVE PaperDone'
    OBVIOUS
  <2>1. CASE Inner \/ SkipStage \/ Record
    <3>1. outcome' = outcome /\ pc # "idle"
      BY <1>0, <2>1, InnerMoves DEF SkipStage, Record
    <3> QED BY <3>1 DEF WhereInv
  <2>2. CASE Leaves
    <3>1. /\ pc # "idle" /\ UNCHANGED <<loop, checkpoint>>
          /\ outcome # "completed" =>
               Finish /\ \A s \in PaperTail : records[s].status # "deferred"
      BY <2>2, LeavesMoves
    <3>2. outcome = "none"
      BY <3>1 DEF WhereInv
    <3>3. PaperDone
      BY <3>1, <3>2, FinishFacts
    <3> QED BY <3>1, <3>3 DEF PaperDone, Satisfied, Sound
  <2>3. CASE Starts
    BY <2>3, StartsMoves
  <2>4. CASE UNCHANGED vars
    BY <2>4 DEF vars, adaptiveVars, studyVars, PaperInv, PaperDone, Satisfied, Sound
  <2> QED BY <2>1, <2>2, <2>3, <2>4, StudySteps
<1> QED BY <1>1, <1>2, <1>3, <1>4 DEF PaperInv, PaperDone

-----------------------------------------------------------------------------
(* The study. *)

LEMMA StudyInit == Init => KeptInv /\ StudyInv
<1> SUFFICES ASSUME Init PROVE KeptInv /\ StudyInv
  OBVIOUS
<1>1. KeptInv
  BY KeptInit
<1>2. /\ pc = "idle" /\ stage = "planning" /\ done = {} /\ records = NoRecords
      /\ checkpoint = NoRecords /\ tail = [s \in PaperTail |-> "none"]
      /\ written = 0 /\ outcome = "none" /\ execs = <<>>
      /\ loop = NoLoop /\ cur = NoCur /\ seen = NoSeen
      /\ adjudication = [exec |-> 0, verdict |-> "none"]
  BY DEF Init, ExecutionInit, AdaptiveInit
<1>3. /\ \A s \in Stages : /\ checkpoint[s].status = "none" /\ checkpoint[s].out = 0
                           /\ \A t \in Stages : checkpoint[s].in[t] = 0
      /\ checkpoint \in [Stages -> [status : Statuses, in : [Stages -> Nat], out : Nat]]
  BY <1>2 DEF NoRecords, NoRecord, Statuses
<1>4. Completed(checkpoint) = {} /\ \A s \in Stages : ~Sound(s)
  BY <1>3 DEF Completed, Sound
<1>5. Passed = {} /\ "manuscript" \in Stages
  BY <1>2, Places, OrderFacts, StageList DEF Passed, Earlier
<1>6. WhereInv
  BY <1>2, StageList DEF WhereInv, Labels, Between, LoopLabels
<1>7. RecordsInv
  BY <1>2, <1>3, <1>4 DEF RecordsInv, Made
<1>8. DoneInv
  BY <1>2, <1>4, <1>5 DEF DoneInv
<1>9. TailInv
  BY <1>2, <1>4, StageList DEF TailInv, PaperTail
<1>10. EvidenceInv
  BY <1>2, <1>4 DEF EvidenceInv, IsLoop, NoLoop, IsCur, NoCur, NoSeen, Satisfied
<1>11. PaperInv
  BY <1>2, <1>4, <1>5 DEF PaperInv
<1> QED BY <1>1, <1>6, <1>7, <1>8, <1>9, <1>10, <1>11 DEF StudyInv

LEMMA StudyInvStep ==
  ASSUME KeptInv, StudyInv, [Next]_vars
  PROVE  KeptInv' /\ StudyInv'
<1>1. /\ HistoryOK /\ WorkOK /\ WhereInv /\ RecordsInv /\ DoneInv /\ TailInv
      /\ EvidenceInv /\ PaperInv
  BY DEF KeptInv, StudyInv
<1> QED BY <1>1, KeptStep, WhereStep, RecordsStep, DoneStep, TailStep, EvidenceStep, PaperStep
        DEF StudyInv

\* A completed study has a complete record for every stage, and nothing that its
\* paper rests on was redone after what depends on it.
THEOREM CompletedRecords == Spec => []CompletedIsCurrent
<1>1. KeptInv /\ StudyInv => CompletedIsCurrent
  <2> SUFFICES ASSUME StudyInv, outcome = "completed", NEW s \in Stages
               PROVE  /\ checkpoint[s].status = "completed"
                      /\ s # "check" => checkpoint[s].in = Upstream(checkpoint, s)
    BY DEF CompletedIsCurrent
  <2>1. RecordsInv /\ PaperInv
    BY DEF StudyInv
  <2>2. checkpoint[s].status = "completed" /\ (s # "check" => Sound(s))
    BY <2>1 DEF PaperInv
  <2>3. s # "check" => s \in Completed(checkpoint) \ Stale(checkpoint)
    BY <2>1, <2>2, SoundIsCurrent DEF Made
  <2> QED BY <2>2, <2>3 DEF Stale
<1> QED BY <1>1, StudyInit, StudyInvStep, PTL DEF Spec

\* A completed study's paper was written from ready evidence of the package that the
\* critics chose, after the questioner had accepted an execution that is ready.
THEOREM PaperFromChosen == Spec => []PaperRestsOnAdjudicated
<1>1. KeptInv /\ StudyInv => PaperRestsOnAdjudicated
  <2> SUFFICES ASSUME StudyInv, outcome = "completed"
               PROVE  /\ Satisfied /\ Ready(loop.source) /\ PaperFacts
    BY DEF PaperRestsOnAdjudicated, PaperFacts, Nucleus
  <2>1. EvidenceInv /\ PaperInv /\ "manuscript" \in Stages
    BY StageList DEF StudyInv
  <2>2. Satisfied /\ Sound("manuscript")
    BY <2>1 DEF PaperInv
  <2> QED BY <2>1, <2>2 DEF EvidenceInv, PaperInv
<1> QED BY <1>1, StudyInit, StudyInvStep, PTL DEF Spec

-----------------------------------------------------------------------------
(* Types. *)

IsReport(x) ==
  /\ x.target \in Plans \cup {NoTarget} /\ x.code \subseteq Plans
  /\ x.res \in [PlansOf(x.pkg) -> PlanResults]

\* An execution of any package; a runtime repair is one that it has left.
IsTyped(w) ==
  /\ w.todo \subseteq Plans /\ w.code \subseteq Plans
  /\ w.gen \in Nat /\ w.fix \in 0..1 /\ w.target \in Plans \cup {NoTarget}
  /\ w.broken # NoTarget => w.fix = 1

DataInv ==
  /\ failures \in 0..MaxFailures
  /\ \A e \in DOMAIN execs : IsReport(execs[e])
  /\ IsTyped(work)
  /\ seen.code \subseteq Plans
  /\ (pc = "idle") = ~open

LEMMA NoWorkTyped == IsTyped(NoWork)
BY DEF IsTyped, NoWork, NoTarget

LEMMA RaisedTyped ==
  ASSUME NEW c, NEW e, work' = [NoWork EXCEPT !.caller = c, !.end = e]
  PROVE  IsTyped(work')
<1>1. /\ work'.todo = {} /\ work'.code = {} /\ work'.gen = 0 /\ work'.fix = 0
      /\ work'.target = NoTarget /\ work'.broken = NoTarget
  BY DEF NoWork
<1> QED BY <1>1 DEF IsTyped

LEMMA FailTyped ==
  ASSUME failures \in 0..MaxFailures, NEW o, Fail(o)
  PROVE  failures' \in 0..MaxFailures
BY ExecutionAssumption DEF Fail

\* The reports before keep their plans; a new one is of the last package.
LEMMA ReportsTyped ==
  ASSUME KeptInv, \A e \in DOMAIN execs : IsReport(execs[e]), IsTyped(work), [Next]_vars
  PROVE  \A e \in DOMAIN execs' : IsReport(execs[e])'
<1>0. HistoryOK /\ WorkOK
  BY DEF KeptInv
<1>1. CASE UNCHANGED <<packages, execs>>
  BY <1>1 DEF IsReport, PlansOf
<1>2. CASE Writes
  <2> DEFINE new == Len(execs) + 1
             x == [pkg    |-> Package, res |-> work.res,
                   code   |-> work.code, target |-> work.target]
  <2>1. /\ DOMAIN execs = 1..Len(execs) /\ DOMAIN execs' = 1..new /\ Len(execs) \in Nat
        /\ \A i \in 1..Len(execs) : execs'[i] = execs[i]
        /\ execs'[new] = x
    BY <1>0, <1>2, AppendFacts DEF Writes, HistoryOK
  <2>2. \A k : PlansOf(k)' = PlansOf(k)
    BY <1>2 DEF Writes, PlansOf
  <2>3. work.res \in [PlansOf(Package) -> PlanResults]
    BY <1>0, <1>2 DEF Writes, WorkOK, IsWork
  <2>4. /\ x.target \in Plans \cup {NoTarget} /\ x.code \subseteq Plans
        /\ x.res \in [PlansOf(x.pkg) -> PlanResults]
    BY <2>3 DEF IsTyped
  <2> HIDE DEF x
  <2>5. ASSUME NEW e \in 1..new PROVE IsReport(execs[e])'
    <3>1. CASE e = new
      BY <2>1, <2>2, <2>4, <3>1 DEF IsReport
    <3>2. CASE e # new
      <4>1. e \in DOMAIN execs /\ execs'[e] = execs[e]
        BY <2>1, <3>2
      <4> QED BY <2>2, <4>1 DEF IsReport
    <3> QED BY <3>1, <3>2
  <2> QED BY <2>1, <2>5
<1>3. CASE AddsPackage
  <2>1. PICK n \in Plans : packages' = Append(packages, n)
    BY <1>3 DEF AddsPackage
  <2>2. UNCHANGED execs /\ \A k \in DOMAIN packages : packages'[k] = packages[k]
    BY <1>0, <1>3, <2>1 DEF AddsPackage, HistoryOK
  <2>3. \A e \in DOMAIN execs : PlansOf(execs[e].pkg)' = PlansOf(execs[e].pkg)
    BY <1>0, <2>2 DEF PlansOf, HistoryOK
  <2> QED BY <2>2, <2>3 DEF IsReport
<1> QED
  BY <1>1, <1>2, <1>3, StudyShape DEF Outside, Still, Begins, Works

\* An execution starts with plans of the last package and with an allowance.
LEMMA BeginTyped ==
  ASSUME HistoryOK, packages # <<>>,
         NEW caller, NEW cap, NEW gen \in Nat, NEW fix \in 0..1,
         NEW target \in Plans \cup {NoTarget}, NEW fresh,
         Begin(caller, cap, gen, fix, target, fresh)
  PROVE  IsTyped(work')
<1>1. PlansOf(Package) \subseteq Plans
  BY ExecutionAssumption DEF HistoryOK, PlansOf, Package, Plans
<1>2. \A S : FirstOf(cap, S) \subseteq S
  BY DEF FirstOf
<1> QED BY <1>1, <1>2 DEF Begin, IsTyped

\* It never pays for more than it has.
LEMMA ExecutesTyped ==
  ASSUME HistoryOK, WorkOK, IsTyped(work), failures \in 0..MaxFailures, Executes
  PROVE  IsTyped(work') /\ failures' \in 0..MaxFailures
<1>0. pc = "execute" /\ IsWork(work) /\ work.gen \in Nat
  BY ExecutionMoves DEF Executes, WorkOK, IsTyped
<1>1. ASSUME NEW end, Raise(end) PROVE IsTyped(work')
  BY <1>1, RaisedTyped DEF Raise
<1>2. ASSUME NEW p \in Plans, NEW r, Settle(p, r) PROVE IsTyped(work')
  <2>1. /\ work'.todo = work.todo \ {p} /\ work'.code = work.code
        /\ work'.gen = work.gen /\ work'.fix = work.fix
        /\ work'.target = work.target /\ work'.broken = work.broken
    BY <1>0, <1>2 DEF Settle, IsWork
  <2> QED BY <2>1 DEF IsTyped
<1>3. ASSUME NEW p \in Plans, NEW fixable, NEW paid \in 0..work.gen,
             Execute(p, fixable, paid)
      PROVE  IsTyped(work')
  <2>1. work.gen - paid \in Nat
    BY <1>0, <1>3
  <2>2. CASE \E r \in {"done", "failed"} :
               work' = [work EXCEPT !.res[p] = r, !.todo = @ \ {p}, !.code = @ \cup {p},
                                    !.gen = @ - paid]
    <3>1. /\ work'.todo = work.todo \ {p} /\ work'.code = work.code \cup {p}
          /\ work'.gen = work.gen - paid /\ work'.fix = work.fix
          /\ work'.target = work.target /\ work'.broken = work.broken
      BY <1>0, <2>2 DEF IsWork
    <3> QED BY <2>1, <3>1 DEF IsTyped
  <2>3. CASE /\ work.fix > 0
             /\ work' = [work EXCEPT !.broken = p, !.code = @ \cup {p}, !.gen = @ - paid]
    <3>1. /\ work'.todo = work.todo /\ work'.code = work.code \cup {p}
          /\ work'.gen = work.gen - paid /\ work'.fix = work.fix
          /\ work'.target = work.target
      BY <1>0, <2>3 DEF IsWork
    <3> QED BY <2>1, <2>3, <3>1 DEF IsTyped
  <2> QED BY <1>3, <2>2, <2>3 DEF Execute
<1>4. 0 \in 0..work.gen /\ (work.gen > 0 => 1 \in 0..work.gen)
  BY <1>0
<1>5. ASSUME NEW p \in Plans, RepairTarget(p)
      PROVE  IsTyped(work') /\ failures' \in 0..MaxFailures
  <2>1. PICK o \in Outcomes : Fail(o) /\ \/ Raise(o) \/ Settle(p, "rejected")
                                         \/ Execute(p, FALSE, 0)
    BY <1>5, Zenon DEF RepairTarget
  <2>2. failures' \in 0..MaxFailures
    BY <2>1, FailTyped
  <2> QED BY <1>1, <1>2, <1>3, <1>4, <2>1, <2>2, Zenon
<1>6. ASSUME NEW p \in Plans, Reexecute(p)
      PROVE  IsTyped(work') /\ failures' \in 0..MaxFailures
  <2>1. Execute(p, TRUE, 0) /\ failures' = failures
    BY <1>6, Zenon DEF Reexecute
  <2> QED BY <1>3, <1>4, <2>1, Zenon
<1>7. ASSUME NEW p \in Plans, DeferPlan(p)
      PROVE  IsTyped(work') /\ failures' \in 0..MaxFailures
  <2>1. Settle(p, "deferred") /\ failures' = failures
    BY <1>7, Zenon DEF DeferPlan
  <2> QED BY <1>2, <2>1, Zenon
<1>8. ASSUME NEW p \in Plans, Generate(p)
      PROVE  IsTyped(work') /\ failures' \in 0..MaxFailures
  <2>1. PICK o \in Outcomes : Fail(o) /\ (Raise(o) \/ Execute(p, TRUE, 1))
    BY <1>8, Zenon DEF Generate
  <2>2. work.gen > 0
    BY <1>8, Zenon DEF Generate
  <2>3. failures' \in 0..MaxFailures
    BY <2>1, FailTyped
  <2> QED BY <1>1, <1>3, <1>4, <2>1, <2>2, <2>3, Zenon
<1>9. CASE RuntimeRepair
  <2>1. PICK o \in Outcomes :
          /\ Fail(o)
          /\ \E r \in {"done", "failed"} :
               work' = [work EXCEPT !.res[work.broken] = r, !.todo = @ \ {work.broken},
                                    !.fix = @ - 1, !.broken = NoTarget]
    BY <1>9 DEF RuntimeRepair
  <2>2. work.fix = 1
    BY <1>9 DEF RuntimeRepair, IsTyped
  <2>3. /\ work'.todo = work.todo \ {work.broken} /\ work'.code = work.code
        /\ work'.gen = work.gen /\ work'.fix = 0 /\ work'.target = work.target
        /\ work'.broken = NoTarget
    BY <1>0, <2>1, <2>2 DEF IsWork
  <2>4. IsTyped(work')
    BY <2>3 DEF IsTyped
  <2> QED BY <2>1, <2>4, FailTyped
<1>10. CASE ExecutionBlocked
  BY <1>1, <1>10 DEF ExecutionBlocked
<1>11. CASE WriteReport
  BY <1>11, RaisedTyped DEF WriteReport
<1> QED BY <1>5, <1>6, <1>7, <1>8, <1>9, <1>10, <1>11 DEF Executes

\* The loop's executions, and what it questions.
LEMMA LoopsTyped ==
  ASSUME HistoryOK, PackageFirst, WhereInv, EvidenceInv, BudgetTypeOK, DataInv, Loops
  PROVE  /\ IsTyped(work') /\ failures' \in 0..MaxFailures /\ seen'.code \subseteq Plans
<1>0. /\ IsTyped(work) /\ failures \in 0..MaxFailures /\ seen.code \subseteq Plans
      /\ \A e \in DOMAIN execs : IsReport(execs[e])
  BY DEF DataInv
<1>1. \A e : Recovered(e) \subseteq Plans
  BY <1>0 DEF Recovered, CodeOf, IsReport
<1>2. packages # <<>>
  BY LoopShape DEF Loops
<1>a. /\ 0 \in Nat /\ 1 \in Nat /\ 0 \in 0..1 /\ 1 \in 0..1
      /\ NoTarget \in Plans \cup {NoTarget}
  OBVIOUS
<1>3. IsTyped(NoWork)
  BY NoWorkTyped
<1>4. CASE EnterLoop \/ LimitReached \/ AskBlocked \/ ActTerminal
           \/ RefuseCodeRepair \/ RefusePlanRepair
  BY <1>0, <1>4 DEF EnterLoop, LimitReached, AskBlocked, ActTerminal,
                    RefuseCodeRepair, RefusePlanRepair
<1>5. CASE BeginPass
  <2>0. /\ UNCHANGED failures
        /\ \/ Begin("continue", 1, 1, 0, NoTarget, FALSE) /\ UNCHANGED seen
           \/ /\ seen' = [exec |-> Actionable, code |-> Recovered(Actionable)]
              /\ UNCHANGED work
    BY <1>5, Zenon DEF BeginPass
  <2>1. seen' = [exec |-> Actionable, code |-> Recovered(Actionable)]
          => seen'.code = Recovered(Actionable)
    OBVIOUS
  <2>2. Begin("continue", 1, 1, 0, NoTarget, FALSE) => IsTyped(work')
    BY <1>2, <1>a, BeginTyped, Zenon
  <2> QED BY <1>0, <1>1, <2>0, <2>1, <2>2, Zenon
<1>6. CASE Continued
  <2>1. work.end = "ok" => Len(execs) \in DOMAIN execs
    BY <1>6, AppendFacts DEF Continued, EvidenceInv, HistoryOK
  <2>2. CASE work.end = "ok"
    BY <1>0, <1>3, <1>6, <2>1, <2>2 DEF Continued, IsReport
  <2>3. CASE work.end # "ok"
    BY <1>0, <1>1, <1>3, <1>6, <2>3 DEF Continued
  <2> QED BY <2>2, <2>3
<1>7. CASE Ask
  <2>1. /\ UNCHANGED <<work, seen>> /\ \E o \in Outcomes : Fail(o)
    BY <1>7, Zenon DEF Ask
  <2> QED BY <1>0, <2>1, FailTyped
<1>8. CASE BeginCodeRepair
  <2>1. /\ UNCHANGED <<failures, seen>>
        /\ \/ Begin("code", 1, 1, 1, NoTarget, FALSE)
           \/ \E p \in seen.code : Begin("code", 1, 0, 1, p, FALSE)
    BY <1>8, Zenon DEF BeginCodeRepair
  <2>2. Begin("code", 1, 1, 1, NoTarget, FALSE) => IsTyped(work')
    BY <1>2, <1>a, BeginTyped, Zenon
  <2>3. ASSUME NEW p \in seen.code, Begin("code", 1, 0, 1, p, FALSE) PROVE IsTyped(work')
    <3>1. p \in Plans \cup {NoTarget}
      BY <1>0
    <3> QED BY <1>2, <1>a, <2>3, <3>1, BeginTyped, Zenon
  <2> QED BY <1>0, <2>1, <2>2, <2>3
<1>9. CASE CodeRepairDone \/ PlanRepairDone
  BY <1>0, <1>3, <1>9 DEF CodeRepairDone, PlanRepairDone
<1>10. CASE RepairPlan
  <2>1. /\ UNCHANGED <<work, seen>> /\ \E o \in Outcomes : Fail(o)
    BY <1>10, Zenon DEF RepairPlan
  <2> QED BY <1>0, <2>1, FailTyped
<1>11. CASE ExecuteReplanned
  <2>1. RemainingCalls \in Nat
    BY DEF RemainingCalls, Larger, BudgetTypeOK, Configs
  <2>2. IsTyped(work')
    BY <1>2, <1>a, <1>11, <2>1, BeginTyped, Zenon DEF ExecuteReplanned
  <2> QED BY <1>0, <1>11, <2>2 DEF ExecuteReplanned, adaptiveVars
<1> QED BY <1>4, <1>5, <1>6, <1>7, <1>8, <1>9, <1>10, <1>11 DEF Loops

\* The stages.
LEMMA WithinTyped ==
  ASSUME HistoryOK, PackageFirst, BudgetTypeOK, DataInv, Within
  PROVE  /\ IsTyped(work') /\ failures' \in 0..MaxFailures /\ seen'.code \subseteq Plans
<1>0. /\ IsTyped(work) /\ failures \in 0..MaxFailures /\ seen.code \subseteq Plans
  BY DEF DataInv
<1>1. ASSUME NEW answered, StageCall(answered)
      PROVE  /\ UNCHANGED <<work, seen>> /\ failures' \in 0..MaxFailures
  <2>1. \E o \in Outcomes : Fail(o)
    BY <1>1, Zenon DEF StageCall
  <2>2. UNCHANGED <<work, seen>>
    BY <1>1, Zenon DEF StageCall
  <2> QED BY <1>0, <2>1, <2>2, FailTyped
<1>2. CASE PlanStage \/ CritiqueStage \/ Adjudicates \/ ManuscriptStage
  <2>1. PICK answered : StageCall(answered)
    BY <1>2, Zenon DEF PlanStage, CritiqueStage, Adjudicates, ManuscriptStage
  <2> QED BY <1>0, <1>1, <2>1
<1>3. CASE ExecutionStage
  <2>1. RemainingCalls \in Nat
    BY DEF RemainingCalls, Larger, BudgetTypeOK, Configs
  <2>2. packages # <<>> /\ UNCHANGED <<failures, seen>>
    BY <1>3 DEF ExecutionStage, PackageFirst, adaptiveVars
  <2> DEFINE f == IF CanSpend(2, 1) THEN 1 ELSE 0
  <2>3. f \in 0..1 /\ NoTarget \in Plans \cup {NoTarget}
    OBVIOUS
  <2>4. Begin("stage", MaxPlans, RemainingCalls, f, NoTarget, FALSE)
    BY <1>3, Zenon DEF ExecutionStage
  <2> HIDE DEF f
  <2>5. IsTyped(work')
    BY <2>1, <2>2, <2>3, <2>4, BeginTyped, Zenon
  <2> QED BY <1>0, <2>2, <2>5
<1>4. CASE ExecutionStageDone
  BY <1>0, <1>4, NoWorkTyped DEF ExecutionStageDone, adaptiveVars
<1>5. CASE \/ AdjudicationRefused \/ ManuscriptDeferred \/ AssemblyStage \/ BundleStage
           \/ CheckStage \/ StageBlocked
  BY <1>0, <1>5 DEF AdjudicationRefused, ManuscriptDeferred, AssemblyStage, BundleStage,
                    CheckStage, StageBlocked, adaptiveVars
<1>6. CASE CritiqueRefused
  <2>1. /\ \E o \in Outcomes : Fail(o)
        /\ UNCHANGED <<work, seen>>
    BY <1>6, Zenon DEF CritiqueRefused, adaptiveVars
  <2> QED BY <1>0, <2>1, FailTyped
<1> QED BY <1>2, <1>3, <1>4, <1>5, <1>6 DEF Within

\* A manager is open from an invocation's start to its end.
LEMMA OpenSame ==
  ASSUME Inner \/ SkipStage \/ Record
  PROVE  open' = open
<1>1. ASSUME NEW kind, NEW o, BudgetCall(kind, o) PROVE open' = open
  BY <1>1 DEF BudgetCall
<1>2. UNCHANGED budgetVars => open' = open
  BY DEF budgetVars
<1>3. CASE Executes
  <2>1. UNCHANGED budgetVars \/ \E kind, o : BudgetCall(kind, o)
    BY <1>3, Zenon DEF Executes, RepairTarget, Reexecute, DeferPlan, Generate, RuntimeRepair,
                       ExecutionBlocked, WriteReport
  <2> QED BY <1>1, <1>2, <2>1, Zenon
<1>4. CASE Loops
  <2>1. UNCHANGED budgetVars \/ \E kind, o : BudgetCall(kind, o)
    <3>1. CASE Ask \/ RepairPlan
      BY <3>1, Zenon DEF Ask, RepairPlan
    <3>2. CASE EnterLoop \/ LimitReached \/ BeginPass \/ Continued \/ AskBlocked
      BY <3>2 DEF EnterLoop, LimitReached, BeginPass, Continued, AskBlocked
    <3>3. CASE ActTerminal \/ RefuseCodeRepair \/ BeginCodeRepair \/ CodeRepairDone
      BY <3>3 DEF ActTerminal, RefuseCodeRepair, BeginCodeRepair, CodeRepairDone
    <3>4. CASE RefusePlanRepair \/ ExecuteReplanned \/ PlanRepairDone
      BY <3>4 DEF RefusePlanRepair, ExecuteReplanned, PlanRepairDone
    <3> QED BY <1>4, <3>1, <3>2, <3>3, <3>4 DEF Loops
  <2> QED BY <1>1, <1>2, <2>1, Zenon
<1>5. CASE PlanStage \/ CritiqueStage \/ Adjudicates \/ ManuscriptStage
  <2>1. PICK answered : StageCall(answered)
    BY <1>5, Zenon DEF PlanStage, CritiqueStage, Adjudicates, ManuscriptStage
  <2>2. \E kind, o : BudgetCall(kind, o)
    BY <2>1, Zenon DEF StageCall
  <2> QED BY <1>1, <2>2, Zenon
<1>6. CASE ExecutionStage \/ ExecutionStageDone \/ AdjudicationRefused \/ ManuscriptDeferred
  BY <1>2, <1>6 DEF ExecutionStage, ExecutionStageDone, AdjudicationRefused, ManuscriptDeferred
<1>6a. CASE CritiqueRefused
  <2>1. \E kind, o : BudgetCall(kind, o)
    BY <1>6a, Zenon DEF CritiqueRefused
  <2> QED BY <1>1, <2>1, Zenon
<1>7. CASE AssemblyStage \/ BundleStage \/ CheckStage \/ StageBlocked
  BY <1>2, <1>7 DEF AssemblyStage, BundleStage, CheckStage, StageBlocked
<1>8. CASE EnterStage \/ SkipStage \/ Record
  BY <1>2, <1>8 DEF EnterStage, SkipStage, Record
<1>9. CASE ReleaseQuestioner \/ PassGate
  BY <1>9 DEF ReleaseQuestioner, PassGate, ReleaseAsk, ReleaseTail
<1> QED BY <1>3, <1>4, <1>5, <1>6, <1>6a, <1>7, <1>8, <1>9 DEF Inner, Within

LEMMA DataStep ==
  ASSUME KeptInv, StudyInv, BudgetTypeOK, DataInv, [Next]_vars
  PROVE  DataInv'
<1>0. /\ HistoryOK /\ WorkOK /\ PackageFirst /\ WhereInv /\ EvidenceInv
      /\ IsTyped(work) /\ failures \in 0..MaxFailures /\ seen.code \subseteq Plans
      /\ \A e \in DOMAIN execs : IsReport(execs[e])
      /\ (pc = "idle") = ~open
      /\ open \in BOOLEAN
  BY DEF KeptInv, StudyInv, DataInv, BudgetTypeOK
<1>1. \A e \in DOMAIN execs' : IsReport(execs[e])'
  BY <1>0, ReportsTyped
<1>2. CASE Inner
  <2>1. /\ IsTyped(work') /\ failures' \in 0..MaxFailures /\ seen'.code \subseteq Plans
    <3>1. CASE Executes
      BY <1>0, <3>1, ExecutesTyped DEF Executes, adaptiveVars
    <3>2. CASE Loops
      BY <1>0, <3>2, LoopsTyped
    <3>3. CASE Within
      BY <1>0, <3>3, WithinTyped
    <3>4. CASE EnterStage \/ ReleaseQuestioner \/ PassGate
      BY <1>0, <3>4 DEF EnterStage, ReleaseQuestioner, PassGate, adaptiveVars
    <3> QED BY <1>2, <3>1, <3>2, <3>3, <3>4 DEF Inner
  <2>2. pc # "idle" /\ pc' # "idle"
    BY <1>0, <1>2, InnerMoves
  <2>3. open' = open
    BY <1>2, OpenSame
  <2> QED BY <1>0, <1>1, <2>1, <2>2, <2>3 DEF DataInv
<1>3. CASE SkipStage \/ Record
  <2>1. UNCHANGED <<work, failures, seen>> /\ pc # "idle" /\ Advance
    BY <1>3 DEF SkipStage, Record, adaptiveVars
  <2>2. pc' # "idle"
    BY <1>0, <2>1, AdvanceFacts DEF WhereInv
  <2>3. open' = open
    BY <1>3, OpenSame
  <2> QED BY <1>0, <1>1, <2>1, <2>2, <2>3 DEF DataInv
<1>4. CASE Leaves
  <2>1. pc' = "idle" /\ work' = NoWork /\ seen' = NoSeen /\ failures' = failures /\ ~open'
    BY <1>4 DEF Leaves, Kill, KillInCall, StopAtGate, FailStage, Finish, End, Leave, Close,
                LoseCall
  <2> QED BY <1>0, <1>1, <2>1, NoWorkTyped DEF DataInv, NoSeen
<1>5. CASE Starts
  <2>1. pc' = "stage" /\ UNCHANGED <<work, seen, failures>> /\ open' = TRUE
    BY <1>5 DEF Starts, Start, Open
  <2> QED BY <1>0, <1>1, <2>1 DEF DataInv
<1>6. CASE UNCHANGED vars
  <2>1. UNCHANGED <<work, seen, failures, pc, open>>
    BY <1>6 DEF vars, execVars, adaptiveVars, budgetVars
  <2> QED BY <1>0, <1>1, <2>1 DEF DataInv
<1> QED BY <1>2, <1>3, <1>4, <1>5, <1>6, StudySteps

\* The study's data keep their types: among others a report has a result for every plan
\* of its package, and an LLM budget is open exactly while an invocation runs.
THEOREM StudyTypes == Spec => []TypeOK
<1>1. Init => DataInv
  <2> SUFFICES ASSUME Init PROVE DataInv
    OBVIOUS
  <2>1. /\ failures = 0 /\ execs = <<>> /\ work = NoWork /\ seen = NoSeen
        /\ pc = "idle" /\ open = FALSE
    BY DEF Init, ExecutionInit, AdaptiveInit, BudgetInit
  <2> QED BY <2>1, NoWorkTyped, ExecutionAssumption DEF DataInv, NoSeen
<1>2. KeptInv /\ StudyInv /\ BudgetTypeOK /\ DataInv => TypeOK
  <2> SUFFICES ASSUME KeptInv, StudyInv, BudgetTypeOK, DataInv PROVE TypeOK
    OBVIOUS
  <2>1. /\ HistoryOK /\ PackageFirst /\ RecordsInv /\ DoneInv /\ EvidenceInv
    BY DEF KeptInv, StudyInv
  <2>2. packages \in Seq(Plans) /\ \A e \in DOMAIN execs : execs[e].pkg \in DOMAIN packages
    BY <2>1 DEF HistoryOK
  <2>3. \A e \in DOMAIN execs :
          /\ execs[e].target \in Plans \cup {NoTarget} /\ execs[e].code \subseteq Plans
          /\ execs[e].res \in [PlansOf(execs[e].pkg) ->
                               {"done", "failed", "rejected", "deferred"}]
    BY DEF DataInv, IsReport, PlanResults
  <2>4. /\ DOMAIN checkpoint = Stages
        /\ \A s \in Stages : checkpoint[s].status \in Statuses
    BY <2>1 DEF RecordsInv
  <2>5. stage \in Stages /\ done \subseteq Stages
    BY <2>1 DEF PackageFirst, DoneInv, Completed
  <2>6. loop.source \in 0..Len(execs) /\ adjudication.exec \in 0..Len(execs)
    BY <2>1 DEF EvidenceInv
  <2> QED BY <2>2, <2>3, <2>4, <2>5, <2>6 DEF TypeOK, DataInv, IsTyped
<1>3. BudgetInv => BudgetTypeOK
  BY DEF BudgetInv
<1>4. KeptInv /\ StudyInv /\ BudgetTypeOK /\ DataInv /\ [Next]_vars
        => KeptInv' /\ StudyInv' /\ DataInv'
  BY StudyInvStep, DataStep
<1>5. Spec => []BudgetTypeOK
  BY <1>3, StudyKeepsBudget, BudgetSafe, PTL
<1> QED BY <1>1, <1>2, <1>4, <1>5, StudyInit, PTL DEF Spec
=============================================================================
