----------------------- MODULE PaperControllerProofs -----------------------
(***************************************************************************)
(* What the checkpoints of run_autonomous_paper keep, for every number of    *)
(* invocations and kills: the history they record, a sound index, stages that *)
(* are completed once, and what a paper that is handed over rests on.         *)
(***************************************************************************)
EXTENDS PaperController, SequenceTheorems, TLAPS

Active == proc.pc # "idle"

\* The invariant: the types of the state, and what a first invocation finds.
Files == [stage : Stages \cup {"verify", "handoff"}, gate : {"none", "passed", "failed"},
          prev : Nat, run : Nat]

Procs == [pc : {"idle", "stage", "report", "index", "checkpoint", "list", "recheck",
                "finish", "resumed"},
          stage : Stages \cup {"verify", "handoff"}, reuse : SUBSET Stages, prev : Nat,
          gate : {"none", "passed", "failed"}, number : Nat, resumed : BOOLEAN]

Typed ==
  /\ files \in Seq(Files) /\ listing \in Seq(1..Len(files)) /\ spoiled \subseteq 1..Len(files)
  /\ begun \in [Stages -> SUBSET Nat] /\ reports \in [Stages -> Nat]
  /\ indexed \in [Stages -> Nat] /\ safe \in [Stages -> BOOLEAN] /\ made \in [Stages -> Nat]
  /\ proc \in Procs /\ runs \in Nat

\* Where the process is, and what it finds in a new run.
AtStage ==
  /\ proc.pc \in {"report", "index"} => proc.stage \in Stages
  /\ proc.pc = "stage" => proc.stage \in Stages \cup {"verify"}
  /\ proc.pc \in {"checkpoint", "list", "finish", "resumed"} => proc.gate # "none"
  /\ proc.pc = "recheck" => proc.stage = "verify"
  /\ proc.pc = "resumed" => proc.stage = "handoff"
  /\ runs = 0 => /\ ~Active /\ listing = <<>> /\ files = <<>>
                 /\ \A s \in Stages : reports[s] = 0 /\ indexed[s] = 0

\* The numbers: attempts come before reports, an invocation before its resume report.
Numbered ==
  /\ runs <= MaxRuns /\ resumes \in Nat /\ resumes <= runs
  /\ Active => runs > 0 /\ resumes < runs
  /\ \A n \in DOMAIN files : files[n].gate # "none" /\ files[n].run \in 1..MaxRuns
  /\ \A s \in Stages : 1..reports[s] \subseteq begun[s]
  /\ proc.pc = "report" => reports[proc.stage] + 1 \in begun[proc.stage]

\* The chain: the process holds the last listed checkpoint, or has just linked to it.
Tip == IF listing = <<>> THEN 0 ELSE listing[Len(listing)]
Chained ==
  /\ IndexSound
  /\ proc.prev = IF Active THEN Tip ELSE 0
  /\ proc.pc = "list" =>
       /\ proc.number = Len(files) /\ proc.number > Tip /\ proc.number \notin spoiled
       /\ files[proc.number].prev = Tip /\ files[proc.number].stage = proc.stage
       /\ files[proc.number].gate = proc.gate /\ files[proc.number].run = runs

\* The stages before this one have their checkpoints, those after it no outputs.
Reached(k) == \A j \in 1..(k - 1) : Order[j] \in Checked
Ahead(j) == Order[j] \in proc.reuse \/ (Order[j] \notin Checked /\ indexed[Order[j]] = 0)
Placed ==
  /\ \A s \in Stages : made[s] = IF indexed[s] > 0 THEN 1 ELSE 0
  /\ \A s \in Stages : indexed[s] <= reports[s]
  /\ \A k \in 1..4 : indexed[Order[k]] > 0 => Reached(k)
  /\ \A s \in Stages \cap Checked : safe[s] /\ indexed[s] = reports[s]
  /\ Active => proc.reuse \subseteq Checked
  /\ proc.pc \in {"stage", "report", "index"} =>
       \A k \in 1..5 : proc.stage = Order[k] =>
         Reached(k) /\ \A j \in 1..4 : j >= k => Ahead(j)
  /\ proc.pc \in {"report", "index"} => proc.stage \notin proc.reuse
  /\ proc.pc = "index" => reports[proc.stage] > 0
  /\ proc.pc \in {"checkpoint", "list"} =>
       \A k \in 1..4 : proc.stage = Order[k] =>
         /\ Reached(k) /\ \A j \in 1..4 : j > k => Ahead(j)
         /\ safe[proc.stage] /\ indexed[proc.stage] = reports[proc.stage]

\* What the process has passed on its way to the handoff.
VerifiedNow == \E i \in DOMAIN listing :
                 files[listing[i]].stage = "verify" /\ files[listing[i]].run = runs
Sound == \A i \in DOMAIN listing :
           listing[i] \notin spoiled /\ files[listing[i]].gate = "passed"
Passed ==
  /\ Active /\ ~(proc.pc = "resumed" /\ proc.gate = "failed") => Sound
  /\ proc.pc \in {"checkpoint", "list"} /\ proc.stage # "handoff" => proc.gate = "passed"
  /\ proc.stage = "verify" => Stages \subseteq Checked
  /\ proc.pc = "recheck" => VerifiedNow
  /\ proc.pc = "finish" /\ proc.gate = "passed" => Stages \subseteq Checked /\ VerifiedNow
  /\ proc.pc \in {"checkpoint", "list", "resumed"} /\ proc.stage = "handoff"
       /\ proc.gate = "passed" => Stages \subseteq Checked /\ VerifiedNow
  /\ ended = "ready" => ~Active
  /\ ReadyRests

IInv == Typed /\ AtStage /\ Numbered /\ Chained /\ Placed /\ Passed

-----------------------------------------------------------------------------
(* The process that Resume leaves: at the first stage, or not started. *)
LEMMA ResumeProc ==
  Resume => \/ /\ Resumable /\ ended' = "none"
               /\ proc'.pc = "stage" /\ proc'.stage = "base" /\ proc'.gate = "none"
               /\ proc'.reuse = Reusable /\ proc'.prev = Last(listing)
            \/ proc' = Idle /\ ended' = "refused"
<1>1. Resume /\ Resumable =>
        /\ ended' = "none"
        /\ proc'.pc = "stage" /\ proc'.stage = "base" /\ proc'.gate = "none"
        /\ proc'.reuse = Reusable /\ proc'.prev = Last(listing)
  BY DEF Resume, Idle
<1>2. Resume /\ ~Resumable => proc' = Idle /\ ended' = "refused"
  BY DEF Resume
<1> QED
  BY <1>1, <1>2

LEMMA InitHolds == Init => IInv
  BY ControllerAssumption
  DEF Init, IInv, Typed, AtStage, Procs, Numbered, Chained, Placed, Passed, Active, Idle, IndexSound, Linked,
      Tip, Reached, Ahead, Checked, Order, Stages, VerifiedNow, Sound, ReadyRests, Files

(* The process moves on to another point, and with another verdict. *)
LEMMA ProcMoves ==
  ASSUME proc \in Procs,
         NEW p \in {"idle", "stage", "report", "index", "checkpoint", "list", "recheck",
                    "finish", "resumed"},
         NEW g \in {"none", "passed", "failed"}
  PROVE  [proc EXCEPT !.pc = p] \in Procs /\ [proc EXCEPT !.pc = p, !.gate = g] \in Procs
  BY DEF Procs

LEMMA TypedKept == IInv /\ [Next]_vars => Typed'
<1> SUFFICES ASSUME IInv, [Next]_vars PROVE Typed'
  OBVIOUS
<1>a. Typed
  BY DEF IInv
<1> DEFINE Kept == UNCHANGED <<files, listing, begun, reports, indexed, safe, spoiled, made, runs>>
<1>k. ASSUME Kept, proc' \in Procs PROVE Typed'
  BY <1>a, <1>k DEF Typed
<1>i. Idle \in Procs
  BY DEF Idle, Procs, Stages
<1>1. CASE Start
  <2>1. proc' \in Procs
    BY <1>i, <1>1 DEF Start, Procs
  <2> QED
    BY <1>a, <1>1, <2>1 DEF Start, disk, Typed
<1>2. CASE Resume
  <2>1. Reusable \subseteq Stages
    BY DEF Reusable, Order, Stages
  <2>2. Resumable => Last(listing) \in Nat
    <3>1. Resumable => listing # <<>>
      BY DEF Resumable, Verified
    <3> QED
      BY <1>a, <3>1 DEF Typed, Last
  <2>3. proc' \in Procs
    <3>1. CASE Resumable
      <4>1. proc' = [Idle EXCEPT !.pc = "stage", !.reuse = Reusable, !.resumed = TRUE,
                                 !.prev = Last(listing)]
        BY <1>2, <3>1 DEF Resume
      <4> QED
        BY <1>i, <2>1, <2>2, <3>1, <4>1 DEF Procs
    <3>2. CASE ~Resumable
      BY <1>2, <1>i, <3>2 DEF Resume
    <3> QED
      BY <3>1, <3>2
  <2> QED
    BY <1>a, <1>2, <2>3 DEF Resume, disk, Typed
<1>3. CASE Reuse
  <2>1. proc.stage \in Stages => Following[proc.stage] \in Stages \cup {"verify"}
    BY DEF Following, Order, Stages
  <2>2. proc' \in Procs
    BY <1>a, <1>3, <2>1 DEF Reuse, Typed, Procs
  <2> QED
    BY <1>3, <1>k, <2>2 DEF Reuse, disk, counters
<1>4. CASE Begin
  <2>1. proc' \in Procs
    BY <1>a, <1>4, ProcMoves DEF Begin, Block, Typed
  <2>2. begun' \in [Stages -> SUBSET Nat]
    <3> DEFINE more == begun[proc.stage] \cup {reports[proc.stage] + 1}
    <3>1. more \in SUBSET Nat
      BY <1>a, <1>4 DEF Begin, Typed
    <3>2. begun' = begun \/ begun' = [begun EXCEPT ![proc.stage] = more]
      BY <1>4 DEF Begin
    <3> HIDE DEF more
    <3> QED
      BY <1>a, <3>1, <3>2 DEF Typed
  <2> QED
    BY <1>a, <1>4, <2>1, <2>2 DEF Begin, counters, Typed
<1>5. CASE StageFails
  <2>1. proc' \in Procs
    BY <1>a, <1>5, ProcMoves DEF StageFails, Block, Typed
  <2> QED
    BY <1>5, <1>k, <2>1 DEF StageFails, disk
<1>6. CASE WriteReport
  <2>1. proc' \in Procs
    BY <1>a, <1>6, ProcMoves DEF WriteReport, Typed
  <2>2. reports' \in [Stages -> Nat] /\ safe' \in [Stages -> BOOLEAN]
    <3>1. proc.stage \in Stages /\ reports[proc.stage] + 1 \in Nat
      BY <1>a, <1>6 DEF WriteReport, Typed, IInv, AtStage
    <3> QED
      BY <1>a, <1>6, <3>1 DEF WriteReport, Typed
  <2> QED
    <3>1. UNCHANGED <<files, listing, begun, indexed, spoiled, made, runs>>
      BY <1>6 DEF WriteReport
    <3> QED
      BY <1>a, <2>1, <2>2, <3>1 DEF Typed
<1>7. CASE WriteStageIndex
  <2>1. proc' \in Procs
    BY <1>a, <1>7, ProcMoves DEF WriteStageIndex, Block, Typed
  <2>2. proc.stage \in Stages
    BY <1>7 DEF WriteStageIndex, IInv, AtStage
  <2>3. indexed' \in [Stages -> Nat] /\ made' \in [Stages -> Nat]
    BY <1>a, <1>7, <2>2 DEF WriteStageIndex, Typed
  <2> QED
    <3>1. UNCHANGED <<files, listing, begun, reports, safe, spoiled, runs>>
      BY <1>7 DEF WriteStageIndex
    <3> QED
      BY <1>a, <2>1, <2>3, <3>1 DEF Typed
<1>8. CASE VerifyBundle
  <2>1. proc' \in Procs
    BY <1>a, <1>8, ProcMoves DEF VerifyBundle, Block, Typed
  <2> QED
    BY <1>8, <1>k, <2>1 DEF VerifyBundle, disk
<1>9. CASE WriteCheckpoint
  <2>1. Checkpoint \in Files
    BY <1>a DEF Checkpoint, Files, Typed, Procs
  <2>2. files' \in Seq(Files) /\ Len(files') = Len(files) + 1
    BY <1>a, <1>9, <2>1 DEF WriteCheckpoint, Typed
  <2>3. proc' \in Procs
    <3>1. Len(files) + 1 \in Nat
      BY <1>a DEF Typed
    <3> QED
      BY <1>a, <1>9, <3>1 DEF WriteCheckpoint, Typed, Procs
  <2>4. listing \in Seq(1..Len(files')) /\ spoiled \subseteq 1..Len(files')
    BY <1>a, <2>2 DEF Typed
  <2> QED
    BY <1>a, <1>9, <2>2, <2>3, <2>4 DEF WriteCheckpoint, counters, Typed
<1>10. CASE WriteCheckpointIndex
  <2>1. proc.stage \in Stages => Following[proc.stage] \in Stages \cup {"verify"}
    BY DEF Following, Order, Stages
  <2>2. proc' \in Procs
    BY <1>a, <1>10, <2>1 DEF WriteCheckpointIndex, Typed, Procs
  <2>3. proc.number \in 1..Len(files)
    BY <1>a, <1>10 DEF WriteCheckpointIndex, IInv, Chained, Typed, Procs, Tip
  <2>4. listing' \in Seq(1..Len(files))
    BY <1>a, <1>10, <2>3 DEF WriteCheckpointIndex, Typed
  <2> QED
    <3>1. UNCHANGED <<files, begun, reports, indexed, safe, spoiled, made, runs>>
      BY <1>10 DEF WriteCheckpointIndex, counters
    <3> QED
      BY <1>a, <2>2, <2>4, <3>1 DEF Typed
<1>11. CASE Recheck
  <2>1. proc' \in Procs
    BY <1>a, <1>11, ProcMoves DEF Recheck, Block, Typed
  <2> QED
    BY <1>11, <1>k, <2>1 DEF Recheck, disk
<1>12. CASE Finish
  <2>1. proc' \in Procs
    BY <1>a, <1>12 DEF Finish, Typed, Procs
  <2> QED
    BY <1>12, <1>k, <2>1 DEF Finish, disk, counters
<1>13. CASE End
  BY <1>a, <1>i, <1>13 DEF End, counters, Typed
<1>14. CASE Kill
  BY <1>a, <1>i, <1>14 DEF Kill, disk, Typed
<1>15. CASE Spoil
  <2>1. DOMAIN files = 1..Len(files)
    BY <1>a DEF Typed
  <2>2. spoiled' \subseteq 1..Len(files)
    BY <1>a, <1>15, <2>1 DEF Spoil, Typed
  <2> QED
    BY <1>a, <1>15, <2>2 DEF Spoil, Typed
<1>16. CASE UNCHANGED vars
  BY <1>a, <1>16 DEF vars, disk, counters, Typed
<1> QED
  BY <1>1, <1>2, <1>3, <1>4, <1>5, <1>6, <1>7, <1>8, <1>9, <1>10, <1>11, <1>12, <1>13,
     <1>14, <1>15, <1>16 DEF Next

LEMMA AtStageKept == IInv /\ [Next]_vars => AtStage'
<1> SUFFICES ASSUME IInv, [Next]_vars PROVE AtStage'
  OBVIOUS
<1>a. Typed /\ AtStage
  BY DEF IInv
<1> USE <1>a DEF AtStage, Active
<1>1. CASE Start
  BY <1>1 DEF Start, Idle, disk, Typed, Stages
<1>2. CASE Resume
  <2>1. proc'.stage = "base" /\ proc'.pc \in {"idle", "stage"}
    BY <1>2, ResumeProc DEF Idle
  <2>2. runs' = runs + 1 /\ runs \in 1..(MaxRuns - 1) /\ UNCHANGED disk
    BY <1>2 DEF Resume
  <2> QED
    <3>1. runs' # 0
      BY <2>2 DEF Typed
    <3> QED
      BY <2>1, <3>1 DEF Stages
<1>3. CASE Reuse
  <2>1. proc.stage \in Stages => Following[proc.stage] \in Stages \cup {"verify"}
    BY DEF Following, Order, Stages
  <2> QED
    BY <1>3, <2>1 DEF Reuse, disk, counters, Typed, Procs
<1>4. CASE Begin
  BY <1>4 DEF Begin, Block, counters, Typed, Procs
<1>5. CASE StageFails
  BY <1>5 DEF StageFails, Block, disk, Typed, Procs
<1>6. CASE WriteReport
  BY <1>6 DEF WriteReport, Typed, Procs
<1>7. CASE WriteStageIndex
  BY <1>7 DEF WriteStageIndex, Block, Typed, Procs
<1>8. CASE VerifyBundle
  BY <1>8 DEF VerifyBundle, Block, disk, Typed, Procs
<1>9. CASE WriteCheckpoint
  BY <1>9 DEF WriteCheckpoint, counters, Typed, Procs
<1>10. CASE WriteCheckpointIndex
  <2>1. proc.stage \in Stages => Following[proc.stage] \in Stages \cup {"verify"}
    BY DEF Following, Order, Stages
  <2> QED
    BY <1>10, <2>1 DEF WriteCheckpointIndex, counters, Typed, Procs, Stages
<1>11. CASE Recheck
  BY <1>11 DEF Recheck, Block, disk, Typed, Procs
<1>12. CASE Finish
  BY <1>12 DEF Finish, disk, counters, Typed, Procs
<1>13. CASE End
  BY <1>13 DEF End, counters, Idle, Typed, Procs
<1>14. CASE Kill
  BY <1>14 DEF Kill, disk, Idle, Typed, Procs
<1>15. CASE Spoil
  BY <1>15 DEF Spoil, Typed, Procs
<1>16. CASE UNCHANGED vars
  BY <1>16 DEF vars, disk, counters
<1> QED
  BY <1>1, <1>2, <1>3, <1>4, <1>5, <1>6, <1>7, <1>8, <1>9, <1>10, <1>11, <1>12, <1>13,
     <1>14, <1>15, <1>16 DEF Next

LEMMA NumberedKept == IInv /\ [Next]_vars => Numbered'
<1> SUFFICES ASSUME IInv, [Next]_vars PROVE Numbered'
  OBVIOUS
<1>a. Typed /\ AtStage /\ Numbered /\ MaxRuns \in Nat \ {0}
  BY ControllerAssumption DEF IInv
<1> DEFINE Same == UNCHANGED <<files, begun, reports, resumes, runs>>
<1>k. ASSUME Same, Active, proc'.pc # "report" PROVE Numbered'
  BY <1>a, <1>k DEF Numbered, Active
<1>1. CASE Start
  BY <1>a, <1>1 DEF Start, Idle, disk, Typed, Numbered, Active
<1>2. CASE Resume
  <2>1. proc'.stage = "base" /\ proc'.pc \in {"idle", "stage"}
    BY <1>2, ResumeProc DEF Idle
  <2>2. runs' = runs + 1 /\ runs \in 1..(MaxRuns - 1) /\ UNCHANGED disk
    BY <1>2 DEF Resume
  <2> QED
    <3>1. runs' = runs + 1 /\ runs' <= MaxRuns /\ runs \in Nat
      BY <1>a, <2>2 DEF Typed
    <3>2. UNCHANGED <<files, begun, reports, resumes>>
      BY <2>2 DEF disk
    <3> QED
      BY <1>a, <2>1, <3>1, <3>2 DEF Numbered, Active
<1>3. CASE Reuse
  BY <1>a, <1>k, <1>3 DEF Reuse, disk, counters, Typed, Procs, Active
<1>4. CASE Begin
  <2>1. \A s \in Stages : begun[s] \subseteq begun'[s]
    <3>1. \/ begun' = begun
          \/ begun' = [begun EXCEPT ![proc.stage] = @ \cup {reports[proc.stage] + 1}]
      BY <1>4 DEF Begin
    <3>2. begun \in [Stages -> SUBSET Nat]
      BY <1>a DEF Typed
    <3> QED
      BY <3>1, <3>2
  <2>4. proc.stage \in Stages /\ proc.pc = "stage"
    BY <1>4 DEF Begin
  <2>5. \/ proc' = [proc EXCEPT !.pc = "finish", !.gate = "failed"]
        \/ /\ proc' = [proc EXCEPT !.pc = "report"]
           /\ begun' = [begun EXCEPT ![proc.stage] = @ \cup {reports[proc.stage] + 1}]
    BY <1>4 DEF Begin, Block
  <2>2. proc'.pc = "report" => proc'.stage = proc.stage
                              /\ reports[proc.stage] + 1 \in begun'[proc.stage]
    <3>1. CASE proc' = [proc EXCEPT !.pc = "finish", !.gate = "failed"]
      BY <1>a, <3>1 DEF Typed, Procs
    <3>2. CASE /\ proc' = [proc EXCEPT !.pc = "report"]
               /\ begun' = [begun EXCEPT ![proc.stage] = @ \cup {reports[proc.stage] + 1}]
      <4>1. proc'.stage = proc.stage
        BY <1>a, <3>2 DEF Typed, Procs
      <4>2. begun'[proc.stage] = begun[proc.stage] \cup {reports[proc.stage] + 1}
        BY <1>a, <2>4, <3>2 DEF Typed
      <4> QED
        BY <4>1, <4>2
    <3> QED
      BY <2>5, <3>1, <3>2
  <2>3. proc'.pc \in {"report", "finish"}
    BY <1>a, <1>4 DEF Begin, Block, Typed, Procs
  <2> QED
    BY <1>a, <1>4, <2>1, <2>2, <2>3 DEF Begin, counters, Numbered, Active
<1>5. CASE StageFails
  BY <1>a, <1>k, <1>5 DEF StageFails, Block, disk, Typed, Procs, Active
<1>6. CASE WriteReport
  <2>1. proc.stage \in Stages /\ Active /\ proc'.pc = "index"
    BY <1>a, <1>6 DEF WriteReport, AtStage, Active, Typed, Procs
  <2>2. \A s \in Stages : 1..reports'[s] \subseteq begun[s]
    BY <1>a, <1>6, <2>1 DEF WriteReport, Typed, Numbered
  <2> QED
    BY <1>a, <1>6, <2>1, <2>2 DEF WriteReport, Numbered, Active
<1>7. CASE WriteStageIndex
  BY <1>a, <1>k, <1>7 DEF WriteStageIndex, Block, Typed, Procs, Active
<1>8. CASE VerifyBundle
  BY <1>a, <1>k, <1>8 DEF VerifyBundle, Block, disk, Typed, Procs, Active
<1>9. CASE WriteCheckpoint
  <2>1. Active /\ proc'.pc = "list"
    BY <1>a, <1>9 DEF WriteCheckpoint, Active, Typed, Procs
  <2>2. Checkpoint.gate # "none" /\ Checkpoint.run \in 1..MaxRuns
    BY <1>a, <1>9, <2>1 DEF WriteCheckpoint, Checkpoint, AtStage, Numbered, Typed
  <2>3. \A n \in DOMAIN files' : files'[n] = Checkpoint \/ (n \in DOMAIN files /\ files'[n] = files[n])
    BY <1>a, <1>9 DEF WriteCheckpoint, Typed
  <2> QED
    BY <1>a, <1>9, <2>1, <2>2, <2>3 DEF WriteCheckpoint, counters, Numbered, Active
<1>10. CASE WriteCheckpointIndex
  BY <1>a, <1>k, <1>10 DEF WriteCheckpointIndex, counters, Typed, Procs, Active
<1>11. CASE Recheck
  BY <1>a, <1>k, <1>11 DEF Recheck, Block, disk, Typed, Procs, Active
<1>12. CASE Finish
  BY <1>a, <1>k, <1>12 DEF Finish, disk, counters, Typed, Procs, Active
<1>13. CASE End
  BY <1>a, <1>13 DEF End, counters, Idle, Typed, Procs, Numbered, Active
<1>14. CASE Kill
  BY <1>a, <1>k, <1>14 DEF Kill, disk, Idle, Active
<1>15. CASE Spoil
  BY <1>a, <1>15 DEF Spoil, Numbered, Active
<1>16. CASE UNCHANGED vars
  BY <1>a, <1>16 DEF vars, disk, counters, Numbered, Active
<1> QED
  BY <1>1, <1>2, <1>3, <1>4, <1>5, <1>6, <1>7, <1>8, <1>9, <1>10, <1>11, <1>12, <1>13,
     <1>14, <1>15, <1>16 DEF Next

(* What is on disk of the chain stays as it is under every step but two. *)
LEMMA ChainedKept == IInv /\ [Next]_vars => Chained'
<1> SUFFICES ASSUME IInv, [Next]_vars PROVE Chained'
  OBVIOUS
<1>a. Typed /\ AtStage /\ Chained /\ DOMAIN files = 1..Len(files)
      /\ DOMAIN listing = 1..Len(listing) /\ Tip \in 0..Len(files)
  BY DEF IInv, Typed, Tip
<1> DEFINE Same == UNCHANGED <<files, listing>>
<1>s. ASSUME Same PROVE IndexSound' /\ Tip' = Tip
  BY <1>a, <1>s DEF Chained, IndexSound, Linked, Tip
<1>k. ASSUME Same, Active, proc'.pc \notin {"list", "idle"}, proc'.prev = proc.prev PROVE Chained'
  BY <1>a, <1>k, <1>s DEF Chained, Active
<1>i. ASSUME Same, proc' = Idle PROVE Chained'
  BY <1>a, <1>i, <1>s DEF Chained, Active, Idle
<1>1. CASE Start
  BY <1>a, <1>s, <1>1 DEF Start, Idle, disk, AtStage, Active, Chained, Tip
<1>2. CASE Resume
  <2>1. CASE Resumable /\ proc'.pc = "stage" /\ proc'.prev = Last(listing)
    <3>1. proc'.prev = Tip
      BY <2>1 DEF Resumable, Verified, Last, Tip
    <3> QED
      BY <1>2, <1>s, <2>1, <3>1 DEF Resume, disk, Chained, Active
  <2> QED
    BY <1>2, <1>i, <2>1, ResumeProc DEF Resume, disk
<1>3. CASE Reuse
  BY <1>a, <1>k, <1>3 DEF Reuse, disk, counters, Typed, Procs, Active
<1>4. CASE Begin
  <2>1. proc'.pc \in {"report", "finish"} /\ proc'.prev = proc.prev
    BY <1>a, <1>4 DEF Begin, Block, Typed, Procs
  <2> QED
    BY <1>k, <1>4, <2>1 DEF Begin, Active
<1>5. CASE StageFails
  BY <1>a, <1>k, <1>5 DEF StageFails, Block, disk, Typed, Procs, Active
<1>6. CASE WriteReport
  BY <1>a, <1>k, <1>6 DEF WriteReport, Typed, Procs, Active
<1>7. CASE WriteStageIndex
  BY <1>a, <1>k, <1>7 DEF WriteStageIndex, Block, Typed, Procs, Active
<1>8. CASE VerifyBundle
  BY <1>a, <1>k, <1>8 DEF VerifyBundle, Block, disk, Typed, Procs, Active
<1>9. CASE WriteCheckpoint
  <2>1. /\ proc'.pc = "list" /\ proc.prev = Tip /\ proc'.prev = proc.prev /\ proc'.stage = proc.stage
        /\ proc'.gate = proc.gate /\ proc'.number = Len(files) + 1 /\ runs' = runs
        /\ files' = Append(files, Checkpoint) /\ listing' = listing /\ spoiled' = spoiled
    BY <1>a, <1>9 DEF WriteCheckpoint, counters, Active, Chained, Typed, Procs
  <2>2. Len(files') = Len(files) + 1 /\ files'[Len(files) + 1] = Checkpoint
        /\ (\A n \in 1..Len(files) : files'[n] = files[n])
        /\ DOMAIN files' = 1..(Len(files) + 1)
    BY <1>a, <2>1 DEF Typed
  <2>3. \A i \in DOMAIN listing : listing[i] \in 1..Len(files)
    BY <1>a DEF Typed
  <2>4. IndexSound' /\ Tip' = Tip
    BY <1>a, <2>1, <2>2, <2>3 DEF Chained, IndexSound, Linked, Tip
  <2> QED
    BY <1>a, <2>1, <2>2, <2>4 DEF Chained, Checkpoint, Typed, Active
<1>10. CASE WriteCheckpointIndex
  <2>1. /\ proc'.pc \notin {"list", "idle"} /\ proc'.prev = proc.number
        /\ proc.number = Len(files) /\ proc.number > Tip /\ files[proc.number].prev = Tip
        /\ files' = files /\ listing' = Append(listing, proc.number)
    BY <1>a, <1>10 DEF WriteCheckpointIndex, Active, Chained, Typed, Procs
  <2>2. Len(listing') = Len(listing) + 1 /\ listing'[Len(listing) + 1] = proc.number
        /\ (\A i \in 1..Len(listing) : listing'[i] = listing[i])
        /\ DOMAIN listing' = 1..(Len(listing) + 1) /\ Len(listing) \in Nat
    BY <1>a, <2>1 DEF Typed
  <2>3. proc.number \in DOMAIN files
    BY <1>a, <2>1
  <2>4. Linked'
    BY <1>a, <2>1, <2>2, <2>3 DEF Chained, IndexSound, Linked, Tip
  <2>5. \A i \in 2..Len(listing') : listing'[i - 1] < listing'[i]
    BY <1>a, <2>1, <2>2 DEF Chained, IndexSound, Tip
  <2>6. Tip' = proc.number
    BY <2>2 DEF Tip
  <2> QED
    BY <2>1, <2>4, <2>5, <2>6 DEF Chained, IndexSound, Active
<1>11. CASE Recheck
  BY <1>a, <1>k, <1>11 DEF Recheck, Block, disk, Typed, Procs, Active
<1>12. CASE Finish
  BY <1>a, <1>k, <1>12 DEF Finish, disk, counters, Typed, Procs, Active
<1>13. CASE End
  BY <1>13, <1>i DEF End
<1>14. CASE Kill
  BY <1>14, <1>i DEF Kill, disk
<1>15. CASE Spoil
  BY <1>a, <1>15, <1>s DEF Spoil, Chained, Active
<1>16. CASE UNCHANGED vars
  BY <1>a, <1>16, <1>s DEF vars, disk, counters, Chained, Active
<1> QED
  BY <1>1, <1>2, <1>3, <1>4, <1>5, <1>6, <1>7, <1>8, <1>9, <1>10, <1>11, <1>12, <1>13,
     <1>14, <1>15, <1>16 DEF Next

(* A checkpoint that is not listed yet is not looked at; listing it adds its stage. *)
LEMMA CheckedKept ==
  ASSUME IInv, [Next]_vars
  PROVE  /\ WriteCheckpointIndex => Checked' = Checked \cup {proc.stage}
         /\ ~WriteCheckpointIndex => Checked' = Checked /\ listing' = listing
<1>a. Typed /\ Chained /\ DOMAIN files = 1..Len(files) /\ DOMAIN listing = 1..Len(listing)
      /\ \A i \in DOMAIN listing : listing[i] \in 1..Len(files)
  BY DEF IInv, Typed
<1>1. ASSUME UNCHANGED <<files, listing>> PROVE Checked' = Checked
  BY <1>1 DEF Checked
<1>2. ASSUME WriteCheckpointIndex PROVE Checked' = Checked \cup {proc.stage}
  <2>1. /\ files' = files /\ listing' = Append(listing, proc.number)
        /\ files[proc.number].stage = proc.stage
    BY <1>a, <1>2 DEF WriteCheckpointIndex, Chained
  <2>2. Len(listing) \in Nat /\ listing'[Len(listing) + 1] = proc.number
        /\ (\A i \in 1..Len(listing) : listing'[i] = listing[i])
        /\ DOMAIN listing' = 1..(Len(listing) + 1)
    BY <1>a, <2>1 DEF Typed
  <2> QED
    BY <1>a, <2>1, <2>2 DEF Checked
<1>3. ASSUME WriteCheckpoint PROVE Checked' = Checked /\ listing' = listing
  <2>1. files' = Append(files, Checkpoint) /\ listing' = listing
    BY <1>3 DEF WriteCheckpoint
  <2>2. \A n \in 1..Len(files) : files'[n] = files[n]
    BY <1>a, <2>1 DEF Typed
  <2> QED
    BY <1>a, <2>1, <2>2 DEF Checked
<1>4. ~WriteCheckpoint /\ ~WriteCheckpointIndex => UNCHANGED <<files, listing>>
  BY DEF Next, Start, Resume, Reuse, Begin, StageFails, WriteReport, WriteStageIndex,
     VerifyBundle, Recheck, Finish, End, Kill, Spoil, vars, disk
<1> QED
  BY <1>1, <1>2, <1>3, <1>4

LEMMA OrderFacts ==
  /\ Order[1] = "base" /\ Order[2] = "loop" /\ Order[3] = "manuscript"
  /\ Order[4] = "bundle" /\ Order[5] = "verify"
  /\ \A s \in Stages : \E k \in 1..4 : s = Order[k]
  /\ \A k \in 1..4 : Order[k] \in Stages
  /\ \A j, k \in 1..5 : Order[j] = Order[k] => j = k
  BY DEF Order, Stages

LEMMA FollowingFacts == \A k \in 1..4 : Following[Order[k]] = Order[k + 1]
  BY OrderFacts DEF Following

(* Resume reuses the stages that have their checkpoints, and no other has outputs. *)
LEMMA ResumeReuses ==
  ASSUME IInv, Resumable
  PROVE  /\ Reusable = Checked \cap Stages
         /\ \A j \in 1..4 : Order[j] \in Reusable \/ (Order[j] \notin Checked /\ indexed[Order[j]] = 0)
<1>1. Reusable = Checked \cap Stages
  BY DEF Resumable
<1>2. \A j \in 1..4 : Order[j] \in Reusable <=> \A m \in 1..j : Order[m] \in Checked
  BY OrderFacts DEF Reusable
<1>3. ASSUME NEW j \in 1..4, Order[j] \notin Checked, indexed[Order[j]] > 0 PROVE FALSE
  <2>1. Reached(j)
    BY <1>3 DEF IInv, Placed
  <2>2. \A m \in 1..4 : Order[m] \in Reusable <=> m < j
    BY <1>2, <1>3, <2>1 DEF Reached
  <2>3. Reusable = {Order[m] : m \in 1..(j - 1)}
    <3>1. ASSUME NEW s \in Reusable PROVE s \in {Order[m] : m \in 1..(j - 1)}
      <4>1. PICK m \in 1..4 : s = Order[m]
        BY <1>1, OrderFacts
      <4> QED
        BY <4>1, <2>2
    <3>2. \A m \in 1..(j - 1) : Order[m] \in Reusable
      BY <2>2
    <3> QED
      BY <3>1, <3>2
  <2>4. ~OutputExists(Order[j])
    BY <2>3 DEF Resumable
  <2>5. Order[j] \in Stages /\ indexed[Order[j]] <= reports[Order[j]]
        /\ indexed[Order[j]] \in Nat /\ reports[Order[j]] \in Nat
    BY OrderFacts DEF IInv, Placed, Typed
  <2> QED
    BY <1>3, <2>4, <2>5 DEF OutputExists
<1>4. \A j \in 1..4 : Order[j] \in Stages /\ indexed[Order[j]] \in Nat
  BY OrderFacts DEF IInv, Typed
<1> QED
  BY <1>1, <1>3, <1>4

(* Where the process is on the way, from the stage's number: what it has behind it. *)
Way(k, from) == Reached(k) /\ \A j \in 1..4 : j >= from => Ahead(j)

LEMMA PlacedKept == IInv /\ [Next]_vars => Placed'
<1> SUFFICES ASSUME IInv, [Next]_vars PROVE Placed'
  OBVIOUS
<1>a. Typed /\ AtStage /\ Placed
  BY DEF IInv
<1> DEFINE Same == UNCHANGED <<reports, indexed, safe, made>>
           Outputs == /\ \A s \in Stages : made[s] = IF indexed[s] > 0 THEN 1 ELSE 0
                      /\ \A s \in Stages : indexed[s] <= reports[s]
                      /\ \A k \in 1..4 : indexed[Order[k]] > 0 => Reached(k)
                      /\ \A s \in Stages \cap Checked : safe[s] /\ indexed[s] = reports[s]
<1>s. ASSUME Same, Checked' = Checked PROVE Outputs' /\ \A k \in 1..5 : Reached(k) => Reached(k)'
  BY <1>a, <1>s DEF Placed, Reached
<1>w. ASSUME Same, Checked' = Checked, proc'.reuse = proc.reuse
      PROVE  \A k, from \in 1..5 : Way(k, from) => Way(k, from)'
  BY <1>w DEF Way, Reached, Ahead
<1>i. ASSUME Same, Checked' = Checked, proc' = Idle PROVE Placed'
  BY <1>i, <1>s DEF Placed, Active, Idle
<1>f. ASSUME Same, Checked' = Checked, Active, proc'.reuse = proc.reuse,
             proc'.pc \in {"finish", "recheck", "resumed"}
      PROVE  Placed'
  BY <1>a, <1>f, <1>s DEF Placed, Active
<1>c. ~WriteCheckpointIndex => Checked' = Checked
  BY CheckedKept
<1>o. \A s \in Stages : \E k \in 1..4 : s = Order[k]
  BY OrderFacts
<1>1. CASE Start
  <2>1. Checked' = Checked /\ Checked = {} /\ (\A s \in Stages : indexed[s] = 0) /\ Same
    BY <1>a, <1>1, <1>c DEF Start, AtStage, Checked, disk, WriteCheckpointIndex
  <2>2. proc'.pc = "stage" /\ proc'.stage = "base" /\ proc'.reuse = {}
    BY <1>1 DEF Start, Idle
  <2>3. Way(1, 1)'
    BY <2>1, OrderFacts DEF Way, Reached, Ahead
  <2> QED
    BY <1>s, <2>1, <2>2, <2>3, OrderFacts DEF Placed, Way
<1>2. CASE Resume
  <2>1. Checked' = Checked /\ Same
    BY <1>2, <1>c DEF Resume, disk, WriteCheckpointIndex
  <2>2. CASE Resumable /\ proc'.pc = "stage" /\ proc'.stage = "base" /\ proc'.reuse = Reusable
    <3>1. Way(1, 1)'
      BY <2>1, <2>2, ResumeReuses DEF Way, Reached, Ahead
    <3> QED
      BY <1>s, <2>1, <2>2, <3>1, OrderFacts, ResumeReuses DEF Placed, Way
  <2> QED
    BY <1>2, <1>i, <2>1, <2>2, ResumeProc
<1>3. CASE Reuse
  <2>1. PICK k \in 1..4 : proc.stage = Order[k]
    BY <1>a, <1>3, <1>o DEF Reuse, Typed, Procs
  <2>2. proc'.stage = Order[k + 1] /\ proc'.pc = "stage" /\ proc'.reuse = proc.reuse
    BY <1>a, <1>3, <2>1, FollowingFacts DEF Reuse, Typed, Procs
  <2>3. Checked' = Checked /\ Same
    BY <1>3, <1>c DEF Reuse, disk, counters, WriteCheckpointIndex
  <2>4. Order[k] \in Checked
    BY <1>a, <1>3, <2>1 DEF Reuse, Placed, Active
  <2>5. Way(k + 1, k + 1)
    BY <1>a, <1>3, <2>1, <2>4 DEF Reuse, Placed, Way, Reached
  <2> QED
    BY <1>a, <1>3, <1>s, <1>w, <2>2, <2>3, <2>5, OrderFacts DEF Placed, Way, Active, Reuse
<1>4. CASE Begin
  <2>1. Checked' = Checked /\ Same /\ Active
    BY <1>4, <1>c DEF Begin, counters, WriteCheckpointIndex, Active
  <2>2. proc'.reuse = proc.reuse /\ proc'.stage = proc.stage /\ proc'.pc \in {"report", "finish"}
    BY <1>a, <1>4 DEF Begin, Block, Typed, Procs
  <2>3. proc.stage \notin proc.reuse /\ proc.pc = "stage"
    BY <1>4 DEF Begin
  <2> QED
    BY <1>a, <1>f, <1>s, <1>w, <2>1, <2>2, <2>3 DEF Placed, Way, Active
<1>5. CASE StageFails
  <2>1. Checked' = Checked /\ Same /\ Active /\ proc'.reuse = proc.reuse /\ proc'.pc = "finish"
    BY <1>a, <1>5, <1>c DEF StageFails, disk, WriteCheckpointIndex, Active, Block, Typed, Procs
  <2> QED
    BY <1>f, <2>1
<1>6. CASE WriteReport
  <2>1. /\ Checked' = Checked /\ indexed' = indexed /\ made' = made /\ proc.pc = "report"
        /\ proc'.pc = "index" /\ proc'.stage = proc.stage /\ proc'.reuse = proc.reuse
        /\ proc.stage \in Stages
    BY <1>a, <1>6, <1>c DEF WriteReport, WriteCheckpointIndex, Typed, Procs, AtStage
  <2>2. PICK k \in 1..4 : proc.stage = Order[k]
    BY <2>1, <1>o
  <2>3. Way(k, k) /\ proc.stage \notin Checked
    BY <1>a, <2>1, <2>2 DEF Placed, Way, Ahead, Active
  <2>4. /\ reports'[proc.stage] = reports[proc.stage] + 1 /\ reports[proc.stage] \in Nat
        /\ \A s \in Stages \ {proc.stage} : reports'[s] = reports[s] /\ safe'[s] = safe[s]
    BY <1>a, <1>6, <2>1 DEF WriteReport, Typed
  <2>5. Outputs'
    <3>1. \A s \in Stages : made'[s] = IF indexed'[s] > 0 THEN 1 ELSE 0
      BY <1>a, <2>1 DEF Placed
    <3>2. \A s \in Stages : indexed[s] \in Nat /\ reports[s] \in Nat
      BY <1>a DEF Typed
    <3>3. \A s \in Stages : indexed'[s] <= reports'[s]
      BY <1>a, <2>1, <2>4, <3>2 DEF Placed
    <3>4. \A n \in 1..4 : indexed'[Order[n]] > 0 => Reached(n)'
      BY <1>a, <2>1 DEF Placed, Reached
    <3>5. \A s \in Stages \cap Checked' : safe'[s] /\ indexed'[s] = reports'[s]
      BY <1>a, <2>1, <2>3, <2>4 DEF Placed
    <3> QED
      BY <3>1, <3>3, <3>4, <3>5
  <2>6. Way(k, k)'
    BY <2>1, <2>3 DEF Way, Reached, Ahead
  <2> QED
    BY <1>a, <2>1, <2>2, <2>4, <2>5, <2>6, OrderFacts DEF Placed, Way, Active
<1>7. CASE WriteStageIndex
  <2>1. /\ Checked' = Checked /\ reports' = reports /\ safe' = safe /\ proc.pc = "index"
        /\ proc'.pc \in {"checkpoint", "finish"} /\ proc'.stage = proc.stage
        /\ proc'.reuse = proc.reuse /\ proc.stage \in Stages
        /\ (proc'.pc = "checkpoint" => safe[proc.stage])
    BY <1>a, <1>7, <1>c DEF WriteStageIndex, Block, WriteCheckpointIndex, Typed, Procs, AtStage
  <2>2. PICK k \in 1..4 : proc.stage = Order[k]
    BY <2>1, <1>o
  <2>3. Way(k, k) /\ proc.stage \notin Checked /\ indexed[proc.stage] = 0
        /\ reports[proc.stage] > 0
    BY <1>a, <2>1, <2>2 DEF Placed, Way, Ahead, Active
  <2>4. /\ indexed'[proc.stage] = reports[proc.stage] /\ reports[proc.stage] \in Nat
        /\ made'[proc.stage] = made[proc.stage] + 1
        /\ \A s \in Stages \ {proc.stage} : indexed'[s] = indexed[s] /\ made'[s] = made[s]
    BY <1>a, <1>7, <2>1 DEF WriteStageIndex, Typed
  <2>5. Outputs'
    <3>1. \A s \in Stages : made'[s] = IF indexed'[s] > 0 THEN 1 ELSE 0
      BY <1>a, <2>1, <2>3, <2>4 DEF Placed
    <3>2. \A s \in Stages : indexed[s] \in Nat /\ reports[s] \in Nat
      BY <1>a DEF Typed
    <3>3. \A s \in Stages : indexed'[s] <= reports'[s]
      BY <1>a, <2>1, <2>4, <3>2 DEF Placed
    <3>4. ASSUME NEW n \in 1..4, indexed'[Order[n]] > 0 PROVE Reached(n)'
      <4>1. Reached(n)
        <5>1. CASE n = k
          BY <2>3, <5>1 DEF Way
        <5>2. CASE n # k
          <6>1. Order[n] \in Stages \ {proc.stage}
            BY <2>2, <5>2, OrderFacts
          <6> QED
            BY <1>a, <2>4, <3>4, <6>1 DEF Placed
        <5> QED
          BY <5>1, <5>2
      <4> QED
        BY <2>1, <4>1 DEF Reached
    <3>5. \A s \in Stages \cap Checked' : safe'[s] /\ indexed'[s] = reports'[s]
      BY <1>a, <2>1, <2>3, <2>4 DEF Placed
    <3> QED
      BY <3>1, <3>3, <3>4, <3>5
  <2>6. Way(k, k + 1)'
    BY <2>1, <2>2, <2>3, <2>4, OrderFacts DEF Way, Reached, Ahead
  <2> QED
    BY <1>a, <2>1, <2>2, <2>4, <2>5, <2>6, OrderFacts DEF Placed, Way, Active
<1>8. CASE VerifyBundle
  <2>1. /\ Checked' = Checked /\ Same /\ Active /\ proc'.reuse = proc.reuse
        /\ proc'.pc \in {"checkpoint", "finish"} /\ proc'.stage = "verify"
    BY <1>a, <1>8, <1>c DEF VerifyBundle, disk, WriteCheckpointIndex, Active, Block, Typed, Procs
  <2> QED
    BY <1>a, <1>s, <2>1, OrderFacts DEF Placed, Active
<1>9. CASE WriteCheckpoint
  <2>1. /\ Checked' = Checked /\ Same /\ Active /\ proc'.reuse = proc.reuse
        /\ proc.pc = "checkpoint" /\ proc'.pc = "list" /\ proc'.stage = proc.stage
    BY <1>a, <1>9, <1>c DEF WriteCheckpoint, counters, WriteCheckpointIndex, Active, Typed, Procs
  <2>2. \A k \in 1..4 : proc.stage = Order[k] => Way(k, k + 1)
    BY <1>a, <2>1 DEF Placed, Way
  <2> QED
    BY <1>a, <1>s, <1>w, <2>1, <2>2 DEF Placed, Active, Way
<1>10. CASE WriteCheckpointIndex
  <2>1. /\ Checked' = Checked \cup {proc.stage} /\ Same /\ Active /\ proc'.reuse = proc.reuse
        /\ proc.pc = "list"
    BY <1>a, <1>10, CheckedKept DEF WriteCheckpointIndex, counters, Active, Typed, Procs
  <2>2. CASE proc.stage \notin Stages
    <3>1. proc'.pc \in {"recheck", "resumed"} /\ proc.stage \in {"verify", "handoff"}
      BY <1>a, <1>10, <2>2 DEF WriteCheckpointIndex, Typed, Procs, Stages
    <3> QED
      BY <1>a, <2>1, <2>2, <3>1 DEF Placed, Reached, Active
  <2>3. CASE proc.stage \in Stages
    <3>1. PICK k \in 1..4 : proc.stage = Order[k]
      BY <2>3, <1>o
    <3>2. proc'.pc = "stage" /\ proc'.stage = Order[k + 1]
      BY <1>a, <1>10, <2>3, <3>1, FollowingFacts DEF WriteCheckpointIndex, Typed, Procs, Stages
    <3>3. Way(k, k + 1) /\ safe[proc.stage] /\ indexed[proc.stage] = reports[proc.stage]
      BY <1>a, <2>1, <3>1 DEF Placed, Way
    <3>4. Way(k + 1, k + 1)'
      BY <2>1, <3>1, <3>3, OrderFacts DEF Way, Reached, Ahead
    <3>5. Outputs'
      BY <1>a, <2>1, <3>3 DEF Placed, Reached
    <3> QED
      BY <1>a, <2>1, <3>2, <3>4, <3>5, OrderFacts DEF Placed, Way, Active
  <2> QED
    BY <2>2, <2>3
<1>11. CASE Recheck
  <2>1. Checked' = Checked /\ Same /\ Active /\ proc'.reuse = proc.reuse /\ proc'.pc = "finish"
    BY <1>a, <1>11, <1>c DEF Recheck, disk, WriteCheckpointIndex, Active, Block, Typed, Procs
  <2> QED
    BY <1>f, <2>1
<1>12. CASE Finish
  <2>1. /\ Checked' = Checked /\ Same /\ Active /\ proc'.reuse = proc.reuse
        /\ proc'.pc = "checkpoint" /\ proc'.stage = "handoff"
    BY <1>a, <1>12, <1>c DEF Finish, disk, counters, WriteCheckpointIndex, Active, Typed, Procs
  <2> QED
    BY <1>a, <1>s, <2>1, OrderFacts DEF Placed, Active, Stages
<1>13. CASE End
  BY <1>13, <1>i, <1>c DEF End, counters, WriteCheckpointIndex
<1>14. CASE Kill
  <2>1. Checked' = Checked
    BY <1>14 DEF Kill, disk, Checked
  <2> QED
    BY <1>14, <1>i, <2>1 DEF Kill, disk
<1>15. CASE Spoil
  <2>1. Checked' = Checked /\ Same /\ proc' = proc
    BY <1>15, <1>c DEF Spoil, WriteCheckpointIndex
  <2> QED
    BY <1>a, <1>15, <1>s, <2>1 DEF Spoil, Placed, Active
<1>16. CASE UNCHANGED vars
  <2>1. Checked' = Checked /\ Same /\ proc' = proc
    BY <1>16 DEF vars, disk, counters, Checked
  <2>2. \A k, from \in 1..5 : Way(k, from) => Way(k, from)'
    BY <1>w, <2>1
  <2> QED
    BY <1>a, <1>s, <2>1, <2>2 DEF Placed, Active, Way
<1> QED
  BY <1>1, <1>2, <1>3, <1>4, <1>5, <1>6, <1>7, <1>8, <1>9, <1>10, <1>11, <1>12, <1>13,
     <1>14, <1>15, <1>16 DEF Next

LEMMA PassedKept == IInv /\ [Next]_vars => Passed'
<1> SUFFICES ASSUME IInv, [Next]_vars PROVE Passed'
  OBVIOUS
<1>a. Typed /\ AtStage /\ Passed
  BY DEF IInv
<1>d. DOMAIN files = 1..Len(files) /\ DOMAIN listing = 1..Len(listing) /\ Len(listing) \in Nat
      /\ Len(files) \in Nat /\ (\A i \in DOMAIN listing : listing[i] \in 1..Len(files))
      /\ spoiled \subseteq 1..Len(files)
  BY <1>a DEF Typed
<1> DEFINE Same == UNCHANGED <<files, listing, spoiled, runs>>
<1>s. ASSUME Same
      PROVE  (Sound => Sound') /\ (VerifiedNow => VerifiedNow') /\ Checked' = Checked
  BY <1>s DEF Sound, VerifiedNow, Checked
<1>e. ASSUME Active, ended' = ended PROVE ended' # "ready" /\ ReadyRests'
  BY <1>a, <1>e DEF Passed, ReadyRests
<1>q. ASSUME ended' # "ready", proc' = Idle PROVE Passed'
  BY <1>q DEF Passed, Active, Idle, ReadyRests
<1>f. ASSUME Same, Active, ended' = ended, proc.pc # "resumed", proc'.pc = "finish",
             proc'.gate = "failed", proc'.stage = proc.stage
      PROVE  Passed'
  BY <1>a, <1>e, <1>f, <1>s DEF Passed, Active
<1>m. ASSUME Same, Active, ended' = ended, proc.pc # "resumed",
             proc'.pc \in {"stage", "report", "index"}, proc'.stage = "verify" => proc.stage = "verify"
      PROVE  Passed'
  BY <1>a, <1>e, <1>m, <1>s DEF Passed, Active
<1>1. CASE Start
  <2>1. proc'.pc = "stage" /\ proc'.stage = "base" /\ ended' = "none"
    BY <1>1 DEF Start, Idle
  <2>2. Sound'
    BY <1>a, <1>1 DEF Start, AtStage, Sound, disk
  <2> QED
    BY <2>1, <2>2 DEF Passed, Active, ReadyRests
<1>2. CASE Resume
  <2>1. CASE Resumable /\ ended' = "none" /\ proc'.pc = "stage" /\ proc'.stage = "base"
    <3>1. \A i \in DOMAIN listing : listing[i] \notin spoiled /\ files[listing[i]].gate = "passed"
      <4>1. ASSUME NEW n \in 1..Len(files) PROVE files[n].gate \in {"passed", "failed"}
        <5>1. files[n] \in Files
          BY <1>a DEF Typed
        <5>2. files[n].gate # "none"
          BY <1>d DEF IInv, Numbered
        <5> QED
          BY <5>1, <5>2 DEF Files
      <4> QED
        BY <1>d, <2>1, <4>1 DEF Resumable, Verified
    <3>2. Sound'
      BY <1>2, <3>1 DEF Resume, disk, Sound
    <3> QED
      BY <2>1, <3>2 DEF Passed, Active, ReadyRests
  <2> QED
    BY <1>2, <1>q, <2>1, ResumeProc
<1>3. CASE Reuse
  <2>1. Same /\ Active /\ ended' = ended /\ proc'.pc = "stage" /\ proc.pc = "stage"
    BY <1>a, <1>3 DEF Reuse, disk, counters, Active, Typed, Procs
  <2>2. proc'.stage = "verify" => Stages \subseteq Checked'
    BY <2>1, PlacedKept, OrderFacts DEF Placed, Reached
  <2> QED
    BY <1>a, <1>e, <1>s, <2>1, <2>2 DEF Passed, Active
<1>4. CASE Begin
  <2>1. Same /\ Active /\ ended' = ended /\ proc.pc = "stage"
    BY <1>4 DEF Begin, counters, Active
  <2>2. \/ proc'.pc = "report" /\ proc'.stage = proc.stage
        \/ proc'.pc = "finish" /\ proc'.gate = "failed" /\ proc'.stage = proc.stage
    BY <1>a, <1>4 DEF Begin, Block, Typed, Procs
  <2> QED
    BY <1>f, <1>m, <2>1, <2>2
<1>5. CASE StageFails
  BY <1>a, <1>f, <1>5 DEF StageFails, Block, disk, Active, Typed, Procs
<1>6. CASE WriteReport
  BY <1>a, <1>m, <1>6 DEF WriteReport, Active, Typed, Procs
<1>7. CASE WriteStageIndex
  <2>1. Same /\ Active /\ ended' = ended /\ proc.pc = "index" /\ proc.stage \in Stages
    BY <1>a, <1>7 DEF WriteStageIndex, Active, AtStage
  <2>2. \/ proc'.pc = "checkpoint" /\ proc'.gate = "passed" /\ proc'.stage = proc.stage
        \/ proc'.pc = "finish" /\ proc'.gate = "failed" /\ proc'.stage = proc.stage
    BY <1>a, <1>7 DEF WriteStageIndex, Block, Typed, Procs
  <2> QED
    BY <1>a, <1>e, <1>f, <1>s, <2>1, <2>2 DEF Passed, Active, Stages
<1>8. CASE VerifyBundle
  <2>1. Same /\ Active /\ ended' = ended /\ proc.pc = "stage" /\ proc.stage = "verify"
    BY <1>8 DEF VerifyBundle, disk, Active
  <2>2. \/ proc'.pc = "checkpoint" /\ proc'.gate = "passed" /\ proc'.stage = proc.stage
        \/ proc'.pc = "finish" /\ proc'.gate = "failed" /\ proc'.stage = proc.stage
    BY <1>a, <1>8 DEF VerifyBundle, Block, Typed, Procs
  <2> QED
    BY <1>a, <1>e, <1>f, <1>s, <2>1, <2>2 DEF Passed, Active
<1>9. CASE WriteCheckpoint
  <2>1. /\ Active /\ ended' = ended /\ runs' = runs /\ listing' = listing /\ spoiled' = spoiled
        /\ proc.pc = "checkpoint" /\ proc'.pc = "list" /\ proc'.stage = proc.stage
        /\ proc'.gate = proc.gate /\ files' = Append(files, Checkpoint)
    BY <1>a, <1>9 DEF WriteCheckpoint, counters, Active, Typed, Procs
  <2>2. \A n \in 1..Len(files) : files'[n] = files[n]
    BY <1>a, <2>1 DEF Typed
  <2>3. (Sound => Sound') /\ (VerifiedNow => VerifiedNow') /\ Checked' = Checked
    BY <1>d, <2>1, <2>2 DEF Sound, VerifiedNow, Checked
  <2> QED
    BY <1>a, <1>e, <2>1, <2>3 DEF Passed, Active
<1>10. CASE WriteCheckpointIndex
  <2>1. /\ Active /\ ended' = ended /\ runs' = runs /\ files' = files /\ spoiled' = spoiled
        /\ proc.pc = "list" /\ proc'.gate = proc.gate
        /\ listing' = Append(listing, proc.number) /\ proc.number \notin spoiled
        /\ files[proc.number].stage = proc.stage /\ files[proc.number].gate = proc.gate
        /\ files[proc.number].run = runs
    BY <1>a, <1>10 DEF WriteCheckpointIndex, counters, Active, IInv, Chained, Typed, Procs
  <2>2. listing'[Len(listing) + 1] = proc.number /\ DOMAIN listing' = 1..(Len(listing) + 1)
        /\ (\A i \in 1..Len(listing) : listing'[i] = listing[i])
    BY <1>a, <2>1 DEF Typed
  <2>3. proc.gate = "passed" => Sound'
    BY <1>a, <1>d, <2>1, <2>2 DEF Passed, Sound, Active
  <2>4. VerifiedNow => VerifiedNow'
    BY <1>d, <2>1, <2>2 DEF VerifiedNow
  <2>5. proc.stage = "verify" => VerifiedNow'
    <3>1. Len(listing) + 1 \in DOMAIN listing'
      BY <1>d, <2>2
    <3>2. files'[listing'[Len(listing) + 1]] = files[proc.number]
      BY <2>1, <2>2
    <3> QED
      BY <2>1, <3>1, <3>2 DEF VerifiedNow
  <2>6. Checked \subseteq Checked'
    BY <1>10, CheckedKept
  <2>7. CASE proc.stage \in Stages
    <3>1. proc'.pc = "stage"
      BY <1>a, <1>10, <2>7 DEF WriteCheckpointIndex, Typed, Procs, Stages
    <3>2. proc'.stage = "verify" => Stages \subseteq Checked'
      BY <3>1, PlacedKept, OrderFacts DEF Placed, Reached
    <3>3. proc.gate = "passed"
      BY <1>a, <2>1, <2>7 DEF Passed, Stages
    <3> QED
      BY <1>a, <1>e, <2>1, <2>3, <3>1, <3>2, <3>3 DEF Passed, Active
  <2>8. CASE proc.stage = "verify"
    <3>1. proc'.pc = "recheck" /\ proc'.stage = "verify"
      BY <1>a, <1>10, <2>8 DEF WriteCheckpointIndex, Typed, Procs, Stages
    <3> QED
      BY <1>a, <1>e, <2>1, <2>3, <2>5, <2>6, <2>8, <3>1 DEF Passed, Active
  <2>9. CASE proc.stage = "handoff"
    <3>1. proc'.pc = "resumed" /\ proc'.stage = "handoff"
      BY <1>a, <1>10, <2>9 DEF WriteCheckpointIndex, Typed, Procs, Stages
    <3>2. proc.gate \in {"passed", "failed"}
      BY <1>a, <2>1 DEF AtStage, Typed, Procs
    <3> QED
      BY <1>a, <1>e, <2>1, <2>3, <2>4, <2>6, <2>9, <3>1, <3>2 DEF Passed, Active
  <2> QED
    BY <1>a, <2>7, <2>8, <2>9 DEF Typed, Procs
<1>11. CASE Recheck
  <2>1. Same /\ Active /\ ended' = ended /\ proc.pc = "recheck" /\ proc.stage = "verify"
    BY <1>a, <1>11 DEF Recheck, disk, Active, AtStage
  <2>2. \/ proc'.pc = "finish" /\ proc'.gate = "passed" /\ proc'.stage = proc.stage
        \/ proc'.pc = "finish" /\ proc'.gate = "failed" /\ proc'.stage = proc.stage
    BY <1>a, <1>11 DEF Recheck, Block, Typed, Procs
  <2> QED
    BY <1>a, <1>e, <1>f, <1>s, <2>1, <2>2 DEF Passed, Active
<1>12. CASE Finish
  <2>1. /\ Same /\ Active /\ ended' = ended /\ proc.pc = "finish" /\ proc'.pc = "checkpoint"
        /\ proc'.stage = "handoff" /\ proc'.gate = proc.gate
    BY <1>a, <1>12 DEF Finish, disk, counters, Active, Typed, Procs
  <2> QED
    BY <1>a, <1>e, <1>s, <2>1 DEF Passed, Active
<1>13. CASE End
  <2>1. Same /\ safe' = safe /\ indexed' = indexed /\ reports' = reports /\ proc' = Idle
        /\ Active /\ proc.pc = "resumed" /\ proc.stage = "handoff"
        /\ (ended' = "ready" => proc.gate = "passed")
    BY <1>a, <1>13 DEF End, counters, AtStage, Typed, Procs, Active
  <2>2. CASE proc.gate = "passed"
    <3>1. Sound' /\ VerifiedNow' /\ Checked' = Checked /\ Stages \subseteq Checked
      BY <1>a, <1>s, <2>1, <2>2 DEF Passed
    <3>2. \A s \in Stages : safe[s] /\ indexed[s] = reports[s]
      BY <3>1 DEF IInv, Placed
    <3>3. ReadyRests'
      BY <2>1, <3>1, <3>2 DEF ReadyRests, Sound, VerifiedNow
    <3> QED
      BY <2>1, <3>3 DEF Passed, Active, Idle
  <2> QED
    BY <1>q, <2>1, <2>2
<1>14. CASE Kill
  BY <1>14, <1>q DEF Kill
<1>15. CASE Spoil
  BY <1>a, <1>15 DEF Spoil, Passed, Active, AtStage, ReadyRests, Checked
<1>16. CASE UNCHANGED vars
  <2>1. Same /\ proc' = proc /\ ended' = ended /\ safe' = safe /\ indexed' = indexed
        /\ reports' = reports
    BY <1>16 DEF vars, disk, counters
  <2> QED
    BY <1>a, <1>s, <2>1 DEF Passed, Active, ReadyRests, Checked
<1> QED
  BY <1>1, <1>2, <1>3, <1>4, <1>5, <1>6, <1>7, <1>8, <1>9, <1>10, <1>11, <1>12, <1>13,
     <1>14, <1>15, <1>16 DEF Next

-----------------------------------------------------------------------------
LEMMA Invariant == Spec => []IInv
<1>1. IInv /\ [Next]_vars => IInv'
  BY TypedKept, AtStageKept, NumberedKept, ChainedKept, PlacedKept, PassedKept DEF IInv
<1> QED
  BY InitHolds, <1>1, PTL DEF Spec

(* The types: the state is what its declarations say, attempts come before reports and
   reports before the index that names them. *)
THEOREM Types == Spec => []TypeOK
<1>1. IInv => TypeOK
  <2> SUFFICES ASSUME IInv PROVE TypeOK
    OBVIOUS
  <2>1. Range(listing) \subseteq DOMAIN files /\ DOMAIN files = 1..Len(files) /\ Tip \in 0..Len(files)
    BY DEF IInv, Typed, Range, Tip
  <2> DEFINE Good == [stage : Stages \cup {"verify", "handoff"}, gate : {"passed", "failed"},
                      prev : Nat, run : 1..MaxRuns]
  <2>2. ASSUME NEW n \in 1..Len(files) PROVE files[n] \in Good
    <3>1. files[n] \in Files
      BY DEF IInv, Typed
    <3>2. files[n].gate # "none" /\ files[n].run \in 1..MaxRuns
      BY <2>1 DEF IInv, Numbered
    <3> QED
      BY <3>1, <3>2 DEF Files
  <2>3. files \in Seq(Good)
    <3>1. files \in [1..Len(files) -> Good] /\ Len(files) \in Nat
      BY <2>1, <2>2 DEF IInv, Typed
    <3> HIDE DEF Good
    <3> QED
      BY <3>1, SeqDef
  <2> QED
    <3>1. proc.reuse \subseteq Stages /\ proc.prev \in 0..Len(files) /\ resumes <= runs
      BY <2>1 DEF IInv, Typed, Numbered, Chained, Procs, Active
    <3>2. \A s \in Stages : indexed[s] <= reports[s] /\ 1..reports[s] \subseteq begun[s]
      BY DEF IInv, Placed, Numbered
    <3> QED
      BY <2>1, <2>3, <3>1, <3>2 DEF TypeOK, IInv, Typed
<1> QED
  BY Invariant, <1>1, PTL

(* Killed between any two files, the controller leaves an index a resume can verify. *)
THEOREM IndexStaysSound == Spec => []IndexSound
<1>1. IInv => IndexSound
  BY DEF IInv, Chained
<1> QED
  BY Invariant, <1>1, PTL

(* No stage completes its outputs twice, reused or not, its checkpoint lost or not. *)
THEOREM StagesRunOnce == Spec => []StagesOnce
<1>1. IInv => StagesOnce
  BY DEF IInv, Placed, StagesOnce
<1> QED
  BY Invariant, <1>1, PTL

(* What is handed over rests on safe stages, listed, unspoiled, and verified just now. *)
THEOREM ReadyIsEarned == Spec => []ReadyRests
<1>1. IInv => ReadyRests
  BY DEF IInv, Passed
<1> QED
  BY Invariant, <1>1, PTL

LEMMA AppendExtends ==
  ASSUME NEW S, NEW s \in Seq(S), NEW e PROVE IsPrefix(s, s) /\ IsPrefix(s, Append(s, e))
<1> DEFINE t == Append(s, e)
<1>1. Len(s) \in Nat /\ Len(t) = Len(s) + 1 /\ \A i \in 1..Len(s) : t[i] = s[i]
  OBVIOUS
<1> HIDE DEF t
<1>2. SubSeq(s, 1, Len(s)) = [i \in 1..Len(s) |-> s[i]]
  BY <1>1
<1>3. SubSeq(t, 1, Len(s)) = [i \in 1..Len(s) |-> t[i]]
  BY <1>1
<1>4. [i \in 1..Len(s) |-> t[i]] = [i \in 1..Len(s) |-> s[i]]
  BY <1>1
<1> QED
  BY <1>1, <1>2, <1>3, <1>4 DEF IsPrefix, t

(* Checkpoints are only added, and so are the numbers that the latest index lists. *)
THEOREM HistoryOnlyGrows == Spec => HistoryKept
<1>1. IInv /\ [Next]_vars => [IsPrefix(files, files') /\ IsPrefix(listing, listing')]_vars
  <2> SUFFICES ASSUME IInv, [Next]_vars
               PROVE  IsPrefix(files, files') /\ IsPrefix(listing, listing')
    OBVIOUS
  <2>1. files \in Seq(Files) /\ listing \in Seq(1..Len(files))
    BY DEF IInv, Typed
  <2>2. files' = files \/ files' = Append(files, Checkpoint)
    BY DEF Next, Start, Resume, Reuse, Begin, StageFails, WriteReport, WriteStageIndex,
       VerifyBundle, WriteCheckpoint, WriteCheckpointIndex, Recheck, Finish, End, Kill, Spoil,
       vars, disk
  <2>3. listing' = listing \/ listing' = Append(listing, proc.number)
    BY DEF Next, Start, Resume, Reuse, Begin, StageFails, WriteReport, WriteStageIndex,
       VerifyBundle, WriteCheckpoint, WriteCheckpointIndex, Recheck, Finish, End, Kill, Spoil,
       vars, disk
  <2>4. IsPrefix(files, files')
    BY <2>1, <2>2, AppendExtends
  <2>5. IsPrefix(listing, listing')
    BY <2>1, <2>3, AppendExtends
  <2> QED
    BY <2>4, <2>5
<1> QED
  BY Invariant, <1>1, PTL DEF Spec, HistoryKept
=============================================================================
