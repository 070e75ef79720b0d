-------------------------- MODULE StageOrderProofs --------------------------
(***************************************************************************)
(* In which order the files of a run come to be, for every pipeline and any  *)
(* number of kills, failures, forced reruns and resumptions: stages complete *)
(* one after the other, a complete stage is overwritten by --force only, was *)
(* computed from the latest commits of its inputs, and a kill leaves at most *)
(* one file that the ledger does not know.                                   *)
(***************************************************************************)
EXTENDS StageFilesProofs

USE DEF disk, memory, counters

\* What a stage writes is something.
NoFile == \A a, f : [attempt |-> a, from |-> f] # None

\* A stage has all its files; it has the last one; it has some.
Full(s) == \A x \in Files(s) : file[x] # None
Last(s) == Outputs[s][Len(Outputs[s])]
Started(s) == \E x \in Files(s) : file[x] # None

\* The last file of the stage the runner is at has been written.
Wrote(p) == /\ item[p] = Len(Outputs[Stage(p)])
            /\ pc[p] \in {"hash", "link"} \/ HasRef(p)

\* A last file comes after the others; a stage's first file after all the files of
\* the stages before it; a row after its file.
OnDisk ==
  /\ \A s \in 1..N : file[Last(s)] # None => Full(s)
  /\ \A s \in 1..N : Started(s) => CanLoad(s) /\ \A r \in 1..(s - 1) : Full(r)
  /\ \A i \in 1..Len(commits) : commits[i].path \in Path => file[commits[i].path] # None

\* What a runner has still to do, and what it finds when it comes to it.
Ahead(p) ==
  /\ pc[p] = "idle" => queue[p] = {} /\ ~replay[p] /\ ~replayed[p]
  /\ content[p] # None
  /\ \A t \in queue[p] : \A s \in 1..(t - 1) : Full(s) \/ s \in queue[p]
  /\ queue[p] # {} /\ pc[p] \in {"tip", "write", "hash", "append", "link"} =>
       CanLoad(Stage(p))
  /\ forced = 0 =>
       \A t \in queue[p] : /\ \A s \in (t + 1)..N : ~Started(s)
                           /\ t # Stage(p) \/ ~Wrote(p) => file[Last(t)] = None

OrderInv == AttemptInv /\ OnDisk /\ \A p \in Runner : Ahead(p)

-----------------------------------------------------------------------------
LEMMA FilesFacts ==
  ASSUME NEW s \in 1..N
  PROVE  /\ Last(s) \in Files(s) /\ Files(s) \subseteq Path
         /\ \A t \in 1..N : \A x \in Files(s) : x \in Files(t) => s = t
<1>1. Outputs[s] \in Seq(Path) /\ Outputs[s] # <<>> /\ Len(Outputs[s]) \in 1..Len(Outputs[s])
  <2>1. Outputs[s] \in Seq(Path) /\ Outputs[s] # <<>>
    BY PipelineAssumption
  <2> QED BY <2>1
<1> QED BY <1>1, OutputsDiffer DEF Files, Last

LEMMA CompletedIsFull ==
  ASSUME NEW s \in 1..N
  PROVE  Completed(s) <=> Full(s)
<1>1. s # Replay
  BY NIsNat DEF Replay
<1> QED BY <1>1 DEF Completed, Full

\* The status report recommends a stage before which everything is complete.
LEMMA FirstMissingFacts ==
  /\ FirstMissing \in 1..Replay
  /\ \A t \in 1..(FirstMissing - 1) : Completed(t)
  /\ ~Completed(FirstMissing) \/ FirstMissing = Replay
<1> DEFINE S == {s \in 1..Replay : ~Completed(s) \/ s = Replay}
           m == Min(S)
<1>1. Replay \in Nat /\ Replay \in S
  BY NIsNat DEF Replay
<1>2. m \in S /\ \A y \in S : m <= y
  <2>1. S \in SUBSET (1..Replay) /\ S # {}
    BY <1>1
  <2> HIDE DEF S
  <2> QED BY <1>1, <2>1, Least
<1>3. \A t \in 1..(m - 1) : Completed(t)
  <2> SUFFICES ASSUME NEW t \in 1..(m - 1), ~Completed(t) PROVE FALSE
    OBVIOUS
  <2>1. m \in 1..Replay
    BY <1>2
  <2> HIDE DEF m
  <2>2. t \in 1..Replay /\ t < m
    BY <1>1, <2>1
  <2> QED BY <1>2, <2>2
<1> HIDE DEF m
<1> QED BY <1>2, <1>3 DEF FirstMissing

\* A file that is there is never taken away again, nor is a row.
LEMMA FilesStay ==
  ASSUME Shapes, NEW p \in Runner, Effects(p), content[p] # None, NEW x \in Path, file[x] # None
  PROVE  file'[x] # None
BY DEF Effects, Shapes, IsFn

LEMMA CanLoadStays ==
  ASSUME Shapes, NEW p \in Runner, Effects(p), NEW s, CanLoad(s)
  PROVE  CanLoad(s)'
<1>1. ASSUME NEW x, Latest(x) # 0
      PROVE  Latest(x)' # 0
  <2>1. CASE commits' = commits
    BY <1>1, <2>1 DEF Latest
  <2>2. CASE commits' = Append(commits, NewRow(p))
    <3>1. PICK R : commits \in Seq(R)
      BY DEF Shapes, Kinds
    <3>2. Len(commits) \in Nat
      BY <3>1
    <3> QED BY <1>1, <2>2, <3>1, <3>2, LatestAppend
  <2> QED BY <2>1, <2>2 DEF Effects
<1> QED BY <1>1 DEF CanLoad

\* The runner writes a file of its stage, and no other changes.
LEMMA WriteFacts ==
  ASSUME OrderInv, NEW p \in Runner, Step(p), file' # file
  PROVE  /\ pc[p] = "write" /\ pc'[p] = "hash" /\ UNCHANGED <<commits, queue, item>>
         /\ InStage(p) /\ Stage(p) \in 1..N /\ Stage(p) \in queue[p]
         /\ \A t \in queue[p] : Stage(p) <= t
         /\ item[p] \in 1..Len(Outputs[Stage(p)]) /\ Output(p) \in Files(Stage(p))
         /\ file' = [file EXCEPT ![Output(p)] = content[p]] /\ Output(p) \in Path
         /\ file'[Output(p)] = content[p] /\ content[p] # None
         /\ \A x \in Path : x # Output(p) => file'[x] = file[x]
<1>1. Shapes /\ Effects(p) /\ AtStage(p) /\ Ahead(p)
  BY StepEffects DEF OrderInv, AttemptInv, TypeInv, Local
<1>2. pc[p] = "write" /\ pc'[p] = "hash" /\ file' = [file EXCEPT ![Output(p)] = content[p]]
  BY <1>1 DEF Effects
<1>3. /\ queue[p] # {} /\ item[p] \in 1..Len(Outputs[Stage(p)]) /\ Output(p) \in Path
  BY <1>1, <1>2, OutputFacts
<1>4. InStage(p) /\ Output(p) \in Files(Stage(p))
  BY <1>2, <1>3 DEF InStage, Output, Files
<1>5. UNCHANGED <<commits, queue, item>>
  <2>1. WriteFile(p) \/ StageRaises(p) \/ Crash(p)
    BY <1>2 DEF Step, Invoke, MakeDirs, OpenLedger, LoadInputs, LoadRaises,
       HashFile, ReadTip, AppendStarted, AppendOutput, LinkSidecar, BeginReplay, EndReplay,
       WriteReport, AppendReport, NoReport
  <2>2. StageRaises(p) \/ Crash(p) => file' = file
    BY DEF StageRaises, Fail, Crash
  <2> QED BY <2>1, <2>2 DEF WriteFile
<1> QED BY <1>1, <1>2, <1>3, <1>4, <1>5, StageFacts DEF Shapes, IsFn, Ahead

LEMMA OnDiskStep ==
  ASSUME OrderInv, NEW p \in Runner, Step(p)
  PROVE  OnDisk'
<1>1. Shapes /\ Effects(p) /\ AtStage(p) /\ Ahead(p) /\ Attempt(p) /\ OnDisk /\ TypeInv
  BY StepEffects DEF OrderInv, AttemptInv, TypeInv, Local
<1>2. \A x \in Path : file[x] # None => file'[x] # None
  BY <1>1, FilesStay DEF Ahead
<1>3. \A s \in 1..N : Full(s) => Full(s)'
  BY <1>2, FilesFacts DEF Full, Files
<1>4. \A s \in 1..N : CanLoad(s) => CanLoad(s)'
  BY <1>1, CanLoadStays
<1>5. \A s \in 1..N : file'[Last(s)] # None => Full(s)'
  <2> SUFFICES ASSUME NEW s \in 1..N, file'[Last(s)] # None PROVE Full(s)'
    OBVIOUS
  <2>1. CASE file[Last(s)] # None
    BY <1>1, <1>3, <2>1 DEF OnDisk
  <2>2. CASE file[Last(s)] = None
    <3>1. file' # file
      BY <2>2
    <3>2. Last(s) = Output(p)
      BY <2>2, <3>1, WriteFacts, FilesFacts
    <3>3. s = Stage(p)
      BY <3>1, <3>2, WriteFacts, FilesFacts
    <3>4. item[p] = Len(Outputs[Stage(p)])
      <4>1. Len(Outputs[s]) \in 1..Len(Outputs[s])
        BY <3>1, <3>3, WriteFacts, <1>1, StageFacts DEF InStage
      <4> QED BY <3>1, <3>2, <3>3, <4>1, WriteFacts, OutputsDiffer DEF Last, Output
    <3>5. ASSUME NEW i \in 1..Len(Outputs[s])
          PROVE  file'[Outputs[s][i]] # None
      <4>1. CASE i = item[p]
        BY <3>1, <3>3, <4>1, WriteFacts DEF Output
      <4>2. CASE i # item[p]
        <5>1. i \in 1..(item[p] - 1) /\ Outputs[s][i] \in Path
          BY <3>1, <3>3, <3>4, <4>2, WriteFacts, OutputsDiffer
        <5>2. file[Outputs[s][i]] = content[p]
          BY <1>1, <3>1, <3>3, <5>1, WriteFacts DEF Attempt, Kept
        <5> QED BY <1>2, <3>1, <5>1, <5>2, WriteFacts
      <4> QED BY <4>1, <4>2
    <3> QED BY <3>5 DEF Full, Files
  <2> QED BY <2>1, <2>2
<1>6. \A s \in 1..N : Started(s)' => CanLoad(s)' /\ \A r \in 1..(s - 1) : Full(r)'
  <2> SUFFICES ASSUME NEW s \in 1..N, NEW x \in Files(s), file'[x] # None
               PROVE  CanLoad(s)' /\ \A r \in 1..(s - 1) : Full(r)'
    BY DEF Started, Files
  <2>0. \A r \in 1..(s - 1) : r \in 1..N
    BY NIsNat
  <2>1. CASE file[x] # None
    BY <1>1, <1>3, <1>4, <2>0, <2>1 DEF OnDisk, Started
  <2>2. CASE file[x] = None
    <3>1. file' # file
      BY <2>2
    <3>2. x = Output(p) /\ s = Stage(p)
      BY <2>2, <3>1, WriteFacts, FilesFacts
    <3>3. CanLoad(s)
      BY <1>1, <3>1, <3>2, WriteFacts DEF Ahead, InStage
    <3>4. \A r \in 1..(s - 1) : Full(r)
      BY <1>1, <2>0, <3>1, <3>2, WriteFacts, NIsNat DEF Ahead
    <3> QED BY <1>3, <1>4, <2>0, <3>3, <3>4
  <2> QED BY <2>1, <2>2
<1>7. \A i \in 1..Len(commits') : commits'[i].path \in Path => file'[commits'[i].path] # None
  <2>1. CASE commits' = commits
    BY <1>1, <1>2, <2>1 DEF OnDisk
  <2>2. CASE pc[p] = "append" /\ commits' = Append(commits, NewRow(p))
    <3>1. /\ Len(commits) \in Nat /\ Len(commits') = Len(commits) + 1
          /\ \A i \in 1..Len(commits) : commits'[i] = commits[i]
          /\ commits'[Len(commits) + 1] = NewRow(p)
      BY <1>1, <2>2, LedgerGrows DEF Shapes, Kinds
    <3>2. NewRow(p).path \in Path => file[NewRow(p).path] # None
      <4>1. CASE queue[p] # {} /\ item[p] > 0
        BY <1>1, <2>2, <4>1 DEF NewRow, Row, Attempt, HasRef, Ahead
      <4>2. CASE ~(queue[p] # {} /\ item[p] > 0)
        BY <4>2, PipelineAssumption DEF NewRow, Row
      <4> QED BY <4>1, <4>2
    <3> QED BY <1>1, <1>2, <3>1, <3>2 DEF OnDisk
  <2> QED BY <1>1, <2>1, <2>2 DEF Effects
<1> QED BY <1>5, <1>6, <1>7 DEF OnDisk, Last

\* What a call decides to run: nothing before it is missing, and without --force
\* nothing of it, or after it, is there.
LEMMA ChosenFacts ==
  ASSUME OnDisk, Shapes, NEW first \in 1..Replay, NEW last \in 1..Replay, NEW policy,
         first \in {1, FirstMissing}, \A s \in first..last : Decide(s, policy) # "block",
         NEW t \in Chosen(first, last, policy)
  PROVE  /\ t \in 1..N
         /\ \A s \in 1..(t - 1) : Full(s) \/ s \in Chosen(first, last, policy)
         /\ ~Completed(t) => file[Last(t)] = None /\ \A s \in (t + 1)..N : ~Started(s)
         /\ policy # "force" => ~Completed(t)
<1>1. t \in 1..N /\ t \in first..last /\ Decide(t, policy) = "run" /\ N \in Nat /\ Replay = N + 1
  BY ChosenAreStages, NIsNat DEF Chosen, Replay
<1>2. ASSUME NEW s \in 1..(t - 1)
      PROVE  Full(s) \/ s \in Chosen(first, last, policy)
  <2>1. s \in 1..N /\ s # Replay
    BY <1>1
  <2>2. CASE s < first
    <3>1. s \in 1..(FirstMissing - 1)
      BY <1>1, <2>1, <2>2, FirstMissingFacts
    <3>2. Completed(s)
      BY <3>1, FirstMissingFacts
    <3> QED BY <2>1, <3>2, CompletedIsFull
  <2>3. CASE s \in first..last
    <3>1. Decide(s, policy) = "run" \/ Completed(s)
      BY <2>1, <2>3 DEF Decide
    <3> QED BY <2>1, <2>3, <3>1, CompletedIsFull DEF Chosen
  <2> QED BY <1>1, <2>1, <2>2, <2>3
<1>3. ASSUME ~Completed(t)
      PROVE  file[Last(t)] = None /\ \A s \in (t + 1)..N : ~Started(s)
  <2>1. ~Full(t)
    BY <1>1, <1>3, CompletedIsFull
  <2>2. file[Last(t)] = None
    BY <1>1, <2>1 DEF OnDisk
  <2>3. ASSUME NEW s \in (t + 1)..N PROVE ~Started(s)
    <3>1. s \in 1..N /\ t \in 1..(s - 1)
      BY <1>1
    <3> QED BY <2>1, <3>1 DEF OnDisk
  <2> QED BY <2>2, <2>3
<1>4. policy # "force" => ~Completed(t)
  BY <1>1 DEF Decide
<1> QED BY <1>1, <1>2, <1>3, <1>4

\* The runner's call: it starts at the first stage or where the report says.
LEMMA InvokeAhead ==
  ASSUME OrderInv, ~StartAnywhere, NEW p \in Runner, Invoke(p)
  PROVE  Ahead(p)'
<1>1. Shapes /\ OnDisk /\ Ahead(p)
  BY DEF OrderInv, AttemptInv, TypeInv
<1>2. PICK policy \in Policies, first \in 1..Replay, last \in 1..Replay :
        /\ first \in {1, FirstMissing}
        /\ \A s \in first..last : Decide(s, policy) # "block"
        /\ queue' = [queue EXCEPT ![p] = Chosen(first, last, policy)]
        /\ forced' = IF policy = "force" /\ \E s \in Chosen(first, last, policy) : Completed(s)
                     THEN forced + 1 ELSE forced
  BY DEF Invoke
<1>3. queue'[p] = Chosen(first, last, policy)
  BY <1>1, <1>2 DEF Shapes
<1>4. /\ UNCHANGED <<file, content, commits>> /\ pc'[p] = "dirs"
  BY <1>1 DEF Invoke, Goto, Shapes, Kinds
<1>5. \A t \in queue'[p] : \A s \in 1..(t - 1) : Full(s)' \/ s \in queue'[p]
  BY <1>1, <1>2, <1>3, <1>4, ChosenFacts DEF Full, Files
<1>6. ASSUME forced' = 0, NEW t \in queue'[p]
      PROVE  (\A s \in (t + 1)..N : ~Started(s)') /\ file'[Last(t)] = None
  <2>1. ~Completed(t)
    BY <1>1, <1>2, <1>3, <1>6, ChosenFacts DEF Shapes
  <2>2. file[Last(t)] = None /\ \A s \in (t + 1)..N : ~Started(s)
    BY <1>1, <1>2, <1>3, <2>1, ChosenFacts
  <2> QED BY <1>4, <2>2 DEF Started, Files
<1>7. content'[p] # None
  BY <1>1, <1>4 DEF Ahead
<1> QED BY <1>4, <1>5, <1>6, <1>7 DEF Ahead, Last

\* A runner that has nothing left to do in its stages.
LEMMA NothingAhead ==
  ASSUME NEW p \in Runner, queue'[p] = {}, content'[p] # None,
         pc'[p] = "idle" => ~replay'[p] /\ ~replayed'[p]
  PROVE  Ahead(p)'
BY DEF Ahead

\* A step within a stage that writes no file.
LEMMA AheadFrame ==
  ASSUME OrderInv, NEW p \in Runner, Step(p), UNCHANGED <<file, queue, forced>>,
         pc'[p] # "idle", content'[p] # None, Wrote(p) => Wrote(p)',
         queue[p] # {} /\ pc'[p] \in {"tip", "write", "hash", "append", "link"} =>
           CanLoad(Stage(p))
  PROVE  Ahead(p)'
<1>1. Shapes /\ Effects(p) /\ Ahead(p)
  BY StepEffects DEF OrderInv, AttemptInv, TypeInv
<1>2. Stage(p)' = Stage(p)
  BY DEF Stage
<1>3. CanLoad(Stage(p)) => CanLoad(Stage(p))'
  BY <1>1, <1>2, CanLoadStays
<1>4. /\ \A s : Full(s)' = Full(s) /\ Started(s)' = Started(s)
      /\ \A s : file'[Last(s)] = file[Last(s)]
  BY DEF Full, Started, Files
<1> QED BY <1>1, <1>2, <1>3, <1>4 DEF Ahead, Last

\* The file is written: the stages after this one are untouched, and when it was
\* the last file of the stage, the stage has been written.
LEMMA AheadWrite ==
  ASSUME OrderInv, NEW p \in Runner, WriteFile(p)
  PROVE  Ahead(p)'
<1>1. Shapes /\ Effects(p) /\ Ahead(p) /\ Step(p) /\ AtStage(p)
  BY StepEffects DEF OrderInv, AttemptInv, TypeInv, Step, Local
<1>2. pc[p] = "write" /\ pc'[p] = "hash" /\ UNCHANGED <<commits, queue, item, content, forced>>
  BY <1>1 DEF WriteFile, Goto, Shapes, Kinds
<1>3. /\ queue[p] # {} /\ Stage(p) \in 1..N /\ Stage(p) \in queue[p] /\ Output(p) \in Path
      /\ \A t \in queue[p] : t \in 1..N
      /\ \A t \in queue[p] : Stage(p) <= t
      /\ item[p] \in 1..Len(Outputs[Stage(p)]) /\ Output(p) \in Files(Stage(p))
      /\ file' = [file EXCEPT ![Output(p)] = content[p]] /\ content[p] # None
  <2>1. queue[p] # {} /\ item[p] \in 1..Len(Outputs[Stage(p)]) /\ Output(p) \in Path
    BY <1>1, <1>2, OutputFacts
  <2> QED BY <1>1, <1>2, <2>1, StageFacts DEF Ahead, Output, Files, WriteFile, Shapes
<1>4. /\ \A x \in Path : file[x] # None => file'[x] # None
      /\ \A x \in Path : x # Output(p) => file'[x] = file[x]
  BY <1>1, <1>3 DEF Shapes, IsFn
<1>5. Stage(p)' = Stage(p) /\ (pc'[p] = "hash" /\ item[p] = Len(Outputs[Stage(p)]) => Wrote(p)')
  BY <1>2 DEF Stage, Wrote
<1>6. \A s \in 1..N : Full(s) => Full(s)'
  BY <1>4, FilesFacts DEF Full, Files
<1>7. \A t \in queue[p] : \A s \in 1..(t - 1) : Full(s)' \/ s \in queue[p]
  <2> SUFFICES ASSUME NEW t \in queue[p], NEW s \in 1..(t - 1) PROVE Full(s)' \/ s \in queue[p]
    OBVIOUS
  <2>1. s \in 1..N
    BY <1>3, NIsNat
  <2> QED BY <1>1, <1>6, <2>1 DEF Ahead
<1>8. CanLoad(Stage(p))'
  BY <1>1, <1>2, <1>3, <1>5, CanLoadStays DEF Ahead
<1>9. ASSUME forced' = 0, NEW t \in queue'[p]
      PROVE  /\ \A s \in (t + 1)..N : ~Started(s)'
             /\ t # Stage(p)' \/ ~Wrote(p)' => file'[Last(t)] = None
  <2>1. t \in queue[p] /\ forced = 0 /\ t \in 1..N /\ Stage(p) <= t
    BY <1>2, <1>3, <1>9
  <2>2. ASSUME NEW s \in (t + 1)..N PROVE ~Started(s)'
    <3>1. s \in 1..N /\ s # Stage(p)
      BY <1>3, <2>1, NIsNat
    <3>2. Output(p) \notin Files(s) /\ Files(s) \subseteq Path
      BY <1>3, <3>1, FilesFacts
    <3>3. ~Started(s)
      BY <1>1, <2>1 DEF Ahead
    <3> QED BY <1>4, <3>2, <3>3 DEF Started, Files
  <2>3. ASSUME t # Stage(p)' \/ ~Wrote(p)' PROVE file'[Last(t)] = None
    <3>1. ~Wrote(p)
      BY <1>2 DEF Wrote, HasRef
    <3>2. file[Last(t)] = None
      BY <1>1, <2>1, <3>1 DEF Ahead
    <3>3. Last(t) \in Path /\ Last(t) # Output(p)
      <4>1. Last(t) \in Files(t) /\ Files(t) \subseteq Path
        BY <2>1, FilesFacts
      <4>2. CASE t # Stage(p)
        BY <1>3, <2>1, <4>1, <4>2, FilesFacts
      <4>3. CASE t = Stage(p)
        <5>1. item[p] # Len(Outputs[t])
          BY <1>2, <1>5, <2>3, <4>3
        <5>2. Len(Outputs[t]) \in 1..Len(Outputs[t])
          BY <1>1, <1>3, <4>3, StageFacts
        <5> QED BY <1>3, <2>1, <4>1, <4>3, <5>1, <5>2, OutputsDiffer DEF Last, Output
      <4> QED BY <4>1, <4>2, <4>3
    <3> QED BY <1>4, <3>2, <3>3
  <2> QED BY <2>2, <2>3
<1> QED BY <1>1, <1>2, <1>3, <1>7, <1>8, <1>9 DEF Ahead, Last

\* A stage is done when its last sidecar is linked: it has all its files.
LEMMA AheadLink ==
  ASSUME OrderInv, NEW p \in Runner, LinkSidecar(p)
  PROVE  Ahead(p)'
<1>1. Shapes /\ Effects(p) /\ Ahead(p) /\ Step(p) /\ AtStage(p) /\ AttemptInv
  BY StepEffects DEF OrderInv, AttemptInv, TypeInv, Step, Local
<1>2. /\ pc[p] = "link" /\ UNCHANGED <<commits, file, content, forced>>
      /\ \/ /\ item[p] < Len(Outputs[Stage(p)]) /\ UNCHANGED queue /\ pc'[p] \in {"tip", "write"}
         \/ /\ pc'[p] = "loop"
            /\ queue'[p] = queue[p] \ {Stage(p)} \/ queue'[p] = {}
  BY <1>1 DEF LinkSidecar, BeginOutput, Goto, Shapes, Kinds
<1>3. /\ queue[p] # {} /\ Stage(p) \in 1..N /\ Stage(p) \in queue[p]
      /\ item[p] \in 1..Len(Outputs[Stage(p)]) /\ CanLoad(Stage(p)) /\ content[p] # None
  BY <1>1, <1>2, StageFacts, OutputFacts DEF Ahead, Shapes
<1>4. /\ \A s : Full(s)' = Full(s) /\ Started(s)' = Started(s)
      /\ \A s : file'[Last(s)] = file[Last(s)]
  BY <1>2 DEF Full, Started, Files
<1>5. CASE item[p] < Len(Outputs[Stage(p)]) /\ UNCHANGED queue /\ pc'[p] \in {"tip", "write"}
  <2>1. ~Wrote(p)
    <3>1. item[p] \in Nat /\ Len(Outputs[Stage(p)]) \in Nat
      BY <1>1, <1>3, StageFacts DEF Shapes
    <3> QED BY <1>5, <3>1 DEF Wrote
  <2> QED BY <1>1, <1>2, <1>3, <1>5, <2>1, AheadFrame
<1>6. CASE pc'[p] = "loop" /\ queue'[p] = queue[p] \ {Stage(p)}
  <2>1. Full(Stage(p))
    BY <1>1, <1>3, <1>6, StageReturns DEF Full, Files
  <2>2. ASSUME NEW t \in queue'[p], NEW s \in 1..(t - 1)
        PROVE  Full(s) \/ s \in queue'[p]
    BY <1>1, <1>6, <2>1, <2>2 DEF Ahead
  <2>3. ASSUME forced = 0, NEW t \in queue'[p]
        PROVE  (\A s \in (t + 1)..N : ~Started(s)) /\ file[Last(t)] = None
    BY <1>1, <1>6, <2>3 DEF Ahead
  <2> QED BY <1>2, <1>3, <1>4, <1>6, <2>2, <2>3 DEF Ahead, Last
<1>7. CASE pc'[p] = "loop" /\ queue'[p] = {}
  BY <1>2, <1>3, <1>7, NothingAhead
<1> QED BY <1>2, <1>5, <1>6, <1>7

LEMMA AheadStep ==
  ASSUME OrderInv, NoFile, ~StartAnywhere, NEW p \in Runner, Step(p)
  PROVE  Ahead(p)'
<1>1. Shapes /\ Flags /\ Ahead(p) /\ AtStage(p)
  BY DEF OrderInv, AttemptInv, TypeInv, Local
<1> USE DEF Goto
<1>2. CASE Invoke(p)
  BY <1>2, InvokeAhead
<1>3. CASE MakeDirs(p) \/ OpenLedger(p)
  <2>1. /\ UNCHANGED <<file, queue, forced, content>> /\ pc'[p] \in {"database", "loop"}
        /\ pc[p] \in {"dirs", "database"}
    BY <1>1, <1>3 DEF MakeDirs, OpenLedger, Shapes, Kinds
  <2>2. ~Wrote(p)
    BY <2>1 DEF Wrote, HasRef
  <2> QED BY <1>1, <2>1, <2>2, AheadFrame DEF Ahead
<1>4. CASE LoadInputs(p)
  <2>1. /\ UNCHANGED <<file, queue, forced>> /\ pc[p] = "loop" /\ pc'[p] = "tip"
        /\ CanLoad(Stage(p))
        /\ content'[p] = [attempt |-> attempts', from |-> [x \in Inputs[Stage(p)] |-> Latest(x)]]
    BY <1>1, <1>4 DEF LoadInputs, Shapes, Kinds, IsFn
  <2>2. ~Wrote(p) /\ content'[p] # None
    BY <2>1 DEF Wrote, HasRef, NoFile
  <2> QED BY <2>1, <2>2, AheadFrame
<1>5. CASE LoadRaises(p) \/ StageRaises(p)
  <2>1. queue'[p] = {} /\ UNCHANGED content /\ pc'[p] = "loop"
    BY <1>1, <1>5 DEF LoadRaises, StageRaises, Fail, Shapes, Kinds
  <2> QED BY <1>1, <2>1, NothingAhead DEF Ahead
<1>6. CASE WriteFile(p)
  BY <1>6, AheadWrite
<1>7. CASE HashFile(p)
  <2>1. /\ UNCHANGED <<file, queue, forced, content, item>> /\ pc[p] = "hash"
        /\ pc'[p] = IF ReadsFirst(p) THEN "append" ELSE "tip"
    BY <1>1, <1>7 DEF HashFile, Shapes, Kinds
  <2>2. (Wrote(p)' /\ pc'[p] # "idle") \/ ~Wrote(p)
    <3>1. queue[p] # {} /\ item[p] > 0
      BY <1>1, <2>1 DEF AtStage
    <3>2. Stage(p)' = Stage(p) /\ ReadsFirst(p)' = ReadsFirst(p)
      BY <2>1 DEF Stage, ReadsFirst
    <3> QED BY <2>1, <3>1, <3>2 DEF Wrote, HasRef
  <2> QED BY <1>1, <2>1, <2>2, AheadFrame DEF Ahead
<1>8. CASE ReadTip(p)
  <2>1. /\ UNCHANGED <<file, queue, forced, content, item>> /\ pc[p] = "tip"
        /\ pc'[p] = IF ReadsFirst(p) /\ item[p] > 0 THEN "write" ELSE "append"
    BY <1>1, <1>8 DEF ReadTip, Shapes, Kinds
  <2>2. Wrote(p) => Wrote(p)'
    <3>1. Stage(p)' = Stage(p) /\ ReadsFirst(p)' = ReadsFirst(p)
      BY <2>1 DEF Stage, ReadsFirst
    <3> QED BY <2>1, <3>1 DEF Wrote, HasRef
  <2> QED BY <1>1, <2>1, <2>2, AheadFrame DEF Ahead
<1>9. CASE AppendStarted(p)
  <2>1. /\ UNCHANGED <<file, queue, forced, content>> /\ pc[p] = "append" /\ item[p] = 0
        /\ pc'[p] \in {"tip", "write"} /\ queue[p] # {}
    BY <1>1, <1>9 DEF AppendStarted, BeginOutput, Shapes, Kinds
  <2>2. ~Wrote(p)
    BY <1>1, <2>1 DEF Wrote, HasRef
  <2> QED BY <1>1, <2>1, <2>2, AheadFrame DEF Ahead
<1>10. CASE AppendOutput(p)
  <2>1. /\ UNCHANGED <<file, queue, forced, content, item>> /\ pc[p] = "append"
        /\ pc'[p] = "link" /\ queue[p] # {}
    BY <1>1, <1>10 DEF AppendOutput, Shapes, Kinds
  <2>2. Wrote(p) => Wrote(p)'
    BY <2>1 DEF Wrote, Stage
  <2> QED BY <1>1, <2>1, <2>2, AheadFrame DEF Ahead
<1>11. CASE LinkSidecar(p)
  BY <1>11, AheadLink
<1>12. CASE BeginReplay(p) \/ EndReplay(p) \/ WriteReport(p)
  <2>1. UNCHANGED <<file, queue, forced, content, item>> /\ pc'[p] \in {"replay", "loop", "tip"}
    BY <1>1, <1>12 DEF BeginReplay, EndReplay, WriteReport, Shapes, Kinds
  <2>2. CASE queue[p] = {}
    BY <1>1, <2>1, <2>2, NothingAhead DEF Ahead
  <2>3. CASE queue[p] # {}
    <3>1. EndReplay(p) /\ pc[p] = "replay" /\ pc'[p] = "loop"
      BY <1>1, <1>12, <2>3 DEF BeginReplay, EndReplay, WriteReport, Shapes, Kinds
    <3>2. ~Wrote(p)
      BY <3>1 DEF Wrote, HasRef
    <3> QED BY <1>1, <2>1, <3>1, <3>2, AheadFrame DEF Ahead
  <2> QED BY <2>2, <2>3
<1>13. CASE AppendReport(p) \/ NoReport(p) \/ Crash(p)
  <2>1. /\ queue'[p] = {} /\ ~replay'[p] /\ ~replayed'[p] /\ content'[p] = NoContent
    <3>1. Return(p)
      BY <1>13 DEF AppendReport, NoReport, Crash
    <3> QED BY <1>1, <3>1 DEF Return, Shapes, Flags, IsFn
  <2>2. content'[p] # None
    BY <2>1 DEF NoFile, NoContent
  <2> QED BY <2>1, <2>2, NothingAhead
<1> QED BY <1>2, <1>3, <1>4, <1>5, <1>6, <1>7, <1>8, <1>9, <1>10, <1>11, <1>12, <1>13 DEF Step

\* The replays of the others are their own.
LEMMA OthersReplay ==
  ASSUME Flags, NEW p \in Runner, Step(p), NEW q \in Runner, q # p
  PROVE  replay'[q] = replay[q] /\ replayed'[q] = replayed[q]
<1> USE DEF Flags
<1>1. CASE Invoke(p)
  BY <1>1 DEF Invoke
<1>2. CASE MakeDirs(p)
  BY <1>2 DEF MakeDirs
<1>3. CASE OpenLedger(p)
  BY <1>3 DEF OpenLedger
<1>4. CASE LoadInputs(p)
  BY <1>4 DEF LoadInputs
<1>5. CASE LoadRaises(p)
  BY <1>5 DEF LoadRaises, Fail
<1>6. CASE StageRaises(p)
  BY <1>6 DEF StageRaises, Fail
<1>7. CASE WriteFile(p)
  BY <1>7 DEF WriteFile
<1>8. CASE HashFile(p)
  BY <1>8 DEF HashFile
<1>9. CASE ReadTip(p)
  BY <1>9 DEF ReadTip
<1>10. CASE AppendStarted(p)
  BY <1>10 DEF AppendStarted, BeginOutput
<1>11. CASE AppendOutput(p)
  BY <1>11 DEF AppendOutput
<1>12. CASE LinkSidecar(p)
  BY <1>12 DEF LinkSidecar, BeginOutput
<1>13. CASE BeginReplay(p)
  BY <1>13 DEF BeginReplay
<1>14. CASE EndReplay(p)
  BY <1>14 DEF EndReplay
<1>15. CASE WriteReport(p)
  BY <1>15 DEF WriteReport
<1>16. CASE AppendReport(p)
  BY <1>16 DEF AppendReport, Return
<1>17. CASE NoReport(p)
  BY <1>17 DEF NoReport, Return
<1>18. CASE Crash(p)
  BY <1>18 DEF Crash, Return
<1> QED BY <1>1, <1>2, <1>3, <1>4, <1>5, <1>6, <1>7, <1>8, <1>9,
          <1>10, <1>11, <1>12, <1>13, <1>14, <1>15, <1>16, <1>17, <1>18 DEF Step

LEMMA OrderInit ==
  ASSUME Init, NoFile, IsFiniteSet(Path)
  PROVE  OrderInv
<1>1. AttemptInv
  BY AttemptInit
<1>2. OnDisk
  <2>1. Len(commits) = 0
    BY DEF Init
  <2>2. \A s \in 1..N : ~Started(s) /\ file[Last(s)] = None
    BY FilesFacts DEF Init, Started
  <2> QED BY <2>1, <2>2 DEF OnDisk
<1>3. ASSUME NEW p \in Runner PROVE Ahead(p)
  BY DEF Init, Ahead, NoFile, NoContent
<1> QED BY <1>1, <1>2, <1>3 DEF OrderInv

LEMMA OrderNext ==
  ASSUME NoFile, ~Overlap, ~StartAnywhere, IsFiniteSet(Path), OrderInv, [Next]_vars
  PROVE  OrderInv'
<1>1. AttemptInv'
  BY AttemptNext DEF OrderInv
<1>2. CASE UNCHANGED vars
  <2>1. OnDisk'
    BY <1>2 DEF vars, OrderInv, OnDisk, Full, Last, Started, Files, CanLoad, Latest
  <2>2. ASSUME NEW p \in Runner PROVE Ahead(p)'
    <3>1. UNCHANGED <<file, queue, forced, content, item, pc, replay, replayed, commits>>
      BY <1>2 DEF vars
    <3>2. /\ \A s : Full(s)' = Full(s) /\ Started(s)' = Started(s)
          /\ \A s : file'[Last(s)] = file[Last(s)]
          /\ Wrote(p)' = Wrote(p) /\ Stage(p)' = Stage(p)
          /\ \A s : CanLoad(s)' = CanLoad(s)
      BY <3>1 DEF Full, Started, Files, Wrote, HasRef, ReadsFirst, Stage, CanLoad, Latest
    <3> QED BY <3>1, <3>2 DEF OrderInv, Ahead, Last
  <2> QED BY <1>1, <2>1, <2>2 DEF OrderInv
<1>3. ASSUME NEW p \in Runner, Step(p) PROVE OrderInv'
  <2>1. OnDisk' /\ Ahead(p)'
    BY <1>3, OnDiskStep, AheadStep
  <2>2. ASSUME NEW q \in Runner, q # p PROVE Ahead(q)'
    <3>1. pc[q] = "idle" /\ Same(q) /\ Ahead(q)
      BY <1>3, <2>2, OthersIdle, OthersWait DEF OrderInv, AttemptInv, TypeInv, ChainInv
    <3>2. replay'[q] = replay[q] /\ replayed'[q] = replayed[q]
      BY <1>3, <2>2, OthersReplay DEF OrderInv, AttemptInv, TypeInv
    <3> QED BY <3>1, <3>2, NothingAhead DEF Same, Ahead
  <2> QED BY <1>1, <2>1, <2>2 DEF OrderInv
<1> QED BY <1>2, <1>3 DEF Next

\* Without --force no file of a complete stage is ever written again: a runner
\* that comes to a stage finds its last file missing until it writes it itself.
THEOREM StageOverwriteOnlyForced ==
  ASSUME NoFile, ~Overlap, ~StartAnywhere, IsFiniteSet(Path)
  PROVE  Spec => OverwriteOnlyForced
<1>1. Init => OrderInv
  BY OrderInit
<1>2. OrderInv /\ [Next]_vars => OrderInv'
  BY OrderNext
<1>3. ASSUME OrderInv, NEW p \in Runner, Step(p), NEW s \in 1..N, Completed(s), forced = 0,
             NEW x \in Files(s)
      PROVE  file'[x] = file[x]
  <2> SUFFICES ASSUME file'[x] # file[x] PROVE FALSE
    OBVIOUS
  <2>1. Output(p) \in Files(Stage(p)) /\ x = Output(p) /\ s = Stage(p)
    <3>1. file' # file /\ x \in Path
      BY <1>3, FilesFacts
    <3>2. Output(p) \in Files(Stage(p)) /\ Stage(p) \in 1..N /\ x = Output(p)
      BY <1>3, <3>1, WriteFacts
    <3> QED BY <1>3, <3>2, FilesFacts
  <2>2. pc[p] = "write" /\ Stage(p) \in queue[p]
    BY <1>3, WriteFacts
  <2>3. file[Last(s)] = None
    BY <1>3, <2>1, <2>2 DEF OrderInv, Ahead, Wrote, HasRef
  <2> QED BY <1>3, <2>3, CompletedIsFull, FilesFacts DEF Full
<1>4. OrderInv /\ [Next]_vars =>
        [\A s \in 1..N : Completed(s) /\ forced = 0 =>
           \A x \in Files(s) : file'[x] = file[x]]_vars
  BY <1>3 DEF Next
<1> QED BY <1>1, <1>2, <1>4, PTL DEF Spec, OverwriteOnlyForced

-----------------------------------------------------------------------------
(* The replay comes last.                                                   *)

\* The last mutating stage writes what the replay needs, and calls no adapter.
ExportIsLast == N # 0 /\ ReplayNeeds \in Files(N) /\ N \notin Fallible

\* A replay that is still to come finds the export done, or no export at all; one
\* that has succeeded has found it done.
Exported(p) ==
  /\ pc[p] = "replay" => queue[p] = {}
  /\ forced = 0 =>
       /\ replay[p] \/ pc[p] = "replay" =>
            N \in queue[p] \/ Full(N) \/ file[ReplayNeeds] = None
       /\ replayed[p] => Full(N)

ReplayInv ==
  /\ OrderInv
  /\ \A p \in Runner : Exported(p)
  /\ forced = 0 /\ report.replay => Full(N)

\* --force is never forgotten.
LEMMA ForcedStays ==
  ASSUME OrderInv, NEW p \in Runner, Step(p), forced' = 0
  PROVE  forced = 0
<1>1. UNCHANGED forced \/ Invoke(p)
  BY DEF Step, Invoke, MakeDirs, OpenLedger, LoadInputs, LoadRaises, StageRaises, WriteFile,
         HashFile, ReadTip, AppendStarted, AppendOutput, LinkSidecar, BeginReplay, EndReplay,
         WriteReport, AppendReport, NoReport, Crash
<1>2. Invoke(p) => forced' \in {forced, forced + 1}
  BY DEF Invoke
<1>3. forced \in Nat
  BY DEF OrderInv, AttemptInv, TypeInv, Shapes
<1> QED BY <1>1, <1>2, <1>3

\* What is complete stays so.
LEMMA ExportStays ==
  ASSUME OrderInv, ExportIsLast, NEW p \in Runner, Step(p)
  PROVE  /\ N \in 1..N /\ ReplayNeeds \in Path /\ (Full(N) => Full(N)')
         /\ forced' = 0 => forced = 0
<1>1. Shapes /\ Effects(p) /\ content[p] # None
  BY StepEffects DEF OrderInv, AttemptInv, TypeInv, Ahead
<1>2. N \in 1..N
  BY NIsNat DEF ExportIsLast
<1>3. Full(N) => Full(N)'
  BY <1>1, <1>2, FilesFacts, FilesStay DEF Full, Files
<1>4. forced' = 0 => forced = 0
  BY ForcedStays
<1> QED BY <1>2, <1>3, <1>4, FilesFacts DEF ExportIsLast

\* The stage that fails has not begun its export, nor has a later one.
LEMMA FailedBeforeExport ==
  ASSUME OrderInv, ExportIsLast, forced = 0, NEW p \in Runner, LoadRaises(p) \/ StageRaises(p)
  PROVE  file[ReplayNeeds] = None
<1>1. Shapes /\ Ahead(p) /\ OnDisk /\ N \in 1..N
  BY ExportStays DEF OrderInv, AttemptInv, TypeInv, Step
<1>2. Stage(p) \in queue[p] /\ Stage(p) \in 1..N
  BY <1>1, StageFacts DEF LoadRaises, StageRaises
<1>3. ~Started(N) => file[ReplayNeeds] = None
  BY DEF Started, ExportIsLast
<1>4. CASE Stage(p) # N
  <2>1. N \in (Stage(p) + 1)..N
    BY <1>1, <1>2, <1>4
  <2> QED BY <1>1, <1>2, <1>3, <2>1 DEF Ahead
<1>5. CASE Stage(p) = N
  <2>1. ~CanLoad(N)
    BY <1>5 DEF LoadRaises, StageRaises, ExportIsLast
  <2> QED BY <1>1, <1>3, <2>1 DEF OnDisk
<1> QED BY <1>4, <1>5

LEMMA ExportedStep ==
  ASSUME ReplayInv, ExportIsLast, ~StartAnywhere, NEW p \in Runner, Step(p)
  PROVE  Exported(p)'
<1>1. /\ Shapes /\ Flags /\ Ahead(p) /\ AtStage(p) /\ OnDisk /\ Exported(p) /\ OrderInv
      /\ AttemptInv
  BY DEF ReplayInv, OrderInv, AttemptInv, TypeInv, Local
<1>2. /\ N \in 1..N /\ ReplayNeeds \in Path /\ (Full(N) => Full(N)')
      /\ forced' = 0 => forced = 0
  BY <1>1, ExportStays
<1>3. ASSUME UNCHANGED <<file, queue, replay, replayed>>, pc'[p] # "replay"
      PROVE  Exported(p)'
  BY <1>1, <1>2, <1>3 DEF Exported
<1> USE DEF Goto
<1>4. CASE Invoke(p)
  <2>1. PICK policy \in Policies, first \in 1..Replay, last \in 1..Replay :
          /\ first <= last /\ first \in {1, FirstMissing}
          /\ \A s \in first..last : Decide(s, policy) # "block"
          /\ queue' = [queue EXCEPT ![p] = Chosen(first, last, policy)]
          /\ replay' = [replay EXCEPT ![p] = last = Replay]
    BY <1>1, <1>4 DEF Invoke
  <2>2. /\ queue'[p] = Chosen(first, last, policy) /\ replay'[p] = (last = Replay)
        /\ pc'[p] = "dirs" /\ ~replayed'[p]
    BY <1>1, <1>4, <2>1 DEF Invoke, Shapes, Kinds, Flags, Ahead
  <2>3. last = Replay => N \in queue'[p] \/ Full(N)
    <3> SUFFICES ASSUME last = Replay PROVE N \in queue'[p] \/ Full(N)
      OBVIOUS
    <3>1. N \in Nat /\ Replay = N + 1 /\ N # Replay
      BY NIsNat DEF Replay
    <3>2. CASE first = Replay
      <4>1. FirstMissing = Replay
        BY <1>2, <2>1, <3>1, <3>2
      <4>2. N \in 1..(FirstMissing - 1)
        BY <1>2, <3>1, <4>1
      <4> QED BY <1>2, <4>2, FirstMissingFacts, CompletedIsFull
    <3>3. CASE first # Replay
      <4>1. N \in first..last
        BY <2>1, <3>1, <3>3
      <4>2. Decide(N, policy) = "run" \/ Completed(N)
        BY <2>1, <3>1, <4>1 DEF Decide
      <4> QED BY <1>2, <2>2, <3>1, <4>1, <4>2, CompletedIsFull DEF Chosen
    <3> QED BY <3>2, <3>3
  <2> QED BY <1>2, <2>2, <2>3 DEF Exported
<1>5. CASE MakeDirs(p) \/ OpenLedger(p) \/ LoadInputs(p) \/ HashFile(p) \/ ReadTip(p)
  <2>1. UNCHANGED <<file, queue, replay, replayed>> /\ pc'[p] # "replay"
    BY <1>1, <1>5 DEF MakeDirs, OpenLedger, LoadInputs, HashFile, ReadTip, Shapes, Kinds
  <2> QED BY <1>3, <2>1
<1>6. CASE AppendStarted(p) \/ AppendOutput(p) \/ WriteReport(p)
  <2>1. UNCHANGED <<file, queue, replay, replayed>> /\ pc'[p] # "replay"
    BY <1>1, <1>6 DEF AppendStarted, AppendOutput, WriteReport, BeginOutput, Shapes, Kinds
  <2> QED BY <1>3, <2>1
<1>7. CASE LoadRaises(p) \/ StageRaises(p)
  <2>1. UNCHANGED <<file, forced, replayed>> /\ pc'[p] = "loop"
    BY <1>1, <1>7 DEF LoadRaises, StageRaises, Fail, Shapes, Kinds
  <2>2. forced = 0 => file[ReplayNeeds] = None
    BY <1>1, <1>7, FailedBeforeExport
  <2> QED BY <1>1, <1>2, <2>1, <2>2 DEF Exported
<1>8. CASE WriteFile(p)
  <2>1. UNCHANGED <<queue, replay, replayed, forced>> /\ pc'[p] = "hash" /\ pc[p] = "write"
    BY <1>1, <1>8 DEF WriteFile, Shapes, Kinds
  <2>2. N \notin queue[p] => file'[ReplayNeeds] = file[ReplayNeeds]
    <3>1. CASE file' = file
      BY <3>1
    <3>2. CASE file' # file
      <4>1. /\ Stage(p) \in 1..N /\ Stage(p) \in queue[p] /\ Output(p) \in Files(Stage(p))
            /\ \A x \in Path : x # Output(p) => file'[x] = file[x]
        BY <1>1, <3>2, WriteFacts
      <4>2. Stage(p) # N => ReplayNeeds # Output(p)
        BY <1>2, <4>1, FilesFacts DEF ExportIsLast
      <4> QED BY <1>2, <4>1, <4>2
    <3> QED BY <3>1, <3>2
  <2> QED BY <1>1, <1>2, <2>1, <2>2 DEF Exported
<1>9. CASE LinkSidecar(p)
  <2>1. /\ UNCHANGED <<file, replayed, forced>> /\ pc[p] = "link" /\ pc'[p] # "replay"
        /\ \/ UNCHANGED <<queue, replay>>
           \/ /\ pc'[p] = "loop" /\ UNCHANGED replay
              /\ queue'[p] = queue[p] \ {Stage(p)}
           \/ ~replay'[p]
    BY <1>1, <1>9 DEF LinkSidecar, BeginOutput, Shapes, Kinds, Flags
  <2>2. pc'[p] = "loop" => Full(Stage(p))
    <3>1. content[p] # None
      BY <1>1 DEF Ahead
    <3> QED BY <1>1, <1>9, <3>1, StageReturns DEF Full, Files
  <2>3. N \in queue[p] => N \in queue'[p] \/ Full(N) \/ ~replay'[p]
    BY <2>1, <2>2
  <2> QED BY <1>1, <1>2, <2>1, <2>3 DEF Exported
<1>10. CASE BeginReplay(p)
  <2>1. /\ UNCHANGED <<file, queue, replayed, forced>> /\ queue[p] = {} /\ replay[p]
    BY <1>10 DEF BeginReplay
  <2> QED BY <1>1, <1>2, <2>1 DEF Exported
<1>11. CASE EndReplay(p)
  <2>1. /\ UNCHANGED <<file, queue, replay, forced>> /\ pc[p] = "replay" /\ pc'[p] = "loop"
        /\ replayed'[p] = (Latest(ReplayNeeds) # 0 /\ Len(commits) = tip[p])
    BY <1>1, <1>11 DEF EndReplay, Shapes, Kinds, Flags
  <2>2. Latest(ReplayNeeds) # 0 => file[ReplayNeeds] # None
    BY <1>1, <1>2, LatestOfNone DEF OnDisk
  <2> QED BY <1>1, <1>2, <2>1, <2>2 DEF Exported
<1>12. CASE AppendReport(p) \/ NoReport(p) \/ Crash(p)
  <2>1. pc'[p] = "idle" /\ queue'[p] = {} /\ ~replay'[p] /\ ~replayed'[p]
    BY <1>1, <1>12 DEF AppendReport, NoReport, Crash, Return, Shapes, Kinds, Flags
  <2> QED BY <2>1 DEF Exported
<1> QED BY <1>4, <1>5, <1>6, <1>7, <1>8, <1>9, <1>10, <1>11, <1>12 DEF Step

LEMMA ReplayNext ==
  ASSUME NoFile, ExportIsLast, ~Overlap, ~StartAnywhere, IsFiniteSet(Path),
         ReplayInv, [Next]_vars
  PROVE  ReplayInv'
<1>1. OrderInv'
  BY OrderNext DEF ReplayInv
<1>2. CASE UNCHANGED vars
  <2>1. UNCHANGED <<file, queue, forced, pc, replay, replayed, report>>
    BY <1>2 DEF vars
  <2>2. Full(N)' = Full(N)
    BY <2>1 DEF Full, Files
  <2> QED BY <1>1, <2>1, <2>2 DEF ReplayInv, Exported
<1>3. ASSUME NEW p \in Runner, Step(p) PROVE ReplayInv'
  <2>1. Exported(p)'
    BY <1>3, ExportedStep
  <2>2. ASSUME NEW q \in Runner, q # p PROVE Exported(q)'
    <3>1. pc[q] = "idle" /\ Same(q) /\ Ahead(q)
      BY <1>3, <2>2, OthersIdle, OthersWait DEF ReplayInv, OrderInv, AttemptInv, TypeInv, ChainInv
    <3>2. replay'[q] = replay[q] /\ replayed'[q] = replayed[q]
      BY <1>3, <2>2, OthersReplay DEF ReplayInv, OrderInv, AttemptInv, TypeInv
    <3> QED BY <3>1, <3>2 DEF Same, Ahead, Exported
  <2>3. forced' = 0 /\ report'.replay => Full(N)'
    <3>1. (Full(N) => Full(N)') /\ (forced' = 0 => forced = 0)
      BY <1>3, ExportStays DEF ReplayInv
    <3>2. report' = report \/ report'.replay = replayed[p]
      BY <1>3 DEF Step, Invoke, MakeDirs, OpenLedger, LoadInputs, LoadRaises, StageRaises, Fail,
         WriteFile, HashFile, ReadTip, AppendStarted, AppendOutput, LinkSidecar, BeginReplay,
         EndReplay, WriteReport, AppendReport, NoReport, Crash
    <3> QED BY <1>3, <3>1, <3>2 DEF ReplayInv, Exported
  <2> QED BY <1>1, <2>1, <2>2, <2>3 DEF ReplayInv
<1> QED BY <1>2, <1>3 DEF Next

\* Mutating stages complete in order whatever is killed, fails or is forced, and
\* without --force a replay that is reported complete has found all of them so.
THEOREM StagesCompleteInOrder ==
  ASSUME NoFile, ExportIsLast, ~Overlap, ~StartAnywhere, IsFiniteSet(Path)
  PROVE  Spec => []StagesInOrder
<1>1. Init => ReplayInv
  <2> SUFFICES ASSUME Init PROVE ReplayInv
    OBVIOUS
  <2>1. \A p \in Runner : Exported(p)
    BY DEF Init, Exported
  <2> QED BY <2>1, OrderInit DEF Init, ReplayInv
<1>2. ReplayInv /\ [Next]_vars => ReplayInv'
  BY ReplayNext
<1>3. ReplayInv => StagesInOrder
  <2> SUFFICES ASSUME ReplayInv PROVE StagesInOrder
    OBVIOUS
  <2>1. \A s, t \in 1..N : s < t /\ Full(t) => Full(s)
    <3> SUFFICES ASSUME NEW s \in 1..N, NEW t \in 1..N, s < t, Full(t) PROVE Full(s)
      OBVIOUS
    <3>1. Started(t)
      BY FilesFacts DEF Full, Started
    <3>2. s \in 1..(t - 1)
      BY NIsNat
    <3> QED BY <3>1, <3>2 DEF ReplayInv, OrderInv, OnDisk
  <2>2. N \in 1..N /\ (Completed(Replay) => report.replay)
    BY NIsNat DEF ExportIsLast, Completed
  <2>3. forced = 0 /\ Completed(Replay) => \A s \in 1..N : Full(s)
    <3>1. \A s \in 1..N : s = N \/ s < N
      BY NIsNat
    <3> QED BY <2>1, <2>2, <3>1 DEF ReplayInv
  <2> QED BY <2>1, <2>3, CompletedIsFull DEF StagesInOrder
<1> QED BY <1>1, <1>2, <1>3, PTL DEF Spec

-----------------------------------------------------------------------------
(* What a stage was computed from.                                          *)

\* A stage loads outputs of earlier stages.
InputsAreEarlier == \A s \in 1..N : \A y \in Inputs[s] : \E r \in 1..(s - 1) : y \in Files(r)

Sources(s) == [y \in Inputs[s] |-> Latest(y)]

\* The runner is in a stage, whose inputs it has loaded; no later row is of them.
Loaded(p) == queue[p] # {} /\ pc[p] \in {"tip", "write", "hash", "append", "link"}
Current(p) == Loaded(p) => content[p].from = Sources(Stage(p))

FreshInv ==
  /\ OrderInv
  /\ \A p \in Runner : Current(p)
  /\ forced = 0 =>
       \A s \in 1..N : Full(s) => \A x \in Files(s) : file[x].from = Sources(s)

\* A stage's rows are no inputs of it, nor of the stages before it.
LEMMA SourcesStay ==
  ASSUME OrderInv, InputsAreEarlier, NEW p \in Runner, Step(p), NEW s \in 1..N,
         queue[p] = {} \/ s <= Stage(p)
  PROVE  Sources(s)' = Sources(s)
<1>1. Shapes /\ Effects(p) /\ AtStage(p)
  BY StepEffects DEF OrderInv, AttemptInv, TypeInv, Local
<1>2. ASSUME NEW y \in Inputs[s] PROVE Latest(y)' = Latest(y)
  <2>1. CASE commits' = commits
    BY <2>1 DEF Latest
  <2>2. CASE pc[p] = "append" /\ commits' = Append(commits, NewRow(p))
    <3>1. PICK r \in 1..(s - 1) : y \in Files(r)
      BY <1>2 DEF InputsAreEarlier
    <3>2. r \in 1..N /\ y \in Path
      BY <3>1, NIsNat, FilesFacts
    <3>3. NewRow(p).path # y
      <4>1. CASE queue[p] # {} /\ item[p] > 0
        <5>1. item[p] \in 1..Len(Outputs[Stage(p)]) /\ Stage(p) \in 1..N
          BY <1>1, <2>2, <4>1, OutputFacts, StageFacts DEF HasRef
        <5>2. Output(p) \in Files(Stage(p)) /\ r # Stage(p)
          BY <3>1, <4>1, <5>1, NIsNat DEF Output, Files
        <5> QED BY <3>1, <3>2, <4>1, <5>1, <5>2, FilesFacts DEF NewRow, Row
      <4>2. CASE ~(queue[p] # {} /\ item[p] > 0)
        BY <3>2, <4>2, PipelineAssumption DEF NewRow, Row
      <4> QED BY <4>1, <4>2
    <3>4. PICK R : commits \in Seq(R)
      BY <1>1 DEF Shapes, Kinds
    <3> QED BY <2>2, <3>3, <3>4, LatestAppend
  <2> QED BY <1>1, <2>1, <2>2 DEF Effects
<1> QED BY <1>2 DEF Sources

\* A runner comes into a stage by loading its inputs.
LEMMA StaysLoaded ==
  ASSUME Shapes, NEW p \in Runner, AtStage(p), Step(p), ~LoadInputs(p), Loaded(p)'
  PROVE  Loaded(p) /\ queue'[p] = queue[p] /\ content'[p] = content[p]
<1> USE DEF Shapes, Kinds, Goto, Loaded
<1>1. CASE Invoke(p)
  BY <1>1 DEF Invoke
<1>2. CASE MakeDirs(p)
  BY <1>2 DEF MakeDirs
<1>3. CASE OpenLedger(p)
  BY <1>3 DEF OpenLedger
<1>4. CASE LoadInputs(p)
  BY <1>4
<1>5. CASE LoadRaises(p)
  BY <1>5 DEF LoadRaises, Fail
<1>6. CASE StageRaises(p)
  BY <1>6 DEF StageRaises, Fail
<1>7. CASE WriteFile(p)
  BY <1>7 DEF WriteFile
<1>8. CASE HashFile(p)
  BY <1>8 DEF HashFile
<1>9. CASE ReadTip(p)
  BY <1>9 DEF ReadTip
<1>10. CASE AppendStarted(p)
  BY <1>10 DEF AppendStarted, BeginOutput
<1>11. CASE AppendOutput(p)
  BY <1>11 DEF AppendOutput
<1>12. CASE LinkSidecar(p)
  BY <1>12 DEF LinkSidecar, BeginOutput
<1>13. CASE BeginReplay(p)
  BY <1>13 DEF BeginReplay
<1>14. CASE EndReplay(p)
  BY <1>14 DEF EndReplay
<1>15. CASE WriteReport(p)
  BY <1>15 DEF WriteReport
<1>16. CASE AppendReport(p)
  BY <1>16 DEF AppendReport, Return
<1>17. CASE NoReport(p)
  BY <1>17 DEF NoReport, Return
<1>18. CASE Crash(p)
  BY <1>18 DEF Crash, Return
<1> QED BY <1>1, <1>2, <1>3, <1>4, <1>5, <1>6, <1>7, <1>8, <1>9,
          <1>10, <1>11, <1>12, <1>13, <1>14, <1>15, <1>16, <1>17, <1>18 DEF Step

LEMMA CurrentStep ==
  ASSUME FreshInv, InputsAreEarlier, NEW p \in Runner, Step(p)
  PROVE  Current(p)'
<1> SUFFICES ASSUME Loaded(p)' PROVE content'[p].from = Sources(Stage(p))'
  BY DEF Current
<1>1. Shapes /\ AtStage(p) /\ OrderInv /\ Current(p)
  BY DEF FreshInv, OrderInv, AttemptInv, TypeInv, Local
<1>2. CASE LoadInputs(p)
  <2>1. /\ UNCHANGED <<queue, commits>>
        /\ content'[p].from = [x \in Inputs[Stage(p)] |-> Latest(x)]
    BY <1>1, <1>2 DEF LoadInputs, Shapes, IsFn
  <2> QED BY <2>1 DEF Sources, Stage, Latest
<1>3. CASE ~LoadInputs(p)
  <2>1. Loaded(p) /\ queue'[p] = queue[p] /\ content'[p] = content[p]
    BY <1>1, <1>3, StaysLoaded
  <2>2. Stage(p) \in 1..N /\ Stage(p) <= Stage(p) /\ Stage(p)' = Stage(p)
    BY <1>1, <2>1, StageFacts DEF Loaded, Stage
  <2>3. PICK s \in 1..N : s = Stage(p) /\ s <= Stage(p)
    BY <2>2
  <2>4. Sources(s)' = Sources(s)
    BY <1>1, <2>3, SourcesStay
  <2> QED BY <1>1, <2>1, <2>2, <2>3, <2>4 DEF Current, Sources
<1> QED BY <1>2, <1>3

LEMMA FreshStep ==
  ASSUME FreshInv, InputsAreEarlier, NEW p \in Runner, Step(p), forced = 0,
         NEW s \in 1..N, Full(s)', NEW x \in Files(s)
  PROVE  file'[x].from = Sources(s)'
<1>1. Shapes /\ AtStage(p) /\ OrderInv /\ Current(p) /\ Ahead(p) /\ Attempt(p) /\ TypeInv
  BY DEF FreshInv, OrderInv, AttemptInv, TypeInv, Local
<1>2. CASE file' = file
  <2>1. Full(s) /\ file[x].from = Sources(s)
    BY <1>2 DEF Full, Files, FreshInv
  <2>2. queue[p] = {} \/ s <= Stage(p)
    <3> SUFFICES ASSUME queue[p] # {}, ~(s <= Stage(p)) PROVE FALSE
      OBVIOUS
    <3>1. Stage(p) \in queue[p] /\ Stage(p) \in 1..N
      BY <1>1, StageFacts
    <3>2. s \in (Stage(p) + 1)..N
      BY <3>1, NIsNat
    <3> QED BY <1>1, <2>1, <3>1, <3>2, FilesFacts DEF Ahead, Full, Started
  <2> QED BY <1>1, <1>2, <2>1, <2>2, SourcesStay
<1>3. CASE file' # file
  <2>1. /\ pc[p] = "write" /\ UNCHANGED commits /\ InStage(p)
        /\ Stage(p) \in 1..N /\ Stage(p) \in queue[p] /\ Output(p) \in Files(Stage(p))
        /\ item[p] \in 1..Len(Outputs[Stage(p)]) /\ Output(p) \in Path
        /\ file'[Output(p)] = content[p]
        /\ \A y \in Path : y # Output(p) => file'[y] = file[y]
    BY <1>1, <1>3, WriteFacts
  <2>2. Sources(s)' = Sources(s)
    BY <2>1 DEF Sources, Latest
  <2>3. CASE s # Stage(p)
    <3>1. \A y \in Files(s) : y \in Path /\ y # Output(p)
      BY <2>1, <2>3, FilesFacts
    <3>2. Full(s)
      BY <2>1, <3>1 DEF Full, Files
    <3> QED BY <2>1, <2>2, <3>1, <3>2 DEF FreshInv
  <2>4. CASE s = Stage(p)
    <3>1. content[p].from = Sources(s)
      BY <1>1, <2>1, <2>4 DEF Current, Loaded, InStage
    <3>2. item[p] = Len(Outputs[s])
      <4> SUFFICES ASSUME item[p] # Len(Outputs[s]) PROVE FALSE
        OBVIOUS
      <4>1. file[Last(s)] = None
        BY <1>1, <2>1, <2>4 DEF Ahead, Wrote, HasRef
      <4>2. Len(Outputs[s]) \in 1..Len(Outputs[s])
        BY <1>1, <2>1, <2>4, StageFacts DEF InStage
      <4>3. Last(s) # Output(p) /\ Last(s) \in Files(s) /\ Last(s) \in Path
        BY <2>1, <2>4, <4>2, OutputsDiffer, FilesFacts DEF Last, Output
      <4>4. file'[Last(s)] = None
        BY <2>1, <4>1, <4>3
      <4> QED BY <4>3, <4>4 DEF Full, Files
    <3>3. file'[x] = content[p]
      <4>1. PICK i \in 1..Len(Outputs[s]) : x = Outputs[s][i]
        BY DEF Files
      <4>2. CASE i = item[p]
        BY <2>1, <2>4, <4>1, <4>2 DEF Output
      <4>3. CASE i # item[p]
        <5>1. i \in 1..(item[p] - 1) /\ x \in Path /\ x # Output(p)
          BY <2>1, <2>4, <3>2, <4>1, <4>3, OutputsDiffer DEF Output
        <5>2. file[x] = content[p]
          BY <1>1, <2>1, <2>4, <4>1, <5>1 DEF Attempt, Kept
        <5> QED BY <2>1, <5>1, <5>2
      <4> QED BY <4>2, <4>3
    <3> QED BY <2>2, <3>1, <3>3
  <2> QED BY <2>3, <2>4
<1> QED BY <1>2, <1>3

LEMMA FreshNext ==
  ASSUME NoFile, InputsAreEarlier, ~Overlap, ~StartAnywhere, IsFiniteSet(Path),
         FreshInv, [Next]_vars
  PROVE  FreshInv'
<1>1. OrderInv'
  BY OrderNext DEF FreshInv
<1>2. CASE UNCHANGED vars
  <2>1. UNCHANGED <<file, queue, forced, pc, content, commits>>
    BY <1>2 DEF vars
  <2>2. /\ \A s : Full(s)' = Full(s) /\ Sources(s)' = Sources(s)
        /\ \A p : Stage(p)' = Stage(p)
    BY <2>1 DEF Full, Files, Sources, Latest, Stage
  <2>3. \A p \in Runner : Current(p)'
    BY <2>1, <2>2 DEF FreshInv, Current, Loaded, Sources
  <2>4. ASSUME forced' = 0, NEW s \in 1..N, Full(s)', NEW x \in Files(s)
        PROVE  file'[x].from = Sources(s)'
    BY <2>1, <2>2, <2>4 DEF FreshInv
  <2> QED BY <1>1, <2>3, <2>4 DEF FreshInv, Files
<1>3. ASSUME NEW p \in Runner, Step(p) PROVE FreshInv'
  <2>1. \A q \in Runner : Current(q)'
    <3>1. ASSUME NEW q \in Runner, q # p PROVE Current(q)'
      <4>1. pc'[q] = "idle"
        BY <1>3, <3>1, OthersIdle DEF FreshInv, OrderInv, AttemptInv, TypeInv, ChainInv
      <4> QED BY <4>1 DEF Current, Loaded
    <3> QED BY <1>3, <3>1, CurrentStep
  <2>2. ASSUME forced' = 0, NEW s \in 1..N, Full(s)', NEW x \in Files(s)
        PROVE  file'[x].from = Sources(s)'
    <3>1. forced = 0
      BY <1>3, <2>2, ForcedStays DEF FreshInv
    <3> QED BY <1>3, <2>2, <3>1, FreshStep
  <2> QED BY <1>1, <2>1, <2>2 DEF FreshInv, Files
<1> QED BY <1>2, <1>3 DEF Next

\* Without --force a complete stage was computed from the latest commits of its
\* inputs: a kill between two files of a stage, and the attempt that repeats it,
\* leave no later stage behind that had read the earlier attempt's.
THEOREM StagesAreFresh ==
  ASSUME NoFile, InputsAreEarlier, ~Overlap, ~StartAnywhere, IsFiniteSet(Path)
  PROVE  Spec => []Fresh
<1>1. Init => FreshInv
  <2> SUFFICES ASSUME Init PROVE FreshInv
    OBVIOUS
  <2>1. \A p \in Runner : Current(p)
    BY DEF Init, Current, Loaded
  <2>2. \A s \in 1..N : ~Full(s)
    BY FilesFacts DEF Init, Full
  <2> QED BY <2>1, <2>2, OrderInit DEF FreshInv
<1>2. FreshInv /\ [Next]_vars => FreshInv'
  BY FreshNext
<1>3. FreshInv => Fresh
  BY CompletedIsFull DEF FreshInv, Fresh, Sources
<1> QED BY <1>1, <1>2, <1>3, PTL DEF Spec

-----------------------------------------------------------------------------
(* What a kill leaves behind.                                               *)

\* No row of the path has the content that is on disk.
Unledgered(x) == /\ file[x] # None
                 /\ \A i \in 1..Len(commits) :
                      commits[i].path = x => commits[i].content # file[x]

\* Between the write of a file and the append of its row.
Window(p) == pc[p] = "hash" \/ HasRef(p)

\* The files the ledger does not know and no runner is about to commit.
Stray == {x \in Path : Unledgered(x) /\ \A p \in Runner : Window(p) => x # Output(p)}

KillInv == AttemptInv /\ Cardinality(Stray) <= crashes

\* A runner that goes on either stays in the window or commits its file.
LEMMA WindowStep ==
  ASSUME AttemptInv, NEW p \in Runner, Step(p), ~Crash(p), Window(p)
  PROVE  \/ Window(p)' /\ Output(p)' = Output(p)
         \/ HasRef(p) /\ commits' = Append(commits, NewRow(p))
<1>1. Shapes /\ AtStage(p) /\ queue[p] # {} /\ item[p] > 0
  BY DEF AttemptInv, TypeInv, Local, AtStage, Window, HasRef
<1>2. UNCHANGED <<queue, item>> =>
        /\ Output(p)' = Output(p) /\ ReadsFirst(p)' = ReadsFirst(p)
  BY DEF Output, Stage, ReadsFirst
<1>3. CASE HashFile(p)
  BY <1>1, <1>2, <1>3 DEF HashFile, Window, HasRef, Goto, Shapes, Kinds
<1>4. CASE ReadTip(p)
  BY <1>1, <1>2, <1>4 DEF ReadTip, Window, HasRef, Goto, Shapes, Kinds
<1>5. CASE AppendOutput(p)
  BY <1>1, <1>5 DEF AppendOutput, NewRow, HasRef
<1>6. HashFile(p) \/ ReadTip(p) \/ AppendOutput(p)
  <2>1. pc[p] \in {"hash", "append", "tip"} /\ (pc[p] = "tip" => ~ReadsFirst(p))
    BY DEF Window, HasRef
  <2>2. item[p] # 0
    BY <1>1
  <2> QED BY <1>1, <2>1, <2>2 DEF Step, Invoke, MakeDirs, OpenLedger, LoadInputs, LoadRaises,
         StageRaises, WriteFile, AppendStarted, LinkSidecar, BeginReplay, EndReplay,
         WriteReport, AppendReport, NoReport
<1> QED BY <1>3, <1>4, <1>5, <1>6

\* What is unledgered and was not written by this step was unledgered before.
LEMMA UnledgeredBefore ==
  ASSUME Shapes, NEW p \in Runner, Effects(p), NEW x \in Path, Unledgered(x)', file'[x] = file[x]
  PROVE  Unledgered(x)
<1>1. CASE commits' = commits
  BY <1>1 DEF Unledgered
<1>2. CASE commits' = Append(commits, NewRow(p))
  <2>1. /\ Len(commits) \in Nat /\ Len(commits') = Len(commits) + 1
        /\ \A i \in 1..Len(commits) : commits'[i] = commits[i]
    BY <1>2, LedgerGrows DEF Shapes, Kinds
  <2> QED BY <2>1 DEF Unledgered
<1> QED BY <1>1, <1>2 DEF Effects

\* A step adds no stray file; a kill adds the one its runner was about to commit.
LEMMA StrayStep ==
  ASSUME ~Overlap, AttemptInv, NEW p \in Runner, Step(p), NEW x \in Stray', x \notin Stray
  PROVE  Crash(p) /\ x = Output(p)
<1>1. Shapes /\ Effects(p) /\ AtStage(p) /\ Attempt(p) /\ Solo
  BY StepEffects DEF AttemptInv, TypeInv, Local, ChainInv
<1>2. x \in Path /\ Unledgered(x)' /\ \A q \in Runner : Window(q)' => x # Output(q)'
  BY DEF Stray
<1>3. file'[x] = file[x]
  <2> SUFFICES ASSUME file'[x] # file[x] PROVE FALSE
    OBVIOUS
  <2>1. WriteFile(p)
    <3>1. pc[p] = "write" /\ pc'[p] = "hash"
      BY <1>1 DEF Effects
    <3>2. WriteFile(p) \/ StageRaises(p) \/ Crash(p)
      BY <3>1 DEF Step, Invoke, MakeDirs, OpenLedger, LoadInputs, LoadRaises,
         HashFile, ReadTip, AppendStarted, AppendOutput, LinkSidecar, BeginReplay, EndReplay,
         WriteReport, AppendReport, NoReport
    <3> QED BY <3>2 DEF StageRaises, Fail, Crash
  <2>2. x = Output(p) /\ Output(p)' = Output(p) /\ Window(p)'
    BY <1>1, <1>2, <2>1 DEF WriteFile, Shapes, Kinds, IsFn, Goto, Window, Output, Stage
  <2> QED BY <1>2, <2>2
<1>4. PICK q \in Runner : Window(q) /\ x = Output(q)
  BY <1>1, <1>2, <1>3, UnledgeredBefore DEF Stray
<1>5. q = p
  <2>1. q # p => pc[q] = "idle"
    BY <1>1, OthersIdle
  <2> QED BY <1>4, <2>1 DEF Window, HasRef
<1>6. Crash(p)
  <2> SUFFICES ASSUME ~Crash(p) PROVE FALSE
    OBVIOUS
  <2>1. HasRef(p) /\ commits' = Append(commits, NewRow(p))
    BY <1>2, <1>4, <1>5, WindowStep
  <2>2. NewRow(p) = Row(tip[p], x, file[x])
    BY <1>1, <1>4, <1>5, <2>1 DEF NewRow, HasRef, Attempt
  <2>3. /\ Len(commits) \in Nat /\ Len(commits') = Len(commits) + 1
        /\ commits'[Len(commits) + 1] = NewRow(p)
    BY <1>1, <2>1, LedgerGrows DEF Shapes, Kinds
  <2> QED BY <1>2, <1>3, <2>2, <2>3 DEF Unledgered, Row
<1> QED BY <1>4, <1>5, <1>6

\* One element more.
LEMMA OneMore ==
  ASSUME NEW S, IsFiniteSet(S), NEW x, NEW T \in SUBSET (S \cup {x})
  PROVE  Cardinality(S) \in Nat /\ Cardinality(T) \in Nat /\ Cardinality(T) <= Cardinality(S) + 1
<1>1. /\ IsFiniteSet(S \cup {x}) /\ Cardinality(S) \in Nat
      /\ Cardinality(S \cup {x}) = IF x \in S THEN Cardinality(S) ELSE Cardinality(S) + 1
  BY FS_AddElement, FS_CardinalityType
<1>2. Cardinality(S \cup {x}) <= Cardinality(S) + 1 /\ Cardinality(S \cup {x}) \in Nat
  <2>1. CASE x \in S
    BY <1>1, <2>1
  <2>2. CASE x \notin S
    BY <1>1, <2>2
  <2> QED BY <2>1, <2>2
<1>3. Cardinality(T) <= Cardinality(S \cup {x}) /\ Cardinality(T) \in Nat
  <2>1. IsFiniteSet(T) /\ Cardinality(T) <= Cardinality(S \cup {x})
    BY <1>1, FS_Subset
  <2> QED BY <2>1, FS_CardinalityType
<1> QED BY <1>1, <1>2, <1>3

LEMMA KillNext ==
  ASSUME ~Overlap, IsFiniteSet(Path), KillInv, [Next]_vars
  PROVE  KillInv'
<1>1. AttemptInv'
  BY AttemptNext DEF KillInv
<1>2. IsFiniteSet(Stray) /\ IsFiniteSet(Stray') /\ crashes \in Nat
      /\ Cardinality(Stray) \in Nat /\ Cardinality(Stray') \in Nat
  <2>1. Stray \subseteq Path /\ Stray' \subseteq Path
    BY DEF Stray
  <2> QED BY <2>1, FS_Subset, FS_CardinalityType DEF KillInv, AttemptInv, TypeInv, Shapes
<1>3. CASE UNCHANGED vars
  <2>1. Stray' = Stray /\ crashes' = crashes
    BY <1>3 DEF vars, Stray, Unledgered, Window, HasRef, ReadsFirst, Output, Stage
  <2> QED BY <1>1, <2>1 DEF KillInv
<1>4. ASSUME NEW p \in Runner, Step(p) PROVE KillInv'
  <2>1. CASE ~Crash(p)
    <3>1. Stray' \subseteq Stray
      BY <1>4, <2>1, StrayStep DEF KillInv
    <3>2. Cardinality(Stray') <= Cardinality(Stray)
      BY <1>2, <3>1, FS_Subset
    <3>3. crashes' = crashes
      BY <1>4, <2>1 DEF Step, Invoke, MakeDirs, OpenLedger, LoadInputs, LoadRaises, StageRaises,
         WriteFile, HashFile, ReadTip, AppendStarted, AppendOutput, LinkSidecar, BeginReplay,
         EndReplay, WriteReport, AppendReport, NoReport
    <3> QED BY <1>1, <1>2, <3>2, <3>3 DEF KillInv
  <2>2. CASE Crash(p)
    <3>1. Stray' \subseteq Stray \cup {Output(p)}
      BY <1>4, <2>2, StrayStep DEF KillInv
    <3>2. Cardinality(Stray') <= Cardinality(Stray) + 1
      <4>1. PICK x : x = Output(p)
        OBVIOUS
      <4>2. Stray' \in SUBSET (Stray \cup {x})
        BY <3>1, <4>1
      <4>3. PICK S, T : S = Stray /\ T = Stray'
        OBVIOUS
      <4>4. IsFiniteSet(S) /\ T \in SUBSET (S \cup {x})
        BY <1>2, <4>2, <4>3
      <4>5. Cardinality(T) <= Cardinality(S) + 1
        BY <4>4, OneMore
      <4> QED BY <4>3, <4>5
    <3>3. crashes' = crashes + 1
      BY <2>2 DEF Crash
    <3> QED BY <1>1, <1>2, <3>2, <3>3 DEF KillInv
  <2> QED BY <2>1, <2>2
<1> QED BY <1>3, <1>4 DEF Next

\* A runner that died left at most one file that the ledger does not know, however
\* often a stage was begun again: the next attempt takes up what the last one left.
THEOREM StrayFilesBounded ==
  ASSUME ~Overlap, IsFiniteSet(Path)
  PROVE  Spec => []OneAheadPerCrash
<1> DEFINE Active == {p \in Runner : pc[p] # "idle"}
           Unknown == {x \in Path : Unledgered(x)}
<1>1. Init => KillInv
  <2> SUFFICES ASSUME Init PROVE KillInv
    OBVIOUS
  <2>1. Stray = {} /\ crashes = 0
    BY DEF Init, Stray, Unledgered
  <2> QED BY <2>1, AttemptInit, FS_EmptySet DEF KillInv
<1>2. KillInv /\ [Next]_vars => KillInv'
  BY KillNext
<1>3. KillInv => OneAheadPerCrash
  <2> SUFFICES ASSUME KillInv PROVE Cardinality(Unknown) <= crashes + Cardinality(Active)
    BY DEF OneAheadPerCrash, Unledgered
  <2>1. Solo /\ crashes \in Nat /\ Cardinality(Stray) <= crashes
    BY DEF KillInv, AttemptInv, TypeInv, Shapes, ChainInv
  <2>2. IsFiniteSet(Stray) /\ Cardinality(Stray) \in Nat
    <3>1. Stray \subseteq Path
      BY DEF Stray
    <3> QED BY <3>1, FS_Subset, FS_CardinalityType
  <2>3. CASE Active = {}
    <3>1. Unknown = Stray
      BY <2>3 DEF Stray, Window, HasRef
    <3>2. Cardinality(Active) = 0
      BY <2>3, FS_EmptySet
    <3> QED BY <2>1, <2>2, <3>1, <3>2
  <2>4. ASSUME NEW p \in Active
        PROVE  Cardinality(Unknown) <= crashes + Cardinality(Active)
    <3>1. Active = {p}
      BY <2>1, <2>4 DEF Solo
    <3>2. Cardinality(Active) = 1
      BY <3>1, FS_Singleton
    <3>3. Unknown \subseteq Stray \cup {Output(p)}
      <4>1. \A q \in Runner : Window(q) => q = p
        BY <3>1 DEF Window, HasRef
      <4> QED BY <4>1 DEF Stray
    <3>4. Cardinality(Unknown) \in Nat /\ Cardinality(Unknown) <= Cardinality(Stray) + 1
      <4>1. PICK S, x : S = Stray /\ x = Output(p)
        OBVIOUS
      <4>2. IsFiniteSet(S) /\ Unknown \in SUBSET (S \cup {x})
        BY <2>2, <3>3, <4>1
      <4> HIDE DEF Unknown
      <4>3. Cardinality(Unknown) \in Nat /\ Cardinality(Unknown) <= Cardinality(S) + 1
        BY <4>2, OneMore
      <4> QED BY <4>1, <4>3
    <3> QED BY <2>1, <2>2, <3>2, <3>4
  <2> QED BY <2>3, <2>4
<1> QED BY <1>1, <1>2, <1>3, PTL DEF Spec
=============================================================================
