-------------------------- MODULE StageFilesProofs --------------------------
(***************************************************************************)
(* What the files, the ledger and the sidecars of a run agree on, for every  *)
(* pipeline and any number of kills, failures, forced reruns and resumptions. *)
(*                                                                         *)
(* First, the ledger stays one chain as long as runners do not overlap:       *)
(* append_commit never compares its parent with the tip, so what keeps the   *)
(* chain is that nobody appends between the reading of the tip and the       *)
(* append (TipInv), and that is so because one runner at most is active      *)
(* (Solo).  Second, the types and what a returned stage left on disk.         *)
(***************************************************************************)
EXTENDS StageRuns, TLAPS, FiniteSetTheorems, WellFoundedInduction

USE DEF disk, memory, counters

\* One runner at most is not idle.
Solo == \A p, q \in Runner : pc[p] # "idle" /\ pc[q] # "idle" => p = q

\* The runner has read the tip and will append under it.
Holds(p) == pc[p] = "append" \/ (pc[p] \in {"write", "hash"} /\ ReadsFirst(p))

\* The tip a runner holds is still the tip.
TipInv == \A p \in Runner : Holds(p) => tip[p] = Len(commits)

Kinds ==
  /\ \E R : commits \in Seq(R)
  /\ pc \in [Runner -> Labels]
  /\ tip \in [Runner -> Nat]

ChainInv == Kinds /\ Solo /\ TipInv /\ Linear

-----------------------------------------------------------------------------
\* Appending a row whose parent is the last row keeps the chain.
LEMMA AppendKeepsChain ==
  ASSUME NEW R, commits \in Seq(R), Linear, NEW row, row.parent = Len(commits),
         commits' = Append(commits, row)
  PROVE  /\ commits' \in Seq(R \cup {row})
         /\ Len(commits') = Len(commits) + 1
         /\ Linear'
<1>1. commits \in Seq(R \cup {row})
  OBVIOUS
<1>2. /\ commits' \in Seq(R \cup {row})
      /\ Len(commits') = Len(commits) + 1
      /\ \A i \in 1..Len(commits) : commits'[i] = commits[i]
      /\ commits'[Len(commits) + 1] = row
  BY <1>1
<1>3. ASSUME NEW i \in 1..Len(commits')
      PROVE  commits'[i].parent = i - 1
  <2>1. CASE i \in 1..Len(commits)
    BY <2>1, <1>2 DEF Linear
  <2>2. CASE i = Len(commits) + 1
    BY <2>2, <1>2
  <2> QED BY <1>2, <2>1, <2>2
<1> QED BY <1>2, <1>3 DEF Linear

\* The active runner moves on without appending; if it holds a tip then, it is
\* the current one.
LEMMA MoveKeepsChain ==
  ASSUME ChainInv, NEW p \in Runner, pc[p] # "idle",
         NEW label \in Labels, Goto(p, label), UNCHANGED commits,
         tip' \in [Runner -> Nat],
         Holds(p)' => tip'[p] = Len(commits)
  PROVE  ChainInv'
<1>1. \A q \in Runner : q # p => pc[q] = "idle" /\ pc'[q] = "idle"
  BY DEF ChainInv, Kinds, Solo, Goto
<1>2. Kinds'
  BY DEF ChainInv, Kinds, Goto
<1>3. Solo'
  BY <1>1 DEF Solo
<1>4. TipInv'
  <2>1. \A q \in Runner : q # p => ~Holds(q)'
    BY <1>1 DEF Holds
  <2> QED BY <2>1 DEF TipInv
<1> QED BY <1>2, <1>3, <1>4 DEF ChainInv, Linear

\* The active runner appends a row under the tip it has read and moves on.
LEMMA AppendStepKeepsChain ==
  ASSUME ChainInv, NEW p \in Runner, pc[p] = "append",
         NEW label \in Labels, Goto(p, label), ~Holds(p)',
         NEW path, NEW value, commits' = Append(commits, Row(tip[p], path, value)),
         tip' \in [Runner -> Nat]
  PROVE  ChainInv'
<1>1. \A q \in Runner : q # p => pc[q] = "idle" /\ pc'[q] = "idle"
  BY DEF ChainInv, Kinds, Solo, Goto
<1>2. PICK R : commits \in Seq(R)
  BY DEF ChainInv, Kinds
<1>3. Row(tip[p], path, value).parent = Len(commits)
  BY DEF ChainInv, TipInv, Holds, Row
<1>4. /\ commits' \in Seq(R \cup {Row(tip[p], path, value)})
      /\ Linear'
  BY <1>2, <1>3, AppendKeepsChain DEF ChainInv
<1>5. Kinds'
  BY <1>4 DEF ChainInv, Kinds, Goto
<1>6. Solo'
  BY <1>1 DEF Solo
<1>7. TipInv'
  <2>1. \A q \in Runner : ~Holds(q)'
    BY <1>1 DEF Holds
  <2> QED BY <2>1 DEF TipInv
<1> QED BY <1>4, <1>5, <1>6, <1>7 DEF ChainInv

-----------------------------------------------------------------------------
LEMMA ChainInit == Init => ChainInv
<1> SUFFICES ASSUME Init PROVE ChainInv
  OBVIOUS
<1>1. commits \in Seq({}) /\ Len(commits) = 0
  BY DEF Init
<1> QED BY <1>1 DEF Init, ChainInv, Kinds, Solo, TipInv, Holds, Linear, Labels

\* One case per action; a runner that is alone when it starts stays alone.
LEMMA ChainNext ==
  ASSUME ~Overlap, ChainInv, [Next]_vars
  PROVE  ChainInv'
<1> USE DEF Labels
<1>1. CASE UNCHANGED vars
  BY <1>1 DEF vars, ChainInv, Kinds, Solo, TipInv, Holds, ReadsFirst, Stage, Linear
<1>2. ASSUME NEW p \in Runner, Step(p)
      PROVE  ChainInv'
  <2>0. tip \in [Runner -> Nat] /\ Len(commits) \in Nat /\ pc \in [Runner -> Labels]
    BY DEF ChainInv, Kinds
  <2>1. CASE Invoke(p)
    <3>1. \A q \in Runner : pc[q] = "idle"
      BY <2>1 DEF Invoke
    <3>2. Goto(p, "dirs") /\ UNCHANGED <<commits, tip>>
      BY <2>1 DEF Invoke
    <3>3. \A q \in Runner : pc'[q] = (IF q = p THEN "dirs" ELSE "idle")
      BY <2>0, <3>1, <3>2 DEF Goto
    <3>4. Solo' /\ TipInv'
      BY <3>3 DEF Solo, TipInv, Holds
    <3> QED BY <3>2, <3>4 DEF ChainInv, Kinds, Linear, Goto
  <2>2. CASE MakeDirs(p)
    BY <2>0, <2>2, MoveKeepsChain DEF MakeDirs, Goto, Holds
  <2>3. CASE OpenLedger(p)
    BY <2>0, <2>3, MoveKeepsChain DEF OpenLedger, Goto, Holds
  <2>4. CASE LoadInputs(p)
    BY <2>0, <2>4, MoveKeepsChain DEF LoadInputs, Goto, Holds
  <2>5. CASE LoadRaises(p)
    BY <2>0, <2>5, MoveKeepsChain DEF LoadRaises, Fail, Goto, Holds
  <2>6. CASE StageRaises(p)
    BY <2>0, <2>6, MoveKeepsChain DEF StageRaises, Fail, Goto, Holds
  <2>7. CASE WriteFile(p)
    <3>1. pc[p] = "write" /\ Goto(p, "hash") /\ UNCHANGED <<commits, tip, queue>>
      BY <2>7 DEF WriteFile
    <3>2. Holds(p)' => Holds(p)
      BY <2>0, <3>1 DEF Holds, ReadsFirst, Stage, Goto
    <3> QED BY <2>0, <3>1, <3>2, MoveKeepsChain DEF ChainInv, TipInv
  <2>8. CASE HashFile(p)
    <3>1. /\ pc[p] = "hash" /\ UNCHANGED <<commits, tip, queue>>
          /\ Goto(p, IF ReadsFirst(p) THEN "append" ELSE "tip")
      BY <2>8 DEF HashFile
    <3>2. Holds(p)' => Holds(p)
      BY <2>0, <3>1 DEF Holds, ReadsFirst, Stage, Goto
    <3> QED BY <2>0, <3>1, <3>2, MoveKeepsChain DEF ChainInv, TipInv
  <2>9. CASE ReadTip(p)
    <3>1. tip' \in [Runner -> Nat] /\ tip'[p] = Len(commits)
      BY <2>0, <2>9 DEF ReadTip
    <3> QED BY <2>9, <3>1, MoveKeepsChain DEF ReadTip
  <2>10. CASE AppendStarted(p)
    <3>1. /\ pc[p] = "append" /\ UNCHANGED <<tip, queue>>
          /\ Goto(p, IF ReadsFirst(p) THEN "tip" ELSE "write")
          /\ commits' = Append(commits, Row(tip[p], None, NoContent))
      BY <2>10 DEF AppendStarted, BeginOutput
    <3>2. ~Holds(p)'
      BY <2>0, <3>1 DEF Holds, ReadsFirst, Stage, Goto
    <3> QED BY <2>0, <3>1, <3>2, AppendStepKeepsChain
  <2>11. CASE AppendOutput(p)
    <3>1. /\ pc[p] = "append" /\ Goto(p, "link")
          /\ commits' = Append(commits, Row(tip[p], Output(p), seen[p]))
          /\ tip' = [tip EXCEPT ![p] = Len(commits')]
      BY <2>11 DEF AppendOutput
    <3>2. PICK R : commits \in Seq(R)
      BY DEF ChainInv, Kinds
    <3>3. Len(commits') \in Nat
      BY <3>1, <3>2
    <3>4. tip' \in [Runner -> Nat] /\ ~Holds(p)'
      BY <2>0, <3>1, <3>3 DEF Goto, Holds
    <3> QED BY <3>1, <3>4, AppendStepKeepsChain
  <2>12. CASE LinkSidecar(p)
    <3>1. /\ pc[p] = "link" /\ UNCHANGED <<commits, tip>>
          /\ \/ Goto(p, "loop")
             \/ Goto(p, IF ReadsFirst(p) THEN "tip" ELSE "write") /\ UNCHANGED queue
      BY <2>12 DEF LinkSidecar, BeginOutput
    <3>2. ~Holds(p)'
      BY <2>0, <3>1 DEF Holds, ReadsFirst, Stage, Goto
    <3> QED BY <2>0, <3>1, <3>2, MoveKeepsChain
  <2>13. CASE BeginReplay(p)
    <3>1. tip' \in [Runner -> Nat] /\ ~Holds(p)'
      BY <2>0, <2>13 DEF BeginReplay, Goto, Holds
    <3> QED BY <2>13, <3>1, MoveKeepsChain DEF BeginReplay
  <2>14. CASE EndReplay(p)
    BY <2>0, <2>14, MoveKeepsChain DEF EndReplay, Goto, Holds
  <2>15. CASE WriteReport(p)
    BY <2>0, <2>15, MoveKeepsChain DEF WriteReport, Goto, Holds
  <2>16. CASE AppendReport(p)
    <3>1. tip' \in [Runner -> Nat] /\ ~Holds(p)'
      BY <2>0, <2>16 DEF AppendReport, Return, Goto, Holds
    <3> QED BY <2>16, <3>1, AppendStepKeepsChain DEF AppendReport, Return
  <2>17. CASE NoReport(p)
    <3>1. tip' \in [Runner -> Nat] /\ ~Holds(p)'
      BY <2>0, <2>17 DEF NoReport, Return, Goto, Holds
    <3> QED BY <2>17, <3>1, MoveKeepsChain DEF NoReport, Return
  <2>18. CASE Crash(p)
    <3>1. tip' \in [Runner -> Nat] /\ ~Holds(p)'
      BY <2>0, <2>18 DEF Crash, Return, Goto, Holds
    <3> QED BY <2>18, <3>1, MoveKeepsChain DEF Crash, Return
  <2> QED BY <1>2, <2>1, <2>2, <2>3, <2>4, <2>5, <2>6, <2>7, <2>8, <2>9, <2>10, <2>11,
             <2>12, <2>13, <2>14, <2>15, <2>16, <2>17, <2>18 DEF Step
<1> QED BY <1>1, <1>2 DEF Next

\* Without overlapping runners every row of the ledger extends the row before
\* it, whatever is killed, fails, is forced or resumed: validate_ledger_tip
\* never finds a broken lineage.
THEOREM LinearWhenAlone ==
  ASSUME ~Overlap
  PROVE  Spec => []Linear
<1>1. ChainInv /\ [Next]_vars => ChainInv'
  BY ChainNext
<1>2. ChainInv => Linear
  BY DEF ChainInv
<1> QED BY <1>1, <1>2, ChainInit, PTL DEF Spec

-----------------------------------------------------------------------------
(* The operators the model is built from. *)

\* Every non-empty set of positions has a least one, and Min returns it: among
\* the finite sets 1..k, ordered by inclusion, one is minimal.
LEMMA Least ==
  ASSUME NEW n \in Nat, NEW S \in SUBSET (1..n), S # {}
  PROVE  Min(S) \in S /\ \A y \in S : Min(S) <= y
<1> DEFINE Order == StrictSubsetOrdering(1..n)
           Starts == {1..k : k \in S}
<1>1. IsWellFoundedOn(Order, FiniteSubsetsOf(1..n))
  BY FS_StrictSubsetOrderingWellFounded
<1>2. Starts \subseteq FiniteSubsetsOf(1..n) /\ Starts # {}
  <2>1. FiniteSubsetsOf(1..n) = SUBSET (1..n)
    <3>1. 1 \in Int /\ n \in Int
      OBVIOUS
    <3>2. IsFiniteSet(1..n)
      BY <3>1, FS_Interval
    <3> QED BY <3>2, FS_FiniteSubsetsOfFinite
  <2>2. \A k \in S : 1..k \in SUBSET (1..n)
    OBVIOUS
  <2>3. \A T \in Starts : T \in FiniteSubsetsOf(1..n)
    BY <2>1, <2>2
  <2>4. PICK k \in S : TRUE
    OBVIOUS
  <2>5. 1..k \in Starts
    OBVIOUS
  <2> QED BY <2>3, <2>5
<1>3. PICK T \in Starts : \A U \in Starts : <<U, T>> \notin Order
  <2> HIDE DEF Order, Starts
  <2> QED BY <1>1, <1>2, WFMin
<1>4. PICK x \in S : T = 1..x
  BY <1>3
<1>5. ASSUME NEW y \in S, y < x PROVE FALSE
  <2>1. 1..y \in SUBSET (1..n) /\ T \in SUBSET (1..n) /\ 1..y \subseteq T /\ x \in T /\ x \notin 1..y
    BY <1>4, <1>5
  <2>2. <<1..y, T>> \in Order
    BY <2>1 DEF StrictSubsetOrdering
  <2> QED BY <1>3, <2>2
<1>6. \A y \in S : x <= y
  BY <1>5
<1> QED BY <1>6 DEF Min

\* A path with a latest commit has a row.
LEMMA LatestOfNone ==
  ASSUME NEW x, Latest(x) # 0
  PROVE  \E i \in 1..Len(commits) : commits[i].path = x
<1> SUFFICES ASSUME ~\E i \in 1..Len(commits) : commits[i].path = x PROVE Latest(x) = 0
  OBVIOUS
<1>1. {0} \cup {j \in 1..Len(commits) : commits[j].path = x} = {0}
  OBVIOUS
<1>2. Max({0}) = 0
  BY DEF Max
<1> QED BY <1>1, <1>2 DEF Latest

\* A row of another path changes nothing; a row of this path is the latest.
LEMMA LatestAppend ==
  ASSUME NEW R, commits \in Seq(R), NEW row, commits' = Append(commits, row), NEW x
  PROVE  /\ row.path # x => Latest(x)' = Latest(x)
         /\ row.path = x => Latest(x)' = Len(commits) + 1
<1>1. /\ Len(commits') = Len(commits) + 1 /\ Len(commits) \in Nat
      /\ \A i \in 1..Len(commits) : commits'[i] = commits[i]
      /\ commits'[Len(commits) + 1] = row
  <2>1. commits \in Seq(R \cup {row})
    OBVIOUS
  <2> QED BY <2>1
<1>2. ASSUME row.path # x PROVE Latest(x)' = Latest(x)
  <2>1. {j \in 1..Len(commits') : commits'[j].path = x}
          = {j \in 1..Len(commits) : commits[j].path = x}
    BY <1>1, <1>2
  <2> QED BY <2>1 DEF Latest
<1>3. ASSUME row.path = x PROVE Latest(x)' = Len(commits) + 1
  <2> DEFINE S == {0} \cup {j \in 1..Len(commits') : commits'[j].path = x}
  <2>1. Len(commits) + 1 \in S /\ \A j \in S : Len(commits) + 1 >= j
    BY <1>1, <1>3
  <2>2. \A k \in S : (\A j \in S : k >= j) => k = Len(commits) + 1
    BY <2>1, <1>1
  <2> HIDE DEF S
  <2>3. Max(S) = Len(commits) + 1
    BY <2>1, <2>2 DEF Max
  <2> QED BY <2>3 DEF Latest, S
<1> QED BY <1>2, <1>3

-----------------------------------------------------------------------------
(* Types.  A runner hashes only a file that was written, and commits only a *)
(* reference it has built: HasRef.                                          *)

IsFn(f, S) == f = [x \in S |-> f[x]]

\* The runner has built the reference of its current output.
HasRef(p) == /\ queue[p] # {} /\ item[p] > 0
             /\ pc[p] = "append" \/ (pc[p] = "tip" /\ ~ReadsFirst(p))

AtStage(p) ==
  /\ pc[p] \in {"write", "hash", "link"} => queue[p] # {} /\ item[p] > 0
  /\ queue[p] # {} /\ pc[p] \in {"write", "hash", "link", "tip", "append"} =>
       item[p] <= Len(Outputs[Stage(p)])
  /\ pc[p] = "hash" => IsContent(file[Output(p)])
  /\ HasRef(p) => IsContent(seen[p])

Local(p) ==
  /\ tip[p] <= Len(commits) /\ item[p] <= Cardinality(Path)
  /\ IsContent(content[p])
  /\ AtStage(p)

Rows == \A i \in 1..Len(commits) : /\ commits[i].parent \in 0..(i - 1)
                                   /\ commits[i].path \in Path \cup {None}
                                   /\ IsContent(commits[i].content)

Flags ==
  /\ dirs \in BOOLEAN /\ database \in BOOLEAN
  /\ report \in [exists : BOOLEAN, replay : BOOLEAN]
  /\ replay \in [Runner -> BOOLEAN] /\ mutated \in [Runner -> BOOLEAN]
  /\ replayed \in [Runner -> BOOLEAN]

Shapes ==
  /\ Kinds
  /\ attempts \in Nat /\ forced \in Nat /\ crashes \in Nat
  /\ sidecar \in [Path -> Nat]
  /\ IsFn(file, Path) /\ IsFn(content, Runner) /\ IsFn(seen, Runner)
  /\ queue \in [Runner -> SUBSET (1..N)] /\ item \in [Runner -> Nat]

Contents ==
  /\ Rows
  /\ \A x \in Path : sidecar[x] <= Len(commits) /\ (file[x] # None => IsContent(file[x]))

TypeInv == Flags /\ Shapes /\ Contents /\ \A p \in Runner : Local(p)

\* What a step of one runner does to what it shares with the others.
NewRow(p) == IF queue[p] # {} /\ item[p] > 0 THEN Row(tip[p], Output(p), seen[p])
                                             ELSE Row(tip[p], None, NoContent)
Effects(p) ==
  /\ \/ file' = file
     \/ pc[p] = "write" /\ pc'[p] = "hash" /\ file' = [file EXCEPT ![Output(p)] = content[p]]
  /\ \/ commits' = commits
     \/ pc[p] = "append" /\ commits' = Append(commits, NewRow(p))
  /\ \/ sidecar' = sidecar
     \/ pc[p] = "link" /\ sidecar' = [sidecar EXCEPT ![Output(p)] = tip[p]]
  /\ attempts' \in {attempts, attempts + 1}

Same(q) == /\ pc'[q] = pc[q] /\ queue'[q] = queue[q] /\ item'[q] = item[q]
           /\ content'[q] = content[q] /\ seen'[q] = seen[q] /\ tip'[q] = tip[q]

\* The stage a runner is at is one of its queue, the first of them.
LEMMA StageIsFirst ==
  ASSUME NEW p \in Runner, queue[p] \in SUBSET (1..N), queue[p] # {}, N \in Nat
  PROVE  Stage(p) \in queue[p] /\ \A t \in queue[p] : Stage(p) <= t
BY Least DEF Stage

LEMMA OutputInPath ==
  ASSUME NEW p \in Runner, queue[p] \in SUBSET (1..N), queue[p] # {}, N \in Nat,
         item[p] \in 1..Len(Outputs[Stage(p)])
  PROVE  Output(p) \in Path
<1>1. Stage(p) \in 1..N
  BY StageIsFirst
<1>2. Outputs[Stage(p)] \in Seq(Path)
  BY <1>1, PipelineAssumption
<1> QED BY <1>2 DEF Output

LEMMA StepEffects ==
  ASSUME Shapes, NEW p \in Runner, Step(p)
  PROVE  Effects(p)
<1> USE DEF Shapes, Kinds, Effects
<1>1. CASE Invoke(p)
  BY <1>1 DEF Invoke
<1>2. CASE MakeDirs(p) \/ OpenLedger(p)
  BY <1>2 DEF MakeDirs, OpenLedger
<1>3. CASE LoadInputs(p)
  BY <1>3 DEF LoadInputs
<1>4. CASE LoadRaises(p) \/ StageRaises(p)
  BY <1>4 DEF LoadRaises, StageRaises, Fail
<1>5. CASE WriteFile(p)
  BY <1>5 DEF WriteFile, Goto
<1>6. CASE HashFile(p) \/ ReadTip(p)
  BY <1>6 DEF HashFile, ReadTip
<1>7. CASE AppendStarted(p)
  BY <1>7 DEF AppendStarted, NewRow
<1>8. CASE AppendOutput(p)
  BY <1>8 DEF AppendOutput, NewRow
<1>9. CASE LinkSidecar(p)
  BY <1>9 DEF LinkSidecar
<1>10. CASE BeginReplay(p) \/ EndReplay(p) \/ WriteReport(p)
  BY <1>10 DEF BeginReplay, EndReplay, WriteReport
<1>11. CASE AppendReport(p)
  BY <1>11 DEF AppendReport, NewRow
<1>12. CASE NoReport(p) \/ Crash(p)
  BY <1>12 DEF NoReport, Crash
<1> QED BY <1>1, <1>2, <1>3, <1>4, <1>5, <1>6, <1>7, <1>8, <1>9, <1>10, <1>11, <1>12 DEF Step

\* Only the runner that moves changes what it holds in memory.
LEMMA OthersWait ==
  ASSUME Shapes, NEW p \in Runner, Step(p), NEW q \in Runner, q # p
  PROVE  Same(q)
<1> USE DEF Shapes, Kinds, IsFn, Same, Goto
<1>1. CASE Invoke(p)
  BY <1>1 DEF Invoke
<1>2. CASE MakeDirs(p)
  BY <1>2 DEF MakeDirs
<1>3. CASE OpenLedger(p)
  BY <1>3 DEF OpenLedger
<1>4. CASE LoadInputs(p)
  BY <1>4 DEF LoadInputs
<1>5. CASE LoadRaises(p)
  BY <1>5 DEF LoadRaises, Fail
<1>6. CASE StageRaises(p)
  BY <1>6 DEF StageRaises, Fail
<1>7. CASE WriteFile(p)
  BY <1>7 DEF WriteFile
<1>8. CASE HashFile(p)
  BY <1>8 DEF HashFile
<1>9. CASE ReadTip(p)
  BY <1>9 DEF ReadTip
<1>10. CASE AppendStarted(p)
  BY <1>10 DEF AppendStarted, BeginOutput
<1>11. CASE AppendOutput(p)
  BY <1>11 DEF AppendOutput
<1>12. CASE LinkSidecar(p)
  BY <1>12 DEF LinkSidecar, BeginOutput
<1>13. CASE BeginReplay(p)
  BY <1>13 DEF BeginReplay
<1>14. CASE EndReplay(p)
  BY <1>14 DEF EndReplay
<1>15. CASE WriteReport(p)
  BY <1>15 DEF WriteReport
<1>16. CASE AppendReport(p)
  BY <1>16 DEF AppendReport, Return
<1>17. CASE NoReport(p)
  BY <1>17 DEF NoReport, Return
<1>18. CASE Crash(p)
  BY <1>18 DEF Crash, Return
<1> QED BY <1>1, <1>2, <1>3, <1>4, <1>5, <1>6, <1>7, <1>8, <1>9,
          <1>10, <1>11, <1>12, <1>13, <1>14, <1>15, <1>16, <1>17, <1>18 DEF Step

LEMMA FlagsKept ==
  ASSUME Flags, Shapes, NEW p \in Runner, Step(p)
  PROVE  Flags'
<1> USE DEF Flags, Shapes, Kinds, Goto
<1>1. CASE Invoke(p)
  BY <1>1 DEF Invoke
<1>2. CASE MakeDirs(p)
  BY <1>2 DEF MakeDirs
<1>3. CASE OpenLedger(p)
  BY <1>3 DEF OpenLedger
<1>4. CASE LoadInputs(p)
  BY <1>4 DEF LoadInputs
<1>5. CASE LoadRaises(p)
  BY <1>5 DEF LoadRaises, Fail
<1>6. CASE StageRaises(p)
  BY <1>6 DEF StageRaises, Fail
<1>7. CASE WriteFile(p)
  BY <1>7 DEF WriteFile
<1>8. CASE HashFile(p)
  BY <1>8 DEF HashFile
<1>9. CASE ReadTip(p)
  BY <1>9 DEF ReadTip
<1>10. CASE AppendStarted(p)
  BY <1>10 DEF AppendStarted, BeginOutput
<1>11. CASE AppendOutput(p)
  BY <1>11 DEF AppendOutput
<1>12. CASE LinkSidecar(p)
  BY <1>12 DEF LinkSidecar, BeginOutput
<1>13. CASE BeginReplay(p)
  BY <1>13 DEF BeginReplay
<1>14. CASE EndReplay(p)
  BY <1>14 DEF EndReplay
<1>15. CASE WriteReport(p)
  BY <1>15 DEF WriteReport
<1>16. CASE AppendReport(p)
  BY <1>16 DEF AppendReport, Return
<1>17. CASE NoReport(p)
  BY <1>17 DEF NoReport, Return
<1>18. CASE Crash(p)
  BY <1>18 DEF Crash, Return
<1> QED BY <1>1, <1>2, <1>3, <1>4, <1>5, <1>6, <1>7, <1>8, <1>9,
          <1>10, <1>11, <1>12, <1>13, <1>14, <1>15, <1>16, <1>17, <1>18 DEF Step

\* The ledger only grows, and by one row at a time.
LEMMA LedgerGrows ==
  ASSUME \E R : commits \in Seq(R), NEW row, commits' = Append(commits, row)
  PROVE  /\ \E R : commits' \in Seq(R)
         /\ Len(commits) \in Nat /\ Len(commits') = Len(commits) + 1
         /\ \A i \in 1..Len(commits) : commits'[i] = commits[i]
         /\ commits'[Len(commits) + 1] = row
<1>1. PICK R : commits \in Seq(R)
  OBVIOUS
<1>2. commits \in Seq(R \cup {row})
  BY <1>1
<1>3. commits' \in Seq(R \cup {row})
  BY <1>2
<1> QED BY <1>2, <1>3

LEMMA ChosenAreStages ==
  ASSUME NEW first \in 1..Replay, NEW last \in 1..Replay, NEW policy
  PROVE  Chosen(first, last, policy) \in SUBSET (1..N)
<1>1. N \in Nat
  BY PipelineAssumption DEF N
<1> QED BY <1>1 DEF Chosen, Replay

LEMMA ShapesKept ==
  ASSUME Shapes, NEW p \in Runner, Step(p)
  PROVE  Shapes'
<1>0. /\ \E R : commits' \in Seq(R)
      /\ Len(commits) \in Nat /\ Len(commits') \in Nat
  <2>1. Effects(p) /\ \E R : commits \in Seq(R)
    BY StepEffects DEF Shapes, Kinds
  <2>2. Len(commits) \in Nat
    BY <2>1
  <2> QED BY <2>1, <2>2, LedgerGrows DEF Effects
<1> USE DEF Shapes, Kinds, IsFn, Labels, Goto
<1>1. CASE Invoke(p)
  BY <1>1, ChosenAreStages DEF Invoke
<1>2. CASE MakeDirs(p)
  BY <1>2, <1>0 DEF MakeDirs
<1>3. CASE OpenLedger(p)
  BY <1>3, <1>0 DEF OpenLedger
<1>4. CASE LoadInputs(p)
  <2>1. /\ attempts' = attempts + 1 /\ UNCHANGED <<commits, tip, queue, file, seen, sidecar, forced, crashes>>
        /\ IsFn(content', Runner) /\ item' \in [Runner -> Nat] /\ pc' = [pc EXCEPT ![p] = "tip"]
    BY <1>4 DEF LoadInputs
  <2> QED BY <2>1, <1>0
<1>5. CASE LoadRaises(p)
  BY <1>5, <1>0 DEF LoadRaises, Fail
<1>6. CASE StageRaises(p)
  BY <1>6, <1>0 DEF StageRaises, Fail
<1>7. CASE WriteFile(p)
  BY <1>7, <1>0 DEF WriteFile
<1>8. CASE HashFile(p)
  BY <1>8, <1>0 DEF HashFile
<1>9. CASE ReadTip(p)
  BY <1>9, <1>0 DEF ReadTip
<1>10. CASE AppendStarted(p)
  BY <1>10, <1>0 DEF AppendStarted, BeginOutput
<1>11. CASE AppendOutput(p)
  BY <1>11, <1>0 DEF AppendOutput
<1>12. CASE LinkSidecar(p)
  <2>1. /\ UNCHANGED <<commits, tip, file, content, seen, attempts, forced, crashes>>
        /\ sidecar' \in [Path -> Nat]
    BY <1>12 DEF LinkSidecar
  <2>2. \E label \in {"write", "tip", "loop"} : pc' = [pc EXCEPT ![p] = label]
    BY <1>12 DEF LinkSidecar, BeginOutput
  <2>3. \/ item' = [item EXCEPT ![p] = @ + 1] /\ queue' = queue
        \/ /\ item' = [item EXCEPT ![p] = 0]
           /\ \E S \in {queue[p] \ {Stage(p)}, {}} : queue' = [queue EXCEPT ![p] = S]
    BY <1>12 DEF LinkSidecar
  <2>4. item' \in [Runner -> Nat] /\ queue' \in [Runner -> SUBSET (1..N)]
    <3>1. queue[p] \ {Stage(p)} \in SUBSET (1..N)
      OBVIOUS
    <3>2. queue' \in [Runner -> SUBSET (1..N)]
      <4>1. CASE queue' = queue
        BY <4>1
      <4>2. ASSUME NEW S \in {queue[p] \ {Stage(p)}, {}}, queue' = [queue EXCEPT ![p] = S]
            PROVE  queue' \in [Runner -> SUBSET (1..N)]
        <5>1. S \in SUBSET (1..N)
          BY <3>1
        <5> QED BY <4>2, <5>1
      <4> QED BY <2>3, <4>1, <4>2
    <3>3. item' \in [Runner -> Nat]
      <4>1. item' = [item EXCEPT ![p] = @ + 1] \/ item' = [item EXCEPT ![p] = 0]
        BY <2>3
      <4>2. item \in [Runner -> Nat]
        OBVIOUS
      <4> HIDE DEF Shapes
      <4>3. CASE item' = [item EXCEPT ![p] = @ + 1]
        BY <4>2, <4>3
      <4>4. CASE item' = [item EXCEPT ![p] = 0]
        BY <4>2, <4>4
      <4> QED BY <4>1, <4>3, <4>4
    <3> QED BY <3>2, <3>3
  <2> QED BY <2>1, <2>2, <2>4, <1>0
<1>13. CASE BeginReplay(p)
  BY <1>13, <1>0 DEF BeginReplay
<1>14. CASE EndReplay(p)
  BY <1>14, <1>0 DEF EndReplay
<1>15. CASE WriteReport(p)
  BY <1>15, <1>0 DEF WriteReport
<1>16. CASE AppendReport(p)
  BY <1>16, <1>0 DEF AppendReport, Return
<1>17. CASE NoReport(p)
  BY <1>17, <1>0 DEF NoReport, Return
<1>18. CASE Crash(p)
  <2>1. Return(p) /\ crashes' \in Nat /\ UNCHANGED <<commits, file, sidecar, attempts, forced>>
    BY <1>18 DEF Crash
  <2> QED BY <2>1, <1>0 DEF Return
<1> QED BY <1>1, <1>2, <1>3, <1>4, <1>5, <1>6, <1>7, <1>8, <1>9,
          <1>10, <1>11, <1>12, <1>13, <1>14, <1>15, <1>16, <1>17, <1>18 DEF Step

LEMMA NIsNat == N \in Nat
BY PipelineAssumption DEF N

\* Where the runner is in its stage, when it is in one.
LEMMA StageFacts ==
  ASSUME Shapes, NEW p \in Runner, queue[p] # {}
  PROVE  /\ Stage(p) \in queue[p] /\ Stage(p) \in 1..N
         /\ \A t \in queue[p] : Stage(p) <= t
         /\ Outputs[Stage(p)] \in Seq(Path) /\ Len(Outputs[Stage(p)]) \in Nat \ {0}
<1>1. queue[p] \in SUBSET (1..N) /\ queue[p] # {}
  BY DEF Shapes
<1>2. /\ Stage(p) \in queue[p] /\ Stage(p) \in 1..N
      /\ \A t \in queue[p] : Stage(p) <= t
  BY <1>1, StageIsFirst, NIsNat
<1>3. Outputs[Stage(p)] \in Seq(Path) /\ Outputs[Stage(p)] # <<>>
  BY <1>2, PipelineAssumption
<1> QED BY <1>2, <1>3

LEMMA OutputFacts ==
  ASSUME Shapes, NEW p \in Runner, AtStage(p),
         pc[p] \in {"write", "hash", "link"} \/ HasRef(p)
  PROVE  /\ queue[p] # {} /\ item[p] \in 1..Len(Outputs[Stage(p)])
         /\ Output(p) \in Path
<1>1. queue[p] # {} /\ item[p] > 0 /\ item[p] <= Len(Outputs[Stage(p)]) /\ item[p] \in Nat
  BY DEF AtStage, HasRef, Shapes
<1>2. item[p] \in 1..Len(Outputs[Stage(p)])
  BY <1>1, StageFacts
<1> QED BY <1>1, <1>2, StageFacts DEF Output

LEMMA ContentsKept ==
  ASSUME TypeInv, NEW p \in Runner, Step(p)
  PROVE  /\ Contents'
         /\ \A c : IsContent(c) => c.attempt \in 0..attempts'
         /\ Len(commits) \in Nat /\ Len(commits') \in Nat /\ Len(commits) <= Len(commits')
<1>1. Effects(p) /\ Shapes /\ Contents /\ Local(p) /\ AtStage(p)
  BY StepEffects DEF TypeInv, Local
<1>2. \A c : IsContent(c) => c.attempt \in 0..attempts'
  BY <1>1 DEF Effects, Shapes, IsContent
<1>3. CASE commits' = commits
  <2>1. Len(commits) \in Nat
    BY <1>1 DEF Shapes, Kinds
  <2>2. Rows'
    BY <1>1, <1>2, <1>3 DEF Contents, Rows, IsContent
  <2>3. ASSUME NEW x \in Path
        PROVE  sidecar'[x] <= Len(commits')
    BY <1>1, <1>3 DEF Effects, Contents, Local, Shapes
  <2>4. ASSUME NEW x \in Path, file'[x] # None
        PROVE  file'[x].attempt \in 0..attempts'
    BY <1>1, <1>2, <2>4 DEF Effects, Contents, Local, Shapes, IsFn
  <2> QED BY <1>2, <1>3, <2>1, <2>2, <2>3, <2>4 DEF Contents, IsContent
<1>4. CASE pc[p] = "append" /\ commits' = Append(commits, NewRow(p))
  <2>1. /\ Len(commits) \in Nat /\ Len(commits') = Len(commits) + 1
        /\ \A i \in 1..Len(commits) : commits'[i] = commits[i]
        /\ commits'[Len(commits) + 1] = NewRow(p)
    BY <1>1, <1>4, LedgerGrows DEF Shapes, Kinds
  <2>2. file' = file /\ sidecar' = sidecar
    BY <1>1, <1>4 DEF Effects
  <2>3. /\ NewRow(p).parent \in 0..Len(commits)
        /\ NewRow(p).path \in Path \cup {None}
        /\ IsContent(NewRow(p).content)
    <3>1. tip[p] \in 0..Len(commits)
      BY <1>1, <2>1 DEF Local, Shapes, Kinds
    <3>2. CASE queue[p] # {} /\ item[p] > 0
      <4>1. HasRef(p)
        BY <1>4, <3>2 DEF HasRef
      <4>2. Output(p) \in Path /\ IsContent(seen[p])
        BY <1>1, <4>1, OutputFacts DEF AtStage
      <4> QED BY <3>1, <3>2, <4>2 DEF NewRow, Row
    <3>3. CASE ~(queue[p] # {} /\ item[p] > 0)
      <4>1. IsContent(NoContent)
        BY <1>1 DEF IsContent, NoContent, Shapes
      <4> QED BY <3>1, <3>3, <4>1 DEF NewRow, Row
    <3> QED BY <3>2, <3>3
  <2>4. ASSUME NEW i \in 1..Len(commits')
        PROVE  /\ commits'[i].parent \in 0..(i - 1) /\ commits'[i].path \in Path \cup {None}
               /\ commits'[i].content.attempt \in 0..attempts'
    <3>1. CASE i \in 1..Len(commits)
      BY <1>1, <1>2, <2>1, <3>1 DEF Contents, Rows
    <3>2. CASE i = Len(commits) + 1
      BY <1>2, <2>1, <2>3, <3>2
    <3> QED BY <2>1, <3>1, <3>2
  <2>5. Rows'
    BY <2>4 DEF Rows, IsContent
  <2> QED BY <1>1, <1>2, <2>1, <2>2, <2>5 DEF Contents, IsContent, Shapes
<1> QED BY <1>1, <1>2, <1>3, <1>4 DEF Effects

\* No stage has more outputs than there are paths.
LEMMA OutputsFit ==
  ASSUME IsFiniteSet(Path), NEW s \in 1..N
  PROVE  Len(Outputs[s]) \in Nat /\ Len(Outputs[s]) <= Cardinality(Path)
<1>1. Outputs[s] \in Seq(Path) /\ Len(Outputs[s]) \in Nat
  BY PipelineAssumption
<1> DEFINE f == [i \in 1..Len(Outputs[s]) |-> Outputs[s][i]]
<1>2. f \in Injection(1..Len(Outputs[s]), Path)
  BY <1>1, PipelineAssumption DEF Injection, IsInjective
<1> HIDE DEF f
<1>3. Cardinality(1..Len(Outputs[s])) <= Cardinality(Path)
  BY <1>2, FS_Injection
<1>4. Cardinality(1..Len(Outputs[s])) = Len(Outputs[s])
  <2>1. 1 \in Int /\ Len(Outputs[s]) \in Int
    BY <1>1
  <2> QED BY <1>1, <2>1, FS_Interval
<1> QED BY <1>1, <1>3, <1>4

\* What a runner holds is undisturbed by the others.
LEMMA OthersLocal ==
  ASSUME TypeInv, NEW p \in Runner, Step(p), NEW q \in Runner, q # p
  PROVE  Local(q)'
<1>1. Same(q) /\ Local(q) /\ AtStage(q) /\ Shapes /\ Effects(p) /\ IsContent(content[p])
  BY OthersWait, StepEffects DEF TypeInv, Local
<1>2. /\ \A c : IsContent(c) => c.attempt \in 0..attempts'
      /\ Len(commits) \in Nat /\ Len(commits') \in Nat /\ Len(commits) <= Len(commits')
  BY ContentsKept
<1>3. Stage(q)' = Stage(q) /\ Output(q)' = Output(q) /\ ReadsFirst(q)' = ReadsFirst(q)
      /\ HasRef(q)' = HasRef(q)
  BY <1>1 DEF Same, Stage, Output, ReadsFirst, HasRef
<1>4. pc[q] = "hash" => file'[Output(q)].attempt \in 0..attempts'
  <2> SUFFICES ASSUME pc[q] = "hash" PROVE file'[Output(q)].attempt \in 0..attempts'
    OBVIOUS
  <2>1. IsContent(file[Output(q)]) /\ Output(q) \in Path
    BY <1>1, OutputFacts DEF AtStage
  <2> QED BY <1>1, <1>2, <2>1 DEF Effects, Shapes, IsFn
<1>5. tip'[q] <= Len(commits') /\ tip[q] \in Nat
  BY <1>1, <1>2 DEF Same, Local, Shapes, Kinds
<1>6. AtStage(q)'
  BY <1>1, <1>2, <1>3, <1>4 DEF Same, AtStage, IsContent
<1> QED BY <1>1, <1>2, <1>5, <1>6 DEF Local, Same, IsContent

\* The runner that moves ends where its step leaves it.
LEMMA OwnLocal ==
  ASSUME TypeInv, IsFiniteSet(Path), NEW p \in Runner, Step(p)
  PROVE  Local(p)'
<1>1. /\ Shapes /\ Shapes' /\ Effects(p) /\ Local(p) /\ AtStage(p)
      /\ \A c : IsContent(c) => c.attempt \in 0..attempts'
      /\ Len(commits) \in Nat /\ Len(commits') \in Nat /\ Len(commits) <= Len(commits')
  BY ContentsKept, ShapesKept, StepEffects DEF TypeInv, Local
<1>2. /\ NoContent.attempt \in 0..attempts' /\ Cardinality(Path) \in Nat
      /\ tip[p] \in Nat /\ item[p] \in Nat
  BY <1>1, FS_CardinalityType DEF NoContent, Shapes, Kinds
<1>3. ASSUME pc'[p] \in {"idle", "dirs", "database", "loop", "replay"}
      PROVE  AtStage(p)'
  BY <1>3 DEF AtStage, HasRef
<1>4. ASSUME queue'[p] = {}, pc'[p] \in {"tip", "append"}
      PROVE  AtStage(p)'
  BY <1>4 DEF AtStage, HasRef
<1>5. ASSUME queue' = queue, queue[p] # {}
      PROVE  Stage(p)' = Stage(p) /\ ReadsFirst(p)' = ReadsFirst(p)
  BY <1>5 DEF Stage, ReadsFirst
<1>6. ASSUME UNCHANGED <<tip, item, content>>, AtStage(p)'
      PROVE  Local(p)'
  BY <1>1, <1>6 DEF Local, IsContent, Shapes, Kinds
<1> USE DEF Goto
<1>7. CASE Invoke(p) \/ MakeDirs(p) \/ OpenLedger(p)
  <2>1. pc'[p] \in {"dirs", "database", "loop"} /\ UNCHANGED <<tip, item, content>>
    BY <1>1, <1>7 DEF Invoke, MakeDirs, OpenLedger, Shapes, Kinds
  <2> QED BY <2>1, <1>3, <1>6
<1>8. CASE LoadRaises(p) \/ StageRaises(p) \/ EndReplay(p)
  <2>1. pc'[p] = "loop" /\ UNCHANGED <<tip, item, content>>
    BY <1>1, <1>8 DEF LoadRaises, StageRaises, Fail, EndReplay, Shapes, Kinds
  <2> QED BY <2>1, <1>3, <1>6
<1>9. CASE AppendReport(p) \/ NoReport(p) \/ Crash(p)
  <2>1. Return(p)
    BY <1>9 DEF AppendReport, NoReport, Crash
  <2>2. pc'[p] = "idle" /\ tip'[p] = 0 /\ item'[p] = 0 /\ content'[p] = NoContent
    BY <1>1, <2>1 DEF Return, Shapes, Kinds, IsFn
  <2> QED BY <1>1, <1>2, <1>3, <2>2 DEF Local, IsContent
<1>10. CASE BeginReplay(p)
  <2>1. pc'[p] = "replay" /\ tip'[p] = Len(commits) /\ UNCHANGED <<item, content>>
    BY <1>1, <1>10 DEF BeginReplay, Shapes, Kinds
  <2> QED BY <1>1, <1>3, <2>1 DEF Local, IsContent
<1>11. CASE WriteReport(p)
  <2>1. pc'[p] = "tip" /\ queue'[p] = {} /\ UNCHANGED <<tip, item, content>>
    BY <1>1, <1>11 DEF WriteReport, Shapes, Kinds
  <2> QED BY <2>1, <1>4, <1>6
<1>12. CASE LoadInputs(p)
  <2>1. /\ pc'[p] = "tip" /\ queue' = queue /\ queue[p] # {} /\ item'[p] = 0 /\ tip' = tip
        /\ content'[p].attempt = attempts' /\ attempts' \in Nat
    BY <1>1, <1>12 DEF LoadInputs, Shapes, Kinds, IsFn
  <2>2. AtStage(p)'
    BY <1>5, <2>1, StageFacts, <1>1 DEF AtStage, HasRef
  <2> QED BY <1>1, <1>2, <2>1, <2>2 DEF Local, IsContent
<1>13. CASE WriteFile(p)
  <2>1. /\ pc[p] = "write" /\ pc'[p] = "hash" /\ UNCHANGED <<queue, item, content, tip, seen>>
        /\ file' = [file EXCEPT ![Output(p)] = content[p]]
    BY <1>1, <1>13 DEF WriteFile, Shapes, Kinds
  <2>2. queue[p] # {} /\ Output(p) \in Path /\ item[p] \in 1..Len(Outputs[Stage(p)])
    BY <1>1, <2>1, OutputFacts
  <2>3. Output(p)' = Output(p) /\ file'[Output(p)] = content[p]
    BY <1>1, <2>1, <2>2 DEF Output, Stage, Shapes, IsFn
  <2>4. AtStage(p)'
    BY <1>1, <1>5, <2>1, <2>2, <2>3 DEF AtStage, HasRef, Local, IsContent
  <2> QED BY <1>6, <2>1, <2>4
<1>14. CASE HashFile(p)
  <2>1. /\ pc[p] = "hash" /\ pc'[p] \in {"append", "tip"}
        /\ UNCHANGED <<queue, item, content, tip>>
        /\ seen'[p] = file[Output(p)]
    BY <1>1, <1>14 DEF HashFile, Shapes, Kinds, IsFn
  <2>2. queue[p] # {} /\ item[p] \in 1..Len(Outputs[Stage(p)])
    BY <1>1, <2>1, OutputFacts
  <2>3. AtStage(p)'
    BY <1>1, <1>5, <2>1, <2>2 DEF AtStage, IsContent
  <2> QED BY <1>6, <2>1, <2>3
<1>15. CASE ReadTip(p)
  <2>1. /\ pc[p] = "tip" /\ UNCHANGED <<queue, item, content, seen>> /\ tip'[p] = Len(commits)
        /\ pc'[p] = IF ReadsFirst(p) /\ item[p] > 0 THEN "write" ELSE "append"
    BY <1>1, <1>15 DEF ReadTip, Shapes, Kinds
  <2>2. AtStage(p)'
    <3>1. CASE queue[p] = {}
      BY <1>4, <2>1, <3>1 DEF ReadsFirst
    <3>2. CASE queue[p] # {}
      <4>1. HasRef(p)' => HasRef(p)
        BY <1>5, <2>1, <3>2 DEF HasRef
      <4> QED BY <1>1, <1>5, <2>1, <3>2, <4>1 DEF AtStage, IsContent
    <3> QED BY <3>1, <3>2
  <2> QED BY <1>1, <2>1, <2>2 DEF Local, IsContent
<1>16. CASE AppendStarted(p)
  <2>1. /\ queue[p] # {} /\ item'[p] = 1 /\ UNCHANGED <<queue, content, tip>>
        /\ pc'[p] = IF ReadsFirst(p) THEN "tip" ELSE "write"
    BY <1>1, <1>16 DEF AppendStarted, BeginOutput, Shapes, Kinds
  <2>2. Len(Outputs[Stage(p)]) \in Nat \ {0} /\ Len(Outputs[Stage(p)]) <= Cardinality(Path)
    BY <1>1, <2>1, StageFacts, OutputsFit
  <2>3. AtStage(p)'
    BY <1>5, <2>1, <2>2 DEF AtStage, HasRef
  <2> QED BY <1>1, <1>2, <2>1, <2>2, <2>3 DEF Local, IsContent
<1>17. CASE AppendOutput(p)
  <2>1. /\ pc[p] = "append" /\ pc'[p] = "link" /\ queue[p] # {} /\ item[p] > 0
        /\ UNCHANGED <<queue, item, content>> /\ tip'[p] = Len(commits')
    BY <1>1, <1>17 DEF AppendOutput, Shapes, Kinds
  <2>2. AtStage(p)'
    BY <1>1, <1>5, <2>1 DEF AtStage, HasRef
  <2> QED BY <1>1, <2>1, <2>2 DEF Local, IsContent
<1>18. CASE LinkSidecar(p)
  <2>1. /\ pc[p] = "link" /\ UNCHANGED <<content, tip>>
        /\ \/ /\ item[p] < Len(Outputs[Stage(p)]) /\ item'[p] = item[p] + 1 /\ queue' = queue
              /\ pc'[p] = IF ReadsFirst(p) THEN "tip" ELSE "write"
           \/ pc'[p] = "loop" /\ item'[p] = 0
    BY <1>1, <1>18 DEF LinkSidecar, BeginOutput, Shapes, Kinds
  <2>2. queue[p] # {} /\ item[p] \in 1..Len(Outputs[Stage(p)])
    BY <1>1, <2>1, OutputFacts
  <2>3. Len(Outputs[Stage(p)]) \in Nat /\ Len(Outputs[Stage(p)]) <= Cardinality(Path)
    BY <1>1, <2>2, StageFacts, OutputsFit
  <2>4. AtStage(p)'
    BY <1>3, <1>5, <2>1, <2>2, <2>3 DEF AtStage, HasRef
  <2> QED BY <1>1, <1>2, <2>1, <2>2, <2>3, <2>4 DEF Local, IsContent
<1> QED BY <1>7, <1>8, <1>9, <1>10, <1>11, <1>12, <1>13, <1>14, <1>15, <1>16, <1>17, <1>18
        DEF Step

LEMMA TypeInit ==
  ASSUME Init, IsFiniteSet(Path)
  PROVE  TypeInv
<1>1. commits \in Seq({}) /\ Len(commits) = 0
  BY DEF Init
<1>2. Cardinality(Path) \in Nat
  BY FS_CardinalityType
<1>3. Flags /\ Shapes
  BY <1>1 DEF Init, Flags, Shapes, Kinds, IsFn, Labels
<1>4. Contents
  BY <1>1 DEF Init, Contents, Rows
<1>5. ASSUME NEW p \in Runner PROVE Local(p)
  <2>1. pc[p] = "idle" /\ tip[p] = 0 /\ item[p] = 0 /\ content[p] = NoContent /\ attempts = 0
    BY DEF Init
  <2> QED BY <1>1, <1>2, <2>1 DEF Local, AtStage, HasRef, IsContent, NoContent
<1> QED BY <1>3, <1>4, <1>5 DEF TypeInv

LEMMA TypeNext ==
  ASSUME TypeInv, [Next]_vars, IsFiniteSet(Path)
  PROVE  TypeInv'
<1>1. CASE UNCHANGED vars
  <2>1. Flags' /\ Shapes'
    BY <1>1 DEF TypeInv, vars, Flags, Shapes, Kinds, IsFn
  <2>2. Contents'
    BY <1>1 DEF TypeInv, vars, Contents, Rows, IsContent
  <2>3. ASSUME NEW p \in Runner PROVE Local(p)'
    BY <1>1 DEF TypeInv, vars, Local, AtStage, HasRef, ReadsFirst, Stage, Output, IsContent
  <2> QED BY <2>1, <2>2, <2>3 DEF TypeInv
<1>2. ASSUME NEW p \in Runner, Step(p) PROVE TypeInv'
  <2>1. Flags' /\ Shapes' /\ Contents'
    BY <1>2, FlagsKept, ShapesKept, ContentsKept DEF TypeInv
  <2>2. \A q \in Runner : Local(q)'
    BY <1>2, OthersLocal, OwnLocal
  <2> QED BY <2>1, <2>2 DEF TypeInv
<1> QED BY <1>1, <1>2 DEF Next

\* Every variable keeps its kind, however runners overlap: a runner hashes only a
\* file that was written, and no row or sidecar names a row there is not.
THEOREM StageTypes ==
  ASSUME IsFiniteSet(Path)
  PROVE  Spec => []TypeOK
<1>1. TypeInv => TypeOK
  <2> SUFFICES ASSUME TypeInv PROVE TypeOK
    OBVIOUS
  <2>1. Len(commits) \in Nat /\ Cardinality(Path) \in Nat
    BY FS_CardinalityType DEF TypeInv, Shapes, Kinds
  <2>2. sidecar \in [Path -> 0..Len(commits)]
    BY <2>1 DEF TypeInv, Shapes, Contents
  <2>3. ASSUME NEW p \in Runner
        PROVE  /\ queue[p] \subseteq 1..N /\ item[p] \in 0..Cardinality(Path)
               /\ tip[p] \in 0..Len(commits)
    BY <2>1 DEF TypeInv, Shapes, Kinds, Local
  <2> QED BY <2>2, <2>3 DEF TypeOK, TypeInv, Flags, Shapes, Kinds, Contents, Rows
<1>2. Init => TypeInv
  BY TypeInit
<1>3. TypeInv /\ [Next]_vars => TypeInv'
  BY TypeNext
<1> QED BY <1>1, <1>2, <1>3, PTL DEF Spec

-----------------------------------------------------------------------------
(* What an attempt at a stage has done, when it runs alone.                 *)

\* The path holds this content on disk, in its latest row and by its sidecar.
Kept(x, c) == /\ file[x] = c /\ sidecar[x] = Latest(x)
              /\ Latest(x) \in 1..Len(commits) /\ commits[Latest(x)].content = c

\* The runner works on one of the outputs of its stage.
InStage(p) == /\ queue[p] # {} /\ item[p] > 0
              /\ pc[p] \in {"tip", "write", "hash", "append", "link"}

\* The outputs before the current one are kept; the current one is what it says.
Attempt(p) ==
  /\ InStage(p) => \A i \in 1..(item[p] - 1) : Kept(Outputs[Stage(p)][i], content[p])
  /\ pc[p] \in {"hash", "link"} \/ HasRef(p) => file[Output(p)] = content[p]
  /\ HasRef(p) => seen[p] = content[p]
  /\ pc[p] = "link" => /\ Latest(Output(p)) = tip[p] /\ tip[p] \in 1..Len(commits)
                       /\ commits[tip[p]].content = content[p]

AttemptInv == TypeInv /\ ChainInv /\ \A p \in Runner : Attempt(p)

\* The outputs of a stage are distinct paths.
LEMMA OutputsDiffer ==
  ASSUME NEW s \in 1..N, NEW t \in 1..N,
         NEW i \in 1..Len(Outputs[s]), NEW j \in 1..Len(Outputs[t])
  PROVE  /\ Outputs[s][i] = Outputs[t][j] => s = t /\ i = j
         /\ Outputs[s][i] \in Path
BY PipelineAssumption

\* Nobody else is active while a runner moves, and nobody else becomes so.
LEMMA OthersIdle ==
  ASSUME ~Overlap, Shapes, Solo, NEW p \in Runner, Step(p), NEW q \in Runner, q # p
  PROVE  pc[q] = "idle" /\ pc'[q] = "idle"
<1>1. Same(q)
  BY OthersWait
<1>2. pc[p] = "idle" => Invoke(p)
  BY DEF Step, MakeDirs, OpenLedger, LoadInputs, LoadRaises, StageRaises, WriteFile, HashFile,
         ReadTip, AppendStarted, AppendOutput, LinkSidecar, BeginReplay, EndReplay,
         WriteReport, AppendReport, NoReport, Crash
<1>3. pc[q] = "idle"
  BY <1>2 DEF Invoke, Solo
<1> QED BY <1>1, <1>3 DEF Same

LEMMA IdleAttempt ==
  ASSUME NEW p \in Runner, pc[p] \in {"idle", "dirs", "database", "loop", "replay"}
  PROVE  Attempt(p)
BY DEF Attempt, InStage, HasRef

\* What is kept stays kept by a step that writes, commits and links other paths.
LEMMA KeptStays ==
  ASSUME Shapes, NEW p \in Runner, Effects(p), NEW x \in Path, NEW c, Kept(x, c),
         file'[x] = file[x], sidecar'[x] = sidecar[x],
         commits' = commits \/ NewRow(p).path # x
  PROVE  Kept(x, c)'
<1>1. CASE commits' = commits
  BY <1>1 DEF Kept, Latest
<1>2. CASE commits' = Append(commits, NewRow(p)) /\ NewRow(p).path # x
  <2>1. PICK R : commits \in Seq(R)
    BY DEF Shapes, Kinds
  <2>2. Latest(x)' = Latest(x)
    BY <1>2, <2>1, LatestAppend
  <2>3. /\ Len(commits) \in Nat /\ Len(commits') = Len(commits) + 1
        /\ \A i \in 1..Len(commits) : commits'[i] = commits[i]
    BY <1>2, <2>1, LedgerGrows
  <2> QED BY <2>2, <2>3 DEF Kept
<1> QED BY <1>1, <1>2 DEF Effects

LEMMA EarlierStay ==
  ASSUME TypeInv, NEW p \in Runner, Step(p), Attempt(p), InStage(p),
         NEW i \in 1..(item[p] - 1), NEW x, x = Outputs[Stage(p)][i], NEW c, c = content[p]
  PROVE  x \in Path /\ x # Output(p) /\ Kept(x, c) /\ Kept(x, c)'
<1>1. Shapes /\ Effects(p) /\ AtStage(p)
  BY StepEffects DEF TypeInv, Local
<1>2. /\ Stage(p) \in 1..N /\ Len(Outputs[Stage(p)]) \in Nat
      /\ item[p] \in Nat /\ item[p] > 0 /\ item[p] <= Len(Outputs[Stage(p)])
  BY <1>1, StageFacts DEF InStage, AtStage, Shapes
<1>3. x \in Path /\ x # Output(p) /\ Output(p) \in Path
  <2>1. i \in 1..Len(Outputs[Stage(p)]) /\ item[p] \in 1..Len(Outputs[Stage(p)]) /\ i # item[p]
    BY <1>2
  <2> QED BY <1>2, <2>1, OutputsDiffer DEF Output
<1>4. Kept(x, c)
  BY DEF Attempt
<1>5. file'[x] = file[x] /\ sidecar'[x] = sidecar[x]
  BY <1>1, <1>3 DEF Effects, Shapes, IsFn
<1>6. NewRow(p).path # x
  BY <1>2, <1>3 DEF NewRow, Row, InStage
<1> QED BY <1>1, <1>3, <1>4, <1>5, <1>6, KeptStays

LEMMA AttemptStep ==
  ASSUME TypeInv, TypeInv', NEW p \in Runner, Step(p), Attempt(p)
  PROVE  Attempt(p)'
<1>1. Shapes /\ Shapes' /\ Effects(p) /\ AtStage(p) /\ AtStage(p)' /\ Local(p)
  BY StepEffects DEF TypeInv, Local
<1> USE DEF Goto
<1>2. ASSUME pc'[p] \in {"idle", "dirs", "database", "loop", "replay"} \/ queue'[p] = {}
      PROVE  Attempt(p)'
  <2>1. ~InStage(p)' /\ ~HasRef(p)' /\ pc'[p] \notin {"hash", "link"}
    BY <1>1, <1>2 DEF InStage, HasRef, AtStage
  <2> QED BY <2>1 DEF Attempt
<1>3. ASSUME item'[p] \in {0, 1}, pc'[p] \in {"tip", "write"}, ~HasRef(p)'
      PROVE  Attempt(p)'
  BY <1>3 DEF Attempt, InStage
\* The steps within a stage: what is kept so far stays, and one clause is new.
<1>4. ASSUME InStage(p), queue' = queue, item' = item, content' = content
      PROVE  /\ Stage(p)' = Stage(p) /\ Output(p)' = Output(p) /\ ReadsFirst(p)' = ReadsFirst(p)
             /\ \A i \in 1..(item'[p] - 1) : Kept(Outputs[Stage(p)][i], content[p])'
  <2>1. /\ Stage(p)' = Stage(p) /\ Output(p)' = Output(p) /\ ReadsFirst(p)' = ReadsFirst(p)
    BY <1>4 DEF Stage, Output, ReadsFirst
  <2>2. ASSUME NEW i \in 1..(item[p] - 1), NEW x, x = Outputs[Stage(p)][i],
               NEW c, c = content[p]
        PROVE  Kept(x, c)'
    BY <1>4, <2>2, EarlierStay
  <2>3. ASSUME NEW i \in 1..(item[p] - 1)
        PROVE  Kept(Outputs[Stage(p)][i], content[p])'
    <3>1. PICK x : x = Outputs[Stage(p)][i]
      OBVIOUS
    <3>2. PICK c : c = content[p]
      OBVIOUS
    <3>3. Kept(x, c)'
      BY <2>2, <3>1, <3>2
    <3>4. x = Outputs[Stage(p)'][i] /\ c = content'[p]
      BY <1>4, <2>1, <3>1, <3>2
    <3> QED BY <3>3, <3>4 DEF Kept
  <2> QED BY <1>4, <2>1, <2>3
<1>5. CASE Invoke(p) \/ MakeDirs(p) \/ OpenLedger(p) \/ LoadRaises(p) \/ StageRaises(p)
  BY <1>1, <1>2, <1>5 DEF Invoke, MakeDirs, OpenLedger, LoadRaises, StageRaises, Fail, Shapes, Kinds
<1>6. CASE BeginReplay(p) \/ EndReplay(p) \/ WriteReport(p)
  BY <1>1, <1>2, <1>6 DEF BeginReplay, EndReplay, WriteReport, Shapes, Kinds
<1>7. CASE AppendReport(p) \/ NoReport(p) \/ Crash(p)
  BY <1>1, <1>2, <1>7 DEF AppendReport, NoReport, Crash, Return, Shapes, Kinds
<1>8. CASE LoadInputs(p)
  <2>1. item'[p] = 0 /\ pc'[p] = "tip"
    BY <1>1, <1>8 DEF LoadInputs, Shapes, Kinds
  <2> QED BY <1>3, <2>1 DEF HasRef
<1>9. CASE AppendStarted(p)
  <2>1. /\ item'[p] = 1 /\ queue' = queue
        /\ pc'[p] = IF ReadsFirst(p) THEN "tip" ELSE "write"
    BY <1>1, <1>9 DEF AppendStarted, BeginOutput, Shapes, Kinds
  <2>2. ReadsFirst(p)' = ReadsFirst(p)
    BY <2>1 DEF ReadsFirst, Stage
  <2> QED BY <1>3, <2>1, <2>2 DEF HasRef
<1>10. CASE ReadTip(p)
  <2>1. /\ pc[p] = "tip" /\ UNCHANGED <<queue, item, content, seen, file>>
        /\ pc'[p] = IF ReadsFirst(p) /\ item[p] > 0 THEN "write" ELSE "append"
    BY <1>1, <1>10 DEF ReadTip, Shapes, Kinds
  <2>2. CASE queue[p] = {} \/ ~(item[p] > 0)
    <3>1. ~InStage(p)' /\ ~HasRef(p)' /\ pc'[p] \notin {"hash", "link"}
      BY <2>1, <2>2 DEF InStage, HasRef
    <3> QED BY <3>1 DEF Attempt
  <2>3. CASE queue[p] # {} /\ item[p] > 0
    <3>1. InStage(p)
      BY <2>1, <2>3 DEF InStage
    <3>2. HasRef(p)' => HasRef(p)
      BY <1>4, <2>1, <3>1 DEF HasRef
    <3> QED BY <1>4, <2>1, <3>1, <3>2 DEF Attempt
  <2> QED BY <2>2, <2>3
<1>11. CASE WriteFile(p)
  <2>1. /\ pc[p] = "write" /\ pc'[p] = "hash" /\ UNCHANGED <<queue, item, content, seen>>
        /\ file' = [file EXCEPT ![Output(p)] = content[p]]
    BY <1>1, <1>11 DEF WriteFile, Shapes, Kinds
  <2>2. InStage(p) /\ Output(p) \in Path
    BY <1>1, <2>1, OutputFacts DEF InStage, AtStage
  <2>3. file'[Output(p)] = content[p] /\ ~HasRef(p)'
    BY <1>1, <2>1, <2>2 DEF Shapes, IsFn, HasRef
  <2> QED BY <1>4, <2>1, <2>2, <2>3 DEF Attempt
<1>12. CASE HashFile(p)
  <2>1. /\ pc[p] = "hash" /\ pc'[p] \in {"append", "tip"}
        /\ UNCHANGED <<queue, item, content, file>> /\ seen'[p] = file[Output(p)]
    BY <1>1, <1>12 DEF HashFile, Shapes, Kinds, IsFn
  <2>2. InStage(p)
    BY <1>1, <2>1 DEF InStage, AtStage
  <2>3. seen'[p] = content[p] /\ file[Output(p)] = content[p]
    BY <2>1 DEF Attempt
  <2> QED BY <1>4, <2>1, <2>2, <2>3 DEF Attempt
<1>13. CASE AppendOutput(p)
  <2>1. /\ pc[p] = "append" /\ pc'[p] = "link" /\ queue[p] # {} /\ item[p] > 0
        /\ UNCHANGED <<queue, item, content, file>> /\ tip'[p] = Len(commits')
        /\ commits' = Append(commits, Row(tip[p], Output(p), seen[p]))
    BY <1>1, <1>13 DEF AppendOutput, Shapes, Kinds
  <2>2. InStage(p) /\ HasRef(p)
    BY <2>1 DEF InStage, HasRef
  <2>3. seen[p] = content[p] /\ file[Output(p)] = content[p]
    BY <2>2 DEF Attempt
  <2>4. PICK x : x = Output(p)
    OBVIOUS
  <2>5. /\ Len(commits) \in Nat /\ Len(commits') = Len(commits) + 1
        /\ commits'[Len(commits) + 1].content = content[p]
        /\ Latest(x)' = Len(commits) + 1
    <3>1. PICK R : commits \in Seq(R)
      BY <1>1 DEF Shapes, Kinds
    <3>2. Row(tip[p], Output(p), seen[p]).path = x /\ Row(tip[p], Output(p), seen[p]).content = content[p]
      BY <2>3, <2>4 DEF Row
    <3> QED BY <2>1, <3>1, <3>2, LatestAppend, LedgerGrows
  <2>6. Latest(Output(p))' = Latest(x)'
    BY <1>4, <2>1, <2>2, <2>4 DEF Latest
  <2> QED BY <1>4, <2>1, <2>2, <2>3, <2>5, <2>6 DEF Attempt, HasRef
<1>14. CASE LinkSidecar(p)
  <2>1. /\ pc[p] = "link" /\ UNCHANGED <<content, commits, file, tip>>
        /\ sidecar' = [sidecar EXCEPT ![Output(p)] = tip[p]]
        /\ \/ /\ item'[p] = item[p] + 1 /\ queue' = queue
              /\ pc'[p] = IF ReadsFirst(p) THEN "tip" ELSE "write"
           \/ pc'[p] = "loop"
    BY <1>1, <1>14 DEF LinkSidecar, BeginOutput, Shapes, Kinds
  <2>2. CASE pc'[p] = "loop"
    BY <1>2, <2>2
  <2>3. CASE /\ item'[p] = item[p] + 1 /\ queue' = queue
             /\ pc'[p] = IF ReadsFirst(p) THEN "tip" ELSE "write"
    <3>1. InStage(p) /\ item[p] \in Nat /\ Output(p) \in Path
      BY <1>1, <2>1, OutputFacts DEF InStage, AtStage, Shapes
    <3>2. Stage(p)' = Stage(p) /\ ReadsFirst(p)' = ReadsFirst(p)
      BY <2>3 DEF Stage, ReadsFirst
    <3>3. ASSUME NEW i \in 1..(item'[p] - 1)
          PROVE  Kept(Outputs[Stage(p)][i], content[p])'
      <4>1. PICK x : x = Outputs[Stage(p)][i]
        OBVIOUS
      <4>2. PICK c : c = content[p]
        OBVIOUS
      <4>3. CASE i \in 1..(item[p] - 1)
        BY <3>1, <3>2, <2>1, <4>1, <4>2, <4>3, EarlierStay DEF Kept
      <4>4. CASE i = item[p]
        <5>1. x = Output(p)
          BY <4>1, <4>4 DEF Output
        <5>2. file[x] = c /\ Latest(x) = tip[p] /\ tip[p] \in 1..Len(commits) /\ commits[tip[p]].content = c
          BY <2>1, <4>2, <5>1 DEF Attempt
        <5>3. sidecar'[x] = tip[p] /\ Latest(x)' = Latest(x)
          BY <1>1, <2>1, <3>1, <5>1 DEF Shapes, Latest
        <5>4. Kept(x, c)'
          BY <2>1, <5>2, <5>3 DEF Kept
        <5> QED BY <2>1, <3>2, <4>1, <4>2, <5>4 DEF Kept
      <4> QED BY <2>3, <3>1, <4>3, <4>4
    <3>4. ~HasRef(p)'
      BY <2>3, <3>2 DEF HasRef
    <3> QED BY <2>3, <3>3, <3>4 DEF Attempt
  <2> QED BY <2>1, <2>2, <2>3
<1> QED BY <1>5, <1>6, <1>7, <1>8, <1>9, <1>10, <1>11, <1>12, <1>13, <1>14 DEF Step

LEMMA AttemptInit ==
  ASSUME Init, IsFiniteSet(Path)
  PROVE  AttemptInv
<1>1. \A p \in Runner : pc[p] = "idle"
  BY DEF Init
<1> QED BY <1>1, TypeInit, ChainInit, IdleAttempt DEF AttemptInv

LEMMA AttemptNext ==
  ASSUME ~Overlap, IsFiniteSet(Path), AttemptInv, [Next]_vars
  PROVE  AttemptInv'
<1>1. TypeInv' /\ ChainInv'
  BY TypeNext, ChainNext DEF AttemptInv
<1>2. ASSUME NEW q \in Runner
      PROVE  Attempt(q)'
  <2>1. CASE UNCHANGED vars
    <3>1. UNCHANGED <<file, sidecar, commits, pc, queue, item, content, seen, tip>>
      BY <2>1 DEF vars
    <3>2. /\ \A x, c : Kept(x, c)' = Kept(x, c)
          /\ \A x : Latest(x)' = Latest(x)
      BY <3>1 DEF Kept, Latest
    <3>3. /\ Stage(q)' = Stage(q) /\ Output(q)' = Output(q)
          /\ InStage(q)' = InStage(q) /\ HasRef(q)' = HasRef(q)
      BY <3>1 DEF InStage, HasRef, ReadsFirst, Stage, Output
    <3>4. Attempt(q)
      BY DEF AttemptInv
    <3>5. InStage(q)' => \A i \in 1..(item'[q] - 1) : Kept(Outputs[Stage(q)][i], content[q])'
      <4> SUFFICES ASSUME InStage(q), NEW i \in 1..(item[q] - 1)
                   PROVE  Kept(Outputs[Stage(q)][i], content[q])'
        BY <3>1, <3>3
      <4>1. PICK x : x = Outputs[Stage(q)][i]
        OBVIOUS
      <4>2. PICK c : c = content[q]
        OBVIOUS
      <4>3. Kept(x, c)
        BY <3>4, <4>1, <4>2 DEF Attempt
      <4>4. Kept(x, c)'
        BY <3>2, <4>3
      <4> QED BY <3>1, <3>3, <4>1, <4>2, <4>4 DEF Kept
    <3>6. Latest(Output(q))' = Latest(Output(q))
      BY <3>1, <3>3 DEF Latest
    <3> QED BY <3>1, <3>3, <3>4, <3>5, <3>6 DEF Attempt
  <2>2. ASSUME NEW p \in Runner, Step(p)
        PROVE  Attempt(q)'
    <3>1. CASE q = p
      BY <1>1, <2>2, <3>1, AttemptStep DEF AttemptInv
    <3>2. CASE q # p
      <4>1. pc'[q] = "idle"
        BY <2>2, <3>2, OthersIdle DEF AttemptInv, TypeInv, ChainInv
      <4> QED BY <4>1 DEF Attempt, InStage, HasRef
    <3> QED BY <3>1, <3>2
  <2> QED BY <2>1, <2>2 DEF Next
<1> QED BY <1>1, <1>2 DEF AttemptInv

\* A stage that returns has all its outputs: the last one is kept by this step.
LEMMA StageReturns ==
  ASSUME AttemptInv, NEW p \in Runner, LinkSidecar(p), pc'[p] = "loop",
         NEW x \in Files(Stage(p))
  PROVE  /\ x \in Path
         /\ file[x] = content[p] /\ sidecar'[x] = Latest(x)
         /\ Latest(x) \in 1..Len(commits) /\ commits[Latest(x)].content = content[p]
<1>1. Shapes /\ AtStage(p) /\ Attempt(p) /\ Step(p)
  BY DEF AttemptInv, TypeInv, Local, Step
<1>2. /\ pc[p] = "link" /\ item[p] = Len(Outputs[Stage(p)])
      /\ sidecar' = [sidecar EXCEPT ![Output(p)] = tip[p]]
  <2>1. BeginOutput(p) => pc'[p] # "loop"
    BY <1>1 DEF BeginOutput, Goto, Shapes, Kinds
  <2> QED BY <2>1 DEF LinkSidecar
<1>3. InStage(p) /\ item[p] \in Nat /\ Output(p) \in Path
  BY <1>1, <1>2, OutputFacts DEF InStage, AtStage, Shapes
<1>4. PICK i \in 1..Len(Outputs[Stage(p)]) : x = Outputs[Stage(p)][i]
  BY DEF Files
<1>5. CASE i = item[p]
  <2>1. x = Output(p)
    BY <1>4, <1>5 DEF Output
  <2> QED BY <1>1, <1>2, <1>3, <2>1 DEF Attempt, Shapes
<1>6. CASE i # item[p]
  <2>1. i \in 1..(item[p] - 1)
    BY <1>2, <1>3, <1>6
  <2>2. x \in Path /\ x # Output(p) /\ Kept(x, content[p])
    <3>1. PICK c : c = content[p]
      OBVIOUS
    <3> QED BY <1>1, <1>3, <1>4, <2>1, <3>1, EarlierStay DEF AttemptInv
  <2> QED BY <1>1, <1>2, <2>2 DEF Kept, Shapes
<1> QED BY <1>5, <1>6

\* When a stage returns, the ledger's latest row and the sidecar of each of its
\* files name what is on disk, and all of it is of this attempt: no kill, failure
\* or rerun before leaves a stage that is half of one attempt and half of another.
THEOREM StageReturnsLedgered ==
  ASSUME ~Overlap, IsFiniteSet(Path)
  PROVE  Spec => ReturnedIsLedgered
<1>1. Init => AttemptInv
  BY AttemptInit
<1>2. AttemptInv /\ [Next]_vars => AttemptInv'
  BY AttemptNext
<1>3. ASSUME AttemptInv, NEW q \in Runner, Step(q), NEW p \in Runner,
             pc[p] = "link", pc'[p] = "loop", NEW x \in Files(Stage(p))
      PROVE  /\ file[x] = content[p] /\ Latest(x) # 0
             /\ commits[Latest(x)].content = file[x] /\ sidecar'[x] = Latest(x)
  <2>1. q = p
    BY <1>3, OthersWait DEF Same, AttemptInv, TypeInv
  <2>2. LinkSidecar(p)
    <3>1. LinkSidecar(p) \/ Crash(p)
      BY <1>3, <2>1 DEF Step, Invoke, MakeDirs, OpenLedger, LoadInputs, LoadRaises, StageRaises,
         WriteFile, HashFile, ReadTip, AppendStarted, AppendOutput, BeginReplay, EndReplay,
         WriteReport, AppendReport, NoReport
    <3>2. Crash(p) => pc'[p] # "loop"
      BY <1>3 DEF Crash, Return, Goto, AttemptInv, TypeInv, Shapes, Kinds
    <3> QED BY <1>3, <3>1, <3>2
  <2> QED BY <1>3, <2>2, StageReturns
<1>4. AttemptInv /\ [Next]_vars =>
        [\A p \in Runner : pc[p] = "link" /\ pc'[p] = "loop" =>
           \A x \in Files(Stage(p)) :
             /\ file[x] = content[p]
             /\ Latest(x) # 0
             /\ commits[Latest(x)].content = file[x]
             /\ sidecar'[x] = Latest(x)]_vars
  BY <1>3 DEF Next
<1> QED BY <1>1, <1>2, <1>4, PTL DEF Spec, ReturnedIsLedgered
=============================================================================
