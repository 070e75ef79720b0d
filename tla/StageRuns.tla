------------------------------ MODULE StageRuns ------------------------------
(***************************************************************************)
(* `factori run-all` on one run directory: run_deterministic_pipeline       *)
(* (factori/run_all.py) decides once, from the files and the ledger it finds *)
(* (status.py, checkpoints.py, rerun_policy.py), which stages it runs, and   *)
(* then executes them one after the other.  A stage loads its inputs from    *)
(* the ledger, appends a STARTED commit, and for each of its outputs writes  *)
(* the file, hashes it, reads the ledger's tip, appends the commit and       *)
(* writes the sidecar (artifacts.py, ledger.py): five separate operations.   *)
(*                                                                         *)
(* Files decide what is complete and where a run may resume; the ledger      *)
(* decides what a later stage can load.  A runner may be killed between any  *)
(* two operations, a stage may fail, and with Overlap runners interleave.    *)
(* The persistence is the Python route: no kernel binary is configured.      *)
(***************************************************************************)
EXTENDS Naturals, Sequences, FiniteSetsExt

CONSTANTS
  Runner,         \* processes that run the pipeline
  Stages,         \* the mutating stages, in PIPELINE_STAGE_ORDER
  Path,           \* the completion artifacts of all stages
  Outputs,        \* [1..Len(Stages) -> Seq(Path)]: _STAGE_OUTPUTS, in the order written
  Requires,       \* [1..Len(Stages) -> SUBSET Path]: _PREREQUISITES, by file
  Inputs,         \* [1..Len(Stages) -> SUBSET Path]: what the stage loads from the ledger
  ReplayNeeds,    \* the output without whose commit the replay raises
  TipFirst,       \* stages that read the ledger's tip before they write their file
  Gates,          \* stages that may end as PipelineBlocked
  Fallible,       \* stages that may raise before their first output
  None,           \* no file
  Policies,       \* rerun policies callers use: "fail", "skip", "force", "read_only"
  Overlap,        \* may a runner start while another one runs?
  StartAnywhere,  \* may callers choose any --start-at, or follow the status report?
  MaxInvocations, MaxCrashes, MaxFailures  \* bounds

N == Len(Stages)
Replay == N + 1   \* the read-only stage that follows the mutating ones

ASSUME PipelineAssumption ==
  /\ Stages \in Seq(STRING)
  /\ Outputs \in [1..N -> Seq(Path)]
  /\ \A s \in 1..N : Outputs[s] # <<>>
  /\ \A s, t \in 1..N : \A i \in 1..Len(Outputs[s]), j \in 1..Len(Outputs[t]) :
       Outputs[s][i] = Outputs[t][j] => s = t /\ i = j
  /\ Requires \in [1..N -> SUBSET Path] /\ Inputs \in [1..N -> SUBSET Path]
  /\ ReplayNeeds \in Path /\ None \notin Path
  /\ TipFirst \subseteq 1..N /\ Gates \subseteq 1..N /\ Fallible \subseteq 1..N

ASSUME EnvironmentAssumption ==
  /\ Policies \subseteq {"fail", "skip", "force", "read_only"}
  /\ Overlap \in BOOLEAN /\ StartAnywhere \in BOOLEAN
  /\ MaxInvocations \in Nat /\ MaxCrashes \in Nat /\ MaxFailures \in Nat

VARIABLES
  dirs,       \* does the run directory exist?
  database,   \* does ledger.sqlite exist?
  commits,    \* rows of the ledger: [parent, path, content]; a row is its number
  file,       \* [Path -> content or None]
  sidecar,    \* [Path -> number of the commit its .meta.json names, 0 if none]
  report,     \* pipeline-run-report.json: [exists, replay]
  pc,         \* per runner: program counter
  queue,      \* per runner: stages it has decided to run and has not finished
  item,       \* per runner: 0 for STARTED, else the index of the current output
  content,    \* per runner: what the current attempt at its stage writes
  seen,       \* per runner: content_hash of the reference it has built
  tip,        \* per runner: latest_commit_hash, or the row count a replay began at
  replay,     \* per runner: is REPLAY_VERIFY selected?
  mutated,    \* per runner: mutating_stage_executed
  replayed,   \* per runner: replay_status is set
  attempts, invocations, crashes, failures, forced  \* counters

disk == <<dirs, database, file, sidecar, report>>
memory == <<queue, item, content, seen, tip, replay, mutated, replayed>>
counters == <<attempts, invocations, crashes, failures, forced>>
vars == <<disk, commits, pc, memory, counters>>

-----------------------------------------------------------------------------
(* checkpoints.py and status.py: completeness is what the files say. *)

Files(s) == {Outputs[s][i] : i \in 1..Len(Outputs[s])}

Completed(s) == IF s = Replay THEN report.replay
                ELSE \A x \in Files(s) : file[x] # None

\* _completion_continuity: a stage is complete after one that is missing.
Gap == \E s, t \in 1..Replay : s < t /\ ~Completed(s) /\ Completed(t)

FirstMissing == CHOOSE s \in 1..Replay :
  /\ ~Completed(s) \/ s = Replay
  /\ \A t \in 1..(s - 1) : Completed(t)

\* validate_ledger_tip under AllowIfForced: each row extends the row before it.
Linear == \A i \in 1..Len(commits) : commits[i].parent = i - 1

Inconsistent == dirs /\ (Gap \/ ~database \/ ~Linear)

\* prerequisite_exists, for mutating stages and for the replay.
Prerequisites(s) == IF s = Replay THEN {ReplayNeeds} ELSE Requires[s]

\* validate_resume_request.
MayStart(s) ==
  /\ ~Inconsistent
  /\ s = 1 \/ /\ dirs /\ database
              /\ \A x \in Prerequisites(s) : file[x] # None

\* The latest commit of an output, 0 if there is none.
Latest(x) == Max({0} \cup {i \in 1..Len(commits) : commits[i].path = x})

CanLoad(s) == \A x \in Inputs[s] : Latest(x) # 0

-----------------------------------------------------------------------------
(* rerun_policy.py: decide_stage_rerun. *)

\* Mutant of Decide: a complete stage is run again.
DecideToRun(s, policy) ==
  IF s # Replay /\ (Inconsistent \/ policy = "read_only") THEN "block" ELSE "run"

Decide(s, policy) ==
  IF s = Replay THEN "run"
  ELSE IF Inconsistent \/ policy = "read_only" THEN "block"
  ELSE IF ~Completed(s) \/ policy = "force" THEN "run"
  ELSE IF policy = "skip" THEN "skip" ELSE "block"

-----------------------------------------------------------------------------
NoContent == [attempt |-> 0, from |-> <<>>]

Init ==
  /\ dirs = FALSE /\ database = FALSE /\ commits = <<>>
  /\ file = [x \in Path |-> None]
  /\ sidecar = [x \in Path |-> 0]
  /\ report = [exists |-> FALSE, replay |-> FALSE]
  /\ pc = [p \in Runner |-> "idle"]
  /\ queue = [p \in Runner |-> {}]
  /\ item = [p \in Runner |-> 0]
  /\ content = [p \in Runner |-> NoContent]
  /\ seen = [p \in Runner |-> None]
  /\ tip = [p \in Runner |-> 0]
  /\ replay = [p \in Runner |-> FALSE]
  /\ mutated = [p \in Runner |-> FALSE]
  /\ replayed = [p \in Runner |-> FALSE]
  /\ attempts = 0 /\ invocations = 0 /\ crashes = 0 /\ failures = 0 /\ forced = 0

Goto(p, label) == pc' = [pc EXCEPT ![p] = label]

Return(p) ==
  /\ Goto(p, "idle")
  /\ queue' = [queue EXCEPT ![p] = {}]
  /\ item' = [item EXCEPT ![p] = 0]
  /\ content' = [content EXCEPT ![p] = NoContent]
  /\ seen' = [seen EXCEPT ![p] = None]
  /\ tip' = [tip EXCEPT ![p] = 0]
  /\ replay' = [replay EXCEPT ![p] = FALSE]
  /\ mutated' = [mutated EXCEPT ![p] = FALSE]
  /\ replayed' = [replayed EXCEPT ![p] = FALSE]

\* Mutant of Chosen: the read-only stage is not kept out.
ChosenWithReplay(first, last, policy) ==
  {s \in first..last : Decide(s, policy) = "run"}

\* The mutating stages that will be executed.
Chosen(first, last, policy) ==
  {s \in first..last : s # Replay /\ Decide(s, policy) = "run"}

\* All decisions are taken here; a blocked or refused call changes nothing.
Invoke(p) ==
  /\ pc[p] = "idle" /\ invocations < MaxInvocations
  /\ Overlap \/ \A q \in Runner : pc[q] = "idle"
  /\ \E policy \in Policies, first, last \in 1..Replay :
       LET chosen == Chosen(first, last, policy)
       IN  /\ first <= last
           /\ StartAnywhere \/ first \in {1, FirstMissing}
           /\ MayStart(first)
           /\ \A s \in first..last : Decide(s, policy) # "block"
           /\ queue' = [queue EXCEPT ![p] = chosen]
           /\ replay' = [replay EXCEPT ![p] = last = Replay]
           /\ forced' = IF policy = "force" /\ \E s \in chosen : Completed(s)
                        THEN forced + 1 ELSE forced
  /\ Goto(p, "dirs")
  /\ invocations' = invocations + 1
  /\ UNCHANGED <<disk, commits, item, content, seen, tip, mutated, replayed,
                 attempts, crashes, failures>>

\* store.init_run, then ResearchLedger: two steps.
MakeDirs(p) ==
  /\ pc[p] = "dirs"
  /\ dirs' = TRUE
  /\ Goto(p, "database")
  /\ UNCHANGED <<database, file, sidecar, report, commits, memory, counters>>

OpenLedger(p) ==
  /\ pc[p] = "database"
  /\ database' = TRUE
  /\ Goto(p, "loop")
  /\ UNCHANGED <<dirs, file, sidecar, report, commits, memory, counters>>

-----------------------------------------------------------------------------
(* One stage. *)

Stage(p) == Min(queue[p])
Output(p) == Outputs[Stage(p)][item[p]]

\* Stages A and B hand the tip to persistence.py as an argument; the others read
\* it between the write and the append.
ReadsFirst(p) == queue[p] # {} /\ Stage(p) \in TipFirst
BeginOutput(p) == Goto(p, IF ReadsFirst(p) THEN "tip" ELSE "write")

\* Mutant of LoadInputs: the oldest commit of an input is read.
LoadOldest(p) ==
  /\ pc[p] = "loop" /\ queue[p] # {} /\ CanLoad(Stage(p))
  /\ attempts' = attempts + 1
  /\ content' = [content EXCEPT ![p] =
       [attempt |-> attempts',
        from |-> [x \in Inputs[Stage(p)] |->
                    CHOOSE i \in 1..Len(commits) :
                      /\ commits[i].path = x
                      /\ \A j \in 1..(i - 1) : commits[j].path # x]]]
  /\ item' = [item EXCEPT ![p] = 0]
  /\ mutated' = [mutated EXCEPT ![p] = TRUE]
  /\ Goto(p, "tip")
  /\ UNCHANGED <<disk, commits, queue, seen, tip, replay, replayed, invocations,
                 crashes, failures, forced>>

\* The stage reads the latest commit of each of its inputs.
LoadInputs(p) ==
  /\ pc[p] = "loop" /\ queue[p] # {} /\ CanLoad(Stage(p))
  /\ attempts' = attempts + 1
  /\ content' = [content EXCEPT ![p] =
       [attempt |-> attempts', from |-> [x \in Inputs[Stage(p)] |-> Latest(x)]]]
  /\ item' = [item EXCEPT ![p] = 0]
  /\ mutated' = [mutated EXCEPT ![p] = TRUE]
  /\ Goto(p, "tip")
  /\ UNCHANGED <<disk, commits, queue, seen, tip, replay, replayed, invocations,
                 crashes, failures, forced>>

\* Mutant of Fail: the stages after the failed one are still run.
FailAlone(p) ==
  /\ queue' = [queue EXCEPT ![p] = @ \ {Stage(p)}]
  /\ mutated' = [mutated EXCEPT ![p] = TRUE]
  /\ Goto(p, "loop")
  /\ UNCHANGED <<disk, commits, item, content, seen, tip, replay, replayed>>

\* A mutating stage raised: the later ones are skipped, and under FailFast the
\* replay too.
Fail(p) ==
  /\ queue' = [queue EXCEPT ![p] = {}]
  /\ replay' \in {replay, [replay EXCEPT ![p] = FALSE]}
  /\ mutated' = [mutated EXCEPT ![p] = TRUE]
  /\ Goto(p, "loop")
  /\ UNCHANGED <<disk, commits, item, content, seen, tip, replayed>>

LoadRaises(p) ==
  /\ pc[p] = "loop" /\ queue[p] # {} /\ ~CanLoad(Stage(p))
  /\ Fail(p)
  /\ UNCHANGED counters

\* An adapter raises before the STARTED commit or before the first output.
StageRaises(p) ==
  /\ queue[p] # {}
  /\ pc[p] = "loop" \/ (pc[p] = (IF ReadsFirst(p) THEN "tip" ELSE "write") /\ item[p] = 1)
  /\ Stage(p) \in Fallible
  /\ failures < MaxFailures
  /\ failures' = failures + 1
  /\ Fail(p)
  /\ UNCHANGED <<attempts, invocations, crashes, forced>>

\* Mutant of WriteFile: all files first, commits afterwards.
WriteFirst(p) ==
  /\ pc[p] = "write"
  /\ file' = [file EXCEPT ![Output(p)] = content[p]]
  /\ IF item[p] < Len(Outputs[Stage(p)])
     THEN item' = [item EXCEPT ![p] = @ + 1] /\ UNCHANGED pc
     ELSE Goto(p, "hash") /\ UNCHANGED item
  /\ UNCHANGED <<dirs, database, sidecar, report, commits, queue, content, seen, tip,
                 replay, mutated, replayed, counters>>

\* os.replace: the file of an earlier attempt is overwritten.
WriteFile(p) ==
  /\ pc[p] = "write"
  /\ file' = [file EXCEPT ![Output(p)] = content[p]]
  /\ Goto(p, "hash")
  /\ UNCHANGED <<dirs, database, sidecar, report, commits, memory, counters>>

\* Mutant of HashFile: the tip read for the last commit is used again.
HashKeepsTip(p) ==
  /\ pc[p] = "hash"
  /\ seen' = [seen EXCEPT ![p] = file[Output(p)]]
  /\ Goto(p, "append")
  /\ UNCHANGED <<disk, commits, queue, item, content, tip, replay, mutated, replayed,
                 counters>>

\* _ref: sha256_file of what is on disk now.
HashFile(p) ==
  /\ pc[p] = "hash"
  /\ seen' = [seen EXCEPT ![p] = file[Output(p)]]
  /\ Goto(p, IF ReadsFirst(p) THEN "append" ELSE "tip")
  /\ UNCHANGED <<disk, commits, queue, item, content, tip, replay, mutated, replayed,
                 counters>>

\* latest_commit_hash on a connection of its own.
ReadTip(p) ==
  /\ pc[p] = "tip"
  /\ tip' = [tip EXCEPT ![p] = Len(commits)]
  /\ Goto(p, IF ReadsFirst(p) /\ item[p] > 0 THEN "write" ELSE "append")
  /\ UNCHANGED <<disk, commits, queue, item, content, seen, replay, mutated, replayed,
                 counters>>

Row(parent, path, value) == [parent |-> parent, path |-> path, content |-> value]

\* append_commit: the parent is not compared with the tip.
AppendStarted(p) ==
  /\ pc[p] = "append" /\ queue[p] # {} /\ item[p] = 0
  /\ commits' = Append(commits, Row(tip[p], None, NoContent))
  /\ item' = [item EXCEPT ![p] = 1]
  /\ BeginOutput(p)
  /\ UNCHANGED <<disk, queue, content, seen, tip, replay, mutated, replayed, counters>>

AppendOutput(p) ==
  /\ pc[p] = "append" /\ queue[p] # {} /\ item[p] > 0
  /\ commits' = Append(commits, Row(tip[p], Output(p), seen[p]))
  /\ tip' = [tip EXCEPT ![p] = Len(commits')]
  /\ Goto(p, "link")
  /\ UNCHANGED <<disk, queue, item, content, seen, replay, mutated, replayed, counters>>

\* Mutant of LinkSidecar: only the last output gets its sidecar.
LinkLast(p) ==
  /\ pc[p] = "link"
  /\ LET last == item[p] = Len(Outputs[Stage(p)])
     IN  /\ sidecar' = IF last THEN [sidecar EXCEPT ![Output(p)] = tip[p]] ELSE sidecar
         /\ item' = [item EXCEPT ![p] = IF last THEN 0 ELSE @ + 1]
         /\ queue' = [queue EXCEPT ![p] = IF last THEN @ \ {Stage(p)} ELSE @]
         /\ IF last THEN Goto(p, "loop") ELSE BeginOutput(p)
  /\ UNCHANGED <<dirs, database, file, report, commits, content, seen, tip, replay,
                 mutated, replayed, counters>>

\* link_artifact_to_commit with the hash append_commit returned; then the next
\* output, the next stage, or, when a gate blocks under FailFast, none.
LinkSidecar(p) ==
  /\ pc[p] = "link"
  /\ sidecar' = [sidecar EXCEPT ![Output(p)] = tip[p]]
  /\ \/ /\ item[p] < Len(Outputs[Stage(p)])
        /\ item' = [item EXCEPT ![p] = @ + 1]
        /\ BeginOutput(p)
        /\ UNCHANGED <<queue, replay>>
     \/ /\ item[p] = Len(Outputs[Stage(p)])
        /\ item' = [item EXCEPT ![p] = 0]
        /\ Goto(p, "loop")
        /\ \/ queue' = [queue EXCEPT ![p] = @ \ {Stage(p)}] /\ UNCHANGED replay
           \/ /\ Stage(p) \in Gates
              /\ queue' = [queue EXCEPT ![p] = {}]
              /\ replay' = [replay EXCEPT ![p] = FALSE]
  /\ UNCHANGED <<dirs, database, file, report, commits, content, seen, tip, mutated,
                 replayed, counters>>

-----------------------------------------------------------------------------
(* The replay and the pipeline report. *)

BeginReplay(p) ==
  /\ pc[p] = "loop" /\ queue[p] = {} /\ replay[p]
  /\ tip' = [tip EXCEPT ![p] = Len(commits)]
  /\ replay' = [replay EXCEPT ![p] = FALSE]
  /\ Goto(p, "replay")
  /\ UNCHANGED <<disk, commits, queue, item, content, seen, mutated, replayed, counters>>

\* The replay raises without an export, or when the ledger grew meanwhile.
EndReplay(p) ==
  /\ pc[p] = "replay"
  /\ replayed' = [replayed EXCEPT ![p] = Latest(ReplayNeeds) # 0 /\ Len(commits) = tip[p]]
  /\ Goto(p, "loop")
  /\ UNCHANGED <<disk, commits, queue, item, content, seen, tip, replay, mutated, counters>>

\* _write_pipeline_report, unless nothing was executed and there is one.
WriteReport(p) ==
  /\ pc[p] = "loop" /\ queue[p] = {} /\ ~replay[p]
  /\ mutated[p] \/ ~report.exists
  /\ report' = [exists |-> TRUE, replay |-> replayed[p]]
  /\ Goto(p, "tip")
  /\ UNCHANGED <<dirs, database, file, sidecar, commits, memory, counters>>

AppendReport(p) ==
  /\ pc[p] = "append" /\ queue[p] = {}
  /\ commits' = Append(commits, Row(tip[p], None, NoContent))
  /\ Return(p)
  /\ UNCHANGED <<disk, counters>>

NoReport(p) ==
  /\ pc[p] = "loop" /\ queue[p] = {} /\ ~replay[p]
  /\ ~mutated[p] /\ report.exists
  /\ Return(p)
  /\ UNCHANGED <<disk, commits, counters>>

\* The process is killed, or an error that run_all.py does not catch ends it.
Crash(p) ==
  /\ pc[p] # "idle" /\ crashes < MaxCrashes
  /\ crashes' = crashes + 1
  /\ Return(p)
  /\ UNCHANGED <<disk, commits, attempts, invocations, failures, forced>>

Step(p) ==
  \/ Invoke(p) \/ MakeDirs(p) \/ OpenLedger(p)
  \/ LoadInputs(p) \/ LoadRaises(p) \/ StageRaises(p)
  \/ WriteFile(p) \/ HashFile(p) \/ ReadTip(p)
  \/ AppendStarted(p) \/ AppendOutput(p) \/ LinkSidecar(p)
  \/ BeginReplay(p) \/ EndReplay(p) \/ WriteReport(p) \/ AppendReport(p) \/ NoReport(p)
  \/ Crash(p)

Next == \E p \in Runner : Step(p)

Spec == Init /\ [][Next]_vars

-----------------------------------------------------------------------------
(* Properties. *)

Labels == {"idle", "dirs", "database", "loop", "write", "hash", "tip", "append",
           "link", "replay"}

IsContent(c) == c.attempt \in 0..attempts

\* Every variable keeps its kind; rows name earlier rows, sidecars name rows.
TypeOK ==
  /\ dirs \in BOOLEAN /\ database \in BOOLEAN
  /\ \A i \in 1..Len(commits) : /\ commits[i].parent \in 0..(i - 1)
                                /\ commits[i].path \in Path \cup {None}
                                /\ IsContent(commits[i].content)
  /\ \A x \in Path : file[x] # None => IsContent(file[x])
  /\ sidecar \in [Path -> 0..Len(commits)]
  /\ report \in [exists : BOOLEAN, replay : BOOLEAN]
  /\ pc \in [Runner -> Labels]
  /\ \A p \in Runner : /\ queue[p] \subseteq 1..N
                       /\ item[p] \in 0..Cardinality(Path)
                       /\ tip[p] \in 0..Len(commits)
  /\ replay \in [Runner -> BOOLEAN] /\ mutated \in [Runner -> BOOLEAN]
  /\ replayed \in [Runner -> BOOLEAN]

\* status.py never finds a mutating stage complete after one that is missing,
\* whatever was killed, failed or forced, when callers follow its recommendation;
\* and without --force none is missing before a replay that is complete.
StagesInOrder ==
  /\ \A s, t \in 1..N : s < t /\ Completed(t) => Completed(s)
  /\ forced = 0 /\ Completed(Replay) => \A s \in 1..N : Completed(s)

\* A run whose callers only follow the status report, skip or force can always
\* be resumed: it is never found inconsistent (COMMANDS.md:126, "Resume safely").
NoGap == ~Gap

\* Without --force no file of a complete stage is ever written again.
OverwriteOnlyForced ==
  [][\A s \in 1..N : Completed(s) /\ forced = 0 =>
       \A x \in Files(s) : file'[x] = file[x]]_vars

\* When a stage returns, each of its files is the one its latest commit and its
\* sidecar name, and all of them are of this attempt.
ReturnedIsLedgered ==
  [][\A p \in Runner : pc[p] = "link" /\ pc'[p] = "loop" =>
       \A x \in Files(Stage(p)) :
         /\ file[x] = content[p]
         /\ Latest(x) # 0
         /\ commits[Latest(x)].content = file[x]
         /\ sidecar'[x] = Latest(x)]_vars

\* Without --force a complete stage was computed from the latest commits of its
\* inputs, however often the stages before it were interrupted and repeated.
Fresh ==
  forced = 0 =>
    \A s \in 1..N : Completed(s) =>
      \A x \in Files(s) : file[x].from = [y \in Inputs[s] |-> Latest(y)]

\* A runner that died left at most one file that the ledger does not know.
OneAheadPerCrash ==
  Cardinality({x \in Path : file[x] # None /\
                 \A i \in 1..Len(commits) :
                   commits[i].path = x => commits[i].content # file[x]})
    <= crashes + Cardinality({p \in Runner : pc[p] # "idle"})

=============================================================================
