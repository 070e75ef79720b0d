# fActorI: a TLA+ verification project

fActorI runs a staged research pipeline on one run directory
(`runs/<run_id>/`) and records everything it produces twice: as files, and as
rows of an append-only, hash-chained SQLite ledger. Most of its correctness is
about these two stores staying in step while processes are killed, operations
fail and callers retry. This project models that part: the Rust kernel's bundle
commit, the Python pipeline runner with its rerun and resume decisions, the
targeted study with its LLM budget, its adaptive loop and its checkpoints, and
the autonomous paper controller with its checkpoint chain.

Paths below are relative to the repository. `lib.rs` is
`rust-kernel/src/lib.rs`.

## 1. The system

| Component | State it keeps | Operations | What makes it correct |
|---|---|---|---|
| **Kernel bundle commit** (`lib.rs`, called through `factori/kernel_bridge.py`) | intent file, planned files, ledger rows, SQLite lock and journal; per call a tree snapshot and rollback bookkeeping | `persistence.commit_bundle`: fresh commit, recovery from the intent, rollback | a bundle is committed wholly or not at all; the ledger is one chain; an interrupted bundle is visible as such and can be finished; a response never misreports |
| Kernel single mutations (`lib.rs`) | the same stores | append ledger, persist artifact, link artifact | as above, for one file |
| Kernel read-only verifiers (`lib.rs`) | none | verify ledger, checkpoint, replay core, classify evidence, resolve claim | functions of their documents |
| **Python ledger and artifact store** (`ledger.py`, `artifacts.py`, `persistence.py`) | files, sidecars (`.meta.json`), rows | atomic write, hash, read tip, append, link; choice between this route and the kernel | a stage that returned left file, row and sidecar in agreement; rows form a chain |
| **Stage orchestration** (`run_all.py`, `pipeline.py`, `rerun_policy.py`, `checkpoints.py`, `status.py`) | none of its own: it reads files and ledger, and writes the pipeline report | `run-all`, rerun decisions, resume validation, status | stages complete in order; nothing complete is overwritten without force; what is skipped can be loaded |
| **Autonomous paper controller** (`autonomous_paper_run.py`, `autonomous_paper_checkpoint.py`, `final_release_bundle.py`) | the stages' reports and indexes, numbered checkpoints, the index that lists them | run, checkpoint, verify, resume, hand over | checkpoints are immutable and linked; a resume starts at the last good one; no stage is made twice; what is handed over was verified |
| **LLM budget** (`llm_budget.py`, `targeted_llm_budget.py`) | a running total and held-back reserves in the process, accounting records on disk | open, authorise, call, record, release | the limits hold over all invocations of a study; the paper's calls are there when the paper is reached |
| **Evidence execution** (`hybrid_evidence_packages.py`) | package reports, execution reports, generated code | execute, repair, re-execute, defer | what one execution has completed no later one loses |
| **Adaptive loop** (`adaptive_evidence.py`) | loop reports | ask, accept, repair code, repair plan, stop, resume | it ends, within its allowances; what it accepts is what is judged |
| **Targeted study** (`targeted_study.py`) | stage records with fingerprints, checkpoints | run, resume, reopen, invalidate, gate | a completed study's paper rests on accepted, current evidence |
| Release decision chain (`final_audit.py`, `release_gate.py`, `claims.py`, `evidence.py`) | none | folds over reports | a blocking failure is never released |
| Stages A, B, C (`stage_a.py`, `stage_b*.py`, `stage_c*.py`) | what they write | sequential transformations | determinism; order of artifacts and rows |
| Autonomous loop and gap attempts (`autonomous_loop.py`, `gap_attempts.py`, ...) | iteration records | bounded iterations | termination |
| Experiment sandbox, manuscript and LaTeX assembly, replay and diagnostics, adapters, schemas, CLI | none that a protocol depends on | I/O and formatting | out of scope |

How they interact: `run-all` calls the stages one after the other; each stage
reads its inputs from the ledger's rows and writes each output through the
store and the ledger, or (stages A, B and part of C, when a kernel binary is configured and
the request is eligible) through `persist_artifacts_with_commit`, which starts
a kernel process per bundle and kills it on a timeout. Nothing but SQLite's lock
inside one kernel transaction serialises two processes of one run directory.

A targeted study calls the planner, the execution, the adaptive loop, the critics,
the adjudication and the manuscript one after the other; the execution is also
called by the loop, in four ways (a continuation, a code repair, the generation
of what is missing, a repaired plan). All of them make their LLM calls through one
budget manager. They speak to each other through reports on disk, of which each
reader takes the latest by its own rule, and a later invocation knows nothing
else. The paper controller runs four stages of its own, and a resumed one trusts
what its checkpoints list.

What is hard: overlapping kernel calls whose cleanup runs after the lock is
released; kills between any two system calls; failing cleanup; retries whose
first attempt is still alive; completeness decided by files and loading decided
by rows; decisions taken once and used much later; stages repeated over the
outputs of an attempt that was killed; allowances that are given back; two
readers of one history that disagree on what is the latest. `PROJECT.json` lists each
hazard at its line with the properties aimed at it.

## 2. Modules

| Module | What it is |
|---|---|
| `AtomicLog` | abstract specification: a linear log whose entries appear together with all their files |
| `CommitBundle` | the kernel's bundle commit, one action per system call or indivisible block |
| `CommitBundleInv` | its inductive invariants: of the ledger, of the files, of the intent |
| `CommitBundleProofs` | the theorems about ledger and files, and the refinement of `AtomicLog` |
| `BundleCallers` | callers that call once and all together: their specification, `OneWinner` and its invariant; EXTENDS `CommitBundleInv` |
| `BundleIntentProofs` | the theorems about the intent, about bytes that are not a call's own, about false mutations and about callers of one request; EXTENDS `CommitBundleProofs` and `BundleCallers` |
| `MCCommitBundle`, `MCBundleCallers` | requests and plans for TLC |
| `StageRuns` | `run-all`: decisions, stage loop, Python persistence, replay, report |
| `StageFilesProofs` | the linear ledger of `StageRuns`, its typing, and what a returned stage leaves |
| `StageOrderProofs` | the order of stages, their freshness, what kills leave; EXTENDS `StageFilesProofs` |
| `MCStageRuns` | a three-stage pipeline for TLC |
| `LLMBudget` | the budget manager: an abstract specification for the study, and the place of its calls |
| `EvidenceExecution` | one execution of a package; EXTENDS `LLMBudget` |
| `AdaptiveEvidence` | the adaptive loop; EXTENDS `EvidenceExecution`, which it calls |
| `TargetedStudy` | the stages, checkpoints, gates and invocations; EXTENDS `AdaptiveEvidence`: the composition of the four |
| `MCTargetedStudy` | limits for TLC |
| `LLMBudgetProofs`, `TargetedStudyProofs` | the budget's invariant, the study's refinement of it, completed plans |
| `StudyRecordsProofs` | the study's records, what a completed paper rests on, typing; EXTENDS `TargetedStudyProofs` |
| `PaperController` | the paper controller and its checkpoints |
| `PaperControllerProofs` | its inductive invariant and theorems |

Operators whose comment begins "Mutant of" are plausible bugs of the definition
that follows them. No specification uses them; they document what each property
would catch.

### 2.1 CommitBundle

State. `ledger`, `lock`, `journal` are SQLite's rows, RESERVED lock and
rollback journal. `intent` is `.factori-commit-bundle.intent.json`, `files` the
planned paths, `temps` the temporary objects with the process that made them.
Per process `init` is `initial_snapshot`, `origin` the rollback's knowledge of
whose intent it is, `made` the list `created`, `proven` the rollback's
`cleanup_ok`, `res` the last response. A request stands for its bytes, its plan
and its commit hash, which the code derives from it.

A call of `commit_bundle_payload_with_fault`:

    opened -> begun -> snapped -> intent_temp -> intent_linked -> publish
      -> (out_temp -> out_linked -> publish)* -> inserted -> COMMIT
      -> postcheck -> cleanup -> final
    rollback -> undo* -> undo_intent -> verdict     (any failure before COMMIT)
    final -> restore ...                            (a failed final check)
    begun -> recovered | publish                    (an intent was found)

`Step` is what a call does by itself, `Fault` a file or SQLite operation that
fails (`FailIntent`, `FailOutput`, `FailInsert`, `FailCommit`, `FailUndo`,
`FailUndoIntent`, `FailRemoveIntent`, `FailRestore`), `Crash` a kill (the
bridge's timeout or anything else) and `ForeignWrite` another program that
creates a file. `Call` starts a request; with `Overlap = FALSE` a caller does not
repeat an exact request while its first call is alive, and different requests
still overlap freely.

Abstractions. A whole-tree snapshot is one step. A kill loses the process, not
the page cache: power loss and fsync are not modelled. Payload validation,
directory checks and the validity of the ledger's content are preconditions. A
failing SQL `ROLLBACK` is not modelled. A COMMIT that SQLite refuses because another caller
reads at that moment (its SHARED lock, with a busy timeout of 0, `lib.rs:4043`) is counted
as a failed operation (`FailCommit`), whoever caused it. A planned file that appears between the
check and the link is answered with one code whichever of the two notices it.

### 2.2 StageRuns

State. `dirs`, `database` are the run directory and `ledger.sqlite`; `commits`
the rows with parent, path and content; `file`, `sidecar` per completion
artifact; `report` what `pipeline-run-report.json` says of the replay. Per runner:
the stages it has decided to run and not finished (`queue`, a set, whose least
element is next), the output it is at (`item`, 0 for the STARTED row), what the
attempt writes (`content`, which names the rows it was computed from), the hash
it took (`seen`) and the tip it read.

`Invoke` is the whole decision of `run_deterministic_pipeline` (status,
`decide_stage_rerun` for every stage, `validate_resume_request`), one step
because it only reads; a refused call changes nothing. `MakeDirs`, `OpenLedger`;
then per stage `LoadInputs`, STARTED, and per output `WriteFile`, `HashFile`,
`ReadTip`, `AppendOutput`, `LinkSidecar`, each a separate step. Stages A and B
read the tip before they write (`TipFirst`), the others after. `LoadRaises` and
`StageRaises` are failures the loop catches; `BeginReplay`/`EndReplay`,
`WriteReport`/`AppendReport`/`NoReport` end the call. `Crash` is a kill or an
exception the loop does not catch (`OSError`).

Abstractions. Only completion artifacts (`_STAGE_OUTPUTS`) are files; rows
between them are left out, so every stage has one STARTED row and one row per
output. A stage fails before its first completion artifact. The kernel
is not configured. `diagnose-run`, the written replay report, timestamps and
the sidecars of the pipeline report are left out. A write is atomic, which
`research_object.py:245` is not (listed as a hazard).

### 2.3 LLMBudget, EvidenceExecution, AdaptiveEvidence, TargetedStudy

State. `LLMBudget`: `recorded` is what the accounting records on disk add up to,
`usage` and `limit` the guard's running total and limits in the process, `tailHeld`
and `askHeld` the two reserves; `performed`, `lost`, `granted`, `tailEver` are
history. `EvidenceExecution`: `packages` and `execs` are the package and execution
reports on disk (a package is its number of plans), `work` the execution in
progress, `pc` the place of the single thread. `AdaptiveEvidence`: `loop` and
`adjudication` are the latest reports of their kind, `cur` the invocation's counts,
`seen` the execution under question. `TargetedStudy`: `records` and `done` are the
stage records and `completed` in the process, `checkpoint` the records on disk,
`tail` what the latest manuscript, assembly and bundle say.

    Start -> stage* -> Begin -> (plan: RepairTarget | Reexecute | Generate |
      DeferPlan, RuntimeRepair)* -> WriteReport -> ExecutionStageDone -> Record
      -> ReleaseQuestioner -> EnterLoop -> (BeginPass [-> execution -> Continued]
      -> Ask -> act [-> execution -> CodeRepairDone | PlanRepairDone])*
      -> LimitReached -> Record -> PassGate -> critique -> adjudication
      -> manuscript -> assembly -> bundle -> check -> Finish

`Begin` is the entry of `execute_hybrid_evidence_packages` for each of its
callers, whose limits are its arguments; "return" hands the outcome back to the caller
that `work.caller` names. `ActiveBudget` is `_active_budget`, computed when the
manager opens and at each release and never in between. `Start` is everything
from the preflight to the first stage: the budget from the records, the
invalidation by fingerprints, the reopening of the loop (`CanResume`, in the order
of `adaptive_loop_can_resume`) and of a deferred paper. `Record` is a stage's
record and its checkpoint; `Kill` falls before it, after it, or inside a call
(`KillInCall`, which loses the call's record). A fingerprint is the number of times a
stage has written its outputs, so that two writings differ.

Abstractions. Every plan asks for generated code and is required; drafts, symbolic
plans, dependencies between plans and reuse of M102 results are left out, and so
is the retry after a sandbox timeout, as the timeout never changes. The
questioner's findings and the rules that turn them into a decision are one choice
(`Decisions`) among those the rules leave possible; `no_progress_limit` can turn
any of these into a stop, which is one of them. Stages that differ in nothing the
properties see are one: the planning stages, the three of the manuscript,
assembly and verification. The cost limit is the call limit once more. A call
ends in an answer, an error or a failed transport. The adjudication takes the critics'
judgment and its own rules as one choice (`Verdicts`): it may name the package a nucleus if
the execution it reads is of that package. `Covered` is what the manuscript asks of it.
The audit of code is its outcome: earlier code that it passes again is run again, unpaid, and
what it refuses is generated anew or deferred. Of the strict production checks only the
critics' is modelled (`CritiqueRefused`), the one that an honest run can fail. A report that is
not ready is refused by the adjudication as well; no instance here gets that far, as the
critics refuse it first unless limits grow and shrink again over four invocations. The
proofs cover that case.

### 2.4 PaperController

State. `files` are the numbered checkpoints, `listing` what the latest index lists,
`begun`, `reports`, `indexed`, `safe` what each stage left behind (an attempt's
first traces, its reports, the report its index names, that report's verdict),
`spoiled` the checkpoints whose locked outputs were changed since. `proc` is the
process: the stages it reuses, the checkpoint it will link to, the gate.

    Start | Resume -> (Reuse | Begin -> WriteReport -> WriteStageIndex
      -> WriteCheckpoint -> WriteCheckpointIndex)* -> VerifyBundle -> checkpoint
      -> Recheck -> Finish -> the handoff's checkpoint -> End

`Resume` is `_prepare_resume` with `verify_autonomous_paper_checkpoints`, one step
because it only reads. Every file is a step of its own and `Kill` falls
between any two. A stage's own work is its first trace, its report and its index;
only the bundle refuses to begin over a trace (`final_release_bundle.py:126`), the
others write over it. `Spoil` changes outputs between invocations. The ledger only
grows and is valid; an index that cannot be read, protocol versions and claims of
authority are left out. The judgments a resume makes again over unchanged files (the claim
map and its lint, the bundle's verification, `autonomous_paper_run.py:1521-1561`) are one
verdict per stage, `safe`.

## 3. Runs

| Run | Instance | Result |
|---|---|---|
| `bundle_writers` | 2 processes, requests r1 and r2 (same parent, common path), r3 (child of r1); 1 kill, 2 failed operations, 1 foreign file | passes, 656,113 states: `TypeOK`, `LedgerLinear`, `CommittedIsComplete`, `PartialIsDetectable`, `NoClobber`, `FalseMutationRestores`, `ImplementsAtomicLog` |
| `bundle_callers` | 3 overlapping callers of r1 and its child r3 | passes, 36,214 states: `LedgerLinear`, `OneWinner` (claimed of the callers of one request whose parent is the root, while no operation fails) |
| `bundle_recovery` | 1 process, 2 requests, 2 kills, 1 failed operation, fairness | passes, 1,420 states: `CleanIntentResolves` |
| `stage_solo` | 3 stages with 5 outputs, 3 invocations, 2 kills, 1 failure, every policy | passes, 257,542 states: `TypeOK`, `Linear`, `StagesInOrder`, `Fresh`, `OneAheadPerCrash`, `OverwriteOnlyForced`, `ReturnedIsLedgered` |
| `targeted_study` | 2 plans, 3 invocations with limits that grow, 1 failing call, 1 kill, a reserve of 3 calls, fairness | passes, 252,695 states: `TypeOK`, `CallsWithinGrant`, `TailReserveKept`, `RepairsWithinGrant`, `CompletedIsCurrent`, `PaperRestsOnAdjudicated`, `CompletedPlansKept`, `InvocationEnds` |
| `paper_controller` | 4 invocations, 2 kills, 1 checkpoint with changed outputs | passes, 72,632 states: `TypeOK`, `IndexSound`, `StagesOnce`, `ReadyRests`, `HistoryKept` |
| `bundle_wedge`, `bundle_rollback_race`, `stage_gap`, `study_unaccepted`, `study_rejected`, `paper_wedge` | see section 5 | each violates one statement of the repository |

Why the bounds suffice. Two kernel processes are enough for every race between
a call and a rival, as the lock admits one call at a time and every unlocked phase
(undo, postcheck, cleanup, final, restore) touches one rival's work; a third is
needed only to exchange two callers' intents (`bundle_callers`). Two files per
request give first, middle and last position of a publication; r1, r2 and r3 give
competition for the parent, for a path, and succession. Two failed operations let
an operation and then its cleanup fail. For the stages, two stages with two outputs
let a kill fall between them, in the middle and after the output that the replay
needs; the first and the last give a prerequisite and a dependent; two kills and three invocations let an attempt die,
its repetition die elsewhere, and a third succeed.

For the study, two plans are what it takes to complete one and defer, repair or
lose the other; three invocations let a loop run out of calls, be reopened with more, and
a paper that was deferred be reopened again; the first limits are the least the
preflight accepts, so that every refusal of the budget is reached, and the last
ones allow one repair of code and one of the plan. One failing call is enough for
each place a failure is handled, as none of them counts failures. The tail's
reserve of 3 stands for the code's eleven calls of critics, adjudication and
manuscript and the eleven of the revision: one for each kind of stage that spends
it. For the controller, four invocations with two kills let a stage die, its resume die
in another stage or in the handoff, a third finish and a fourth verify all of it.

`CHECK_DEADLOCK FALSE` is used where callers have a bounded number of calls
(`bundle_callers`, the stage runs, the study's and the
controller's invocations) or where a run ends at its
counterexample.

### Fairness

`FairSpec` has weak fairness of each process's `Step`: an operating-system process
that is not killed runs on, and every loop of the code is bounded by its plan.
It has strong fairness of `Open(p, r)` while `intent = r`: the contract tells a
caller that got `recovery_required` or lost its answer to repeat the exact
request, and SQLite's lock may refuse it now and then but not for ever. Nothing is
assumed of faults and kills; they are bounded instead. `StageRuns` and
`PaperController` have no liveness properties: nobody is obliged to run the
pipeline or the controller again, and neither has a loop of its own.

`TargetedStudy!FairSpec` has weak fairness of `Process`, everything an invocation does
by itself: it is one thread, its calls and its sandbox have timeouts, and it waits
on nothing else. Nothing is assumed of what the calls return: `InvocationEnds` holds
although every one may fail, because of the counts and limits of the loops alone.

## 4. Proofs

All theorems hold for every set of processes, requests and runners, every plan
or pipeline and every bound on kills and failures, under the named ASSUMEs of
`CommitBundle` and `StageRuns` (sentinels differ from data; outputs of a request
are distinct paths; no request is its own parent).

`CommitBundleProofs`:

* `TypeCorrect` : `Spec => []TypeOK`.
* `LedgerIsLinear` : `Spec => []LedgerLinear`, also when exact retries overlap. The
  tip is compared once and the row inserted many steps later, so linearity alone
  is not inductive. `LedgerInv` adds that SQLite's lock is held exactly between
  BEGIN and COMMIT or ROLLBACK (`LockInv`), that the compared tip is the tip until
  then (`TipInv`), and that no request is committed twice (`NoRepeat`).
* `OneWriter` : two calls are never inside the transaction together.
* `CommittedStaysComplete` and `Refinement` : under `~Overlap`,
  `Spec => []CommittedIsComplete` and `Spec => ImplementsAtomicLog` (`ledger` is the
  log, and the store shows the files of committed requests). `FileInv` adds: no request is
  carried by two calls (`Unique`); a call that may still roll back is not committed
  (`NotCommitted`); what it has published is a part of its plan up to `next`
  (`Progress`) and still in place (`Owned`); its snapshot tells which paths are
  foreign (`SnapshotInv`); bytes of a request are only on its plan (`OnPlan`). The
  assumption `~Overlap` is necessary: `bundle_rollback_race` is the counterexample.

`BundleIntentProofs`, the first three under `~Overlap`, for any kills, failing operations and
foreign files:

* `NothingClobbered` : `Spec => NoClobber`: bytes that are committed, or that no call wrote,
  stay. It follows from `FileInv` step by step: what a call removes it owns, and its request
  is not committed.
* `PartIsAnnounced` : `PartialIsDetectable`. That a part of a bundle is on disk says nothing
  about how it got there, so `IntentInv` adds: a call that has linked its intent finds it there
  until it removes it (`ClaimInv`), before its plan a call has no intent to answer for
  (`OriginInv`), a fresh intent is written, and removed, where none of the request's files
  is, and its rollback remembers that (`FreshInv`), and a call past COMMIT has its row (`LateInv`). `~Overlap`
  is necessary: an intent is removed by path, without the lock, and of overlapping calls of one
  request the slower one can remove the intent of the next request.
* `FalseMutationIsTrue` : `FalseMutationRestores`. `TempsInv` says that a temporary
  object's call is inside the write that made it, `SnappedInv` that until its first write nobody
  else has added to the bundle what the snapshot does not show.
* `OneCallerWins` : `OneShotSpec => OneWinner`, with overlapping callers, any number of them,
  and no failures or kills (`MaxFaults = MaxCrashes = 0`; a caller that is killed gets no
  answer at all, and a COMMIT made busy by another caller's SHARED lock is a failure). `CallersInv` has two halves. `Before` the commit only the holder of the lock
  writes, from an empty tree and exactly as its plan says (`Writes`), so every check it makes
  passes and it reaches COMMIT. `After` it the tree is the committed bundle and
  can lose nothing but the intent; whoever removes the intent is told so (`Won`), the
  others see it gone, or are refused.

`StageFilesProofs` and `StageOrderProofs`, with which every property of `stage_solo` is
proved, for every pipeline and any number of kills, failures, reruns and resumptions:

* `LinearWhenAlone` : under `~Overlap`, `Spec => []Linear`. `append_commit` never
  compares its parent with the tip; the chain holds because the tip a runner holds is
  the current one (`TipInv`), and that because one runner at most is active (`Solo`).
* `StageTypes` : `Spec => []TypeOK` for a finite `Path`, also when runners overlap.
  `TypeInv` adds where a runner is when it hashes or appends (`AtStage`): only a file
  that was written is hashed, and only a reference that was built is committed.
* `StageReturnsLedgered` : `ReturnedIsLedgered`, under `~Overlap`. `Attempt` says of a runner
  within a stage that the outputs before its current one hold the attempt's content on disk,
  in their latest row and by their sidecar, and how far the current one has come.
* `StageOverwriteOnlyForced` : `OverwriteOnlyForced`, under `~Overlap` and `~StartAnywhere`
  (callers start at the first stage or where the status report says), with `NoFile`
  (content differs from "no file"). `OnDisk` says in which order files come: a last
  file after the others of its stage, any file after all files of the stages before it and with
  the rows it was loaded from, a row after its file. `Ahead` says that a runner whose queue was
  decided without `--force` finds the last file of each queued stage missing until
  it writes it, and nothing of the stages after.
* `StagesCompleteInOrder` : `StagesInOrder`, under the same assumptions and `ExportIsLast` (the
  replay needs an output of the last stage, which calls no adapter). `Exported` carries the
  case of a replay that follows a failure: the export is still to come, done, or not begun.
* `StagesAreFresh` : `Fresh`, with `InputsAreEarlier` (a stage loads outputs of earlier
  stages). Rows of a stage that is repeated change the sources of later stages only, and
  `Ahead` says that these have nothing on disk.
* `StrayFilesBounded` : `OneAheadPerCrash`, under `~Overlap` alone: the files that are neither
  in the ledger nor about to be committed are at most as many as the kills.

The assumptions are what the property needs and the code does not enforce: overlapping
runners fork the ledger, and a caller's own `--start-at` leaves gaps (section 5).

`LLMBudgetProofs` and `TargetedStudyProofs`:

* `BudgetSafe` : `BudgetSpec => []BudgetInv`, for any limits, raised or lowered, in any
  order. The guard compares two numbers in memory, and the limits are
  about the study, so they are not inductive. `Bound` adds that the running total is what
  is on record whenever a manager is open, that the guard's limits, taken as a
  snapshot when it opened or released, are within what was granted less what is
  held, and that the transports they give back are on record; `Accounted`, that
  recorded and lost calls are all there were.
* `StudyKeepsBudget` : `Spec => BudgetSpec`. `LLMBudget` is the abstract specification and
  the study implements it with the identity as refinement mapping: every action of
  the execution, the loop and the stages is one of the budget's or leaves it alone. From it
  and `BudgetSafe` follow `StudyCalls`, `StudyTail` and `StudyRepairs`, that is
  `CallsWithinGrant`, `TailReserveKept` and `RepairsWithinGrant` of the whole study, for every number
  of plans, every sequence of limits and every number of failures and kills.

* `CompletedKept` : `Spec => []CompletedPlansKept`. A report is written many steps after
  the completed plans were looked up, so `KeptInv` carries the execution in progress:
  `Untouched` says that plans completed before have their result from the start and
  are neither to be done nor being repaired, but for its target; `HistoryOK`, that
  reports are of packages that exist; `PackageFirst`, that nothing is executed before the
  first package. The proof reduces each of the forty actions to one of six shapes of what
  a step does to packages, reports and work, and then looks at the shapes.

`StudyRecordsProofs`, for every number of plans, all limits, raised or lowered between the
invocations, and any number of failures and kills:

* `CompletedRecords` : `Spec => []CompletedIsCurrent`. A record is `Sound` when it was made from
  what the stages before it have now, and soundness is what a later rerun takes away. So
  `RecordsInv` says that a record never knows of outputs that are still to be made,
  and `DoneInv` that all an invocation has skipped or made is sound, with all before it, that a
  sound stage is run again only when the reopened adaptive loop is still ahead
  (`LoopAhead`), and that what lies behind is done, or a part of the paper that was deferred
  (`TailDeferred`). At the end no stage is ahead, so every record is sound; of the last one,
  "check", which nothing depends on, only that it is there is claimed. `TailInv` ties the records of the
  paper's stages to what these left on disk.
* `PaperFromChosen` : `Spec => []PaperRestsOnAdjudicated`. `EvidenceInv` says of the loop's reports,
  in memory and on disk, that a satisfied one had a ready execution to accept, and `PaperInv` that a
  ready manuscript whose record is sound was written from ready results of the
  package the adjudication names.
* `StudyTypes` : `Spec => []TypeOK`. That a report has a result for each plan of
  its own package needs `KeptInv`, as later packages have more or other plans; the rest is
  `DataInv`, by the shape of each step.

`PaperControllerProofs`, for any number of invocations, kills and changed outputs:

* `Types`, `IndexStaysSound`, `StagesRunOnce`, `ReadyIsEarned`, `HistoryOnlyGrows`: the five
  properties of the run, from one inductive invariant. `Typed` is the typing,
  `AtStage` where the process is and what a new run looks like,
  `Numbered` that attempts come before reports and an invocation before its resume
  report. `Chained` : the process holds the last listed checkpoint, or a new one linked
  to it, although checkpoints that a kill left unlisted lie between. `Placed` : the
  stages before the process's own have their checkpoints with the report their index
  names, those after it are reused or have left no index. `Passed` : what has been
  verified on the way to the handoff, and that no listed gate has failed while a
  process may still become ready.

Every invariant and every action property of the passing runs is a theorem. Model-checked
only are the liveness properties `CleanIntentResolves` and `InvocationEnds` (liveness
under fairness is out of the prover's reach).

## 5. Where code and documents disagree

Shown by runs:

1. `bundle_wedge`. `RUST_KERNEL_CONTRACT.md:2352`: Rust "leaves the intent for exact
   recovery". When the next request commits before the final check of the first one,
   the check fails, the old intent is restored, and no request can resume it.
2. `bundle_rollback_race`. `RUST_KERNEL_CONTRACT.md:2204`: an exact retry finishes a
   request without deleting provenance. A rollback issues ROLLBACK before it removes its
   files; an overlapping retry adopts and commits one of them, and it is then removed.
3. `study_unaccepted`. `adaptive_evidence.py:1046`: "A bounded repair was executed;
   re-questioning is required."; `COMMANDS.md:1232`: the paper's stages "remain unreachable until an
   accepted adjudication-ready evidence result exists". One invocation accepts an execution
   and its critics ask for a repair of the plan. The next one makes it, the repaired
   execution spends the last free call, and a kill falls before the loop's report. The third
   repeats "satisfied" (`adaptive_evidence.py:538`), as re-questioning needs a call (`:536`), and the
   gate looks at that status and at the readiness of the latest execution only
   (`targeted_study.py:879`): the paper is written from one that nobody questioned.
4. `study_rejected`. `adaptive_evidence.py:2510`: "Keep a rejected patch diagnostic from
   replacing prior execution evidence." The questioner's loader does; the critics, the
   adjudication and the manuscript load the latest report. After a rejected repair the
   questioner may accept the execution before it. The critics are then given the rejected one,
   whose report has no execution record, and their strict production check
   (`evidence_package_adjudication.py:194-216`) refuses it after their calls are spent, in
   this and every later invocation: such a study is stuck, not wrong.
   `PaperRestsOnAdjudicated` says what holds of every completed paper: it is written from ready
   evidence of the package that the critics chose, after some ready execution was accepted.
5. `stage_gap`. `COMMANDS.md:126`: "Resume safely by selecting a later stage, skip completed
   stages explicitly, or force". After a failed stage `run-all` skips the mutating ones but
   still runs the replay (`run_all.py:177`), which needs the export's readiness report and
   no later file. A run killed in the export after that report, and then forced from an
   earlier stage that fails, reports a replay over an incomplete export: the status is
   inconsistent (`status.py:282`) and every later run is blocked, a forced one too.
   `StagesInOrder` says what holds instead: mutating stages are never out of order, and the
   replay is not unless something was forced.
6. `paper_wedge`. `MILESTONES.md:196`, "crash-safe controller resume". A kill between the
   bundle's directory and its report makes the next resume fail at the bundle, and the
   failed handoff checkpoint that it leaves refuses every resume after it.

Met while modelling, and reachable in the same modules, but no longer kept as runs:

* `RUST_KERNEL_CONTRACT.md:2348`, after a termination "the exact request resumes": a kill while a
  temporary object or `ledger.sqlite-journal` exists leaves a run that refuses the
  exact request for ever (`Debris` in `CleanIntentResolves`).
* `RUST_KERNEL_CONTRACT.md:2206`, "No crash may leave an undetectable partial bundle": with
  overlapping calls of one request, an intent is removed by path without a lock and may be
  the next request's (`bundle_writers` has no overlap of exact retries).
* `status.py:179`, "safely resume": an accepted `--start-at` asks for fewer files than
  complete the stage before it.
* `COMMANDS.md:126`, "skip completed stages": a stage killed between its last file and its
  row is skipped as complete and can never be loaded.
* `ARCHITECTURE.md:165`, "Broken lineage ... blocks further mutation": lineage is inspected
  once per `run-all`; runners that passed keep appending.
* `COMMANDS.md:1203`, "two code repairs": a failed transport is given back when it is recorded
  (`adaptive_evidence.py:898`) and once more at the next start (`:515`), and pays for a repair
  beyond the loop's own limit. `RepairsWithinGrant`, about the budget's, holds.
* `COMMANDS.md:1232`, stages "remain unreachable until an accepted adjudication-ready
  evidence result exists": there may be one, and the critics cannot take it. A study killed
  between an execution's report and the stage's record executes again, reuses every result
  and writes a ready report that executed nothing; the questioner accepts it, and the
  critics' production check (as in 4) refuses it in every invocation, after their calls
  (`CritiqueRefused`).

## 6. Plan

Done: the kernel's bundle; the Python stages; the targeted study with budget, execution and
adaptive loop, composed; the paper controller. Their safety and action properties are
proved. What would come next:

1. The other kernel mutations, sharing the ledger with `CommitBundle`, and the routing
   of `persistence.py:259`, where a stale parent falls back to the Python append.
2. The autonomous loop and its gap attempts below `PaperController`'s second stage.
3. The release decision chain as operators checked against a reference definition.

## 7. Not modelled

The content of candidates, claims, reports and manuscripts; JSON validation and
hash functions (taken as injective); network adapters; the experiment sandbox;
power loss; Windows file semantics. The components table of `PROJECT.json`
gives the reason for each part.

Most of the repository's lines are of this kind: schemas and their
validators (`schemas/`), the command line (`cli.py`), generated protocol documents
(`protocols.py`), prompts, rendering of Markdown and LaTeX, and transformations of one document into
the next, which have no state and meet no other process. The modelled part is the
control that remains: small in lines, and the place where order, failure and
repetition matter. The map therefore covers a small share of all lines, and would not
cover much more without definitions that stand for text.
