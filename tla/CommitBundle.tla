---------------------------- MODULE CommitBundle ----------------------------
(***************************************************************************)
(* The persistence.commit_bundle operation of the Rust research kernel     *)
(* (rust-kernel/src/lib.rs): one invocation publishes the planned files of  *)
(* a request (all artifacts, then all their sidecars) by no-clobber hard    *)
(* links, appends the one ledger row that references them inside a SQLite   *)
(* immediate transaction, and keeps a single durable intent file from       *)
(* before the first planned file until after the commit is verified.  An    *)
(* interrupted invocation is finished by an exact retry of the request.     *)
(*                                                                         *)
(* Several invocations run concurrently as operating-system processes.  A   *)
(* step is one system call, or one block of code whose reads and writes no  *)
(* other step of the model can split; a whole-tree snapshot is one step.    *)
(* A process may be killed before any step (the Python bridge kills it on   *)
(* timeout), any file or SQLite operation may fail, and a process that is   *)
(* no kernel invocation may create a file in the run directory.             *)
(***************************************************************************)
EXTENDS Naturals, Sequences, FiniteSets

CONSTANTS
  Proc,          \* kernel processes
  Request,       \* exact requests; a request is also its intent, its commit
                 \* hash and the bytes of its files (all derived from it)
  Path,          \* file paths of the run directory that matter
  Root,          \* the ledger's tip before the modelled rows
  None,          \* no process, no request, no file
  Foreign,       \* the bytes of a file no modelled request wrote
  Orphan,        \* the owner of a temporary file whose process is gone
  ExpectedTip,   \* [Request -> Request \cup {Root}]: expected_tip_hash
  Outputs,       \* [Request -> Seq(Path)]: artifact paths, then sidecar paths
  Overlap,       \* may an exact retry start while an earlier call still runs?
  MaxCrashes,    \* bound on killed processes
  MaxFaults,     \* bound on failed file or SQLite operations
  MaxForeign     \* bound on files created by other programs

ASSUME SentinelAssumption ==
  /\ None \notin Proc \cup Request \cup Path \cup {Root, Foreign, Orphan}
  /\ Foreign \notin Request
  /\ Root \notin Request
  /\ Orphan \notin Proc

ASSUME PlanAssumption ==
  /\ ExpectedTip \in [Request -> Request \cup {Root}]
  /\ Outputs \in [Request -> Seq(Path)]
  /\ \A r \in Request : /\ ExpectedTip[r] # r
                        /\ \A i, j \in 1..Len(Outputs[r]) :
                             Outputs[r][i] = Outputs[r][j] => i = j

ASSUME BoundAssumption ==
  /\ Overlap \in BOOLEAN
  /\ MaxCrashes \in Nat /\ MaxFaults \in Nat /\ MaxForeign \in Nat

VARIABLES
  ledger,   \* the rows of ledger.sqlite after the root, in rowid order
  lock,     \* the process holding SQLite's RESERVED lock
  journal,  \* does ledger.sqlite-journal exist?
  intent,   \* the request in .factori-commit-bundle.intent.json
  files,    \* [Path -> bytes]
  temps,    \* owners of the temporary files
  pc, req,  \* per process: program counter and request
  init,     \* per process: initial_snapshot, the run tree under the lock
  origin,   \* per process: BundleRollbackIntentState, whose intent it is
  next,     \* per process: index of the next planned file
  made,     \* per process: created, the indices of the files it published
  proven,   \* per process: cleanup_ok of the rollback
  res,      \* per process: the last response
  crashes, faults, foreigns  \* the bounded counters

durable == <<ledger, journal, intent, files, temps>>
local == <<req, init, origin, next, made, proven>>
counters == <<crashes, faults, foreigns>>
vars == <<durable, lock, pc, local, res, counters>>

-----------------------------------------------------------------------------
(* The run tree and the plan of a request. *)

Tree == [ledger |-> ledger, journal |-> journal, intent |-> intent,
         files |-> files, temps |-> temps]

Tip(rows) == IF rows = <<>> THEN Root ELSE rows[Len(rows)]

Planned(r) == {Outputs[r][i] : i \in 1..Len(Outputs[r])}

\* bundle_file_matches over every planned file.
AllExact(r) == \A x \in Planned(r) : files[x] = r

\* The first guard of a recovery: what is there is what was planned.
ExistingExact(r) == \A x \in Planned(r) : files[x] \in {None, r}

\* expected_snapshot: the initial tree, the fresh intent, the files published so far.
ExpectedFiles(p, done) ==
  [x \in Path |-> IF \E i \in done : Outputs[req[p]][i] = x
                  THEN req[p] ELSE init[p].files[x]]

ExpectedTree(p, done) ==
  [init[p] EXCEPT !.intent = req[p], !.files = ExpectedFiles(p, done)]

\* committed_snapshot after the intent is removed.
CommittedTree(p) ==
  [init[p] EXCEPT
     !.intent = None,
     !.files  = ExpectedFiles(p, made[p]),
     !.ledger = IF Tip(@) = req[p] THEN @ ELSE Append(@, req[p])]

-----------------------------------------------------------------------------
Codes == {"none", "accepted", "busy", "ledger_invalid", "recovery_required",
          "recovery_conflict", "tip_mismatch", "target_exists",
          "snapshot_changed", "intent_write_failed", "publish_failed",
          "insert_failed", "rollback_uncertain", "commit_uncertain",
          "postcondition_failed", "intent_cleanup_failed",
          "durability_uncertain", "killed"}

Response(code, mutated) == [code |-> code, mutated |-> mutated]

\* Program counters under the immediate transaction.
Locked == {"begun", "snapped", "intent_temp", "intent_linked", "publish",
           "out_temp", "out_linked", "rollback", "inserted"}

Running == Locked \cup {"opened", "undo", "undo_intent", "verdict", "postcheck",
                        "recovered", "cleanup", "final", "restore",
                        "restore_temp", "restore_linked"}

NoTree == [ledger |-> <<>>, journal |-> FALSE, intent |-> None,
           files |-> [x \in Path |-> None], temps |-> {}]

Init ==
  /\ ledger = <<>> /\ lock = None /\ journal = FALSE
  /\ intent = None /\ files = [x \in Path |-> None] /\ temps = {}
  /\ pc = [p \in Proc |-> "idle"]
  /\ req = [p \in Proc |-> None]
  /\ init = [p \in Proc |-> NoTree]
  /\ origin = [p \in Proc |-> "Absent"]
  /\ next = [p \in Proc |-> 1]
  /\ made = [p \in Proc |-> {}]
  /\ proven = [p \in Proc |-> TRUE]
  /\ res = [p \in Proc |-> Response("none", FALSE)]
  /\ crashes = 0 /\ faults = 0 /\ foreigns = 0

Goto(p, label) == pc' = [pc EXCEPT ![p] = label]

\* The invocation returns; its locals are gone.
Return(p, code, mutated) ==
  /\ Goto(p, "idle")
  /\ res' = [res EXCEPT ![p] = Response(code, mutated)]
  /\ req' = [req EXCEPT ![p] = None]
  /\ init' = [init EXCEPT ![p] = NoTree]
  /\ origin' = [origin EXCEPT ![p] = "Absent"]
  /\ next' = [next EXCEPT ![p] = 1]
  /\ made' = [made EXCEPT ![p] = {}]
  /\ proven' = [proven EXCEPT ![p] = TRUE]

\* A rejection before any mutation: ROLLBACK and return.
Reject(p, code) ==
  /\ Return(p, code, FALSE)
  /\ lock' = None
  /\ UNCHANGED <<durable, counters>>

\* rollback_bundle_failure is called; res[p] carries the original failure.
Abort(p, code, mutated) ==
  /\ Goto(p, "rollback")
  /\ res' = [res EXCEPT ![p] = Response(code, mutated)]
-----------------------------------------------------------------------------
(* Opening the ledger, the immediate transaction, the snapshot. *)

\* The bridge starts the kernel; auxiliary SQLite files refuse the call.
OpenRefused(p, r) ==
  /\ pc[p] = "idle" /\ journal
  /\ res' = [res EXCEPT ![p] = Response("ledger_invalid", FALSE)]
  /\ UNCHANGED <<durable, lock, pc, local, counters>>

\* Mutant of Open: the request is not remembered.
OpenForgetful(p, r) ==
  /\ pc[p] = "idle" /\ ~journal
  /\ Goto(p, "opened")
  /\ UNCHANGED <<durable, lock, local, res, counters>>

Open(p, r) ==
  /\ pc[p] = "idle" /\ ~journal
  /\ Overlap \/ \A q \in Proc : req[q] # r
  /\ Goto(p, "opened")
  /\ req' = [req EXCEPT ![p] = r]
  /\ res' = [res EXCEPT ![p] = Response("none", FALSE)]
  /\ UNCHANGED <<durable, lock, init, origin, next, made, proven, counters>>

\* BEGIN IMMEDIATE with busy_timeout = 0.
Busy(p) ==
  /\ pc[p] = "opened" /\ lock # None
  /\ Return(p, "busy", FALSE)
  /\ UNCHANGED <<durable, lock, counters>>

Begin(p) ==
  /\ pc[p] = "opened" /\ lock = None
  /\ lock' = p
  /\ Goto(p, "begun")
  /\ UNCHANGED <<durable, local, res, counters>>

\* initial_snapshot; a temporary object of any invocation refuses the call.
Snapshot(p) ==
  /\ pc[p] = "begun"
  /\ \/ temps # {} /\ Reject(p, "recovery_required")
     \/ /\ temps = {}
        /\ init' = [init EXCEPT ![p] = Tree]
        /\ Goto(p, "snapped")
        /\ UNCHANGED <<durable, lock, req, origin, next, made, proven, res,
                       counters>>

(* The intent exists: only its exact request may go on. *)

\* Mutant of RecoveryConflict: any file of the plan refuses the recovery.
RecoveryConflictOnAnyFile(p) ==
  /\ pc[p] = "snapped" /\ intent # None
  /\ \/ intent # req[p]
     \/ \E x \in Planned(req[p]) : files[x] # None
     \/ Tip(ledger) \notin {req[p], ExpectedTip[req[p]]}
  /\ Reject(p, "recovery_conflict")

\* Another request's intent, an inexact planned file, or a later tip.
RecoveryConflict(p) ==
  /\ pc[p] = "snapped" /\ intent # None
  /\ \/ intent # req[p]
     \/ ~ExistingExact(req[p])
     \/ Tip(ledger) = req[p] /\ ~AllExact(req[p])
     \/ Tip(ledger) \notin {req[p], ExpectedTip[req[p]]}
  /\ Reject(p, "recovery_conflict")

\* The commit is there already: only the intent is left to remove.
ResumeCommitted(p) ==
  /\ pc[p] = "snapped" /\ intent = req[p]
  /\ Tip(ledger) = req[p] /\ AllExact(req[p])
  /\ lock' = None
  /\ Goto(p, "recovered")
  /\ UNCHANGED <<durable, local, res, counters>>

\* Mutant of ResumePartial: the tip is not compared again.
ResumePartialAnyTip(p) ==
  /\ pc[p] = "snapped" /\ intent = req[p]
  /\ ExistingExact(req[p])
  /\ origin' = [origin EXCEPT ![p] = "Recovery"]
  /\ Goto(p, "publish")
  /\ UNCHANGED <<durable, lock, req, init, next, made, proven, res, counters>>

ResumePartial(p) ==
  /\ pc[p] = "snapped" /\ intent = req[p]
  /\ ExistingExact(req[p])
  /\ Tip(ledger) = ExpectedTip[req[p]]
  /\ origin' = [origin EXCEPT ![p] = "Recovery"]
  /\ Goto(p, "publish")
  /\ UNCHANGED <<durable, lock, req, init, next, made, proven, res, counters>>

(* No intent: a fresh call on the expected tip, with every target absent. *)

TipMismatch(p) ==
  /\ pc[p] = "snapped" /\ intent = None
  /\ Tip(ledger) # ExpectedTip[req[p]]
  /\ Reject(p, "tip_mismatch")

TargetsAbsent(p) == \A x \in Planned(req[p]) : files[x] = None

TargetExists(p) ==
  /\ pc[p] = "snapped" /\ intent = None
  /\ Tip(ledger) = ExpectedTip[req[p]]
  /\ ~TargetsAbsent(p)
  /\ Reject(p, "target_exists")

\* Mutant of StartIntent: the tip is not compared under the lock.
StartIntentAnyTip(p) ==
  /\ pc[p] = "snapped" /\ intent = None
  /\ TargetsAbsent(p)
  /\ temps' = temps \cup {p}
  /\ Goto(p, "intent_temp")
  /\ UNCHANGED <<ledger, journal, intent, files, lock, local, res, counters>>

\* The tree changed since the snapshot, or write_bundle_intent creates its temp.
StartIntent(p) ==
  /\ pc[p] = "snapped" /\ intent = None
  /\ Tip(ledger) = ExpectedTip[req[p]]
  /\ TargetsAbsent(p)
  /\ \/ Tree # init[p] /\ Reject(p, "snapshot_changed")
     \/ /\ Tree = init[p]
        /\ temps' = temps \cup {p}
        /\ Goto(p, "intent_temp")
        /\ UNCHANGED <<ledger, journal, intent, files, lock, local, res, counters>>

-----------------------------------------------------------------------------
(* write_bundle_intent: temporary file, no-clobber link, readback. *)

DropTemp(p, kept) == (temps \ {p}) \cup (IF kept THEN {Orphan} ELSE {})

\* One failed operation, and a second one when its cleanup fails too.
Spend(cleanupFails) ==
  /\ faults' = faults + (IF cleanupFails THEN 2 ELSE 1)
  /\ faults' <= MaxFaults
  /\ UNCHANGED <<crashes, foreigns>>

LinkIntent(p) ==
  /\ pc[p] = "intent_temp"
  /\ \/ /\ intent = None
        /\ intent' = req[p]
        /\ Goto(p, "intent_linked")
        /\ UNCHANGED <<temps, res>>
     \/ /\ intent # None
        /\ temps' = DropTemp(p, FALSE)
        /\ Abort(p, "intent_write_failed", FALSE)
        /\ UNCHANGED intent
  /\ UNCHANGED <<ledger, journal, files, lock, local, counters>>

\* The readback, then the snapshot check that ends the intent's publication.
FinishIntent(p) ==
  /\ pc[p] = "intent_linked" /\ intent = req[p]
  /\ temps' = DropTemp(p, FALSE)
  /\ origin' = [origin EXCEPT ![p] = "Fresh"]
  /\ \/ /\ [Tree EXCEPT !.temps = temps'] = ExpectedTree(p, {})
        /\ Goto(p, "publish")
        /\ UNCHANGED res
     \/ /\ [Tree EXCEPT !.temps = temps'] # ExpectedTree(p, {})
        /\ Abort(p, "snapshot_changed", FALSE)
  /\ UNCHANGED <<ledger, journal, intent, files, lock, req, init, next, made,
                 proven, counters>>

\* Someone else removed or replaced the intent: the readback fails, and the cleanup
\* removes whatever intent is there now.
IntentLost(p) ==
  /\ pc[p] = "intent_linked" /\ intent # req[p]
  /\ temps' = DropTemp(p, FALSE)
  /\ \/ intent = None /\ Abort(p, "rollback_uncertain", TRUE)
     \/ intent # None /\ Abort(p, "intent_write_failed", FALSE)
  /\ intent' = None
  /\ UNCHANGED <<ledger, journal, files, lock, local, counters>>

FailIntent(p) ==
  /\ pc[p] \in {"intent_temp", "intent_linked"}
  /\ \E keptTemp, keptIntent \in BOOLEAN :
       /\ keptIntent => pc[p] = "intent_linked"
       /\ pc[p] = "intent_linked" /\ intent = None => keptIntent
       /\ Spend(keptTemp \/ keptIntent)
       /\ temps' = DropTemp(p, keptTemp)
       /\ intent' = IF pc[p] = "intent_linked" /\ ~keptIntent THEN None ELSE intent
       /\ \/ /\ keptTemp \/ keptIntent
             /\ Abort(p, "rollback_uncertain", TRUE)
          \/ /\ ~keptTemp /\ ~keptIntent
             /\ Abort(p, "intent_write_failed", FALSE)
  /\ UNCHANGED <<ledger, journal, files, lock, local>>

-----------------------------------------------------------------------------
(* publish_bundle_file over the planned files, with a snapshot check around it. *)

Planning(p) == pc[p] = "publish" /\ next[p] <= Len(Outputs[req[p]])

Target(p) == Outputs[req[p]][next[p]]

\* A recovery keeps a planned file it finds (the snapshot says it is exact).
StartOutput(p) ==
  /\ Planning(p)
  /\ \/ /\ Tree # ExpectedTree(p, made[p])
        /\ Abort(p, "snapshot_changed", FALSE)
        /\ UNCHANGED <<temps, next>>
     \/ /\ Tree = ExpectedTree(p, made[p])
        /\ files[Target(p)] # None
        /\ next' = [next EXCEPT ![p] = @ + 1]
        /\ UNCHANGED <<temps, pc, res>>
     \/ /\ Tree = ExpectedTree(p, made[p])
        /\ files[Target(p)] = None
        /\ temps' = temps \cup {p}
        /\ Goto(p, "out_temp")
        /\ UNCHANGED <<next, res>>
  /\ UNCHANGED <<ledger, journal, intent, files, lock, req, init, origin, made,
                 proven, counters>>

\* Mutant of LinkOutput: rename replaces what hard_link refuses to.
LinkOutputByRename(p) ==
  /\ pc[p] = "out_temp"
  /\ files' = [files EXCEPT ![Target(p)] = req[p]]
  /\ Goto(p, "out_linked")
  /\ UNCHANGED <<ledger, journal, intent, temps, lock, local, res, counters>>

LinkOutput(p) ==
  /\ pc[p] = "out_temp"
  /\ \/ /\ files[Target(p)] = None
        /\ files' = [files EXCEPT ![Target(p)] = req[p]]
        /\ Goto(p, "out_linked")
        /\ UNCHANGED <<temps, res>>
     \/ /\ files[Target(p)] # None
        /\ temps' = DropTemp(p, FALSE)
        /\ Abort(p, "publish_failed", FALSE)
        /\ UNCHANGED files
  /\ UNCHANGED <<ledger, journal, intent, lock, local, counters>>

FinishOutput(p) ==
  /\ pc[p] = "out_linked"
  /\ temps' = DropTemp(p, FALSE)
  /\ made' = [made EXCEPT ![p] = @ \cup {next[p]}]
  /\ \/ /\ [Tree EXCEPT !.temps = temps'] = ExpectedTree(p, made[p] \cup {next[p]})
        /\ next' = [next EXCEPT ![p] = @ + 1]
        /\ Goto(p, "publish")
        /\ UNCHANGED res
     \/ /\ [Tree EXCEPT !.temps = temps'] # ExpectedTree(p, made[p] \cup {next[p]})
        /\ Abort(p, "snapshot_changed", FALSE)
        /\ UNCHANGED next
  /\ UNCHANGED <<ledger, journal, intent, files, lock, req, init, origin, proven,
                 counters>>

FailOutput(p) ==
  /\ pc[p] \in {"out_temp", "out_linked"}
  /\ \E keptTemp, keptFile \in BOOLEAN :
       /\ keptFile => pc[p] = "out_linked"
       /\ Spend(keptTemp \/ keptFile)
       /\ temps' = DropTemp(p, keptTemp)
       /\ files' = IF pc[p] = "out_linked" /\ ~keptFile
                   THEN [files EXCEPT ![Target(p)] = None] ELSE files
       /\ \/ /\ keptTemp \/ keptFile
             /\ Abort(p, "rollback_uncertain", TRUE)
          \/ /\ ~keptTemp /\ ~keptFile
             /\ pc[p] = "out_linked" /\ origin[p] = "Recovery"
             /\ Abort(p, "recovery_conflict", TRUE)
          \/ /\ ~keptTemp /\ ~keptFile
             /\ ~(pc[p] = "out_linked" /\ origin[p] = "Recovery")
             /\ Abort(p, "publish_failed", FALSE)
  /\ UNCHANGED <<ledger, journal, intent, lock, local>>

-----------------------------------------------------------------------------
(* The ledger row: INSERT (SQLite's journal appears), readback, COMMIT. *)

\* Mutant of Insert: the last planned file is left out.
InsertEarly(p) ==
  /\ pc[p] = "publish" /\ next[p] >= Len(Outputs[req[p]])
  /\ journal' = TRUE
  /\ Goto(p, "inserted")
  /\ UNCHANGED <<ledger, intent, files, temps, lock, local, res, counters>>

Insert(p) ==
  /\ pc[p] = "publish" /\ next[p] > Len(Outputs[req[p]])
  /\ journal' = TRUE
  /\ Goto(p, "inserted")
  /\ UNCHANGED <<ledger, intent, files, temps, lock, local, res, counters>>

FailInsert(p) ==
  /\ pc[p] = "inserted"
  /\ Spend(FALSE)
  /\ Abort(p, "insert_failed", FALSE)
  /\ UNCHANGED <<durable, lock, local>>

Commit(p) ==
  /\ pc[p] = "inserted"
  /\ ledger' = Append(ledger, req[p])
  /\ journal' = FALSE
  /\ lock' = None
  /\ Goto(p, "postcheck")
  /\ UNCHANGED <<intent, files, temps, local, res, counters>>

\* Mutant of FailCommit: an uncertain COMMIT is rolled back like a failed INSERT.
FailCommitRollsBack(p) ==
  /\ pc[p] = "inserted"
  /\ Spend(FALSE)
  /\ ledger' \in {ledger, Append(ledger, req[p])}
  /\ journal' = FALSE
  /\ Abort(p, "commit_uncertain", TRUE)
  /\ UNCHANGED <<intent, files, temps, lock, local>>

\* COMMIT reports an error: the row is there or it is not.  A COMMIT that finds
\* another caller reading (its SHARED lock, and no busy timeout) is one of these.
FailCommit(p) ==
  /\ pc[p] = "inserted"
  /\ Spend(FALSE)
  /\ ledger' \in {ledger, Append(ledger, req[p])}
  /\ journal' = FALSE
  /\ lock' = None
  /\ Return(p, "commit_uncertain", TRUE)
  /\ UNCHANGED <<intent, files, temps>>

-----------------------------------------------------------------------------
(* After COMMIT nothing is locked any more: the tree is checked, the intent   *)
(* removed, the tree checked again, and the intent restored if that fails.    *)

PostCheck(p) ==
  /\ pc[p] = "postcheck"
  /\ \/ /\ Tree = [CommittedTree(p) EXCEPT !.intent = req[p]] /\ AllExact(req[p])
        /\ Goto(p, "cleanup")
        /\ UNCHANGED <<local, res>>
     \/ /\ ~(Tree = [CommittedTree(p) EXCEPT !.intent = req[p]] /\ AllExact(req[p]))
        /\ Return(p, "postcondition_failed", TRUE)
  /\ UNCHANGED <<durable, lock, counters>>

RecoveredCheck(p) ==
  /\ pc[p] = "recovered"
  /\ \/ Tree = init[p] /\ Goto(p, "cleanup") /\ UNCHANGED <<local, res>>
     \/ Tree # init[p] /\ Return(p, "postcondition_failed", TRUE)
  /\ UNCHANGED <<durable, lock, counters>>

\* Mutant of RemoveIntent: an intent that is gone already counts as removed.
RemoveIntentAnyway(p) ==
  /\ pc[p] = "cleanup"
  /\ intent' = None
  /\ Goto(p, "final")
  /\ UNCHANGED <<ledger, journal, files, temps, lock, local, res, counters>>

RemoveIntent(p) ==
  /\ pc[p] = "cleanup"
  /\ intent' = None
  /\ \/ intent # None /\ Goto(p, "final") /\ UNCHANGED <<local, res>>
     \/ intent = None /\ Return(p, "intent_cleanup_failed", TRUE)
  /\ UNCHANGED <<ledger, journal, files, temps, lock, counters>>

\* The removal fails, or the directory fsync after it does.
FailRemoveIntent(p) ==
  /\ pc[p] = "cleanup"
  /\ Spend(FALSE)
  /\ \/ Return(p, "intent_cleanup_failed", TRUE) /\ UNCHANGED intent
     \/ /\ intent # None
        /\ intent' = None
        /\ Goto(p, "restore")
        /\ res' = [res EXCEPT ![p] = Response("durability_uncertain", TRUE)]
        /\ UNCHANGED local
  /\ UNCHANGED <<ledger, journal, files, temps, lock>>

FinalCheck(p) ==
  /\ pc[p] = "final"
  /\ \/ Tree = CommittedTree(p) /\ Return(p, "accepted", TRUE)
     \/ /\ Tree # CommittedTree(p) /\ intent # None
        /\ Return(p, "postcondition_failed", TRUE)
     \/ /\ Tree # CommittedTree(p) /\ intent = None
        /\ Goto(p, "restore")
        /\ res' = [res EXCEPT ![p] = Response("postcondition_failed", TRUE)]
        /\ UNCHANGED local
  /\ UNCHANGED <<durable, lock, counters>>

RestoreTemp(p) ==
  /\ pc[p] = "restore"
  /\ temps' = temps \cup {p}
  /\ Goto(p, "restore_temp")
  /\ UNCHANGED <<ledger, journal, intent, files, lock, local, res, counters>>

RestoreLink(p) ==
  /\ pc[p] = "restore_temp"
  /\ \/ /\ intent = None
        /\ intent' = req[p]
        /\ Goto(p, "restore_linked")
        /\ UNCHANGED <<temps, local, res>>
     \/ /\ intent # None
        /\ temps' = DropTemp(p, FALSE)
        /\ Return(p, "durability_uncertain", TRUE)
        /\ UNCHANGED intent
  /\ UNCHANGED <<ledger, journal, files, lock, counters>>

\* The readback; when it fails, whatever intent is there now is removed.
RestoreFinish(p) ==
  /\ pc[p] = "restore_linked"
  /\ temps' = DropTemp(p, FALSE)
  /\ \/ /\ intent = req[p]
        /\ Return(p, res[p].code, TRUE)
        /\ UNCHANGED intent
     \/ /\ intent # req[p]
        /\ intent' = None
        /\ Return(p, "durability_uncertain", TRUE)
  /\ UNCHANGED <<ledger, journal, files, lock, counters>>

FailRestore(p) ==
  /\ pc[p] \in {"restore_temp", "restore_linked"}
  /\ \E keptTemp, keptIntent \in BOOLEAN :
       /\ keptIntent => pc[p] = "restore_linked"
       /\ Spend(keptTemp \/ keptIntent)
       /\ temps' = DropTemp(p, keptTemp)
       /\ intent' = IF pc[p] = "restore_linked" /\ ~keptIntent THEN None ELSE intent
  /\ Return(p, "durability_uncertain", TRUE)
  /\ UNCHANGED <<ledger, journal, files, lock>>

-----------------------------------------------------------------------------
(* rollback_bundle_failure: ROLLBACK first, which also gives up the lock, then *)
(* the created files in reverse order, then a fresh intent, then the verdict.  *)

SqlRollback(p) ==
  /\ pc[p] = "rollback"
  /\ lock' = None
  /\ journal' = (journal /\ next[p] <= Len(Outputs[req[p]]))
  /\ res' = [res EXCEPT ![p] = IF origin[p] = "Recovery" /\ made[p] # {}
                               THEN Response("recovery_conflict", TRUE) ELSE @]
  /\ Goto(p, "undo")
  /\ UNCHANGED <<ledger, intent, files, temps, local, counters>>

LastMade(p, i) == i \in made[p] /\ \A j \in made[p] : j <= i

Undo(p) ==
  /\ pc[p] = "undo"
  /\ \E i \in made[p] :
       /\ LastMade(p, i)
       /\ files' = [files EXCEPT ![Outputs[req[p]][i]] = None]
       /\ proven' = [proven EXCEPT ![p] = @ /\ files[Outputs[req[p]][i]] # None]
       /\ made' = [made EXCEPT ![p] = @ \ {i}]
  /\ UNCHANGED <<ledger, journal, intent, temps, lock, pc, req, init, origin, next,
                 res, counters>>

FailUndo(p) ==
  /\ pc[p] = "undo"
  /\ \E i \in made[p] : LastMade(p, i) /\ made' = [made EXCEPT ![p] = @ \ {i}]
  /\ Spend(FALSE)
  /\ proven' = [proven EXCEPT ![p] = FALSE]
  /\ UNCHANGED <<durable, lock, pc, req, init, origin, next, res>>

\* Mutant of UndoIntent: the intent goes although files may remain.
UndoIntentUnproven(p) ==
  /\ pc[p] = "undo" /\ made[p] = {}
  /\ Goto(p, IF origin[p] = "Fresh" THEN "undo_intent" ELSE "verdict")
  /\ UNCHANGED <<durable, lock, local, res, counters>>

\* A fresh intent goes only when all the rest of the tree is as it was.
UndoIntent(p) ==
  /\ pc[p] = "undo" /\ made[p] = {}
  /\ \/ /\ origin[p] = "Fresh" /\ proven[p]
        /\ Tree = [init[p] EXCEPT !.intent = intent]
        /\ Goto(p, "undo_intent")
        /\ UNCHANGED proven
     \/ /\ origin[p] = "Fresh" /\ proven[p]
        /\ Tree # [init[p] EXCEPT !.intent = intent]
        /\ proven' = [proven EXCEPT ![p] = FALSE]
        /\ Goto(p, "verdict")
     \/ /\ ~(origin[p] = "Fresh" /\ proven[p])
        /\ Goto(p, "verdict")
        /\ UNCHANGED proven
  /\ UNCHANGED <<durable, lock, req, init, origin, next, made, res, counters>>

\* It is removed by path, whoever's it is by then.
RemoveFresh(p) ==
  /\ pc[p] = "undo_intent"
  /\ intent' = None
  /\ Goto(p, "verdict")
  /\ UNCHANGED <<ledger, journal, files, temps, lock, local, res, counters>>

\* A directory fsync fails, or the removal of a fresh intent.
FailUndoIntent(p) ==
  /\ \/ pc[p] = "undo" /\ made[p] = {} /\ UNCHANGED intent
     \/ pc[p] = "undo_intent" /\ intent' \in {intent, None}
  /\ Spend(FALSE)
  /\ Goto(p, "verdict")
  /\ proven' = [proven EXCEPT ![p] = FALSE]
  /\ UNCHANGED <<ledger, journal, files, temps, lock, req, init, origin, next, made,
                 res>>

\* Mutant of Verdict: the answer does not depend on the outcome of the cleanup.
VerdictUnchecked(p) ==
  /\ pc[p] = "verdict"
  /\ Return(p, res[p].code, res[p].mutated)
  /\ UNCHANGED <<durable, lock, counters>>

Verdict(p) ==
  /\ pc[p] = "verdict"
  /\ \/ /\ proven[p] /\ Tree = init[p]
        /\ Return(p, res[p].code, res[p].mutated)
     \/ /\ ~(proven[p] /\ Tree = init[p])
        /\ Return(p, "rollback_uncertain", TRUE)
  /\ UNCHANGED <<durable, lock, counters>>

-----------------------------------------------------------------------------
(* The environment. *)

\* The process is killed: SQLite's lock goes with it, its files stay.
Crash(p) ==
  /\ pc[p] # "idle" /\ crashes < MaxCrashes
  /\ crashes' = crashes + 1
  /\ lock' = IF lock = p THEN None ELSE lock
  /\ temps' = DropTemp(p, p \in temps)
  /\ Return(p, "killed", TRUE)
  /\ UNCHANGED <<ledger, journal, intent, files, faults, foreigns>>

\* Another program of the run directory creates a file.
ForeignWrite(x) ==
  /\ files[x] = None /\ foreigns < MaxForeign
  /\ foreigns' = foreigns + 1
  /\ files' = [files EXCEPT ![x] = Foreign]
  /\ UNCHANGED <<ledger, journal, intent, temps, lock, pc, local, res, crashes,
                 faults>>

Call(p) == \E r \in Request : OpenRefused(p, r) \/ Open(p, r)

\* What an invocation does by itself once it is started.
Step(p) ==
  \/ Busy(p) \/ Begin(p) \/ Snapshot(p)
  \/ RecoveryConflict(p) \/ ResumeCommitted(p) \/ ResumePartial(p)
  \/ TipMismatch(p) \/ TargetExists(p) \/ StartIntent(p)
  \/ LinkIntent(p) \/ FinishIntent(p) \/ IntentLost(p)
  \/ StartOutput(p) \/ LinkOutput(p) \/ FinishOutput(p)
  \/ Insert(p) \/ Commit(p)
  \/ PostCheck(p) \/ RecoveredCheck(p) \/ RemoveIntent(p) \/ FinalCheck(p)
  \/ RestoreTemp(p) \/ RestoreLink(p) \/ RestoreFinish(p)
  \/ SqlRollback(p) \/ Undo(p) \/ UndoIntent(p) \/ RemoveFresh(p) \/ Verdict(p)

Fault(p) ==
  \/ FailIntent(p) \/ FailOutput(p) \/ FailInsert(p) \/ FailCommit(p)
  \/ FailRemoveIntent(p) \/ FailRestore(p) \/ FailUndo(p) \/ FailUndoIntent(p)

Next ==
  \/ \E p \in Proc : Call(p) \/ Step(p) \/ Fault(p) \/ Crash(p)
  \/ \E x \in Path : ForeignWrite(x)

Spec == Init /\ [][Next]_vars
-----------------------------------------------------------------------------
(* Properties. *)

Bytes == Request \cup {None, Foreign}
Trees == [ledger : Seq(Request), journal : BOOLEAN, intent : Request \cup {None},
          files : [Path -> Bytes], temps : SUBSET (Proc \cup {Orphan})]

SharedOK ==
  /\ ledger \in Seq(Request)
  /\ journal \in BOOLEAN
  /\ intent \in Request \cup {None}
  /\ files \in [Path -> Bytes]
  /\ temps \in SUBSET (Proc \cup {Orphan})
  /\ lock \in Proc \cup {None}
  /\ crashes \in Nat /\ faults \in Nat /\ foreigns \in Nat

LocalOK ==
  /\ pc \in [Proc -> Running \cup {"idle"}]
  /\ req \in [Proc -> Request \cup {None}]
  /\ init \in [Proc -> Trees]
  /\ origin \in [Proc -> {"Absent", "Fresh", "Recovery"}]
  /\ next \in [Proc -> Nat \ {0}]
  /\ made \in [Proc -> SUBSET Nat]
  /\ proven \in [Proc -> BOOLEAN]
  /\ res \in [Proc -> [code : Codes, mutated : BOOLEAN]]
  /\ \A p \in Proc : pc[p] # "idle" => req[p] \in Request

\* Every variable keeps its kind; a running process holds a request.
TypeOK == SharedOK /\ LocalOK

Committed == {ledger[i] : i \in 1..Len(ledger)}

\* Every row of the ledger is the child of the row before it, whatever calls
\* overlap, die or fail: the tip is checked under the lock that COMMIT releases.
LedgerLinear ==
  \A i \in 1..Len(ledger) :
    ExpectedTip[ledger[i]] = IF i = 1 THEN Root ELSE ledger[i - 1]

\* A committed row finds each of its artifacts and sidecars in place with the
\* planned bytes: no rollback, recovery or other request takes one away.
CommittedIsComplete == \A r \in Committed : AllExact(r)

\* A planned file of a request that is not committed is never on disk without
\* the intent that names the request: no crash leaves an undetectable part.
PartialIsDetectable ==
  \A r \in Request \ Committed :
    (\E x \in Planned(r) : files[x] = r) => intent = r

\* No call ever removes or replaces a file that it did not create: bytes that
\* are committed or foreign stay.
NoClobber ==
  [][\A x \in Path : files[x] \in Committed \cup {Foreign}
                      => files'[x] = files[x]]_vars

\* A response with mutation_performed = false returns from a call that left
\* nothing of its own behind: no temporary, and no intent, file or row of its
\* request that its first snapshot did not show already.
FalseMutationRestores ==
  [][\A p \in Proc :
       /\ pc[p] # "idle" /\ pc'[p] = "idle" /\ ~res'[p].mutated
       => /\ p \notin temps'
          /\ pc[p] \notin {"opened", "begun"} =>
               /\ intent' = req[p] => init[p].intent = req[p]
               /\ \A x \in Planned(req[p]) :
                    files'[x] = req[p] => init[p].files[x] = req[p]
               /\ req[p] \in Committed' =>
                    \E i \in 1..Len(init[p].ledger) : init[p].ledger[i] = req[p]]_vars

\* A reader that believes the ledger sees an atomic log: the committed files are
\* those of the abstract store, and everything else is not there yet.
Visible == [x \in Path |-> IF files[x] \in Committed THEN files[x] ELSE None]

Abstract == INSTANCE AtomicLog WITH log <- ledger, store <- Visible

\* Every behaviour of the kernel is one of the atomic log: the whole bundle
\* becomes visible in the step that commits, or never.
ImplementsAtomicLog == Abstract!Spec

\* When nothing runs, an intent belongs to the tip or to the next commit, so
\* that its exact request can be taken up again (RUST_KERNEL_CONTRACT.md: a
\* failure after commit "leaves the intent for exact recovery").
IntentIsResumable ==
  (\A p \in Proc : pc[p] = "idle") /\ intent # None =>
    Tip(ledger) \in {intent, ExpectedTip[intent]}

-----------------------------------------------------------------------------
(* Liveness.  An invocation runs on by itself until it returns, and whoever   *)
(* was answered with an intent left behind repeats the exact request.         *)

Fairness ==
  /\ \A p \in Proc : WF_vars(Step(p))
  /\ \A p \in Proc, r \in Request : SF_vars(intent = r /\ Open(p, r))

FairSpec == Spec /\ Fairness

\* A killed process left a temporary object or SQLite's journal.
Debris == Orphan \in temps \/ (journal /\ lock = None)

\* From an intent and no debris the exact request finishes the bundle or takes
\* it back, unless it is itself killed in a place that leaves debris.
CleanIntentResolves ==
  \A r \in Request :
    (intent = r /\ ~Debris) ~> (intent # r \/ Debris)
=============================================================================
