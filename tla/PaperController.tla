--------------------------- MODULE PaperController ---------------------------
(***************************************************************************)
(* run_autonomous_paper (factori/autonomous_paper_run.py) and its numbered     *)
(* checkpoints (factori/autonomous_paper_checkpoint.py): four stages that run   *)
(* at most once, the verification of the bundle and the handoff, that run in    *)
(* every invocation.  Each leaves a checkpoint, linked to the one before by its  *)
(* hash, and an index that lists the checkpoints so far.  A resumed invocation  *)
(* verifies the latest index and all it lists, and refuses when it finds a fault.*)
(*                                                                         *)
(* The controller may be killed between any two files that it or a stage        *)
(* writes.  Files are replaced atomically, the ledger only grows, and the       *)
(* controller's store has no kernel: what is left of a checkpoint's commit      *)
(* after its two files changes nothing that a resume looks at.                  *)
(***************************************************************************)
EXTENDS Integers, SequencesExt, FiniteSetsExt

CONSTANTS
  MaxRuns,     \* bound: invocations
  MaxKills,    \* bound: killed invocations
  MaxSpoiled   \* bound: checkpoints whose outputs someone else changes

ASSUME ControllerAssumption ==
  MaxRuns \in Nat \ {0} /\ MaxKills \in Nat /\ MaxSpoiled \in Nat

VARIABLES
  files,     \* persisted: the checkpoints, numbered from 1: [stage, gate, prev, run]
  listing,   \* persisted: the numbers that the latest index lists
  begun,     \* persisted: stage -> the numbers of attempts that left something
  reports,   \* persisted: stage -> how many reports it has written
  indexed,   \* persisted: stage -> the report its latest index names, 0 for none
  safe,      \* persisted: stage -> what its last report says
  resumes,   \* persisted: how many resume reports there are
  spoiled,   \* checkpoints whose outputs are no longer what they were
  proc,      \* the process: [pc, stage, reuse, prev, gate, number, resumed]
  ended,     \* how the last invocation ended
  made,      \* history: stage -> how often its outputs were completed
  trouble,   \* history: has a stage failed or been unsafe, or a file been spoiled?
  runs, kills

disk == <<files, listing, begun, reports, indexed, safe, resumes, spoiled>>
counters == <<made, trouble, runs, kills>>
vars == <<disk, proc, ended, counters>>

Order == <<"base", "loop", "manuscript", "bundle", "verify">>
Stages == {"base", "loop", "manuscript", "bundle"}
Idle == [pc |-> "idle", stage |-> "base", reuse |-> {}, prev |-> 0, gate |-> "none",
         number |-> 0, resumed |-> FALSE]

Init ==
  /\ files = <<>> /\ listing = <<>> /\ resumes = 0 /\ spoiled = {}
  /\ begun = [s \in Stages |-> {}] /\ reports = [s \in Stages |-> 0]
  /\ indexed = [s \in Stages |-> 0] /\ safe = [s \in Stages |-> TRUE]
  /\ proc = Idle /\ ended = "none"
  /\ made = [s \in Stages |-> 0] /\ trouble = FALSE /\ runs = 0 /\ kills = 0

-----------------------------------------------------------------------------
\* verify_autonomous_paper_checkpoints: the chain, the gates and the outputs of all
\* that the index lists.
Linked ==
  \A i \in DOMAIN listing :
    /\ listing[i] \in DOMAIN files
    /\ files[listing[i]].prev = IF i = 1 THEN 0 ELSE listing[i - 1]

\* Mutant of Verified: the outputs are not hashed again.
VerifiedUnhashed ==
  /\ listing # <<>> /\ Linked
  /\ \A i \in DOMAIN listing : files[listing[i]].gate # "failed"

Verified ==
  /\ listing # <<>> /\ Linked
  /\ \A i \in DOMAIN listing :
       files[listing[i]].gate # "failed" /\ listing[i] \notin spoiled

Checked == {files[listing[i]].stage : i \in DOMAIN listing}

\* Mutant of OutputExists: only the checkpoints are looked at.
OutputNeverExists(s) == FALSE

\* _stage_output_exists: the base by its report, the others by their latest index.
OutputExists(s) == IF s = "base" THEN reports[s] > 0 ELSE indexed[s] > 0

\* _prepare_resume: the stages up to the first without a checkpoint are reused, if
\* their reports are safe and that one has left no outputs; none after it has one.
Reusable == {Order[i] : i \in {j \in 1..4 : \A k \in 1..j : Order[k] \in Checked}}
Resumable ==
  /\ Verified
  /\ Checked \cap Stages = Reusable
  /\ \A s \in Reusable : safe[s]
  /\ \A i \in 1..4 : Reusable = {Order[j] : j \in 1..(i - 1)} => ~OutputExists(Order[i])

-----------------------------------------------------------------------------
\* The first invocation creates the run.
Start ==
  /\ proc.pc = "idle" /\ runs = 0
  /\ proc' = [Idle EXCEPT !.pc = "stage"]
  /\ runs' = runs + 1 /\ ended' = "none"
  /\ UNCHANGED <<disk, made, trouble, kills>>

\* Mutant of Resume: the chain goes on from the last checkpoint on disk.
ResumeFromLastFile ==
  /\ proc.pc = "idle" /\ runs \in 1..(MaxRuns - 1)
  /\ IF Resumable
     THEN /\ proc' = [Idle EXCEPT !.pc = "stage", !.reuse = Reusable, !.resumed = TRUE,
                                  !.prev = Len(files)]
          /\ ended' = "none"
     ELSE proc' = Idle /\ ended' = "refused"
  /\ runs' = runs + 1
  /\ UNCHANGED <<disk, made, trouble, kills>>

\* --resume-existing: the chain goes on from the last checkpoint verified.
Resume ==
  /\ proc.pc = "idle" /\ runs \in 1..(MaxRuns - 1)
  /\ IF Resumable
     THEN /\ proc' = [Idle EXCEPT !.pc = "stage", !.reuse = Reusable, !.resumed = TRUE,
                                  !.prev = Last(listing)]
          /\ ended' = "none"
     ELSE proc' = Idle /\ ended' = "refused"
  /\ runs' = runs + 1
  /\ UNCHANGED <<disk, made, trouble, kills>>

Following == [base |-> "loop", loop |-> "manuscript", manuscript |-> "bundle",
              bundle |-> "verify"]

\* A stage that is reused leaves no checkpoint of its own.
Reuse ==
  /\ proc.pc = "stage" /\ proc.stage \in proc.reuse
  /\ proc' = [proc EXCEPT !.stage = Following[@]]
  /\ UNCHANGED <<disk, ended, counters>>

\* _finish with a failed gate: the stages after this one are skipped.
Block == proc' = [proc EXCEPT !.pc = "finish", !.gate = "failed"]

\* Mutant of Begin: the number comes from the latest index.
BeginFromIndex ==
  /\ proc.pc = "stage" /\ proc.stage \in Stages \ proc.reuse
  /\ LET n == indexed[proc.stage] + 1
     IN  IF proc.stage = "bundle" /\ n \in begun["bundle"]
         THEN Block /\ UNCHANGED begun
         ELSE /\ begun' = [begun EXCEPT ![proc.stage] = @ \cup {n}]
              /\ proc' = [proc EXCEPT !.pc = "report"]
  /\ UNCHANGED <<files, listing, reports, indexed, safe, resumes, spoiled, ended, counters>>

\* A stage begins with the next number after its reports.  The bundle's directory
\* must not exist; the other stages write over what an attempt has left.
Begin ==
  /\ proc.pc = "stage" /\ proc.stage \in Stages \ proc.reuse
  /\ LET n == reports[proc.stage] + 1
     IN  IF proc.stage = "bundle" /\ n \in begun["bundle"]
         THEN Block /\ UNCHANGED begun
         ELSE /\ begun' = [begun EXCEPT ![proc.stage] = @ \cup {n}]
              /\ proc' = [proc EXCEPT !.pc = "report"]
  /\ UNCHANGED <<files, listing, reports, indexed, safe, resumes, spoiled, ended, counters>>

\* A stage raises, before it has begun or before its report; the bundle and its
\* verification may also be switched off.
StageFails ==
  /\ proc.pc \in {"stage", "report"} /\ proc.stage \notin proc.reuse
  /\ Block /\ trouble' = TRUE
  /\ UNCHANGED <<disk, ended, made, runs, kills>>

\* The stage's report, and after it the index that makes it the latest.
WriteReport ==
  /\ proc.pc = "report"
  /\ reports' = [reports EXCEPT ![proc.stage] = @ + 1]
  /\ \E ok \in BOOLEAN :
       /\ safe' = [safe EXCEPT ![proc.stage] = ok]
       /\ trouble' = (trouble \/ ~ok)
  /\ proc' = [proc EXCEPT !.pc = "index"]
  /\ UNCHANGED <<files, listing, begun, indexed, resumes, spoiled, ended, made, runs, kills>>

WriteStageIndex ==
  /\ proc.pc = "index"
  /\ indexed' = [indexed EXCEPT ![proc.stage] = reports[proc.stage]]
  /\ made' = [made EXCEPT ![proc.stage] = @ + 1]
  /\ IF safe[proc.stage]
     THEN proc' = [proc EXCEPT !.pc = "checkpoint", !.gate = "passed"]
     ELSE Block
  /\ UNCHANGED <<files, listing, begun, reports, safe, resumes, spoiled, ended,
                 trouble, runs, kills>>

\* verify_final_release_bundle, in every invocation.
VerifyBundle ==
  /\ proc.pc = "stage" /\ proc.stage = "verify"
  /\ \/ proc' = [proc EXCEPT !.pc = "checkpoint", !.gate = "passed"] /\ UNCHANGED trouble
     \/ Block /\ trouble' = TRUE
  /\ UNCHANGED <<disk, ended, made, runs, kills>>

Checkpoint == [stage |-> proc.stage, gate |-> proc.gate, prev |-> proc.prev, run |-> runs]

\* Mutant of WriteCheckpoint: the number comes from the index.
WriteListedCheckpoint ==
  /\ proc.pc = "checkpoint"
  /\ LET n == Len(listing) + 1
     IN  /\ files' = IF n > Len(files) THEN Append(files, Checkpoint)
                    ELSE [files EXCEPT ![n] = Checkpoint]
         /\ proc' = [proc EXCEPT !.pc = "list", !.number = n]
  /\ UNCHANGED <<listing, begun, reports, indexed, safe, resumes, spoiled, ended, counters>>

\* write_autonomous_paper_checkpoint: the checkpoint's number is one more than there
\* are checkpoint files, and then its index lists what the latest one did, and it.
WriteCheckpoint ==
  /\ proc.pc = "checkpoint"
  /\ files' = Append(files, Checkpoint)
  /\ proc' = [proc EXCEPT !.pc = "list", !.number = Len(files) + 1]
  /\ UNCHANGED <<listing, begun, reports, indexed, safe, resumes, spoiled, ended, counters>>

WriteCheckpointIndex ==
  /\ proc.pc = "list"
  /\ listing' = Append(listing, proc.number)
  /\ proc' = [proc EXCEPT !.prev = proc.number,
                          !.pc = CASE proc.stage = "verify" -> "recheck"
                                   [] proc.stage = "handoff" -> "resumed"
                                   [] OTHER -> "stage",
                          !.stage = IF @ \in Stages THEN Following[@] ELSE @]
  /\ UNCHANGED <<files, begun, reports, indexed, safe, resumes, spoiled, ended, counters>>

\* The release gate and the lint, after the verification.
Recheck ==
  /\ proc.pc = "recheck"
  /\ \/ proc' = [proc EXCEPT !.pc = "finish", !.gate = "passed"] /\ UNCHANGED trouble
     \/ Block /\ trouble' = TRUE
  /\ UNCHANGED <<disk, ended, made, runs, kills>>

\* _finish: the controller's report, and the handoff's checkpoint.
Finish ==
  /\ proc.pc = "finish"
  /\ proc' = [proc EXCEPT !.pc = "checkpoint", !.stage = "handoff"]
  /\ UNCHANGED <<disk, ended, counters>>

\* A resumed invocation writes its resume report last.
End ==
  /\ proc.pc = "resumed"
  /\ resumes' = IF proc.resumed THEN resumes + 1 ELSE resumes
  /\ ended' = IF proc.gate = "failed" THEN "blocked" ELSE "ready"
  /\ proc' = Idle
  /\ UNCHANGED <<files, listing, begun, reports, indexed, safe, spoiled, counters>>

Kill ==
  /\ proc.pc # "idle" /\ kills < MaxKills
  /\ kills' = kills + 1 /\ proc' = Idle /\ ended' = "killed"
  /\ UNCHANGED <<disk, made, trouble, runs>>

\* Between invocations someone changes or removes outputs that a checkpoint locks.
Spoil ==
  /\ proc.pc = "idle" /\ Cardinality(spoiled) < MaxSpoiled
  /\ \E n \in DOMAIN files : spoiled' = spoiled \cup {n}
  /\ trouble' = TRUE /\ ended' = "none"
  /\ UNCHANGED <<files, listing, begun, reports, indexed, safe, resumes, proc,
                 made, runs, kills>>

Next ==
  \/ Start \/ Resume \/ Reuse \/ Begin \/ StageFails \/ WriteReport \/ WriteStageIndex
  \/ VerifyBundle \/ WriteCheckpoint \/ WriteCheckpointIndex \/ Recheck \/ Finish \/ End
  \/ Kill \/ Spoil

Spec == Init /\ [][Next]_vars

-----------------------------------------------------------------------------
TypeOK ==
  /\ files \in Seq([stage : Stages \cup {"verify", "handoff"}, gate : {"passed", "failed"},
                    prev : Nat, run : 1..MaxRuns])
  /\ Range(listing) \subseteq DOMAIN files /\ spoiled \subseteq DOMAIN files
  /\ \A s \in Stages : indexed[s] <= reports[s] /\ 1..reports[s] \subseteq begun[s]
  /\ proc.reuse \subseteq Stages /\ proc.prev \in 0..Len(files)
  /\ resumes <= runs

\* Whatever the controller has been killed between, the latest index lists checkpoints
\* that are there, in the order of their numbers, each linked to the one before.
IndexSound == Linked /\ \A i \in 2..Len(listing) : listing[i - 1] < listing[i]

\* No stage but the verification and the handoff has its outputs made a second time,
\* whether it was reused or its checkpoint lost.
StagesOnce == \A s \in Stages : made[s] <= 1

\* A paper that is handed over rests on four safe stages, whose checkpoints the index
\* lists with the outputs they locked, on a verification of the bundle in that very
\* invocation, and on no gate that ever failed.
ReadyRests ==
  ended = "ready" =>
    /\ \A s \in Stages : safe[s] /\ indexed[s] = reports[s] /\ s \in Checked
    /\ \E i \in DOMAIN listing :
         files[listing[i]].stage = "verify" /\ files[listing[i]].run = runs
    /\ \A i \in DOMAIN listing :
         listing[i] \notin spoiled /\ files[listing[i]].gate = "passed"

\* A checkpoint is never rewritten, and the latest index always extends the one
\* before: nothing that was once recorded drops out of what a resume verifies.
HistoryKept ==
  [][IsPrefix(files, files') /\ IsPrefix(listing, listing')]_vars

\* MILESTONES.md: crash-safe resume goes on from the first absent safe stage.  As long
\* as no stage has failed or been unsafe and nothing was spoiled, no gate fails.
CrashIsNoFailure == ~trouble => \A n \in DOMAIN files : files[n].gate = "passed"
=============================================================================
