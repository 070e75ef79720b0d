---------------------------- MODULE MCStageRuns ----------------------------
(* Small instances of StageRuns for TLC. *)
EXTENDS StageRuns, TLC

CONSTANTS p, q, a1, b1, b2, c1, c2

\* The first stage leaves its report, as run-stage-b (which reads the ledger's
\* tip before it writes) and run-stage-c (which reads it afterwards) do;
\* synthesize-abstract the final nucleus and a report; plan-manuscript, which
\* stands for all the later stages up to the export, needs the nucleus alone.
\* Each is required as a file and loaded from its commit.  The replay needs the
\* readiness report, which prepare-export writes before its last file.
Stages3 == <<"run-stage-c", "synthesize-abstract", "plan-manuscript">>
Outputs3 == <<<<a1>>, <<b1, b2>>, <<c1, c2>>>>
Requires3 == <<{}, {a1}, {b1}>>
=============================================================================
