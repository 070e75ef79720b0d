--------------------------- MODULE MCBundleCallers ---------------------------
(* Callers of a request and of its successor, all at once and without faults. *)
EXTENDS MCCommitBundle, BundleCallers
=============================================================================
