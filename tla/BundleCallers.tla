---------------------------- MODULE BundleCallers ----------------------------
(***************************************************************************)
(* Callers of the kernel that call once, all at the same time: the setting  *)
(* of test_concurrent_bundle_callers_create_one_linear_commit, for any      *)
(* number of them, and the invariant of the case that all call for the same *)
(* bundle and no operation fails.                                          *)
(***************************************************************************)
EXTENDS CommitBundleInv

\* Each process makes one call.
OneShotNext ==
  \E p \in Proc :
    (res[p].code = "none" /\ Call(p)) \/ Step(p) \/ Fault(p) \/ Crash(p)

OneShotSpec == Init /\ [][OneShotNext]_vars

AllAnswered == \A p \in Proc : pc[p] = "idle" /\ res[p].code # "none"

\* Every call is for the bundle r.
Only(r) == \A p \in Proc : req[p] \in {None, r}

\* When all have been answered, one has been told that the bundle r is committed.
OneIsTold(r) ==
  []Only(r) =>
    [](AllAnswered => Cardinality({p \in Proc : res[p].code = "accepted"}) = 1)

\* Of the concurrent callers of one exact request exactly one is told that its
\* bundle is committed (test_concurrent_bundle_callers_create_one_linear_commit),
\* while nothing fails: no COMMIT either for a caller that reads at that moment.
\* With a caller of the successor among them nothing is claimed: it can make the
\* winner's postcondition fail.
OneWinner == \A r \in Request : ExpectedTip[r] = Root => OneIsTold(r)

-----------------------------------------------------------------------------
\* The places of a caller that has not won, and of one that may finish the bundle.
Waiting == {"idle", "opened", "begun", "snapped"}
Finishing == {"postcheck", "recovered", "cleanup"}

\* The files after the first n of the plan are published.
Placed(r, n) == [x \in Path |-> IF \E i \in 1..n : Outputs[r][i] = x THEN r ELSE None]

\* The tree of a committed bundle, with or without its intent.
DoneTree(r, i) == [ledger |-> <<r>>, journal |-> FALSE, intent |-> i,
                   files |-> Placed(r, Len(Outputs[r])), temps |-> {}]

\* The tree in the hands of the one caller that publishes.
Writes(p) ==
  /\ init[p] = NoTree
  /\ temps = IF pc[p] \in {"intent_temp", "intent_linked", "out_temp", "out_linked"}
             THEN {p} ELSE {}
  /\ journal = (pc[p] = "inserted")
  /\ intent = IF pc[p] = "intent_temp" THEN None ELSE req[p]
  /\ made[p] = 1..(next[p] - 1)
  /\ files = Placed(req[p], IF pc[p] = "out_linked" THEN next[p] ELSE next[p] - 1)

\* What a caller knows before the commit.
BeforeBy(p) ==
  /\ pc[p] \in Waiting \cup TipHeld /\ res[p].code # "accepted"
  /\ pc[p] # "idle" => res[p].code = "none"
  /\ pc[p] \in TipHeld => Writes(p)
  /\ pc[p] = "snapped" => init[p] = NoTree

\* Before the commit: nothing is there, or it is the one writer's.
Before ==
  /\ \A p \in Proc : BeforeBy(p)
  /\ (\A p \in Proc : pc[p] \notin TipHeld) => Tree = NoTree
  /\ (\A p \in Proc : pc[p] = "idle") => \A p \in Proc : res[p].code = "none"

\* What a caller knows after it.
AfterBy(r, p) ==
  /\ pc[p] \in Waiting \cup Finishing \cup {"final"}
  /\ pc[p] # "idle" => res[p].code = "none"
  /\ pc[p] \in {"snapped", "recovered"} => init[p] \in {DoneTree(r, r), DoneTree(r, None)}
  /\ pc[p] \in {"snapped", "recovered"} /\ intent = r => init[p] = DoneTree(r, r)
  /\ pc[p] \in Finishing \cup {"final"} => CommittedTree(p) = DoneTree(r, None)

\* It has removed the intent, or was told so.
Won(p) == pc[p] = "final" \/ res[p].code = "accepted"

\* After the commit: whoever finishes the bundle sees it whole, and the first to remove the
\* intent has won.
After(r) ==
  /\ \A p \in Proc : AfterBy(r, p)
  /\ intent \in {r, None} /\ Tree = DoneTree(r, intent)
  /\ intent = r => (\E p \in Proc : pc[p] \in Finishing) /\ \A p \in Proc : ~Won(p)
  /\ intent = None => \E w \in Proc : \A p \in Proc : Won(p) <=> p = w

\* The invariant of callers of r alone.
CallersInv(r) ==
  \/ ledger = <<>> /\ Before
  \/ ledger = <<r>> /\ After(r)
=============================================================================
