-------------------------- MODULE CommitBundleInv --------------------------
(***************************************************************************)
(* The inductive invariant of CommitBundle: what the lock, the tip, the    *)
(* files and the calls' bookkeeping owe each other at every step.  The     *)
(* first part holds whatever calls overlap; the second one needs that no   *)
(* two running calls carry the same request.                               *)
(***************************************************************************)
EXTENDS CommitBundle

\* SQLite's lock is held exactly by the calls inside the transaction.
LockInv == \A p \in Proc : pc[p] \in Locked <=> lock = p

\* The places between the comparison of the tip and COMMIT.
TipHeld == {"intent_temp", "intent_linked", "publish", "out_temp",
            "out_linked", "inserted"}

\* The tip compared under the lock is still the tip.
TipInv ==
  \A p \in Proc : pc[p] \in TipHeld => Tip(ledger) = ExpectedTip[req[p]]

NoRepeat == \A i, j \in 1..Len(ledger) : ledger[i] = ledger[j] => i = j

LedgerInv == LockInv /\ TipInv /\ NoRepeat /\ LedgerLinear

-----------------------------------------------------------------------------
\* No request is carried by two running calls.
Unique ==
  \A p, q \in Proc : pc[p] # "idle" /\ pc[q] # "idle" /\ req[p] = req[q] => p = q

\* The calls that may still take their files back.
Revocable == TipHeld \cup {"rollback", "undo", "undo_intent", "verdict"}

NotCommitted == \A p \in Proc : pc[p] \in Revocable => req[p] \notin Committed

\* A call has published nothing before it comes to its plan.
Unstarted == {"idle", "opened", "begun", "snapped", "intent_temp", "intent_linked",
              "recovered"}

Publishing == {"publish", "out_temp", "out_linked", "inserted"}

\* How far each call is in its plan, and what it has published.
Progress ==
  \A p \in Proc :
    /\ pc[p] \in Unstarted => next[p] = 1 /\ made[p] = {}
    /\ pc[p] \in Publishing => next[p] <= Len(Outputs[req[p]]) + 1
    /\ pc[p] \in {"out_temp", "out_linked"} => next[p] <= Len(Outputs[req[p]])
    /\ pc[p] = "inserted" => next[p] = Len(Outputs[req[p]]) + 1
    /\ pc[p] \in Publishing => \A i \in made[p] : i < next[p]
    /\ \A i \in made[p] : i \in 1..Len(Outputs[req[p]])

\* A file a call published, or found in place, is there until the call removes it.
OwnedBy(p) ==
  /\ pc[p] \in Revocable => \A i \in made[p] : files[Outputs[req[p]][i]] = req[p]
  /\ pc[p] = "out_linked" => files[Target(p)] = req[p]
  /\ pc[p] \in Publishing =>
       \A i \in 1..Len(Outputs[req[p]]) :
         i < next[p] => files[Outputs[req[p]][i]] = req[p]

Owned == \A p \in Proc : OwnedBy(p)

\* What a call knows of its targets from the snapshot it compares with.
KnownBy(p) ==
  /\ pc[p] = "snapped" =>
       \A x \in Path : init[p].files[x] = Foreign => files[x] = Foreign
  /\ pc[p] \in TipHeld =>
       \A x \in Planned(req[p]) :
         init[p].files[x] # Foreign /\ files[x] \in {None, Foreign, req[p]}

SnapshotInv == \A p \in Proc : KnownBy(p)

\* The bytes of a request are only at the paths of its plan.
OnPlan == \A x \in Path : files[x] \in Request => x \in Planned(files[x])

FileInv == /\ Unique /\ NotCommitted /\ Progress /\ Owned /\ SnapshotInv /\ OnPlan
           /\ CommittedIsComplete

-----------------------------------------------------------------------------
\* The places where the intent on disk is the call's own, or the one it resumes.
Claims(p) ==
  \/ pc[p] \in {"intent_linked", "publish", "out_temp", "out_linked", "inserted",
                "postcheck", "recovered", "cleanup", "restore_linked", "undo_intent"}
  \/ pc[p] \in {"rollback", "undo"} /\ origin[p] # "Absent"

ClaimInv == \A p \in Proc : Claims(p) => intent = req[p]

\* Before its plan a call has no intent to answer for.
OriginInv == \A p \in Proc : pc[p] \in Unstarted => origin[p] = "Absent"

\* A fresh intent is written, and removed, over an empty plan, and its call remembers that.
FreshBy(p) ==
  /\ pc[p] \in {"intent_temp", "intent_linked", "undo_intent"} =>
       \A x \in Planned(req[p]) : files[x] # req[p]
  /\ pc[p] \in {"intent_temp", "intent_linked"} \/ origin[p] = "Fresh" =>
       \A x \in Planned(req[p]) : init[p].files[x] = None

FreshInv == \A p \in Proc : FreshBy(p)

\* The places after COMMIT: the row is there.
Late == {"postcheck", "recovered", "cleanup", "final", "restore", "restore_temp",
         "restore_linked"}

LateInv == \A p \in Proc : pc[p] \in Late => req[p] \in Committed

IntentInv == ClaimInv /\ OriginInv /\ FreshInv /\ LateInv /\ PartialIsDetectable

-----------------------------------------------------------------------------
\* A temporary file has its call inside a write, or no call at all.
Writing == {"intent_temp", "intent_linked", "out_temp", "out_linked",
            "restore_temp", "restore_linked"}

TempsInv == \A p \in Proc : p \in temps => pc[p] \in Writing

\* Between the snapshot and the first write nobody else adds to the call's bundle.
SnappedBy(p) ==
  pc[p] = "snapped" =>
    /\ ledger = init[p].ledger
    /\ intent = req[p] => init[p].intent = req[p]
    /\ \A x \in Planned(req[p]) : files[x] = req[p] => init[p].files[x] = req[p]

SnappedInv == \A p \in Proc : SnappedBy(p)
=============================================================================
