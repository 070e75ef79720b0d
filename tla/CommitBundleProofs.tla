------------------------- MODULE CommitBundleProofs -------------------------
(***************************************************************************)
(* Proofs about CommitBundle for every set of processes and requests, every *)
(* plan and every bound: types, the linear ledger, and, when no request is  *)
(* carried by two running calls, the completeness of committed bundles and  *)
(* the refinement of AtomicLog.                                             *)
(***************************************************************************)
EXTENDS CommitBundleInv, TLAPS

USE DEF durable, local, counters

-----------------------------------------------------------------------------
(* Types. *)

\* The empty snapshot of an idle call is a tree.
LEMMA NoTreeType == NoTree \in Trees
BY DEF NoTree, Trees, Bytes

\* The snapshot a call takes of the run directory is a tree.
LEMMA TreeType == TypeOK => Tree \in Trees
BY DEF TypeOK, SharedOK, Trees, Tree, Bytes

\* A call that returns leaves well-typed locals behind.
LEMMA ReturnOK ==
  ASSUME TypeOK, NEW p \in Proc, NEW code \in Codes, NEW mutated \in BOOLEAN,
         Return(p, code, mutated)
  PROVE  LocalOK'
BY NoTreeType DEF TypeOK, LocalOK, Return, Goto, Response, Running

\* So does a call that moves on.
LEMMA GotoOK ==
  ASSUME TypeOK, NEW p \in Proc, NEW label \in Running, pc[p] # "idle",
         Goto(p, label), UNCHANGED req,
         init' \in [Proc -> Trees],
         origin' \in [Proc -> {"Absent", "Fresh", "Recovery"}],
         next' \in [Proc -> Nat \ {0}], made' \in [Proc -> SUBSET Nat],
         proven' \in [Proc -> BOOLEAN],
         res' \in [Proc -> [code : Codes, mutated : BOOLEAN]]
  PROVE  LocalOK'
BY DEF TypeOK, LocalOK, Goto

\* And a call that starts its rollback.
LEMMA AbortOK ==
  ASSUME TypeOK, NEW p \in Proc, NEW code \in Codes, NEW mutated \in BOOLEAN,
         pc[p] # "idle", Abort(p, code, mutated), UNCHANGED <<req, init, proven>>,
         origin' \in [Proc -> {"Absent", "Fresh", "Recovery"}],
         next' \in [Proc -> Nat \ {0}], made' \in [Proc -> SUBSET Nat]
  PROVE  LocalOK'
BY DEF TypeOK, LocalOK, Abort, Goto, Response, Running, Locked

\* A counted fault keeps the counters natural numbers.
LEMMA SpendOK ==
  ASSUME TypeOK, NEW b \in BOOLEAN, Spend(b)
  PROVE  crashes' \in Nat /\ faults' \in Nat /\ foreigns' \in Nat
BY DEF Spend, TypeOK, SharedOK

\* The row a call appends is a request.
LEMMA AppendOK ==
  ASSUME TypeOK, NEW p \in Proc, pc[p] # "idle"
  PROVE  req[p] \in Request /\ Append(ledger, req[p]) \in Seq(Request)
BY DEF TypeOK, SharedOK, LocalOK

\* Every step keeps the kinds of the shared state.
LEMMA SharedStep == TypeOK /\ [Next]_vars => SharedOK'
<1> SUFFICES ASSUME TypeOK, [Next]_vars PROVE SharedOK'
  OBVIOUS
<1> USE DEF TypeOK, SharedOK
<1>1. CASE UNCHANGED vars
  BY <1>1 DEF vars
<1>2. ASSUME NEW p \in Proc, NEW r \in Request, OpenRefused(p, r) PROVE SharedOK'
  BY <1>2 DEF OpenRefused
<1>3. ASSUME NEW p \in Proc, NEW r \in Request, Open(p, r) PROVE SharedOK'
  BY <1>3 DEF Open
<1>4. ASSUME NEW p \in Proc, Busy(p) PROVE SharedOK'
  BY <1>4 DEF Busy
<1>5. ASSUME NEW p \in Proc, Begin(p) PROVE SharedOK'
  BY <1>5 DEF Begin
<1>6. ASSUME NEW p \in Proc, Snapshot(p) PROVE SharedOK'
  BY <1>6 DEF Snapshot, Reject
<1>7. ASSUME NEW p \in Proc, RecoveryConflict(p) PROVE SharedOK'
  BY <1>7 DEF RecoveryConflict, Reject
<1>8. ASSUME NEW p \in Proc, ResumeCommitted(p) PROVE SharedOK'
  BY <1>8 DEF ResumeCommitted
<1>9. ASSUME NEW p \in Proc, ResumePartial(p) PROVE SharedOK'
  BY <1>9 DEF ResumePartial
<1>10. ASSUME NEW p \in Proc, TipMismatch(p) PROVE SharedOK'
  BY <1>10 DEF TipMismatch, Reject
<1>11. ASSUME NEW p \in Proc, TargetExists(p) PROVE SharedOK'
  BY <1>11 DEF TargetExists, Reject
<1>12. ASSUME NEW p \in Proc, StartIntent(p) PROVE SharedOK'
  BY <1>12 DEF StartIntent, Reject
<1>13. ASSUME NEW p \in Proc, LinkIntent(p) PROVE SharedOK'
  BY <1>13, AppendOK DEF LinkIntent, DropTemp
<1>14. ASSUME NEW p \in Proc, FinishIntent(p) PROVE SharedOK'
  BY <1>14 DEF FinishIntent, DropTemp
<1>15. ASSUME NEW p \in Proc, IntentLost(p) PROVE SharedOK'
  BY <1>15 DEF IntentLost, DropTemp
<1>16. ASSUME NEW p \in Proc, StartOutput(p) PROVE SharedOK'
  BY <1>16 DEF StartOutput
<1>17. ASSUME NEW p \in Proc, LinkOutput(p) PROVE SharedOK'
  BY <1>17, AppendOK DEF LinkOutput, DropTemp, Bytes
<1>18. ASSUME NEW p \in Proc, FinishOutput(p) PROVE SharedOK'
  BY <1>18 DEF FinishOutput, DropTemp
<1>19. ASSUME NEW p \in Proc, Insert(p) PROVE SharedOK'
  BY <1>19 DEF Insert
<1>20. ASSUME NEW p \in Proc, Commit(p) PROVE SharedOK'
  BY <1>20, AppendOK DEF Commit
<1>21. ASSUME NEW p \in Proc, PostCheck(p) PROVE SharedOK'
  BY <1>21, AppendOK DEF PostCheck
<1>22. ASSUME NEW p \in Proc, RecoveredCheck(p) PROVE SharedOK'
  BY <1>22 DEF RecoveredCheck
<1>23. ASSUME NEW p \in Proc, RemoveIntent(p) PROVE SharedOK'
  BY <1>23 DEF RemoveIntent
<1>24. ASSUME NEW p \in Proc, FinalCheck(p) PROVE SharedOK'
  BY <1>24 DEF FinalCheck
<1>25. ASSUME NEW p \in Proc, RestoreTemp(p) PROVE SharedOK'
  BY <1>25 DEF RestoreTemp
<1>26. ASSUME NEW p \in Proc, RestoreLink(p) PROVE SharedOK'
  BY <1>26, AppendOK DEF RestoreLink, DropTemp
<1>27. ASSUME NEW p \in Proc, RestoreFinish(p) PROVE SharedOK'
  BY <1>27 DEF RestoreFinish, DropTemp
<1>28. ASSUME NEW p \in Proc, SqlRollback(p) PROVE SharedOK'
  BY <1>28 DEF SqlRollback
<1>29. ASSUME NEW p \in Proc, Undo(p) PROVE SharedOK'
  BY <1>29 DEF Undo, Bytes
<1>30. ASSUME NEW p \in Proc, UndoIntent(p) PROVE SharedOK'
  BY <1>30 DEF UndoIntent
<1>30a. ASSUME NEW p \in Proc, RemoveFresh(p) PROVE SharedOK'
  BY <1>30a DEF RemoveFresh
<1>31. ASSUME NEW p \in Proc, Verdict(p) PROVE SharedOK'
  BY <1>31 DEF Verdict
<1>32. ASSUME NEW p \in Proc, FailIntent(p) PROVE SharedOK'
  BY <1>32, SpendOK, AppendOK DEF FailIntent, DropTemp
<1>33. ASSUME NEW p \in Proc, FailOutput(p) PROVE SharedOK'
  BY <1>33, SpendOK DEF FailOutput, DropTemp, Bytes
<1>34. ASSUME NEW p \in Proc, FailInsert(p) PROVE SharedOK'
  BY <1>34, SpendOK DEF FailInsert
<1>35. ASSUME NEW p \in Proc, FailCommit(p) PROVE SharedOK'
  BY <1>35, SpendOK, AppendOK DEF FailCommit
<1>36. ASSUME NEW p \in Proc, FailRemoveIntent(p) PROVE SharedOK'
  BY <1>36, SpendOK DEF FailRemoveIntent
<1>37. ASSUME NEW p \in Proc, FailRestore(p) PROVE SharedOK'
  BY <1>37, SpendOK, AppendOK DEF FailRestore, DropTemp
<1>38. ASSUME NEW p \in Proc, FailUndo(p) PROVE SharedOK'
  BY <1>38, SpendOK DEF FailUndo
<1>39. ASSUME NEW p \in Proc, FailUndoIntent(p) PROVE SharedOK'
  BY <1>39, SpendOK DEF FailUndoIntent
<1>40. ASSUME NEW p \in Proc, Crash(p) PROVE SharedOK'
  BY <1>40 DEF Crash, DropTemp
<1>41. ASSUME NEW x \in Path, ForeignWrite(x) PROVE SharedOK'
  BY <1>41 DEF ForeignWrite, Bytes
<1> QED
  BY
     <1>1, <1>2, <1>3, <1>4, <1>5, <1>6, <1>7, <1>8, <1>9, <1>10, <1>11,
     <1>12, <1>13, <1>14, <1>15, <1>16, <1>17, <1>18, <1>19, <1>20, <1>21,
     <1>22, <1>23, <1>24, <1>25, <1>26, <1>27, <1>28, <1>29, <1>30, <1>30a, <1>31,
     <1>32, <1>33, <1>34, <1>35, <1>36, <1>37, <1>38, <1>39, <1>40, <1>41
  DEF Next, Call, Step, Fault

\* Every step keeps the kinds of the calls' own state.
LEMMA LocalStep == TypeOK /\ [Next]_vars => LocalOK'
<1> SUFFICES ASSUME TypeOK, [Next]_vars PROVE LocalOK'
  OBVIOUS
<1>1. CASE UNCHANGED vars
  BY <1>1 DEF vars, TypeOK, LocalOK
<1>2. ASSUME NEW p \in Proc, NEW r \in Request, OpenRefused(p, r) PROVE LocalOK'
  BY <1>2 DEF OpenRefused, Response, Codes, TypeOK, LocalOK
<1>3. ASSUME NEW p \in Proc, NEW r \in Request, Open(p, r) PROVE LocalOK'
  BY <1>3 DEF Open, Goto, Response, Codes, Running, Locked, TypeOK, LocalOK
<1>4. ASSUME NEW p \in Proc, Busy(p) PROVE LocalOK'
  BY <1>4, ReturnOK DEF Busy, Codes, TypeOK, LocalOK
<1>5. ASSUME NEW p \in Proc, Begin(p) PROVE LocalOK'
  BY <1>5, GotoOK DEF Begin, Running, Locked, TypeOK, LocalOK
<1>6. ASSUME NEW p \in Proc, Snapshot(p) PROVE LocalOK'
  <2>1. CASE Reject(p, "recovery_required")
    BY <2>1, ReturnOK DEF Reject, Codes
  <2>2. CASE /\ init' = [init EXCEPT ![p] = Tree] /\ Goto(p, "snapped")
             /\ UNCHANGED <<req, origin, next, made, proven, res>>
    <3>1. init' \in [Proc -> Trees]
      BY <2>2, TreeType DEF TypeOK, LocalOK
    <3> QED
      BY <1>6, <2>2, <3>1, GotoOK DEF Snapshot, TypeOK, LocalOK, Running, Locked
  <2> QED
    BY <1>6, <2>1, <2>2 DEF Snapshot
<1>7. ASSUME NEW p \in Proc, RecoveryConflict(p) PROVE LocalOK'
  BY <1>7, ReturnOK DEF RecoveryConflict, Codes, Reject, TypeOK, LocalOK
<1>8. ASSUME NEW p \in Proc, ResumeCommitted(p) PROVE LocalOK'
  BY <1>8, GotoOK DEF ResumeCommitted, Running, Locked, TypeOK, LocalOK
<1>9. ASSUME NEW p \in Proc, ResumePartial(p) PROVE LocalOK'
  BY <1>9, GotoOK DEF ResumePartial, Running, Locked, TypeOK, LocalOK
<1>10. ASSUME NEW p \in Proc, TipMismatch(p) PROVE LocalOK'
  BY <1>10, ReturnOK DEF TipMismatch, Codes, Reject, TypeOK, LocalOK
<1>11. ASSUME NEW p \in Proc, TargetExists(p) PROVE LocalOK'
  BY <1>11, ReturnOK DEF TargetExists, Codes, Reject, TypeOK, LocalOK
<1>12. ASSUME NEW p \in Proc, StartIntent(p) PROVE LocalOK'
  BY <1>12, ReturnOK, GotoOK DEF StartIntent, Codes, Reject, Running, Locked, TypeOK, LocalOK
<1>13. ASSUME NEW p \in Proc, LinkIntent(p) PROVE LocalOK'
  BY <1>13, AbortOK, GotoOK DEF LinkIntent, Codes, Running, Locked, TypeOK, LocalOK
<1>14. ASSUME NEW p \in Proc, FinishIntent(p) PROVE LocalOK'
  <2>1. /\ pc[p] # "idle" /\ UNCHANGED <<req, init, next, made, proven>>
        /\ origin' \in [Proc -> {"Absent", "Fresh", "Recovery"}]
    BY <1>14 DEF FinishIntent, TypeOK, LocalOK
  <2>2. \/ Goto(p, "publish") /\ UNCHANGED res
        \/ Abort(p, "snapshot_changed", FALSE)
    BY <1>14 DEF FinishIntent
  <2> QED
    BY <2>1, <2>2, AbortOK, GotoOK DEF TypeOK, LocalOK, Codes, Running, Locked
<1>15. ASSUME NEW p \in Proc, IntentLost(p) PROVE LocalOK'
  BY <1>15, AbortOK DEF IntentLost, Codes, TypeOK, LocalOK
<1>16. ASSUME NEW p \in Proc, StartOutput(p) PROVE LocalOK'
  <2>1. pc[p] # "idle" /\ UNCHANGED <<req, init, origin, made, proven>>
    BY <1>16 DEF StartOutput, Planning
  <2>2. next' = next \/ next' = [next EXCEPT ![p] = @ + 1]
    BY <1>16 DEF StartOutput
  <2>3. next' \in [Proc -> Nat \ {0}]
    BY <2>2 DEF TypeOK, LocalOK
  <2>4. \/ UNCHANGED <<pc, res>>
        \/ Goto(p, "out_temp") /\ UNCHANGED res
        \/ Abort(p, "snapshot_changed", FALSE)
    BY <1>16 DEF StartOutput
  <2> QED
    BY <2>1, <2>3, <2>4, AbortOK, GotoOK DEF TypeOK, LocalOK, Codes, Running, Locked
<1>17. ASSUME NEW p \in Proc, LinkOutput(p) PROVE LocalOK'
  BY <1>17, AbortOK, GotoOK DEF LinkOutput, Codes, Running, Locked, TypeOK, LocalOK
<1>18. ASSUME NEW p \in Proc, FinishOutput(p) PROVE LocalOK'
  <2>1. pc[p] # "idle" /\ UNCHANGED <<req, init, origin, proven>>
    BY <1>18 DEF FinishOutput
  <2>2. /\ next' = next \/ next' = [next EXCEPT ![p] = @ + 1]
        /\ made' = [made EXCEPT ![p] = @ \cup {next[p]}]
    BY <1>18 DEF FinishOutput
  <2>3. next' \in [Proc -> Nat \ {0}] /\ made' \in [Proc -> SUBSET Nat]
    BY <2>2 DEF TypeOK, LocalOK
  <2>4. (Goto(p, "publish") /\ UNCHANGED res) \/ Abort(p, "snapshot_changed", FALSE)
    BY <1>18 DEF FinishOutput
  <2> QED
    BY <2>1, <2>3, <2>4, AbortOK, GotoOK DEF TypeOK, LocalOK, Codes, Running, Locked
<1>19. ASSUME NEW p \in Proc, Insert(p) PROVE LocalOK'
  BY <1>19, GotoOK DEF Insert, Running, Locked, TypeOK, LocalOK
<1>20. ASSUME NEW p \in Proc, Commit(p) PROVE LocalOK'
  BY <1>20, GotoOK DEF Commit, Running, Locked, TypeOK, LocalOK
<1>21. ASSUME NEW p \in Proc, PostCheck(p) PROVE LocalOK'
  BY <1>21, ReturnOK, GotoOK DEF PostCheck, Codes, Running, Locked, TypeOK, LocalOK
<1>22. ASSUME NEW p \in Proc, RecoveredCheck(p) PROVE LocalOK'
  BY <1>22, ReturnOK, GotoOK DEF RecoveredCheck, Codes, Running, Locked, TypeOK, LocalOK
<1>23. ASSUME NEW p \in Proc, RemoveIntent(p) PROVE LocalOK'
  BY <1>23, ReturnOK, GotoOK DEF RemoveIntent, Codes, Running, Locked, TypeOK, LocalOK
<1>24. ASSUME NEW p \in Proc, FinalCheck(p) PROVE LocalOK'
  <2>1. CASE \E code \in Codes : Return(p, code, TRUE)
    BY <2>1, ReturnOK
  <2>2. CASE /\ Goto(p, "restore") /\ UNCHANGED local
             /\ res' = [res EXCEPT ![p] = Response("postcondition_failed", TRUE)]
    <3>1. res' \in [Proc -> [code : Codes, mutated : BOOLEAN]]
      BY <2>2 DEF TypeOK, LocalOK, Response, Codes
    <3> QED
      BY <1>24, <2>2, <3>1, GotoOK DEF FinalCheck, TypeOK, LocalOK, Running
  <2> QED
    BY <1>24, <2>1, <2>2 DEF FinalCheck, Codes
<1>25. ASSUME NEW p \in Proc, RestoreTemp(p) PROVE LocalOK'
  BY <1>25, GotoOK DEF RestoreTemp, Running, Locked, TypeOK, LocalOK
<1>26. ASSUME NEW p \in Proc, RestoreLink(p) PROVE LocalOK'
  BY <1>26, ReturnOK, GotoOK DEF RestoreLink, Codes, Running, Locked, TypeOK, LocalOK
<1>27. ASSUME NEW p \in Proc, RestoreFinish(p) PROVE LocalOK'
  BY <1>27, ReturnOK DEF RestoreFinish, Codes, TypeOK, LocalOK
<1>28. ASSUME NEW p \in Proc, SqlRollback(p) PROVE LocalOK'
  BY <1>28, GotoOK DEF SqlRollback, Running, Locked, Response, Codes, TypeOK, LocalOK
<1>29. ASSUME NEW p \in Proc, Undo(p) PROVE LocalOK'
  BY <1>29 DEF Undo, TypeOK, LocalOK
<1>30. ASSUME NEW p \in Proc, UndoIntent(p) PROVE LocalOK'
  BY <1>30, GotoOK DEF UndoIntent, Running, Locked, TypeOK, LocalOK
<1>30a. ASSUME NEW p \in Proc, RemoveFresh(p) PROVE LocalOK'
  BY <1>30a, GotoOK DEF RemoveFresh, Running, Locked, TypeOK, LocalOK
<1>31. ASSUME NEW p \in Proc, Verdict(p) PROVE LocalOK'
  <2>1. res[p].code \in Codes /\ res[p].mutated \in BOOLEAN /\ "rollback_uncertain" \in Codes
    BY DEF TypeOK, LocalOK, Codes
  <2>2. \/ Return(p, res[p].code, res[p].mutated)
        \/ Return(p, "rollback_uncertain", TRUE)
    BY <1>31 DEF Verdict
  <2> QED
    BY <2>1, <2>2, ReturnOK
<1>32. ASSUME NEW p \in Proc, FailIntent(p) PROVE LocalOK'
  BY <1>32, AbortOK DEF FailIntent, Codes, TypeOK, LocalOK
<1>33. ASSUME NEW p \in Proc, FailOutput(p) PROVE LocalOK'
  BY <1>33, AbortOK DEF FailOutput, Codes, TypeOK, LocalOK
<1>34. ASSUME NEW p \in Proc, FailInsert(p) PROVE LocalOK'
  BY <1>34, AbortOK DEF FailInsert, Codes, TypeOK, LocalOK
<1>35. ASSUME NEW p \in Proc, FailCommit(p) PROVE LocalOK'
  BY <1>35, ReturnOK DEF FailCommit, Codes, TypeOK, LocalOK
<1>36. ASSUME NEW p \in Proc, FailRemoveIntent(p) PROVE LocalOK'
  <2>1. CASE \E code \in Codes : Return(p, code, TRUE)
    BY <2>1, ReturnOK
  <2>2. CASE /\ Goto(p, "restore") /\ UNCHANGED local
             /\ res' = [res EXCEPT ![p] = Response("durability_uncertain", TRUE)]
    <3>1. res' \in [Proc -> [code : Codes, mutated : BOOLEAN]]
      BY <2>2 DEF TypeOK, LocalOK, Response, Codes
    <3> QED
      BY <1>36, <2>2, <3>1, GotoOK DEF FailRemoveIntent, TypeOK, LocalOK, Running
  <2> QED
    BY <1>36, <2>1, <2>2 DEF FailRemoveIntent, Codes
<1>37. ASSUME NEW p \in Proc, FailRestore(p) PROVE LocalOK'
  BY <1>37, ReturnOK DEF FailRestore, Codes, TypeOK, LocalOK
<1>38. ASSUME NEW p \in Proc, FailUndo(p) PROVE LocalOK'
  BY <1>38 DEF FailUndo, TypeOK, LocalOK
<1>39. ASSUME NEW p \in Proc, FailUndoIntent(p) PROVE LocalOK'
  BY <1>39, GotoOK DEF FailUndoIntent, Running, Locked, TypeOK, LocalOK
<1>40. ASSUME NEW p \in Proc, Crash(p) PROVE LocalOK'
  BY <1>40, ReturnOK DEF Crash, Codes, TypeOK, LocalOK
<1>41. ASSUME NEW x \in Path, ForeignWrite(x) PROVE LocalOK'
  BY <1>41 DEF ForeignWrite, TypeOK, LocalOK
<1> QED
  BY
     <1>1, <1>2, <1>3, <1>4, <1>5, <1>6, <1>7, <1>8, <1>9, <1>10, <1>11,
     <1>12, <1>13, <1>14, <1>15, <1>16, <1>17, <1>18, <1>19, <1>20, <1>21,
     <1>22, <1>23, <1>24, <1>25, <1>26, <1>27, <1>28, <1>29, <1>30, <1>30a, <1>31,
     <1>32, <1>33, <1>34, <1>35, <1>36, <1>37, <1>38, <1>39, <1>40, <1>41
  DEF Next, Call, Step, Fault

\* The variables keep their kinds in every behaviour (all of the module).
THEOREM TypeCorrect == Spec => []TypeOK
<1>1. ASSUME Init PROVE TypeOK
  <2> USE <1>1 DEF Init
  <2>1. ledger \in Seq(Request) /\ temps \in SUBSET (Proc \cup {Orphan})
    OBVIOUS
  <2>2. files \in [Path -> Bytes]
    BY DEF Bytes
  <2>3. crashes \in Nat /\ faults \in Nat /\ foreigns \in Nat
    OBVIOUS
  <2>4. SharedOK
    BY <2>1, <2>2, <2>3 DEF SharedOK
  <2>5. init \in [Proc -> Trees]
    BY NoTreeType
  <2>6. next \in [Proc -> Nat \ {0}] /\ made \in [Proc -> SUBSET Nat]
    OBVIOUS
  <2>7. Response("none", FALSE) \in [code : Codes, mutated : BOOLEAN]
    BY DEF Response, Codes
  <2>8. res \in [Proc -> [code : Codes, mutated : BOOLEAN]]
    BY <2>7
  <2>9. LocalOK
    BY <2>5, <2>6, <2>8 DEF LocalOK
  <2> QED
    BY <2>4, <2>9 DEF TypeOK
<1>2. TypeOK /\ [Next]_vars => TypeOK'
  BY SharedStep, LocalStep DEF TypeOK
<1> QED
  BY <1>1, <1>2, PTL DEF Spec

-----------------------------------------------------------------------------
(* The lock and the ledger, whatever calls overlap. *)

\* A call enters the locked part with BEGIN IMMEDIATE and leaves it with COMMIT,
\* ROLLBACK, a rejection or its death, and each of them moves the lock with it.
LEMMA LockStep == TypeOK /\ LockInv /\ [Next]_vars => LockInv'
<1> SUFFICES ASSUME TypeOK, LockInv, [Next]_vars PROVE LockInv'
  OBVIOUS
<1> pc \in [Proc -> Running \cup {"idle"}] /\ lock \in Proc \cup {None}
  BY DEF TypeOK, SharedOK, LocalOK
<1> USE SentinelAssumption DEF LockInv
<1>1. CASE UNCHANGED vars
  BY <1>1 DEF vars
<1>2. ASSUME NEW p \in Proc, NEW r \in Request, OpenRefused(p, r) PROVE LockInv'
  BY <1>2 DEF OpenRefused, Locked
<1>3. ASSUME NEW p \in Proc, NEW r \in Request, Open(p, r) PROVE LockInv'
  BY <1>3 DEF Open, Locked, Goto
<1>4. ASSUME NEW p \in Proc, Busy(p) PROVE LockInv'
  BY <1>4 DEF Busy, Locked, Return, Goto
<1>5. ASSUME NEW p \in Proc, Begin(p) PROVE LockInv'
  BY <1>5 DEF Begin, Locked, Goto
<1>6. ASSUME NEW p \in Proc, Snapshot(p) PROVE LockInv'
  BY <1>6 DEF Snapshot, Locked, Reject, Return, Goto
<1>7. ASSUME NEW p \in Proc, RecoveryConflict(p) PROVE LockInv'
  BY <1>7 DEF RecoveryConflict, Locked, Reject, Return, Goto
<1>8. ASSUME NEW p \in Proc, ResumeCommitted(p) PROVE LockInv'
  BY <1>8 DEF ResumeCommitted, Locked, Goto
<1>9. ASSUME NEW p \in Proc, ResumePartial(p) PROVE LockInv'
  BY <1>9 DEF ResumePartial, Locked, Goto
<1>10. ASSUME NEW p \in Proc, TipMismatch(p) PROVE LockInv'
  BY <1>10 DEF TipMismatch, Locked, Reject, Return, Goto
<1>11. ASSUME NEW p \in Proc, TargetExists(p) PROVE LockInv'
  BY <1>11 DEF TargetExists, Locked, Reject, Return, Goto
<1>12. ASSUME NEW p \in Proc, StartIntent(p) PROVE LockInv'
  BY <1>12 DEF StartIntent, Locked, Reject, Return, Goto
<1>13. ASSUME NEW p \in Proc, LinkIntent(p) PROVE LockInv'
  BY <1>13 DEF LinkIntent, Locked, Abort, Goto
<1>14. ASSUME NEW p \in Proc, FinishIntent(p) PROVE LockInv'
  BY <1>14 DEF FinishIntent, Locked, Abort, Goto
<1>15. ASSUME NEW p \in Proc, IntentLost(p) PROVE LockInv'
  BY <1>15 DEF IntentLost, Locked, Abort, Goto
<1>16. ASSUME NEW p \in Proc, StartOutput(p) PROVE LockInv'
  BY <1>16 DEF StartOutput, Locked, Abort, Goto, Planning
<1>17. ASSUME NEW p \in Proc, LinkOutput(p) PROVE LockInv'
  BY <1>17 DEF LinkOutput, Locked, Abort, Goto
<1>18. ASSUME NEW p \in Proc, FinishOutput(p) PROVE LockInv'
  BY <1>18 DEF FinishOutput, Locked, Abort, Goto
<1>19. ASSUME NEW p \in Proc, Insert(p) PROVE LockInv'
  BY <1>19 DEF Insert, Locked, Goto
<1>20. ASSUME NEW p \in Proc, Commit(p) PROVE LockInv'
  BY <1>20 DEF Commit, Locked, Goto
<1>21. ASSUME NEW p \in Proc, PostCheck(p) PROVE LockInv'
  BY <1>21 DEF PostCheck, Locked, Return, Goto
<1>22. ASSUME NEW p \in Proc, RecoveredCheck(p) PROVE LockInv'
  BY <1>22 DEF RecoveredCheck, Locked, Return, Goto
<1>23. ASSUME NEW p \in Proc, RemoveIntent(p) PROVE LockInv'
  BY <1>23 DEF RemoveIntent, Locked, Return, Goto
<1>24. ASSUME NEW p \in Proc, FinalCheck(p) PROVE LockInv'
  BY <1>24 DEF FinalCheck, Locked, Return, Goto
<1>25. ASSUME NEW p \in Proc, RestoreTemp(p) PROVE LockInv'
  BY <1>25 DEF RestoreTemp, Locked, Goto
<1>26. ASSUME NEW p \in Proc, RestoreLink(p) PROVE LockInv'
  BY <1>26 DEF RestoreLink, Locked, Return, Goto
<1>27. ASSUME NEW p \in Proc, RestoreFinish(p) PROVE LockInv'
  BY <1>27 DEF RestoreFinish, Locked, Return, Goto
<1>28. ASSUME NEW p \in Proc, SqlRollback(p) PROVE LockInv'
  BY <1>28 DEF SqlRollback, Locked, Goto
<1>29. ASSUME NEW p \in Proc, Undo(p) PROVE LockInv'
  BY <1>29 DEF Undo, Locked
<1>30. ASSUME NEW p \in Proc, UndoIntent(p) PROVE LockInv'
  BY <1>30 DEF UndoIntent, Locked, Goto
<1>30a. ASSUME NEW p \in Proc, RemoveFresh(p) PROVE LockInv'
  BY <1>30a DEF RemoveFresh, Locked, Goto
<1>31. ASSUME NEW p \in Proc, Verdict(p) PROVE LockInv'
  BY <1>31 DEF Verdict, Locked, Return, Goto
<1>32. ASSUME NEW p \in Proc, FailIntent(p) PROVE LockInv'
  BY <1>32 DEF FailIntent, Locked, Abort, Goto
<1>33. ASSUME NEW p \in Proc, FailOutput(p) PROVE LockInv'
  BY <1>33 DEF FailOutput, Locked, Abort, Goto
<1>34. ASSUME NEW p \in Proc, FailInsert(p) PROVE LockInv'
  BY <1>34 DEF FailInsert, Locked, Abort, Goto
<1>35. ASSUME NEW p \in Proc, FailCommit(p) PROVE LockInv'
  BY <1>35 DEF FailCommit, Locked, Return, Goto
<1>36. ASSUME NEW p \in Proc, FailRemoveIntent(p) PROVE LockInv'
  BY <1>36 DEF FailRemoveIntent, Locked, Return, Goto
<1>37. ASSUME NEW p \in Proc, FailRestore(p) PROVE LockInv'
  BY <1>37 DEF FailRestore, Locked, Return, Goto
<1>38. ASSUME NEW p \in Proc, FailUndo(p) PROVE LockInv'
  BY <1>38 DEF FailUndo, Locked
<1>39. ASSUME NEW p \in Proc, FailUndoIntent(p) PROVE LockInv'
  BY <1>39 DEF FailUndoIntent, Locked, Goto
<1>40. ASSUME NEW p \in Proc, Crash(p) PROVE LockInv'
  BY <1>40 DEF Crash, Locked, Return, Goto
<1>41. ASSUME NEW x \in Path, ForeignWrite(x) PROVE LockInv'
  BY <1>41 DEF ForeignWrite, Locked
<1> QED
  BY
     <1>1, <1>2, <1>3, <1>4, <1>5, <1>6, <1>7, <1>8, <1>9, <1>10, <1>11,
     <1>12, <1>13, <1>14, <1>15, <1>16, <1>17, <1>18, <1>19, <1>20, <1>21,
     <1>22, <1>23, <1>24, <1>25, <1>26, <1>27, <1>28, <1>29, <1>30, <1>30a, <1>31,
     <1>32, <1>33, <1>34, <1>35, <1>36, <1>37, <1>38, <1>39, <1>40, <1>41
  DEF Next, Call, Step, Fault

\* The tip compared under the lock is still the tip when COMMIT is reached: the
\* ledger moves only in the hands of the lock's holder.
LEMMA TipStep == TypeOK /\ LockInv /\ TipInv /\ [Next]_vars => TipInv'
<1> SUFFICES ASSUME TypeOK, LockInv, TipInv, [Next]_vars PROVE TipInv'
  OBVIOUS
<1> /\ pc \in [Proc -> Running \cup {"idle"}] /\ lock \in Proc \cup {None}
    /\ req \in [Proc -> Request \cup {None}]
  BY DEF TypeOK, SharedOK, LocalOK
<1> USE SentinelAssumption DEF TipInv, TipHeld
<1>1. CASE UNCHANGED vars
  BY <1>1 DEF vars
<1>2. ASSUME NEW p \in Proc, NEW r \in Request, OpenRefused(p, r) PROVE TipInv'
  BY <1>2 DEF OpenRefused
<1>3. ASSUME NEW p \in Proc, NEW r \in Request, Open(p, r) PROVE TipInv'
  BY <1>3 DEF Open, Goto
<1>4. ASSUME NEW p \in Proc, Busy(p) PROVE TipInv'
  BY <1>4 DEF Busy, Return, Goto
<1>5. ASSUME NEW p \in Proc, Begin(p) PROVE TipInv'
  BY <1>5 DEF Begin, Goto
<1>6. ASSUME NEW p \in Proc, Snapshot(p) PROVE TipInv'
  BY <1>6 DEF Snapshot, Reject, Return, Goto
<1>7. ASSUME NEW p \in Proc, RecoveryConflict(p) PROVE TipInv'
  BY <1>7 DEF RecoveryConflict, Reject, Return, Goto
<1>8. ASSUME NEW p \in Proc, ResumeCommitted(p) PROVE TipInv'
  BY <1>8 DEF ResumeCommitted, Goto
<1>9. ASSUME NEW p \in Proc, ResumePartial(p) PROVE TipInv'
  BY <1>9 DEF ResumePartial, Goto
<1>10. ASSUME NEW p \in Proc, TipMismatch(p) PROVE TipInv'
  BY <1>10 DEF TipMismatch, Reject, Return, Goto
<1>11. ASSUME NEW p \in Proc, TargetExists(p) PROVE TipInv'
  BY <1>11 DEF TargetExists, Reject, Return, Goto
<1>12. ASSUME NEW p \in Proc, StartIntent(p) PROVE TipInv'
  BY <1>12 DEF StartIntent, Reject, Return, Goto
<1>13. ASSUME NEW p \in Proc, LinkIntent(p) PROVE TipInv'
  BY <1>13 DEF LinkIntent, Abort, Goto
<1>14. ASSUME NEW p \in Proc, FinishIntent(p) PROVE TipInv'
  BY <1>14 DEF FinishIntent, Abort, Goto
<1>15. ASSUME NEW p \in Proc, IntentLost(p) PROVE TipInv'
  BY <1>15 DEF IntentLost, Abort, Goto
<1>16. ASSUME NEW p \in Proc, StartOutput(p) PROVE TipInv'
  BY <1>16 DEF StartOutput, Abort, Goto, Planning
<1>17. ASSUME NEW p \in Proc, LinkOutput(p) PROVE TipInv'
  BY <1>17 DEF LinkOutput, Abort, Goto
<1>18. ASSUME NEW p \in Proc, FinishOutput(p) PROVE TipInv'
  BY <1>18 DEF FinishOutput, Abort, Goto
<1>19. ASSUME NEW p \in Proc, Insert(p) PROVE TipInv'
  BY <1>19 DEF Insert, Goto
<1>20. ASSUME NEW p \in Proc, Commit(p) PROVE TipInv'
  BY <1>20 DEF Commit, Goto, LockInv, Locked
<1>21. ASSUME NEW p \in Proc, PostCheck(p) PROVE TipInv'
  BY <1>21 DEF PostCheck, Return, Goto
<1>22. ASSUME NEW p \in Proc, RecoveredCheck(p) PROVE TipInv'
  BY <1>22 DEF RecoveredCheck, Return, Goto
<1>23. ASSUME NEW p \in Proc, RemoveIntent(p) PROVE TipInv'
  BY <1>23 DEF RemoveIntent, Return, Goto
<1>24. ASSUME NEW p \in Proc, FinalCheck(p) PROVE TipInv'
  BY <1>24 DEF FinalCheck, Return, Goto
<1>25. ASSUME NEW p \in Proc, RestoreTemp(p) PROVE TipInv'
  BY <1>25 DEF RestoreTemp, Goto
<1>26. ASSUME NEW p \in Proc, RestoreLink(p) PROVE TipInv'
  BY <1>26 DEF RestoreLink, Return, Goto
<1>27. ASSUME NEW p \in Proc, RestoreFinish(p) PROVE TipInv'
  BY <1>27 DEF RestoreFinish, Return, Goto
<1>28. ASSUME NEW p \in Proc, SqlRollback(p) PROVE TipInv'
  BY <1>28 DEF SqlRollback, Goto
<1>29. ASSUME NEW p \in Proc, Undo(p) PROVE TipInv'
  BY <1>29 DEF Undo
<1>30. ASSUME NEW p \in Proc, UndoIntent(p) PROVE TipInv'
  BY <1>30 DEF UndoIntent, Goto
<1>30a. ASSUME NEW p \in Proc, RemoveFresh(p) PROVE TipInv'
  BY <1>30a DEF RemoveFresh, Goto
<1>31. ASSUME NEW p \in Proc, Verdict(p) PROVE TipInv'
  BY <1>31 DEF Verdict, Return, Goto
<1>32. ASSUME NEW p \in Proc, FailIntent(p) PROVE TipInv'
  BY <1>32 DEF FailIntent, Abort, Goto
<1>33. ASSUME NEW p \in Proc, FailOutput(p) PROVE TipInv'
  BY <1>33 DEF FailOutput, Abort, Goto
<1>34. ASSUME NEW p \in Proc, FailInsert(p) PROVE TipInv'
  BY <1>34 DEF FailInsert, Abort, Goto
<1>35. ASSUME NEW p \in Proc, FailCommit(p) PROVE TipInv'
  BY <1>35 DEF FailCommit, Return, Goto, LockInv, Locked
<1>36. ASSUME NEW p \in Proc, FailRemoveIntent(p) PROVE TipInv'
  BY <1>36 DEF FailRemoveIntent, Return, Goto
<1>37. ASSUME NEW p \in Proc, FailRestore(p) PROVE TipInv'
  BY <1>37 DEF FailRestore, Return, Goto
<1>38. ASSUME NEW p \in Proc, FailUndo(p) PROVE TipInv'
  BY <1>38 DEF FailUndo
<1>39. ASSUME NEW p \in Proc, FailUndoIntent(p) PROVE TipInv'
  BY <1>39 DEF FailUndoIntent, Goto
<1>40. ASSUME NEW p \in Proc, Crash(p) PROVE TipInv'
  BY <1>40 DEF Crash, Return, Goto
<1>41. ASSUME NEW x \in Path, ForeignWrite(x) PROVE TipInv'
  BY <1>41 DEF ForeignWrite
<1> QED
  BY
     <1>1, <1>2, <1>3, <1>4, <1>5, <1>6, <1>7, <1>8, <1>9, <1>10, <1>11,
     <1>12, <1>13, <1>14, <1>15, <1>16, <1>17, <1>18, <1>19, <1>20, <1>21,
     <1>22, <1>23, <1>24, <1>25, <1>26, <1>27, <1>28, <1>29, <1>30, <1>30a, <1>31,
     <1>32, <1>33, <1>34, <1>35, <1>36, <1>37, <1>38, <1>39, <1>40, <1>41
  DEF Next, Call, Step, Fault

\* A request whose expected tip is the tip has no row yet.
LEMMA FreshRow ==
  ASSUME TypeOK, LedgerLinear, NoRepeat, NEW r \in Request, Tip(ledger) = ExpectedTip[r]
  PROVE  r \notin Committed
<1> SUFFICES ASSUME NEW i \in 1..Len(ledger), ledger[i] = r PROVE FALSE
  BY DEF Committed
<1> ledger \in Seq(Request)
  BY DEF TypeOK, SharedOK
<1>1. ledger # <<>> /\ Len(ledger) \in 1..Len(ledger) /\ Tip(ledger) = ledger[Len(ledger)]
  BY DEF Tip
<1>2. ExpectedTip[r] \in Request
  BY <1>1
<1>3. CASE i = 1
  BY <1>2, <1>3, SentinelAssumption DEF LedgerLinear
<1>4. CASE i # 1
  <2>1. i \in Nat /\ i > 1 /\ i - 1 \in 1..Len(ledger)
    BY <1>4
  <2>2. ledger[i - 1] = ledger[Len(ledger)]
    BY <1>1, <1>4 DEF LedgerLinear
  <2>3. i - 1 = Len(ledger)
    BY <1>1, <2>1, <2>2 DEF NoRepeat
  <2> QED
    BY <2>1, <2>3
<1> QED
  BY <1>3, <1>4

\* Appending the child of the tip keeps the ledger linear and without repetition.
LEMMA AppendLinear ==
  ASSUME TypeOK, LedgerLinear, NoRepeat, NEW r \in Request, Tip(ledger) = ExpectedTip[r],
         ledger' = Append(ledger, r)
  PROVE  LedgerLinear' /\ NoRepeat'
<1> ledger \in Seq(Request)
  BY DEF TypeOK, SharedOK
<1>1. /\ Len(ledger') = Len(ledger) + 1 /\ ledger'[Len(ledger) + 1] = r
      /\ \A i \in 1..Len(ledger) : ledger'[i] = ledger[i]
  OBVIOUS
<1>2. LedgerLinear'
  <2> SUFFICES ASSUME NEW i \in 1..Len(ledger')
               PROVE  ExpectedTip[ledger'[i]] = IF i = 1 THEN Root ELSE ledger'[i - 1]
    BY DEF LedgerLinear
  <2>1. CASE i \in 1..Len(ledger)
    BY <1>1, <2>1 DEF LedgerLinear
  <2>2. CASE i = Len(ledger) + 1
    BY <1>1, <2>2 DEF Tip
  <2> QED
    BY <1>1, <2>1, <2>2
<1>3. NoRepeat'
  <2>1. \A i \in 1..Len(ledger) : ledger[i] # r
    BY FreshRow DEF Committed
  <2> QED
    BY <1>1, <2>1 DEF NoRepeat
<1> QED
  BY <1>2, <1>3

\* A step keeps the ledger or adds the request of the call that is inserting.
LEMMA LedgerMoves ==
  [Next]_vars =>
    \/ UNCHANGED ledger
    \/ \E p \in Proc : /\ pc[p] = "inserted" /\ ledger' = Append(ledger, req[p])
                       /\ Commit(p) \/ FailCommit(p)
<1> SUFFICES ASSUME [Next]_vars
             PROVE  \/ UNCHANGED ledger
                    \/ \E p \in Proc :
                         /\ pc[p] = "inserted" /\ ledger' = Append(ledger, req[p])
                         /\ Commit(p) \/ FailCommit(p)
  OBVIOUS
<1>1. CASE UNCHANGED vars
  BY <1>1 DEF vars
<1>2. ASSUME NEW p \in Proc, NEW r \in Request, OpenRefused(p, r) PROVE UNCHANGED ledger
  BY <1>2 DEF OpenRefused
<1>3. ASSUME NEW p \in Proc, NEW r \in Request, Open(p, r) PROVE UNCHANGED ledger
  BY <1>3 DEF Open
<1>4. ASSUME NEW p \in Proc, Busy(p) PROVE UNCHANGED ledger
  BY <1>4 DEF Busy
<1>5. ASSUME NEW p \in Proc, Begin(p) PROVE UNCHANGED ledger
  BY <1>5 DEF Begin
<1>6. ASSUME NEW p \in Proc, Snapshot(p) PROVE UNCHANGED ledger
  BY <1>6 DEF Snapshot, Reject
<1>7. ASSUME NEW p \in Proc, RecoveryConflict(p) PROVE UNCHANGED ledger
  BY <1>7 DEF RecoveryConflict, Reject
<1>8. ASSUME NEW p \in Proc, ResumeCommitted(p) PROVE UNCHANGED ledger
  BY <1>8 DEF ResumeCommitted
<1>9. ASSUME NEW p \in Proc, ResumePartial(p) PROVE UNCHANGED ledger
  BY <1>9 DEF ResumePartial
<1>10. ASSUME NEW p \in Proc, TipMismatch(p) PROVE UNCHANGED ledger
  BY <1>10 DEF TipMismatch, Reject
<1>11. ASSUME NEW p \in Proc, TargetExists(p) PROVE UNCHANGED ledger
  BY <1>11 DEF TargetExists, Reject
<1>12. ASSUME NEW p \in Proc, StartIntent(p) PROVE UNCHANGED ledger
  BY <1>12 DEF StartIntent, Reject
<1>13. ASSUME NEW p \in Proc, LinkIntent(p) PROVE UNCHANGED ledger
  BY <1>13 DEF LinkIntent
<1>14. ASSUME NEW p \in Proc, FinishIntent(p) PROVE UNCHANGED ledger
  BY <1>14 DEF FinishIntent
<1>15. ASSUME NEW p \in Proc, IntentLost(p) PROVE UNCHANGED ledger
  BY <1>15 DEF IntentLost
<1>16. ASSUME NEW p \in Proc, StartOutput(p) PROVE UNCHANGED ledger
  BY <1>16 DEF StartOutput
<1>17. ASSUME NEW p \in Proc, LinkOutput(p) PROVE UNCHANGED ledger
  BY <1>17 DEF LinkOutput
<1>18. ASSUME NEW p \in Proc, FinishOutput(p) PROVE UNCHANGED ledger
  BY <1>18 DEF FinishOutput
<1>19. ASSUME NEW p \in Proc, Insert(p) PROVE UNCHANGED ledger
  BY <1>19 DEF Insert
<1>20. ASSUME NEW p \in Proc, Commit(p)
      PROVE  \/ UNCHANGED ledger
             \/ pc[p] = "inserted" /\ ledger' = Append(ledger, req[p])
  BY <1>20 DEF Commit
<1>21. ASSUME NEW p \in Proc, PostCheck(p) PROVE UNCHANGED ledger
  BY <1>21 DEF PostCheck
<1>22. ASSUME NEW p \in Proc, RecoveredCheck(p) PROVE UNCHANGED ledger
  BY <1>22 DEF RecoveredCheck
<1>23. ASSUME NEW p \in Proc, RemoveIntent(p) PROVE UNCHANGED ledger
  BY <1>23 DEF RemoveIntent
<1>24. ASSUME NEW p \in Proc, FinalCheck(p) PROVE UNCHANGED ledger
  BY <1>24 DEF FinalCheck
<1>25. ASSUME NEW p \in Proc, RestoreTemp(p) PROVE UNCHANGED ledger
  BY <1>25 DEF RestoreTemp
<1>26. ASSUME NEW p \in Proc, RestoreLink(p) PROVE UNCHANGED ledger
  BY <1>26 DEF RestoreLink
<1>27. ASSUME NEW p \in Proc, RestoreFinish(p) PROVE UNCHANGED ledger
  BY <1>27 DEF RestoreFinish
<1>28. ASSUME NEW p \in Proc, SqlRollback(p) PROVE UNCHANGED ledger
  BY <1>28 DEF SqlRollback
<1>29. ASSUME NEW p \in Proc, Undo(p) PROVE UNCHANGED ledger
  BY <1>29 DEF Undo
<1>30. ASSUME NEW p \in Proc, UndoIntent(p) PROVE UNCHANGED ledger
  BY <1>30 DEF UndoIntent
<1>30a. ASSUME NEW p \in Proc, RemoveFresh(p) PROVE UNCHANGED ledger
  BY <1>30a DEF RemoveFresh
<1>31. ASSUME NEW p \in Proc, Verdict(p) PROVE UNCHANGED ledger
  BY <1>31 DEF Verdict
<1>32. ASSUME NEW p \in Proc, FailIntent(p) PROVE UNCHANGED ledger
  BY <1>32 DEF FailIntent
<1>33. ASSUME NEW p \in Proc, FailOutput(p) PROVE UNCHANGED ledger
  BY <1>33 DEF FailOutput
<1>34. ASSUME NEW p \in Proc, FailInsert(p) PROVE UNCHANGED ledger
  BY <1>34 DEF FailInsert
<1>35. ASSUME NEW p \in Proc, FailCommit(p)
      PROVE  \/ UNCHANGED ledger
             \/ pc[p] = "inserted" /\ ledger' = Append(ledger, req[p])
  BY <1>35 DEF FailCommit
<1>36. ASSUME NEW p \in Proc, FailRemoveIntent(p) PROVE UNCHANGED ledger
  BY <1>36 DEF FailRemoveIntent
<1>37. ASSUME NEW p \in Proc, FailRestore(p) PROVE UNCHANGED ledger
  BY <1>37 DEF FailRestore
<1>38. ASSUME NEW p \in Proc, FailUndo(p) PROVE UNCHANGED ledger
  BY <1>38 DEF FailUndo
<1>39. ASSUME NEW p \in Proc, FailUndoIntent(p) PROVE UNCHANGED ledger
  BY <1>39 DEF FailUndoIntent
<1>40. ASSUME NEW p \in Proc, Crash(p) PROVE UNCHANGED ledger
  BY <1>40 DEF Crash
<1>41. ASSUME NEW x \in Path, ForeignWrite(x) PROVE UNCHANGED ledger
  BY <1>41 DEF ForeignWrite
<1> QED
  BY
     <1>1, <1>2, <1>3, <1>4, <1>5, <1>6, <1>7, <1>8, <1>9, <1>10, <1>11,
     <1>12, <1>13, <1>14, <1>15, <1>16, <1>17, <1>18, <1>19, <1>20, <1>21,
     <1>22, <1>23, <1>24, <1>25, <1>26, <1>27, <1>28, <1>29, <1>30, <1>30a, <1>31,
     <1>32, <1>33, <1>34, <1>35, <1>36, <1>37, <1>38, <1>39, <1>40, <1>41
  DEF Next, Call, Step, Fault

\* Every step keeps the lock, the compared tip and the linear ledger.
LEMMA LedgerStep == TypeOK /\ LedgerInv /\ [Next]_vars => LedgerInv'
<1> SUFFICES ASSUME TypeOK, LedgerInv, [Next]_vars PROVE LedgerInv'
  OBVIOUS
<1>1. LockInv' /\ TipInv'
  BY LockStep, TipStep DEF LedgerInv
<1>2. CASE UNCHANGED ledger
  BY <1>1, <1>2 DEF LedgerInv, LedgerLinear, NoRepeat
<1>3. ASSUME NEW p \in Proc, pc[p] = "inserted", ledger' = Append(ledger, req[p])
      PROVE  LedgerInv'
  <2>1. req[p] \in Request /\ Tip(ledger) = ExpectedTip[req[p]]
    BY <1>3 DEF TypeOK, LocalOK, LedgerInv, TipInv, TipHeld
  <2> QED
    BY <1>1, <1>3, <2>1, AppendLinear DEF LedgerInv
<1> QED
  BY <1>2, <1>3, LedgerMoves

\* The lock, the compared tip and the linear ledger hold in every behaviour.
LEMMA LedgerInvariant == Spec => []LedgerInv
<1>1. ASSUME Init PROVE LedgerInv
  <2> USE <1>1 DEF Init
  <2>1. LockInv
    BY SentinelAssumption DEF LockInv, Locked
  <2>2. TipInv
    BY DEF TipInv, TipHeld
  <2>3. NoRepeat /\ LedgerLinear
    BY DEF NoRepeat, LedgerLinear
  <2> QED
    BY <2>1, <2>2, <2>3 DEF LedgerInv
<1>2. TypeOK /\ LedgerInv /\ [Next]_vars => LedgerInv'
  BY LedgerStep
<1> QED
  BY <1>1, <1>2, TypeCorrect, PTL DEF Spec

\* Every row is the child of the row before it, in every behaviour: also with
\* overlapping exact retries, killed processes and failed operations.
THEOREM LedgerIsLinear == Spec => []LedgerLinear
BY LedgerInvariant, PTL DEF LedgerInv

\* Two calls are never inside the transaction together.
THEOREM OneWriter ==
  Spec => [](\A p, q \in Proc : pc[p] \in Locked /\ pc[q] \in Locked => p = q)
<1>1. LedgerInv => \A p, q \in Proc : pc[p] \in Locked /\ pc[q] \in Locked => p = q
  BY DEF LedgerInv, LockInv
<1> QED
  BY <1>1, LedgerInvariant, PTL

-----------------------------------------------------------------------------
(* The files, when no request is carried by two running calls. *)

\* Without overlapping retries no request is ever carried by two calls.
LEMMA UniqueStep == TypeOK /\ ~Overlap /\ Unique /\ [Next]_vars => Unique'
<1> SUFFICES ASSUME TypeOK, ~Overlap, Unique, [Next]_vars PROVE Unique'
  OBVIOUS
<1> /\ pc \in [Proc -> Running \cup {"idle"}]
    /\ req \in [Proc -> Request \cup {None}]
  BY DEF TypeOK, LocalOK
<1> USE DEF Unique
<1>1. CASE UNCHANGED vars
  BY <1>1 DEF vars
<1>2. ASSUME NEW p \in Proc, NEW r \in Request, OpenRefused(p, r) PROVE Unique'
  BY <1>2 DEF OpenRefused
<1>3. ASSUME NEW p \in Proc, NEW r \in Request, Open(p, r) PROVE Unique'
  BY <1>3 DEF Open, Goto
<1>4. ASSUME NEW p \in Proc, Busy(p) PROVE Unique'
  BY <1>4 DEF Busy, Return, Goto
<1>5. ASSUME NEW p \in Proc, Begin(p) PROVE Unique'
  BY <1>5 DEF Begin, Goto
<1>6. ASSUME NEW p \in Proc, Snapshot(p) PROVE Unique'
  BY <1>6 DEF Snapshot, Reject, Return, Goto
<1>7. ASSUME NEW p \in Proc, RecoveryConflict(p) PROVE Unique'
  BY <1>7 DEF RecoveryConflict, Reject, Return, Goto
<1>8. ASSUME NEW p \in Proc, ResumeCommitted(p) PROVE Unique'
  BY <1>8 DEF ResumeCommitted, Goto
<1>9. ASSUME NEW p \in Proc, ResumePartial(p) PROVE Unique'
  BY <1>9 DEF ResumePartial, Goto
<1>10. ASSUME NEW p \in Proc, TipMismatch(p) PROVE Unique'
  BY <1>10 DEF TipMismatch, Reject, Return, Goto
<1>11. ASSUME NEW p \in Proc, TargetExists(p) PROVE Unique'
  BY <1>11 DEF TargetExists, Reject, Return, Goto
<1>12. ASSUME NEW p \in Proc, StartIntent(p) PROVE Unique'
  BY <1>12 DEF StartIntent, Reject, Return, Goto
<1>13. ASSUME NEW p \in Proc, LinkIntent(p) PROVE Unique'
  BY <1>13 DEF LinkIntent, Abort, Goto
<1>14. ASSUME NEW p \in Proc, FinishIntent(p) PROVE Unique'
  BY <1>14 DEF FinishIntent, Abort, Goto
<1>15. ASSUME NEW p \in Proc, IntentLost(p) PROVE Unique'
  BY <1>15 DEF IntentLost, Abort, Goto
<1>16. ASSUME NEW p \in Proc, StartOutput(p) PROVE Unique'
  BY <1>16 DEF StartOutput, Abort, Goto, Planning
<1>17. ASSUME NEW p \in Proc, LinkOutput(p) PROVE Unique'
  BY <1>17 DEF LinkOutput, Abort, Goto
<1>18. ASSUME NEW p \in Proc, FinishOutput(p) PROVE Unique'
  BY <1>18 DEF FinishOutput, Abort, Goto
<1>19. ASSUME NEW p \in Proc, Insert(p) PROVE Unique'
  BY <1>19 DEF Insert, Goto
<1>20. ASSUME NEW p \in Proc, Commit(p) PROVE Unique'
  BY <1>20 DEF Commit, Goto
<1>21. ASSUME NEW p \in Proc, PostCheck(p) PROVE Unique'
  BY <1>21 DEF PostCheck, Return, Goto
<1>22. ASSUME NEW p \in Proc, RecoveredCheck(p) PROVE Unique'
  BY <1>22 DEF RecoveredCheck, Return, Goto
<1>23. ASSUME NEW p \in Proc, RemoveIntent(p) PROVE Unique'
  BY <1>23 DEF RemoveIntent, Return, Goto
<1>24. ASSUME NEW p \in Proc, FinalCheck(p) PROVE Unique'
  BY <1>24 DEF FinalCheck, Return, Goto
<1>25. ASSUME NEW p \in Proc, RestoreTemp(p) PROVE Unique'
  BY <1>25 DEF RestoreTemp, Goto
<1>26. ASSUME NEW p \in Proc, RestoreLink(p) PROVE Unique'
  BY <1>26 DEF RestoreLink, Return, Goto
<1>27. ASSUME NEW p \in Proc, RestoreFinish(p) PROVE Unique'
  BY <1>27 DEF RestoreFinish, Return, Goto
<1>28. ASSUME NEW p \in Proc, SqlRollback(p) PROVE Unique'
  BY <1>28 DEF SqlRollback, Goto
<1>29. ASSUME NEW p \in Proc, Undo(p) PROVE Unique'
  BY <1>29 DEF Undo
<1>30. ASSUME NEW p \in Proc, UndoIntent(p) PROVE Unique'
  BY <1>30 DEF UndoIntent, Goto
<1>30a. ASSUME NEW p \in Proc, RemoveFresh(p) PROVE Unique'
  BY <1>30a DEF RemoveFresh, Goto
<1>31. ASSUME NEW p \in Proc, Verdict(p) PROVE Unique'
  BY <1>31 DEF Verdict, Return, Goto
<1>32. ASSUME NEW p \in Proc, FailIntent(p) PROVE Unique'
  BY <1>32 DEF FailIntent, Abort, Goto
<1>33. ASSUME NEW p \in Proc, FailOutput(p) PROVE Unique'
  BY <1>33 DEF FailOutput, Abort, Goto
<1>34. ASSUME NEW p \in Proc, FailInsert(p) PROVE Unique'
  BY <1>34 DEF FailInsert, Abort, Goto
<1>35. ASSUME NEW p \in Proc, FailCommit(p) PROVE Unique'
  BY <1>35 DEF FailCommit, Return, Goto
<1>36. ASSUME NEW p \in Proc, FailRemoveIntent(p) PROVE Unique'
  BY <1>36 DEF FailRemoveIntent, Return, Goto
<1>37. ASSUME NEW p \in Proc, FailRestore(p) PROVE Unique'
  BY <1>37 DEF FailRestore, Return, Goto
<1>38. ASSUME NEW p \in Proc, FailUndo(p) PROVE Unique'
  BY <1>38 DEF FailUndo
<1>39. ASSUME NEW p \in Proc, FailUndoIntent(p) PROVE Unique'
  BY <1>39 DEF FailUndoIntent, Goto
<1>40. ASSUME NEW p \in Proc, Crash(p) PROVE Unique'
  BY <1>40 DEF Crash, Return, Goto
<1>41. ASSUME NEW x \in Path, ForeignWrite(x) PROVE Unique'
  BY <1>41 DEF ForeignWrite
<1> QED
  BY
     <1>1, <1>2, <1>3, <1>4, <1>5, <1>6, <1>7, <1>8, <1>9, <1>10, <1>11,
     <1>12, <1>13, <1>14, <1>15, <1>16, <1>17, <1>18, <1>19, <1>20, <1>21,
     <1>22, <1>23, <1>24, <1>25, <1>26, <1>27, <1>28, <1>29, <1>30, <1>30a, <1>31,
     <1>32, <1>33, <1>34, <1>35, <1>36, <1>37, <1>38, <1>39, <1>40, <1>41
  DEF Next, Call, Step, Fault

\* A call that returned has made no progress, and later program counters ask little.
LEMMA ReturnProgress ==
  ASSUME TypeOK, Progress, NEW p \in Proc, NEW code, NEW mutated,
         Return(p, code, mutated)
  PROVE  Progress'
BY DEF Progress, Return, Goto, Unstarted, Publishing, TypeOK, LocalOK

\* After publication a call's progress only has to lie within its plan.
LEMMA LateProgress ==
  ASSUME TypeOK, Progress, NEW p \in Proc, NEW label, label \notin Unstarted \cup Publishing,
         Goto(p, label), UNCHANGED <<req, next, made>>
  PROVE  Progress'
BY DEF Progress, Goto, Unstarted, Publishing, TypeOK, LocalOK

\* The progress of a call is its own: how far it is, what it has published.
LEMMA ProgressStep == TypeOK /\ Progress /\ [Next]_vars => Progress'
<1> SUFFICES ASSUME TypeOK, Progress, [Next]_vars PROVE Progress'
  OBVIOUS
<1> /\ pc \in [Proc -> Running \cup {"idle"}]
    /\ req \in [Proc -> Request \cup {None}]
    /\ next \in [Proc -> Nat \ {0}] /\ made \in [Proc -> SUBSET Nat]
    /\ \A p \in Proc : pc[p] # "idle" => Len(Outputs[req[p]]) \in Nat
  BY PlanAssumption DEF TypeOK, LocalOK
<1> USE DEF Unstarted, Publishing
<1>1. CASE UNCHANGED vars
  BY <1>1 DEF vars, Progress
<1>2. ASSUME NEW p \in Proc, NEW r \in Request, OpenRefused(p, r) PROVE Progress'
  BY <1>2 DEF OpenRefused, Progress
<1>3. ASSUME NEW p \in Proc, NEW r \in Request, Open(p, r) PROVE Progress'
  BY <1>3 DEF Open, Goto, Progress
<1>4. ASSUME NEW p \in Proc, Busy(p) PROVE Progress'
  BY <1>4, ReturnProgress DEF Busy
<1>5. ASSUME NEW p \in Proc, Begin(p) PROVE Progress'
  BY <1>5 DEF Begin, Goto, Progress
<1>6. ASSUME NEW p \in Proc, Snapshot(p) PROVE Progress'
  BY <1>6, ReturnProgress DEF Snapshot, Reject, Goto, Progress
<1>7. ASSUME NEW p \in Proc, RecoveryConflict(p) PROVE Progress'
  BY <1>7, ReturnProgress DEF RecoveryConflict, Reject
<1>8. ASSUME NEW p \in Proc, ResumeCommitted(p) PROVE Progress'
  BY <1>8 DEF ResumeCommitted, Goto, Progress
<1>9. ASSUME NEW p \in Proc, ResumePartial(p) PROVE Progress'
  BY <1>9 DEF ResumePartial, Goto, Progress
<1>10. ASSUME NEW p \in Proc, TipMismatch(p) PROVE Progress'
  BY <1>10, ReturnProgress DEF TipMismatch, Reject
<1>11. ASSUME NEW p \in Proc, TargetExists(p) PROVE Progress'
  BY <1>11, ReturnProgress DEF TargetExists, Reject
<1>12. ASSUME NEW p \in Proc, StartIntent(p) PROVE Progress'
  <2>1. CASE Reject(p, "snapshot_changed")
    BY <2>1, ReturnProgress DEF Reject
  <2>2. CASE Goto(p, "intent_temp") /\ UNCHANGED local
    BY <1>12, <2>2 DEF StartIntent, Goto, Progress
  <2> QED
    BY <1>12, <2>1, <2>2 DEF StartIntent
<1>13. ASSUME NEW p \in Proc, LinkIntent(p) PROVE Progress'
  BY <1>13, LateProgress DEF LinkIntent, Abort, Goto, Progress
<1>14. ASSUME NEW p \in Proc, FinishIntent(p) PROVE Progress'
  <2>1. CASE Abort(p, "snapshot_changed", FALSE)
    BY <1>14, <2>1, LateProgress DEF FinishIntent, Abort
  <2>2. CASE Goto(p, "publish")
    BY <1>14, <2>2 DEF FinishIntent, Goto, Progress
  <2> QED
    BY <1>14, <2>1, <2>2 DEF FinishIntent
<1>15. ASSUME NEW p \in Proc, IntentLost(p) PROVE Progress'
  BY <1>15, LateProgress DEF IntentLost, Abort
<1>16. ASSUME NEW p \in Proc, StartOutput(p) PROVE Progress'
  <2> DEFINE n == Len(Outputs[req[p]])
  <2>1. /\ pc[p] = "publish" /\ next[p] <= n /\ n \in Nat
        /\ UNCHANGED <<req, made>>
    BY <1>16 DEF StartOutput, Planning
  <2>2. CASE Abort(p, "snapshot_changed", FALSE) /\ UNCHANGED next
    BY <2>1, <2>2, LateProgress DEF Abort
  <2>3. CASE next' = [next EXCEPT ![p] = @ + 1] /\ UNCHANGED pc
    BY <2>1, <2>3 DEF Progress
  <2>4. CASE Goto(p, "out_temp") /\ UNCHANGED next
    BY <2>1, <2>4 DEF Progress, Goto
  <2> QED
    BY <1>16, <2>2, <2>3, <2>4 DEF StartOutput
<1>17. ASSUME NEW p \in Proc, LinkOutput(p) PROVE Progress'
  BY <1>17, LateProgress DEF LinkOutput, Abort, Goto, Progress
<1>18. ASSUME NEW p \in Proc, FinishOutput(p) PROVE Progress'
  <2> DEFINE n == Len(Outputs[req[p]])
  <2>1. /\ pc[p] = "out_linked" /\ next[p] <= n /\ n \in Nat /\ UNCHANGED req
        /\ made' = [made EXCEPT ![p] = @ \cup {next[p]}]
        /\ next[p] \in 1..n /\ \A i \in made[p] : i < next[p]
    BY <1>18 DEF FinishOutput, Progress
  <2>2. CASE Goto(p, "publish") /\ next' = [next EXCEPT ![p] = @ + 1]
    BY <2>1, <2>2 DEF Progress, Goto
  <2>3. CASE Goto(p, "rollback") /\ UNCHANGED next
    BY <2>1, <2>3 DEF Progress, Goto
  <2> QED
    BY <1>18, <2>2, <2>3 DEF FinishOutput, Abort
<1>19. ASSUME NEW p \in Proc, Insert(p) PROVE Progress'
  BY <1>19 DEF Insert, Goto, Progress
<1>20. ASSUME NEW p \in Proc, Commit(p) PROVE Progress'
  BY <1>20, LateProgress DEF Commit
<1>21. ASSUME NEW p \in Proc, PostCheck(p) PROVE Progress'
  BY <1>21, ReturnProgress, LateProgress DEF PostCheck
<1>22. ASSUME NEW p \in Proc, RecoveredCheck(p) PROVE Progress'
  BY <1>22, ReturnProgress, LateProgress DEF RecoveredCheck
<1>23. ASSUME NEW p \in Proc, RemoveIntent(p) PROVE Progress'
  BY <1>23, ReturnProgress, LateProgress DEF RemoveIntent
<1>24. ASSUME NEW p \in Proc, FinalCheck(p) PROVE Progress'
  BY <1>24, ReturnProgress, LateProgress DEF FinalCheck
<1>25. ASSUME NEW p \in Proc, RestoreTemp(p) PROVE Progress'
  BY <1>25, LateProgress DEF RestoreTemp
<1>26. ASSUME NEW p \in Proc, RestoreLink(p) PROVE Progress'
  BY <1>26, ReturnProgress, LateProgress DEF RestoreLink
<1>27. ASSUME NEW p \in Proc, RestoreFinish(p) PROVE Progress'
  BY <1>27, ReturnProgress DEF RestoreFinish
<1>28. ASSUME NEW p \in Proc, SqlRollback(p) PROVE Progress'
  BY <1>28, LateProgress DEF SqlRollback
<1>29. ASSUME NEW p \in Proc, Undo(p) PROVE Progress'
  BY <1>29 DEF Undo, Progress
<1>30. ASSUME NEW p \in Proc, UndoIntent(p) PROVE Progress'
  BY <1>30, LateProgress DEF UndoIntent
<1>30a. ASSUME NEW p \in Proc, RemoveFresh(p) PROVE Progress'
  BY <1>30a, LateProgress DEF RemoveFresh
<1>31. ASSUME NEW p \in Proc, Verdict(p) PROVE Progress'
  BY <1>31, ReturnProgress DEF Verdict
<1>32. ASSUME NEW p \in Proc, FailIntent(p) PROVE Progress'
  BY <1>32, LateProgress DEF FailIntent, Abort
<1>33. ASSUME NEW p \in Proc, FailOutput(p) PROVE Progress'
  BY <1>33, LateProgress DEF FailOutput, Abort
<1>34. ASSUME NEW p \in Proc, FailInsert(p) PROVE Progress'
  BY <1>34, LateProgress DEF FailInsert, Abort
<1>35. ASSUME NEW p \in Proc, FailCommit(p) PROVE Progress'
  BY <1>35, ReturnProgress DEF FailCommit
<1>36. ASSUME NEW p \in Proc, FailRemoveIntent(p) PROVE Progress'
  BY <1>36, ReturnProgress, LateProgress DEF FailRemoveIntent
<1>37. ASSUME NEW p \in Proc, FailRestore(p) PROVE Progress'
  BY <1>37, ReturnProgress DEF FailRestore
<1>38. ASSUME NEW p \in Proc, FailUndo(p) PROVE Progress'
  BY <1>38 DEF FailUndo, Progress
<1>39. ASSUME NEW p \in Proc, FailUndoIntent(p) PROVE Progress'
  BY <1>39, LateProgress DEF FailUndoIntent
<1>40. ASSUME NEW p \in Proc, Crash(p) PROVE Progress'
  BY <1>40, ReturnProgress DEF Crash
<1>41. ASSUME NEW x \in Path, ForeignWrite(x) PROVE Progress'
  BY <1>41 DEF ForeignWrite, Progress
<1> QED
  BY
     <1>1, <1>2, <1>3, <1>4, <1>5, <1>6, <1>7, <1>8, <1>9, <1>10, <1>11,
     <1>12, <1>13, <1>14, <1>15, <1>16, <1>17, <1>18, <1>19, <1>20, <1>21,
     <1>22, <1>23, <1>24, <1>25, <1>26, <1>27, <1>28, <1>29, <1>30, <1>30a, <1>31,
     <1>32, <1>33, <1>34, <1>35, <1>36, <1>37, <1>38, <1>39, <1>40, <1>41
  DEF Next, Call, Step, Fault

\* A call touches no other call's locals.
LEMMA OthersKeep ==
  ASSUME TypeOK, NEW p \in Proc, NEW q \in Proc, p # q,
         Call(p) \/ Step(p) \/ Fault(p) \/ Crash(p)
  PROVE  /\ pc'[q] = pc[q] /\ req'[q] = req[q] /\ init'[q] = init[q]
         /\ next'[q] = next[q] /\ made'[q] = made[q]
         /\ origin'[q] = origin[q] /\ res'[q] = res[q]
<1> DEFINE Keep == /\ pc'[q] = pc[q] /\ req'[q] = req[q] /\ init'[q] = init[q]
                   /\ next'[q] = next[q] /\ made'[q] = made[q]
                   /\ origin'[q] = origin[q] /\ res'[q] = res[q]
<1> /\ pc \in [Proc -> Running \cup {"idle"}] /\ req \in [Proc -> Request \cup {None}]
    /\ init \in [Proc -> Trees] /\ origin \in [Proc -> {"Absent", "Fresh", "Recovery"}]
    /\ next \in [Proc -> Nat \ {0}] /\ made \in [Proc -> SUBSET Nat]
    /\ res \in [Proc -> [code : Codes, mutated : BOOLEAN]]
  BY DEF TypeOK, LocalOK
<1>1. ASSUME NEW r \in Request, OpenRefused(p, r) PROVE Keep
  BY <1>1 DEF OpenRefused
<1>2. ASSUME NEW r \in Request, Open(p, r) PROVE Keep
  BY <1>2 DEF Open, Goto
<1>3. ASSUME Busy(p) PROVE Keep
  BY <1>3 DEF Busy, Return, Goto
<1>4. ASSUME Begin(p) PROVE Keep
  BY <1>4 DEF Begin, Goto
<1>5. ASSUME Snapshot(p) PROVE Keep
  BY <1>5 DEF Snapshot, Reject, Return, Goto
<1>6. ASSUME RecoveryConflict(p) PROVE Keep
  BY <1>6 DEF RecoveryConflict, Reject, Return, Goto
<1>7. ASSUME ResumeCommitted(p) PROVE Keep
  BY <1>7 DEF ResumeCommitted, Goto
<1>8. ASSUME ResumePartial(p) PROVE Keep
  BY <1>8 DEF ResumePartial, Goto
<1>9. ASSUME TipMismatch(p) PROVE Keep
  BY <1>9 DEF TipMismatch, Reject, Return, Goto
<1>10. ASSUME TargetExists(p) PROVE Keep
  BY <1>10 DEF TargetExists, Reject, Return, Goto
<1>11. ASSUME StartIntent(p) PROVE Keep
  BY <1>11 DEF StartIntent, Reject, Return, Goto
<1>12. ASSUME LinkIntent(p) PROVE Keep
  BY <1>12 DEF LinkIntent, Abort, Goto
<1>13. ASSUME FinishIntent(p) PROVE Keep
  BY <1>13 DEF FinishIntent, Abort, Goto
<1>14. ASSUME IntentLost(p) PROVE Keep
  BY <1>14 DEF IntentLost, Abort, Goto
<1>15. ASSUME StartOutput(p) PROVE Keep
  BY <1>15 DEF StartOutput, Abort, Goto, Planning
<1>16. ASSUME LinkOutput(p) PROVE Keep
  BY <1>16 DEF LinkOutput, Abort, Goto
<1>17. ASSUME FinishOutput(p) PROVE Keep
  BY <1>17 DEF FinishOutput, Abort, Goto
<1>18. ASSUME Insert(p) PROVE Keep
  BY <1>18 DEF Insert, Goto
<1>19. ASSUME Commit(p) PROVE Keep
  BY <1>19 DEF Commit, Goto
<1>20. ASSUME PostCheck(p) PROVE Keep
  BY <1>20 DEF PostCheck, Return, Goto
<1>21. ASSUME RecoveredCheck(p) PROVE Keep
  BY <1>21 DEF RecoveredCheck, Return, Goto
<1>22. ASSUME RemoveIntent(p) PROVE Keep
  BY <1>22 DEF RemoveIntent, Return, Goto
<1>23. ASSUME FinalCheck(p) PROVE Keep
  BY <1>23 DEF FinalCheck, Return, Goto
<1>24. ASSUME RestoreTemp(p) PROVE Keep
  BY <1>24 DEF RestoreTemp, Goto
<1>25. ASSUME RestoreLink(p) PROVE Keep
  BY <1>25 DEF RestoreLink, Return, Goto
<1>26. ASSUME RestoreFinish(p) PROVE Keep
  BY <1>26 DEF RestoreFinish, Return, Goto
<1>27. ASSUME SqlRollback(p) PROVE Keep
  BY <1>27 DEF SqlRollback, Goto
<1>28. ASSUME Undo(p) PROVE Keep
  BY <1>28 DEF Undo
<1>29. ASSUME UndoIntent(p) PROVE Keep
  BY <1>29 DEF UndoIntent, Goto
<1>29a. ASSUME RemoveFresh(p) PROVE Keep
  BY <1>29a DEF RemoveFresh, Goto
<1>30. ASSUME Verdict(p) PROVE Keep
  BY <1>30 DEF Verdict, Return, Goto
<1>31. ASSUME FailIntent(p) PROVE Keep
  BY <1>31 DEF FailIntent, Abort, Goto
<1>32. ASSUME FailOutput(p) PROVE Keep
  BY <1>32 DEF FailOutput, Abort, Goto
<1>33. ASSUME FailInsert(p) PROVE Keep
  BY <1>33 DEF FailInsert, Abort, Goto
<1>34. ASSUME FailCommit(p) PROVE Keep
  BY <1>34 DEF FailCommit, Return, Goto
<1>35. ASSUME FailRemoveIntent(p) PROVE Keep
  BY <1>35 DEF FailRemoveIntent, Return, Goto
<1>36. ASSUME FailRestore(p) PROVE Keep
  BY <1>36 DEF FailRestore, Return, Goto
<1>37. ASSUME FailUndo(p) PROVE Keep
  BY <1>37 DEF FailUndo
<1>38. ASSUME FailUndoIntent(p) PROVE Keep
  BY <1>38 DEF FailUndoIntent, Goto
<1>39. ASSUME Crash(p) PROVE Keep
  BY <1>39 DEF Crash, Return, Goto
<1> QED
  BY
     <1>1, <1>2, <1>3, <1>4, <1>5, <1>6, <1>7, <1>8, <1>9, <1>10, <1>11,
     <1>12, <1>13, <1>14, <1>15, <1>16, <1>17, <1>18, <1>19, <1>20, <1>21,
     <1>22, <1>23, <1>24, <1>25, <1>26, <1>27, <1>28, <1>29, <1>29a, <1>30, <1>31,
     <1>32, <1>33, <1>34, <1>35, <1>36, <1>37, <1>38, <1>39
  DEF Call, Step, Fault

\* How a call comes where it may still take its files back.
LEMMA RevocableStep ==
  ASSUME TypeOK, [Next]_vars, NEW q \in Proc, pc'[q] \in Revocable
  PROVE  /\ req'[q] = req[q] /\ req[q] \in Request
         /\ \/ pc[q] \in Revocable
            \/ pc[q] = "snapped" /\ Tip(ledger) = ExpectedTip[req[q]]
<1> DEFINE Goal == /\ req'[q] = req[q] /\ req[q] \in Request
                   /\ \/ pc[q] \in Revocable
                      \/ pc[q] = "snapped" /\ Tip(ledger) = ExpectedTip[req[q]]
<1> /\ pc \in [Proc -> Running \cup {"idle"}] /\ req \in [Proc -> Request \cup {None}]
    /\ \A p \in Proc : pc[p] # "idle" => req[p] \in Request
  BY DEF TypeOK, LocalOK
<1> USE DEF Revocable, TipHeld
<1>1. CASE UNCHANGED vars
  BY <1>1 DEF vars
<1>2. ASSUME NEW p \in Proc, NEW r \in Request, OpenRefused(p, r) PROVE Goal
  BY <1>2 DEF OpenRefused
<1>3. ASSUME NEW p \in Proc, NEW r \in Request, Open(p, r) PROVE Goal
  BY <1>3 DEF Open, Goto
<1>4. ASSUME NEW p \in Proc, Busy(p) PROVE Goal
  BY <1>4 DEF Busy, Return, Goto
<1>5. ASSUME NEW p \in Proc, Begin(p) PROVE Goal
  BY <1>5 DEF Begin, Goto
<1>6. ASSUME NEW p \in Proc, Snapshot(p) PROVE Goal
  BY <1>6 DEF Snapshot, Reject, Return, Goto
<1>7. ASSUME NEW p \in Proc, RecoveryConflict(p) PROVE Goal
  BY <1>7 DEF RecoveryConflict, Reject, Return, Goto
<1>8. ASSUME NEW p \in Proc, ResumeCommitted(p) PROVE Goal
  BY <1>8 DEF ResumeCommitted, Goto
<1>9. ASSUME NEW p \in Proc, ResumePartial(p) PROVE Goal
  BY <1>9 DEF ResumePartial, Goto
<1>10. ASSUME NEW p \in Proc, TipMismatch(p) PROVE Goal
  BY <1>10 DEF TipMismatch, Reject, Return, Goto
<1>11. ASSUME NEW p \in Proc, TargetExists(p) PROVE Goal
  BY <1>11 DEF TargetExists, Reject, Return, Goto
<1>12. ASSUME NEW p \in Proc, StartIntent(p) PROVE Goal
  BY <1>12 DEF StartIntent, Reject, Return, Goto
<1>13. ASSUME NEW p \in Proc, LinkIntent(p) PROVE Goal
  BY <1>13 DEF LinkIntent, Abort, Goto
<1>14. ASSUME NEW p \in Proc, FinishIntent(p) PROVE Goal
  BY <1>14 DEF FinishIntent, Abort, Goto
<1>15. ASSUME NEW p \in Proc, IntentLost(p) PROVE Goal
  BY <1>15 DEF IntentLost, Abort, Goto
<1>16. ASSUME NEW p \in Proc, StartOutput(p) PROVE Goal
  BY <1>16 DEF StartOutput, Abort, Goto, Planning
<1>17. ASSUME NEW p \in Proc, LinkOutput(p) PROVE Goal
  BY <1>17 DEF LinkOutput, Abort, Goto
<1>18. ASSUME NEW p \in Proc, FinishOutput(p) PROVE Goal
  BY <1>18 DEF FinishOutput, Abort, Goto
<1>19. ASSUME NEW p \in Proc, Insert(p) PROVE Goal
  BY <1>19 DEF Insert, Goto
<1>20. ASSUME NEW p \in Proc, Commit(p) PROVE Goal
  BY <1>20 DEF Commit, Goto
<1>21. ASSUME NEW p \in Proc, PostCheck(p) PROVE Goal
  BY <1>21 DEF PostCheck, Return, Goto
<1>22. ASSUME NEW p \in Proc, RecoveredCheck(p) PROVE Goal
  BY <1>22 DEF RecoveredCheck, Return, Goto
<1>23. ASSUME NEW p \in Proc, RemoveIntent(p) PROVE Goal
  BY <1>23 DEF RemoveIntent, Return, Goto
<1>24. ASSUME NEW p \in Proc, FinalCheck(p) PROVE Goal
  BY <1>24 DEF FinalCheck, Return, Goto
<1>25. ASSUME NEW p \in Proc, RestoreTemp(p) PROVE Goal
  BY <1>25 DEF RestoreTemp, Goto
<1>26. ASSUME NEW p \in Proc, RestoreLink(p) PROVE Goal
  BY <1>26 DEF RestoreLink, Return, Goto
<1>27. ASSUME NEW p \in Proc, RestoreFinish(p) PROVE Goal
  BY <1>27 DEF RestoreFinish, Return, Goto
<1>28. ASSUME NEW p \in Proc, SqlRollback(p) PROVE Goal
  BY <1>28 DEF SqlRollback, Goto
<1>29. ASSUME NEW p \in Proc, Undo(p) PROVE Goal
  BY <1>29 DEF Undo
<1>30. ASSUME NEW p \in Proc, UndoIntent(p) PROVE Goal
  BY <1>30 DEF UndoIntent, Goto
<1>30a. ASSUME NEW p \in Proc, RemoveFresh(p) PROVE Goal
  BY <1>30a DEF RemoveFresh, Goto
<1>31. ASSUME NEW p \in Proc, Verdict(p) PROVE Goal
  BY <1>31 DEF Verdict, Return, Goto
<1>32. ASSUME NEW p \in Proc, FailIntent(p) PROVE Goal
  BY <1>32 DEF FailIntent, Abort, Goto
<1>33. ASSUME NEW p \in Proc, FailOutput(p) PROVE Goal
  BY <1>33 DEF FailOutput, Abort, Goto
<1>34. ASSUME NEW p \in Proc, FailInsert(p) PROVE Goal
  BY <1>34 DEF FailInsert, Abort, Goto
<1>35. ASSUME NEW p \in Proc, FailCommit(p) PROVE Goal
  BY <1>35 DEF FailCommit, Return, Goto
<1>36. ASSUME NEW p \in Proc, FailRemoveIntent(p) PROVE Goal
  BY <1>36 DEF FailRemoveIntent, Return, Goto
<1>37. ASSUME NEW p \in Proc, FailRestore(p) PROVE Goal
  BY <1>37 DEF FailRestore, Return, Goto
<1>38. ASSUME NEW p \in Proc, FailUndo(p) PROVE Goal
  BY <1>38 DEF FailUndo
<1>39. ASSUME NEW p \in Proc, FailUndoIntent(p) PROVE Goal
  BY <1>39 DEF FailUndoIntent, Goto
<1>40. ASSUME NEW p \in Proc, Crash(p) PROVE Goal
  BY <1>40 DEF Crash, Return, Goto
<1>41. ASSUME NEW x \in Path, ForeignWrite(x) PROVE Goal
  BY <1>41 DEF ForeignWrite
<1> QED
  BY
     <1>1, <1>2, <1>3, <1>4, <1>5, <1>6, <1>7, <1>8, <1>9, <1>10, <1>11,
     <1>12, <1>13, <1>14, <1>15, <1>16, <1>17, <1>18, <1>19, <1>20, <1>21,
     <1>22, <1>23, <1>24, <1>25, <1>26, <1>27, <1>28, <1>29, <1>30, <1>30a, <1>31,
     <1>32, <1>33, <1>34, <1>35, <1>36, <1>37, <1>38, <1>39, <1>40, <1>41
  DEF Next, Call, Step, Fault

\* The committed requests are those before and the appended one.
LEMMA AppendCommitted ==
  ASSUME TypeOK, NEW r \in Request, ledger' = Append(ledger, r)
  PROVE  Committed' = Committed \cup {r}
<1> ledger \in Seq(Request)
  BY DEF TypeOK, SharedOK
<1>1. /\ Len(ledger') = Len(ledger) + 1 /\ ledger'[Len(ledger) + 1] = r
      /\ \A i \in 1..Len(ledger) : ledger'[i] = ledger[i]
  OBVIOUS
<1> QED
  BY <1>1 DEF Committed

\* A call that may still take its files back has no row in the ledger.
LEMMA NotCommittedStep ==
  TypeOK /\ LedgerInv /\ Unique /\ NotCommitted /\ [Next]_vars => NotCommitted'
<1> SUFFICES ASSUME TypeOK, LedgerInv, Unique, NotCommitted, [Next]_vars,
                    NEW q \in Proc, pc'[q] \in Revocable
             PROVE  req'[q] \notin Committed'
  BY DEF NotCommitted
<1>1. req'[q] = req[q] /\ req[q] \in Request /\ pc[q] # "idle"
  BY RevocableStep DEF Revocable, TipHeld
<1>2. req[q] \notin Committed
  BY RevocableStep, FreshRow DEF NotCommitted, LedgerInv
<1>3. CASE UNCHANGED ledger
  BY <1>1, <1>2, <1>3 DEF Committed
<1>4. ASSUME NEW p \in Proc, pc[p] = "inserted", ledger' = Append(ledger, req[p]),
             Commit(p) \/ FailCommit(p)
      PROVE  req'[q] \notin Committed'
  <2>1. p # q
    BY <1>4 DEF Commit, FailCommit, Return, Goto, Revocable, TipHeld, TypeOK, LocalOK
  <2>2. req[p] \in Request /\ req[p] # req[q]
    BY <1>1, <1>4, <2>1 DEF Unique, TypeOK, LocalOK
  <2>3. Committed' = Committed \cup {req[p]}
    BY <1>4, <2>2, AppendCommitted
  <2> QED
    BY <1>1, <1>2, <2>2, <2>3
<1> QED
  BY <1>3, <1>4, LedgerMoves

\* The paths of a plan are paths.
LEMMA PlanPaths ==
  ASSUME NEW r \in Request
  PROVE  /\ Len(Outputs[r]) \in Nat
         /\ \A i \in 1..Len(Outputs[r]) : Outputs[r][i] \in Path /\ Outputs[r][i] \in Planned(r)
         /\ \A x \in Planned(r) : x \in Path
         /\ \A i, j \in 1..Len(Outputs[r]) : Outputs[r][i] = Outputs[r][j] => i = j
BY PlanAssumption DEF Planned

\* What a step may do to a file: another program creates it, a call links it, or
\* the call that published it takes it back.
LEMMA FileChange ==
  ASSUME TypeOK, Progress, Owned, [Next]_vars, NEW x \in Path
  PROVE  \/ files'[x] = files[x]
         \/ files[x] = None /\ files'[x] = Foreign
         \/ \E p \in Proc : /\ pc[p] = "out_temp" /\ x = Target(p)
                            /\ files[x] = None /\ files'[x] = req[p]
         \/ \E p \in Proc : /\ pc[p] \in {"out_linked", "undo"}
                            /\ files[x] = req[p] /\ files'[x] = None
                            /\ pc'[p] # pc[p] \/ made'[p] # made[p]
<1> DEFINE Goal ==
      \/ files'[x] = files[x]
      \/ files[x] = None /\ files'[x] = Foreign
      \/ \E p \in Proc : /\ pc[p] = "out_temp" /\ x = Target(p)
                         /\ files[x] = None /\ files'[x] = req[p]
      \/ \E p \in Proc : /\ pc[p] \in {"out_linked", "undo"}
                         /\ files[x] = req[p] /\ files'[x] = None
                         /\ pc'[p] # pc[p] \/ made'[p] # made[p]
<1> /\ pc \in [Proc -> Running \cup {"idle"}] /\ made \in [Proc -> SUBSET Nat]
    /\ files \in [Path -> Bytes]
  BY DEF TypeOK, SharedOK, LocalOK
<1>1. CASE UNCHANGED vars
  BY <1>1 DEF vars
<1>2. ASSUME NEW p \in Proc, NEW r \in Request, OpenRefused(p, r) PROVE Goal
  BY <1>2 DEF OpenRefused
<1>3. ASSUME NEW p \in Proc, NEW r \in Request, Open(p, r) PROVE Goal
  BY <1>3 DEF Open
<1>4. ASSUME NEW p \in Proc, Busy(p) PROVE Goal
  BY <1>4 DEF Busy
<1>5. ASSUME NEW p \in Proc, Begin(p) PROVE Goal
  BY <1>5 DEF Begin
<1>6. ASSUME NEW p \in Proc, Snapshot(p) PROVE Goal
  BY <1>6 DEF Snapshot, Reject
<1>7. ASSUME NEW p \in Proc, RecoveryConflict(p) PROVE Goal
  BY <1>7 DEF RecoveryConflict, Reject
<1>8. ASSUME NEW p \in Proc, ResumeCommitted(p) PROVE Goal
  BY <1>8 DEF ResumeCommitted
<1>9. ASSUME NEW p \in Proc, ResumePartial(p) PROVE Goal
  BY <1>9 DEF ResumePartial
<1>10. ASSUME NEW p \in Proc, TipMismatch(p) PROVE Goal
  BY <1>10 DEF TipMismatch, Reject
<1>11. ASSUME NEW p \in Proc, TargetExists(p) PROVE Goal
  BY <1>11 DEF TargetExists, Reject
<1>12. ASSUME NEW p \in Proc, StartIntent(p) PROVE Goal
  BY <1>12 DEF StartIntent, Reject
<1>13. ASSUME NEW p \in Proc, LinkIntent(p) PROVE Goal
  BY <1>13 DEF LinkIntent
<1>14. ASSUME NEW p \in Proc, FinishIntent(p) PROVE Goal
  BY <1>14 DEF FinishIntent
<1>15. ASSUME NEW p \in Proc, IntentLost(p) PROVE Goal
  BY <1>15 DEF IntentLost
<1>16. ASSUME NEW p \in Proc, StartOutput(p) PROVE Goal
  BY <1>16 DEF StartOutput
<1>17. ASSUME NEW p \in Proc, LinkOutput(p) PROVE Goal
  BY <1>17 DEF LinkOutput
<1>18. ASSUME NEW p \in Proc, FinishOutput(p) PROVE Goal
  BY <1>18 DEF FinishOutput
<1>19. ASSUME NEW p \in Proc, Insert(p) PROVE Goal
  BY <1>19 DEF Insert
<1>20. ASSUME NEW p \in Proc, Commit(p) PROVE Goal
  BY <1>20 DEF Commit
<1>21. ASSUME NEW p \in Proc, PostCheck(p) PROVE Goal
  BY <1>21 DEF PostCheck
<1>22. ASSUME NEW p \in Proc, RecoveredCheck(p) PROVE Goal
  BY <1>22 DEF RecoveredCheck
<1>23. ASSUME NEW p \in Proc, RemoveIntent(p) PROVE Goal
  BY <1>23 DEF RemoveIntent
<1>24. ASSUME NEW p \in Proc, FinalCheck(p) PROVE Goal
  BY <1>24 DEF FinalCheck
<1>25. ASSUME NEW p \in Proc, RestoreTemp(p) PROVE Goal
  BY <1>25 DEF RestoreTemp
<1>26. ASSUME NEW p \in Proc, RestoreLink(p) PROVE Goal
  BY <1>26 DEF RestoreLink
<1>27. ASSUME NEW p \in Proc, RestoreFinish(p) PROVE Goal
  BY <1>27 DEF RestoreFinish
<1>28. ASSUME NEW p \in Proc, SqlRollback(p) PROVE Goal
  BY <1>28 DEF SqlRollback
<1>29. ASSUME NEW p \in Proc, Undo(p) PROVE Goal
  BY <1>29 DEF Undo, Owned, OwnedBy, Revocable
<1>30. ASSUME NEW p \in Proc, UndoIntent(p) PROVE Goal
  BY <1>30 DEF UndoIntent
<1>30a. ASSUME NEW p \in Proc, RemoveFresh(p) PROVE Goal
  BY <1>30a DEF RemoveFresh
<1>31. ASSUME NEW p \in Proc, Verdict(p) PROVE Goal
  BY <1>31 DEF Verdict
<1>32. ASSUME NEW p \in Proc, FailIntent(p) PROVE Goal
  BY <1>32 DEF FailIntent
<1>33. ASSUME NEW p \in Proc, FailOutput(p) PROVE Goal
  BY <1>33 DEF FailOutput, Owned, OwnedBy, Abort, Goto
<1>34. ASSUME NEW p \in Proc, FailInsert(p) PROVE Goal
  BY <1>34 DEF FailInsert
<1>35. ASSUME NEW p \in Proc, FailCommit(p) PROVE Goal
  BY <1>35 DEF FailCommit
<1>36. ASSUME NEW p \in Proc, FailRemoveIntent(p) PROVE Goal
  BY <1>36 DEF FailRemoveIntent
<1>37. ASSUME NEW p \in Proc, FailRestore(p) PROVE Goal
  BY <1>37 DEF FailRestore
<1>38. ASSUME NEW p \in Proc, FailUndo(p) PROVE Goal
  BY <1>38 DEF FailUndo
<1>39. ASSUME NEW p \in Proc, FailUndoIntent(p) PROVE Goal
  BY <1>39 DEF FailUndoIntent
<1>40. ASSUME NEW p \in Proc, Crash(p) PROVE Goal
  BY <1>40 DEF Crash
<1>41. ASSUME NEW y \in Path, ForeignWrite(y) PROVE Goal
  BY <1>41 DEF ForeignWrite
<1> QED
  BY
     <1>1, <1>2, <1>3, <1>4, <1>5, <1>6, <1>7, <1>8, <1>9, <1>10, <1>11,
     <1>12, <1>13, <1>14, <1>15, <1>16, <1>17, <1>18, <1>19, <1>20, <1>21,
     <1>22, <1>23, <1>24, <1>25, <1>26, <1>27, <1>28, <1>29, <1>30, <1>30a, <1>31,
     <1>32, <1>33, <1>34, <1>35, <1>36, <1>37, <1>38, <1>39, <1>40, <1>41
  DEF Next, Call, Step, Fault

\* A recovery keeps a file it finds only when the file has the planned bytes.
LEMMA FoundExact ==
  ASSUME TypeOK, Progress, NEW p \in Proc, KnownBy(p), Planning(p),
         Tree = ExpectedTree(p, made[p]), files[Target(p)] # None
  PROVE  files[Target(p)] = req[p]
<1>1. /\ req[p] \in Request /\ next[p] \in 1..Len(Outputs[req[p]])
      /\ Target(p) \in Path /\ Target(p) \in Planned(req[p])
  BY PlanPaths DEF Planning, Target, TypeOK, LocalOK
<1>2. files = ExpectedFiles(p, made[p])
  <2>1. Tree.files = files /\ init[p] \in Trees
    BY DEF Tree, TypeOK, LocalOK
  <2>2. ExpectedTree(p, made[p]).files = ExpectedFiles(p, made[p])
    BY <2>1 DEF ExpectedTree, Trees
  <2> QED
    BY <2>1, <2>2
<1>3. files[Target(p)] \in {req[p], init[p].files[Target(p)]}
  BY <1>1, <1>2 DEF ExpectedFiles
<1>4. /\ init[p].files[Target(p)] # Foreign
      /\ files[Target(p)] \in {None, Foreign, req[p]}
  BY <1>1 DEF KnownBy, TipHeld, Planning
<1> QED
  BY <1>3, <1>4

\* A step of a call keeps what it owns itself.
LEMMA OwnedBySelf ==
  ASSUME TypeOK, Progress, NEW p \in Proc, OwnedBy(p), KnownBy(p),
         Call(p) \/ Step(p) \/ Fault(p) \/ Crash(p)
  PROVE  OwnedBy(p)'
<1> /\ pc \in [Proc -> Running \cup {"idle"}] /\ req \in [Proc -> Request \cup {None}]
    /\ files \in [Path -> Bytes]
    /\ next \in [Proc -> Nat \ {0}] /\ made \in [Proc -> SUBSET Nat]
    /\ pc[p] # "idle" => req[p] \in Request
  BY DEF TypeOK, SharedOK, LocalOK
<1>0. CASE pc'[p] \notin Revocable
  BY <1>0 DEF OwnedBy, Revocable, TipHeld, Publishing
<1> SUFFICES ASSUME pc'[p] \in Revocable PROVE OwnedBy(p)'
  BY <1>0
<1> USE DEF Revocable, TipHeld
<1>1. ASSUME NEW r \in Request, OpenRefused(p, r) PROVE OwnedBy(p)'
  BY <1>1 DEF OpenRefused
<1>2. ASSUME NEW r \in Request, Open(p, r) PROVE OwnedBy(p)'
  BY <1>2 DEF Open, Goto
<1>3. ASSUME Busy(p) PROVE OwnedBy(p)'
  BY <1>3 DEF Busy, Return, Goto
<1>4. ASSUME Begin(p) PROVE OwnedBy(p)'
  BY <1>4 DEF Begin, Goto
<1>5. ASSUME Snapshot(p) PROVE OwnedBy(p)'
  BY <1>5 DEF Snapshot, Reject, Return, Goto
<1>6. ASSUME RecoveryConflict(p) PROVE OwnedBy(p)'
  BY <1>6 DEF RecoveryConflict, Reject, Return, Goto
<1>7. ASSUME ResumeCommitted(p) PROVE OwnedBy(p)'
  BY <1>7 DEF ResumeCommitted, Goto
<1>8. ASSUME ResumePartial(p) PROVE OwnedBy(p)'
  BY <1>8 DEF ResumePartial, Goto, OwnedBy, Progress, Unstarted, Publishing, Target
<1>9. ASSUME TipMismatch(p) PROVE OwnedBy(p)'
  BY <1>9 DEF TipMismatch, Reject, Return, Goto
<1>10. ASSUME TargetExists(p) PROVE OwnedBy(p)'
  BY <1>10 DEF TargetExists, Reject, Return, Goto
<1>11. ASSUME StartIntent(p) PROVE OwnedBy(p)'
  BY <1>11 DEF StartIntent, Reject, Return, Goto, OwnedBy, Progress, Unstarted, Publishing, Target
<1>12. ASSUME LinkIntent(p) PROVE OwnedBy(p)'
  BY <1>12 DEF LinkIntent, Abort, Goto, OwnedBy, Progress, Unstarted, Publishing, Target
<1>13. ASSUME FinishIntent(p) PROVE OwnedBy(p)'
  <2>1. next'[p] = 1 /\ made'[p] = {}
    BY <1>13 DEF FinishIntent, Progress, Unstarted
  <2>2. pc'[p] # "out_linked"
    BY <1>13 DEF FinishIntent, Abort, Goto
  <2> QED
    BY <2>1, <2>2 DEF OwnedBy
<1>14. ASSUME IntentLost(p) PROVE OwnedBy(p)'
  BY <1>14 DEF IntentLost, Abort, Goto, OwnedBy, Progress, Unstarted, Publishing, Target
<1>15. ASSUME StartOutput(p) PROVE OwnedBy(p)'
  <2>1. /\ Planning(p) /\ UNCHANGED <<req, made, files>>
        /\ \/ pc'[p] = "rollback"
           \/ /\ next' = [next EXCEPT ![p] = @ + 1] /\ UNCHANGED pc
              /\ Tree = ExpectedTree(p, made[p]) /\ files[Target(p)] # None
           \/ pc'[p] = "out_temp" /\ UNCHANGED next
    BY <1>15 DEF StartOutput, Abort, Goto
  <2>2. CASE UNCHANGED next
    BY <2>1, <2>2 DEF OwnedBy, Planning, Publishing
  <2>3. CASE /\ next' = [next EXCEPT ![p] = @ + 1] /\ UNCHANGED pc
             /\ Tree = ExpectedTree(p, made[p]) /\ files[Target(p)] # None
    <3>1. files[Target(p)] = req[p]
      BY <2>1, <2>3, FoundExact
    <3> QED
      BY <2>1, <2>3, <3>1 DEF OwnedBy, Planning, Publishing, Target
  <2>4. CASE pc'[p] = "rollback"
    BY <2>1, <2>4 DEF OwnedBy, Planning, Publishing
  <2> QED
    BY <2>1, <2>2, <2>3, <2>4
<1>16. ASSUME LinkOutput(p) PROVE OwnedBy(p)'
  <2>1. /\ pc[p] = "out_temp" /\ UNCHANGED <<req, made, next>>
        /\ \/ pc'[p] = "rollback" /\ UNCHANGED files
           \/ /\ pc'[p] = "out_linked" /\ files[Target(p)] = None
              /\ files' = [files EXCEPT ![Target(p)] = req[p]]
    BY <1>16 DEF LinkOutput, Abort, Goto
  <2>2. Target(p) \in Path
    BY <2>1, PlanPaths DEF Progress, Target
  <2>3. req[p] # None
    BY <2>1, SentinelAssumption
  <2>4. \A i \in made[p] : i \in 1..Len(Outputs[req[p]])
    BY DEF Progress
  <2> QED
    BY <2>1, <2>2, <2>3, <2>4, PlanPaths DEF OwnedBy, Publishing, Target
<1>17. ASSUME FinishOutput(p) PROVE OwnedBy(p)'
  <2>1. /\ pc[p] = "out_linked" /\ UNCHANGED <<req, files>>
        /\ made' = [made EXCEPT ![p] = @ \cup {next[p]}]
        /\ \/ pc'[p] = "rollback" /\ UNCHANGED next
           \/ pc'[p] = "publish" /\ next' = [next EXCEPT ![p] = @ + 1]
    BY <1>17 DEF FinishOutput, Abort, Goto
  <2>2. files[Outputs[req[p]][next[p]]] = req[p]
    BY <2>1 DEF OwnedBy, Target
  <2>3. /\ \A i \in made'[p] : files'[Outputs[req'[p]][i]] = req'[p]
        /\ \A i \in 1..Len(Outputs[req[p]]) :
             i < next[p] + 1 => files[Outputs[req[p]][i]] = req[p]
    BY <2>1, <2>2 DEF OwnedBy, Publishing
  <2> QED
    BY <2>1, <2>3 DEF OwnedBy, Publishing
<1>18. ASSUME Insert(p) PROVE OwnedBy(p)'
  BY <1>18 DEF Insert, Goto, OwnedBy, Progress, Unstarted, Publishing, Target
<1>19. ASSUME Commit(p) PROVE OwnedBy(p)'
  BY <1>19 DEF Commit, Goto
<1>20. ASSUME PostCheck(p) PROVE OwnedBy(p)'
  BY <1>20 DEF PostCheck, Return, Goto
<1>21. ASSUME RecoveredCheck(p) PROVE OwnedBy(p)'
  BY <1>21 DEF RecoveredCheck, Return, Goto
<1>22. ASSUME RemoveIntent(p) PROVE OwnedBy(p)'
  BY <1>22 DEF RemoveIntent, Return, Goto
<1>23. ASSUME FinalCheck(p) PROVE OwnedBy(p)'
  BY <1>23 DEF FinalCheck, Return, Goto
<1>24. ASSUME RestoreTemp(p) PROVE OwnedBy(p)'
  BY <1>24 DEF RestoreTemp, Goto
<1>25. ASSUME RestoreLink(p) PROVE OwnedBy(p)'
  BY <1>25 DEF RestoreLink, Return, Goto
<1>26. ASSUME RestoreFinish(p) PROVE OwnedBy(p)'
  BY <1>26 DEF RestoreFinish, Return, Goto
<1>27. ASSUME SqlRollback(p) PROVE OwnedBy(p)'
  BY <1>27 DEF SqlRollback, Goto, OwnedBy, Progress, Unstarted, Publishing, Target
<1>28. ASSUME Undo(p) PROVE OwnedBy(p)'
  BY <1>28, PlanPaths DEF Undo, OwnedBy, Progress, Unstarted, Publishing, Target
<1>29. ASSUME UndoIntent(p) PROVE OwnedBy(p)'
  BY <1>29 DEF UndoIntent, Goto, OwnedBy, Progress, Unstarted, Publishing, Target
<1>29a. ASSUME RemoveFresh(p) PROVE OwnedBy(p)'
  BY <1>29a DEF RemoveFresh, Goto, OwnedBy, Progress, Unstarted, Publishing, Target
<1>30. ASSUME Verdict(p) PROVE OwnedBy(p)'
  BY <1>30 DEF Verdict, Return, Goto
<1>31. ASSUME FailIntent(p) PROVE OwnedBy(p)'
  BY <1>31 DEF FailIntent, Abort, Goto, OwnedBy, Progress, Unstarted, Publishing, Target
<1>32. ASSUME FailOutput(p) PROVE OwnedBy(p)'
  <2>1. /\ pc[p] \in {"out_temp", "out_linked"} /\ UNCHANGED <<req, made, next>>
        /\ pc'[p] = "rollback"
        /\ files' = files \/ files' = [files EXCEPT ![Target(p)] = None]
    BY <1>32 DEF FailOutput, Abort, Goto
  <2>2. next[p] \in 1..Len(Outputs[req[p]])
    BY <2>1, PlanPaths DEF Progress
  <2>3. \A i \in made[p] : i \in 1..Len(Outputs[req[p]]) /\ i # next[p]
    BY <2>1 DEF Progress, Publishing
  <2>4. \A i \in made[p] : Outputs[req[p]][i] \in Path /\ Outputs[req[p]][i] # Target(p)
    BY <2>1, <2>2, <2>3, PlanPaths DEF Target
  <2> QED
    BY <2>1, <2>4 DEF OwnedBy, Publishing
<1>33. ASSUME FailInsert(p) PROVE OwnedBy(p)'
  BY <1>33 DEF FailInsert, Abort, Goto, OwnedBy, Progress, Unstarted, Publishing, Target
<1>34. ASSUME FailCommit(p) PROVE OwnedBy(p)'
  BY <1>34 DEF FailCommit, Return, Goto
<1>35. ASSUME FailRemoveIntent(p) PROVE OwnedBy(p)'
  BY <1>35 DEF FailRemoveIntent, Return, Goto
<1>36. ASSUME FailRestore(p) PROVE OwnedBy(p)'
  BY <1>36 DEF FailRestore, Return, Goto
<1>37. ASSUME FailUndo(p) PROVE OwnedBy(p)'
  BY <1>37 DEF FailUndo, OwnedBy, Progress, Unstarted, Publishing, Target
<1>38. ASSUME FailUndoIntent(p) PROVE OwnedBy(p)'
  BY <1>38 DEF FailUndoIntent, Goto, OwnedBy, Progress, Unstarted, Publishing, Target
<1>39. ASSUME Crash(p) PROVE OwnedBy(p)'
  BY <1>39 DEF Crash, Return, Goto
<1> QED
  BY
     <1>1, <1>2, <1>3, <1>4, <1>5, <1>6, <1>7, <1>8, <1>9, <1>10, <1>11,
     <1>12, <1>13, <1>14, <1>15, <1>16, <1>17, <1>18, <1>19, <1>20, <1>21,
     <1>22, <1>23, <1>24, <1>25, <1>26, <1>27, <1>28, <1>29, <1>29a, <1>30, <1>31,
     <1>32, <1>33, <1>34, <1>35, <1>36, <1>37, <1>38, <1>39
  DEF Call, Step, Fault

\* And so does a step of anyone else: another request's call takes back its own files.
LEMMA OwnedByOther ==
  ASSUME TypeOK, Unique, Progress, Owned, [Next]_vars, NEW q \in Proc,
         pc'[q] = pc[q], req'[q] = req[q], next'[q] = next[q], made'[q] = made[q]
  PROVE  OwnedBy(q)'
<1>1. CASE pc[q] \notin Revocable
  BY <1>1 DEF OwnedBy, Revocable, TipHeld, Publishing
<1>2. CASE pc[q] \in Revocable
  <2>1. req[q] \in Request /\ pc[q] # "idle"
    BY <1>2 DEF TypeOK, LocalOK, Revocable, TipHeld
  <2>2. ASSUME NEW x \in Path, files[x] = req[q] PROVE files'[x] = req[q]
    BY <2>1, <2>2, FileChange, SentinelAssumption DEF Unique
  <2>3. \A i \in made[q] : i \in 1..Len(Outputs[req[q]])
    BY DEF Progress
  <2>4. pc[q] = "out_linked" => next[q] \in 1..Len(Outputs[req[q]])
    BY <2>1, PlanPaths DEF Progress, TypeOK, LocalOK
  <2> QED
    BY <1>2, <2>1, <2>2, <2>3, <2>4, PlanPaths DEF Owned, OwnedBy, Target, Publishing
<1> QED
  BY <1>1, <1>2

\* Every step keeps what every call published in place.
LEMMA OwnedStep ==
  TypeOK /\ Unique /\ Progress /\ Owned /\ SnapshotInv /\ [Next]_vars => Owned'
<1> SUFFICES ASSUME TypeOK, Unique, Progress, Owned, SnapshotInv, [Next]_vars,
                    NEW q \in Proc
             PROVE  OwnedBy(q)'
  BY DEF Owned
<1>1. CASE UNCHANGED vars \/ \E x \in Path : ForeignWrite(x)
  BY <1>1, OwnedByOther DEF vars, ForeignWrite
<1>2. ASSUME NEW p \in Proc, Call(p) \/ Step(p) \/ Fault(p) \/ Crash(p)
      PROVE  OwnedBy(q)'
  <2>1. CASE p = q
    BY <1>2, <2>1, OwnedBySelf DEF Owned, SnapshotInv
  <2>2. CASE p # q
    BY <1>2, <2>2, OthersKeep, OwnedByOther
  <2> QED
    BY <2>1, <2>2
<1> QED
  BY <1>1, <1>2 DEF Next


\* A step keeps what every call knows of its targets.
LEMMA KnownBySelf ==
  ASSUME TypeOK, Progress, NEW p \in Proc, KnownBy(p),
         Call(p) \/ Step(p) \/ Fault(p) \/ Crash(p)
  PROVE  KnownBy(p)'
<1> /\ pc \in [Proc -> Running \cup {"idle"}] /\ req \in [Proc -> Request \cup {None}]
    /\ files \in [Path -> Bytes] /\ init \in [Proc -> Trees]
    /\ pc[p] # "idle" => req[p] \in Request
  BY DEF TypeOK, SharedOK, LocalOK
<1>0. CASE pc'[p] \notin TipHeld \cup {"snapped"}
  BY <1>0 DEF KnownBy
<1> SUFFICES ASSUME pc'[p] \in TipHeld \cup {"snapped"} PROVE KnownBy(p)'
  BY <1>0
<1> USE SentinelAssumption DEF TipHeld
<1>1. ASSUME NEW r \in Request, OpenRefused(p, r) PROVE KnownBy(p)'
  BY <1>1 DEF OpenRefused, KnownBy
<1>2. ASSUME NEW r \in Request, Open(p, r) PROVE KnownBy(p)'
  BY <1>2 DEF Open, Goto
<1>3. ASSUME Busy(p) PROVE KnownBy(p)'
  BY <1>3 DEF Busy, Return, Goto
<1>4. ASSUME Begin(p) PROVE KnownBy(p)'
  BY <1>4 DEF Begin, Goto
<1>5. ASSUME Snapshot(p) PROVE KnownBy(p)'
  <2>1. pc'[p] = "snapped" /\ init'[p] = Tree /\ UNCHANGED files
    BY <1>5 DEF Snapshot, Reject, Return, Goto
  <2>2. init'[p].files = files'
    BY <2>1 DEF Tree
  <2> QED
    BY <2>1, <2>2 DEF KnownBy
<1>6. ASSUME RecoveryConflict(p) PROVE KnownBy(p)'
  BY <1>6 DEF RecoveryConflict, Reject, Return, Goto
<1>7. ASSUME ResumeCommitted(p) PROVE KnownBy(p)'
  BY <1>7 DEF ResumeCommitted, Goto
<1>8. ASSUME ResumePartial(p) PROVE KnownBy(p)'
  <2>1. /\ pc[p] = "snapped" /\ pc'[p] = "publish" /\ ExistingExact(req[p])
        /\ UNCHANGED <<files, init, req>>
    BY <1>8 DEF ResumePartial, Goto
  <2> QED
    BY <2>1, PlanPaths DEF KnownBy, ExistingExact
<1>9. ASSUME TipMismatch(p) PROVE KnownBy(p)'
  BY <1>9 DEF TipMismatch, Reject, Return, Goto
<1>10. ASSUME TargetExists(p) PROVE KnownBy(p)'
  BY <1>10 DEF TargetExists, Reject, Return, Goto
<1>11. ASSUME StartIntent(p) PROVE KnownBy(p)'
  <2>1. /\ pc[p] = "snapped" /\ pc'[p] = "intent_temp" /\ TargetsAbsent(p)
        /\ UNCHANGED <<files, init, req>>
    BY <1>11 DEF StartIntent, Reject, Return, Goto
  <2> QED
    BY <2>1, PlanPaths DEF KnownBy, TargetsAbsent
<1>12. ASSUME LinkIntent(p) PROVE KnownBy(p)'
  BY <1>12 DEF LinkIntent, Abort, Goto, KnownBy
<1>13. ASSUME FinishIntent(p) PROVE KnownBy(p)'
  BY <1>13 DEF FinishIntent, Abort, Goto, KnownBy
<1>14. ASSUME IntentLost(p) PROVE KnownBy(p)'
  BY <1>14 DEF IntentLost, Abort, Goto
<1>15. ASSUME StartOutput(p) PROVE KnownBy(p)'
  BY <1>15 DEF StartOutput, Abort, Goto, Planning, KnownBy
<1>16. ASSUME LinkOutput(p) PROVE KnownBy(p)'
  <2>1. /\ pc[p] = "out_temp" /\ UNCHANGED <<init, req>>
        /\ pc'[p] = "out_linked" /\ files' = [files EXCEPT ![Target(p)] = req[p]]
    BY <1>16 DEF LinkOutput, Abort, Goto
  <2> QED
    BY <2>1, PlanPaths DEF KnownBy
<1>17. ASSUME FinishOutput(p) PROVE KnownBy(p)'
  BY <1>17 DEF FinishOutput, Abort, Goto, KnownBy
<1>18. ASSUME Insert(p) PROVE KnownBy(p)'
  BY <1>18 DEF Insert, Goto, KnownBy
<1>19. ASSUME Commit(p) PROVE KnownBy(p)'
  BY <1>19 DEF Commit, Goto
<1>20. ASSUME PostCheck(p) PROVE KnownBy(p)'
  BY <1>20 DEF PostCheck, Return, Goto
<1>21. ASSUME RecoveredCheck(p) PROVE KnownBy(p)'
  BY <1>21 DEF RecoveredCheck, Return, Goto
<1>22. ASSUME RemoveIntent(p) PROVE KnownBy(p)'
  BY <1>22 DEF RemoveIntent, Return, Goto
<1>23. ASSUME FinalCheck(p) PROVE KnownBy(p)'
  BY <1>23 DEF FinalCheck, Return, Goto
<1>24. ASSUME RestoreTemp(p) PROVE KnownBy(p)'
  BY <1>24 DEF RestoreTemp, Goto
<1>25. ASSUME RestoreLink(p) PROVE KnownBy(p)'
  BY <1>25 DEF RestoreLink, Return, Goto
<1>26. ASSUME RestoreFinish(p) PROVE KnownBy(p)'
  BY <1>26 DEF RestoreFinish, Return, Goto
<1>27. ASSUME SqlRollback(p) PROVE KnownBy(p)'
  BY <1>27 DEF SqlRollback, Goto
<1>28. ASSUME Undo(p) PROVE KnownBy(p)'
  BY <1>28 DEF Undo
<1>29. ASSUME UndoIntent(p) PROVE KnownBy(p)'
  BY <1>29 DEF UndoIntent, Goto
<1>29a. ASSUME RemoveFresh(p) PROVE KnownBy(p)'
  BY <1>29a DEF RemoveFresh, Goto
<1>30. ASSUME Verdict(p) PROVE KnownBy(p)'
  BY <1>30 DEF Verdict, Return, Goto
<1>31. ASSUME FailIntent(p) PROVE KnownBy(p)'
  BY <1>31 DEF FailIntent, Abort, Goto
<1>32. ASSUME FailOutput(p) PROVE KnownBy(p)'
  BY <1>32 DEF FailOutput, Abort, Goto
<1>33. ASSUME FailInsert(p) PROVE KnownBy(p)'
  BY <1>33 DEF FailInsert, Abort, Goto, KnownBy
<1>34. ASSUME FailCommit(p) PROVE KnownBy(p)'
  BY <1>34 DEF FailCommit, Return, Goto
<1>35. ASSUME FailRemoveIntent(p) PROVE KnownBy(p)'
  BY <1>35 DEF FailRemoveIntent, Return, Goto
<1>36. ASSUME FailRestore(p) PROVE KnownBy(p)'
  BY <1>36 DEF FailRestore, Return, Goto
<1>37. ASSUME FailUndo(p) PROVE KnownBy(p)'
  BY <1>37 DEF FailUndo
<1>38. ASSUME FailUndoIntent(p) PROVE KnownBy(p)'
  BY <1>38 DEF FailUndoIntent, Goto
<1>39. ASSUME Crash(p) PROVE KnownBy(p)'
  BY <1>39 DEF Crash, Return, Goto
<1> QED
  BY
     <1>1, <1>2, <1>3, <1>4, <1>5, <1>6, <1>7, <1>8, <1>9, <1>10, <1>11,
     <1>12, <1>13, <1>14, <1>15, <1>16, <1>17, <1>18, <1>19, <1>20, <1>21,
     <1>22, <1>23, <1>24, <1>25, <1>26, <1>27, <1>28, <1>29, <1>29a, <1>30, <1>31,
     <1>32, <1>33, <1>34, <1>35, <1>36, <1>37, <1>38, <1>39
  DEF Call, Step, Fault

\* Only the holder of the lock links a file, so a planned target gets no other bytes.
LEMMA KnownByOther ==
  ASSUME TypeOK, LockInv, Progress, Owned, [Next]_vars, NEW q \in Proc, KnownBy(q),
         pc'[q] = pc[q], req'[q] = req[q], init'[q] = init[q]
  PROVE  KnownBy(q)'
<1>1. ASSUME pc[q] = "snapped", NEW x \in Path, init[q].files[x] = Foreign
      PROVE  files'[x] = Foreign
  <2>1. files[x] = Foreign
    BY <1>1 DEF KnownBy
  <2>2. \A p \in Proc : pc[p] \in {"out_linked", "undo"} => req[p] # Foreign
    BY SentinelAssumption DEF TypeOK, LocalOK
  <2> QED
    BY <2>1, <2>2, FileChange, SentinelAssumption
<1>2. ASSUME pc[q] \in TipHeld, NEW x \in Planned(req[q])
      PROVE  files'[x] \in {None, Foreign, req[q]}
  <2>1. x \in Path /\ files[x] \in {None, Foreign, req[q]}
    BY <1>2, PlanPaths DEF KnownBy, TipHeld, TypeOK, LocalOK
  <2>2. \A p \in Proc : pc[p] = "out_temp" => p = q
    BY <1>2 DEF LockInv, Locked, TipHeld
  <2> QED
    BY <2>1, <2>2, FileChange
<1> QED
  BY <1>1, <1>2 DEF KnownBy

\* Every step keeps what the snapshots say of the planned targets.
LEMMA SnapshotStep ==
  TypeOK /\ LockInv /\ Progress /\ Owned /\ SnapshotInv /\ [Next]_vars => SnapshotInv'
<1> SUFFICES ASSUME TypeOK, LockInv, Progress, Owned, SnapshotInv, [Next]_vars,
                    NEW q \in Proc
             PROVE  KnownBy(q)'
  BY DEF SnapshotInv
<1>1. CASE UNCHANGED vars \/ \E x \in Path : ForeignWrite(x)
  BY <1>1, KnownByOther DEF vars, ForeignWrite, SnapshotInv
<1>2. ASSUME NEW p \in Proc, Call(p) \/ Step(p) \/ Fault(p) \/ Crash(p)
      PROVE  KnownBy(q)'
  <2>1. CASE p = q
    BY <1>2, <2>1, KnownBySelf DEF SnapshotInv
  <2>2. CASE p # q
    BY <1>2, <2>2, OthersKeep, KnownByOther DEF SnapshotInv
  <2> QED
    BY <2>1, <2>2
<1> QED
  BY <1>1, <1>2 DEF Next

\* The bytes of a request are only ever linked at the paths of its plan.
LEMMA OnPlanStep ==
  TypeOK /\ Progress /\ Owned /\ OnPlan /\ [Next]_vars => OnPlan'
<1> SUFFICES ASSUME TypeOK, Progress, Owned, OnPlan, [Next]_vars,
                    NEW x \in Path, files'[x] \in Request
             PROVE  x \in Planned(files'[x])
  BY DEF OnPlan
<1>1. ASSUME NEW p \in Proc, pc[p] = "out_temp" PROVE Target(p) \in Planned(req[p])
  <2>1. req[p] \in Request /\ next[p] \in Nat \ {0} /\ next[p] <= Len(Outputs[req[p]])
    BY <1>1 DEF Progress, TypeOK, LocalOK
  <2>2. next[p] \in 1..Len(Outputs[req[p]])
    BY <2>1, PlanPaths
  <2> QED
    BY <2>1, <2>2, PlanPaths DEF Target
<1> QED
  BY <1>1, FileChange, SentinelAssumption DEF OnPlan

\* Nobody removes a committed file, and who commits has published the whole plan.
LEMMA CompleteStep ==
  TypeOK /\ LedgerInv /\ FileInv /\ [Next]_vars => CommittedIsComplete'
<1> SUFFICES ASSUME TypeOK, LedgerInv, FileInv, [Next]_vars
             PROVE  CommittedIsComplete'
  OBVIOUS
<1> /\ Committed \subseteq Request
    /\ \A p \in Proc : pc[p] # "idle" => req[p] \in Request
  BY DEF TypeOK, SharedOK, LocalOK, Committed
<1>1. ASSUME NEW r \in Committed PROVE AllExact(r)'
  <2>1. ASSUME NEW x \in Planned(r) PROVE files'[x] = r
    <3>1. x \in Path /\ files[x] = r
      BY <2>1, PlanPaths DEF FileInv, CommittedIsComplete, AllExact
    <3>2. \A p \in Proc : pc[p] \in {"out_linked", "undo"} => req[p] # r
      BY DEF FileInv, NotCommitted, Revocable, TipHeld
    <3> QED
      BY <3>1, <3>2, FileChange, SentinelAssumption DEF FileInv
  <2> QED
    BY <2>1 DEF AllExact, Planned
<1>2. CASE UNCHANGED ledger
  BY <1>1, <1>2 DEF CommittedIsComplete, Committed
<1>3. ASSUME NEW p \in Proc, pc[p] = "inserted", ledger' = Append(ledger, req[p]),
             Commit(p) \/ FailCommit(p)
      PROVE  CommittedIsComplete'
  <2>1. PICK r \in Request : r = req[p]
    BY <1>3
  <2>2. Committed' = Committed \cup {r}
    BY <1>3, <2>1, AppendCommitted
  <2>3. ASSUME NEW i \in 1..Len(Outputs[r]) PROVE files[Outputs[r][i]] = r
    <3>1. next[p] = Len(Outputs[r]) + 1 /\ Len(Outputs[r]) \in Nat
      BY <1>3, <2>1, PlanPaths DEF FileInv, Progress
    <3> QED
      BY <1>3, <2>1, <3>1 DEF FileInv, Owned, OwnedBy, Publishing
  <2>4. UNCHANGED files
    BY <1>3 DEF Commit, FailCommit
  <2>5. AllExact(r)'
    BY <2>3, <2>4 DEF AllExact, Planned
  <2> QED
    BY <1>1, <2>2, <2>5 DEF CommittedIsComplete
<1> QED
  BY <1>2, <1>3, LedgerMoves

\* Every step keeps the invariant of the files.
LEMMA FileStep ==
  ~Overlap /\ TypeOK /\ LedgerInv /\ FileInv /\ [Next]_vars => FileInv'
BY UniqueStep, NotCommittedStep, ProgressStep, OwnedStep, SnapshotStep, OnPlanStep,
   CompleteStep DEF FileInv, LedgerInv

\* The invariant of the files holds before any call.
LEMMA FileInit == Init => FileInv
<1> SUFFICES ASSUME Init PROVE FileInv
  OBVIOUS
<1> USE DEF Init
<1>1. Unique /\ NotCommitted /\ Progress
  BY DEF Unique, NotCommitted, Revocable, TipHeld, Progress, Unstarted, Publishing
<1>2. Owned /\ SnapshotInv
  BY DEF Owned, OwnedBy, SnapshotInv, KnownBy, Revocable, TipHeld, Publishing
<1>3. OnPlan
  BY SentinelAssumption DEF OnPlan
<1>4. CommittedIsComplete
  BY DEF CommittedIsComplete, Committed
<1> QED
  BY <1>1, <1>2, <1>3, <1>4 DEF FileInv

\* The invariant of the files holds in every behaviour without overlapping retries.
LEMMA FileInvariant == ASSUME ~Overlap PROVE Spec => []FileInv
<1>1. TypeOK /\ LedgerInv /\ FileInv /\ [Next]_vars => FileInv'
  BY FileStep
<1> QED
  BY <1>1, FileInit, TypeCorrect, LedgerInvariant, PTL DEF Spec

\* When no request is carried by two running calls, every committed row finds all
\* its artifacts and sidecars in place, whoever dies, fails or rolls back.
THEOREM CommittedStaysComplete == ASSUME ~Overlap PROVE Spec => []CommittedIsComplete
BY FileInvariant, PTL DEF FileInv

-----------------------------------------------------------------------------
(* Refinement of the atomic log. *)

\* The step that adds the row makes the whole bundle visible; no other step changes
\* what is visible.
LEMMA AbstractStep ==
  TypeOK /\ LedgerInv /\ FileInv /\ CommittedIsComplete' /\ [Next]_vars
    => [Abstract!Next]_<<ledger, Visible>>
<1> SUFFICES ASSUME TypeOK, LedgerInv, FileInv, CommittedIsComplete', [Next]_vars
             PROVE  [Abstract!Next]_<<ledger, Visible>>
  OBVIOUS
<1> /\ Committed \subseteq Request /\ None \notin Committed
    /\ files \in [Path -> Bytes]
  BY SentinelAssumption DEF TypeOK, SharedOK, Committed
<1>1. CASE UNCHANGED ledger
  <2>1. Committed' = Committed
    BY <1>1 DEF Committed
  <2>2. ASSUME NEW x \in Path
        PROVE  (files'[x] \in Committed /\ files'[x] = files[x])
               \/ (files'[x] \notin Committed /\ files[x] \notin Committed)
    <3>1. \A p \in Proc : pc[p] \in {"out_temp", "out_linked", "undo"}
                          => req[p] \notin Committed
      BY DEF FileInv, NotCommitted, Revocable, TipHeld
    <3>2. Foreign \notin Committed
      BY SentinelAssumption
    <3> QED
      BY <3>1, <3>2, FileChange DEF FileInv
  <2>3. Visible' = Visible
    BY <2>1, <2>2 DEF Visible
  <2> QED
    BY <1>1, <2>3
<1>2. ASSUME NEW p \in Proc, pc[p] = "inserted", ledger' = Append(ledger, req[p]),
             Commit(p) \/ FailCommit(p)
      PROVE  Abstract!Next
  <2>1. PICK r \in Request : r = req[p]
    BY <1>2 DEF TypeOK, LocalOK
  <2>2. Committed' = Committed \cup {r} /\ UNCHANGED files
    BY <1>2, <2>1, AppendCommitted DEF Commit, FailCommit
  <2>3. r \notin Committed /\ Tip(ledger) = ExpectedTip[r]
    BY <1>2, <2>1 DEF FileInv, NotCommitted, Revocable, LedgerInv, TipInv, TipHeld
  <2>4. \A x \in Path : files[x] = r <=> x \in Planned(r)
    BY <2>2, PlanPaths DEF FileInv, OnPlan, CommittedIsComplete, AllExact, Planned
  <2>5. Abstract!Bundle(r) = Planned(r)
    BY DEF Abstract!Bundle, Planned
  <2>6. Abstract!Tip = ExpectedTip[r]
    BY <2>3 DEF Abstract!Tip, Tip
  <2>7. \A x \in Abstract!Bundle(r) : Visible[x] = None
    BY <2>3, <2>4, <2>5, PlanPaths DEF Visible
  <2>8. Visible' = [x \in Path |-> IF x \in Abstract!Bundle(r) THEN r ELSE Visible[x]]
    BY <2>2, <2>3, <2>4, <2>5 DEF Visible
  <2> QED
    BY <1>2, <2>1, <2>6, <2>7, <2>8 DEF Abstract!Next, Abstract!Commit
<1> QED
  BY <1>1, <1>2, LedgerMoves

\* Every behaviour of the kernel's processes is one of the atomic log.
THEOREM Refinement == ASSUME ~Overlap PROVE Spec => ImplementsAtomicLog
<1>1. Init => Abstract!Init
  BY DEF Init, Abstract!Init, Visible, Committed
<1>2. TypeOK /\ LedgerInv /\ FileInv /\ FileInv' /\ [Next]_vars
        => [Abstract!Next]_<<ledger, Visible>>
  BY AbstractStep DEF FileInv
<1> QED
  BY <1>1, <1>2, TypeCorrect, LedgerInvariant, FileInvariant, PTL
     DEF Spec, ImplementsAtomicLog, Abstract!Spec

=============================================================================
