------------------------- MODULE BundleIntentProofs -------------------------
(***************************************************************************)
(* What the intent file, the bytes of a request and its row owe each other, *)
(* for every set of processes, requests and plans in which no exact retry   *)
(* overlaps a running call: an interrupted bundle is always announced by    *)
(* its intent, nobody's bytes are taken away, and an answer that nothing    *)
(* was changed is true.  Then the callers of one exact request, which do     *)
(* overlap: exactly one is told that the bundle is committed.                *)
(***************************************************************************)
EXTENDS CommitBundleProofs, BundleCallers, FiniteSetTheorems

USE DEF durable, local, counters

-----------------------------------------------------------------------------
(* Nobody's bytes are taken away. *)

\* A step adds nobody's row but that of the call which inserts it.
LEMMA CommittedGrows ==
  ASSUME TypeOK, [Next]_vars PROVE Committed \subseteq Committed'
<1>1. CASE UNCHANGED ledger
  BY <1>1 DEF Committed
<1>2. ASSUME NEW p \in Proc, pc[p] = "inserted", ledger' = Append(ledger, req[p])
      PROVE  Committed \subseteq Committed'
  <2>1. req[p] \in Request
    BY <1>2 DEF TypeOK, LocalOK
  <2> QED
    BY <1>2, <2>1, AppendCommitted
<1> QED
  BY <1>1, <1>2, LedgerMoves

\* Only the call that published a file takes it back, and it has no row.
LEMMA ClobberStep ==
  ASSUME TypeOK, FileInv, [Next]_vars, NEW x \in Path,
         files[x] \in Committed \cup {Foreign}
  PROVE  files'[x] = files[x]
<1>1. \A p \in Proc : pc[p] \in {"out_linked", "undo"}
                        => req[p] \in Request /\ req[p] \notin Committed
  BY DEF FileInv, NotCommitted, Revocable, TipHeld, TypeOK, LocalOK
<1>2. None \notin Committed /\ Foreign # None
  BY SentinelAssumption DEF TypeOK, SharedOK, Committed
<1> QED
  BY <1>1, <1>2, FileChange, SentinelAssumption DEF FileInv

\* Bytes that are committed, or that no call wrote, stay where they are, whatever
\* calls die, fail, roll back or compete for the path.
THEOREM NothingClobbered == ASSUME ~Overlap PROVE Spec => NoClobber
<1>1. TypeOK /\ FileInv /\ [Next]_vars
        => [\A x \in Path : files[x] \in Committed \cup {Foreign}
                             => files'[x] = files[x]]_vars
  BY ClobberStep
<1> QED
  BY <1>1, TypeCorrect, FileInvariant, PTL DEF Spec, NoClobber

-----------------------------------------------------------------------------
(* The intent announces the bundle. *)

\* What a step may do to the intent: a call links its own, or one that claims it
\* removes it.
LEMMA IntentChange ==
  ASSUME TypeOK, ClaimInv, OriginInv, [Next]_vars
  PROVE  \/ intent' = intent
         \/ \E p \in Proc : /\ pc[p] \in {"intent_temp", "restore_temp"}
                            /\ intent = None /\ intent' = req[p]
         \/ \E p \in Proc : /\ pc[p] \in {"intent_linked", "cleanup",
                                      "restore_linked", "undo_intent"}
                            /\ intent = req[p] /\ intent' = None /\ pc'[p] # pc[p]
<1> pc \in [Proc -> Running \cup {"idle"}]
  BY DEF TypeOK, LocalOK
<1> DEFINE Goal ==
      \/ intent' = intent
      \/ \E p \in Proc : /\ pc[p] \in {"intent_temp", "restore_temp"}
                         /\ intent = None /\ intent' = req[p]
      \/ \E p \in Proc : /\ pc[p] \in {"intent_linked", "cleanup",
                                      "restore_linked", "undo_intent"}
                         /\ intent = req[p] /\ intent' = None /\ pc'[p] # pc[p]
<1>1. CASE UNCHANGED vars
  BY <1>1 DEF vars
<1>2. ASSUME NEW p \in Proc, NEW r \in Request, OpenRefused(p, r) PROVE Goal
  BY <1>2 DEF OpenRefused
<1>3. ASSUME NEW p \in Proc, NEW r \in Request, Open(p, r) PROVE Goal
  BY <1>3 DEF Open
<1>4. ASSUME NEW p \in Proc, Busy(p) PROVE Goal
  BY <1>4 DEF Busy
<1>5. ASSUME NEW p \in Proc, Begin(p) PROVE Goal
  BY <1>5 DEF Begin
<1>6. ASSUME NEW p \in Proc, Snapshot(p) PROVE Goal
  BY <1>6 DEF Snapshot, Reject
<1>7. ASSUME NEW p \in Proc, RecoveryConflict(p) PROVE Goal
  BY <1>7 DEF RecoveryConflict, Reject
<1>8. ASSUME NEW p \in Proc, ResumeCommitted(p) PROVE Goal
  BY <1>8 DEF ResumeCommitted
<1>9. ASSUME NEW p \in Proc, ResumePartial(p) PROVE Goal
  BY <1>9 DEF ResumePartial
<1>10. ASSUME NEW p \in Proc, TipMismatch(p) PROVE Goal
  BY <1>10 DEF TipMismatch, Reject
<1>11. ASSUME NEW p \in Proc, TargetExists(p) PROVE Goal
  BY <1>11 DEF TargetExists, Reject
<1>12. ASSUME NEW p \in Proc, StartIntent(p) PROVE Goal
  BY <1>12 DEF StartIntent, Reject
<1>13. ASSUME NEW p \in Proc, LinkIntent(p) PROVE Goal
  BY <1>13 DEF LinkIntent
<1>14. ASSUME NEW p \in Proc, FinishIntent(p) PROVE Goal
  BY <1>14 DEF FinishIntent
<1>15. ASSUME NEW p \in Proc, IntentLost(p) PROVE Goal
  BY <1>15 DEF IntentLost, ClaimInv, Claims, Goto, Abort, Return
<1>16. ASSUME NEW p \in Proc, StartOutput(p) PROVE Goal
  BY <1>16 DEF StartOutput
<1>17. ASSUME NEW p \in Proc, LinkOutput(p) PROVE Goal
  BY <1>17 DEF LinkOutput
<1>18. ASSUME NEW p \in Proc, FinishOutput(p) PROVE Goal
  BY <1>18 DEF FinishOutput
<1>19. ASSUME NEW p \in Proc, Insert(p) PROVE Goal
  BY <1>19 DEF Insert
<1>20. ASSUME NEW p \in Proc, Commit(p) PROVE Goal
  BY <1>20 DEF Commit
<1>21. ASSUME NEW p \in Proc, PostCheck(p) PROVE Goal
  BY <1>21 DEF PostCheck
<1>22. ASSUME NEW p \in Proc, RecoveredCheck(p) PROVE Goal
  BY <1>22 DEF RecoveredCheck
<1>23. ASSUME NEW p \in Proc, RemoveIntent(p) PROVE Goal
  BY <1>23 DEF RemoveIntent, ClaimInv, Claims, Goto, Abort, Return
<1>24. ASSUME NEW p \in Proc, FinalCheck(p) PROVE Goal
  BY <1>24 DEF FinalCheck
<1>25. ASSUME NEW p \in Proc, RestoreTemp(p) PROVE Goal
  BY <1>25 DEF RestoreTemp
<1>26. ASSUME NEW p \in Proc, RestoreLink(p) PROVE Goal
  BY <1>26 DEF RestoreLink
<1>27. ASSUME NEW p \in Proc, RestoreFinish(p) PROVE Goal
  BY <1>27 DEF RestoreFinish, ClaimInv, Claims
<1>28. ASSUME NEW p \in Proc, SqlRollback(p) PROVE Goal
  BY <1>28 DEF SqlRollback
<1>29. ASSUME NEW p \in Proc, Undo(p) PROVE Goal
  BY <1>29 DEF Undo
<1>30. ASSUME NEW p \in Proc, UndoIntent(p) PROVE Goal
  BY <1>30 DEF UndoIntent, ClaimInv, Claims, Goto, Abort, Return
<1>30a. ASSUME NEW p \in Proc, RemoveFresh(p) PROVE Goal
  BY <1>30a DEF RemoveFresh, ClaimInv, Claims, Goto, Abort, Return
<1>31. ASSUME NEW p \in Proc, Verdict(p) PROVE Goal
  BY <1>31 DEF Verdict
<1>32. ASSUME NEW p \in Proc, FailIntent(p) PROVE Goal
  BY <1>32 DEF FailIntent, ClaimInv, Claims, Goto, Abort, Return
<1>33. ASSUME NEW p \in Proc, FailOutput(p) PROVE Goal
  BY <1>33 DEF FailOutput
<1>34. ASSUME NEW p \in Proc, FailInsert(p) PROVE Goal
  BY <1>34 DEF FailInsert
<1>35. ASSUME NEW p \in Proc, FailCommit(p) PROVE Goal
  BY <1>35 DEF FailCommit
<1>36. ASSUME NEW p \in Proc, FailRemoveIntent(p) PROVE Goal
  BY <1>36 DEF FailRemoveIntent, ClaimInv, Claims, Goto, Abort, Return
<1>37. ASSUME NEW p \in Proc, FailRestore(p) PROVE Goal
  BY <1>37 DEF FailRestore, ClaimInv, Claims, Goto, Abort, Return
<1>38. ASSUME NEW p \in Proc, FailUndo(p) PROVE Goal
  BY <1>38 DEF FailUndo
<1>39. ASSUME NEW p \in Proc, FailUndoIntent(p) PROVE Goal
  BY <1>39 DEF FailUndoIntent, ClaimInv, Claims, Goto, Abort, Return
<1>40. ASSUME NEW p \in Proc, Crash(p) PROVE Goal
  BY <1>40 DEF Crash
<1>41. ASSUME NEW y \in Path, ForeignWrite(y) PROVE Goal
  BY <1>41 DEF ForeignWrite
<1> QED
  BY
     <1>1, <1>2, <1>3, <1>4, <1>5, <1>6, <1>7, <1>8, <1>9, <1>10, <1>11,
     <1>12, <1>13, <1>14, <1>15, <1>16, <1>17, <1>18, <1>19, <1>20, <1>21,
     <1>22, <1>23, <1>24, <1>25, <1>26, <1>27, <1>28, <1>29, <1>30, <1>30a, <1>31,
     <1>32, <1>33, <1>34, <1>35, <1>36, <1>37, <1>38, <1>39, <1>40, <1>41
  DEF Next, Call, Step, Fault

\* A step of a call keeps its own claim on the intent.
LEMMA ClaimBySelf ==
  ASSUME TypeOK, ClaimInv, OriginInv, NEW p \in Proc,
         Call(p) \/ Step(p) \/ Fault(p) \/ Crash(p)
  PROVE  /\ (Claims(p) => intent = req[p])'
         /\ pc'[p] \in Unstarted => origin'[p] = "Absent"
<1> DEFINE Kept == /\ (Claims(p) => intent = req[p])'
                   /\ pc'[p] \in Unstarted => origin'[p] = "Absent"
<1> /\ pc \in [Proc -> Running \cup {"idle"}] /\ req \in [Proc -> Request \cup {None}]
    /\ origin \in [Proc -> {"Absent", "Fresh", "Recovery"}]
    /\ pc[p] # "idle" => req[p] \in Request
  BY DEF TypeOK, LocalOK
<1> /\ Claims(p) => intent = req[p]
    /\ pc[p] \in Unstarted => origin[p] = "Absent"
  BY DEF ClaimInv, OriginInv
<1>1. ASSUME NEW r \in Request, OpenRefused(p, r) PROVE Kept
  BY <1>1 DEF OpenRefused, Claims, Unstarted
<1>2. ASSUME NEW r \in Request, Open(p, r) PROVE Kept
  BY <1>2 DEF Open, Goto, Claims, Unstarted
<1>3. ASSUME Busy(p) PROVE Kept
  BY <1>3 DEF Busy, Return, Goto, Claims, Unstarted
<1>4. ASSUME Begin(p) PROVE Kept
  BY <1>4 DEF Begin, Goto, Claims, Unstarted
<1>5. ASSUME Snapshot(p) PROVE Kept
  BY <1>5 DEF Snapshot, Reject, Return, Goto, Claims, Unstarted
<1>6. ASSUME RecoveryConflict(p) PROVE Kept
  BY <1>6 DEF RecoveryConflict, Reject, Return, Goto, Claims, Unstarted
<1>7. ASSUME ResumeCommitted(p) PROVE Kept
  BY <1>7 DEF ResumeCommitted, Goto, Claims, Unstarted
<1>8. ASSUME ResumePartial(p) PROVE Kept
  BY <1>8 DEF ResumePartial, Goto, Claims, Unstarted
<1>9. ASSUME TipMismatch(p) PROVE Kept
  BY <1>9 DEF TipMismatch, Reject, Return, Goto, Claims, Unstarted
<1>10. ASSUME TargetExists(p) PROVE Kept
  BY <1>10 DEF TargetExists, Reject, Return, Goto, Claims, Unstarted
<1>11. ASSUME StartIntent(p) PROVE Kept
  BY <1>11 DEF StartIntent, Reject, Return, Goto, Claims, Unstarted
<1>12. ASSUME LinkIntent(p) PROVE Kept
  BY <1>12 DEF LinkIntent, Abort, Goto, Claims, Unstarted
<1>13. ASSUME FinishIntent(p) PROVE Kept
  BY <1>13 DEF FinishIntent, Abort, Goto, Claims, Unstarted
<1>14. ASSUME IntentLost(p) PROVE Kept
  BY <1>14 DEF IntentLost, Abort, Goto, Claims, Unstarted
<1>15. ASSUME StartOutput(p) PROVE Kept
  BY <1>15 DEF StartOutput, Abort, Goto, Planning, Claims, Unstarted
<1>16. ASSUME LinkOutput(p) PROVE Kept
  BY <1>16 DEF LinkOutput, Abort, Goto, Claims, Unstarted
<1>17. ASSUME FinishOutput(p) PROVE Kept
  BY <1>17 DEF FinishOutput, Abort, Goto, Claims, Unstarted
<1>18. ASSUME Insert(p) PROVE Kept
  BY <1>18 DEF Insert, Goto, Claims, Unstarted
<1>19. ASSUME Commit(p) PROVE Kept
  BY <1>19 DEF Commit, Goto, Claims, Unstarted
<1>20. ASSUME PostCheck(p) PROVE Kept
  BY <1>20 DEF PostCheck, Return, Goto, Claims, Unstarted
<1>21. ASSUME RecoveredCheck(p) PROVE Kept
  BY <1>21 DEF RecoveredCheck, Return, Goto, Claims, Unstarted
<1>22. ASSUME RemoveIntent(p) PROVE Kept
  BY <1>22 DEF RemoveIntent, Return, Goto, Claims, Unstarted
<1>23. ASSUME FinalCheck(p) PROVE Kept
  BY <1>23 DEF FinalCheck, Return, Goto, Claims, Unstarted
<1>24. ASSUME RestoreTemp(p) PROVE Kept
  BY <1>24 DEF RestoreTemp, Goto, Claims, Unstarted
<1>25. ASSUME RestoreLink(p) PROVE Kept
  BY <1>25 DEF RestoreLink, Return, Goto, Claims, Unstarted
<1>26. ASSUME RestoreFinish(p) PROVE Kept
  BY <1>26 DEF RestoreFinish, Return, Goto, Claims, Unstarted
<1>27. ASSUME SqlRollback(p) PROVE Kept
  BY <1>27 DEF SqlRollback, Goto, Claims, Unstarted
<1>28. ASSUME Undo(p) PROVE Kept
  BY <1>28 DEF Undo, Claims, Unstarted
<1>29. ASSUME UndoIntent(p) PROVE Kept
  BY <1>29 DEF UndoIntent, Goto, Claims, Unstarted
<1>29a. ASSUME RemoveFresh(p) PROVE Kept
  BY <1>29a DEF RemoveFresh, Goto, Claims, Unstarted
<1>30. ASSUME Verdict(p) PROVE Kept
  BY <1>30 DEF Verdict, Return, Goto, Claims, Unstarted
<1>31. ASSUME FailIntent(p) PROVE Kept
  BY <1>31 DEF FailIntent, Abort, Goto, Claims, Unstarted
<1>32. ASSUME FailOutput(p) PROVE Kept
  BY <1>32 DEF FailOutput, Abort, Goto, Claims, Unstarted
<1>33. ASSUME FailInsert(p) PROVE Kept
  BY <1>33 DEF FailInsert, Abort, Goto, Claims, Unstarted
<1>34. ASSUME FailCommit(p) PROVE Kept
  BY <1>34 DEF FailCommit, Return, Goto, Claims, Unstarted
<1>35. ASSUME FailRemoveIntent(p) PROVE Kept
  BY <1>35 DEF FailRemoveIntent, Return, Goto, Claims, Unstarted
<1>36. ASSUME FailRestore(p) PROVE Kept
  BY <1>36 DEF FailRestore, Return, Goto, Claims, Unstarted
<1>37. ASSUME FailUndo(p) PROVE Kept
  BY <1>37 DEF FailUndo, Claims, Unstarted
<1>38. ASSUME FailUndoIntent(p) PROVE Kept
  BY <1>38 DEF FailUndoIntent, Goto, Claims, Unstarted
<1>39. ASSUME Crash(p) PROVE Kept
  BY <1>39 DEF Crash, Return, Goto, Claims, Unstarted
<1> QED
  BY
     <1>1, <1>2, <1>3, <1>4, <1>5, <1>6, <1>7, <1>8, <1>9, <1>10, <1>11,
     <1>12, <1>13, <1>14, <1>15, <1>16, <1>17, <1>18, <1>19, <1>20, <1>21,
     <1>22, <1>23, <1>24, <1>25, <1>26, <1>27, <1>28, <1>29, <1>29a, <1>30, <1>31,
     <1>32, <1>33, <1>34, <1>35, <1>36, <1>37, <1>38, <1>39
  DEF Call, Step, Fault

\* Nobody else's step takes an intent that a call claims.
LEMMA ClaimByOther ==
  ASSUME TypeOK, Unique, ClaimInv, OriginInv, [Next]_vars, NEW q \in Proc,
         pc'[q] = pc[q], req'[q] = req[q], origin'[q] = origin[q]
  PROVE  /\ (Claims(q) => intent = req[q])'
         /\ pc'[q] \in Unstarted => origin'[q] = "Absent"
<1>1. pc'[q] \in Unstarted => origin'[q] = "Absent"
  BY DEF OriginInv
<1>2. ASSUME Claims(q)' PROVE intent' = req'[q]
  <2>1. Claims(q) /\ intent = req[q] /\ req[q] \in Request /\ pc[q] # "idle"
    BY <1>2 DEF ClaimInv, Claims, TypeOK, LocalOK
  <2>2. intent # None
    BY <2>1, SentinelAssumption
  <2>3. CASE intent' = intent
    BY <2>1, <2>3
  <2>4. ASSUME NEW p \in Proc, intent = req[p], pc[p] # "idle" PROVE p = q
    BY <2>1, <2>4 DEF Unique
  <2> QED
    BY <2>1, <2>2, <2>3, <2>4, IntentChange
<1> QED
  BY <1>1, <1>2

\* Every step keeps the claims on the intent.
LEMMA ClaimStep ==
  TypeOK /\ Unique /\ ClaimInv /\ OriginInv /\ [Next]_vars => ClaimInv' /\ OriginInv'
<1> SUFFICES ASSUME TypeOK, Unique, ClaimInv, OriginInv, [Next]_vars, NEW q \in Proc
             PROVE  /\ (Claims(q) => intent = req[q])'
                    /\ pc'[q] \in Unstarted => origin'[q] = "Absent"
  BY DEF ClaimInv, OriginInv
<1>1. CASE UNCHANGED vars \/ \E x \in Path : ForeignWrite(x)
  BY <1>1, ClaimByOther DEF vars, ForeignWrite
<1>2. ASSUME NEW p \in Proc, Call(p) \/ Step(p) \/ Fault(p) \/ Crash(p)
      PROVE  /\ (Claims(q) => intent = req[q])'
             /\ pc'[q] \in Unstarted => origin'[q] = "Absent"
  <2>1. CASE p = q
    BY <1>2, <2>1, ClaimBySelf
  <2>2. CASE p # q
    BY <1>2, <2>2, OthersKeep, ClaimByOther
  <2> QED
    BY <2>1, <2>2
<1> QED
  BY <1>1, <1>2 DEF Next

\* A call that writes an intent has found its plan empty, and keeps that snapshot.
LEMMA FreshBySelf ==
  ASSUME TypeOK, OriginInv, NEW p \in Proc, FreshBy(p),
         Call(p) \/ Step(p) \/ Fault(p) \/ Crash(p)
  PROVE  FreshBy(p)'
<1> /\ pc \in [Proc -> Running \cup {"idle"}] /\ req \in [Proc -> Request \cup {None}]
    /\ origin \in [Proc -> {"Absent", "Fresh", "Recovery"}]
    /\ pc[p] # "idle" => req[p] \in Request
    /\ init \in [Proc -> Trees]
    /\ pc[p] \in Unstarted => origin[p] = "Absent"
  BY DEF TypeOK, LocalOK, OriginInv
<1>1. ASSUME NEW r \in Request, OpenRefused(p, r) PROVE FreshBy(p)'
  BY <1>1 DEF OpenRefused, FreshBy
<1>2. ASSUME NEW r \in Request, Open(p, r) PROVE FreshBy(p)'
  BY <1>2 DEF Open, Goto, FreshBy, Unstarted
<1>3. ASSUME Busy(p) PROVE FreshBy(p)'
  BY <1>3 DEF Busy, Return, Goto, FreshBy
<1>4. ASSUME Begin(p) PROVE FreshBy(p)'
  BY <1>4 DEF Begin, Goto, FreshBy
<1>5. ASSUME Snapshot(p) PROVE FreshBy(p)'
  BY <1>5 DEF Snapshot, Reject, Return, Goto, FreshBy, Unstarted
<1>6. ASSUME RecoveryConflict(p) PROVE FreshBy(p)'
  BY <1>6 DEF RecoveryConflict, Reject, Return, Goto, FreshBy
<1>7. ASSUME ResumeCommitted(p) PROVE FreshBy(p)'
  BY <1>7 DEF ResumeCommitted, Goto, FreshBy
<1>8. ASSUME ResumePartial(p) PROVE FreshBy(p)'
  BY <1>8 DEF ResumePartial, Goto, FreshBy
<1>9. ASSUME TipMismatch(p) PROVE FreshBy(p)'
  BY <1>9 DEF TipMismatch, Reject, Return, Goto, FreshBy
<1>10. ASSUME TargetExists(p) PROVE FreshBy(p)'
  BY <1>10 DEF TargetExists, Reject, Return, Goto, FreshBy
<1>11. ASSUME StartIntent(p) PROVE FreshBy(p)'
  <2>1. CASE pc'[p] = "idle"
    BY <1>11, <2>1 DEF StartIntent, Reject, Return, Goto, FreshBy
  <2>2. CASE pc'[p] # "idle"
    <3>1. /\ Tree = init[p] /\ TargetsAbsent(p) /\ req[p] \in Request
          /\ UNCHANGED <<files, req, init>>
      BY <1>11, <2>2 DEF StartIntent, Reject, Return, Goto
    <3>2. init[p].files = files
      BY <3>1 DEF Tree
    <3> QED
      BY <3>1, <3>2, SentinelAssumption DEF FreshBy, TargetsAbsent
  <2> QED
    BY <2>1, <2>2
<1>12. ASSUME LinkIntent(p) PROVE FreshBy(p)'
  BY <1>12 DEF LinkIntent, Abort, Goto, FreshBy
<1>13. ASSUME FinishIntent(p) PROVE FreshBy(p)'
  BY <1>13 DEF FinishIntent, Abort, Goto, FreshBy
<1>14. ASSUME IntentLost(p) PROVE FreshBy(p)'
  BY <1>14 DEF IntentLost, Abort, Goto, FreshBy
<1>15. ASSUME StartOutput(p) PROVE FreshBy(p)'
  BY <1>15 DEF StartOutput, Abort, Goto, Planning, FreshBy
<1>16. ASSUME LinkOutput(p) PROVE FreshBy(p)'
  BY <1>16 DEF LinkOutput, Abort, Goto, FreshBy
<1>17. ASSUME FinishOutput(p) PROVE FreshBy(p)'
  BY <1>17 DEF FinishOutput, Abort, Goto, FreshBy
<1>18. ASSUME Insert(p) PROVE FreshBy(p)'
  BY <1>18 DEF Insert, Goto, FreshBy
<1>19. ASSUME Commit(p) PROVE FreshBy(p)'
  BY <1>19 DEF Commit, Goto, FreshBy
<1>20. ASSUME PostCheck(p) PROVE FreshBy(p)'
  BY <1>20 DEF PostCheck, Return, Goto, FreshBy
<1>21. ASSUME RecoveredCheck(p) PROVE FreshBy(p)'
  BY <1>21 DEF RecoveredCheck, Return, Goto, FreshBy
<1>22. ASSUME RemoveIntent(p) PROVE FreshBy(p)'
  BY <1>22 DEF RemoveIntent, Return, Goto, FreshBy
<1>23. ASSUME FinalCheck(p) PROVE FreshBy(p)'
  BY <1>23 DEF FinalCheck, Return, Goto, FreshBy
<1>24. ASSUME RestoreTemp(p) PROVE FreshBy(p)'
  BY <1>24 DEF RestoreTemp, Goto, FreshBy
<1>25. ASSUME RestoreLink(p) PROVE FreshBy(p)'
  BY <1>25 DEF RestoreLink, Return, Goto, FreshBy
<1>26. ASSUME RestoreFinish(p) PROVE FreshBy(p)'
  BY <1>26 DEF RestoreFinish, Return, Goto, FreshBy
<1>27. ASSUME SqlRollback(p) PROVE FreshBy(p)'
  BY <1>27 DEF SqlRollback, Goto, FreshBy
<1>28. ASSUME Undo(p) PROVE FreshBy(p)'
  BY <1>28 DEF Undo, FreshBy
<1>29. ASSUME UndoIntent(p) PROVE FreshBy(p)'
  <2>1. CASE pc'[p] = "verdict"
    BY <1>29, <2>1 DEF UndoIntent, Goto, FreshBy
  <2>2. CASE pc'[p] # "verdict"
    <3>1. /\ origin[p] = "Fresh" /\ Tree = [init[p] EXCEPT !.intent = intent]
          /\ req[p] \in Request /\ init[p] \in Trees
          /\ UNCHANGED <<files, req, init>>
      BY <1>29, <2>2 DEF UndoIntent, Goto
    <3>2. init[p].files = files
      BY <3>1 DEF Tree, Trees
    <3> QED
      BY <3>1, <3>2, SentinelAssumption DEF FreshBy
  <2> QED
    BY <2>1, <2>2
<1>29a. ASSUME RemoveFresh(p) PROVE FreshBy(p)'
  BY <1>29a DEF RemoveFresh, Goto, FreshBy
<1>30. ASSUME Verdict(p) PROVE FreshBy(p)'
  BY <1>30 DEF Verdict, Return, Goto, FreshBy
<1>31. ASSUME FailIntent(p) PROVE FreshBy(p)'
  BY <1>31 DEF FailIntent, Abort, Goto, FreshBy
<1>32. ASSUME FailOutput(p) PROVE FreshBy(p)'
  BY <1>32 DEF FailOutput, Abort, Goto, FreshBy
<1>33. ASSUME FailInsert(p) PROVE FreshBy(p)'
  BY <1>33 DEF FailInsert, Abort, Goto, FreshBy
<1>34. ASSUME FailCommit(p) PROVE FreshBy(p)'
  BY <1>34 DEF FailCommit, Return, Goto, FreshBy
<1>35. ASSUME FailRemoveIntent(p) PROVE FreshBy(p)'
  BY <1>35 DEF FailRemoveIntent, Return, Goto, FreshBy
<1>36. ASSUME FailRestore(p) PROVE FreshBy(p)'
  BY <1>36 DEF FailRestore, Return, Goto, FreshBy
<1>37. ASSUME FailUndo(p) PROVE FreshBy(p)'
  BY <1>37 DEF FailUndo, FreshBy
<1>38. ASSUME FailUndoIntent(p) PROVE FreshBy(p)'
  BY <1>38 DEF FailUndoIntent, Goto, FreshBy
<1>39. ASSUME Crash(p) PROVE FreshBy(p)'
  BY <1>39 DEF Crash, Return, Goto, FreshBy
<1> QED
  BY
     <1>1, <1>2, <1>3, <1>4, <1>5, <1>6, <1>7, <1>8, <1>9, <1>10, <1>11,
     <1>12, <1>13, <1>14, <1>15, <1>16, <1>17, <1>18, <1>19, <1>20, <1>21,
     <1>22, <1>23, <1>24, <1>25, <1>26, <1>27, <1>28, <1>29, <1>29a, <1>30, <1>31,
     <1>32, <1>33, <1>34, <1>35, <1>36, <1>37, <1>38, <1>39
  DEF Call, Step, Fault

\* Nobody else writes the bytes of a call's request.
LEMMA FreshByOther ==
  ASSUME TypeOK, Unique, Progress, Owned, [Next]_vars, NEW q \in Proc, FreshBy(q),
         pc'[q] = pc[q], req'[q] = req[q], origin'[q] = origin[q], init'[q] = init[q]
  PROVE  FreshBy(q)'
<1>1. ASSUME pc[q] \in {"intent_temp", "intent_linked", "undo_intent"},
             NEW x \in Planned(req[q])
      PROVE  files'[x] # req[q]
  <2>1. req[q] \in Request /\ files[x] # req[q] /\ x \in Path
    BY <1>1, PlanPaths DEF FreshBy, TypeOK, LocalOK
  <2>2. req[q] # None /\ req[q] # Foreign
    BY <2>1, SentinelAssumption
  <2>3. \A p \in Proc : pc[p] = "out_temp" => req[p] # req[q]
    BY <1>1 DEF Unique
  <2> QED
    BY <2>1, <2>2, <2>3, FileChange
<1> QED
  BY <1>1 DEF FreshBy

\* Every step keeps the fresh plans.
LEMMA FreshStep ==
  TypeOK /\ FileInv /\ OriginInv /\ FreshInv /\ [Next]_vars => FreshInv'
<1> SUFFICES ASSUME TypeOK, FileInv, OriginInv, FreshInv, [Next]_vars, NEW q \in Proc
             PROVE  FreshBy(q)'
  BY DEF FreshInv
<1> FreshBy(q) /\ Unique /\ Progress /\ Owned
  BY DEF FreshInv, FileInv
<1>1. CASE UNCHANGED vars \/ \E x \in Path : ForeignWrite(x)
  BY <1>1, FreshByOther DEF vars, ForeignWrite
<1>2. ASSUME NEW p \in Proc, Call(p) \/ Step(p) \/ Fault(p) \/ Crash(p)
      PROVE  FreshBy(q)'
  <2>1. CASE p = q
    BY <1>2, <2>1, FreshBySelf
  <2>2. CASE p # q
    BY <1>2, <2>2, OthersKeep, FreshByOther
  <2> QED
    BY <2>1, <2>2
<1> QED
  BY <1>1, <1>2 DEF Next

\* How a call comes to a place after COMMIT.
LEMMA LateChange ==
  ASSUME TypeOK, [Next]_vars, NEW q \in Proc, pc'[q] \in Late
  PROVE  /\ req'[q] = req[q] /\ req[q] \in Request
         /\ \/ pc[q] \in Late
            \/ pc[q] = "inserted" /\ ledger' = Append(ledger, req[q])
            \/ pc[q] = "snapped" /\ Tip(ledger) = req[q]
<1> DEFINE Goal == /\ req'[q] = req[q] /\ req[q] \in Request
                   /\ \/ pc[q] \in Late
                      \/ pc[q] = "inserted" /\ ledger' = Append(ledger, req[q])
                      \/ pc[q] = "snapped" /\ Tip(ledger) = req[q]
<1> /\ pc \in [Proc -> Running \cup {"idle"}] /\ req \in [Proc -> Request \cup {None}]
    /\ \A p \in Proc : pc[p] # "idle" => req[p] \in Request
  BY DEF TypeOK, LocalOK
<1> USE DEF Late
<1>1. CASE UNCHANGED vars
  BY <1>1 DEF vars
<1>2. ASSUME NEW p \in Proc, NEW r \in Request, OpenRefused(p, r) PROVE Goal
  BY <1>2 DEF OpenRefused
<1>3. ASSUME NEW p \in Proc, NEW r \in Request, Open(p, r) PROVE Goal
  BY <1>3 DEF Open, Goto
<1>4. ASSUME NEW p \in Proc, Busy(p) PROVE Goal
  BY <1>4 DEF Busy, Return, Goto
<1>5. ASSUME NEW p \in Proc, Begin(p) PROVE Goal
  BY <1>5 DEF Begin, Goto
<1>6. ASSUME NEW p \in Proc, Snapshot(p) PROVE Goal
  BY <1>6 DEF Snapshot, Reject, Return, Goto
<1>7. ASSUME NEW p \in Proc, RecoveryConflict(p) PROVE Goal
  BY <1>7 DEF RecoveryConflict, Reject, Return, Goto
<1>8. ASSUME NEW p \in Proc, ResumeCommitted(p) PROVE Goal
  BY <1>8 DEF ResumeCommitted, Goto
<1>9. ASSUME NEW p \in Proc, ResumePartial(p) PROVE Goal
  BY <1>9 DEF ResumePartial, Goto
<1>10. ASSUME NEW p \in Proc, TipMismatch(p) PROVE Goal
  BY <1>10 DEF TipMismatch, Reject, Return, Goto
<1>11. ASSUME NEW p \in Proc, TargetExists(p) PROVE Goal
  BY <1>11 DEF TargetExists, Reject, Return, Goto
<1>12. ASSUME NEW p \in Proc, StartIntent(p) PROVE Goal
  BY <1>12 DEF StartIntent, Reject, Return, Goto
<1>13. ASSUME NEW p \in Proc, LinkIntent(p) PROVE Goal
  BY <1>13 DEF LinkIntent, Abort, Goto
<1>14. ASSUME NEW p \in Proc, FinishIntent(p) PROVE Goal
  BY <1>14 DEF FinishIntent, Abort, Goto
<1>15. ASSUME NEW p \in Proc, IntentLost(p) PROVE Goal
  BY <1>15 DEF IntentLost, Abort, Goto
<1>16. ASSUME NEW p \in Proc, StartOutput(p) PROVE Goal
  BY <1>16 DEF StartOutput, Abort, Goto, Planning
<1>17. ASSUME NEW p \in Proc, LinkOutput(p) PROVE Goal
  BY <1>17 DEF LinkOutput, Abort, Goto
<1>18. ASSUME NEW p \in Proc, FinishOutput(p) PROVE Goal
  BY <1>18 DEF FinishOutput, Abort, Goto
<1>19. ASSUME NEW p \in Proc, Insert(p) PROVE Goal
  BY <1>19 DEF Insert, Goto
<1>20. ASSUME NEW p \in Proc, Commit(p) PROVE Goal
  BY <1>20 DEF Commit, Goto
<1>21. ASSUME NEW p \in Proc, PostCheck(p) PROVE Goal
  BY <1>21 DEF PostCheck, Return, Goto
<1>22. ASSUME NEW p \in Proc, RecoveredCheck(p) PROVE Goal
  BY <1>22 DEF RecoveredCheck, Return, Goto
<1>23. ASSUME NEW p \in Proc, RemoveIntent(p) PROVE Goal
  BY <1>23 DEF RemoveIntent, Return, Goto
<1>24. ASSUME NEW p \in Proc, FinalCheck(p) PROVE Goal
  BY <1>24 DEF FinalCheck, Return, Goto
<1>25. ASSUME NEW p \in Proc, RestoreTemp(p) PROVE Goal
  BY <1>25 DEF RestoreTemp, Goto
<1>26. ASSUME NEW p \in Proc, RestoreLink(p) PROVE Goal
  BY <1>26 DEF RestoreLink, Return, Goto
<1>27. ASSUME NEW p \in Proc, RestoreFinish(p) PROVE Goal
  BY <1>27 DEF RestoreFinish, Return, Goto
<1>28. ASSUME NEW p \in Proc, SqlRollback(p) PROVE Goal
  BY <1>28 DEF SqlRollback, Goto
<1>29. ASSUME NEW p \in Proc, Undo(p) PROVE Goal
  BY <1>29 DEF Undo
<1>30. ASSUME NEW p \in Proc, UndoIntent(p) PROVE Goal
  BY <1>30 DEF UndoIntent, Goto
<1>30a. ASSUME NEW p \in Proc, RemoveFresh(p) PROVE Goal
  BY <1>30a DEF RemoveFresh, Goto
<1>31. ASSUME NEW p \in Proc, Verdict(p) PROVE Goal
  BY <1>31 DEF Verdict, Return, Goto
<1>32. ASSUME NEW p \in Proc, FailIntent(p) PROVE Goal
  BY <1>32 DEF FailIntent, Abort, Goto
<1>33. ASSUME NEW p \in Proc, FailOutput(p) PROVE Goal
  BY <1>33 DEF FailOutput, Abort, Goto
<1>34. ASSUME NEW p \in Proc, FailInsert(p) PROVE Goal
  BY <1>34 DEF FailInsert, Abort, Goto
<1>35. ASSUME NEW p \in Proc, FailCommit(p) PROVE Goal
  BY <1>35 DEF FailCommit, Return, Goto
<1>36. ASSUME NEW p \in Proc, FailRemoveIntent(p) PROVE Goal
  BY <1>36 DEF FailRemoveIntent, Return, Goto
<1>37. ASSUME NEW p \in Proc, FailRestore(p) PROVE Goal
  BY <1>37 DEF FailRestore, Return, Goto
<1>38. ASSUME NEW p \in Proc, FailUndo(p) PROVE Goal
  BY <1>38 DEF FailUndo
<1>39. ASSUME NEW p \in Proc, FailUndoIntent(p) PROVE Goal
  BY <1>39 DEF FailUndoIntent, Goto
<1>40. ASSUME NEW p \in Proc, Crash(p) PROVE Goal
  BY <1>40 DEF Crash, Return, Goto
<1>41. ASSUME NEW y \in Path, ForeignWrite(y) PROVE Goal
  BY <1>41 DEF ForeignWrite
<1> QED
  BY
     <1>1, <1>2, <1>3, <1>4, <1>5, <1>6, <1>7, <1>8, <1>9, <1>10, <1>11,
     <1>12, <1>13, <1>14, <1>15, <1>16, <1>17, <1>18, <1>19, <1>20, <1>21,
     <1>22, <1>23, <1>24, <1>25, <1>26, <1>27, <1>28, <1>29, <1>30, <1>30a, <1>31,
     <1>32, <1>33, <1>34, <1>35, <1>36, <1>37, <1>38, <1>39, <1>40, <1>41
  DEF Next, Call, Step, Fault

\* A call after COMMIT has its row in the ledger.
LEMMA LateStep == TypeOK /\ LateInv /\ [Next]_vars => LateInv'
<1> SUFFICES ASSUME TypeOK, LateInv, [Next]_vars, NEW q \in Proc, pc'[q] \in Late
             PROVE  req'[q] \in Committed'
  BY DEF LateInv
<1>1. req'[q] = req[q] /\ req[q] \in Request
  BY LateChange
<1>2. CASE pc[q] \in Late
  BY <1>1, <1>2, CommittedGrows DEF LateInv
<1>3. CASE ledger' = Append(ledger, req[q])
  BY <1>1, <1>3, AppendCommitted
<1>4. CASE Tip(ledger) = req[q]
  <2>1. ledger \in Seq(Request) /\ ledger # <<>> /\ ledger[Len(ledger)] = req[q]
    BY <1>1, <1>4, SentinelAssumption DEF Tip, TypeOK, SharedOK
  <2>2. Len(ledger) \in 1..Len(ledger)
    BY <2>1
  <2>3. req[q] \in Committed
    BY <2>1, <2>2 DEF Committed
  <2> QED
    BY <1>1, <2>3, CommittedGrows
<1> QED
  BY <1>2, <1>3, <1>4, LateChange

\* Whoever removes the intent of a request has committed it or left no file of it.
LEMMA PartialStep ==
  TypeOK /\ FileInv /\ IntentInv /\ [Next]_vars => PartialIsDetectable'
<1> SUFFICES ASSUME TypeOK, FileInv, IntentInv, [Next]_vars,
                    NEW r \in Request \ Committed', NEW x \in Planned(r), files'[x] = r
             PROVE  intent' = r
  BY DEF PartialIsDetectable, Planned
<1>1. r \in Request \ Committed /\ x \in Path
  BY CommittedGrows, PlanPaths
<1>2. r # None /\ r # Foreign
  BY <1>1, SentinelAssumption
<1> Unique /\ Progress /\ Owned /\ ClaimInv /\ OriginInv
  BY DEF FileInv, IntentInv
<1>3. CASE files[x] = r
  <2>1. intent = r
    BY <1>1, <1>3 DEF IntentInv, PartialIsDetectable
  <2>2. CASE intent' = intent
    BY <2>1, <2>2
  <2>3. ASSUME NEW p \in Proc, intent = req[p],
               pc[p] \in {"intent_linked", "undo_intent"}
        PROVE  FALSE
    BY <1>3, <2>1, <2>3 DEF IntentInv, FreshInv, FreshBy
  <2>4. ASSUME NEW p \in Proc, intent = req[p], pc[p] \in {"cleanup", "restore_linked"}
        PROVE  FALSE
    BY <1>1, <2>1, <2>4 DEF IntentInv, LateInv, Late
  <2> QED
    BY <1>2, <2>1, <2>2, <2>3, <2>4, IntentChange
<1>4. CASE files[x] # r
  <2>1. PICK p \in Proc : pc[p] = "out_temp" /\ req[p] = r
    BY <1>1, <1>2, <1>4, FileChange
  <2>2. intent = r
    BY <2>1 DEF ClaimInv, Claims
  <2>3. \A q \in Proc : pc[q] # "idle" /\ req[q] = r => q = p
    BY <2>1 DEF Unique
  <2> QED
    BY <1>2, <2>1, <2>2, <2>3, IntentChange
<1> QED
  BY <1>3, <1>4

\* The invariant of the intent holds before any call.
LEMMA IntentInit == Init => IntentInv
<1> SUFFICES ASSUME Init PROVE IntentInv
  OBVIOUS
<1>1. ClaimInv /\ OriginInv /\ FreshInv /\ LateInv
  BY DEF Init, ClaimInv, Claims, OriginInv, FreshInv, FreshBy, LateInv, Late
<1>2. PartialIsDetectable
  BY PlanPaths, SentinelAssumption DEF Init, PartialIsDetectable
<1> QED
  BY <1>1, <1>2 DEF IntentInv

\* The invariant of the intent holds in every behaviour without overlapping retries.
LEMMA IntentInvariant == ASSUME ~Overlap PROVE Spec => []IntentInv
<1>1. TypeOK /\ FileInv /\ IntentInv /\ [Next]_vars => IntentInv'
  BY ClaimStep, FreshStep, LateStep, PartialStep DEF FileInv, IntentInv
<1> QED
  BY <1>1, IntentInit, TypeCorrect, FileInvariant, PTL DEF Spec

\* A planned file without its row is announced by the intent of its request, after
\* every kill, failure and rollback: what was interrupted can be found and finished.
THEOREM PartIsAnnounced == ASSUME ~Overlap PROVE Spec => []PartialIsDetectable
BY IntentInvariant, PTL DEF IntentInv

-----------------------------------------------------------------------------
(* An answer that nothing was changed is true. *)

\* A temporary file is made by a call that goes on writing, and leaves with it.
LEMMA TempsStep == TypeOK /\ TempsInv /\ [Next]_vars => TempsInv'
<1> SUFFICES ASSUME TypeOK, TempsInv, [Next]_vars, NEW q \in Proc, q \in temps'
             PROVE  pc'[q] \in Writing
  BY DEF TempsInv
<1> DEFINE Goal == pc'[q] \in Writing
<1> /\ pc \in [Proc -> Running \cup {"idle"}]
    /\ Orphan # q
    /\ q \in temps => pc[q] \in Writing
  BY SentinelAssumption DEF TypeOK, LocalOK, TempsInv
<1> USE DEF Writing
<1>1. CASE UNCHANGED vars
  BY <1>1 DEF vars
<1>2. ASSUME NEW p \in Proc, NEW r \in Request, OpenRefused(p, r) PROVE Goal
  BY <1>2 DEF OpenRefused
<1>3. ASSUME NEW p \in Proc, NEW r \in Request, Open(p, r) PROVE Goal
  BY <1>3 DEF Open, Goto
<1>4. ASSUME NEW p \in Proc, Busy(p) PROVE Goal
  BY <1>4 DEF Busy, Return, Goto
<1>5. ASSUME NEW p \in Proc, Begin(p) PROVE Goal
  BY <1>5 DEF Begin, Goto
<1>6. ASSUME NEW p \in Proc, Snapshot(p) PROVE Goal
  BY <1>6 DEF Snapshot, Reject, Return, Goto
<1>7. ASSUME NEW p \in Proc, RecoveryConflict(p) PROVE Goal
  BY <1>7 DEF RecoveryConflict, Reject, Return, Goto
<1>8. ASSUME NEW p \in Proc, ResumeCommitted(p) PROVE Goal
  BY <1>8 DEF ResumeCommitted, Goto
<1>9. ASSUME NEW p \in Proc, ResumePartial(p) PROVE Goal
  BY <1>9 DEF ResumePartial, Goto
<1>10. ASSUME NEW p \in Proc, TipMismatch(p) PROVE Goal
  BY <1>10 DEF TipMismatch, Reject, Return, Goto
<1>11. ASSUME NEW p \in Proc, TargetExists(p) PROVE Goal
  BY <1>11 DEF TargetExists, Reject, Return, Goto
<1>12. ASSUME NEW p \in Proc, StartIntent(p) PROVE Goal
  BY <1>12 DEF StartIntent, Reject, Return, Goto
<1>13. ASSUME NEW p \in Proc, LinkIntent(p) PROVE Goal
  BY <1>13 DEF LinkIntent, Abort, Goto, DropTemp
<1>14. ASSUME NEW p \in Proc, FinishIntent(p) PROVE Goal
  BY <1>14 DEF FinishIntent, Abort, Goto, DropTemp
<1>15. ASSUME NEW p \in Proc, IntentLost(p) PROVE Goal
  BY <1>15 DEF IntentLost, Abort, Goto, DropTemp
<1>16. ASSUME NEW p \in Proc, StartOutput(p) PROVE Goal
  BY <1>16 DEF StartOutput, Abort, Goto, Planning
<1>17. ASSUME NEW p \in Proc, LinkOutput(p) PROVE Goal
  BY <1>17 DEF LinkOutput, Abort, Goto, DropTemp
<1>18. ASSUME NEW p \in Proc, FinishOutput(p) PROVE Goal
  BY <1>18 DEF FinishOutput, Abort, Goto, DropTemp
<1>19. ASSUME NEW p \in Proc, Insert(p) PROVE Goal
  BY <1>19 DEF Insert, Goto
<1>20. ASSUME NEW p \in Proc, Commit(p) PROVE Goal
  BY <1>20 DEF Commit, Goto
<1>21. ASSUME NEW p \in Proc, PostCheck(p) PROVE Goal
  BY <1>21 DEF PostCheck, Return, Goto
<1>22. ASSUME NEW p \in Proc, RecoveredCheck(p) PROVE Goal
  BY <1>22 DEF RecoveredCheck, Return, Goto
<1>23. ASSUME NEW p \in Proc, RemoveIntent(p) PROVE Goal
  BY <1>23 DEF RemoveIntent, Return, Goto
<1>24. ASSUME NEW p \in Proc, FinalCheck(p) PROVE Goal
  BY <1>24 DEF FinalCheck, Return, Goto
<1>25. ASSUME NEW p \in Proc, RestoreTemp(p) PROVE Goal
  BY <1>25 DEF RestoreTemp, Goto
<1>26. ASSUME NEW p \in Proc, RestoreLink(p) PROVE Goal
  BY <1>26 DEF RestoreLink, Return, Goto, DropTemp
<1>27. ASSUME NEW p \in Proc, RestoreFinish(p) PROVE Goal
  BY <1>27 DEF RestoreFinish, Return, Goto, DropTemp
<1>28. ASSUME NEW p \in Proc, SqlRollback(p) PROVE Goal
  BY <1>28 DEF SqlRollback, Goto
<1>29. ASSUME NEW p \in Proc, Undo(p) PROVE Goal
  BY <1>29 DEF Undo
<1>30. ASSUME NEW p \in Proc, UndoIntent(p) PROVE Goal
  BY <1>30 DEF UndoIntent, Goto
<1>30a. ASSUME NEW p \in Proc, RemoveFresh(p) PROVE Goal
  BY <1>30a DEF RemoveFresh, Goto
<1>31. ASSUME NEW p \in Proc, Verdict(p) PROVE Goal
  BY <1>31 DEF Verdict, Return, Goto
<1>32. ASSUME NEW p \in Proc, FailIntent(p) PROVE Goal
  <2>1. \E kept \in BOOLEAN : temps' = DropTemp(p, kept)
    BY <1>32 DEF FailIntent
  <2>2. pc' = [pc EXCEPT ![p] = "rollback"]
    BY <1>32 DEF FailIntent, Abort, Goto
  <2>3. p # q /\ q \in temps
    BY <2>1 DEF DropTemp
  <2> QED
    BY <2>2, <2>3
<1>33. ASSUME NEW p \in Proc, FailOutput(p) PROVE Goal
  <2>1. \E kept \in BOOLEAN : temps' = DropTemp(p, kept)
    BY <1>33 DEF FailOutput
  <2>2. pc' = [pc EXCEPT ![p] = "rollback"]
    BY <1>33 DEF FailOutput, Abort, Goto
  <2>3. p # q /\ q \in temps
    BY <2>1 DEF DropTemp
  <2> QED
    BY <2>2, <2>3
<1>34. ASSUME NEW p \in Proc, FailInsert(p) PROVE Goal
  BY <1>34 DEF FailInsert, Abort, Goto
<1>35. ASSUME NEW p \in Proc, FailCommit(p) PROVE Goal
  BY <1>35 DEF FailCommit, Return, Goto
<1>36. ASSUME NEW p \in Proc, FailRemoveIntent(p) PROVE Goal
  BY <1>36 DEF FailRemoveIntent, Return, Goto
<1>37. ASSUME NEW p \in Proc, FailRestore(p) PROVE Goal
  BY <1>37 DEF FailRestore, Return, Goto, DropTemp
<1>38. ASSUME NEW p \in Proc, FailUndo(p) PROVE Goal
  BY <1>38 DEF FailUndo
<1>39. ASSUME NEW p \in Proc, FailUndoIntent(p) PROVE Goal
  BY <1>39 DEF FailUndoIntent, Goto
<1>40. ASSUME NEW p \in Proc, Crash(p) PROVE Goal
  BY <1>40 DEF Crash, Return, Goto, DropTemp
<1>41. ASSUME NEW y \in Path, ForeignWrite(y) PROVE Goal
  BY <1>41 DEF ForeignWrite
<1> QED
  BY
     <1>1, <1>2, <1>3, <1>4, <1>5, <1>6, <1>7, <1>8, <1>9, <1>10, <1>11,
     <1>12, <1>13, <1>14, <1>15, <1>16, <1>17, <1>18, <1>19, <1>20, <1>21,
     <1>22, <1>23, <1>24, <1>25, <1>26, <1>27, <1>28, <1>29, <1>30, <1>30a, <1>31,
     <1>32, <1>33, <1>34, <1>35, <1>36, <1>37, <1>38, <1>39, <1>40, <1>41
  DEF Next, Call, Step, Fault

\* A call sees the tree as it is when it takes its snapshot.
LEMMA SnappedBySelf ==
  ASSUME TypeOK, NEW p \in Proc, Call(p) \/ Step(p) \/ Fault(p) \/ Crash(p)
  PROVE  SnappedBy(p)'
<1> /\ pc \in [Proc -> Running \cup {"idle"}] /\ init \in [Proc -> Trees]
  BY DEF TypeOK, LocalOK
<1> SUFFICES ASSUME pc'[p] = "snapped" PROVE SnappedBy(p)'
  BY DEF SnappedBy
<1>1. ASSUME NEW r \in Request, OpenRefused(p, r) PROVE SnappedBy(p)'
  BY <1>1 DEF OpenRefused
<1>2. ASSUME NEW r \in Request, Open(p, r) PROVE SnappedBy(p)'
  BY <1>2 DEF Open, Goto
<1>3. ASSUME Busy(p) PROVE SnappedBy(p)'
  BY <1>3 DEF Busy, Return, Goto
<1>4. ASSUME Begin(p) PROVE SnappedBy(p)'
  BY <1>4 DEF Begin, Goto
<1>5. ASSUME Snapshot(p) PROVE SnappedBy(p)'
  <2>1. init'[p] = Tree /\ UNCHANGED durable
    BY <1>5 DEF Snapshot, Reject, Return, Goto
  <2> QED
    BY <2>1 DEF SnappedBy, Tree
<1>6. ASSUME RecoveryConflict(p) PROVE SnappedBy(p)'
  BY <1>6 DEF RecoveryConflict, Reject, Return, Goto
<1>7. ASSUME ResumeCommitted(p) PROVE SnappedBy(p)'
  BY <1>7 DEF ResumeCommitted, Goto
<1>8. ASSUME ResumePartial(p) PROVE SnappedBy(p)'
  BY <1>8 DEF ResumePartial, Goto
<1>9. ASSUME TipMismatch(p) PROVE SnappedBy(p)'
  BY <1>9 DEF TipMismatch, Reject, Return, Goto
<1>10. ASSUME TargetExists(p) PROVE SnappedBy(p)'
  BY <1>10 DEF TargetExists, Reject, Return, Goto
<1>11. ASSUME StartIntent(p) PROVE SnappedBy(p)'
  BY <1>11 DEF StartIntent, Reject, Return, Goto
<1>12. ASSUME LinkIntent(p) PROVE SnappedBy(p)'
  BY <1>12 DEF LinkIntent, Abort, Goto
<1>13. ASSUME FinishIntent(p) PROVE SnappedBy(p)'
  BY <1>13 DEF FinishIntent, Abort, Goto
<1>14. ASSUME IntentLost(p) PROVE SnappedBy(p)'
  BY <1>14 DEF IntentLost, Abort, Goto
<1>15. ASSUME StartOutput(p) PROVE SnappedBy(p)'
  BY <1>15 DEF StartOutput, Abort, Goto, Planning
<1>16. ASSUME LinkOutput(p) PROVE SnappedBy(p)'
  BY <1>16 DEF LinkOutput, Abort, Goto
<1>17. ASSUME FinishOutput(p) PROVE SnappedBy(p)'
  BY <1>17 DEF FinishOutput, Abort, Goto
<1>18. ASSUME Insert(p) PROVE SnappedBy(p)'
  BY <1>18 DEF Insert, Goto
<1>19. ASSUME Commit(p) PROVE SnappedBy(p)'
  BY <1>19 DEF Commit, Goto
<1>20. ASSUME PostCheck(p) PROVE SnappedBy(p)'
  BY <1>20 DEF PostCheck, Return, Goto
<1>21. ASSUME RecoveredCheck(p) PROVE SnappedBy(p)'
  BY <1>21 DEF RecoveredCheck, Return, Goto
<1>22. ASSUME RemoveIntent(p) PROVE SnappedBy(p)'
  BY <1>22 DEF RemoveIntent, Return, Goto
<1>23. ASSUME FinalCheck(p) PROVE SnappedBy(p)'
  BY <1>23 DEF FinalCheck, Return, Goto
<1>24. ASSUME RestoreTemp(p) PROVE SnappedBy(p)'
  BY <1>24 DEF RestoreTemp, Goto
<1>25. ASSUME RestoreLink(p) PROVE SnappedBy(p)'
  BY <1>25 DEF RestoreLink, Return, Goto
<1>26. ASSUME RestoreFinish(p) PROVE SnappedBy(p)'
  BY <1>26 DEF RestoreFinish, Return, Goto
<1>27. ASSUME SqlRollback(p) PROVE SnappedBy(p)'
  BY <1>27 DEF SqlRollback, Goto
<1>28. ASSUME Undo(p) PROVE SnappedBy(p)'
  BY <1>28 DEF Undo
<1>29. ASSUME UndoIntent(p) PROVE SnappedBy(p)'
  BY <1>29 DEF UndoIntent, Goto
<1>29a. ASSUME RemoveFresh(p) PROVE SnappedBy(p)'
  BY <1>29a DEF RemoveFresh, Goto
<1>30. ASSUME Verdict(p) PROVE SnappedBy(p)'
  BY <1>30 DEF Verdict, Return, Goto
<1>31. ASSUME FailIntent(p) PROVE SnappedBy(p)'
  BY <1>31 DEF FailIntent, Abort, Goto
<1>32. ASSUME FailOutput(p) PROVE SnappedBy(p)'
  BY <1>32 DEF FailOutput, Abort, Goto
<1>33. ASSUME FailInsert(p) PROVE SnappedBy(p)'
  BY <1>33 DEF FailInsert, Abort, Goto
<1>34. ASSUME FailCommit(p) PROVE SnappedBy(p)'
  BY <1>34 DEF FailCommit, Return, Goto
<1>35. ASSUME FailRemoveIntent(p) PROVE SnappedBy(p)'
  BY <1>35 DEF FailRemoveIntent, Return, Goto
<1>36. ASSUME FailRestore(p) PROVE SnappedBy(p)'
  BY <1>36 DEF FailRestore, Return, Goto
<1>37. ASSUME FailUndo(p) PROVE SnappedBy(p)'
  BY <1>37 DEF FailUndo
<1>38. ASSUME FailUndoIntent(p) PROVE SnappedBy(p)'
  BY <1>38 DEF FailUndoIntent, Goto
<1>39. ASSUME Crash(p) PROVE SnappedBy(p)'
  BY <1>39 DEF Crash, Return, Goto
<1> QED
  BY
     <1>1, <1>2, <1>3, <1>4, <1>5, <1>6, <1>7, <1>8, <1>9, <1>10, <1>11,
     <1>12, <1>13, <1>14, <1>15, <1>16, <1>17, <1>18, <1>19, <1>20, <1>21,
     <1>22, <1>23, <1>24, <1>25, <1>26, <1>27, <1>28, <1>29, <1>29a, <1>30, <1>31,
     <1>32, <1>33, <1>34, <1>35, <1>36, <1>37, <1>38, <1>39
  DEF Call, Step, Fault

\* Until it writes, the lock keeps the ledger, and nobody else has its request.
LEMMA SnappedByOther ==
  ASSUME TypeOK, LockInv, Unique, Progress, Owned, ClaimInv, OriginInv, [Next]_vars,
         NEW q \in Proc, SnappedBy(q),
         pc'[q] = pc[q], req'[q] = req[q], init'[q] = init[q]
  PROVE  SnappedBy(q)'
<1> SUFFICES ASSUME pc[q] = "snapped" PROVE SnappedBy(q)'
  BY DEF SnappedBy
<1>1. /\ req[q] \in Request /\ req[q] # None /\ req[q] # Foreign
      /\ \A p \in Proc : pc[p] # "idle" /\ req[p] = req[q] => pc[p] = "snapped"
      /\ \A p \in Proc : pc[p] # "inserted"
  BY SentinelAssumption DEF TypeOK, LocalOK, Unique, LockInv, Locked
<1>2. ledger' = ledger
  BY <1>1, LedgerMoves
<1>3. intent' = req[q] => intent = req[q]
  BY <1>1, IntentChange
<1>4. ASSUME NEW x \in Planned(req[q]), files'[x] = req[q] PROVE files[x] = req[q]
  BY <1>1, <1>4, PlanPaths, FileChange
<1> QED
  BY <1>2, <1>3, <1>4 DEF SnappedBy

\* Every step keeps what a call with a snapshot knows of its bundle.
LEMMA SnappedStep ==
  TypeOK /\ LockInv /\ FileInv /\ IntentInv /\ SnappedInv /\ [Next]_vars => SnappedInv'
<1> SUFFICES ASSUME TypeOK, LockInv, FileInv, IntentInv, SnappedInv, [Next]_vars,
                    NEW q \in Proc
             PROVE  SnappedBy(q)'
  BY DEF SnappedInv
<1> /\ SnappedBy(q) /\ Unique /\ Progress /\ Owned /\ ClaimInv /\ OriginInv
  BY DEF SnappedInv, FileInv, IntentInv
<1>1. CASE UNCHANGED vars \/ \E x \in Path : ForeignWrite(x)
  BY <1>1, SnappedByOther DEF vars, ForeignWrite
<1>2. ASSUME NEW p \in Proc, Call(p) \/ Step(p) \/ Fault(p) \/ Crash(p)
      PROVE  SnappedBy(q)'
  <2>1. CASE p = q
    BY <1>2, <2>1, SnappedBySelf
  <2>2. CASE p # q
    BY <1>2, <2>2, OthersKeep, SnappedByOther
  <2> QED
    BY <2>1, <2>2
<1> QED
  BY <1>1, <1>2 DEF Next

\* The places from where a call answers that nothing was changed.
LEMMA UnmutatedReturn ==
  ASSUME TypeOK, [Next]_vars, NEW q \in Proc,
         pc[q] # "idle", pc'[q] = "idle", ~res'[q].mutated
  PROVE  /\ UNCHANGED durable
         /\ \/ pc[q] \in {"opened", "begun", "snapped"}
            \/ pc[q] = "verdict" /\ Tree = init[q]
<1> DEFINE Goal == /\ UNCHANGED durable
                   /\ \/ pc[q] \in {"opened", "begun", "snapped"}
                      \/ pc[q] = "verdict" /\ Tree = init[q]
<1> /\ pc \in [Proc -> Running \cup {"idle"}]
    /\ res \in [Proc -> [code : Codes, mutated : BOOLEAN]]
  BY DEF TypeOK, LocalOK
<1> USE DEF Response
<1>1. CASE UNCHANGED vars
  BY <1>1 DEF vars
<1>2. ASSUME NEW p \in Proc, NEW r \in Request, OpenRefused(p, r) PROVE Goal
  BY <1>2 DEF OpenRefused
<1>3. ASSUME NEW p \in Proc, NEW r \in Request, Open(p, r) PROVE Goal
  BY <1>3 DEF Open, Goto
<1>4. ASSUME NEW p \in Proc, Busy(p) PROVE Goal
  BY <1>4 DEF Busy, Return, Goto
<1>5. ASSUME NEW p \in Proc, Begin(p) PROVE Goal
  BY <1>5 DEF Begin, Goto
<1>6. ASSUME NEW p \in Proc, Snapshot(p) PROVE Goal
  BY <1>6 DEF Snapshot, Reject, Return, Goto
<1>7. ASSUME NEW p \in Proc, RecoveryConflict(p) PROVE Goal
  BY <1>7 DEF RecoveryConflict, Reject, Return, Goto
<1>8. ASSUME NEW p \in Proc, ResumeCommitted(p) PROVE Goal
  BY <1>8 DEF ResumeCommitted, Goto
<1>9. ASSUME NEW p \in Proc, ResumePartial(p) PROVE Goal
  BY <1>9 DEF ResumePartial, Goto
<1>10. ASSUME NEW p \in Proc, TipMismatch(p) PROVE Goal
  BY <1>10 DEF TipMismatch, Reject, Return, Goto
<1>11. ASSUME NEW p \in Proc, TargetExists(p) PROVE Goal
  BY <1>11 DEF TargetExists, Reject, Return, Goto
<1>12. ASSUME NEW p \in Proc, StartIntent(p) PROVE Goal
  BY <1>12 DEF StartIntent, Reject, Return, Goto
<1>13. ASSUME NEW p \in Proc, LinkIntent(p) PROVE Goal
  BY <1>13 DEF LinkIntent, Abort, Goto
<1>14. ASSUME NEW p \in Proc, FinishIntent(p) PROVE Goal
  BY <1>14 DEF FinishIntent, Abort, Goto
<1>15. ASSUME NEW p \in Proc, IntentLost(p) PROVE Goal
  BY <1>15 DEF IntentLost, Abort, Goto
<1>16. ASSUME NEW p \in Proc, StartOutput(p) PROVE Goal
  BY <1>16 DEF StartOutput, Abort, Goto, Planning
<1>17. ASSUME NEW p \in Proc, LinkOutput(p) PROVE Goal
  BY <1>17 DEF LinkOutput, Abort, Goto
<1>18. ASSUME NEW p \in Proc, FinishOutput(p) PROVE Goal
  BY <1>18 DEF FinishOutput, Abort, Goto
<1>19. ASSUME NEW p \in Proc, Insert(p) PROVE Goal
  BY <1>19 DEF Insert, Goto
<1>20. ASSUME NEW p \in Proc, Commit(p) PROVE Goal
  BY <1>20 DEF Commit, Goto
<1>21. ASSUME NEW p \in Proc, PostCheck(p) PROVE Goal
  BY <1>21 DEF PostCheck, Return, Goto
<1>22. ASSUME NEW p \in Proc, RecoveredCheck(p) PROVE Goal
  BY <1>22 DEF RecoveredCheck, Return, Goto
<1>23. ASSUME NEW p \in Proc, RemoveIntent(p) PROVE Goal
  BY <1>23 DEF RemoveIntent, Return, Goto
<1>24. ASSUME NEW p \in Proc, FinalCheck(p) PROVE Goal
  BY <1>24 DEF FinalCheck, Return, Goto
<1>25. ASSUME NEW p \in Proc, RestoreTemp(p) PROVE Goal
  BY <1>25 DEF RestoreTemp, Goto
<1>26. ASSUME NEW p \in Proc, RestoreLink(p) PROVE Goal
  <2>1. CASE Goto(p, "restore_linked")
    BY <1>26, <2>1 DEF RestoreLink, Goto
  <2>2. CASE Return(p, "durability_uncertain", TRUE)
    BY <2>2 DEF Return, Goto
  <2> QED
    BY <1>26, <2>1, <2>2 DEF RestoreLink
<1>27. ASSUME NEW p \in Proc, RestoreFinish(p) PROVE Goal
  <2>1. p # q => pc'[q] = pc[q]
    BY <1>27 DEF RestoreFinish, Return, Goto
  <2>2. p = q => res'[q].mutated
    BY <1>27 DEF RestoreFinish, Return
  <2> QED
    BY <2>1, <2>2
<1>28. ASSUME NEW p \in Proc, SqlRollback(p) PROVE Goal
  BY <1>28 DEF SqlRollback, Goto
<1>29. ASSUME NEW p \in Proc, Undo(p) PROVE Goal
  BY <1>29 DEF Undo
<1>30. ASSUME NEW p \in Proc, UndoIntent(p) PROVE Goal
  BY <1>30 DEF UndoIntent, Goto
<1>30a. ASSUME NEW p \in Proc, RemoveFresh(p) PROVE Goal
  BY <1>30a DEF RemoveFresh, Goto
<1>31. ASSUME NEW p \in Proc, Verdict(p) PROVE Goal
  BY <1>31 DEF Verdict, Return, Goto
<1>32. ASSUME NEW p \in Proc, FailIntent(p) PROVE Goal
  BY <1>32 DEF FailIntent, Abort, Goto
<1>33. ASSUME NEW p \in Proc, FailOutput(p) PROVE Goal
  BY <1>33 DEF FailOutput, Abort, Goto
<1>34. ASSUME NEW p \in Proc, FailInsert(p) PROVE Goal
  BY <1>34 DEF FailInsert, Abort, Goto
<1>35. ASSUME NEW p \in Proc, FailCommit(p) PROVE Goal
  BY <1>35 DEF FailCommit, Return, Goto
<1>36. ASSUME NEW p \in Proc, FailRemoveIntent(p) PROVE Goal
  BY <1>36 DEF FailRemoveIntent, Return, Goto
<1>37. ASSUME NEW p \in Proc, FailRestore(p) PROVE Goal
  BY <1>37 DEF FailRestore, Return, Goto
<1>38. ASSUME NEW p \in Proc, FailUndo(p) PROVE Goal
  BY <1>38 DEF FailUndo
<1>39. ASSUME NEW p \in Proc, FailUndoIntent(p) PROVE Goal
  BY <1>39 DEF FailUndoIntent, Goto
<1>40. ASSUME NEW p \in Proc, Crash(p) PROVE Goal
  BY <1>40 DEF Crash, Return, Goto
<1>41. ASSUME NEW y \in Path, ForeignWrite(y) PROVE Goal
  BY <1>41 DEF ForeignWrite
<1> QED
  BY
     <1>1, <1>2, <1>3, <1>4, <1>5, <1>6, <1>7, <1>8, <1>9, <1>10, <1>11,
     <1>12, <1>13, <1>14, <1>15, <1>16, <1>17, <1>18, <1>19, <1>20, <1>21,
     <1>22, <1>23, <1>24, <1>25, <1>26, <1>27, <1>28, <1>29, <1>30, <1>30a, <1>31,
     <1>32, <1>33, <1>34, <1>35, <1>36, <1>37, <1>38, <1>39, <1>40, <1>41
  DEF Next, Call, Step, Fault

\* Such a call leaves behind no temporary, and nothing that its snapshot had not.
LEMMA RestoreStep ==
  ASSUME TypeOK, SnappedInv, TempsInv', [Next]_vars, NEW p \in Proc,
         pc[p] # "idle", pc'[p] = "idle", ~res'[p].mutated
  PROVE  /\ p \notin temps'
         /\ pc[p] \notin {"opened", "begun"} =>
              /\ intent' = req[p] => init[p].intent = req[p]
              /\ \A x \in Planned(req[p]) :
                   files'[x] = req[p] => init[p].files[x] = req[p]
              /\ req[p] \in Committed' =>
                   \E i \in 1..Len(init[p].ledger) : init[p].ledger[i] = req[p]
<1>1. p \notin temps'
  BY DEF TempsInv, Writing
<1>2. UNCHANGED durable
  BY UnmutatedReturn
<1>3. /\ Committed' = Committed
      /\ req[p] \in Committed => \E i \in 1..Len(ledger) : ledger[i] = req[p]
  BY <1>2 DEF Committed
<1>4. CASE pc[p] = "snapped"
  BY <1>1, <1>2, <1>3, <1>4 DEF SnappedInv, SnappedBy
<1>5. CASE Tree = init[p]
  <2>1. init[p].ledger = ledger /\ init[p].intent = intent /\ init[p].files = files
    BY <1>5 DEF Tree
  <2> QED
    BY <1>1, <1>2, <1>3, <2>1
<1> QED
  BY <1>1, <1>4, <1>5, UnmutatedReturn

\* Whoever is told that nothing was changed finds no temporary, intent, file or row
\* of the request that was not there before, for any kills, failures and competitors.
THEOREM FalseMutationIsTrue == ASSUME ~Overlap PROVE Spec => FalseMutationRestores
<1>1. Init => TempsInv /\ SnappedInv
  BY DEF Init, TempsInv, SnappedInv, SnappedBy
<1>2. TypeOK /\ LedgerInv /\ FileInv /\ IntentInv /\ TempsInv /\ SnappedInv /\ [Next]_vars
        => TempsInv' /\ SnappedInv'
  BY TempsStep, SnappedStep DEF LedgerInv
<1>3. TypeOK /\ SnappedInv /\ TempsInv' /\ [Next]_vars
        => [\A p \in Proc :
              /\ pc[p] # "idle" /\ pc'[p] = "idle" /\ ~res'[p].mutated
              => /\ p \notin temps'
                 /\ pc[p] \notin {"opened", "begun"} =>
                      /\ intent' = req[p] => init[p].intent = req[p]
                      /\ \A x \in Planned(req[p]) :
                           files'[x] = req[p] => init[p].files[x] = req[p]
                      /\ req[p] \in Committed' =>
                           \E i \in 1..Len(init[p].ledger) :
                             init[p].ledger[i] = req[p]]_vars
  BY RestoreStep
<1> QED
  BY <1>1, <1>2, <1>3, TypeCorrect, LedgerInvariant, FileInvariant, IntentInvariant, PTL
     DEF Spec, FalseMutationRestores

-----------------------------------------------------------------------------
(* Callers that call once and at the same time. *)

\* When nothing may fail or be killed there is only what the calls do.
LEMMA NothingFails ==
  ASSUME TypeOK, MaxCrashes = 0, MaxFaults = 0, [OneShotNext]_vars
  PROVE  \/ UNCHANGED vars
         \/ \E p \in Proc : (res[p].code = "none" /\ Call(p)) \/ Step(p)
<1>1. crashes \in Nat /\ faults \in Nat
  BY DEF TypeOK, SharedOK
<1>2. \A b \in BOOLEAN : ~Spend(b)
  BY <1>1 DEF Spend
<1>3. ASSUME NEW p \in Proc, Fault(p) PROVE FALSE
  <2>1. ~FailIntent(p)
    BY <1>2 DEF FailIntent
  <2>2. ~FailOutput(p)
    BY <1>2 DEF FailOutput
  <2>3. ~FailRestore(p)
    BY <1>2 DEF FailRestore
  <2> QED
    BY <1>2, <1>3, <2>1, <2>2, <2>3
       DEF Fault, FailInsert, FailCommit, FailRemoveIntent, FailUndo, FailUndoIntent
<1>4. ASSUME NEW p \in Proc, Crash(p) PROVE FALSE
  <2>1. crashes < MaxCrashes
    BY <1>4 DEF Crash
  <2> QED BY <1>1, <2>1
<1> QED
  BY <1>3, <1>4 DEF OneShotNext

\* One call at a time is inside the transaction.
LEMMA LockedAlone ==
  ASSUME LockInv, NEW p \in Proc, NEW q \in Proc, pc[p] \in Locked, pc[q] \in Locked
  PROVE  p = q
BY DEF LockInv

\* The steps of a call that has not begun its bundle.
LEMMA WaitingMoves ==
  ASSUME NEW p \in Proc, Step(p)
  PROVE  /\ pc[p] # "idle"
         /\ pc[p] = "opened" => Busy(p) \/ Begin(p)
         /\ pc[p] = "begun" => Snapshot(p)
         /\ pc[p] = "snapped" =>
              \/ RecoveryConflict(p) \/ ResumeCommitted(p) \/ ResumePartial(p)
              \/ TipMismatch(p) \/ TargetExists(p) \/ StartIntent(p)
BY DEF Step, Busy, Begin, Snapshot, RecoveryConflict, ResumeCommitted, ResumePartial,
       TipMismatch, TargetExists, StartIntent, LinkIntent, FinishIntent, IntentLost,
       StartOutput, Planning, LinkOutput, FinishOutput, Insert, Commit, PostCheck,
       RecoveredCheck, RemoveIntent, FinalCheck, RestoreTemp, RestoreLink, RestoreFinish,
       SqlRollback, Undo, UndoIntent, RemoveFresh, Verdict

\* The steps of a call that writes its bundle or finishes it.
LEMMA WritingMoves ==
  ASSUME NEW p \in Proc, Step(p)
  PROVE  /\ pc[p] = "intent_temp" => LinkIntent(p)
         /\ pc[p] = "intent_linked" => FinishIntent(p) \/ IntentLost(p)
         /\ pc[p] = "publish" => StartOutput(p) \/ Insert(p)
         /\ pc[p] = "out_temp" => LinkOutput(p)
         /\ pc[p] = "out_linked" => FinishOutput(p)
         /\ pc[p] = "inserted" => Commit(p)
         /\ pc[p] = "postcheck" => PostCheck(p)
         /\ pc[p] = "recovered" => RecoveredCheck(p)
         /\ pc[p] = "cleanup" => RemoveIntent(p)
         /\ pc[p] = "final" => FinalCheck(p)
BY DEF Step, Busy, Begin, Snapshot, RecoveryConflict, ResumeCommitted, ResumePartial,
       TipMismatch, TargetExists, StartIntent, LinkIntent, FinishIntent, IntentLost,
       StartOutput, Planning, LinkOutput, FinishOutput, Insert, Commit, PostCheck,
       RecoveredCheck, RemoveIntent, FinalCheck, RestoreTemp, RestoreLink, RestoreFinish,
       SqlRollback, Undo, UndoIntent, RemoveFresh, Verdict

-----------------------------------------------------------------------------
(* Until the bundle is committed. *)

\* A caller that waits leaves the tree to the one that writes, and returns only
\* while that one runs.
LEMMA BeforeByOther ==
  ASSUME TypeOK, LockInv', Before, NEW p \in Proc, Call(p) \/ Step(p),
         BeforeBy(p)',
         pc'[p] \notin TipHeld => UNCHANGED durable /\ pc[p] \notin TipHeld,
         pc'[p] = "idle" => \E q \in Proc \ {p} : pc[q] # "idle"
  PROVE  Before'
<1>0. \A q \in Proc \ {p} : /\ pc'[q] = pc[q] /\ req'[q] = req[q] /\ init'[q] = init[q]
                            /\ next'[q] = next[q] /\ made'[q] = made[q]
                            /\ res'[q] = res[q]
  BY OthersKeep
<1>1. ASSUME NEW q \in Proc PROVE BeforeBy(q)'
  <2>1. CASE q = p
    BY <2>1
  <2>2. CASE q # p /\ pc[q] \notin TipHeld
    BY <1>0, <2>2 DEF Before, BeforeBy
  <2>3. CASE q # p /\ pc[q] \in TipHeld
    <3>1. pc'[q] \in TipHeld /\ pc'[q] \in Locked
      BY <1>0, <2>3 DEF TipHeld, Locked
    <3>2. pc'[p] \notin TipHeld
      <4>1. SUFFICES ASSUME pc'[p] \in Locked PROVE FALSE
        BY DEF TipHeld, Locked
      <4> QED BY <2>3, <3>1, <4>1 DEF LockInv
    <3>3. UNCHANGED durable
      BY <3>2
    <3>4. Writes(q) /\ init'[q] = init[q] /\ made'[q] = made[q] /\ next'[q] = next[q]
          /\ req'[q] = req[q] /\ pc'[q] = pc[q]
      BY <1>0, <2>3 DEF Before, BeforeBy
    <3>6. Writes(q)'
      BY <3>3, <3>4 DEF Writes
    <3>7. pc'[q] # "snapped"
      BY <3>1 DEF TipHeld
    <3> QED BY <1>0, <2>3, <3>1, <3>6, <3>7 DEF Before, BeforeBy
  <2> QED BY <2>1, <2>2, <2>3
<1>2. ASSUME \A q \in Proc : pc'[q] \notin TipHeld PROVE Tree' = NoTree
  <2>1. UNCHANGED durable /\ \A q \in Proc : pc[q] \notin TipHeld
    BY <1>0, <1>2
  <2> QED BY <2>1 DEF Before, Tree, NoTree
<1>3. ~ \A q \in Proc : pc'[q] = "idle"
  BY <1>0
<1> QED
  BY <1>1, <1>2, <1>3 DEF Before, BeforeBy

\* The five fields of a tree, and what replacing some of them gives.
Record(l, j, i, f, t) ==
  [ledger |-> l, journal |-> j, intent |-> i, files |-> f, temps |-> t]

WithTemps(x, t) == [x EXCEPT !.temps = t]
WithIntent(x, i) == [x EXCEPT !.intent = i]
WithFiles(x, f) == [x EXCEPT !.files = f]
WithLedger(x, l) == [x EXCEPT !.ledger = l]
Filled(x, i, f) == [x EXCEPT !.intent = i, !.files = f]
Finished(x, i, f, l) == [x EXCEPT !.intent = i, !.files = f, !.ledger = l]

LEMMA TreeFields ==
  ASSUME NEW x \in Trees
  PROVE  /\ x = Record(x.ledger, x.journal, x.intent, x.files, x.temps)
         /\ \A t : WithTemps(x, t) = Record(x.ledger, x.journal, x.intent, x.files, t)
         /\ \A i \in Request \cup {None} :
              /\ WithIntent(x, i) = Record(x.ledger, x.journal, i, x.files, x.temps)
              /\ WithIntent(x, i) \in Trees
         /\ \A f \in [Path -> Bytes] :
              /\ WithFiles(x, f) = Record(x.ledger, x.journal, x.intent, f, x.temps)
              /\ WithFiles(x, f) \in Trees
         /\ \A l : WithLedger(x, l) = Record(l, x.journal, x.intent, x.files, x.temps)
BY DEF Trees, Record, WithTemps, WithIntent, WithFiles, WithLedger

\* The same for several fields at once.
LEMMA TreeChanged ==
  ASSUME NEW x \in Trees, NEW i \in Request \cup {None}, NEW f \in [Path -> Bytes]
  PROVE  /\ Filled(x, i, f) = Record(x.ledger, x.journal, i, f, x.temps)
         /\ \A l : Finished(x, i, f, l) = Record(l, x.journal, i, f, x.temps)
<1> DEFINE y == WithIntent(x, i)
           z == WithFiles(y, f)
<1>1. y = Record(x.ledger, x.journal, i, x.files, x.temps) /\ y \in Trees
  BY TreeFields
<1>2. Filled(x, i, f) = z /\ \A l : Finished(x, i, f, l) = WithLedger(z, l)
  BY DEF Filled, Finished, WithIntent, WithFiles, WithLedger
<1>3. /\ y.ledger = x.ledger /\ y.journal = x.journal /\ y.intent = i /\ y.temps = x.temps
  BY <1>1 DEF Record
<1> HIDE DEF y
<1>4. z = Record(x.ledger, x.journal, i, f, x.temps) /\ z \in Trees
  BY <1>1, <1>3, TreeFields
<1>5. /\ z.journal = x.journal /\ z.intent = i /\ z.temps = x.temps /\ z.files = f
  BY <1>4 DEF Record
<1> HIDE DEF z
<1>6. \A l : WithLedger(z, l) = Record(l, x.journal, i, f, x.temps)
  BY <1>4, <1>5, TreeFields
<1> QED BY <1>2, <1>4, <1>6

\* The tree on disk, field by field.
LEMMA SeenTree ==
  ASSUME TypeOK
  PROVE  /\ Tree = Record(ledger, journal, intent, files, temps)
         /\ \A t : WithTemps(Tree, t) = Record(ledger, journal, intent, files, t)
<1>1. /\ Tree \in Trees /\ Tree.ledger = ledger /\ Tree.journal = journal
      /\ Tree.intent = intent /\ Tree.files = files /\ Tree.temps = temps
      /\ intent \in Request \cup {None} /\ files \in [Path -> Bytes]
  BY TreeType DEF Tree, TypeOK, SharedOK
<1> QED BY <1>1, TreeFields

\* Publishing a plan in its order, into an empty tree.
LEMMA PlacedFacts ==
  ASSUME NEW r \in Request
  PROVE  /\ Placed(r, 0) = [x \in Path |-> None]
         /\ \A n \in Nat : n + 1 <= Len(Outputs[r]) =>
              /\ Outputs[r][n + 1] \in Path
              /\ Placed(r, n)[Outputs[r][n + 1]] = None
              /\ Placed(r, n + 1) = [Placed(r, n) EXCEPT ![Outputs[r][n + 1]] = r]
<1>1. Placed(r, 0) = [x \in Path |-> None]
  BY DEF Placed
<1>2. ASSUME NEW n \in Nat, n + 1 <= Len(Outputs[r])
      PROVE  /\ Outputs[r][n + 1] \in Path
             /\ Placed(r, n)[Outputs[r][n + 1]] = None
             /\ Placed(r, n + 1) = [Placed(r, n) EXCEPT ![Outputs[r][n + 1]] = r]
  <2>1. Outputs[r][n + 1] \in Path /\ \A i \in 1..n : Outputs[r][i] # Outputs[r][n + 1]
    BY <1>2, PlanPaths
  <2>2. 1..(n + 1) = (1..n) \cup {n + 1}
    OBVIOUS
  <2> QED BY <2>1, <2>2 DEF Placed
<1> QED BY <1>1, <1>2

\* What a call that began on the empty tree expects when n files are published.
LEMMA ExpectedPlaced ==
  ASSUME NEW p \in Proc, init[p] = NoTree, req[p] \in Request, NEW n
  PROVE  /\ ExpectedFiles(p, 1..n) = Placed(req[p], n)
         /\ ExpectedTree(p, 1..n) = Record(<<>>, FALSE, req[p], Placed(req[p], n), {})
<1>1. ExpectedFiles(p, 1..n) = Placed(req[p], n) /\ Placed(req[p], n) \in [Path -> Bytes]
  BY DEF ExpectedFiles, Placed, NoTree, Bytes
<1>2. ExpectedTree(p, 1..n) = Filled(NoTree, req[p], Placed(req[p], n))
  BY <1>1 DEF ExpectedTree, Filled
<1>3. @ = Record(NoTree.ledger, NoTree.journal, req[p], Placed(req[p], n), NoTree.temps)
  BY <1>1, NoTreeType, TreeChanged
<1>4. NoTree.ledger = <<>> /\ NoTree.journal = FALSE /\ NoTree.temps = {}
  BY DEF NoTree
<1> QED BY <1>1, <1>2, <1>3, <1>4

\* What a caller does until it writes: the first one passes every check, the others
\* are refused while that one runs.
LEMMA BeforeWaiting ==
  ASSUME TypeOK, LockInv, Progress, ledger = <<>>, Before,
         NEW r \in Request, ExpectedTip[r] = Root,
         NEW p \in Proc, req[p] \in {None, r}, pc[p] \in Waiting, Call(p) \/ Step(p)
  PROVE  /\ BeforeBy(p)' /\ pc[p] \notin TipHeld /\ ledger' = ledger
         /\ pc'[p] \notin TipHeld => UNCHANGED durable
         /\ pc'[p] = "idle" => \E q \in Proc \ {p} : pc[q] # "idle"
<1> /\ pc \in [Proc -> Running \cup {"idle"}] /\ req \in [Proc -> Request \cup {None}]
    /\ init \in [Proc -> Trees] /\ next \in [Proc -> Nat \ {0}] /\ made \in [Proc -> SUBSET Nat]
    /\ res \in [Proc -> [code : Codes, mutated : BOOLEAN]] /\ lock \in Proc \cup {None}
    /\ pc[p] # "idle" => req[p] \in Request
  BY DEF TypeOK, LocalOK, SharedOK
<1>0. /\ pc[p] \in {"idle", "opened", "begun", "snapped"} /\ pc[p] \notin TipHeld
      /\ res[p].code # "accepted" /\ (pc[p] # "idle" => res[p].code = "none")
      /\ pc[p] = "snapped" => init[p] = NoTree
  BY DEF Before, BeforeBy, Waiting, TipHeld
<1>1. CASE pc[p] = "idle"
  <2>1. PICK s \in Request : OpenRefused(p, s) \/ Open(p, s)
    BY <1>1, WaitingMoves DEF Call
  <2>2. CASE OpenRefused(p, s)
    <3>1. PICK q \in Proc : pc[q] \in TipHeld
      BY <2>2 DEF Before, OpenRefused, Tree, NoTree
    <3>2. pc[q] # "idle"
      BY <3>1 DEF TipHeld
    <3>3. pc'[p] = "idle" /\ res'[p].code = "ledger_invalid" /\ UNCHANGED durable
      BY <1>1, <2>2 DEF OpenRefused, Response
    <3> QED BY <1>0, <1>1, <3>2, <3>3 DEF BeforeBy, Waiting, TipHeld
  <2>3. CASE Open(p, s)
    <3>1. pc'[p] = "opened" /\ res'[p].code = "none" /\ UNCHANGED durable
      BY <2>3 DEF Open, Goto, Response
    <3> QED BY <1>0, <3>1 DEF BeforeBy, Waiting, TipHeld
  <2> QED BY <2>1, <2>2, <2>3
<1>2. CASE pc[p] = "opened"
  <2>1. ~Call(p)
    BY <1>2 DEF Call, OpenRefused, Open
  <2>2. CASE Busy(p)
    <3>1. lock \in Proc /\ pc[lock] \in Locked
      BY <2>2 DEF Busy, LockInv
    <3>2. lock # p /\ pc[lock] # "idle"
      BY <1>2, <3>1 DEF Locked
    <3>3. pc'[p] = "idle" /\ res'[p].code = "busy" /\ UNCHANGED durable
      BY <2>2 DEF Busy, Return, Goto, Response
    <3> QED BY <1>0, <3>1, <3>2, <3>3 DEF BeforeBy, Waiting, TipHeld
  <2>3. CASE Begin(p)
    <3>1. pc'[p] = "begun" /\ res' = res /\ UNCHANGED durable
      BY <2>3 DEF Begin, Goto
    <3> QED BY <1>0, <1>2, <3>1 DEF BeforeBy, Waiting, TipHeld
  <2> QED BY <1>2, <2>1, <2>2, <2>3, WaitingMoves
<1>3. ASSUME pc[p] \in {"begun", "snapped"}
      PROVE  Tree = NoTree /\ Step(p)
  <2>1. \A q \in Proc : pc[q] \in TipHeld => pc[q] \in Locked
    BY DEF TipHeld, Locked
  <2>2. \A q \in Proc : pc[q] \notin TipHeld
    BY <1>0, <1>3, <2>1, LockedAlone DEF Locked
  <2> QED BY <1>3, <2>2 DEF Before, Call, OpenRefused, Open
<1>4. CASE pc[p] = "begun"
  <2>1. temps = {} /\ Snapshot(p) /\ Tree = NoTree
    BY <1>3, <1>4, WaitingMoves DEF Tree, NoTree
  <2>2. pc'[p] = "snapped" /\ init'[p] = NoTree /\ res' = res /\ UNCHANGED durable
    BY <2>1 DEF Snapshot, Goto
  <2> QED BY <1>0, <1>4, <2>2 DEF BeforeBy, Waiting, TipHeld
<1>5. CASE pc[p] = "snapped"
  <2>0. /\ intent = None /\ temps = {} /\ files = [x \in Path |-> None] /\ journal = FALSE
        /\ Tree = init[p]
    BY <1>0, <1>3, <1>5 DEF Tree, NoTree
  <2>1. req[p] = r /\ intent # req[p] /\ Tip(ledger) = ExpectedTip[r]
    BY <1>5, <2>0, SentinelAssumption DEF Tip
  <2>2. TargetsAbsent(p)
    BY <2>0, <2>1, PlanPaths DEF TargetsAbsent
  <2>3. StartIntent(p)
    BY <1>3, <1>5, <2>0, <2>1, <2>2, WaitingMoves
       DEF RecoveryConflict, ResumeCommitted, ResumePartial, TipMismatch, TargetExists
  <2>4. /\ temps' = {p} /\ pc'[p] = "intent_temp" /\ res' = res
        /\ UNCHANGED <<ledger, journal, intent, files, req, init, next, made>>
    BY <2>0, <2>3 DEF StartIntent, Goto
  <2>5. next[p] = 1 /\ made[p] = {}
    BY <1>5 DEF Progress, Unstarted
  <2>6. made'[p] = 1..(next'[p] - 1) /\ next'[p] - 1 = 0
    BY <2>4, <2>5
  <2>7. files = Placed(req[p], 0)
    BY <2>0, <2>1, PlacedFacts
  <2>8. Writes(p)'
    BY <1>0, <1>5, <2>0, <2>4, <2>6, <2>7 DEF Writes
  <2> QED BY <1>0, <1>5, <2>4, <2>8 DEF BeforeBy, TipHeld
<1> QED BY <1>0, <1>1, <1>2, <1>4, <1>5

\* The tree the writer sees is the one it expects, so it goes on to the next file.
LEMMA BeforeWriting ==
  ASSUME TypeOK, LockInv, Progress, ledger = <<>>, Before,
         NEW p \in Proc, pc[p] \in TipHeld \ {"inserted"}, Step(p)
  PROVE  BeforeBy(p)' /\ pc'[p] \in TipHeld /\ ledger' = ledger
<1> /\ pc \in [Proc -> Running \cup {"idle"}] /\ req \in [Proc -> Request \cup {None}]
    /\ init \in [Proc -> Trees] /\ next \in [Proc -> Nat \ {0}] /\ made \in [Proc -> SUBSET Nat]
    /\ res \in [Proc -> [code : Codes, mutated : BOOLEAN]] /\ files \in [Path -> Bytes]
    /\ req[p] \in Request
  BY DEF TypeOK, LocalOK, SharedOK, TipHeld
<1> DEFINE n == next[p] - 1
<1>0. /\ res[p].code = "none" /\ Writes(p) /\ init[p] = NoTree /\ req[p] # None
      /\ next[p] \in Nat /\ n \in Nat /\ next[p] = n + 1 /\ made[p] = 1..n
  <2>1. BeforeBy(p) /\ pc[p] \in TipHeld /\ pc[p] # "idle"
    BY DEF Before, TipHeld
  <2>2. res[p].code = "none" /\ Writes(p) /\ req[p] # None
    BY <2>1, SentinelAssumption DEF BeforeBy
  <2>3. init[p] = NoTree /\ made[p] = 1..n
    BY <2>2 DEF Writes
  <2> QED BY <2>2, <2>3
<1>1. \A m : ExpectedTree(p, 1..m) = Record(<<>>, FALSE, req[p], Placed(req[p], m), {})
  BY <1>0, ExpectedPlaced
<1>2. /\ Tree = Record(<<>>, journal, intent, files, temps)
      /\ [Tree EXCEPT !.temps = temps'] = Record(<<>>, journal, intent, files, temps')
  BY SeenTree DEF WithTemps
<1> HIDE DEF n
<1>3. CASE pc[p] = "intent_temp"
  <2>1. temps = {p} /\ journal = FALSE /\ intent = None
    BY <1>0, <1>3 DEF Writes
  <2>2. /\ intent' = req[p] /\ pc'[p] = "intent_linked" /\ res' = res
        /\ UNCHANGED <<ledger, journal, files, temps, req, init, next, made>>
    BY <1>3, <2>1, WritingMoves DEF LinkIntent, Goto
  <2>3. Writes(p)'
    BY <1>0, <1>3, <2>1, <2>2 DEF Writes
  <2> QED BY <1>0, <2>2, <2>3 DEF BeforeBy, TipHeld
<1>4. CASE pc[p] = "intent_linked"
  <2>1. temps = {p} /\ journal = FALSE /\ intent = req[p] /\ files = Placed(req[p], n)
    BY <1>0, <1>4 DEF Writes, n
  <2>2. made[p] = {}
    BY <1>4 DEF Progress, Unstarted
  <2>3. FinishIntent(p) /\ temps' = {}
    BY <1>4, <2>1, WritingMoves DEF IntentLost, FinishIntent, DropTemp
  <2>4. [Tree EXCEPT !.temps = temps'] = ExpectedTree(p, {})
    <3>1. {} = 1..n
      BY <1>0, <2>2
    <3> QED BY <1>1, <1>2, <2>1, <2>3, <3>1
  <2>5. /\ pc'[p] = "publish" /\ res' = res
        /\ UNCHANGED <<ledger, journal, intent, files, req, init, next, made>>
    BY <2>3, <2>4 DEF FinishIntent, Goto
  <2>6. Writes(p)'
    BY <1>0, <1>4, <2>1, <2>3, <2>5 DEF Writes
  <2> QED BY <1>0, <2>5, <2>6 DEF BeforeBy, TipHeld
<1>5. CASE pc[p] = "publish"
  <2>1. /\ temps = {} /\ journal = FALSE /\ intent = req[p] /\ files = Placed(req[p], n)
    BY <1>0, <1>5 DEF Writes, n
  <2>2. CASE Insert(p)
    <3>1. /\ pc'[p] = "inserted" /\ res' = res /\ journal' = TRUE
          /\ UNCHANGED <<ledger, intent, files, temps, req, init, next, made>>
      BY <2>2 DEF Insert, Goto
    <3>2. Writes(p)'
      BY <1>0, <1>5, <2>1, <3>1 DEF Writes
    <3> QED BY <1>0, <3>1, <3>2 DEF BeforeBy, TipHeld
  <2>3. CASE StartOutput(p)
    <3>1. n + 1 <= Len(Outputs[req[p]])
      BY <1>0, <2>3 DEF StartOutput, Planning
    <3>3. files[Target(p)] = None
      BY <1>0, <2>1, <3>1, PlacedFacts DEF Target
    <3>4. Tree = ExpectedTree(p, made[p])
      BY <1>0, <1>1, <1>2, <2>1
    <3>5. /\ pc'[p] = "out_temp" /\ res' = res /\ temps' = {p}
          /\ UNCHANGED <<ledger, journal, intent, files, req, init, next, made>>
      BY <2>1, <2>3, <3>3, <3>4 DEF StartOutput, Goto
    <3>6. Writes(p)'
      BY <1>0, <1>5, <2>1, <3>5 DEF Writes
    <3> QED BY <1>0, <3>5, <3>6 DEF BeforeBy, TipHeld
  <2> QED BY <1>5, <2>2, <2>3, WritingMoves
<1>6. ASSUME pc[p] \in {"out_temp", "out_linked"}
      PROVE  /\ n + 1 <= Len(Outputs[req[p]]) /\ made[p] \cup {next[p]} = 1..(n + 1)
             /\ temps = {p} /\ journal = FALSE /\ intent = req[p]
  <2>1. n + 1 <= Len(Outputs[req[p]])
    BY <1>0, <1>6 DEF Progress
  <2>2. temps = {p} /\ journal = FALSE /\ intent = req[p]
    BY <1>0, <1>6 DEF Writes
  <2> QED BY <1>0, <2>1, <2>2
<1>7. CASE pc[p] = "out_temp"
  <2>1. files = Placed(req[p], n)
    BY <1>0, <1>7 DEF Writes, n
  <2>2. files[Target(p)] = None
    BY <1>0, <1>6, <1>7, <2>1, PlacedFacts DEF Target
  <2>3. /\ pc'[p] = "out_linked" /\ res' = res
        /\ files' = [files EXCEPT ![Target(p)] = req[p]]
        /\ UNCHANGED <<ledger, journal, intent, temps, req, init, next, made>>
    BY <1>7, <2>2, WritingMoves DEF LinkOutput, Goto
  <2>4. files' = Placed(req[p], next[p])
    BY <1>0, <1>6, <1>7, <2>1, <2>3, PlacedFacts DEF Target
  <2>5. Writes(p)'
    BY <1>0, <1>6, <1>7, <2>3, <2>4 DEF Writes
  <2> QED BY <1>0, <2>3, <2>5 DEF BeforeBy, TipHeld
<1>8. CASE pc[p] = "out_linked"
  <2>1. files = Placed(req[p], n + 1)
    BY <1>0, <1>8 DEF Writes
  <2>2. FinishOutput(p) /\ temps' = {}
    BY <1>6, <1>8, WritingMoves DEF FinishOutput, DropTemp
  <2>3. [Tree EXCEPT !.temps = temps'] = ExpectedTree(p, made[p] \cup {next[p]})
    BY <1>1, <1>2, <1>6, <1>8, <2>1, <2>2
  <2>4. /\ pc'[p] = "publish" /\ res' = res /\ next'[p] = next[p] + 1
        /\ made'[p] = 1..(n + 1)
        /\ UNCHANGED <<ledger, journal, intent, files, req, init>>
    BY <1>6, <1>8, <2>2, <2>3 DEF FinishOutput, Goto
  <2>5. next'[p] - 1 = n + 1
    BY <1>0, <2>4
  <2>6. Writes(p)'
    BY <1>0, <1>6, <1>8, <2>1, <2>2, <2>4, <2>5 DEF Writes
  <2> QED BY <1>0, <2>4, <2>6 DEF BeforeBy, TipHeld
<1> QED BY <1>3, <1>4, <1>5, <1>7, <1>8 DEF TipHeld

-----------------------------------------------------------------------------
(* From the commit on. *)

\* The tree a call expects after COMMIT depends on what it knows alone.
LEMMA CommittedTreeKept ==
  ASSUME NEW p \in Proc, init'[p] = init[p], req'[p] = req[p], made'[p] = made[p]
  PROVE  CommittedTree(p)' = CommittedTree(p)
BY DEF CommittedTree, ExpectedFiles

\* COMMIT: the writer goes on to finish the bundle, the others wait.
LEMMA CommitsAlone ==
  ASSUME TypeOK, LockInv, Progress, ledger = <<>>, Before,
         NEW p \in Proc, pc[p] = "inserted", Step(p), NEW r, r = req[p]
  PROVE  ledger' = <<r>> /\ After(r)'
<1> DEFINE last == Len(Outputs[r])
<1>0. /\ pc \in [Proc -> Running \cup {"idle"}] /\ init \in [Proc -> Trees]
      /\ res \in [Proc -> [code : Codes, mutated : BOOLEAN]]
      /\ r \in Request /\ r # None /\ last \in Nat
  BY PlanPaths, SentinelAssumption DEF TypeOK, LocalOK
<1>1. /\ Writes(p) /\ init[p] = NoTree /\ next[p] = last + 1 /\ made[p] = 1..last
      /\ temps = {} /\ intent = r /\ files = Placed(r, last)
  BY <1>0 DEF Before, BeforeBy, Writes, TipHeld, Progress
<1>2. /\ ledger' = <<r>> /\ journal' = FALSE /\ pc' = [pc EXCEPT ![p] = "postcheck"]
      /\ UNCHANGED <<intent, files, temps, req, init, next, made, res>>
  <2>1. Append(<<>>, r) = <<r>>
    OBVIOUS
  <2>2. Commit(p)
    BY WritingMoves
  <2> QED BY <2>1, <2>2 DEF Commit, Goto
<1>3. Tree' = DoneTree(r, r) /\ intent' = r
  BY <1>1, <1>2 DEF Tree, DoneTree
<1>4. CommittedTree(p)' = DoneTree(r, None)
  <2>1. ExpectedFiles(p, made[p]) = Placed(r, last) /\ Placed(r, last) \in [Path -> Bytes]
    <3>1. ExpectedFiles(p, made[p]) = Placed(r, last)
      BY <1>0, <1>1, ExpectedPlaced
    <3>2. Placed(r, last) \in [Path -> Bytes]
      BY <1>0 DEF Placed, Bytes
    <3> QED BY <3>1, <3>2
  <2>2. NoTree.ledger = <<>> /\ Tip(<<>>) # r /\ Append(<<>>, r) = <<r>>
    BY <1>0, SentinelAssumption DEF NoTree, Tip
  <2>3. CommittedTree(p) = Finished(NoTree, None, Placed(r, last), <<r>>)
    BY <1>1, <2>1, <2>2 DEF CommittedTree, Finished
  <2>4. @ = Record(<<r>>, NoTree.journal, None, Placed(r, last), NoTree.temps)
    BY <2>1, NoTreeType, TreeChanged
  <2>5. NoTree.journal = FALSE /\ NoTree.temps = {}
    BY DEF NoTree
  <2>6. CommittedTree(p) = DoneTree(r, None)
    BY <2>3, <2>4, <2>5 DEF Record, DoneTree
  <2> QED BY <1>2, <2>6, CommittedTreeKept
<1>5. ASSUME NEW q \in Proc PROVE AfterBy(r, q)' /\ ~Won(q)'
  <2>1. CASE q = p
    BY <1>0, <1>2, <1>4, <2>1 DEF AfterBy, Won, Finishing, Before, BeforeBy
  <2>2. CASE q # p
    <3>1. pc[q] \notin Locked
      BY <2>2, LockedAlone DEF Locked
    <3>2. /\ pc[q] \in {"idle", "opened"} /\ res[q].code # "accepted" /\ pc'[q] = pc[q]
          /\ pc[q] # "idle" => res[q].code = "none"
      BY <1>0, <1>2, <2>2, <3>1 DEF Before, BeforeBy, Waiting, TipHeld, Locked
    <3> QED BY <1>2, <3>2 DEF AfterBy, Won, Waiting, Finishing
  <2> QED BY <2>1, <2>2
<1>6. pc'[p] \in Finishing
  BY <1>0, <1>2 DEF Finishing
<1> QED BY <1>0, <1>2, <1>3, <1>5, <1>6 DEF After

\* Once the row is there a caller that has not passed the tip's check only looks, and
\* one that finishes the bundle sees it whole until somebody has removed the intent.
LEMMA AfterSelf ==
  ASSUME TypeOK, Progress, NEW r \in Request, ExpectedTip[r] = Root, ledger = <<r>>,
         After(r), NEW p \in Proc, req[p] \in {None, r},
         (res[p].code = "none" /\ Call(p)) \/ Step(p)
  PROVE  /\ ledger' = ledger /\ AfterBy(r, p)'
         /\ \/ /\ UNCHANGED durable /\ (Won(p)' <=> Won(p))
               /\ intent = r /\ pc[p] \in Finishing => pc'[p] \in Finishing
            \/ /\ intent = r /\ intent' = None /\ pc'[p] = "final"
               /\ UNCHANGED <<journal, files, temps>>
<1> /\ pc \in [Proc -> Running \cup {"idle"}] /\ req \in [Proc -> Request \cup {None}]
    /\ init \in [Proc -> Trees] /\ next \in [Proc -> Nat \ {0}] /\ made \in [Proc -> SUBSET Nat]
    /\ res \in [Proc -> [code : Codes, mutated : BOOLEAN]]
    /\ pc[p] # "idle" => req[p] = r
    /\ r # None /\ r # Root
  BY SentinelAssumption DEF TypeOK, LocalOK, SharedOK
<1>0. /\ AfterBy(r, p) /\ intent \in {r, None} /\ Tree = DoneTree(r, intent)
      /\ temps = {} /\ journal = FALSE /\ Tip(ledger) = r
      /\ Won(p) => intent = None
      /\ pc[p] # "idle" => res[p].code = "none"
  BY DEF After, AfterBy, Tree, DoneTree, Tip
<1> DEFINE Quiet == /\ ledger' = ledger /\ AfterBy(r, p)'
                    /\ UNCHANGED durable /\ (Won(p)' <=> Won(p))
                    /\ intent = r /\ pc[p] \in Finishing => pc'[p] \in Finishing
\* A refusal.
<1>1. ASSUME pc[p] \in Waiting \cup Finishing, pc[p] # "idle", pc[p] \in Finishing => intent = None,
             NEW code, NEW mutated, code # "accepted", Return(p, code, mutated), UNCHANGED durable
      PROVE  Quiet
  <2>1. pc'[p] = "idle" /\ res'[p].code = code
    BY <1>1 DEF Return, Goto, Response
  <2> QED BY <1>0, <1>1, <2>1 DEF AfterBy, Won, Waiting, Finishing
<1>2. CASE pc[p] = "idle"
  <2>1. PICK s \in Request : OpenRefused(p, s) \/ Open(p, s)
    BY <1>2, WaitingMoves DEF Call
  <2>2. Open(p, s) /\ res[p].code = "none"
    BY <1>0, <1>2, <2>1, WaitingMoves DEF OpenRefused
  <2>3. pc'[p] = "opened" /\ res'[p].code = "none" /\ UNCHANGED durable
    BY <2>2 DEF Open, Goto, Response
  <2> QED BY <1>2, <2>2, <2>3 DEF AfterBy, Won, Waiting, Finishing
<1>3. CASE pc[p] = "opened"
  <2>1. ~Call(p)
    BY <1>3 DEF Call, OpenRefused, Open
  <2>2. CASE Busy(p)
    BY <1>1, <1>3, <2>2 DEF Busy, Waiting, Finishing
  <2>3. CASE Begin(p)
    <3>1. pc'[p] = "begun" /\ res' = res /\ UNCHANGED durable
      BY <2>3 DEF Begin, Goto
    <3> QED BY <1>0, <1>3, <3>1 DEF AfterBy, Won, Waiting, Finishing
  <2> QED BY <1>3, <2>1, <2>2, <2>3, WaitingMoves
<1>4. CASE pc[p] = "begun"
  <2>1. Snapshot(p)
    BY <1>4, WaitingMoves DEF Call, OpenRefused, Open
  <2>2. pc'[p] = "snapped" /\ init'[p] = Tree /\ res' = res /\ UNCHANGED durable
    BY <1>0, <2>1 DEF Snapshot, Goto
  <2> QED BY <1>0, <1>4, <2>2 DEF AfterBy, Won, Waiting, Finishing
<1>5. CASE pc[p] = "snapped"
  <2>1. Step(p)
    BY <1>5 DEF Call, OpenRefused, Open
  <2>2. CASE RecoveryConflict(p) \/ TipMismatch(p) \/ TargetExists(p)
    BY <1>1, <1>5, <2>2
       DEF RecoveryConflict, TipMismatch, TargetExists, Reject, Waiting, Finishing
  <2>3. CASE ResumeCommitted(p)
    <3>1. /\ pc'[p] = "recovered" /\ init[p] = DoneTree(r, r) /\ made[p] = {} /\ req[p] = r
          /\ UNCHANGED <<durable, req, init, made, res>>
      BY <1>0, <1>5, <2>3 DEF ResumeCommitted, Goto, AfterBy, Progress, Unstarted
    <3>2. CommittedTree(p) = DoneTree(r, None)
      <4> DEFINE x == DoneTree(r, r)
      <4>1. x \in Trees /\ x.files \in [Path -> Bytes]
        BY <3>1 DEF Trees
      <4>2. /\ x.ledger = <<r>> /\ x.journal = FALSE /\ x.temps = {}
            /\ x.files = Placed(r, Len(Outputs[r]))
        BY DEF DoneTree
      <4>3. ExpectedFiles(p, {}) = x.files
        BY <3>1, <4>1 DEF ExpectedFiles
      <4>4. DoneTree(r, None) = Record(<<r>>, FALSE, None, x.files, {})
        BY <4>2 DEF DoneTree, Record
      <4>5. init[p] = x
        BY <3>1
      <4>6. Tip(x.ledger) = r
        BY <4>2 DEF Tip
      <4> HIDE DEF x
      <4>7. CommittedTree(p) = Finished(x, None, x.files, <<r>>)
        BY <3>1, <4>2, <4>3, <4>5, <4>6 DEF CommittedTree, Finished
      <4>8. \A l : Finished(x, None, x.files, l) = Record(l, x.journal, None, x.files, x.temps)
        BY <4>1, TreeChanged
      <4> QED BY <4>2, <4>4, <4>7, <4>8
    <3>3. CommittedTree(p)' = DoneTree(r, None)
      BY <3>1, <3>2, CommittedTreeKept
    <3> QED BY <1>0, <1>5, <3>1, <3>3 DEF AfterBy, Won, Waiting, Finishing
  <2> QED
    BY <1>0, <1>5, <2>1, <2>2, <2>3, WaitingMoves DEF ResumePartial, StartIntent
\* A caller that has finished the bundle, or is about to, sees the tree it expects
\* but for the intent.
<1>6. ASSUME pc[p] \in Finishing \cup {"final"}
      PROVE  Step(p) /\ req[p] = r /\ CommittedTree(p) = DoneTree(r, None)
  BY <1>0, <1>6 DEF AfterBy, Finishing, Call, OpenRefused, Open
<1>7. ASSUME pc[p] \in Finishing, Goto(p, "cleanup"), UNCHANGED <<durable, local, res>>
      PROVE  Quiet
  <2>1. pc'[p] = "cleanup" /\ CommittedTree(p)' = DoneTree(r, None)
    BY <1>6, <1>7, CommittedTreeKept DEF Goto
  <2> QED BY <1>0, <1>7, <2>1 DEF AfterBy, Won, Waiting, Finishing
<1>8. CASE pc[p] = "postcheck"
  <2>1. PostCheck(p) /\ pc[p] \in Finishing
    BY <1>6, <1>8, WritingMoves DEF Finishing
  <2>2. ASSUME intent = r
        PROVE  Tree = [CommittedTree(p) EXCEPT !.intent = req[p]] /\ AllExact(req[p])
    <3>1. DoneTree(r, None) \in Trees
      <4>1. Tree \in Trees /\ Placed(r, Len(Outputs[r])) \in [Path -> Bytes]
        BY <1>0, TreeType DEF DoneTree, Tree, TypeOK, SharedOK
      <4>2. <<r>> \in Seq(Request)
        BY <4>1, <1>0 DEF Trees, DoneTree
      <4> QED BY <4>1, <4>2 DEF Trees, DoneTree
    <3>2. WithIntent(DoneTree(r, None), r)
            = Record(<<r>>, FALSE, r, Placed(r, Len(Outputs[r])), {})
      BY <3>1, TreeFields DEF DoneTree
    <3>3. @ = DoneTree(r, r)
      BY DEF Record, DoneTree
    <3>4. AllExact(r)
      BY <1>0, PlanPaths DEF AllExact, Planned, Placed, Tree, DoneTree
    <3> QED BY <1>0, <1>6, <2>1, <2>2, <3>2, <3>3, <3>4 DEF WithIntent
  <2>3. CASE intent = r
    BY <1>7, <2>1, <2>2, <2>3 DEF PostCheck
  <2>4. CASE intent = None
    BY <1>1, <1>7, <1>8, <2>1, <2>4 DEF PostCheck, Finishing
  <2> QED BY <1>0, <2>3, <2>4
<1>9. CASE pc[p] = "recovered"
  <2>1. RecoveredCheck(p) /\ pc[p] \in Finishing
    BY <1>6, <1>9, WritingMoves DEF Finishing
  <2>2. intent = r => Tree = init[p]
    BY <1>0, <1>9 DEF AfterBy
  <2>3. CASE intent = r
    BY <1>7, <2>1, <2>2, <2>3 DEF RecoveredCheck
  <2>4. CASE intent = None
    BY <1>1, <1>7, <1>9, <2>1, <2>4 DEF RecoveredCheck, Finishing
  <2> QED BY <1>0, <2>3, <2>4
<1>10. CASE pc[p] = "cleanup"
  <2>1. RemoveIntent(p) /\ pc[p] \in Finishing
    BY <1>6, <1>10, WritingMoves DEF Finishing
  <2>2. CASE intent = None
    BY <1>1, <1>10, <2>1, <2>2 DEF RemoveIntent
  <2>3. CASE intent = r
    <3>1. /\ pc'[p] = "final" /\ intent' = None
          /\ UNCHANGED <<ledger, journal, files, temps, req, init, made, res>>
      BY <2>1, <2>3 DEF RemoveIntent, Goto
    <3>2. CommittedTree(p)' = DoneTree(r, None)
      BY <1>6, <1>10, <3>1, CommittedTreeKept DEF Finishing
    <3> QED BY <1>0, <1>10, <2>3, <3>1, <3>2 DEF AfterBy, Waiting, Finishing
  <2> QED BY <1>0, <2>2, <2>3
<1>11. CASE pc[p] = "final"
  <2>1. FinalCheck(p) /\ intent = None
    BY <1>0, <1>6, <1>11, WritingMoves DEF Won
  <2>2. Return(p, "accepted", TRUE) /\ UNCHANGED durable
    BY <1>0, <1>6, <1>11, <2>1 DEF FinalCheck
  <2>3. pc'[p] = "idle" /\ res'[p].code = "accepted"
    BY <2>2 DEF Return, Goto, Response
  <2> QED BY <1>11, <2>1, <2>2, <2>3 DEF AfterBy, Won, Waiting, Finishing
<1> QED
  BY <1>0, <1>2, <1>3, <1>4, <1>5, <1>8, <1>9, <1>10, <1>11 DEF AfterBy, Waiting, Finishing

\* The other callers know what they knew, and at most one of them has removed the
\* intent.
LEMMA AfterStep ==
  ASSUME TypeOK, Progress, NEW r \in Request, ExpectedTip[r] = Root, ledger = <<r>>,
         After(r), NEW p \in Proc, req[p] \in {None, r},
         (res[p].code = "none" /\ Call(p)) \/ Step(p)
  PROVE  ledger' = <<r>> /\ After(r)'
<1>1. \A q \in Proc \ {p} : /\ pc'[q] = pc[q] /\ req'[q] = req[q] /\ init'[q] = init[q]
                            /\ made'[q] = made[q] /\ res'[q] = res[q]
  BY OthersKeep
<1>2. intent \in {r, None} /\ Tree = DoneTree(r, intent) /\ r # None
  BY SentinelAssumption DEF After
<1>3. /\ ledger' = ledger /\ AfterBy(r, p)'
      /\ \/ /\ UNCHANGED durable /\ (Won(p)' <=> Won(p))
            /\ intent = r /\ pc[p] \in Finishing => pc'[p] \in Finishing
         \/ /\ intent = r /\ intent' = None /\ pc'[p] = "final"
            /\ UNCHANGED <<journal, files, temps>>
  BY AfterSelf
<1>4. ASSUME NEW q \in Proc PROVE AfterBy(r, q)'
  <2>1. CASE q = p
    BY <1>3, <2>1
  <2>2. CASE q # p
    <3>1. CommittedTree(q)' = CommittedTree(q)
      BY <1>1, <2>2, CommittedTreeKept
    <3>2. intent' = r => intent = r
      BY <1>2, <1>3
    <3> QED BY <1>1, <2>2, <3>1, <3>2 DEF After, AfterBy
  <2> QED BY <2>1, <2>2
<1>5. \A q \in Proc \ {p} : Won(q)' <=> Won(q)
  BY <1>1 DEF Won
<1>6. CASE UNCHANGED durable
  <2>1. Tree' = DoneTree(r, intent')
    BY <1>2, <1>6 DEF Tree
  <2>2. \A q \in Proc : Won(q)' <=> Won(q)
    BY <1>3, <1>5, <1>6, <1>2
  <2>3. intent = r => \E q \in Proc : pc'[q] \in Finishing
    <3>1. SUFFICES ASSUME intent = r PROVE \E q \in Proc : pc'[q] \in Finishing
      OBVIOUS
    <3>2. PICK q \in Proc : pc[q] \in Finishing
      BY <3>1 DEF After
    <3> QED BY <1>1, <1>2, <1>3, <1>6, <3>1, <3>2
  <2> QED BY <1>2, <1>3, <1>4, <1>6, <2>1, <2>2, <2>3 DEF After
<1>7. CASE /\ intent = r /\ intent' = None /\ pc'[p] = "final"
           /\ UNCHANGED <<journal, files, temps>>
  <2>1. Tree' = DoneTree(r, None)
    BY <1>2, <1>3, <1>7 DEF Tree, DoneTree
  <2>2. \A q \in Proc : Won(q)' <=> q = p
    BY <1>5, <1>7 DEF After, Won
  <2> QED BY <1>2, <1>3, <1>4, <1>7, <2>1, <2>2 DEF After
<1> QED BY <1>3, <1>6, <1>7


-----------------------------------------------------------------------------
\* Whatever a caller does next.
LEMMA CallersStep ==
  ASSUME MaxCrashes = 0, MaxFaults = 0, NEW r \in Request, ExpectedTip[r] = Root,
         TypeOK, LockInv, LockInv', Progress, CallersInv(r), Only(r), [OneShotNext]_vars
  PROVE  CallersInv(r)'
<1>1. CASE UNCHANGED vars
  <2>1. \A q \in Proc : CommittedTree(q)' = CommittedTree(q)
    BY <1>1, CommittedTreeKept DEF vars
  <2>2. UNCHANGED <<ledger, Tree>>
    BY <1>1 DEF vars, Tree
  <2>3. \A q \in Proc : (BeforeBy(q)' <=> BeforeBy(q)) /\ (AfterBy(r, q)' <=> AfterBy(r, q))
    BY <1>1, <2>1 DEF vars, BeforeBy, Writes, AfterBy
  <2> QED BY <1>1, <2>2, <2>3 DEF vars, CallersInv, Before, After, Won
<1>2. ASSUME NEW p \in Proc, (res[p].code = "none" /\ Call(p)) \/ Step(p)
      PROVE  CallersInv(r)'
  <2>0. req[p] \in {None, r}
    BY DEF Only
  <2>1. CASE ledger = <<>> /\ Before
    <3>1. pc[p] \in Waiting \cup TipHeld
      BY <2>1 DEF Before, BeforeBy
    <3>2. CASE pc[p] \in Waiting
      BY <1>2, <2>0, <2>1, <3>2, BeforeWaiting, BeforeByOther DEF CallersInv
    <3>3. CASE pc[p] \in TipHeld \ {"inserted"}
      <4>1. Step(p)
        BY <1>2, <3>3 DEF TipHeld, Call, OpenRefused, Open
      <4>2. BeforeBy(p)' /\ pc'[p] \in TipHeld /\ ledger' = ledger
        BY <2>1, <3>3, <4>1, BeforeWriting
      <4>3. pc'[p] # "idle"
        BY <4>2 DEF TipHeld
      <4> QED BY <2>1, <4>1, <4>2, <4>3, BeforeByOther DEF CallersInv
    <3>4. CASE pc[p] = "inserted"
      <4>1. Step(p) /\ req[p] = r
        BY <1>2, <2>0, <3>4, SentinelAssumption DEF Call, OpenRefused, Open, TypeOK, LocalOK
      <4> QED BY <2>1, <3>4, <4>1, CommitsAlone DEF CallersInv
    <3> QED BY <3>1, <3>2, <3>3, <3>4
  <2>2. CASE ledger = <<r>> /\ After(r)
    BY <1>2, <2>0, <2>2, AfterStep DEF CallersInv
  <2> QED BY <2>1, <2>2 DEF CallersInv
<1> QED BY <1>1, <1>2, NothingFails

\* The one-shot callers are callers of the kernel.
LEMMA CallersAreCallers == OneShotSpec => Spec
<1>1. [OneShotNext]_vars => [Next]_vars
  BY DEF OneShotNext, Next
<1> QED BY <1>1, PTL DEF OneShotSpec, Spec

\* The invariant of the callers of one request.
LEMMA CallersInvariant ==
  ASSUME MaxCrashes = 0, MaxFaults = 0, NEW r \in Request, ExpectedTip[r] = Root
  PROVE  OneShotSpec /\ []Only(r) => [](TypeOK /\ CallersInv(r))
<1> DEFINE Inv == Progress /\ CallersInv(r)
<1>1. Init => Inv
  <2> SUFFICES ASSUME Init PROVE Inv
    OBVIOUS
  <2>1. Progress
    BY DEF Init, Progress, Unstarted, Publishing
  <2>2. ledger = <<>> /\ Tree = NoTree
    BY DEF Init, Tree, NoTree
  <2>3. \A p \in Proc : pc[p] = "idle" /\ res[p].code = "none"
    BY DEF Init, Response
  <2>4. Before
    BY <2>2, <2>3 DEF Before, BeforeBy, Waiting, TipHeld
  <2> QED BY <2>1, <2>2, <2>4 DEF CallersInv
<1>2. Inv /\ TypeOK /\ LedgerInv /\ LedgerInv' /\ Only(r) /\ [OneShotNext]_vars => Inv'
  <2> SUFFICES ASSUME Inv, TypeOK, LedgerInv, LedgerInv', Only(r), [OneShotNext]_vars
               PROVE  Inv'
    OBVIOUS
  <2>1. Progress'
    BY ProgressStep DEF OneShotNext, Next
  <2>2. CallersInv(r)'
    BY CallersStep DEF LedgerInv
  <2> QED BY <2>1, <2>2
<1>3. Inv => CallersInv(r)
  OBVIOUS
<1> HIDE DEF Inv
<1> QED
  BY <1>1, <1>2, <1>3, CallersAreCallers, TypeCorrect, LedgerInvariant, PTL DEF OneShotSpec

\* When all have been answered, the one that removed the intent is the one that was
\* told that the bundle is committed.
LEMMA WinnerTold ==
  ASSUME TypeOK, Proc # {}, NEW r \in Request, CallersInv(r), AllAnswered
  PROVE  Cardinality({p \in Proc : res[p].code = "accepted"}) = 1
<1>1. \A p \in Proc : pc[p] = "idle" /\ res[p].code # "none"
  BY DEF AllAnswered
<1>2. ~Before
  BY <1>1 DEF Before
<1>3. After(r)
  BY <1>2 DEF CallersInv
<1>4. intent = None
  BY <1>1, <1>3 DEF After, Finishing
<1>5. PICK w \in Proc : \A p \in Proc : Won(p) <=> p = w
  BY <1>3, <1>4 DEF After
<1>6. {p \in Proc : res[p].code = "accepted"} = {w}
  BY <1>1, <1>5 DEF Won
<1> QED BY <1>6, FS_Singleton

\* Of any number of callers of one exact request, which call once and at the same time
\* while nothing fails, exactly one is told that its bundle is committed when all have
\* been answered.
THEOREM OneCallerWins ==
  ASSUME Proc # {}, MaxCrashes = 0, MaxFaults = 0 PROVE OneShotSpec => OneWinner
<1>1. ASSUME NEW r \in Request, ExpectedTip[r] = Root
      PROVE  OneShotSpec => OneIsTold(r)
  <2>1. OneShotSpec /\ []Only(r) => [](TypeOK /\ CallersInv(r))
    BY <1>1, CallersInvariant
  <2>2. TypeOK /\ CallersInv(r) =>
          (AllAnswered => Cardinality({p \in Proc : res[p].code = "accepted"}) = 1)
    BY WinnerTold
  <2> QED BY <2>1, <2>2, PTL DEF OneIsTold
<1> QED BY <1>1 DEF OneWinner
=============================================================================
