------------------------------ MODULE AtomicLog ------------------------------
(***************************************************************************)
(* What persistence promises its callers: a run is one linear, append-only *)
(* log of commits, and the files a commit references appear with it, all   *)
(* of them, in one step, on paths no earlier commit uses.                   *)
(***************************************************************************)
EXTENDS Naturals, Sequences

CONSTANTS Request, Path, Root, None, ExpectedTip, Outputs

VARIABLES log, store

Tip == IF log = <<>> THEN Root ELSE log[Len(log)]

Bundle(r) == {Outputs[r][i] : i \in 1..Len(Outputs[r])}

Init == log = <<>> /\ store = [x \in Path |-> None]

Commit(r) ==
  /\ Tip = ExpectedTip[r]
  /\ \A x \in Bundle(r) : store[x] = None
  /\ log' = Append(log, r)
  /\ store' = [x \in Path |-> IF x \in Bundle(r) THEN r ELSE store[x]]

Next == \E r \in Request : Commit(r)

Spec == Init /\ [][Next]_<<log, store>>
=============================================================================
