--------------------------- MODULE MCCommitBundle ---------------------------
(* Small instances of CommitBundle for TLC. *)
EXTENDS CommitBundleInv, TLC

CONSTANTS p1, p2, p3, r1, r2, r3, a, b, c, d

\* r1 and r2 compete for the same parent and for the artifact path a; r3
\* continues from r1 on paths of its own.
Tips2 == r1 :> Root @@ r2 :> Root
Plans2 == r1 :> <<a, b>> @@ r2 :> <<a, c>>

TipsChain == r1 :> Root @@ r3 :> r1
PlansChain == r1 :> <<a, b>> @@ r3 :> <<c, d>>

Tips3 == TipsChain @@ r2 :> Root
Plans3 == PlansChain @@ r2 :> <<a, d>>

Tips1 == r1 :> Root
Plans1 == r1 :> <<a, b>>
=============================================================================
