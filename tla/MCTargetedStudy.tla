--------------------------- MODULE MCTargetedStudy ---------------------------
(* Instances of TargetedStudy for TLC. *)
EXTENDS TargetedStudy

Grant(c, i, k, p) ==
  [calls |-> c, iterations |-> i, code |-> k, plan |-> p]

\* The least number of calls; no adaptive repairs; one of each.  The caller
\* resumes with what it gave, or with more.
Least == Grant(6, 1, 1, 0)
Straight == Grant(10, 1, 0, 0)
More == Grant(10, 2, 1, 1)
StudyGrants == <<{Least, Straight}, {Straight}, {More}>>

\* One code repair, in one invocation.
Plain == Grant(12, 3, 1, 0)
OnceGrants == <<{Plain}>>

\* One repair of the plan, resumed twice with the same limits.
Repairing == Grant(12, 2, 1, 1)
ThriceGrants == <<{Repairing}, {Repairing}, {Repairing}>>
=============================================================================
