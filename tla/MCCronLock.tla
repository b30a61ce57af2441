----------------------------- MODULE MCCronLock -----------------------------
(* Instance of CronLock for TLC: a replica that survives and one that does *)
(* not, two runs of one job that may overlap in one process, and a second  *)
(* job.                                                                    *)
EXTENDS CronLock, TLC

CONSTANTS a1, a2, b1, c1, p, q, j1, j2

Runs == {a1, a2, b1, c1}
HostOf == (a1 :> p) @@ (a2 :> p) @@ (b1 :> q) @@ (c1 :> p)
TaskOf == [r \in Runs |-> IF r = c1 THEN j2 ELSE j1]
=============================================================================
