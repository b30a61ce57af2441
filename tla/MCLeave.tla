------------------------------ MODULE MCLeave ------------------------------
(* Instances of Leave for TLC.                                             *)
EXTENDS Leave, TLC

BookRoutes == Kind \ {"delete", "return", "wfReturn"}
ProgressRoutes == Kind \ {"escalate"}
Interchangeable == Permutations(Request)
OneDay == [r \in Request |-> 1]
=============================================================================
