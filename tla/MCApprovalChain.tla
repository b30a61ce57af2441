-------------------------- MODULE MCApprovalChain --------------------------
(* Instance of ApprovalChain for TLC: two people and one run of the hourly *)
(* job on a chain whose first and last steps may be approved by the job.   *)
EXTENDS ApprovalChain

CONSTANTS s1, s2, w1
=============================================================================
