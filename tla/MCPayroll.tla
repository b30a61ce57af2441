----------------------------- MODULE MCPayroll -----------------------------
(* Two clients create runs of two months and two keep them.  The deduction *)
(* is of the first month, the commission of the second, and the bonus can  *)
(* go into the run of either.                                              *)
EXTENDS Payroll, TLC

CONSTANTS jan, feb, commission, deduction, bonus

MCKindOf == [i \in Item |->
    CASE i = commission -> "commission" [] i = deduction -> "deduction"
      [] i = bonus -> "bonus"]
MCMonth == [i \in Item |-> IF i = commission THEN feb ELSE jan]
Interchangeable == Permutations(Maker) \cup Permutations(Keeper) \cup Permutations(Run)
=============================================================================
