---------------------------- MODULE MCNumbering ----------------------------
(* Two requests share a branch's counter, one inserting its document in    *)
(* the transaction that issues the number and one after it; a third uses   *)
(* the scheme's own counter, into which an old document is imported and    *)
(* whose second number an administrator may type.                          *)
EXTENDS Numbering

CONSTANTS c1, c2, c3, l1, a1, branch, base, spare

MCHome == [c \in Client |-> IF c = c3 THEN base ELSE branch]
MCText == [k \in Counter |-> [n \in 1 .. Top |-> <<k, n>>]]
MCNumber == Counter \X (1 .. Top)
MCManual == {<<base, 2>>}
MCOld == [d \in Legacy |-> <<base, 1>>]
MCParsed == [d \in Legacy |-> 1]

(* The retry is studied on one counter and one old document, whose number  *)
(* is the first one of a branch's counter.                                 *)
BranchHome == [c \in Client |-> branch]
BranchOld == [d \in Legacy |-> <<branch, 1>>]
=============================================================================
