---------------------------- MODULE DocumentBooks ----------------------------
(* What the ledger promises of source documents, whatever requests,        *)
(* decisions and reversals it takes: an entry belongs to one document for  *)
(* good; it enters the books once in its life, with all of its lines at    *)
(* once, and only while no other entry that stands for the document has a  *)
(* line in them; an entry that is struck off stands for it no longer and   *)
(* never enters; and each line leaves them at most once.                   *)
EXTENDS Integers

CONSTANTS Entry, Document, Account, None

VARIABLES
    of,        \* the document of each entry that was recorded
    times,     \* how often the balance of an account includes each line
    entered,   \* the entries that have been in the books
    struck     \* the entries that were struck off

vars == <<of, times, entered, struck>>

Absent(e) == \A a \in Account : times[e][a] = 0

Init ==
    /\ of = [e \in Entry |-> None]
    /\ times = [e \in Entry |-> [a \in Account |-> 0]]
    /\ entered = {}
    /\ struck = {}

(* An entry that is recorded and not in the books yet.                     *)
Record(e, d) ==
    /\ of[e] = None
    /\ of' = [of EXCEPT ![e] = d]
    /\ UNCHANGED <<times, entered, struck>>

Enter(e, d) ==
    /\ of[e] \in {None, d}
    /\ e \notin entered \cup struck
    /\ \A f \in Entry \ struck : of[f] = d => Absent(f)
    /\ of' = [of EXCEPT ![e] = d]
    /\ times' = [times EXCEPT ![e] = [a \in Account |-> 1]]
    /\ entered' = entered \cup {e}
    /\ UNCHANGED struck

(* Lines leave the books, of an entry that is struck off or of another.    *)
TakeOut(e, A) ==
    /\ \A a \in A : times[e][a] = 1
    /\ times' = [times EXCEPT ![e] = [a \in Account |-> IF a \in A THEN 0 ELSE times[e][a]]]

Leave(e, A) == TakeOut(e, A) /\ UNCHANGED <<of, entered, struck>>

(* Lines that have not left with the entry may do so later.                *)
Strike(e, A) ==
    /\ of[e] # None
    /\ e \notin struck
    /\ TakeOut(e, A)
    /\ struck' = struck \cup {e}
    /\ UNCHANGED <<of, entered>>

Next ==
    \E e \in Entry :
        \/ \E d \in Document : Record(e, d) \/ Enter(e, d)
        \/ \E A \in SUBSET Account : Leave(e, A) \/ Strike(e, A)

Spec == Init /\ [][Next]_vars
=============================================================================
