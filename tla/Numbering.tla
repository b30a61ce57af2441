----------------------------- MODULE Numbering -----------------------------
(***************************************************************************)
(* The numbering centre: one scheme of one company, its counters (one per  *)
(* branch, year, month or season), and numbering_assignments, the row of   *)
(* every number ever issued.                                               *)
(*                                                                         *)
(* A request issues a number in a transaction that holds the counter's row *)
(* from the bump to the end.  Most routes insert their document in that    *)
(* transaction (Joined); the others commit the number alone and insert the *)
(* document later.  Administrators withdraw and retype numbers, reset and  *)
(* lock counters and import the numbers of old documents; each of them     *)
(* reads and checks first and writes in a later transaction.               *)
(*                                                                         *)
(* The gate on the document's status can only refuse an administrator, who *)
(* is free to do nothing here, so it is left out.  reserveNumber and       *)
(* assignReservedNumber have no caller and are left out too.               *)
(***************************************************************************)
EXTENDS Integers

CONSTANTS
    Counter,     \* rows of numbering_counters
    Client,      \* requests that create a numbered document
    Legacy,      \* documents older than the numbering centre
    Admin,       \* requests of administrators, one at a time each
    Number,      \* the texts of numbers
    Home,        \* the counter deriveCounterScope finds for a request
    Joined,      \* the requests that issue inside the document's transaction
    Base,        \* the counter without branch, year, period and season
    Top,         \* bound on sequence values
    Text,        \* formatNumber: the number of a counter's n-th value
    Old,         \* the number an old document carries
    Parsed,      \* the sequence value read from it, 0 if there is none
    Manual,      \* the numbers an administrator types
    Forced,      \* administrators who reset with the force flag
    Resettable,  \* the counters an administrator may reset
    Lockable,    \* the counters an administrator may lock
    None

(* A row is named after the request that issues it, or after the old       *)
(* document and the administrator who imports it.                          *)
Import == Legacy \X Admin
Doc == Client \cup Import

ASSUME NumberingAssumption ==
    /\ Top \in Nat \ {0}
    /\ Base \in Counter /\ Resettable \subseteq Counter /\ Lockable \subseteq Counter
    /\ Home \in [Client -> Counter] /\ Joined \subseteq Client
    /\ Client \cap Import = {}
    /\ Text \in [Counter -> [1 .. Top -> Number]]
    /\ Old \in [Legacy -> Number] /\ Parsed \in [Legacy -> 0 .. Top]
    /\ Manual \subseteq Number
    /\ None \notin Client \cup Counter

VARIABLES
    counter,  \* nextNumber, lockedAt and the transaction that holds the row
    row,      \* the rows of numbering_assignments
    pc,       \* where each request is
    job       \* what each administrator is about to write

vars == <<counter, row, pc, job>>

NoRow == [st |-> "none", no |-> None, ctr |-> None, seq |-> 0]
Idle == [op |-> "idle", on |-> None, val |-> None]

Init ==
    /\ counter = [k \in Counter |-> [next |-> 1, locked |-> FALSE, holder |-> None]]
    /\ row = [d \in Doc |-> NoRow]
    /\ pc = [c \in Client |-> "new"]
    /\ job = [a \in Admin |-> Idle]

Goto(c, s) == pc' = [pc EXCEPT ![c] = s]

(* A row in an open transaction is seen by the unique index alone.         *)
Committed == {d \in Doc : row[d].st \in {"assigned", "voided"}}
Used(n) == \E d \in Committed : row[d].no = n
Claimed(n) == \E d \in Doc : row[d].st = "pending" /\ row[d].no = n

Candidate(c) == Text[Home[c]][counter[Home[c]].next]
Unheld(k) == counter[k].holder = None
Open(c) == pc[c] = "new" /\ Unheld(Home[c])

-----------------------------------------------------------------------------
(* The counter is bumped and the row inserted; both stay private until the *)
(* transaction ends.                                                       *)
Allocate(c) ==
    /\ Open(c) /\ ~counter[Home[c]].locked
    /\ counter[Home[c]].next <= Top
    /\ ~Used(Candidate(c)) /\ ~Claimed(Candidate(c))
    /\ counter' = [counter EXCEPT ![Home[c]].next = @ + 1, ![Home[c]].holder = c]
    /\ row' = [row EXCEPT ![c] = [st |-> "pending", no |-> Candidate(c), ctr |-> Home[c],
                                  seq |-> counter[Home[c]].next]]
    /\ Goto(c, "holding")
    /\ UNCHANGED job

Refuse(c) ==
    /\ Open(c) /\ counter[Home[c]].locked
    /\ Goto(c, "refused")
    /\ UNCHANGED <<counter, row, job>>

(* The unique index refuses the number: everything is rolled back, the     *)
(* bump too, and the caller is told to try again.                          *)
Collide(c) ==
    /\ Open(c) /\ ~counter[Home[c]].locked
    /\ counter[Home[c]].next <= Top
    /\ Used(Candidate(c))
    /\ Goto(c, "conflict")
    /\ UNCHANGED <<counter, row, job>>

Retry(c) ==
    /\ pc[c] = "conflict"
    /\ Goto(c, "new")
    /\ UNCHANGED <<counter, row, job>>

ReleasedNever(k) == counter
Released(k) == [counter EXCEPT ![k].holder = None]

(* The transaction ends: with the document, or with the number alone.      *)
Commit(c) ==
    /\ pc[c] = "holding"
    /\ counter' = Released(Home[c])
    /\ row' = [row EXCEPT ![c].st = "assigned"]
    /\ Goto(c, IF c \in Joined THEN "done" ELSE "numbered")
    /\ UNCHANGED job

(* The document's insert or any statement fails, or the process dies.      *)
RolledBackKeepsBump(c) == [counter EXCEPT ![Home[c]].holder = None]
RolledBackTwice(c) == [counter EXCEPT ![Home[c]].holder = None, ![Home[c]].next = row[c].seq - 1]
RolledBack(c) == [counter EXCEPT ![Home[c]].holder = None, ![Home[c]].next = row[c].seq]

Rollback(c) ==
    /\ pc[c] = "holding"
    /\ counter' = RolledBack(c)
    /\ row' = [row EXCEPT ![c] = NoRow]
    /\ Goto(c, "failed")
    /\ UNCHANGED job

(* The document of a number that was committed alone is inserted, or never *)
(* will be, or turns out to exist already, which withdraws the number.     *)
InsertDocument(c) ==
    /\ pc[c] = "numbered"
    /\ \/ Goto(c, "done") /\ UNCHANGED row
       \/ Goto(c, "failed") /\ UNCHANGED row
       \/ Goto(c, "done") /\ row' = [row EXCEPT ![c].st = "voided"]
    /\ UNCHANGED <<counter, job>>

-----------------------------------------------------------------------------
(* Administrators: each operation reads, and writes what it decided later. *)
Plan(a, op, on, val) ==
    /\ job[a] = Idle
    /\ job' = [job EXCEPT ![a] = [op |-> op, on |-> on, val |-> val]]
    /\ UNCHANGED <<counter, row, pc>>

About(a, op) == job[a].op = op /\ job' = [job EXCEPT ![a] = Idle]

ReadForVoid(a, d) == row[d].st = "assigned" /\ Plan(a, "void", d, None)

VoidNumber(a) ==
    /\ About(a, "void")
    /\ row' = [row EXCEPT ![job[a].on].st = "voided"]
    /\ UNCHANGED <<counter, pc>>

(* validateManualNumber looks for the number among live rows only.         *)
ReadForOverride(a, d, n) ==
    /\ row[d].st = "assigned"
    /\ \A e \in Doc \ {d} : row[e].st = "assigned" => row[e].no # n
    /\ Plan(a, "override", d, n)

OverriddenRevives(d, n) == [row EXCEPT ![d].no = n, ![d].st = "assigned"]
Overridden(d, n) == [row EXCEPT ![d].no = n]

(* The unique index has the last word; the row's status is not read again. *)
OverrideNumber(a) ==
    /\ About(a, "override")
    /\ IF \E e \in Committed \ {job[a].on} : row[e].no = job[a].val
          THEN UNCHANGED row
          ELSE ~Claimed(job[a].val) /\ row' = Overridden(job[a].on, job[a].val)
    /\ UNCHANGED <<counter, pc>>

(* Without the force flag the counter must have no live number.            *)
ReadForReset(a, k, v) ==
    /\ k \in Resettable
    /\ a \in Forced \/ \A d \in Doc : row[d].ctr = k => row[d].st # "assigned"
    /\ Plan(a, "reset", k, v)

ResetCounter(a) ==
    /\ About(a, "reset") /\ Unheld(job[a].on)
    /\ counter' = [counter EXCEPT ![job[a].on].next = job[a].val]
    /\ UNCHANGED <<row, pc>>

MayLockAtOnce(k) == TRUE
MayLock(k) == Unheld(k)

(* lockCounter and unlockCounter are single updates: they wait for the row.*)
ToggleLock(k) ==
    /\ MayLock(k)
    /\ counter' = [counter EXCEPT ![k].locked = ~@]
    /\ UNCHANGED <<row, pc, job>>

(* Old documents without a row.                                            *)
Unlisted == {d \in Legacy : \A a \in Admin : row[<<d, a>>].st = "none"}

ReadForBackfill(a) == Unlisted # {} /\ Plan(a, "backfill", Unlisted, None)

RatchetTo(h) == [counter EXCEPT ![Base].next = IF h > @ THEN h ELSE @]
Ratchet(h) == [counter EXCEPT ![Base].next = IF h >= @ THEN h + 1 ELSE @]

(* A number that is there already aborts the transaction of the import; an *)
(* unparseable number is recorded with the document's id as its value.     *)
Backfill(a) ==
    LET found == job[a].on IN
    /\ About(a, "backfill") /\ Unheld(Base)
    /\ IF \E d \in found : Used(Old[d]) \/ \E e \in found \ {d} : Old[e] = Old[d]
          THEN UNCHANGED <<counter, row>>
          ELSE /\ \A d \in found : ~Claimed(Old[d])
               /\ \E h \in {Parsed[d] : d \in found} :
                     /\ \A d \in found : Parsed[d] <= h
                     /\ counter' = Ratchet(h)
               /\ row' = [d \in Doc |-> IF d \notin found \X {a} THEN row[d] ELSE
                            [st |-> "assigned", no |-> Old[d[1]], ctr |-> Base, seq |-> Parsed[d[1]]]]
    /\ UNCHANGED pc

-----------------------------------------------------------------------------
Step(c) ==
    \/ Allocate(c) \/ Refuse(c) \/ Collide(c) \/ Retry(c)
    \/ Commit(c) \/ Rollback(c) \/ InsertDocument(c)

Administer(a) ==
    \/ \E d \in Doc : ReadForVoid(a, d) \/ \E n \in Manual : ReadForOverride(a, d, n)
    \/ \E k \in Counter, v \in 1 .. Top : ReadForReset(a, k, v)
    \/ ReadForBackfill(a)
    \/ VoidNumber(a) \/ OverrideNumber(a) \/ ResetCounter(a) \/ Backfill(a)

Next ==
    \/ \E c \in Client : Step(c)
    \/ \E a \in Admin : Administer(a)
    \/ \E k \in Lockable : ToggleLock(k)

Spec == Init /\ [][Next]_vars

(* A request that has started runs to its end, and a caller who is told to *)
(* try again does so; administrators need never act.                       *)
FairSpec == Spec /\ \A c \in Client : WF_vars(Step(c))
-----------------------------------------------------------------------------
Row == [st : {"none", "pending", "assigned", "voided"}, no : Number \cup {None},
        ctr : Counter \cup {None}, seq : 0 .. Top]

Plans == [op : {"idle"}, on : {None}, val : {None}]
    \cup [op : {"void"}, on : Doc, val : {None}]
    \cup [op : {"override"}, on : Doc, val : Manual]
    \cup [op : {"reset"}, on : Resettable, val : 1 .. Top]
    \cup [op : {"backfill"}, on : (SUBSET Legacy) \ {{}}, val : {None}]

(* Sequence values start at one and every counter, row and request is in a *)
(* state its table and its route know.                                     *)
TypeOK ==
    /\ counter \in [Counter -> [next : 1 .. Top + 1, locked : BOOLEAN,
                                holder : Client \cup {None}]]
    /\ row \in [Doc -> Row]
    /\ pc \in [Client -> {"new", "conflict", "holding", "numbered", "done", "failed", "refused"}]
    /\ job \in [Admin -> Plans]

(* The counters nobody resets, and those whose numbers nobody types.       *)
Kept == Counter \ Resettable
Clean == {k \in Kept : \A n \in 1 .. Top : Text[k][n] \notin Manual}

(***************************************************************************)
(* No gap and no repetition: a counter that is neither reset nor fed by an *)
(* import has given each value below its next one to exactly one row, in   *)
(* whatever order the transactions that hold it commit and roll back.      *)
(***************************************************************************)
GivenOnce(k, n) ==
    /\ \E d \in Doc : row[d].ctr = k /\ row[d].seq = n
    /\ \A d, e \in Doc : row[d].ctr = k /\ row[e].ctr = k /\ row[d].seq = n /\ row[e].seq = n => d = e
Gapless == \A k \in Kept \ {Base} : \A n \in 1 .. Top : n < counter[k].next => GivenOnce(k, n)

(***************************************************************************)
(* issueNumber meets a number that exists already only if somebody typed   *)
(* it: the counter and the rows do not drift apart by being issued, rolled *)
(* back, withdrawn or imported in any order, unless the counter is reset.  *)
(***************************************************************************)
NeverCollides ==
    [][\A c \in Client :
          Home[c] \in Kept /\ pc[c] # "conflict" /\ pc'[c] = "conflict" => Candidate(c) \in Manual]_vars

(***************************************************************************)
(* Once lockCounter has answered, no transaction that took a number before *)
(* is still to commit one.                                                 *)
(***************************************************************************)
LockedIsQuiet == \A c \in Client : pc[c] = "holding" => ~counter[Home[c]].locked

(***************************************************************************)
(* A withdrawn number is not revived, whatever an override, a withdrawal   *)
(* or an import that read the row before writes after it.                  *)
(***************************************************************************)
VoidIsFinal == [][\A d \in Doc : row[d].st = "voided" => row'[d].st = "voided"]_vars

(***************************************************************************)
(* A request comes to an end: it gets its number or a final answer, and no *)
(* transaction that holds the counter keeps it waiting for ever.           *)
(***************************************************************************)
Ended == {"done", "failed", "refused"}
RequestEnds == \A c \in Client : Home[c] \in Clean => <>(pc[c] \in Ended)

(***************************************************************************)
(* The comment of issueNumber: a caller refused for a number that exists   *)
(* re-issues, and the counter has moved on by then.                        *)
(***************************************************************************)
RetryGetsThrough == \A c \in Client : pc[c] = "conflict" ~> pc[c] \in Ended
=============================================================================
