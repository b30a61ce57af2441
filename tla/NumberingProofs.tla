--------------------------- MODULE NumberingProofs ---------------------------
(* The numbers of one scheme, for every number of counters, requests, old  *)
(* documents and administrators: a transaction that holds a counter is the *)
(* only one that can move it, so rolling it back undoes exactly its bump.  *)
EXTENDS Numbering, TLAPS

(* What a request that holds its counter, and one that does not, has.      *)
Owned(c) ==
    /\ pc[c] = "holding" <=> counter[Home[c]].holder = c
    /\ pc[c] = "holding" <=> row[c].st = "pending"
    /\ pc[c] = "holding" => /\ row[c].no = Text[Home[c]][row[c].seq] /\ row[c].seq \in 1 .. Top
                            /\ counter[Home[c]].next = row[c].seq + 1
    /\ row[c].st # "none" => row[c].ctr = Home[c]
    /\ row[c].st = "none" => row[c].ctr = None
    /\ pc[c] \in {"new", "conflict"} => row[c].st = "none"
    /\ pc[c] = "numbered" => row[c].st \in {"assigned", "voided"}

AllOwned == \A c \in Client : Owned(c)
Imported == \A e \in Import : row[e].st # "pending" /\ row[e].ctr \in {None, Base}
AimedAtRows == \A a \in Admin : job[a].op \in {"void", "override"} => job[a].on \in Committed

(* A counter is above its rows, and above the others' by more while one    *)
(* transaction holds it.                                                   *)
Under(d, k) ==
    /\ row[d].seq < counter[k].next
    /\ counter[k].holder \in Client \ {d} => row[d].seq + 1 < counter[k].next
Below == \A d \in Doc : \A k \in Kept : row[d].ctr = k => Under(d, k)

BookInv ==
    /\ TypeOK /\ AllOwned /\ Imported /\ AimedAtRows /\ Below
    /\ Gapless /\ LockedIsQuiet

LEMMA Constants ==
    /\ Top \in Nat /\ Top > 0 /\ Base \in Counter /\ Kept \subseteq Counter
    /\ \A c \in Client : Home[c] \in Counter /\ c \in Doc /\ c \notin Import /\ c # None
    /\ None \notin Counter
    /\ \A e \in Import : e \in Doc /\ e \notin Client
    /\ \A k \in Counter, n \in 1 .. Top : Text[k][n] \in Number
    /\ \A l \in Legacy : Old[l] \in Number /\ Parsed[l] \in 0 .. Top
    /\ \A l \in Legacy, a \in Admin : <<l, a>> \in Import
    /\ Manual \subseteq Number
<1>1. \A l \in Legacy, a \in Admin : <<l, a>> \in Import
    BY DEF Import
<1> QED
    BY <1>1, NumberingAssumption DEF Doc, Kept

LEMMA IdlePlan == Idle \in Plans
BY DEF Idle, Plans

(* Planning an operation and finishing one leave one kind of entry behind. *)
LEMMA JobTyped ==
    ASSUME job \in [Admin -> Plans], NEW a \in Admin, NEW p \in Plans, job' = [job EXCEPT ![a] = p]
    PROVE  job' \in [Admin -> Plans] /\ job'[a] = p /\ \A b \in Admin : b # a => job'[b] = job[b]
OBVIOUS

-----------------------------------------------------------------------------
LEMMA InitInv == Init => BookInv
<1> SUFFICES ASSUME Init PROVE BookInv
    OBVIOUS
<1>1. job \in [Admin -> Plans]
    BY IdlePlan DEF Init
<1>2. \A d \in Doc : row[d] = NoRow
    BY DEF Init
<1>3. TypeOK
    BY <1>1, Constants DEF Init, TypeOK, NoRow, Row
<1>4. AllOwned /\ Imported /\ Below
    BY <1>2, Constants, NumberingAssumption DEF Init, AllOwned, Owned, Imported, Below, NoRow, Kept
<1>5. Gapless /\ LockedIsQuiet /\ AimedAtRows
    BY Constants DEF Init, Gapless, LockedIsQuiet, AimedAtRows, Idle, Kept
<1> QED
    BY <1>3, <1>4, <1>5 DEF BookInv

(* A step that moves no counter and renames no row keeps what is counted.  *)
LEMMA SameValues ==
    ASSUME BookInv,
           \A d \in Doc : row'[d].ctr = row[d].ctr /\ row'[d].seq = row[d].seq,
           \A k \in Counter : counter'[k].next = counter[k].next,
           \A k \in Counter : counter'[k].holder \in {counter[k].holder, None}
    PROVE  Below' /\ Gapless'
<1>1. Below'
    BY Constants, NumberingAssumption DEF BookInv, Below, Under, Kept
<1>2. Gapless'
    BY Constants DEF BookInv, Gapless, GivenOnce, Kept
<1> QED
    BY <1>1, <1>2

(* A request moves on without touching the books.                          *)
LEMMA Onward ==
    ASSUME BookInv, NEW c \in Client, NEW s \in {"new", "conflict", "done", "failed", "refused"},
           pc[c] # "holding", Goto(c, s), UNCHANGED <<counter, row, job>>,
           s \in {"new", "conflict"} => row[c].st = "none"
    PROVE  BookInv'
<1>1. pc \in [Client -> {"new", "conflict", "holding", "numbered", "done", "failed", "refused"}]
    BY DEF BookInv, TypeOK
<1>2. pc'[c] = s /\ \A e \in Client : e # c => pc'[e] = pc[e]
    BY <1>1 DEF Goto
<1>3. TypeOK'
    BY <1>1 DEF BookInv, TypeOK, Goto
<1>4. AllOwned'
    BY <1>2 DEF BookInv, AllOwned, Owned
<1>5. Imported' /\ AimedAtRows' /\ LockedIsQuiet'
    BY <1>2 DEF BookInv, Imported, AimedAtRows, Committed, LockedIsQuiet
<1> QED
    BY <1>3, <1>4, <1>5, SameValues DEF BookInv

LEMMA AllocateInv == ASSUME BookInv, NEW c \in Client, Allocate(c) PROVE BookInv'
<1> DEFINE k == Home[c]
           n == counter[k].next
           new == [st |-> "pending", no |-> Text[k][n], ctr |-> k, seq |-> n]
<1>1. /\ pc[c] = "new" /\ counter[k].holder = None /\ ~counter[k].locked /\ n \in 1 .. Top
      /\ k \in Counter /\ c \in Doc /\ c \notin Import
    BY Constants DEF BookInv, TypeOK, Allocate, Open, Unheld
<1>2. /\ counter'[k] = [counter[k] EXCEPT !.next = n + 1, !.holder = c]
      /\ \A j \in Counter : j # k => counter'[j] = counter[j]
    BY <1>1 DEF BookInv, TypeOK, Allocate
<1>3. row'[c] = new /\ \A d \in Doc : d # c => row'[d] = row[d]
    BY <1>1 DEF BookInv, TypeOK, Allocate, Candidate
<1>4. pc'[c] = "holding" /\ \A e \in Client : e # c => pc'[e] = pc[e]
    BY DEF BookInv, TypeOK, Allocate, Goto
<1>5. row[c].st = "none" /\ row[c].ctr = None
    BY <1>1 DEF BookInv, AllOwned, Owned
<1>6. new \in Row
    BY <1>1, Constants DEF Row
<1>7. TypeOK'
  <2>1. counter' \in [Counter -> [next : 1 .. Top + 1, locked : BOOLEAN, holder : Client \cup {None}]]
      BY <1>1, Constants DEF BookInv, TypeOK, Allocate
  <2>2. row' \in [Doc -> Row]
      BY <1>6 DEF BookInv, TypeOK, Allocate, Candidate
  <2> QED
      BY <2>1, <2>2 DEF BookInv, TypeOK, Allocate, Goto
<1>8. AllOwned'
  <2> SUFFICES ASSUME NEW e \in Client PROVE Owned(e)'
      BY DEF AllOwned
  <2>1. CASE e = c
      BY <2>1, <1>1, <1>2, <1>3, <1>4 DEF BookInv, TypeOK, Owned
  <2>2. CASE e # c
    <3>1. Owned(e) /\ Home[e] \in Counter /\ e \in Doc /\ e # None
        BY Constants DEF BookInv, AllOwned
    <3>2. row'[e] = row[e] /\ pc'[e] = pc[e]
        BY <2>2, <3>1, <1>3, <1>4
    <3>3. CASE Home[e] # k
        BY <3>1, <3>2, <3>3, <1>2 DEF Owned
    <3>4. CASE Home[e] = k
        BY <2>2, <3>1, <3>2, <3>4, <1>1, <1>2 DEF BookInv, TypeOK, Owned
    <3> QED
        BY <3>3, <3>4
  <2> QED
      BY <2>1, <2>2
<1>9. Imported' /\ AimedAtRows' /\ LockedIsQuiet'
  <2>1. Imported'
      BY <1>1, <1>3, Constants DEF BookInv, Imported
  <2>2. Committed' = Committed
      BY <1>3, <1>5, <1>1 DEF Committed
  <2>3. AimedAtRows'
      BY <2>2 DEF BookInv, AimedAtRows, Allocate
  <2>4. counter'[k].locked = counter[k].locked /\ counter'[k].next = n + 1
      BY <1>1, <1>2 DEF BookInv, TypeOK
  <2>5. LockedIsQuiet'
      BY <1>1, <1>2, <1>4, <2>4, Constants DEF BookInv, LockedIsQuiet
  <2> QED
      BY <2>1, <2>3, <2>5
<1>10. Below'
  <2> SUFFICES ASSUME NEW d \in Doc, NEW j \in Kept, row'[d].ctr = j
               PROVE  Under(d, j)'
      BY DEF Below
  <2>1. j \in Counter /\ counter'[k].next = n + 1 /\ n \in Int /\ counter'[k].holder = c
      BY <1>1, <1>2, Constants DEF BookInv, TypeOK
  <2>2. CASE d = c
      BY <2>1, <2>2, <1>3 DEF Under
  <2>3. CASE d # c /\ j = k
      BY <2>1, <2>3, <1>3 DEF BookInv, TypeOK, Below, Under, Row
  <2>4. CASE d # c /\ j # k
      BY <2>1, <2>4, <1>2, <1>3 DEF BookInv, Below, Under
  <2> QED
      BY <2>2, <2>3, <2>4
<1>11. Gapless'
  <2> SUFFICES ASSUME NEW j \in Kept \ {Base}, NEW m \in 1 .. Top, m < counter'[j].next
               PROVE  GivenOnce(j, m)'
      BY DEF Gapless
  <2>1. j \in Counter /\ j # None
      BY Constants
  <2>2. CASE j # k
      BY <2>1, <2>2, <1>2, <1>3, <1>5 DEF BookInv, Gapless, GivenOnce
  <2>3. CASE j = k /\ m < n
      BY <2>1, <2>3, <1>1, <1>3, <1>5 DEF BookInv, Gapless, GivenOnce
  <2>4. CASE j = k /\ m = n
      BY <2>1, <2>4, <1>1, <1>3 DEF BookInv, Below, Under, GivenOnce
  <2>5. counter'[k].next = n + 1
      BY <1>1, <1>2 DEF BookInv, TypeOK
  <2> QED
      BY <2>2, <2>3, <2>4, <2>5, <1>1
<1> QED
    BY <1>7, <1>8, <1>9, <1>10, <1>11 DEF BookInv

LEMMA CommitInv == ASSUME BookInv, NEW c \in Client, Commit(c) PROVE BookInv'
<1> DEFINE k == Home[c]
<1>1. /\ pc[c] = "holding" /\ k \in Counter /\ c \in Doc /\ c \notin Import
      /\ counter[k].holder = c /\ row[c].st = "pending"
    BY Constants DEF BookInv, AllOwned, Owned, Commit
<1>2. /\ counter'[k] = [counter[k] EXCEPT !.holder = None]
      /\ \A j \in Counter : j # k => counter'[j] = counter[j]
    BY <1>1 DEF BookInv, TypeOK, Commit, Released
<1>3. /\ row'[c] = [row[c] EXCEPT !.st = "assigned"]
      /\ \A d \in Doc : d # c => row'[d] = row[d]
    BY <1>1 DEF BookInv, TypeOK, Commit
<1>4. /\ pc'[c] \in {"done", "numbered"} /\ pc'[c] \notin {"holding", "new", "conflict"}
      /\ \A e \in Client : e # c => pc'[e] = pc[e]
    BY DEF BookInv, TypeOK, Commit, Goto
<1>5. /\ row'[c].st = "assigned" /\ row'[c].ctr = row[c].ctr /\ row'[c].seq = row[c].seq
      /\ counter'[k].holder = None /\ counter'[k].next = counter[k].next
      /\ counter'[k].locked = counter[k].locked
    BY <1>1, <1>2, <1>3 DEF BookInv, TypeOK, Row
<1>6. TypeOK'
  <2>1. counter' \in [Counter -> [next : 1 .. Top + 1, locked : BOOLEAN, holder : Client \cup {None}]]
      BY <1>1 DEF BookInv, TypeOK, Commit, Released
  <2>2. row' \in [Doc -> Row]
      BY <1>1 DEF BookInv, TypeOK, Commit, Row
  <2>3. pc' \in [Client -> {"new", "conflict", "holding", "numbered", "done", "failed", "refused"}]
      BY DEF BookInv, TypeOK, Commit, Goto
  <2> QED
      BY <2>1, <2>2, <2>3 DEF BookInv, TypeOK, Commit
<1>7. AllOwned'
  <2> SUFFICES ASSUME NEW e \in Client PROVE Owned(e)'
      BY DEF AllOwned
  <2>1. Owned(e) /\ Home[e] \in Counter /\ e \in Doc /\ e # None
      BY Constants DEF BookInv, AllOwned
  <2>2. CASE e = c
      BY <2>1, <2>2, <1>1, <1>4, <1>5 DEF Owned
  <2>3. CASE e # c
      BY <2>1, <2>3, <1>1, <1>2, <1>3, <1>4, <1>5 DEF Owned
  <2> QED
      BY <2>2, <2>3
<1>8. Imported' /\ AimedAtRows' /\ LockedIsQuiet'
  <2>1. Imported'
      BY <1>1, <1>3, Constants DEF BookInv, Imported
  <2>2. Committed \subseteq Committed'
      BY <1>3, <1>5 DEF Committed
  <2>3. AimedAtRows'
      BY <2>2 DEF BookInv, AimedAtRows, Commit
  <2>4. LockedIsQuiet'
      BY <1>2, <1>4, <1>5, Constants DEF BookInv, LockedIsQuiet
  <2> QED
      BY <2>1, <2>3, <2>4
<1>9. Below' /\ Gapless'
  <2>1. \A d \in Doc : row'[d].ctr = row[d].ctr /\ row'[d].seq = row[d].seq
      BY <1>3, <1>5
  <2>2. \A j \in Counter : /\ counter'[j].next = counter[j].next
                             /\ counter'[j].holder \in {counter[j].holder, None}
      BY <1>2, <1>5
  <2> QED
      BY <2>1, <2>2, SameValues
<1> QED
    BY <1>6, <1>7, <1>8, <1>9 DEF BookInv

(* Nobody moved the counter since the bump, so the row's value is its last.*)
LEMMA RollbackInv == ASSUME BookInv, NEW c \in Client, Rollback(c) PROVE BookInv'
<1> DEFINE k == Home[c]
           n == row[c].seq
<1>1. /\ pc[c] = "holding" /\ k \in Counter /\ c \in Doc /\ c \notin Import
      /\ counter[k].holder = c /\ row[c].st = "pending" /\ row[c].ctr = k
      /\ n \in 1 .. Top /\ counter[k].next = n + 1
    BY Constants DEF BookInv, AllOwned, Owned, Rollback
<1>2. /\ counter'[k] = [counter[k] EXCEPT !.holder = None, !.next = n]
      /\ \A j \in Counter : j # k => counter'[j] = counter[j]
    BY <1>1 DEF BookInv, TypeOK, Rollback, RolledBack
<1>3. row'[c] = NoRow /\ \A d \in Doc : d # c => row'[d] = row[d]
    BY <1>1 DEF BookInv, TypeOK, Rollback
<1>4. pc'[c] = "failed" /\ \A e \in Client : e # c => pc'[e] = pc[e]
    BY DEF BookInv, TypeOK, Rollback, Goto
<1>5. /\ row'[c].st = "none" /\ row'[c].ctr = None /\ counter'[k].holder = None
      /\ counter'[k].next = n /\ counter'[k].locked = counter[k].locked
    BY <1>1, <1>2, <1>3 DEF BookInv, TypeOK, NoRow
<1>6. TypeOK'
  <2>1. counter' \in [Counter -> [next : 1 .. Top + 1, locked : BOOLEAN, holder : Client \cup {None}]]
      BY <1>1, Constants DEF BookInv, TypeOK, Rollback, RolledBack
  <2>2. NoRow \in Row
      BY Constants DEF NoRow, Row
  <2>3. row' \in [Doc -> Row]
      BY <1>1, <2>2 DEF BookInv, TypeOK, Rollback
  <2> QED
      BY <2>1, <2>3 DEF BookInv, TypeOK, Rollback, Goto
<1>7. AllOwned'
  <2> SUFFICES ASSUME NEW e \in Client PROVE Owned(e)'
      BY DEF AllOwned
  <2>1. Owned(e) /\ Home[e] \in Counter /\ e \in Doc /\ e # None
      BY Constants DEF BookInv, AllOwned
  <2>2. CASE e = c
      BY <2>1, <2>2, <1>1, <1>4, <1>5 DEF Owned
  <2>3. CASE e # c /\ Home[e] # k
      BY <2>1, <2>3, <1>2, <1>3, <1>4 DEF Owned
  <2>4. CASE e # c /\ Home[e] = k
      BY <2>1, <2>4, <1>1, <1>3, <1>4, <1>5 DEF Owned
  <2> QED
      BY <2>2, <2>3, <2>4
<1>8. Imported' /\ AimedAtRows' /\ LockedIsQuiet'
  <2>1. Imported'
      BY <1>1, <1>3, Constants DEF BookInv, Imported
  <2>2. Committed' = Committed
      BY <1>1, <1>3, <1>5 DEF Committed
  <2>3. AimedAtRows'
      BY <2>2 DEF BookInv, AimedAtRows, Rollback
  <2>4. LockedIsQuiet'
      BY <1>2, <1>4, <1>5, Constants DEF BookInv, LockedIsQuiet
  <2> QED
      BY <2>1, <2>3, <2>4
<1>9. ASSUME NEW j \in Kept \ {Base}, NEW m \in 1 .. Top, m < counter'[j].next
      PROVE  GivenOnce(j, m)'
  <2>1. j \in Counter /\ j # None
      BY Constants
  <2>2. m < counter[j].next /\ ~(j = k /\ m = n)
    <3>1. CASE j # k
        BY <2>1, <3>1, <1>2, <1>9
    <3>2. CASE j = k
        BY <3>2, <1>1, <1>5, <1>9
    <3> QED
        BY <3>1, <3>2
  <2>3. GivenOnce(j, m)
      BY <2>2 DEF BookInv, Gapless
  <2>4. ~(row[c].ctr = j /\ row[c].seq = m) /\ row'[c].ctr # j
      BY <2>1, <2>2, <1>1, <1>5
  <2> QED
      BY <2>3, <2>4, <1>3 DEF GivenOnce
<1> QED
  <2>1. Gapless'
      BY <1>9 DEF Gapless
  <2>2. ASSUME NEW d \in Doc, NEW j \in Kept, row'[d].ctr = j PROVE Under(d, j)'
    <3>1. d # c /\ row'[d] = row[d] /\ j \in Counter
        BY <2>2, <1>3, <1>5, Constants
    <3>2. Under(d, j) /\ row[d] \in Row
        BY <2>2, <3>1 DEF BookInv, TypeOK, Below
    <3>3. CASE j # k
        BY <3>1, <3>2, <3>3, <1>2 DEF Under
    <3>4. CASE j = k
        BY <3>1, <3>2, <3>4, <1>1, <1>5, NumberingAssumption DEF Under, Row
    <3> QED
        BY <3>3, <3>4
  <2>3. Below'
      BY <2>2 DEF Below
  <2> QED
      BY <2>1, <2>3, <1>6, <1>7, <1>8 DEF BookInv

-----------------------------------------------------------------------------
(* A committed row is written by somebody who is not its issuer, or by the *)
(* request that committed it, and keeps its counter and its value.         *)
LEMMA RowChanged ==
    ASSUME BookInv, NEW d \in Committed, NEW t \in Row,
           t.st \in {"assigned", "voided"}, t.ctr = row[d].ctr, t.seq = row[d].seq,
           row' = [row EXCEPT ![d] = t], counter' = counter,
           pc' \in [Client -> {"new", "conflict", "holding", "numbered", "done", "failed", "refused"}],
           \A c \in Client : pc'[c] = pc[c] \/ (pc[c] = "numbered" /\ pc'[c] = "done"),
           job' \in [Admin -> Plans],
           \A a \in Admin : job'[a] \in {job[a], Idle}
    PROVE  BookInv'
<1>1. d \in Doc /\ row \in [Doc -> Row]
    BY DEF BookInv, TypeOK, Committed
<1>2. row'[d] = t /\ row' \in [Doc -> Row] /\ \A e \in Doc : e # d => row'[e] = row[e]
    BY <1>1
<1>3. TypeOK'
    BY <1>2 DEF BookInv, TypeOK
<1>4. row[d].st \in {"assigned", "voided"}
    BY DEF Committed
<1>5. AllOwned'
  <2> SUFFICES ASSUME NEW e \in Client PROVE Owned(e)'
      BY DEF AllOwned
  <2>1. Owned(e) /\ e \in Doc
      BY Constants DEF BookInv, AllOwned
  <2>2. CASE e = d
      BY <2>1, <2>2, <1>2, <1>4 DEF Owned
  <2>3. CASE e # d
      BY <2>1, <2>3, <1>2 DEF Owned
  <2> QED
      BY <2>2, <2>3
<1>6. Imported'
    BY <1>2, Constants DEF BookInv, Imported
<1>7. Committed' = Committed
    BY <1>1, <1>2, <1>4 DEF Committed
<1>8. AimedAtRows'
    BY <1>7 DEF BookInv, AimedAtRows, Idle
<1>9. LockedIsQuiet'
    BY DEF BookInv, LockedIsQuiet
<1>10. \A e \in Doc : row'[e].ctr = row[e].ctr /\ row'[e].seq = row[e].seq
    BY <1>2
<1> QED
    BY <1>3, <1>5, <1>6, <1>8, <1>9, <1>10, SameValues DEF BookInv

LEMMA InsertInv == ASSUME BookInv, NEW c \in Client, InsertDocument(c) PROVE BookInv'
<1>1. pc[c] = "numbered" /\ row[c].st \in {"assigned", "voided"} /\ c \in Doc /\ row[c] \in Row
    BY Constants DEF BookInv, TypeOK, AllOwned, Owned, InsertDocument
<1>2. CASE Goto(c, "done") /\ UNCHANGED row
    BY <1>1, <1>2, Onward DEF InsertDocument
<1>3. CASE Goto(c, "failed") /\ UNCHANGED row
    BY <1>1, <1>3, Onward DEF InsertDocument
<1>4. CASE Goto(c, "done") /\ row' = [row EXCEPT ![c].st = "voided"]
  <2> DEFINE t == [row[c] EXCEPT !.st = "voided"]
  <2>1. t \in Row /\ t.st = "voided" /\ t.ctr = row[c].ctr /\ t.seq = row[c].seq
      BY <1>1 DEF Row
  <2>2. c \in Committed /\ row' = [row EXCEPT ![c] = t]
      BY <1>1, <1>4 DEF Committed
  <2>3. /\ pc' \in [Client -> {"new", "conflict", "holding", "numbered", "done", "failed", "refused"}]
        /\ \A e \in Client : pc'[e] = pc[e] \/ (pc[e] = "numbered" /\ pc'[e] = "done")
      BY <1>1, <1>4 DEF Goto, BookInv, TypeOK
  <2>4. counter' = counter /\ job' = job /\ job \in [Admin -> Plans]
      BY DEF InsertDocument, BookInv, TypeOK
  <2>5. \A a \in Admin : job'[a] \in {job[a], Idle}
      BY <2>4
  <2> QED
      BY <2>1, <2>2, <2>3, <2>4, <2>5, RowChanged
<1> QED
    BY <1>2, <1>3, <1>4 DEF InsertDocument

(* Planning writes no books; what is planned is aimed at a row there is.   *)
LEMMA PlanInv ==
    ASSUME BookInv, NEW a \in Admin, NEW p \in Plans, job' = [job EXCEPT ![a] = p],
           UNCHANGED <<counter, row, pc>>, p.op \in {"void", "override"} => p.on \in Committed
    PROVE  BookInv'
<1>1. job \in [Admin -> Plans]
    BY DEF BookInv, TypeOK
<1>2. job' \in [Admin -> Plans] /\ job'[a] = p /\ \A b \in Admin : b # a => job'[b] = job[b]
    BY <1>1, JobTyped
<1>3. TypeOK'
    BY <1>2 DEF BookInv, TypeOK
<1>4. AllOwned' /\ Imported' /\ LockedIsQuiet' /\ Below' /\ Gapless'
    BY DEF BookInv, AllOwned, Owned, Imported, LockedIsQuiet, Below, Under, Gapless, GivenOnce
<1>5. AimedAtRows'
    BY <1>2 DEF BookInv, AimedAtRows, Committed
<1> QED
    BY <1>3, <1>4, <1>5 DEF BookInv

LEMMA ReadInv ==
    ASSUME BookInv, NEW a \in Admin,
           \/ \E d \in Doc : ReadForVoid(a, d) \/ \E n \in Manual : ReadForOverride(a, d, n)
           \/ \E k \in Counter, v \in 1 .. Top : ReadForReset(a, k, v)
           \/ ReadForBackfill(a)
    PROVE  BookInv'
<1>1. CASE \E d \in Doc : ReadForVoid(a, d)
  <2> PICK d \in Doc : ReadForVoid(a, d)
      BY <1>1
  <2> DEFINE p == [op |-> "void", on |-> d, val |-> None]
  <2>1. p \in Plans /\ d \in Committed
      BY DEF Plans, ReadForVoid, Committed
  <2> QED
      BY <2>1, PlanInv DEF ReadForVoid, Plan
<1>2. CASE \E d \in Doc : \E n \in Manual : ReadForOverride(a, d, n)
  <2> PICK d \in Doc, n \in Manual : ReadForOverride(a, d, n)
      BY <1>2
  <2> DEFINE p == [op |-> "override", on |-> d, val |-> n]
  <2>1. p \in Plans /\ d \in Committed
      BY DEF Plans, ReadForOverride, Committed
  <2> QED
      BY <2>1, PlanInv DEF ReadForOverride, Plan
<1>3. CASE \E k \in Counter, v \in 1 .. Top : ReadForReset(a, k, v)
  <2> PICK k \in Counter, v \in 1 .. Top : ReadForReset(a, k, v)
      BY <1>3
  <2> DEFINE p == [op |-> "reset", on |-> k, val |-> v]
  <2>1. p \in Plans
      BY DEF Plans, ReadForReset
  <2> QED
      BY <2>1, PlanInv DEF ReadForReset, Plan
<1>4. CASE ReadForBackfill(a)
  <2> DEFINE p == [op |-> "backfill", on |-> Unlisted, val |-> None]
  <2>1. Unlisted \in (SUBSET Legacy) \ {{}}
    <3>1. Unlisted # {}
        BY <1>4 DEF ReadForBackfill
    <3>2. Unlisted \subseteq Legacy
        BY DEF Unlisted
    <3> QED
        BY <3>1, <3>2
  <2>2. p \in Plans
      BY <2>1 DEF Plans
  <2> QED
      BY <2>2, <1>4, PlanInv DEF ReadForBackfill, Plan
<1> QED
    BY <1>1, <1>2, <1>3, <1>4

(* Finishing an operation: the plan says what it was about.                *)
LEMMA Finished ==
    ASSUME BookInv, NEW a \in Admin, NEW op \in {"void", "override", "reset", "backfill"}, About(a, op)
    PROVE  /\ job' \in [Admin -> Plans] /\ \A b \in Admin : job'[b] \in {job[b], Idle}
           /\ op \in {"void", "override"} => job[a].on \in Committed
           /\ op = "override" => job[a].val \in Manual
           /\ op = "reset" => job[a].on \in Resettable /\ job[a].val \in 1 .. Top
           /\ op = "backfill" => job[a].on \in SUBSET Legacy
<1>1. job \in [Admin -> Plans] /\ job[a].op = op /\ job' = [job EXCEPT ![a] = Idle]
    BY DEF BookInv, TypeOK, About
<1>2. job' \in [Admin -> Plans] /\ \A b \in Admin : job'[b] \in {job[b], Idle}
    BY <1>1, JobTyped, IdlePlan
<1>3. op \in {"void", "override"} => job[a].on \in Committed
    BY <1>1 DEF BookInv, AimedAtRows
<1>4. job[a] \in Plans
    BY <1>1
<1>5. op = "override" => job[a].val \in Manual
    BY <1>1, <1>4 DEF Plans
<1>6. op = "reset" => job[a].on \in Resettable /\ job[a].val \in 1 .. Top
    BY <1>1, <1>4 DEF Plans
<1>7. op = "backfill" => job[a].on \in SUBSET Legacy
    BY <1>1, <1>4 DEF Plans
<1> QED
    BY <1>2, <1>3, <1>5, <1>6, <1>7

LEMMA AdminForgets ==
    ASSUME BookInv, NEW a \in Admin, NEW op \in {"void", "override", "reset", "backfill"}, About(a, op),
           UNCHANGED <<counter, row, pc>>
    PROVE  BookInv'
<1>1. job' = [job EXCEPT ![a] = Idle] /\ Idle \in Plans /\ Idle.op = "idle"
    BY IdlePlan DEF About, Idle
<1> QED
    BY <1>1, PlanInv

LEMMA VoidInv == ASSUME BookInv, NEW a \in Admin, VoidNumber(a) PROVE BookInv'
<1> DEFINE d == job[a].on
           t == [row[d] EXCEPT !.st = "voided"]
<1>1. d \in Committed /\ d \in Doc /\ row[d] \in Row
    BY Finished DEF VoidNumber, Committed, BookInv, TypeOK
<1>2. t \in Row /\ t.st = "voided" /\ t.ctr = row[d].ctr /\ t.seq = row[d].seq
    BY <1>1 DEF Row
<1>3. row' = [row EXCEPT ![d] = t] /\ counter' = counter /\ pc' = pc
    BY DEF VoidNumber
<1>4. pc \in [Client -> {"new", "conflict", "holding", "numbered", "done", "failed", "refused"}]
    BY DEF BookInv, TypeOK
<1>5. job' \in [Admin -> Plans] /\ \A b \in Admin : job'[b] \in {job[b], Idle}
    BY Finished DEF VoidNumber
<1> QED
    BY <1>1, <1>2, <1>3, <1>4, <1>5, RowChanged

LEMMA OverrideInv == ASSUME BookInv, NEW a \in Admin, OverrideNumber(a) PROVE BookInv'
<1> DEFINE d == job[a].on
           t == [row[d] EXCEPT !.no = job[a].val]
<1>1. /\ d \in Committed /\ d \in Doc /\ row[d] \in Row /\ row[d].st \in {"assigned", "voided"}
      /\ job[a].val \in Number
    BY Finished, Constants DEF OverrideNumber, Committed, BookInv, TypeOK
<1>2. t \in Row /\ t.st \in {"assigned", "voided"} /\ t.ctr = row[d].ctr /\ t.seq = row[d].seq
    BY <1>1 DEF Row
<1>3. pc \in [Client -> {"new", "conflict", "holding", "numbered", "done", "failed", "refused"}]
    BY DEF BookInv, TypeOK
<1>4. job' \in [Admin -> Plans] /\ \A b \in Admin : job'[b] \in {job[b], Idle}
    BY Finished DEF OverrideNumber
<1>5. CASE UNCHANGED row
    BY <1>5, AdminForgets DEF OverrideNumber
<1>6. CASE row' = Overridden(d, job[a].val)
  <2>1. row' = [row EXCEPT ![d] = t] /\ counter' = counter /\ pc' = pc
      BY <1>6 DEF OverrideNumber, Overridden
  <2> QED
      BY <2>1, <1>1, <1>2, <1>3, <1>4, RowChanged
<1> QED
    BY <1>5, <1>6 DEF OverrideNumber

(* The books when only the counters move.                                  *)
LEMMA ResetInv == ASSUME BookInv, NEW a \in Admin, ResetCounter(a) PROVE BookInv'
<1> DEFINE k == job[a].on
           v == job[a].val
<1>1. k \in Resettable /\ k \in Counter /\ k \notin Kept /\ v \in 1 .. Top /\ counter[k].holder = None
    BY Finished, NumberingAssumption DEF ResetCounter, Unheld, Kept
<1>2. /\ counter' = [counter EXCEPT ![k].next = v] /\ row' = row /\ pc' = pc
      /\ job' \in [Admin -> Plans] /\ \A b \in Admin : job'[b] \in {job[b], Idle}
    BY Finished DEF ResetCounter
<1>3. /\ \A j \in Counter : j # k => counter'[j] = counter[j]
      /\ counter'[k].holder = None /\ counter'[k].locked = counter[k].locked
    BY <1>1, <1>2 DEF BookInv, TypeOK
<1>4. counter' \in [Counter -> [next : 1 .. Top + 1, locked : BOOLEAN, holder : Client \cup {None}]]
    BY <1>1, <1>2, Constants DEF BookInv, TypeOK
<1>5. TypeOK'
    BY <1>2, <1>4 DEF BookInv, TypeOK
<1>6. AllOwned'
  <2> SUFFICES ASSUME NEW e \in Client PROVE Owned(e)'
      BY DEF AllOwned
  <2>1. Owned(e) /\ Home[e] \in Counter /\ e # None
      BY Constants DEF BookInv, AllOwned
  <2>2. CASE Home[e] = k
      BY <2>1, <2>2, <1>1, <1>2, <1>3 DEF Owned
  <2>3. CASE Home[e] # k
      BY <2>1, <2>3, <1>2, <1>3 DEF Owned
  <2> QED
      BY <2>2, <2>3
<1>7. Imported' /\ AimedAtRows' /\ LockedIsQuiet'
    BY <1>2, <1>3, Constants DEF BookInv, Imported, AimedAtRows, Committed, LockedIsQuiet, Idle
<1>8. \A j \in Kept : counter'[j] = counter[j]
    BY <1>1, <1>3, Constants
<1>9. Below'
    BY <1>2, <1>8 DEF BookInv, Below, Under
<1>10. Gapless'
  <2> SUFFICES ASSUME NEW j \in Kept \ {Base}, NEW m \in 1 .. Top, m < counter'[j].next
               PROVE  GivenOnce(j, m)'
      BY DEF Gapless
  <2>1. GivenOnce(j, m)
      BY <1>8 DEF BookInv, Gapless
  <2> QED
      BY <2>1, <1>2 DEF GivenOnce
<1> QED
    BY <1>5, <1>6, <1>7, <1>9, <1>10 DEF BookInv

LEMMA ToggleInv == ASSUME BookInv, NEW k \in Lockable, ToggleLock(k) PROVE BookInv'
<1>1. k \in Counter /\ counter[k].holder = None /\ counter' = [counter EXCEPT ![k].locked = ~counter[k].locked]
    BY NumberingAssumption DEF ToggleLock, MayLock, Unheld
<1>2. /\ \A j \in Counter : j # k => counter'[j] = counter[j]
      /\ counter'[k].holder = None /\ counter'[k].next = counter[k].next
    BY <1>1 DEF BookInv, TypeOK
<1>3. counter' \in [Counter -> [next : 1 .. Top + 1, locked : BOOLEAN, holder : Client \cup {None}]]
    BY <1>1 DEF BookInv, TypeOK
<1>4. TypeOK' /\ Imported' /\ AimedAtRows'
    BY <1>3 DEF ToggleLock, BookInv, TypeOK, Imported, AimedAtRows, Committed
<1>5. AllOwned'
    BY <1>1, <1>2, Constants DEF ToggleLock, BookInv, AllOwned, Owned
<1>6. LockedIsQuiet'
  <2> SUFFICES ASSUME NEW e \in Client, pc[e] = "holding" PROVE ~counter'[Home[e]].locked
      BY DEF LockedIsQuiet, ToggleLock
  <2>1. counter[Home[e]].holder = e /\ e # None /\ Home[e] \in Counter
      BY Constants DEF BookInv, AllOwned, Owned
  <2> QED
      BY <2>1, <1>1, <1>2 DEF BookInv, LockedIsQuiet
<1>7. \A j \in Counter : /\ counter'[j].next = counter[j].next
                         /\ counter'[j].holder \in {counter[j].holder, None}
    BY <1>1, <1>2
<1>8. Below' /\ Gapless'
    BY <1>7, SameValues DEF ToggleLock
<1> QED
    BY <1>4, <1>5, <1>6, <1>8 DEF BookInv

(* An import waits for its counter, so it never moves under a transaction. *)
LEMMA BackfillInv == ASSUME BookInv, NEW a \in Admin, Backfill(a) PROVE BookInv'
<1> DEFINE found == job[a].on
           ledgered(l) == [st |-> "assigned", no |-> Old[l], ctr |-> Base, seq |-> Parsed[l]]
<1>1. /\ found \in SUBSET Legacy /\ counter[Base].holder = None /\ Base \in Counter /\ pc' = pc
      /\ job' \in [Admin -> Plans] /\ \A b \in Admin : job'[b] \in {job[b], Idle}
    BY Finished, Constants DEF Backfill, Unheld
<1>2. CASE UNCHANGED <<counter, row>>
    BY <1>2, AdminForgets DEF Backfill
<1>3. ASSUME NEW h \in {Parsed[l] : l \in found}, \A l \in found : Parsed[l] <= h,
             counter' = Ratchet(h),
             row' = [d \in Doc |-> IF d \notin found \X {a} THEN row[d] ELSE ledgered(d[1])]
      PROVE  BookInv'
  <2>1. h \in 0 .. Top
      BY <1>1, Constants
  <2>2. /\ \A j \in Counter : j # Base => counter'[j] = counter[j]
        /\ counter'[Base].holder = None /\ counter'[Base].locked = counter[Base].locked
        /\ counter'[Base].next \in 1 .. Top + 1 /\ counter[Base].next \in 1 .. Top + 1
        /\ counter'[Base].next >= counter[Base].next /\ counter'[Base].next > h
        /\ counter' \in [Counter -> [next : 1 .. Top + 1, locked : BOOLEAN, holder : Client \cup {None}]]
      BY <2>1, <1>1, <1>3, Constants DEF BookInv, TypeOK, Ratchet
  <2>3. ASSUME NEW d \in Doc, d \notin Import PROVE row'[d] = row[d]
      BY <1>1, <1>3, <2>3 DEF Import
  <2>4. ASSUME NEW d \in Import
        PROVE  \/ row'[d] = row[d]
               \/ \E l \in found : row'[d] = ledgered(l)
    <3>1. CASE d \notin found \X {a}
        BY <1>3, <3>1, Constants
    <3>2. CASE d \in found \X {a}
        BY <1>3, <3>2, Constants
    <3> QED
        BY <3>1, <3>2
  <2>4a. ASSUME NEW d \in Import
         PROVE  row'[d] = row[d] \/ (row'[d].st = "assigned" /\ row'[d].ctr = Base)
    <3>1. CASE row'[d] = row[d]
        BY <3>1
    <3>2. CASE \E l \in found : row'[d] = ledgered(l)
        BY <3>2
    <3> QED
        BY <2>4, <3>1, <3>2
  <2>5. \A l \in found : ledgered(l) \in Row
      BY <1>1, Constants DEF Row
  <2>6. row' \in [Doc -> Row]
    <3>1. \A d \in Doc : row'[d] \in Row
        BY <2>3, <2>4, <2>5 DEF BookInv, TypeOK
    <3> QED
        BY <3>1, <1>3
  <2>7. TypeOK'
      BY <1>1, <2>2, <2>6 DEF BookInv, TypeOK
  <2>8. AllOwned'
    <3> SUFFICES ASSUME NEW e \in Client PROVE Owned(e)'
        BY DEF AllOwned
    <3>1. Owned(e) /\ Home[e] \in Counter /\ e # None /\ row'[e] = row[e]
        BY <2>3, Constants DEF BookInv, AllOwned
    <3>2. CASE Home[e] = Base
        BY <3>1, <3>2, <1>1, <2>2 DEF Owned
    <3>3. CASE Home[e] # Base
        BY <3>1, <3>3, <1>1, <2>2 DEF Owned
    <3> QED
        BY <3>2, <3>3
  <2>9. Imported'
      BY <2>4a DEF BookInv, Imported
  <2>10. Committed \subseteq Committed'
    <3>1. ASSUME NEW d \in Doc, row[d].st \in {"assigned", "voided"}
          PROVE  row'[d].st \in {"assigned", "voided"}
        BY <2>3, <2>4a, <3>1
    <3> QED
        BY <3>1 DEF Committed
  <2>11. AimedAtRows'
      BY <1>1, <2>10 DEF BookInv, AimedAtRows, Idle
  <2>12. LockedIsQuiet'
      BY <1>1, <2>2, Constants DEF BookInv, LockedIsQuiet
  <2>13. ASSUME NEW d \in Doc, NEW j \in Kept, row'[d].ctr = j PROVE Under(d, j)'
    <3>1. j \in Counter /\ j # None
        BY Constants
    <3>2. CASE row'[d] = row[d]
      <4>1. Under(d, j) /\ row[d] \in Row
          BY <2>13, <3>2 DEF BookInv, TypeOK, Below
      <4>2. CASE j = Base
          BY <4>1, <4>2, <3>2, <2>2, NumberingAssumption DEF Under, Row
      <4>3. CASE j # Base
          BY <4>1, <4>3, <3>1, <3>2, <2>2 DEF Under
      <4> QED
          BY <4>2, <4>3
    <3>3. CASE row'[d] # row[d]
      <4>1. PICK l \in found : row'[d] = ledgered(l)
          BY <3>3, <2>3, <2>4
      <4>2. j = Base /\ row'[d].seq = Parsed[l] /\ Parsed[l] <= h /\ Parsed[l] \in Int
          BY <4>1, <2>13, <1>1, <1>3, Constants
      <4> QED
          BY <4>2, <2>1, <2>2, NumberingAssumption DEF Under
    <3> QED
        BY <3>2, <3>3
  <2>14. ASSUME NEW j \in Kept \ {Base}, NEW m \in 1 .. Top, m < counter'[j].next
         PROVE  GivenOnce(j, m)'
    <3>1. j \in Counter /\ j # None
        BY Constants
    <3>2. GivenOnce(j, m)
        BY <3>1, <2>2, <2>14 DEF BookInv, Gapless
    <3>3. \A d \in Doc : (row'[d].ctr = j <=> row[d].ctr = j) /\ (row[d].ctr = j => row'[d] = row[d])
        BY <3>1, <2>3, <2>4a DEF BookInv, Imported
    <3> QED
        BY <3>2, <3>3 DEF GivenOnce
  <2>15. Below' /\ Gapless'
      BY <2>13, <2>14 DEF Below, Gapless
  <2> QED
      BY <2>7, <2>8, <2>9, <2>11, <2>12, <2>15 DEF BookInv
<1> QED
    BY <1>2, <1>3 DEF Backfill

LEMMA StepInv == ASSUME BookInv, NEW c \in Client, Step(c) PROVE BookInv'
<1>1. CASE Refuse(c)
    BY <1>1, Onward DEF Refuse, Open
<1>2. CASE Collide(c)
    BY <1>2, Onward DEF Collide, Open, BookInv, AllOwned, Owned
<1>3. CASE Retry(c)
    BY <1>3, Onward DEF Retry, BookInv, AllOwned, Owned
<1> QED
    BY <1>1, <1>2, <1>3, AllocateInv, CommitInv, RollbackInv, InsertInv DEF Step

LEMMA NextInv == BookInv /\ [Next]_vars => BookInv'
<1> SUFFICES ASSUME BookInv, [Next]_vars PROVE BookInv'
    OBVIOUS
<1>1. ASSUME NEW c \in Client, Step(c) PROVE BookInv'
    BY <1>1, StepInv
<1>2. ASSUME NEW a \in Admin, Administer(a) PROVE BookInv'
    BY <1>2, ReadInv, VoidInv, OverrideInv, ResetInv, BackfillInv DEF Administer
<1>3. ASSUME NEW k \in Lockable, ToggleLock(k) PROVE BookInv'
    BY <1>3, ToggleInv
<1>4. CASE UNCHANGED vars
    BY <1>4 DEF vars, BookInv, TypeOK, AllOwned, Owned, Imported, AimedAtRows, Committed, Below, Under,
                Gapless, GivenOnce, LockedIsQuiet
<1> QED
    BY <1>1, <1>2, <1>3, <1>4 DEF Next

THEOREM BookInvariant == Spec => []BookInv
<1> QED
    BY InitInv, NextInv, PTL DEF Spec

(* Sequence values start at one, and every counter, row and request is in  *)
(* a state its table and its route know.                                   *)
THEOREM NumberingTypeCorrect == Spec => []TypeOK
<1>1. BookInv => TypeOK
    BY DEF BookInv
<1> QED
    BY <1>1, BookInvariant, PTL

(* Every value below the next one of a counter that is neither reset nor   *)
(* fed by an import has been given to exactly one document.                *)
THEOREM NoGapNoRepetition == Spec => []Gapless
<1>1. BookInv => Gapless
    BY DEF BookInv
<1> QED
    BY <1>1, BookInvariant, PTL

(* A counter whose lock has been confirmed has no number in flight.        *)
THEOREM LockIsQuiet == Spec => []LockedIsQuiet
<1>1. BookInv => LockedIsQuiet
    BY DEF BookInv
<1> QED
    BY <1>1, BookInvariant, PTL

-----------------------------------------------------------------------------
(* The pattern tells the values of a kept counter from every other's, and  *)
(* an old document that carries one of its numbers is imported into it     *)
(* with that number's value.                                               *)
CleanNumbers ==
    /\ \A k \in Kept, j \in Counter, n, m \in 1 .. Top : Text[k][n] = Text[j][m] => k = j /\ n = m
    /\ \A l \in Legacy, k \in Kept, n \in 1 .. Top : Old[l] = Text[k][n] => k = Base /\ n <= Parsed[l]

Unique == \A d, e \in Doc :
    row[d].st # "none" /\ row[e].st # "none" /\ row[d].no = row[e].no => d = e

(* No row carries a number its counter has still to give, unless typed.    *)
Past(d) == \A k \in Kept : \A n \in 1 .. Top :
    row[d].no = Text[k][n] /\ row[d].no \notin Manual => n < counter[k].next
Behind == \A d \in Doc : row[d].st # "none" => Past(d)
TextInv == BookInv /\ Unique /\ Behind

(* A step that gives no number and moves no kept counter back.             *)
LEMMA NoNewNumber ==
    ASSUME TextInv,
           \A d \in Doc : row'[d].st # "none" => row[d].st # "none" /\ row'[d].no = row[d].no,
           \A k \in Kept : counter'[k].next \in Int /\ counter'[k].next >= counter[k].next
    PROVE  Unique' /\ Behind'
<1>1. Unique'
    BY DEF TextInv, Unique
<1>2. \A k \in Kept : counter[k].next \in Int
    BY Constants DEF TextInv, BookInv, TypeOK
<1>3. Behind'
    BY <1>2 DEF TextInv, Behind, Past
<1> QED
    BY <1>1, <1>3

LEMMA KeptTyped == ASSUME TextInv, NEW k \in Kept PROVE counter[k].next \in Int
<1>1. k \in Counter
    BY Constants
<1> QED
    BY <1>1, Constants DEF TextInv, BookInv, TypeOK

LEMMA AllocateText ==
    ASSUME CleanNumbers, TextInv, NEW c \in Client, Allocate(c)
    PROVE  Unique' /\ Behind'
<1> DEFINE k == Home[c]
           n == counter[k].next
<1>1. /\ k \in Counter /\ c \in Doc /\ n \in 1 .. Top /\ row \in [Doc -> Row]
      /\ counter \in [Counter -> [next : 1 .. Top + 1, locked : BOOLEAN, holder : Client \cup {None}]]
    BY Constants DEF TextInv, BookInv, TypeOK, Allocate
<1>2. counter'[k].next = n + 1 /\ \A j \in Counter : j # k => counter'[j] = counter[j]
    BY <1>1 DEF Allocate
<1>3. row'[c].no = Text[k][n] /\ \A d \in Doc : d # c => row'[d] = row[d]
    BY <1>1 DEF Allocate, Candidate
<1>4. ASSUME NEW d \in Doc, row[d].st # "none" PROVE row[d].no # Text[k][n]
    BY <1>1, <1>4 DEF Allocate, Candidate, Used, Claimed, Committed, Row
<1>5. Unique'
    BY <1>3, <1>4 DEF TextInv, Unique
<1>6. ASSUME NEW d \in Doc, row'[d].st # "none", NEW j \in Kept, NEW m \in 1 .. Top,
             row'[d].no = Text[j][m], row'[d].no \notin Manual
      PROVE  m < counter'[j].next
  <2>1. CASE d = c
    <3>1. j = k /\ m = n
        BY <2>1, <1>1, <1>3, <1>6 DEF CleanNumbers
    <3> QED
        BY <3>1, <1>1, <1>2
  <2>2. CASE d # c
    <3>1. m < counter[j].next /\ j \in Counter
        BY <2>2, <1>3, <1>6, Constants DEF TextInv, Behind, Past
    <3>2. CASE j = k
        BY <3>1, <3>2, <1>1, <1>2
    <3>3. CASE j # k
        BY <3>1, <3>3, <1>2
    <3> QED
        BY <3>2, <3>3
  <2> QED
      BY <2>1, <2>2
<1> QED
    BY <1>5, <1>6 DEF Behind, Past

LEMMA RollbackText ==
    ASSUME CleanNumbers, TextInv, NEW c \in Client, Rollback(c)
    PROVE  Unique' /\ Behind'
<1> DEFINE k == Home[c]
           n == row[c].seq
<1>1. /\ k \in Counter /\ c \in Doc /\ n \in 1 .. Top /\ counter[k].next = n + 1
      /\ row[c].no = Text[k][n] /\ row[c].st = "pending"
      /\ counter \in [Counter -> [next : 1 .. Top + 1, locked : BOOLEAN, holder : Client \cup {None}]]
      /\ row \in [Doc -> Row]
    BY Constants DEF TextInv, BookInv, TypeOK, AllOwned, Owned, Rollback
<1>2. counter'[k].next = n /\ \A j \in Counter : j # k => counter'[j] = counter[j]
    BY <1>1 DEF Rollback, RolledBack
<1>3. row'[c].st = "none" /\ \A d \in Doc : d # c => row'[d] = row[d]
    BY <1>1 DEF Rollback, NoRow
<1>4. Unique'
    BY <1>3 DEF TextInv, Unique
<1>5. ASSUME NEW d \in Doc, row'[d].st # "none", NEW j \in Kept, NEW m \in 1 .. Top,
             row'[d].no = Text[j][m], row'[d].no \notin Manual
      PROVE  m < counter'[j].next
  <2>1. d # c /\ row'[d] = row[d]
      BY <1>3, <1>5
  <2>2. m < counter[j].next /\ j \in Counter
      BY <2>1, <1>5, Constants DEF TextInv, Behind, Past
  <2>3. ~(j = k /\ m = n)
      BY <2>1, <1>1, <1>5 DEF TextInv, Unique
  <2>4. CASE j = k
      BY <2>2, <2>3, <2>4, <1>1, <1>2
  <2>5. CASE j # k
      BY <2>2, <2>5, <1>2
  <2> QED
      BY <2>4, <2>5
<1> QED
    BY <1>4, <1>5 DEF Behind, Past

LEMMA OverrideText ==
    ASSUME TextInv, NEW a \in Admin, OverrideNumber(a)
    PROVE  Unique' /\ Behind'
<1> DEFINE d == job[a].on
           n == job[a].val
<1>1. d \in Doc /\ n \in Manual /\ row \in [Doc -> Row]
    BY Finished DEF TextInv, BookInv, TypeOK, Committed, OverrideNumber
<1>2. CASE UNCHANGED row
    BY <1>2, NoNewNumber, KeptTyped DEF OverrideNumber
<1>3. CASE /\ ~(\E e \in Committed \ {d} : row[e].no = n)
           /\ ~Claimed(n) /\ row' = Overridden(d, n)
  <2>1. row'[d].no = n /\ \A e \in Doc : e # d => row'[e] = row[e]
      BY <1>1, <1>3 DEF Overridden
  <2>2. \A e \in Doc : row'[e].st = row[e].st
      BY <1>1, <1>3 DEF Overridden, Row
  <2>3. ASSUME NEW e \in Doc, e # d, row[e].st # "none" PROVE row[e].no # n
      BY <1>1, <1>3, <2>3 DEF Committed, Claimed, Row
  <2>4. Unique'
      BY <2>1, <2>2, <2>3 DEF TextInv, Unique
  <2>5. Behind'
      BY <1>1, <2>1, <2>2 DEF TextInv, Behind, Past, OverrideNumber
  <2> QED
      BY <2>4, <2>5
<1> QED
    BY <1>2, <1>3 DEF OverrideNumber

LEMMA BackfillText ==
    ASSUME CleanNumbers, TextInv, NEW a \in Admin, Backfill(a)
    PROVE  Unique' /\ Behind'
<1> DEFINE found == job[a].on
           ledgered(l) == [st |-> "assigned", no |-> Old[l], ctr |-> Base, seq |-> Parsed[l]]
<1>1. /\ found \in SUBSET Legacy /\ row \in [Doc -> Row] /\ Base \in Counter
      /\ counter \in [Counter -> [next : 1 .. Top + 1, locked : BOOLEAN, holder : Client \cup {None}]]
    BY Finished, Constants DEF Backfill, TextInv, BookInv, TypeOK
<1>2. CASE UNCHANGED <<counter, row>>
    BY <1>2, NoNewNumber, KeptTyped
<1>3. ASSUME NEW h \in {Parsed[l] : l \in found}, \A l \in found : Parsed[l] <= h,
             counter' = Ratchet(h),
             row' = [d \in Doc |-> IF d \notin found \X {a} THEN row[d] ELSE ledgered(d[1])],
             \A l \in found : ~Used(Old[l]) /\ ~Claimed(Old[l]),
             \A l, m \in found : Old[l] = Old[m] => l = m
      PROVE  Unique' /\ Behind'
  <2>1. h \in 0 .. Top /\ \A l \in found : Parsed[l] \in 0 .. Top
      BY <1>1, Constants
  <2>2. /\ \A j \in Counter : j # Base => counter'[j] = counter[j]
        /\ counter'[Base].next >= counter[Base].next /\ counter'[Base].next > h
        /\ counter'[Base].next \in Int
      BY <2>1, <1>1, <1>3, Constants DEF Ratchet
  <2>3. ASSUME NEW d \in Doc
        PROVE  \/ d \notin found \X {a} /\ row'[d] = row[d]
               \/ \E l \in found : d = <<l, a>> /\ row'[d].no = Old[l]
      BY <1>3
  <2>4. ASSUME NEW d \in Doc, NEW l \in found, row[d].st # "none" PROVE row[d].no # Old[l]
      BY <1>1, <1>3, <2>4 DEF Used, Claimed, Committed, Row
  <2>5. Unique'
    <3> SUFFICES ASSUME NEW d \in Doc, NEW e \in Doc, row'[d].st # "none", row'[e].st # "none",
                        row'[d].no = row'[e].no
                 PROVE  d = e
        BY DEF Unique
    <3>1. CASE row'[d] = row[d] /\ row'[e] = row[e]
        BY <3>1 DEF TextInv, Unique
    <3>2. CASE row'[d] = row[d] /\ \E l \in found : e = <<l, a>> /\ row'[e].no = Old[l]
        BY <3>2, <2>4
    <3>3. CASE row'[e] = row[e] /\ \E l \in found : d = <<l, a>> /\ row'[d].no = Old[l]
        BY <3>3, <2>4
    <3>4. CASE /\ \E l \in found : d = <<l, a>> /\ row'[d].no = Old[l]
               /\ \E l \in found : e = <<l, a>> /\ row'[e].no = Old[l]
        BY <3>4, <1>3
    <3> QED
        BY <3>1, <3>2, <3>3, <3>4, <2>3
  <2>6. ASSUME NEW d \in Doc, row'[d].st # "none", NEW j \in Kept, NEW m \in 1 .. Top,
               row'[d].no = Text[j][m], row'[d].no \notin Manual
        PROVE  m < counter'[j].next
    <3>1. CASE row'[d] = row[d]
      <4>1. m < counter[j].next /\ j \in Counter /\ counter[j].next \in Int
          BY <3>1, <2>6, Constants, KeptTyped DEF TextInv, Behind, Past
      <4>2. CASE j = Base
          BY <4>1, <4>2, <2>2
      <4>3. CASE j # Base
          BY <4>1, <4>3, <2>2
      <4> QED
          BY <4>2, <4>3
    <3>2. CASE \E l \in found : d = <<l, a>> /\ row'[d].no = Old[l]
      <4> PICK l \in found : row'[d].no = Old[l]
          BY <3>2
      <4>1. l \in Legacy /\ j = Base /\ m <= Parsed[l]
          BY <1>1, <2>6 DEF CleanNumbers
      <4> QED
          BY <4>1, <1>3, <2>1, <2>2
    <3> QED
        BY <3>1, <3>2, <2>3
  <2> QED
      BY <2>5, <2>6 DEF Behind, Past
<1>4. CASE ~(\E d \in found : Used(Old[d]) \/ \E e \in found \ {d} : Old[e] = Old[d])
  <2>1. \A l, m \in found : Old[l] = Old[m] => l = m
      BY <1>4
  <2>2. \A l \in found : ~Used(Old[l])
      BY <1>4
  <2> QED
      BY <1>3, <1>4, <2>1, <2>2 DEF Backfill
<1> QED
    BY <1>2, <1>4 DEF Backfill

LEMMA StepText ==
    ASSUME CleanNumbers, TextInv, NEW c \in Client, Step(c)
    PROVE  Unique' /\ Behind'
<1>1. row \in [Doc -> Row] /\ c \in Doc
      /\ counter \in [Counter -> [next : 1 .. Top + 1, locked : BOOLEAN, holder : Client \cup {None}]]
      /\ Home[c] \in Counter
    BY Constants DEF TextInv, BookInv, TypeOK
<1>2. CASE Refuse(c) \/ Collide(c) \/ Retry(c)
    BY <1>2, NoNewNumber, KeptTyped DEF Refuse, Collide, Retry
<1>3. CASE Commit(c)
  <2>1. \A d \in Doc : row'[d].st # "none" => row[d].st # "none" /\ row'[d].no = row[d].no
      BY <1>1, <1>3 DEF Commit, Row, TextInv, BookInv, AllOwned, Owned
  <2>2. \A k \in Counter : counter'[k].next = counter[k].next
      BY <1>1, <1>3 DEF Commit, Released
  <2> QED
      BY <2>1, <2>2, NoNewNumber, KeptTyped, Constants
<1>4. CASE InsertDocument(c)
  <2>1. row[c].st \in {"assigned", "voided"}
      BY <1>4 DEF InsertDocument, TextInv, BookInv, AllOwned, Owned
  <2>2. \A d \in Doc : row'[d].st # "none" => row[d].st # "none" /\ row'[d].no = row[d].no
      BY <1>1, <1>4, <2>1 DEF InsertDocument, Row
  <2> QED
      BY <2>2, <1>4, NoNewNumber, KeptTyped DEF InsertDocument
<1> QED
    BY <1>2, <1>3, <1>4, AllocateText, RollbackText DEF Step

LEMMA AdministerText ==
    ASSUME CleanNumbers, TextInv, NEW a \in Admin, Administer(a)
    PROVE  Unique' /\ Behind'
<1>1. row \in [Doc -> Row]
      /\ counter \in [Counter -> [next : 1 .. Top + 1, locked : BOOLEAN, holder : Client \cup {None}]]
    BY DEF TextInv, BookInv, TypeOK
<1>2. CASE UNCHANGED <<counter, row>>
    BY <1>2, NoNewNumber, KeptTyped
<1>3. CASE VoidNumber(a)
  <2>1. job[a].on \in Committed
      BY <1>3, Finished DEF VoidNumber, TextInv
  <2>2. \A d \in Doc : row'[d].st # "none" => row[d].st # "none" /\ row'[d].no = row[d].no
      BY <1>1, <1>3, <2>1 DEF VoidNumber, Row, Committed
  <2> QED
      BY <2>2, <1>3, NoNewNumber, KeptTyped DEF VoidNumber
<1>4. CASE ResetCounter(a)
  <2>1. job[a].on \in Resettable
      BY <1>4, Finished DEF ResetCounter, TextInv
  <2>2. \A k \in Kept : counter'[k] = counter[k]
      BY <1>1, <1>4, <2>1 DEF ResetCounter, Kept
  <2>3. \A k \in Kept : counter'[k].next \in Int /\ counter'[k].next >= counter[k].next
      BY <2>2, KeptTyped
  <2>4. \A d \in Doc : row'[d].st # "none" => row[d].st # "none" /\ row'[d].no = row[d].no
      BY <1>4 DEF ResetCounter
  <2> QED
      BY <2>3, <2>4, NoNewNumber
<1>5. CASE \/ \E d \in Doc : ReadForVoid(a, d) \/ \E n \in Manual : ReadForOverride(a, d, n)
           \/ \E k \in Counter, v \in 1 .. Top : ReadForReset(a, k, v)
           \/ ReadForBackfill(a)
  <2>1. UNCHANGED <<counter, row>>
      BY <1>5 DEF ReadForVoid, ReadForOverride, ReadForReset, ReadForBackfill, Plan
  <2> QED
      BY <2>1, <1>2
<1> QED
    BY <1>3, <1>4, <1>5, OverrideText, BackfillText DEF Administer

LEMMA NextText == ASSUME CleanNumbers PROVE TextInv /\ [Next]_vars => TextInv'
<1> SUFFICES ASSUME TextInv, [Next]_vars PROVE TextInv'
    OBVIOUS
<1>1. BookInv'
    BY NextInv DEF TextInv
<1>2. ASSUME NEW c \in Client, Step(c) PROVE Unique' /\ Behind'
    BY <1>2, StepText
<1>3. ASSUME NEW a \in Admin, Administer(a) PROVE Unique' /\ Behind'
    BY <1>3, AdministerText
<1>4. ASSUME NEW k \in Lockable, ToggleLock(k) PROVE Unique' /\ Behind'
  <2>1. \A j \in Counter : counter'[j].next = counter[j].next
      BY <1>4 DEF ToggleLock, TextInv, BookInv, TypeOK
  <2> QED
      BY <2>1, <1>4, NoNewNumber, KeptTyped, Constants DEF ToggleLock
<1>5. CASE UNCHANGED vars
  <2>1. counter' = counter /\ row' = row
      BY <1>5 DEF vars
  <2>2. \A k \in Kept : counter'[k].next \in Int /\ counter'[k].next >= counter[k].next
      BY <2>1, KeptTyped
  <2>3. \A d \in Doc : row'[d].st # "none" => row[d].st # "none" /\ row'[d].no = row[d].no
      BY <2>1
  <2> QED
      BY <1>1, <2>2, <2>3, NoNewNumber DEF TextInv
<1> QED
    BY <1>1, <1>2, <1>3, <1>4, <1>5 DEF Next, TextInv

(* A number is refused only if somebody typed it, when the pattern tells   *)
(* the counters apart and old documents are imported where they belong.    *)
THEOREM NoDrift == ASSUME CleanNumbers PROVE Spec => NeverCollides
<1>1. Init => TextInv
  <2>1. Init => Unique /\ Behind
      BY DEF Init, Unique, Behind, NoRow
  <2> QED
      BY <2>1, InitInv DEF TextInv
<1>2. TextInv /\ [Next]_vars => TextInv'
    BY NextText
<1>3. ASSUME TextInv, [Next]_vars, NEW c \in Client, Home[c] \in Kept,
             pc[c] # "conflict", pc'[c] = "conflict"
      PROVE  Candidate(c) \in Manual
  <2>1. Collide(c)
    <3>1. pc \in [Client -> {"new", "conflict", "holding", "numbered", "done", "failed", "refused"}]
        BY <1>3 DEF TextInv, BookInv, TypeOK
    <3>2. ASSUME NEW e \in Client, Step(e) PROVE Collide(c)
        BY <3>1, <3>2, <1>3 DEF Step, Allocate, Refuse, Collide, Retry, Commit, Rollback, InsertDocument, Goto
    <3>3. ~(\E a \in Admin : Administer(a))
        BY <1>3 DEF Administer, ReadForVoid, ReadForOverride, ReadForReset, ReadForBackfill, Plan,
                    VoidNumber, OverrideNumber, ResetCounter, Backfill
    <3>4. ~(\E k \in Lockable : ToggleLock(k)) /\ ~UNCHANGED vars
        BY <1>3 DEF ToggleLock, vars
    <3> QED
        BY <3>2, <3>3, <3>4, <1>3 DEF Next
  <2> DEFINE k == Home[c]
             n == counter[k].next
  <2>2. k \in Counter /\ n \in 1 .. Top
      BY <1>3, <2>1, Constants DEF Collide, TextInv, BookInv, TypeOK
  <2>3. PICK d \in Doc : row[d].st # "none" /\ row[d].no = Candidate(c)
      BY <2>1 DEF Collide, Used, Committed
  <2>4. row[d].no \notin Manual => n < n
      BY <2>2, <2>3, <1>3 DEF TextInv, Behind, Past, Candidate
  <2> QED
      BY <2>2, <2>3, <2>4
<1>4. TextInv /\ [Next]_vars =>
         [\A c \in Client : Home[c] \in Kept /\ pc[c] # "conflict" /\ pc'[c] = "conflict"
                                 => Candidate(c) \in Manual]_vars
    BY <1>3
<1> QED
    BY <1>1, <1>2, <1>4, PTL DEF Spec, NeverCollides

-----------------------------------------------------------------------------
(* A withdrawn number stays withdrawn.  Overrides keep the status of their *)
(* row; an import writes rows of its own, which do not exist before.       *)
Fresh == \A a \in Admin : job[a].op = "backfill" => \A l \in job[a].on : row[<<l, a>>].st = "none"
FreshInv == BookInv /\ Fresh

(* What any step does to a row, and to what an administrator has read.     *)
Own(c) == \A d \in Doc : d # c => row'[d] = row[d]
NotRevived(d) == row[d].st = "voided" => row'[d].st = "voided"
NoImportPlanned == \A a \in Admin : job'[a] = job[a] \/ job'[a].op # "backfill"

LEMMA FreshKept ==
    ASSUME FreshInv, BookInv', NoImportPlanned,
           \A e \in Import : row[e].st = "none" => row'[e].st = "none"
    PROVE  Fresh'
<1> SUFFICES ASSUME NEW a \in Admin, job'[a].op = "backfill", NEW l \in job'[a].on
             PROVE  row'[<<l, a>>].st = "none"
    BY DEF Fresh
<1>1. job'[a] = job[a]
    BY DEF NoImportPlanned
<1>2. job[a] \in Plans
    BY DEF FreshInv, BookInv, TypeOK
<1>3. l \in Legacy /\ row[<<l, a>>].st = "none"
    BY <1>1, <1>2 DEF FreshInv, Fresh, Plans
<1> QED
    BY <1>3, Constants

LEMMA StepFresh ==
    ASSUME FreshInv, BookInv', NEW c \in Client, Step(c)
    PROVE  Fresh' /\ \A d \in Doc : NotRevived(d)
<1>t. row \in [Doc -> Row] /\ c \in Doc /\ c \notin Import /\ Owned(c)
    BY Constants DEF FreshInv, BookInv, TypeOK, AllOwned
<1>1. job' = job /\ Own(c)
    BY <1>t DEF Step, Allocate, Refuse, Collide, Retry, Commit, Rollback, InsertDocument, Own
<1>2. NotRevived(c)
  <2>1. CASE Allocate(c) \/ Commit(c) \/ Rollback(c)
      BY <1>t, <2>1 DEF Allocate, Commit, Rollback, Open, Owned, NotRevived
  <2>2. CASE InsertDocument(c)
    <3>1. row' = row \/ row' = [row EXCEPT ![c].st = "voided"]
        BY <2>2 DEF InsertDocument
    <3>2. row[c] \in Row
        BY <1>t
    <3>3. [row[c] EXCEPT !.st = "voided"].st = "voided"
        BY <3>2 DEF Row
    <3> QED
        BY <1>t, <3>1, <3>3 DEF NotRevived
  <2>3. CASE Refuse(c) \/ Collide(c) \/ Retry(c)
      BY <2>3 DEF Refuse, Collide, Retry, NotRevived
  <2> QED
      BY <2>1, <2>2, <2>3 DEF Step
<1>3. Fresh'
    BY <1>t, <1>1, Constants, FreshKept DEF Own, NoImportPlanned
<1> QED
    BY <1>1, <1>2, <1>3 DEF Own, NotRevived

LEMMA AdministerFresh ==
    ASSUME FreshInv, BookInv', NEW a \in Admin, Administer(a)
    PROVE  Fresh' /\ \A d \in Doc : NotRevived(d)
<1>t. row \in [Doc -> Row] /\ job \in [Admin -> Plans] /\ BookInv
    BY DEF FreshInv, BookInv, TypeOK
<1>1. CASE ReadForBackfill(a)
  <2>1. row' = row /\ job' = [job EXCEPT ![a] = [op |-> "backfill", on |-> Unlisted, val |-> None]]
      BY <1>1 DEF ReadForBackfill, Plan
  <2>2. \A b \in Admin : b # a => job'[b] = job[b]
      BY <1>t, <2>1
  <2>3. job'[a].on = Unlisted
      BY <1>t, <2>1
  <2>4. \A l \in Unlisted : row[<<l, a>>].st = "none"
      BY DEF Unlisted
  <2> QED
      BY <2>1, <2>2, <2>3, <2>4 DEF FreshInv, Fresh, NotRevived
<1>2. ASSUME row' = row, NEW op \in {"idle", "void", "override", "reset"}, NEW on, NEW val,
             job' = [job EXCEPT ![a] = [op |-> op, on |-> on, val |-> val]]
      PROVE  Fresh' /\ \A d \in Doc : NotRevived(d)
  <2>1. NoImportPlanned
      BY <1>t, <1>2 DEF NoImportPlanned
  <2> QED
      BY <1>2, <2>1, FreshKept DEF NotRevived
<1>3. CASE \/ \E d \in Doc : ReadForVoid(a, d) \/ \E n \in Manual : ReadForOverride(a, d, n)
           \/ \E k \in Counter, v \in 1 .. Top : ReadForReset(a, k, v)
    BY <1>2, <1>3 DEF ReadForVoid, ReadForOverride, ReadForReset, Plan
<1>4. CASE ResetCounter(a)
    BY <1>2, <1>4 DEF ResetCounter, About, Idle
<1>5. CASE VoidNumber(a) \/ OverrideNumber(a)
  <2>1. job[a].on \in Committed
      BY <1>t, <1>5, Finished DEF VoidNumber, OverrideNumber
  <2>2. job' = [job EXCEPT ![a] = Idle]
      BY <1>5 DEF VoidNumber, OverrideNumber, About
  <2>3. NoImportPlanned
      BY <1>t, <2>2 DEF NoImportPlanned, Idle
  <2>4. \A d \in Doc : NotRevived(d)
    <3>1. \/ row' = row
          \/ row' = [row EXCEPT ![job[a].on].st = "voided"]
          \/ row' = [row EXCEPT ![job[a].on].no = job[a].val]
        BY <1>5 DEF VoidNumber, OverrideNumber, Overridden
    <3>2. row[job[a].on] \in Row /\ job[a].on \in Doc
        BY <1>t, <2>1 DEF Committed
    <3>3. [row[job[a].on] EXCEPT !.st = "voided"].st = "voided"
        BY <3>2 DEF Row
    <3>4. [row[job[a].on] EXCEPT !.no = job[a].val].st = row[job[a].on].st
        BY <3>2 DEF Row
    <3> QED
        BY <1>t, <3>1, <3>2, <3>3, <3>4 DEF NotRevived
  <2>5. \A d \in Doc : row[d].st = "none" => row'[d].st = "none"
      BY <1>t, <1>5, <2>1 DEF VoidNumber, OverrideNumber, Overridden, Committed
  <2>6. \A e \in Import : row[e].st = "none" => row'[e].st = "none"
      BY <2>5, Constants
  <2>7. Fresh'
      BY <2>3, <2>6, FreshKept
  <2> QED
      BY <2>4, <2>7
<1>6. CASE Backfill(a)
  <2>1. job[a].op = "backfill" /\ job' = [job EXCEPT ![a] = Idle]
      BY <1>6 DEF Backfill, About
  <2>2. job'[a] = Idle /\ \A b \in Admin : b # a => job'[b] = job[b]
      BY <1>t, <2>1
  <2>3. \A d \in Doc : d \notin job[a].on \X {a} => row'[d] = row[d]
      BY <1>6 DEF Backfill
  <2>4. \A d \in Doc : NotRevived(d)
    <3>1. ASSUME NEW d \in job[a].on \X {a} PROVE row[d].st = "none"
        BY <2>1 DEF FreshInv, Fresh
    <3> QED
        BY <2>3, <3>1 DEF NotRevived
  <2>5. ASSUME NEW b \in Admin, job'[b].op = "backfill", NEW l \in job'[b].on
        PROVE  row'[<<l, b>>].st = "none"
    <3>1. b # a /\ job'[b] = job[b]
        BY <2>2, <2>5 DEF Idle
    <3>2. l \in Legacy /\ row[<<l, b>>].st = "none"
        BY <1>t, <2>5, <3>1 DEF FreshInv, Fresh, Plans
    <3> QED
        BY <2>3, <3>1, <3>2, Constants
  <2> QED
      BY <2>4, <2>5 DEF Fresh
<1> QED
    BY <1>1, <1>3, <1>4, <1>5, <1>6 DEF Administer

(* A withdrawn number is not revived, whatever was read before it was      *)
(* withdrawn and is written after.                                         *)
THEOREM WithdrawnForEver == Spec => VoidIsFinal
<1>1. Init => FreshInv
    BY InitInv DEF FreshInv, Fresh, Init, Idle
<1>2. FreshInv /\ [Next]_vars => FreshInv' /\ \A d \in Doc : NotRevived(d)
  <2> SUFFICES ASSUME FreshInv, [Next]_vars PROVE FreshInv' /\ \A d \in Doc : NotRevived(d)
      OBVIOUS
  <2>1. BookInv'
      BY NextInv DEF FreshInv
  <2>2. CASE \E c \in Client : Step(c)
      BY <2>1, <2>2, StepFresh DEF FreshInv
  <2>3. CASE \E a \in Admin : Administer(a)
      BY <2>1, <2>3, AdministerFresh DEF FreshInv
  <2>4. CASE UNCHANGED <<row, job>>
      BY <2>1, <2>4 DEF FreshInv, Fresh, NotRevived
  <2> QED
      BY <2>2, <2>3, <2>4 DEF Next, ToggleLock, vars
<1>3. FreshInv /\ [Next]_vars => \A d \in Doc : row[d].st = "voided" => row'[d].st = "voided"
    BY <1>2 DEF NotRevived
<1> QED
    BY <1>1, <1>2, <1>3, PTL DEF Spec, VoidIsFinal
=============================================================================
