----------------------------- MODULE LeaveBooks -----------------------------
(***************************************************************************)
(* The balance of leave days covers every request that counts on it and    *)
(* never exceeds the entitlement, for any number of requests of any length *)
(* and any number of clients.                                              *)
(*                                                                         *)
(* It is a statement about sums over requests.  The first section proves   *)
(* what the proof needs to know of Total: that it obeys the equation that  *)
(* defines it, that any request may be taken out of a sum first, and that  *)
(* a larger set has no smaller sum.                                        *)
(***************************************************************************)
EXTENDS LeaveFlow, FiniteSetTheorems

-----------------------------------------------------------------------------
(* Sums of days.                                                           *)

(* The function that the fold under Total recurs on.                       *)
First(s) == CHOOSE x \in s : TRUE
Sums(f, T) ==
    f = [s \in SUBSET T |-> IF s = {} THEN 0 ELSE Days[First(s)] + f[s \ {First(s)}]]

LEMMA TotalIsSums == \A T : Total(T) = (CHOOSE f : Sums(f, T))[T]
BY DEF Total, MapThenSumSet, MapThenFoldSet, Sums, First

(* Induction over the sets of requests: a collection of them that is not   *)
(* empty has a smallest member.                                            *)
LEMMA Smallest ==
    ASSUME NEW C \in SUBSET SUBSET Request, C # {}
    PROVE  \E x \in C : \A y \in SUBSET x : y # x => y \notin C
<1>1. C \subseteq FiniteSubsetsOf(Request)
    BY LeaveAssumption, FS_FiniteSubsetsOfFinite
<1>2. PICK x \in C : \A y \in C : <<y, x>> \notin StrictSubsetOrdering(Request)
    BY <1>1, WFMin, FS_StrictSubsetOrderingWellFounded, Zenon
<1>3. ASSUME NEW y \in SUBSET x, y # x, y \in C PROVE FALSE
    <2>1. <<y, x>> \in StrictSubsetOrdering(Request)
        BY <1>3 DEF StrictSubsetOrdering
    <2> QED
        BY <1>2, <1>3, <2>1
<1> QED
    BY <1>3

LEMMA FirstIn == \A s : s # {} => First(s) \in s
BY DEF First

LEMMA SumsUnique ==
    ASSUME NEW U \in SUBSET Request, NEW V \in SUBSET Request, NEW f, NEW g,
           Sums(f, U), Sums(g, V), NEW W \in SUBSET (U \cap V)
    PROVE  f[W] = g[W]
<1> DEFINE C == {s \in SUBSET (U \cap V) : f[s] # g[s]}
<1>1. SUFFICES ASSUME C # {} PROVE FALSE
    OBVIOUS
<1>2. PICK x \in C : \A y \in SUBSET x : y # x => y \notin C
    BY <1>1, Smallest
<1>3. x # {}
    BY <1>2 DEF Sums
<1> DEFINE y == x \ {First(x)}
<1>4. y \in SUBSET x /\ y # x /\ f[y] = g[y]
    BY <1>2, <1>3, FirstIn
<1>5. f[x] = Days[First(x)] + f[y] /\ g[x] = Days[First(x)] + g[y]
    BY <1>2, <1>3 DEF Sums
<1> QED
    BY <1>2, <1>4, <1>5

LEMMA SumsExist ==
    ASSUME NEW T \in SUBSET Request
    PROVE  \E f : Sums(f, T)
<1> DEFINE C == {s \in SUBSET Request : ~ \E f : Sums(f, s)}
<1>1. SUFFICES ASSUME C # {} PROVE FALSE
    OBVIOUS
<1>2. PICK x \in C : \A y \in SUBSET x : y # x => y \notin C
    BY <1>1, Smallest
<1> DEFINE F(s) == CHOOSE f : Sums(f, s)
           rest(s) == s \ {First(s)}
           g == [s \in SUBSET x |-> IF s = {} THEN 0 ELSE Days[First(s)] + F(rest(s))[rest(s)]]
<1>3. \A s \in SUBSET x : s # x => Sums(F(s), s)
    BY <1>2
<1> HIDE DEF F
<1>4. \A s \in SUBSET x : s # {} => rest(s) \in SUBSET x /\ rest(s) # x /\ rest(s) \in SUBSET s
    BY FirstIn
<1>5. ASSUME NEW s \in SUBSET x, s # x PROVE g[s] = F(s)[s]
    <2>1. Sums(F(s), s)
        BY <1>3, <1>5
    <2>2. CASE s = {}
        BY <2>1, <2>2 DEF Sums
    <2>3. CASE s # {}
        <3>1. F(s)[s] = Days[First(s)] + F(s)[rest(s)]
            BY <2>1, <2>3 DEF Sums
        <3>2. Sums(F(rest(s)), rest(s))
            BY <1>3, <1>4, <2>3
        <3>3. rest(s) \in SUBSET (s \cap rest(s)) /\ s \in SUBSET Request
              /\ rest(s) \in SUBSET Request
            BY <1>4, <2>3
        <3>4. F(s)[rest(s)] = F(rest(s))[rest(s)]
            BY <2>1, <3>2, <3>3, SumsUnique
        <3> QED
            BY <2>3, <3>1, <3>4
    <2> QED
        BY <2>2, <2>3
<1>6. g = [s \in SUBSET x |-> IF s = {} THEN 0 ELSE Days[First(s)] + g[rest(s)]]
    BY <1>4, <1>5
<1>7. Sums(g, x)
    BY <1>6 DEF Sums
<1> QED
    BY <1>2, <1>7

(* Total obeys the equation that it is defined by.                         *)
LEMMA TotalDef ==
    ASSUME NEW S \in SUBSET Request
    PROVE  Total(S) = IF S = {} THEN 0 ELSE Days[First(S)] + Total(S \ {First(S)})
<1> DEFINE F(s) == CHOOSE f : Sums(f, s)
           T == S \ {First(S)}
<1>1. Sums(F(S), S) /\ Sums(F(T), T)
    BY SumsExist
<1>2. Total(S) = F(S)[S] /\ Total(T) = F(T)[T]
    BY TotalIsSums
<1> HIDE DEF F
<1>3. F(S)[S] = IF S = {} THEN 0 ELSE Days[First(S)] + F(S)[T]
    BY <1>1 DEF Sums
<1>4. F(S)[T] = F(T)[T]
    BY <1>1, SumsUnique
<1> QED
    BY <1>2, <1>3, <1>4

LEMMA TotalEmpty == Total({}) = 0
BY TotalDef

LEMMA TotalNat == \A S \in SUBSET Request : Total(S) \in Nat
<1> DEFINE C == {S \in SUBSET Request : Total(S) \notin Nat}
<1>1. SUFFICES ASSUME C # {} PROVE FALSE
    OBVIOUS
<1>2. PICK x \in C : \A y \in SUBSET x : y # x => y \notin C
    BY <1>1, Smallest
<1>0. Total(x) \notin Nat
    BY <1>2
<1> HIDE DEF C
<1>3. x # {}
    <2>1. CASE x = {}
        <3>1. Total(x) = 0
            BY <2>1, TotalEmpty
        <3> QED
            BY <1>0, <3>1
    <2> QED
        BY <2>1
<1>4. First(x) \in x /\ Days[First(x)] \in Nat
    BY <1>3, FirstIn, LeaveAssumption DEF C
<1>5. Total(x \ {First(x)}) \in Nat
    BY <1>2, <1>4 DEF C
<1> QED
    BY <1>0, <1>3, <1>4, <1>5, TotalDef DEF C

(* Any request may be taken out first.                                     *)
LEMMA TotalWithout ==
    ASSUME NEW S \in SUBSET Request, NEW r \in S
    PROVE  Total(S) = Days[r] + Total(S \ {r})
<1> DEFINE C == {U \in SUBSET Request : \E q \in U : Total(U) # Days[q] + Total(U \ {q})}
<1>1. SUFFICES ASSUME C # {} PROVE FALSE
    OBVIOUS
<1>2. PICK U \in C : \A y \in SUBSET U : y # U => y \notin C
    BY <1>1, Smallest
<1>3. PICK q \in U : Total(U) # Days[q] + Total(U \ {q})
    BY <1>2
<1> DEFINE p == First(U)
<1>4. p \in U /\ Total(U) = Days[p] + Total(U \ {p})
    BY <1>2, <1>3, FirstIn, TotalDef
<1> HIDE DEF p
<1>5. p # q
    BY <1>3, <1>4
<1>6. U \ {p} \notin C /\ U \ {q} \notin C
    BY <1>2, <1>4
<1>7. Total(U \ {p}) = Days[q] + Total((U \ {p}) \ {q})
    BY <1>2, <1>5, <1>6
<1>8. Total(U \ {q}) = Days[p] + Total((U \ {q}) \ {p})
    BY <1>2, <1>4, <1>5, <1>6
<1>9. Total((U \ {p}) \ {q}) = Total((U \ {q}) \ {p})
    <2>1. (U \ {p}) \ {q} = (U \ {q}) \ {p}
        OBVIOUS
    <2> QED
        BY <2>1
<1>10. /\ Days[p] \in Nat /\ Days[q] \in Nat
       /\ Total((U \ {p}) \ {q}) \in Nat
    BY <1>2, <1>4, TotalNat, LeaveAssumption
<1> HIDE DEF C
<1> QED
    BY <1>3, <1>4, <1>7, <1>8, <1>9, <1>10

LEMMA TotalMonotonic ==
    ASSUME NEW S \in SUBSET Request, NEW T \in SUBSET S
    PROVE  Total(T) <= Total(S)
<1> DEFINE C == {U \in SUBSET S : T \subseteq U /\ ~(Total(T) <= Total(U))}
<1>1. SUFFICES ASSUME C # {} PROVE FALSE
    OBVIOUS
<1>2. PICK x \in C : \A y \in SUBSET x : y # x => y \notin C
    BY <1>1, Smallest
<1>3. Total(T) \in Nat /\ Total(x) \in Nat
    BY <1>2, TotalNat
<1>4. PICK r \in x : r \notin T
    BY <1>2, <1>3
<1>5. Total(x) = Days[r] + Total(x \ {r})
    BY <1>2, TotalWithout
<1>6. Total(T) <= Total(x \ {r})
    BY <1>2, <1>4
<1>7. Days[r] \in Nat /\ Total(x \ {r}) \in Nat
    BY <1>2, TotalNat, LeaveAssumption
<1> QED
    BY <1>2, <1>3, <1>5, <1>6, <1>7
-----------------------------------------------------------------------------
(* What the instance must exclude, each for a place where the code goes    *)
(* wrong: a decision overtaken by a deletion, a cancellation or a run of   *)
(* the overdue job that acts on what it read before another handler, and a *)
(* workflow approval that dies before it has charged the days.             *)
BooksKept ==
    /\ "delete" \notin Routes
    /\ {"cancel", "cron"} \subseteq Alone
    /\ "wfApprove" \notin MayCrash

(* A handler that acts on what it read has its request to itself, and what *)
(* it read still holds.                                                    *)
ByRead == {"cancel", "cron"}
Granted == {r \in Request : status[r] \in {"approved", "completed"}}

OwnRequest == \A c, d \in Client : \A r \in Request :
                  c # d /\ Holds(c, r) /\ Holds(d, r) => job[c].kind \notin ByRead

ReadHolds(c, r) ==
    /\ job[c].kind = "cancel" => job[c].was = status[r]
    /\ job[c].kind = "close" => r \in Granted
    /\ job[c].kind = "cron" =>
           /\ status[r] = "pending"
           /\ \A x \in job[c].rows : x[1] = r => x[2] \in PendingRows(r)

HandsInv ==
    /\ OwnRequest /\ RowsOfCron
    /\ \A c \in Client : \A r \in Request : Holds(c, r) => ReadHolds(c, r)

(* Requests whose days are reserved: those that wait, and those that the   *)
(* workflow engine has decided and not settled yet.  The approved ones     *)
(* among the latter are not charged yet.                                   *)
Unsettled == {c \in Client : pc[c] = "balance"}
Owed == {r \in Request : status[r] = "pending"} \cup {job[c].req : c \in Unsettled}
Uncharged == {job[c].req : c \in Midway("wfApprove")}

OneSettles == \A c, d \in Unsettled : job[c].req = job[d].req => c = d

BooksInv ==
    /\ \A r \in Request : ~deleted[r]
    /\ OneSettles
    /\ used \in Nat /\ reserved \in Nat
    /\ used + reserved <= Entitled
    /\ reserved >= Total(Owed)
    /\ used + Total(Uncharged) >= Total(Granted)

-----------------------------------------------------------------------------
(* Who holds a request, and that what it read holds.                       *)

(* c goes on, and what it changes it holds; a granted request only moves   *)
(* to completed, or is cancelled.                                          *)
LEMMA HandsStep ==
    ASSUME TypeOK, HandsInv, NEW c \in Client, Proceeds(c),
           \A r \in Request : status'[r] # status[r] \/ stages'[r] # stages[r] => Holds(c, r),
           \A r \in Granted : status'[r] \in {status[r], "completed"} \/ job[c].kind = "cancel",
           \A r \in Request : Holds(c, r)' => ReadHolds(c, r)'
    PROVE  HandsInv'
<1>1. \A d \in Client : \A r \in Request :
          Holds(d, r)' => Holds(d, r) /\ job'[d].kind = job[d].kind
    BY DEF Proceeds, Holds, On
<1>2. OwnRequest'
    BY <1>1 DEF HandsInv, OwnRequest
<1>3. ASSUME NEW d \in Client, NEW r \in Request, d # c, Holds(d, r)' PROVE ReadHolds(d, r)'
    <2>1. Holds(d, r) /\ ReadHolds(d, r) /\ job'[d] = job[d]
        BY <1>1, <1>3 DEF HandsInv, Proceeds
    <2>2. CASE status'[r] = status[r] /\ stages'[r] = stages[r]
        BY <2>1, <2>2 DEF ReadHolds, Granted, PendingRows
    <2>3. CASE ~(status'[r] = status[r] /\ stages'[r] = stages[r])
        <3>1. Holds(c, r)
            BY <2>3
        <3>2. job[d].kind \notin ByRead /\ job[c].kind # "cancel"
            BY <1>3, <2>1, <3>1 DEF HandsInv, OwnRequest, ByRead
        <3>3. r \in Granted => r \in Granted'
            BY <3>2 DEF Granted
        <3> QED
            BY <2>1, <3>2, <3>3 DEF ReadHolds, ByRead
    <2> QED
        BY <2>2, <2>3
<1>4. RowsOfCron'
    BY DEF HandsInv, RowsOfCron, Proceeds
<1> QED
    BY <1>2, <1>3, <1>4 DEF HandsInv

LEMMA GoesOn ==
    ASSUME TypeOK, HandsInv, NEW c \in Client, NEW s \in Phase, Goto(c, s),
           pc[c] \notin {"idle", "spawn"}
    PROVE  Proceeds(c)
BY DEF Goto, Begin, Proceeds, Holds, On, HandsInv, RowsOfCron, TypeOK

(* A handler begins on a request that no handler of the kinds ByRead is    *)
(* working on, and that no handler at all is, when it is of such a kind.   *)
LEMMA HandsBegin ==
    ASSUME TypeOK, HandsInv, BooksKept, NEW c \in Client, NEW s, NEW j,
           NEW k \in Kind, NEW r \in Request, Begin(c, s, j),
           pc[c] = "idle", Free(k, r), UNCHANGED <<status, stages>>,
           j.kind = k, j.req = r, j.rows = {}, k # "cron",
           k = "close" => r \in Granted,
           k = "cancel" => j.was = status[r]
    PROVE  HandsInv'
<1>1. /\ pc'[c] = s /\ job'[c] = j
      /\ \A d \in Client : d # c => pc'[d] = pc[d] /\ job'[d] = job[d]
    BY DEF Begin, TypeOK
<1>2. \A d \in Client : \A q \in Request : d # c => (Holds(d, q)' <=> Holds(d, q))
    BY <1>1 DEF Holds, On
<1>3. \A q \in Request : Holds(c, q)' => q = r
    BY <1>1 DEF Holds, On
<1>4. \A d \in Client : Holds(d, r) => k \notin ByRead /\ job[d].kind \notin ByRead
    BY DEF Free, Holds, BooksKept, ByRead
<1>5. OwnRequest'
    BY <1>1, <1>2, <1>3, <1>4 DEF HandsInv, OwnRequest
<1>6. ASSUME NEW d \in Client, NEW q \in Request, Holds(d, q)' PROVE ReadHolds(d, q)'
    <2>1. CASE d = c
        BY <1>1, <1>3, <1>6, <2>1 DEF ReadHolds, Granted
    <2>2. CASE d # c
        <3>1. ReadHolds(d, q) /\ job'[d] = job[d]
            BY <1>1, <1>2, <1>6, <2>2 DEF HandsInv
        <3> QED
            BY <3>1 DEF ReadHolds, Granted, PendingRows
    <2> QED
        BY <2>1, <2>2
<1>7. RowsOfCron'
    BY <1>1 DEF HandsInv, RowsOfCron
<1> QED
    BY <1>5, <1>6, <1>7 DEF HandsInv

LEMMA HandsCronRead ==
    ASSUME TypeOK, HandsInv, BooksKept, NEW c \in Client, NEW overdue \in SUBSET Candidates,
           CronRead(c, overdue)
    PROVE  HandsInv'
<1> DEFINE j == [NoJob EXCEPT !.kind = "cron", !.rows = overdue]
<1>1. /\ pc'[c] = "act" /\ job'[c] = j /\ UNCHANGED <<status, stages>>
      /\ \A d \in Client : d # c => pc'[d] = pc[d] /\ job'[d] = job[d]
    BY DEF CronRead, Begin, TypeOK
<1>2. \A d \in Client : \A q \in Request : d # c => (Holds(d, q)' <=> Holds(d, q))
    BY <1>1 DEF Holds, On
<1>3. j.kind = "cron" /\ j.req = None /\ j.rows = overdue
    BY DEF NoJob
<1>4. ASSUME NEW q \in Request, Holds(c, q)' PROVE \E x \in overdue : x[1] = q
    BY <1>1, <1>3, <1>4, LeaveAssumption DEF Holds, On
<1>5. ASSUME NEW q \in Request, Holds(c, q)'
      PROVE  status[q] = "pending" /\ \A d \in Client : ~Holds(d, q)
    <2>1. PICK x \in overdue : x[1] = q
        BY <1>4, <1>5
    <2>2. Free("cron", q) /\ status[q] = "pending"
        BY <2>1 DEF CronRead, Candidates
    <2> QED
        BY <2>2 DEF Free, Holds, BooksKept
<1>6. OwnRequest'
    BY <1>1, <1>2, <1>5 DEF HandsInv, OwnRequest
<1>7. ASSUME NEW d \in Client, NEW q \in Request, Holds(d, q)' PROVE ReadHolds(d, q)'
    <2>1. CASE d = c
        <3>1. \A x \in overdue : x[2] \in PendingRows(x[1])
            BY DEF Candidates
        <3>2. \A x \in overdue : x[1] = q => x[2] \in PendingRows(q)'
            BY <1>1, <3>1 DEF PendingRows
        <3> QED
            BY <1>1, <1>3, <1>5, <1>7, <2>1, <3>2 DEF ReadHolds
    <2>2. CASE d # c
        <3>1. ReadHolds(d, q) /\ job'[d] = job[d]
            BY <1>1, <1>2, <1>7, <2>2 DEF HandsInv
        <3> QED
            BY <1>1, <3>1 DEF ReadHolds, Granted, PendingRows
    <2> QED
        BY <2>1, <2>2
<1>8. RowsOfCron'
    BY <1>1, <1>3 DEF HandsInv, RowsOfCron
<1> QED
    BY <1>6, <1>7, <1>8 DEF HandsInv

LEMMA HeldIsSubmitted ==
    ASSUME TypeOK, HandsInv, NEW c \in Client, NEW r \in Request, Holds(c, r)
    PROVE  status[r] # "none"
<1>1. CASE job[c].kind = "cron"
    BY <1>1 DEF HandsInv, ReadHolds
<1>2. CASE job[c].kind # "cron"
    <2>1. job[c].req = r
        BY <1>2 DEF HandsInv, RowsOfCron, Holds, On
    <2> QED
        BY <2>1 DEF TypeOK, JobOK
<1> QED
    BY <1>1, <1>2

LEMMA HandsSubmit ==
    ASSUME TypeOK, HandsInv, NEW c \in Client, NEW r \in Request, Submit(c, r)
    PROVE  HandsInv'
<1>1. /\ pc'[c] = "spawn" /\ job'[c] = Handle("submit", r)
      /\ \A d \in Client : d # c => pc'[d] = pc[d] /\ job'[d] = job[d]
      /\ status[r] = "none"
      /\ \A q \in Request : q # r => status'[q] = status[q] /\ stages'[q] = stages[q]
    BY DEF Submit, Begin, TypeOK
<1>2. ASSUME NEW d \in Client, NEW q \in Request, Holds(d, q)'
      PROVE  d # c /\ q # r /\ Holds(d, q) /\ job'[d] = job[d]
    <2>1. d # c /\ Holds(d, q) /\ job'[d] = job[d]
        BY <1>1, <1>2 DEF Holds, On
    <2> QED
        BY <1>1, <2>1, HeldIsSubmitted
<1>3. OwnRequest'
    BY <1>2 DEF HandsInv, OwnRequest
<1>4. \A d \in Client : \A q \in Request : Holds(d, q)' => ReadHolds(d, q)'
    BY <1>1, <1>2 DEF HandsInv, ReadHolds, Granted, PendingRows
<1>5. job'[c].kind = "submit" /\ job'[c].rows = {}
    BY <1>1 DEF Handle, NoJob
<1>6. RowsOfCron'
    BY <1>1, <1>5 DEF HandsInv, RowsOfCron
<1> QED
    BY <1>3, <1>4, <1>6 DEF HandsInv

LEMMA HandsTerminate ==
    ASSUME TypeOK, HandsInv, BooksKept, NEW c \in Client, Terminate(c)
    PROVE  HandsInv'
<1>1. \A d \in Client : \A r \in Request : Holds(d, r) => job[d].kind \notin ByRead
    BY DEF Terminate, Free, Holds, BooksKept, ByRead
<1>2. UNCHANGED <<pc, job>> /\ \A r \in Request : r \in Granted => r \in Granted'
    BY DEF Terminate, Granted, Held
<1>3. \A d \in Client : \A r \in Request : Holds(d, r)' <=> Holds(d, r)
    BY <1>2 DEF Holds, On
<1>4. \A d \in Client : \A q \in Request : Holds(d, q)' => ReadHolds(d, q)'
    BY <1>1, <1>2, <1>3 DEF HandsInv, ReadHolds, ByRead
<1>5. OwnRequest' /\ RowsOfCron'
    BY <1>2, <1>3 DEF HandsInv, OwnRequest, RowsOfCron
<1> QED
    BY <1>4, <1>5 DEF HandsInv

LEMMA HandsStart ==
    ASSUME TypeOK, HandsInv, BooksKept, NEW c \in Client, Start(c)
    PROVE  HandsInv'
<1>1. ASSUME NEW r \in Request, BeginCancel(c, r) PROVE HandsInv'
    <2> DEFINE j == [Handle("cancel", r) EXCEPT !.was = status[r]]
    <2>1. j.kind = "cancel" /\ j.req = r /\ j.rows = {} /\ j.was = status[r] /\ "cancel" \in Kind
        BY DEF Handle, NoJob, Kind
    <2> QED
        BY <1>1, <2>1, HandsBegin DEF BeginCancel
<1>2. ASSUME NEW r \in Request, CloseRead(c, r) \/ SlaRead(c, r) PROVE HandsInv'
    <2>1. \A k \in {"close", "sla"} : Handle(k, r).kind = k /\ Handle(k, r).req = r
                                      /\ Handle(k, r).rows = {} /\ k \in Kind
        BY DEF Handle, NoJob, Kind
    <2>2. CloseRead(c, r) => r \in Granted
        BY DEF CloseRead, Granted
    <2> QED
        BY <1>2, <2>1, <2>2, HandsBegin DEF CloseRead, SlaRead
<1>3. ASSUME NEW r \in Request, NEW k \in Decide \cup {"escalate"}, BeginDecision(c, r, k)
      PROVE  HandsInv'
    <2>1. /\ Handle(k, r).kind = k /\ Handle(k, r).req = r /\ Handle(k, r).rows = {}
          /\ k \in Kind /\ k \notin {"cancel", "close", "cron"}
        BY DEF Handle, NoJob, Kind, Decide
    <2> QED
        BY <1>3, <2>1, HandsBegin DEF BeginDecision
<1>4. ASSUME NEW r \in Request, NEW k \in Flow, BeginAction(c, r, k) PROVE HandsInv'
    <2> DEFINE j == [Handle(k, r) EXCEPT !.step = wf[r].step]
    <2>1. /\ j.kind = k /\ j.req = r /\ j.rows = {} /\ k \in Kind
          /\ k \notin {"cancel", "close", "cron"}
        BY DEF Handle, NoJob, Kind, Flow
    <2> QED
        BY <1>4, <2>1, HandsBegin DEF BeginAction
<1>5. ASSUME NEW r \in Request, Delete(c, r) PROVE HandsInv'
    BY <1>5 DEF Delete, Free, BooksKept
<1> QED
    BY <1>1, <1>2, <1>3, <1>4, <1>5, HandsSubmit, HandsTerminate, HandsCronRead DEF Start

(* Of the steps under way, the run of the job is the only one that changes *)
(* a request and goes on holding what it read: it has taken the row that   *)
(* it approved off its list, and another row of the request that is still  *)
(* on it is still pending, which keeps the request from being approved.    *)
LEMMA HandsCronApprove ==
    ASSUME TypeOK, HandsInv, NEW c \in Client, NEW x \in job[c].rows, CronApprove(c, x)
    PROVE  HandsInv'
<1>1. /\ pc[c] = "act" /\ job[c] \in Job /\ JobOK(c)
      /\ x[1] \in Request /\ x[2] \in Nat /\ job[c].kind = "cron"
    BY DEF CronApprove, TypeOK, Job, HandsInv, RowsOfCron
<1>2. Holds(c, x[1])
    BY <1>1 DEF Holds, On
<1>3. \A r \in Request : status'[r] # status[r] \/ stages'[r] # stages[r] => r = x[1]
    BY <1>1 DEF CronApprove, TypeOK
<1>4. x[1] \notin Granted
    BY <1>1, <1>2 DEF HandsInv, ReadHolds, Granted
<1>5. \/ Finish(c)
      \/ /\ pc'[c] = "act" /\ job'[c].kind = "cron" /\ job'[c].req = job[c].req
         /\ job'[c].rows = job[c].rows \ {x}
         /\ \A d \in Client : d # c => pc'[d] = pc[d] /\ job'[d] = job[d]
    <2> DEFINE j == [job[c] EXCEPT !.rows = @ \ {x}]
    <2>1. j.kind = job[c].kind /\ j.req = job[c].req /\ j.rows = job[c].rows \ {x}
        BY <1>1 DEF Job
    <2>2. Finish(c) \/ Begin(c, "act", j)
        BY DEF CronApprove
    <2> HIDE DEF j
    <2> QED
        BY <1>1, <2>1, <2>2 DEF Begin, TypeOK
<1>6. Proceeds(c)
    BY <1>1, <1>5, FinishProceeds DEF Proceeds, Holds, On
<1>7. ASSUME NEW r \in Request, Holds(c, r)' PROVE ReadHolds(c, r)'
    <2>1. /\ pc'[c] = "act" /\ job'[c].kind = "cron" /\ job'[c].rows = job[c].rows \ {x}
          /\ job'[c].req = job[c].req /\ Holds(c, r) /\ status[r] = "pending"
          /\ \A y \in job[c].rows : y[1] = r => y[2] \in PendingRows(r)
        BY <1>1, <1>5, <1>6, <1>7, FinishProceeds DEF Proceeds, HandsInv, ReadHolds
    <2>2. CASE r # x[1]
        <3>1. status'[r] = status[r] /\ stages'[r] = stages[r]
            BY <1>3, <2>2
        <3> QED
            BY <2>1, <3>1 DEF ReadHolds, PendingRows
    <2>3. CASE r = x[1]
        <3>1. PICK y \in job[c].rows : y # x /\ y[1] = r
            <4>1. r \in On(c)' /\ job'[c].req = None
                BY <1>1, <1>7, <2>1 DEF Holds, JobOK
            <4> QED
                BY <2>1, <4>1, LeaveAssumption DEF On
        <3>2. x[2] \in Nat /\ \A z \in job[c].rows : z = <<z[1], z[2]>>
            BY <1>1 DEF Job
        <3>3. ASSUME NEW z \in job[c].rows \ {x}, z[1] = r
              PROVE  z[2] # x[2] /\ z[2] \in DOMAIN stages[r] /\ stages[r][z[2]].status = "pending"
            BY <2>1, <2>3, <3>2, <3>3 DEF PendingRows
        <3>4. ~LastStage(r, x[2])
            BY <3>1, <3>3 DEF LastStage
        <3>5. status' = status /\ stages'[r] = Mark(stages[r], x[2], "approved")
            BY <1>1, <2>3, <3>4 DEF CronApprove, TypeOK
        <3>6. \A z \in job[c].rows \ {x} : z[1] = r => z[2] \in PendingRows(r)'
            BY <3>3, <3>5 DEF Mark, PendingRows
        <3> QED
            BY <2>1, <3>5, <3>6 DEF ReadHolds
    <2> QED
        BY <2>2, <2>3
<1>8. \A r \in Granted : status'[r] = status[r]
    BY <1>3, <1>4 DEF Granted
<1>9. \A r \in Request : status'[r] # status[r] \/ stages'[r] # stages[r] => Holds(c, r)
    BY <1>2, <1>3
<1> QED
    BY <1>6, <1>7, <1>8, <1>9, HandsStep

(* A handler that ends with its step.                                      *)
LEMMA HandsFinish ==
    ASSUME TypeOK, HandsInv, NEW c \in Client, Finish(c),
           \A r \in Request : status'[r] # status[r] \/ stages'[r] # stages[r] => Holds(c, r),
           \A r \in Granted : status'[r] \in {status[r], "completed"} \/ job[c].kind = "cancel"
    PROVE  HandsInv'
BY FinishProceeds, HandsStep

(* A handler that goes on with the same record, and is not the job.        *)
LEMMA HandsGoto ==
    ASSUME TypeOK, HandsInv, NEW c \in Client, NEW s \in Phase, Goto(c, s),
           pc[c] \notin {"idle", "spawn"}, job[c].kind # "cron",
           job[c].kind \in {"cancel", "close"} => UNCHANGED status,
           \A r \in Request : status'[r] # status[r] \/ stages'[r] # stages[r] => Holds(c, r),
           \A r \in Granted : status'[r] \in {status[r], "completed"}
    PROVE  HandsInv'
<1>1. Proceeds(c) /\ job'[c] = job[c]
    BY GoesOn DEF Goto, Begin, TypeOK
<1>2. ASSUME NEW r \in Request, Holds(c, r)' PROVE ReadHolds(c, r)'
    <2>1. ReadHolds(c, r)
        BY <1>1, <1>2 DEF HandsInv, Proceeds
    <2> QED
        BY <1>1, <2>1 DEF ReadHolds, Granted
<1> QED
    BY <1>1, <1>2, HandsStep

LEMMA HandsReadStage ==
    ASSUME TypeOK, HandsInv, NEW c \in Client, ReadStage(c)
    PROVE  HandsInv'
<1>1. /\ pc[c] = "stage" /\ UNCHANGED <<status, stages>> /\ job[c] \in Job
      /\ job[c].kind # "cron"
    BY DEF ReadStage, TypeOK, JobOK
<1>2. ASSUME NEW i, Begin(c, "act", [job[c] EXCEPT !.row = i]) PROVE HandsInv'
    <2> DEFINE j == [job[c] EXCEPT !.row = i]
    <2>1. j.kind = job[c].kind /\ j.req = job[c].req /\ j.rows = job[c].rows /\ j.was = job[c].was
        BY <1>1 DEF Job
    <2>2. /\ pc'[c] = "act" /\ job'[c] = j
          /\ \A d \in Client : d # c => pc'[d] = pc[d] /\ job'[d] = job[d]
        BY <1>2 DEF Begin, TypeOK
    <2> HIDE DEF j
    <2>3. Proceeds(c)
        BY <1>1, <2>1, <2>2 DEF Proceeds, Holds, On, HandsInv, RowsOfCron
    <2>4. ASSUME NEW r \in Request, Holds(c, r)' PROVE ReadHolds(c, r)'
        <3>1. ReadHolds(c, r)
            BY <2>3, <2>4 DEF HandsInv, Proceeds
        <3> QED
            BY <1>1, <2>1, <2>2, <3>1 DEF ReadHolds, Granted
    <2> QED
        BY <1>1, <2>3, <2>4, HandsStep
<1>3. CASE Finish(c)
    BY <1>1, <1>3, HandsFinish
<1>4. CASE Goto(c, "act")
    BY <1>1, <1>4, HandsGoto DEF Phase
<1> QED
    BY <1>2, <1>3, <1>4 DEF ReadStage

LEMMA HandsContinue ==
    ASSUME TypeOK, HandsInv, NEW c \in Client, Continue(c) \/ Crash(c)
    PROVE  HandsInv'
<1>1. CASE \/ SubmitWorkflow(c) \/ Refused(c) \/ CancelRefused(c) \/ Advance(c)
           \/ FinishAction(c) \/ Crash(c)
    <2>1. Finish(c) /\ UNCHANGED <<status, stages>>
        BY <1>1 DEF SubmitWorkflow, Refused, CancelRefused, Advance, FinishAction, Crash
    <2> QED
        BY <2>1, HandsFinish
<1>2. CASE \/ RejectOrReturn(c) \/ ApproveFinal(c) \/ Cancel(c) \/ CloseWrite(c)
           \/ SlaApprove(c) \/ Escalate(c)
    <2>1. Finish(c) /\ pc[c] \in {"act", "final"}
        BY <1>2 DEF RejectOrReturn, ApproveFinal, Cancel, CloseWrite, SlaApprove, Escalate
    <2>2. \A r \in Request : status'[r] # status[r] \/ stages'[r] # stages[r] => r = job[c].req
        BY <1>2 DEF RejectOrReturn, ApproveFinal, Cancel, CloseWrite, SlaApprove, Escalate,
                    PropagateStatus, TypeOK
    <2>3. \A r \in Request : status'[r] # status[r] \/ stages'[r] # stages[r] => Holds(c, r)
        BY <2>1, <2>2 DEF Holds, On
    <2>4. \A r \in Granted : status'[r] \in {status[r], "completed"} \/ job[c].kind = "cancel"
        BY <1>2 DEF RejectOrReturn, ApproveFinal, Cancel, CloseWrite, SlaApprove, Escalate,
                    PropagateStatus, Transition, Granted, TypeOK
    <2> QED
        BY <2>1, <2>3, <2>4, HandsFinish
<1>3. CASE ApproveStage(c)
    <2>1. /\ pc[c] = "act" /\ job[c].kind = "approve" /\ UNCHANGED status
          /\ Finish(c) \/ Goto(c, "final")
        BY <1>3 DEF ApproveStage
    <2>2. \A r \in Request : stages'[r] # stages[r] => r = job[c].req
        BY <1>3 DEF ApproveStage, TypeOK
    <2>3. \A r \in Request : stages'[r] # stages[r] => Holds(c, r)
        BY <2>1, <2>2 DEF Holds, On
    <2> QED
        BY <2>1, <2>3, HandsFinish, HandsGoto DEF Phase
<1>4. CASE PropagateBalance(c) \/ PropagateStages(c)
    <2>1. /\ pc[c] \in {"balance", "stages"} /\ UNCHANGED status
          /\ \E s \in Phase : Goto(c, s)
        BY <1>4 DEF PropagateBalance, PropagateStages, Phase
    <2>2. \A r \in Request : stages'[r] # stages[r] => r = job[c].req
        BY <1>4 DEF PropagateBalance, PropagateStages, TypeOK
    <2>3. job[c].kind # "cron" /\ \A r \in Request : stages'[r] # stages[r] => Holds(c, r)
        BY <2>1, <2>2 DEF Holds, On, TypeOK, JobOK
    <2> QED
        BY <2>1, <2>3, HandsGoto
<1>5. CASE Propagate(c)
    <2>1. /\ pc[c] = "act" /\ job[c].kind \in Flow /\ UNCHANGED stages
          /\ \E s \in Phase : Goto(c, s)
        BY <1>5 DEF Propagate, Phase
    <2>2. \A r \in Request : status'[r] # status[r] => r = job[c].req /\ status[r] = "pending"
        BY <1>5 DEF Propagate, PropagateStatus, TypeOK
    <2>3. \A r \in Request : status'[r] # status[r] => Holds(c, r)
        BY <2>1, <2>2 DEF Holds, On
    <2>4. \A r \in Granted : status'[r] = status[r]
        BY <2>2 DEF Granted
    <2>5. job[c].kind \notin {"cancel", "close", "cron"}
        BY <2>1 DEF Flow
    <2> QED
        BY <2>1, <2>3, <2>4, <2>5, HandsGoto
<1> QED
    BY <1>1, <1>2, <1>3, <1>4, <1>5, HandsReadStage, HandsCronApprove DEF Continue

-----------------------------------------------------------------------------
(* What a step may do to the balance.                                      *)

LEMMA Parties ==
    ASSUME TypeOK
    PROVE  /\ Owed \in SUBSET Request /\ Uncharged \in SUBSET Request
           /\ Granted \in SUBSET Request
           /\ \A c \in Unsettled : c \in Client /\ job[c].req \in Request
           /\ Midway("wfApprove") = {c \in Unsettled : job[c].kind = "wfApprove"}
<1>1. ASSUME NEW c \in Client, pc[c] = "balance" PROVE job[c].req \in Request
    BY <1>1 DEF TypeOK, JobOK
<1> QED
    BY <1>1 DEF Owed, Uncharged, Granted, Unsettled, Midway

LEMMA DaysNat == Entitled \in Nat /\ \A r \in Request : Days[r] \in Nat
BY LeaveAssumption

(* The balance and the sums stay.                                          *)
LEMMA BooksSame ==
    ASSUME TypeOK, BooksInv, UNCHANGED <<balance, deleted>>, OneSettles',
           Owed' \subseteq Owed, Granted' = Granted, Uncharged' = Uncharged
    PROVE  BooksInv'
<1>1. Total(Owed') <= Total(Owed) /\ Total(Owed) \in Nat /\ Total(Owed') \in Nat
    BY Parties, TotalMonotonic, TotalNat
<1>2. Total(Granted') = Total(Granted) /\ Total(Uncharged') = Total(Uncharged)
    OBVIOUS
<1> QED
    BY <1>1, <1>2 DEF BooksInv, balance

(* The reserved days of r go back.                                         *)
LEMMA Released ==
    ASSUME TypeOK, BooksInv, NEW r \in Owed, ReleaseReserved(r), Owed' \subseteq Owed \ {r}
    PROVE  /\ reserved' = reserved - Days[r] /\ reserved' \in Nat
           /\ reserved' >= Total(Owed')
<1>1. r \in Request /\ Owed \in SUBSET Request
    BY Parties
<1>2. Total(Owed) = Days[r] + Total(Owed \ {r})
    BY <1>1, TotalWithout
<1>3. Total(Owed') <= Total(Owed \ {r})
    BY <1>1, TotalMonotonic
<1>4. Total(Owed \ {r}) \in Nat /\ Total(Owed') \in Nat /\ Days[r] \in Nat
    BY <1>1, TotalNat, DaysNat
<1>5. reserved \in Nat /\ reserved >= Days[r] + Total(Owed \ {r})
    BY <1>2 DEF BooksInv
<1> QED
    BY <1>3, <1>4, <1>5 DEF ReleaseReserved, Floor

LEMMA BooksRelease ==
    ASSUME TypeOK, BooksInv, NEW r \in Owed, ReleaseReserved(r), UNCHANGED <<used, deleted>>,
           OneSettles', Owed' \subseteq Owed \ {r}, Granted' = Granted, Uncharged' = Uncharged
    PROVE  BooksInv'
<1>1. reserved' = reserved - Days[r] /\ reserved' \in Nat /\ reserved' >= Total(Owed')
    BY Released
<1>2. Total(Granted') = Total(Granted) /\ Total(Uncharged') = Total(Uncharged)
    OBVIOUS
<1>3. Days[r] \in Nat
    BY Parties, DaysNat
<1> QED
    BY <1>1, <1>2, <1>3, DaysNat DEF BooksInv

(* They are charged, with the decision or after it.                        *)
LEMMA BooksCharge ==
    ASSUME TypeOK, BooksInv, NEW r \in Owed, Charge(r), UNCHANGED deleted,
           OneSettles', Owed' \subseteq Owed \ {r},
           \/ r \notin Granted /\ Granted' = Granted \cup {r} /\ Uncharged' = Uncharged
           \/ r \in Uncharged /\ Granted' = Granted /\ Uncharged' = Uncharged \ {r}
    PROVE  BooksInv'
<1>1. reserved' = reserved - Days[r] /\ reserved' \in Nat /\ reserved' >= Total(Owed')
    BY Released DEF Charge
<1>2. /\ r \in Request /\ Days[r] \in Nat
      /\ Granted \in SUBSET Request /\ Uncharged \in SUBSET Request
    BY Parties, DaysNat
<1>3. /\ Total(Granted) \in Nat /\ Total(Granted') \in Nat
      /\ Total(Uncharged) \in Nat /\ Total(Uncharged') \in Nat
    BY <1>2, TotalNat
<1>4. CASE r \notin Granted /\ Granted' = Granted \cup {r} /\ Uncharged' = Uncharged
    <2>1. Granted' \ {r} = Granted /\ r \in Granted' /\ Granted' \in SUBSET Request
        BY <1>2, <1>4
    <2>2. Total(Granted') = Days[r] + Total(Granted)
        BY <2>1, TotalWithout
    <2>3. Total(Uncharged') = Total(Uncharged)
        BY <1>4
    <2> QED
        BY <1>1, <1>2, <1>3, <2>2, <2>3, DaysNat DEF BooksInv, Charge
<1>5. CASE r \in Uncharged /\ Granted' = Granted /\ Uncharged' = Uncharged \ {r}
    <2>1. Total(Uncharged) = Days[r] + Total(Uncharged')
        BY <1>2, <1>5, TotalWithout
    <2>2. Total(Granted') = Total(Granted)
        BY <1>5
    <2> QED
        BY <1>1, <1>2, <1>3, <2>1, <2>2, DaysNat DEF BooksInv, Charge
<1> QED
    BY <1>4, <1>5

(* An approval of the workflow engine that charges the days later.         *)
LEMMA BooksDecided ==
    ASSUME TypeOK, BooksInv, NEW r \in Request, UNCHANGED <<balance, deleted>>,
           OneSettles', Owed' \subseteq Owed, r \notin Granted, r \notin Uncharged,
           Granted' = Granted \cup {r}, Uncharged' = Uncharged \cup {r}
    PROVE  BooksInv'
<1>1. Total(Owed') <= Total(Owed) /\ Total(Owed) \in Nat /\ Total(Owed') \in Nat
    BY Parties, TotalMonotonic, TotalNat
<1>2. Granted \in SUBSET Request /\ Uncharged \in SUBSET Request /\ Days[r] \in Nat
    BY Parties, DaysNat
<1>3. Granted' \ {r} = Granted /\ Uncharged' \ {r} = Uncharged
    OBVIOUS
<1>4. /\ Total(Granted') = Days[r] + Total(Granted)
      /\ Total(Uncharged') = Days[r] + Total(Uncharged)
    BY <1>2, <1>3, TotalWithout
<1>5. Total(Granted) \in Nat /\ Total(Uncharged) \in Nat
    BY <1>2, TotalNat
<1> QED
    BY <1>1, <1>2, <1>4, <1>5 DEF BooksInv, balance

(* A granted request is cancelled.                                         *)
LEMMA BooksCancelled ==
    ASSUME TypeOK, BooksInv, NEW r \in Granted, used' = Floor(used - Days[r]),
           UNCHANGED <<reserved, deleted>>, OneSettles', Owed' \subseteq Owed,
           Granted' = Granted \ {r}, Uncharged' = Uncharged
    PROVE  BooksInv'
<1>1. Total(Owed') <= Total(Owed) /\ Total(Owed) \in Nat /\ Total(Owed') \in Nat
    BY Parties, TotalMonotonic, TotalNat
<1>2. /\ Granted \in SUBSET Request /\ Uncharged \in SUBSET Request
      /\ r \in Request /\ Days[r] \in Nat
    BY Parties, DaysNat
<1>3. Total(Granted) = Days[r] + Total(Granted')
    BY <1>2, TotalWithout
<1>4. Total(Granted') \in Nat /\ Total(Uncharged) \in Nat /\ Total(Uncharged') = Total(Uncharged)
    BY <1>2, TotalNat
<1>5. used \in Nat /\ used' \in Nat /\ used' <= used /\ used' >= used - Days[r]
    BY <1>2 DEF Floor, BooksInv
<1> QED
    BY <1>1, <1>2, <1>3, <1>4, <1>5, DaysNat DEF BooksInv

-----------------------------------------------------------------------------
(* Which requests count on the balance after a step.                       *)
LEMMA Leaves ==
    ASSUME TypeOK, BooksInv, NEW c \in Client, NEW s, NEW j, Begin(c, s, j), s # "balance"
    PROVE  /\ OneSettles' /\ Unsettled' = Unsettled \ {c}
           /\ \A d \in Unsettled' : job'[d] = job[d]
<1>1. /\ pc'[c] = s
      /\ \A d \in Client : d # c => pc'[d] = pc[d] /\ job'[d] = job[d]
    BY DEF Begin, TypeOK
<1>2. Unsettled' = Unsettled \ {c}
    BY <1>1 DEF Unsettled
<1>3. \A d \in Unsettled' : job'[d] = job[d]
    BY <1>1, <1>2 DEF Unsettled
<1> QED
    BY <1>2, <1>3 DEF BooksInv, OneSettles

(* c was not about to settle.                                              *)
LEMMA OthersSettle ==
    ASSUME TypeOK, BooksInv, NEW c \in Client, NEW s, NEW j, Begin(c, s, j), s # "balance",
           pc[c] # "balance"
    PROVE  /\ OneSettles' /\ Uncharged' = Uncharged
           /\ {job[d].req : d \in Unsettled}' = {job[d].req : d \in Unsettled}
<1>1. OneSettles' /\ Unsettled' = Unsettled /\ \A d \in Unsettled' : job'[d] = job[d]
    BY Leaves DEF Unsettled
<1>2. Midway("wfApprove")' = Midway("wfApprove")
    BY <1>1 DEF Midway, Unsettled
<1>3. \A d \in Midway("wfApprove") : job'[d] = job[d]
    BY <1>1 DEF Midway, Unsettled
<1> QED
    BY <1>1, <1>2, <1>3 DEF Uncharged

(* c decides r.                                                            *)
LEMMA Decides ==
    ASSUME TypeOK, FlowInv, BooksInv, NEW c \in Client, NEW s, NEW j, Begin(c, s, j),
           s # "balance", pc[c] # "balance",
           NEW r \in Request, NEW to \in Status \ {"pending"},
           status[r] = "pending", status' = [status EXCEPT ![r] = to]
    PROVE  /\ OneSettles' /\ r \in Owed /\ Owed' \subseteq Owed \ {r}
           /\ r \notin Granted /\ Uncharged' = Uncharged
           /\ to = "approved" => Granted' = Granted \cup {r}
           /\ to \notin {"approved", "completed"} => Granted' = Granted
<1>1. /\ OneSettles' /\ Uncharged' = Uncharged
      /\ {job[d].req : d \in Unsettled}' = {job[d].req : d \in Unsettled}
    BY OthersSettle
<1>2. \A d \in Unsettled : job[d].req # r
    BY DEF FlowInv, LateOK, Unsettled, Late
<1>3. r \in Owed /\ Owed' \subseteq Owed \ {r}
    BY <1>1, <1>2 DEF Owed, TypeOK
<1>4. /\ r \notin Granted
      /\ to = "approved" => Granted' = Granted \cup {r}
      /\ to \notin {"approved", "completed"} => Granted' = Granted
    BY DEF Granted, TypeOK
<1> QED
    BY <1>1, <1>3, <1>4

(* c, which was about to settle, has done so or is gone.                   *)
LEMMA Settles ==
    ASSUME TypeOK, FlowInv, BooksInv, NEW c \in Client, NEW s, NEW j, Begin(c, s, j),
           s # "balance", pc[c] = "balance", UNCHANGED status
    PROVE  /\ OneSettles' /\ Granted' = Granted
           /\ job[c].req \in Owed /\ Owed' \subseteq Owed \ {job[c].req}
           /\ job[c].kind # "wfApprove" => Uncharged' = Uncharged
           /\ job[c].kind = "wfApprove" => /\ job[c].req \in Uncharged
                                           /\ Uncharged' = Uncharged \ {job[c].req}
<1>1. /\ OneSettles' /\ Unsettled' = Unsettled \ {c}
      /\ \A d \in Unsettled' : job'[d] = job[d]
    BY Leaves
<1>2. c \in Unsettled /\ status[job[c].req] # "pending"
    BY DEF FlowInv, LateOK, Unsettled, Late
<1>3. \A d \in Unsettled' : job[d].req # job[c].req
    BY <1>1, <1>2 DEF BooksInv, OneSettles
<1>4. job[c].req \in Owed /\ Owed' \subseteq Owed \ {job[c].req}
    <2>1. \A r \in Owed' : r \in Owed /\ r # job[c].req
        BY <1>1, <1>2, <1>3 DEF Owed
    <2> QED
        BY <1>2, <2>1 DEF Owed
<1>5. Midway("wfApprove") = {d \in Unsettled : job[d].kind = "wfApprove"}
    BY DEF Midway, Unsettled
<1>6. Midway("wfApprove")' = {d \in Unsettled' : job[d].kind = "wfApprove"}
    BY <1>1 DEF Midway, Unsettled
<1>7. Uncharged' = {job[d].req : d \in Midway("wfApprove")'}
    BY <1>1, <1>6 DEF Uncharged
<1>8. job[c].kind # "wfApprove" => Uncharged' = Uncharged
    <2>1. job[c].kind # "wfApprove" => Midway("wfApprove")' = Midway("wfApprove")
        BY <1>1, <1>5, <1>6
    <2> QED
        BY <1>7, <2>1 DEF Uncharged
<1>9. job[c].kind = "wfApprove" => /\ job[c].req \in Uncharged
                                  /\ Uncharged' = Uncharged \ {job[c].req}
    <2>1. SUFFICES ASSUME job[c].kind = "wfApprove"
                   PROVE  job[c].req \in Uncharged /\ Uncharged' = Uncharged \ {job[c].req}
        OBVIOUS
    <2>2. c \in Midway("wfApprove")
        BY <1>2, <1>5, <2>1
    <2>3. Midway("wfApprove")' = Midway("wfApprove") \ {c}
        BY <1>1, <1>5, <1>6
    <2>4. \A d \in Midway("wfApprove")' : job[d].req # job[c].req
        BY <1>3, <1>6
    <2> QED
        BY <1>7, <2>2, <2>3, <2>4 DEF Uncharged
<1>10. Granted' = Granted
    BY DEF Granted
<1> QED
    BY <1>1, <1>4, <1>8, <1>9, <1>10

-----------------------------------------------------------------------------
(* Step by step.                                                           *)

(* A step that touches neither the requests' status nor the balance.       *)
LEMMA BooksQuiet ==
    ASSUME TypeOK, BooksInv, NEW c \in Client, NEW s, NEW j, Begin(c, s, j), s # "balance",
           pc[c] # "balance", UNCHANGED <<status, deleted, balance>>
    PROVE  BooksInv'
<1>1. /\ OneSettles' /\ Uncharged' = Uncharged
      /\ {job[d].req : d \in Unsettled}' = {job[d].req : d \in Unsettled}
    BY OthersSettle
<1>2. Owed' = Owed /\ Granted' = Granted
    BY <1>1 DEF Owed, Granted
<1> QED
    BY <1>1, <1>2, BooksSame

LEMMA BooksSubmit ==
    ASSUME TypeOK, BooksInv, NEW c \in Client, NEW r \in Request, Submit(c, r)
    PROVE  BooksInv'
<1>1. /\ OneSettles' /\ Uncharged' = Uncharged
      /\ {job[d].req : d \in Unsettled}' = {job[d].req : d \in Unsettled}
    BY OthersSettle DEF Submit
<1>2. \A d \in Unsettled : job[d].req # r
    BY DEF Submit, Unsettled, TypeOK, JobOK
<1>3. r \notin Owed /\ Owed' = Owed \cup {r} /\ Granted' = Granted
    BY <1>1, <1>2 DEF Owed, Granted, Submit, TypeOK
<1>4. Owed' \ {r} = Owed /\ r \in Owed' /\ Owed \in SUBSET Request /\ Owed' \in SUBSET Request
    BY <1>3, Parties
<1>5. Total(Owed') = Days[r] + Total(Owed) /\ Total(Owed) \in Nat
    BY <1>4, TotalWithout, TotalNat
<1>6. Total(Granted') = Total(Granted) /\ Total(Uncharged') = Total(Uncharged)
    BY <1>1, <1>3
<1>7. /\ used \in Nat /\ reserved \in Nat /\ Days[r] \in Nat /\ Days[r] # 0
      /\ Floor(Entitled - used - reserved) >= Days[r]
    BY LeaveAssumption DEF BooksInv, Submit, Sufficient
<1>8. used + reserved + Days[r] <= Entitled
    BY <1>7, DaysNat DEF Floor
<1> QED
    BY <1>1, <1>5, <1>6, <1>7, <1>8, DaysNat DEF BooksInv, Submit

LEMMA BooksTerminate ==
    ASSUME TypeOK, BooksInv, NEW c \in Client, Terminate(c)
    PROVE  BooksInv'
<1>1. UNCHANGED <<deleted, balance>> /\ pc' = pc /\ job' = job
    BY DEF Terminate
<1>2. \A r \in Request : /\ status'[r] = "pending" => status[r] = "pending"
                         /\ status'[r] \in {"approved", "completed"}
                                <=> status[r] \in {"approved", "completed"}
    BY DEF Terminate, Held
<1>3. OneSettles' /\ Uncharged' = Uncharged
    BY <1>1 DEF BooksInv, OneSettles, Unsettled, Uncharged, Midway
<1>4. Owed' \subseteq Owed
    <2>1. {job[d].req : d \in Unsettled}' = {job[d].req : d \in Unsettled}
        BY <1>1 DEF Unsettled
    <2> QED
        BY <1>2, <2>1 DEF Owed
<1>5. Granted' = Granted
    BY <1>2 DEF Granted
<1> QED
    BY <1>1, <1>3, <1>4, <1>5, BooksSame

LEMMA BooksRejectOrReturn ==
    ASSUME TypeOK, FlowInv, BooksInv, NEW c \in Client, RejectOrReturn(c)
    PROVE  BooksInv'
<1>1. /\ pc[c] = "act" /\ job[c].kind # "cron"
      /\ Begin(c, "idle", NoJob) /\ UNCHANGED <<used, deleted>>
    BY DEF RejectOrReturn, Finish
<1>2. job[c].req \in Request
    BY <1>1, InFlight
<1> DEFINE r == job[c].req
           to == IF job[c].kind = "reject" THEN "rejected" ELSE "returned"
<1>3. /\ status[r] = "pending" /\ status' = [status EXCEPT ![r] = to]
      /\ to \in Status \ {"pending"} /\ to \notin {"approved", "completed"} /\ ReleaseReserved(r)
    BY DEF RejectOrReturn, Transition, Status
<1> HIDE DEF to
<1>4. /\ OneSettles' /\ r \in Owed /\ Owed' \subseteq Owed \ {r}
      /\ Uncharged' = Uncharged /\ Granted' = Granted
    BY <1>1, <1>2, <1>3, Decides
<1> QED
    BY <1>1, <1>3, <1>4, BooksRelease

LEMMA BooksApprove ==
    ASSUME TypeOK, FlowInv, BooksInv, NEW c \in Client, NEW s, NEW j, Begin(c, s, j),
           s # "balance", pc[c] # "balance", NEW r \in Request, status[r] = "pending",
           status' = [status EXCEPT ![r] = "approved"], Charge(r), UNCHANGED deleted
    PROVE  BooksInv'
<1>1. "approved" \in Status \ {"pending"}
    BY DEF Status
<1>2. /\ OneSettles' /\ r \in Owed /\ Owed' \subseteq Owed \ {r}
      /\ r \notin Granted /\ Granted' = Granted \cup {r} /\ Uncharged' = Uncharged
    BY <1>1, Decides
<1> QED
    BY <1>2, BooksCharge

LEMMA BooksApproveFinal ==
    ASSUME TypeOK, FlowInv, BooksInv, NEW c \in Client, ApproveFinal(c)
    PROVE  BooksInv'
<1>1. /\ pc[c] = "final" /\ Begin(c, "idle", NoJob) /\ UNCHANGED deleted
      /\ status[job[c].req] = "pending" /\ Charge(job[c].req)
      /\ status' = [status EXCEPT ![job[c].req] = "approved"]
    BY DEF ApproveFinal, Finish, Transition
<1>2. job[c].req \in Request
    BY <1>1 DEF TypeOK, JobOK
<1> QED
    BY <1>1, <1>2, BooksApprove

LEMMA BooksSlaApprove ==
    ASSUME TypeOK, FlowInv, BooksInv, NEW c \in Client, SlaApprove(c)
    PROVE  BooksInv'
<1>1. /\ pc[c] = "act" /\ job[c].kind = "sla" /\ Begin(c, "idle", NoJob) /\ UNCHANGED deleted
    BY DEF SlaApprove, Finish
<1>2. job[c].req \in Request /\ (Held(job[c].req) <=> status[job[c].req] = "pending")
    BY <1>1, InFlight DEF BooksInv, Held
<1>3. CASE status[job[c].req] = "pending"
    <2>1. Charge(job[c].req) /\ status' = [status EXCEPT ![job[c].req] = "approved"]
        BY <1>2, <1>3 DEF SlaApprove, PropagateStatus
    <2> QED
        BY <1>1, <1>2, <1>3, <2>1, BooksApprove
<1>4. CASE status[job[c].req] # "pending"
    <2>1. UNCHANGED <<status, deleted, balance>>
        BY <1>1, <1>2, <1>4 DEF SlaApprove, PropagateStatus
    <2> QED
        BY <1>1, <2>1, BooksQuiet
<1> QED
    BY <1>3, <1>4

(* The job charges without a floor: enough is reserved.                    *)
LEMMA BooksCronApprove ==
    ASSUME TypeOK, FlowInv, HandsInv, BooksInv, NEW c \in Client, NEW x \in job[c].rows,
           CronApprove(c, x)
    PROVE  BooksInv'
<1>1. /\ pc[c] = "act" /\ job[c] \in Job /\ UNCHANGED deleted
      /\ x[1] \in Request /\ job[c].kind = "cron"
    BY DEF CronApprove, TypeOK, Job, HandsInv, RowsOfCron
<1>2. status[x[1]] = "pending"
    BY <1>1 DEF HandsInv, ReadHolds, Holds, On
<1>3. \E s, j : Begin(c, s, j) /\ s # "balance"
    BY DEF CronApprove, Finish
<1>4. CASE LastStage(x[1], x[2])
    <2>1. /\ status' = [status EXCEPT ![x[1]] = "approved"]
          /\ used' = used + Days[x[1]] /\ reserved' = reserved - Days[x[1]]
        BY <1>4 DEF CronApprove
    <2>2. Owed \in SUBSET Request /\ x[1] \in Owed
        BY <1>1, <1>2, Parties DEF Owed
    <2>3. Total(Owed) = Days[x[1]] + Total(Owed \ {x[1]})
        BY <2>2, TotalWithout
    <2>4. Total(Owed \ {x[1]}) \in Nat /\ Days[x[1]] \in Nat
        BY <1>1, <2>2, TotalNat, DaysNat
    <2>5. reserved - Days[x[1]] >= 0 /\ reserved - Days[x[1]] \in Int
        BY <2>3, <2>4 DEF BooksInv
    <2>6. Charge(x[1])
        BY <2>1, <2>5 DEF Charge, ReleaseReserved, Floor
    <2> QED
        BY <1>1, <1>2, <1>3, <2>1, <2>6, BooksApprove
<1>5. CASE ~LastStage(x[1], x[2])
    <2>1. UNCHANGED <<status, deleted, balance>>
        BY <1>1, <1>5 DEF CronApprove
    <2> QED
        BY <1>1, <1>3, <2>1, BooksQuiet
<1> QED
    BY <1>4, <1>5

(* A cancellation gives back what the request took, for what it read of    *)
(* the request still holds.                                                *)
LEMMA BooksCancel ==
    ASSUME TypeOK, FlowInv, HandsInv, BooksInv, NEW c \in Client, Cancel(c)
    PROVE  BooksInv'
<1>1. /\ pc[c] = "act" /\ job[c].kind = "cancel"
      /\ Begin(c, "idle", NoJob) /\ UNCHANGED deleted
    BY DEF Cancel, Finish
<1> DEFINE r == job[c].req
<1>2. r \in Request
    BY <1>1, InFlight
<1>3. /\ job[c].was = status[r] /\ status[r] \in {"approved", "pending"}
      /\ status' = [status EXCEPT ![r] = "cancelled"]
    BY <1>1, <1>2 DEF HandsInv, ReadHolds, Holds, On, Cancel, Transition
<1>4. CASE status[r] = "approved"
    <2>1. used' = Floor(used - Days[r]) /\ UNCHANGED reserved
        BY <1>3, <1>4 DEF Cancel
    <2>2. /\ OneSettles' /\ Uncharged' = Uncharged
          /\ {job[d].req : d \in Unsettled}' = {job[d].req : d \in Unsettled}
        BY <1>1, OthersSettle
    <2>3. Owed' \subseteq Owed
        BY <1>3, <2>2 DEF Owed, TypeOK
    <2>4. r \in Granted /\ Granted' = Granted \ {r}
        BY <1>2, <1>3, <1>4 DEF Granted, TypeOK
    <2> QED
        BY <1>1, <2>1, <2>2, <2>3, <2>4, BooksCancelled
<1>5. CASE status[r] = "pending"
    <2>1. ReleaseReserved(r) /\ UNCHANGED used
        BY <1>3, <1>5 DEF Cancel
    <2>2. "cancelled" \in Status \ {"pending"}
        BY DEF Status
    <2>3. /\ OneSettles' /\ r \in Owed /\ Owed' \subseteq Owed \ {r}
          /\ Uncharged' = Uncharged /\ Granted' = Granted
        BY <1>1, <1>2, <1>3, <1>5, <2>2, Decides
    <2> QED
        BY <1>1, <2>1, <2>3, BooksRelease
<1> QED
    BY <1>3, <1>4, <1>5

(* A leave that has ended was granted, and goes on counting.               *)
LEMMA BooksCloseWrite ==
    ASSUME TypeOK, HandsInv, BooksInv, NEW c \in Client, CloseWrite(c)
    PROVE  BooksInv'
<1>1. /\ pc[c] = "act" /\ job[c].kind = "close"
      /\ Begin(c, "idle", NoJob) /\ UNCHANGED <<deleted, balance>>
      /\ status' = [status EXCEPT ![job[c].req] = "completed"]
    BY DEF CloseWrite, Finish
<1>2. job[c].req \in Request
    BY <1>1, InFlight
<1>3. job[c].req \in Granted
    BY <1>1, <1>2 DEF HandsInv, ReadHolds, Holds, On
<1>4. /\ OneSettles' /\ Uncharged' = Uncharged
      /\ {job[d].req : d \in Unsettled}' = {job[d].req : d \in Unsettled}
    BY <1>1, OthersSettle
<1>5. Owed' \subseteq Owed
    BY <1>1, <1>4 DEF Owed, TypeOK
<1>6. Granted' = Granted
    BY <1>1, <1>3 DEF Granted, TypeOK
<1> QED
    BY <1>1, <1>4, <1>5, <1>6, BooksSame

(* The workflow engine sets the status first.  A return is not settled; a  *)
(* rejection and an approval are owed until they are.                      *)
LEMMA BooksPropagate ==
    ASSUME TypeOK, FlowInv, BooksInv, NEW c \in Client, Propagate(c)
    PROVE  BooksInv'
<1> DEFINE r == job[c].req
           k == job[c].kind
           s == CASE k = "wfReturn" -> "stages"
                  [] k # "wfReturn" /\ status[r] = "pending" -> "balance"
                  [] OTHER -> "finish"
<1>1. /\ pc[c] = "act" /\ k \in Flow /\ Begin(c, s, job[c])
      /\ UNCHANGED <<deleted, balance>> /\ PropagateStatus(r, Outcome(k))
    BY DEF Propagate, Goto
<1>2. r \in Request /\ k # "cron"
    BY <1>1, InFlight DEF Flow
<1>3. CASE status[r] # "pending"
    <2>1. UNCHANGED status /\ s # "balance"
        BY <1>1, <1>3 DEF PropagateStatus
    <2> HIDE DEF s
    <2> QED
        BY <1>1, <2>1, BooksQuiet
<1>4. CASE status[r] = "pending" /\ k = "wfReturn"
    <2>1. /\ s = "stages" /\ status' = [status EXCEPT ![r] = "returned"]
          /\ "returned" \in Status \ {"pending"}
        BY <1>1, <1>4 DEF PropagateStatus, Outcome, Status
    <2> HIDE DEF s
    <2>2. /\ OneSettles' /\ Owed' \subseteq Owed
          /\ Uncharged' = Uncharged /\ Granted' = Granted
        BY <1>1, <1>2, <1>4, <2>1, Decides
    <2> QED
        BY <1>1, <2>2, BooksSame
<1>5. CASE status[r] = "pending" /\ k # "wfReturn"
    <2>1. /\ s = "balance" /\ status' = [status EXCEPT ![r] = Outcome(k)]
          /\ Outcome(k) = IF k = "wfApprove" THEN "approved" ELSE "rejected"
        BY <1>1, <1>5 DEF PropagateStatus, Outcome, Flow
    <2> HIDE DEF s
    <2>2. /\ pc'[c] = "balance" /\ job'[c] = job[c]
          /\ \A d \in Client : d # c => pc'[d] = pc[d] /\ job'[d] = job[d]
        BY <1>1, <2>1 DEF Begin, TypeOK
    <2>3. Unsettled' = Unsettled \cup {c} /\ c \notin Unsettled
        BY <1>1, <2>2 DEF Unsettled
    <2>4. \A d \in Unsettled : job[d].req # r
        BY <1>5 DEF FlowInv, LateOK, Unsettled, Late
    <2>5. \A d \in Unsettled' : job'[d] = job[d]
        BY <2>2, <2>3, Parties
    <2>6. OneSettles'
        BY <2>3, <2>4, <2>5 DEF BooksInv, OneSettles
    <2>7. Owed' \subseteq Owed
        <3>1. \A q \in Owed' : q \in Owed
            BY <1>2, <1>5, <2>1, <2>3, <2>5 DEF Owed, TypeOK
        <3> QED
            BY <3>1
    <2>8. /\ Midway("wfApprove") = {d \in Unsettled : job[d].kind = "wfApprove"}
          /\ Midway("wfApprove")' = {d \in Unsettled' : job[d].kind = "wfApprove"}
        BY <2>5, Parties DEF Midway, Unsettled
    <2>9. Uncharged' = {job[d].req : d \in Midway("wfApprove")'}
        BY <2>5, <2>8 DEF Uncharged
    <2>10. CASE k = "wfApprove"
        <3>1. Granted' = Granted \cup {r} /\ r \notin Granted
            BY <1>2, <1>5, <2>1, <2>10 DEF Granted, TypeOK
        <3>2. Midway("wfApprove")' = Midway("wfApprove") \cup {c}
            BY <2>3, <2>8, <2>10
        <3>3. Uncharged' = Uncharged \cup {r}
            BY <2>9, <3>2 DEF Uncharged
        <3>4. r \notin Uncharged
            BY <2>4, <2>8 DEF Uncharged
        <3> QED
            BY <1>1, <1>2, <2>6, <2>7, <3>1, <3>3, <3>4, BooksDecided
    <2>11. CASE k # "wfApprove"
        <3>1. Granted' = Granted
            BY <1>2, <1>5, <2>1, <2>11 DEF Granted, TypeOK
        <3>2. Midway("wfApprove")' = Midway("wfApprove")
            BY <2>3, <2>8, <2>11
        <3>3. Uncharged' = Uncharged
            BY <2>9, <3>2 DEF Uncharged
        <3> QED
            BY <1>1, <2>6, <2>7, <3>1, <3>3, BooksSame
    <2> QED
        BY <2>10, <2>11
<1> QED
    BY <1>3, <1>4, <1>5

LEMMA BooksPropagateBalance ==
    ASSUME TypeOK, FlowInv, BooksInv, NEW c \in Client, PropagateBalance(c)
    PROVE  BooksInv'
<1> DEFINE r == job[c].req
<1>1. pc[c] = "balance" /\ UNCHANGED <<status, deleted>>
    BY DEF PropagateBalance
<1>2. r \in Request /\ ~deleted[r]
    BY <1>1 DEF TypeOK, JobOK, BooksInv
<1>3. /\ Begin(c, "stages", job[c])
      /\ job[c].kind = "wfApprove" => Charge(r)
      /\ job[c].kind # "wfApprove" => ReleaseReserved(r) /\ UNCHANGED used
    BY <1>2 DEF PropagateBalance, Goto
<1>4. /\ OneSettles' /\ Granted' = Granted /\ r \in Owed /\ Owed' \subseteq Owed \ {r}
      /\ job[c].kind # "wfApprove" => Uncharged' = Uncharged
      /\ job[c].kind = "wfApprove" => r \in Uncharged /\ Uncharged' = Uncharged \ {r}
    BY <1>1, <1>3, Settles
<1>5. CASE job[c].kind = "wfApprove"
    BY <1>1, <1>3, <1>4, <1>5, BooksCharge
<1>6. CASE job[c].kind # "wfApprove"
    BY <1>1, <1>3, <1>4, <1>6, BooksRelease
<1> QED
    BY <1>5, <1>6

(* A rejection that dies before it settles leaves days reserved for good.  *)
LEMMA BooksCrash ==
    ASSUME TypeOK, FlowInv, BooksInv, BooksKept, NEW c \in Client, Crash(c)
    PROVE  BooksInv'
<1>1. /\ Begin(c, "idle", NoJob) /\ UNCHANGED <<status, deleted, balance>>
      /\ job[c].kind # "wfApprove"
    BY DEF Crash, Finish, BooksKept
<1>2. CASE pc[c] = "balance"
    <2>1. /\ OneSettles' /\ Granted' = Granted /\ Owed' \subseteq Owed
          /\ Uncharged' = Uncharged
        BY <1>1, <1>2, Settles
    <2> QED
        BY <1>1, <2>1, BooksSame
<1>3. CASE pc[c] # "balance"
    BY <1>1, <1>3, BooksQuiet
<1> QED
    BY <1>2, <1>3

(* The steps that touch neither the requests' status nor the balance.      *)
LEMMA BooksReads ==
    ASSUME TypeOK, BooksInv, NEW c \in Client,
           \/ \E overdue \in SUBSET Candidates : CronRead(c, overdue)
           \/ \E r \in Request : BeginCancel(c, r) \/ CloseRead(c, r) \/ SlaRead(c, r)
           \/ \E r \in Request, k \in Kind : BeginDecision(c, r, k) \/ BeginAction(c, r, k)
           \/ SubmitWorkflow(c) \/ ReadStage(c) \/ ApproveStage(c) \/ Escalate(c)
           \/ Refused(c) \/ CancelRefused(c) \/ Advance(c) \/ PropagateStages(c)
           \/ FinishAction(c)
    PROVE  BooksInv'
<1>1. pc[c] # "balance" /\ UNCHANGED <<status, deleted, balance>>
    BY DEF CronRead, BeginCancel, CloseRead, SlaRead, BeginDecision, BeginAction, SubmitWorkflow,
           ReadStage, ApproveStage, Escalate, Refused, CancelRefused, Advance, PropagateStages,
           FinishAction
<1>2. CASE \/ SubmitWorkflow(c) \/ Escalate(c) \/ Refused(c) \/ CancelRefused(c)
           \/ Advance(c) \/ FinishAction(c)
           \/ Finish(c) /\ (ApproveStage(c) \/ ReadStage(c))
    <2>1. Begin(c, "idle", NoJob)
        BY <1>2 DEF SubmitWorkflow, Escalate, Refused, CancelRefused, Advance, FinishAction, Finish
    <2> QED
        BY <1>1, <2>1, BooksQuiet
<1>3. CASE (ApproveStage(c) /\ ~Finish(c)) \/ PropagateStages(c)
    <2>1. Begin(c, "final", job[c]) \/ Begin(c, "finish", job[c])
        BY <1>3 DEF ApproveStage, PropagateStages, Goto
    <2> QED
        BY <1>1, <2>1, BooksQuiet
<1>4. CASE ReadStage(c) /\ ~Finish(c)
    <2>1. \E j : Begin(c, "act", j)
        BY <1>4 DEF ReadStage, Goto
    <2> QED
        BY <1>1, <2>1, BooksQuiet
<1>5. ASSUME NEW overdue \in SUBSET Candidates, CronRead(c, overdue) PROVE BooksInv'
    BY <1>1, <1>5, BooksQuiet DEF CronRead
<1>6. ASSUME NEW r \in Request, BeginCancel(c, r) PROVE BooksInv'
    BY <1>1, <1>6, BooksQuiet DEF BeginCancel
<1>7. ASSUME NEW r \in Request, CloseRead(c, r) PROVE BooksInv'
    BY <1>1, <1>7, BooksQuiet DEF CloseRead
<1>8. ASSUME NEW r \in Request, SlaRead(c, r) PROVE BooksInv'
    BY <1>1, <1>8, BooksQuiet DEF SlaRead
<1>9. ASSUME NEW r \in Request, NEW k \in Kind, BeginDecision(c, r, k) PROVE BooksInv'
    BY <1>1, <1>9, BooksQuiet DEF BeginDecision
<1>10. ASSUME NEW r \in Request, NEW k \in Kind, BeginAction(c, r, k) PROVE BooksInv'
    BY <1>1, <1>10, BooksQuiet DEF BeginAction
<1>11. CASE \/ SubmitWorkflow(c) \/ ReadStage(c) \/ ApproveStage(c) \/ Escalate(c) \/ Refused(c)
            \/ CancelRefused(c) \/ Advance(c) \/ PropagateStages(c) \/ FinishAction(c)
    BY <1>2, <1>3, <1>4, <1>11
<1> QED
    BY <1>5, <1>6, <1>7, <1>8, <1>9, <1>10, <1>11, Zenon

LEMMA BooksInit == Init => FlowInv /\ HandsInv /\ BooksInv
<1> SUFFICES ASSUME Init PROVE FlowInv /\ HandsInv /\ BooksInv
    OBVIOUS
<1>1. HandsInv
    BY DEF Init, HandsInv, OwnRequest, RowsOfCron, Holds, NoJob
<1>2. Owed = {} /\ Granted = {} /\ Uncharged = {} /\ OneSettles
    BY DEF Init, Owed, Granted, Uncharged, Unsettled, Midway, OneSettles
<1>3. Total(Owed) = 0 /\ Total(Granted) = 0 /\ Total(Uncharged) = 0
    BY <1>2, TotalEmpty
<1>4. BooksInv
    BY <1>2, <1>3, DaysNat DEF Init, BooksInv
<1> QED
    BY <1>1, <1>4, FlowInit

LEMMA BooksNext ==
    ASSUME TypeOK, FlowInv, HandsInv, BooksInv, BooksKept, Next
    PROVE  HandsInv' /\ BooksInv'
<1>1. PICK c \in Client : Start(c) \/ Continue(c) \/ Crash(c)
    BY DEF Next
<1>2. HandsInv'
    BY <1>1, HandsStart, HandsContinue
<1>3. CASE Start(c)
    <2>1. ASSUME NEW r \in Request, Delete(c, r) PROVE BooksInv'
        BY <2>1 DEF Delete, Free, BooksKept
    <2>2. Decide \cup {"escalate"} \subseteq Kind /\ Flow \subseteq Kind
        BY DEF Decide, Flow, Kind
    <2>3. CASE \/ \E overdue \in SUBSET Candidates : CronRead(c, overdue)
               \/ \E r \in Request : BeginCancel(c, r) \/ CloseRead(c, r) \/ SlaRead(c, r)
               \/ \E r \in Request, k \in Kind : BeginDecision(c, r, k) \/ BeginAction(c, r, k)
        BY <1>2, <2>3, BooksReads
    <2>4. CASE Terminate(c) \/ \E r \in Request : Submit(c, r)
        BY <1>2, <2>4, BooksSubmit, BooksTerminate
    <2>5. BooksInv'
        BY <1>3, <2>1, <2>2, <2>3, <2>4 DEF Start
    <2> QED
        BY <1>2, <2>5
<1>4. CASE Continue(c)
    BY <1>2, <1>4, BooksReads, BooksRejectOrReturn, BooksApproveFinal, BooksCancel, BooksCloseWrite,
       BooksCronApprove, BooksPropagate, BooksPropagateBalance, BooksSlaApprove DEF Continue
<1>5. CASE Crash(c)
    BY <1>2, <1>5, BooksCrash
<1> QED
    BY <1>1, <1>3, <1>4, <1>5

LEMMA BooksStutter ==
    ASSUME HandsInv, BooksInv, UNCHANGED vars
    PROVE  HandsInv' /\ BooksInv'
<1>1. HandsInv'
    BY DEF vars, HandsInv, OwnRequest, RowsOfCron, Holds, On, ReadHolds, Granted, PendingRows
<1>2. Owed' = Owed /\ Granted' = Granted /\ Uncharged' = Uncharged /\ OneSettles'
    BY DEF vars, BooksInv, Owed, Granted, Uncharged, Unsettled, Midway, OneSettles
<1>3. BooksInv'
    BY <1>2 DEF vars, balance, BooksInv
<1> QED
    BY <1>1, <1>3

LEMMA BooksInvariant == ASSUME BooksKept PROVE Spec => [](TypeOK /\ BooksInv)
<1>1. TypeOK /\ FlowInv /\ HandsInv /\ BooksInv /\ [Next]_vars
          => FlowInv' /\ HandsInv' /\ BooksInv'
    <2>1. ASSUME FlowInv, UNCHANGED vars PROVE FlowInv'
        BY <2>1 DEF FlowInv, LateOK, WorkflowNotAhead, vars
    <2> QED
        BY <2>1, FlowNext, BooksNext, BooksStutter
<1> QED
    BY <1>1, BooksInit, LeaveTypeCorrect, PTL DEF Spec

-----------------------------------------------------------------------------
(* The balance row covers every waiting and every granted request of the   *)
(* employee, whatever decides them and in which order, when no request is  *)
(* deleted, nothing overlaps a cancellation or a run of the overdue job,   *)
(* and no approval of the workflow engine dies before it charges.          *)
THEOREM BalanceCovers == ASSUME BooksKept PROVE Spec => []Covered
<1>1. TypeOK /\ BooksInv => Covered
    <2> SUFFICES ASSUME TypeOK, BooksInv PROVE Covered
        OBVIOUS
    <2> DEFINE H == {r \in Request : Held(r)}
    <2>1. H \subseteq Owed
        BY DEF Owed, Held
    <2>2. Total(H) <= Total(Owed) /\ Total(H) \in Nat /\ Total(Owed) \in Nat
        BY <2>1, Parties, TotalMonotonic, TotalNat
    <2>3. reserved >= Total(H)
        BY <2>2 DEF BooksInv
    <2> QED
        BY <2>3 DEF BooksInv, Covered, Uncharged, Granted
<1> QED
    BY <1>1, BooksInvariant, PTL

(* No interleaving of submissions and decisions grants or reserves more    *)
(* days than the employee is entitled to, under the same conditions: the   *)
(* check of the balance at the submission is enough.                       *)
THEOREM WithinEntitlement == ASSUME BooksKept PROVE Spec => []NotOverdrawn
<1>1. BooksInv => NotOverdrawn
    BY DEF BooksInv, NotOverdrawn
<1> QED
    BY <1>1, BooksInvariant, PTL
=============================================================================
