------------------------------ MODULE Payroll ------------------------------
(***************************************************************************)
(* The payroll runs of one company and the dues they pay or deduct:        *)
(* commissions, drivers' hours, movement bonuses, attendance deductions,   *)
(* loan installments and overtime.                                         *)
(*                                                                         *)
(* POST /payroll reads the dues kind by kind, outside any transaction, and *)
(* then inserts the run, its lines, its accrual entry and the marks on the *)
(* dues in one transaction, under an advisory lock on the period.  A row   *)
(* of three kinds is marked by its id and stamped with the line; the rows  *)
(* of the other three are swept by their period, whether a line counted    *)
(* them or not.  Approving, posting and deleting a run read its status     *)
(* first and write later.                                                  *)
(*                                                                         *)
(* Amounts are left out: every run pays somebody, and every due belongs to *)
(* an employee who gets a line.  Gates that can only refuse (period open,  *)
(* attendance complete, maker is not checker) are refusals here.           *)
(***************************************************************************)
EXTENDS FiniteSets

CONSTANTS
    Maker,    \* clients that create runs
    Keeper,   \* clients that approve, post and delete them
    Run,      \* rows of payroll_runs that may come to exist
    Period,   \* months
    Item,     \* dues
    KindOf,   \* the table a due is a row of
    Month,    \* the month a due belongs to
    Ready,    \* the dues that are approved when the story begins
    Apart,    \* requests of keepers that never overlap another keeper's
    None

Stamped == {"commission", "hours", "bonus"}
Swept == {"deduction", "installment", "overtime"}
Kind == Stamped \cup Swept
Request == {"approve", "post", "delete"}

ASSUME PayrollAssumption ==
    /\ KindOf \in [Item -> Kind]
    /\ Month \in [Item -> Period]
    /\ Ready \subseteq Item /\ Apart \subseteq Request
    /\ None \notin Run

VARIABLES
    run,      \* payroll_runs with what their lines count
    item,     \* the dues: status and payrollLineId (here: the line's run)
    accrual,  \* runs whose accrual entry is in the books
    payment,  \* runs whose settlement entry is in the books
    draft,    \* what each maker has read
    task      \* what each keeper is about to do

vars == <<run, item, accrual, payment, draft, task>>

NoRun == [st |-> "none", period |-> None, counts |-> {}, deleted |-> FALSE]
Blank == [period |-> None, left |-> {}, seen |-> {}]
Idle == [op |-> "idle", on |-> None]

Init ==
    /\ run = [r \in Run |-> NoRun]
    /\ item = [i \in Item |-> [st |-> IF i \in Ready THEN "due" ELSE "open", line |-> None]]
    /\ accrual = {} /\ payment = {}
    /\ draft = [m \in Maker |-> Blank]
    /\ task = [k \in Keeper |-> Idle]

Live(r) == run[r].st # "none" /\ ~run[r].deleted
LiveIn(p) == {r \in Run : Live(r) /\ run[r].period = p}
Due(i) == item[i].st = "due" /\ item[i].line = None

-----------------------------------------------------------------------------
(* The dues have lives of their own: they are approved at any moment, a    *)
(* deduction is withdrawn by an appeal, and recomputing a commission sends *)
(* it back to approval even after it was paid, keeping its stamp.          *)
Approve(i) ==
    /\ item[i].st = "open"
    /\ item' = [item EXCEPT ![i].st = "due"]
    /\ UNCHANGED <<run, accrual, payment, draft, task>>

Withdraw(i) ==
    /\ KindOf[i] = "deduction" /\ item[i].st = "due"
    /\ item' = [item EXCEPT ![i].st = "void"]
    /\ UNCHANGED <<run, accrual, payment, draft, task>>

Recompute(i) ==
    /\ KindOf[i] = "commission" /\ item[i].st # "open"
    /\ item' = [item EXCEPT ![i].st = "open"]
    /\ UNCHANGED <<run, accrual, payment, draft, task>>

-----------------------------------------------------------------------------
(* Creating a run.  Bonuses are read company-wide, the rest by month.      *)
DuesOfAnyMonth(p, k) == {i \in Item : KindOf[i] = k /\ Due(i)}
Dues(p, k) == {i \in Item : KindOf[i] = k /\ Due(i) /\ (k = "bonus" \/ Month[i] = p)}

Begin(m, p) ==
    /\ draft[m] = Blank
    /\ LiveIn(p) = {}
    /\ draft' = [draft EXCEPT ![m] = [period |-> p, left |-> {KindOf[i] : i \in Item},
                                      seen |-> {}]]
    /\ UNCHANGED <<run, item, accrual, payment, task>>

(* Commissions are read first, the swept kinds in parallel, then hours and *)
(* last bonuses.                                                           *)
ReadBefore(k) ==
    CASE k = "commission" -> {}
      [] k \in Swept -> {"commission"}
      [] k = "hours" -> Swept \cup {"commission"}
      [] k = "bonus" -> Kind \ {"bonus"}

Read(m, k) ==
    /\ k \in draft[m].left
    /\ draft[m].left \cap ReadBefore(k) = {}
    /\ draft' = [draft EXCEPT ![m].left = @ \ {k}, ![m].seen = @ \cup Dues(draft[m].period, k)]
    /\ UNCHANGED <<run, item, accrual, payment, task>>

(* What the transaction of run r of period p, whose lines count the dues   *)
(* in s, makes of a due.                                                   *)
MarkedAsSwept(i, r, p, s) ==
    IF item[i].st = "due" /\ Month[i] = p THEN [item[i] EXCEPT !.line = r] ELSE item[i]
MarkedByMonth(i, r, p, s) ==
    IF Due(i) /\ Month[i] = p
    THEN [st |-> IF KindOf[i] \in Swept \cup {"commission"} THEN "paid" ELSE "due",
          line |-> IF KindOf[i] \in Stamped THEN r ELSE None]
    ELSE item[i]
Marked(i, r, p, s) ==
    LET k == KindOf[i]
        swept == /\ k \in Swept /\ item[i].st = "due" /\ Month[i] = p
                 /\ k = "deduction" \/ \E j \in s : KindOf[j] = k
    IN CASE k \in Stamped /\ i \in s /\ Due(i) ->
              [st |-> IF k = "commission" THEN "paid" ELSE "due", line |-> r]
         [] swept -> [item[i] EXCEPT !.st = "paid"]
         [] OTHER -> item[i]

NoOtherRunUnchecked(p) == TRUE
NoOtherRun(p) == LiveIn(p) = {}

Create(m) ==
    LET p == draft[m].period
        s == draft[m].seen
    IN /\ draft[m] # Blank /\ draft[m].left = {}
       /\ NoOtherRun(p)
       /\ \E r \in Run :
             /\ run[r] = NoRun
             /\ run' = [run EXCEPT ![r] = [st |-> "pending_approval", period |-> p,
                                           counts |-> s, deleted |-> FALSE]]
             /\ item' = [i \in Item |-> Marked(i, r, p, s)]
             /\ accrual' = accrual \cup {r}
       /\ draft' = [draft EXCEPT ![m] = Blank]
       /\ UNCHANGED <<payment, task>>

(* Refused at the check under the lock, rolled back by a failure of the    *)
(* accrual entry or of any statement, or the process dies.                 *)
Abandon(m) ==
    /\ draft[m] # Blank
    /\ draft' = [draft EXCEPT ![m] = Blank]
    /\ UNCHANGED <<run, item, accrual, payment, task>>

-----------------------------------------------------------------------------
(* Keeping a run: the status is read and checked here ...                  *)
AdmitsPosted(op, r) ==
    /\ Live(r)
    /\ op = "approve" => run[r].st = "pending_approval"
    /\ op = "post" => run[r].st = "completed"
Admits(op, r) ==
    /\ Live(r)
    /\ op = "approve" => run[r].st = "pending_approval"
    /\ op = "post" => run[r].st = "completed"
    /\ op = "delete" => run[r].st # "posted"

Busy == {k \in Keeper : task[k] # Idle}
MayOverlap(op) ==
    /\ op \in Apart => Busy = {}
    /\ \A k \in Busy : task[k].op \notin Apart

StartRequest(k, op, r) ==
    /\ task[k] = Idle
    /\ Admits(op, r) /\ MayOverlap(op)
    /\ task' = [task EXCEPT ![k] = [op |-> op, on |-> r]]
    /\ UNCHANGED <<run, item, accrual, payment, draft>>

(* ... and acted on here.  Approving does not look at the status again,    *)
(* posting does, together with the settlement entry, whose source key      *)
(* makes a second one the same entry.                                      *)
Finish(k) == task' = [task EXCEPT ![k] = Idle]

ApproveRun(k) ==
    LET r == task[k].on
    IN /\ task[k].op = "approve"
       /\ run' = IF run[r].deleted THEN run ELSE [run EXCEPT ![r].st = "completed"]
       /\ Finish(k)
       /\ UNCHANGED <<item, accrual, payment, draft>>

SettledLater(r) == payment
Settled(r) == payment \cup {r}

PostRun(k) ==
    LET r == task[k].on
    IN /\ task[k].op = "post"
       /\ Live(r) /\ run[r].st = "completed"
       /\ run' = [run EXCEPT ![r].st = "posted"]
       /\ payment' = Settled(r)
       /\ Finish(k)
       /\ UNCHANGED <<item, accrual, draft>>

(* Deductions return to the queue by their month; installments and         *)
(* overtime by the stamp that creating a run never gives them.             *)
RestoredByStatus(i, r) ==
    IF KindOf[i] \in Swept /\ item[i].st = "paid"
    THEN [item[i] EXCEPT !.st = "due"] ELSE item[i]
Restored(i, r) ==
    LET k == KindOf[i]
        mine == IF k = "deduction" THEN Month[i] = run[r].period
                ELSE k \in {"installment", "overtime"} /\ item[i].line = r
    IN IF mine /\ item[i].st = "paid" THEN [item[i] EXCEPT !.st = "due"] ELSE item[i]

DeleteRun(k) ==
    LET r == task[k].on
    IN /\ task[k].op = "delete"
       /\ item' = [i \in Item |-> Restored(i, r)]
       /\ accrual' = accrual \ {r}
       /\ run' = [run EXCEPT ![r].deleted = TRUE]
       /\ Finish(k)
       /\ UNCHANGED <<payment, draft>>

(* The guarded update finds no row, an entry is refused, or the process    *)
(* dies: nothing is written.                                               *)
GiveUp(k) ==
    /\ task[k] # Idle
    /\ Finish(k)
    /\ UNCHANGED <<run, item, accrual, payment, draft>>

-----------------------------------------------------------------------------
DueStep == \E i \in Item : Approve(i) \/ Withdraw(i) \/ Recompute(i)

MakerStep(m) ==
    \/ \E p \in Period : Begin(m, p)
    \/ \E k \in Kind : Read(m, k)
    \/ Create(m)
    \/ Abandon(m)

KeeperStep(k) ==
    \/ \E op \in Request, r \in Run : StartRequest(k, op, r)
    \/ ApproveRun(k)
    \/ PostRun(k)
    \/ DeleteRun(k)
    \/ GiveUp(k)

Next ==
    \/ DueStep
    \/ \E m \in Maker : MakerStep(m)
    \/ \E k \in Keeper : KeeperStep(k)

Spec == Init /\ [][Next]_vars

-----------------------------------------------------------------------------
(* Type invariant: the fields of the runs, the dues and the requests; a    *)
(* swept due never carries a stamp, and a run counts dues of its own month *)
(* or bonuses.                                                             *)
RunRow ==
    {NoRun} \cup [st : {"pending_approval", "completed", "posted"}, period : Period,
                  counts : SUBSET Item, deleted : BOOLEAN]

TypeOK ==
    /\ run \in [Run -> RunRow]
    /\ item \in [Item -> [st : {"open", "due", "paid", "void"}, line : Run \cup {None}]]
    /\ \A i \in Item : KindOf[i] \in Swept => item[i].line = None
    /\ accrual \subseteq Run /\ payment \subseteq Run
    /\ draft \in [Maker -> {Blank} \cup [period : Period, left : SUBSET Kind,
                                         seen : SUBSET Item]]
    /\ task \in [Keeper -> {Idle} \cup [op : Request, on : Run]]

(* A month has at most one live run, however many clients create and       *)
(* delete runs at once (advisory lock and second check, hr.ts:3464-3488).  *)
OneLiveRun == \A p \in Period : \A r, q \in LiveIn(p) : r = q

(* No due of a month is on the lines of two live runs: neither after a run *)
(* is deleted and made again, nor when a paid commission is recomputed and *)
(* approved once more (hr.ts:3162-3176).  Bonuses, read for the whole      *)
(* company, are not covered: two overlapping runs of different months read *)
(* the same bonus.                                                         *)
PaidOnce ==
    \A r, q \in Run : Live(r) /\ Live(q) /\ r # q =>
        \A i \in run[r].counts \cap run[q].counts : KindOf[i] = "bonus"

(* The stamp on a due names a run whose lines count it, deleted or not:    *)
(* payrollLineId can be trusted by who looks for the payment               *)
(* (hr.ts:3526-3565), although what is stamped was read long before.       *)
Traceable ==
    \A i \in Item : item[i].line # None => i \in run[item[i].line].counts

(* The books hold the accrual of the live runs and of no other, and a run  *)
(* marked as posted has its settlement entry (hr.ts:3644-3694, 5417-5428,  *)
(* hrEngine.ts:706-736).                                                   *)
LedgerFollowsRuns ==
    /\ accrual = {r \in Run : Live(r)}
    /\ \A r \in Run : run[r].st = "posted" => r \in payment

(* What a live run counts is not due any more, so nothing shows it to the  *)
(* user as open or to a later run (hr.ts:3526-3641).  A commission that is *)
(* recomputed while a run is being created is the exception.  Needs Apart: *)
(* a second deletion of one run, which read its status before the first    *)
(* one, gives back what the run made in between counts (hr.ts:5377-5392).  *)
CountedIsNotDue ==
    \A r \in Run : Live(r) =>
        \A i \in run[r].counts : KindOf[i] # "commission" => ~Due(i)

(* The salaries of a month leave the bank once: its runs, live or deleted, *)
(* have one settlement entry among them.  Needs Apart: a run approved or   *)
(* deleted on a stale status loses the protection of being posted          *)
(* (hr.ts:3741-3755, 5377-5383).                                           *)
SalariesPaidOnce ==
    \A r, q \in payment : run[r].period = run[q].period => r = q
=============================================================================
