--------------------------- MODULE ApprovalProofs ---------------------------
(***************************************************************************)
(* Proofs about ApprovalChain, for any number of handlers, any length of   *)
(* the chain and any choice of automatic steps.                            *)
(*                                                                         *)
(* No property is inductive alone.  NoStepSkipped needs that the row a     *)
(* handler in the gap has marked stays decided (InHand).  WholeChain needs *)
(* that as long as nothing slipped, an unfinished chain shows: a row is    *)
(* pending, a handler is in the gap, or the last step is approved (Alive). *)
(* A look-up that finds nothing pending, with nobody in the gap, therefore *)
(* comes after the last step, and with it NoStepSkipped gives the others.  *)
(***************************************************************************)
EXTENDS ApprovalChain, TLAPS

Task == [pc : {"idle", "lookup", "mark", "insert", "decide", "wait"},
         call : {"none", "approve", "advance", "reject"}, row : Nat, owes : BOOLEAN]

(* Handlers to which the chain has answered "approved".                    *)
Past(c) == task[c].pc = "decide" /\ task[c].call = "approve"

(* Nothing slipped and the document is waiting or approved.                *)
Straight == ~slipped /\ doc \in {"pending", "approved"}

InHand ==
    \A c \in Client : InGap(c) => /\ rows[task[c].row].st # "pending"
                                  /\ rows[task[c].row].step < Last

Before ==
    /\ chain # "started" => rows = <<>>
    /\ chain = "coming" /\ ~slipped => doc # "approved" /\ \A c \in Client : ~Past(c)

Clean == Straight => \A i \in DOMAIN rows : rows[i].st \in {"pending", "approved"}

LastApproved == \E i \in DOMAIN rows : rows[i].step = Last /\ rows[i].st = "approved"

Alive ==
    Straight /\ chain = "started" =>
        Waiting # {} \/ (\E c \in Client : InGap(c)) \/ LastApproved

Done ==
    Straight /\ chain = "started" /\ (doc = "approved" \/ \E c \in Client : Past(c)) =>
        LastApproved

ChainInv == TypeOK /\ NoStepSkipped /\ InHand /\ Before /\ Clean /\ Alive /\ Done

-----------------------------------------------------------------------------
(* What an action may do to the rows.                                      *)
Decision == {"approved", "rejected", "cancelled"}

RowsKept ==
    /\ rows' \in Seq(Row) /\ Len(rows') >= Len(rows)
    /\ \A i \in DOMAIN rows : /\ rows'[i].step = rows[i].step
                              /\ rows[i].st # "pending" => rows'[i].st # "pending"

LEMMA Unchanged ==
    ASSUME TypeOK, rows' = rows
    PROVE  RowsKept
<1>1. rows \in Seq(Row) /\ Len(rows) \in Nat
  BY DEF TypeOK
<1> QED
  BY <1>1 DEF RowsKept

LEMMA Appended ==
    ASSUME TypeOK, NEW n \in 1 .. Last, rows' = Append(rows, Asked(n))
    PROVE  /\ RowsKept /\ Len(rows') = Len(rows) + 1
           /\ rows'[Len(rows) + 1] = Asked(n)
           /\ \A i \in DOMAIN rows : rows'[i] = rows[i]
<1>1. rows \in Seq(Row) /\ Asked(n) \in Row
  BY ApprovalAssumption DEF TypeOK, Asked, Row
<1>2. rows' \in Seq(Row) /\ Len(rows') = Len(rows) + 1 /\ Len(rows) \in Nat
  BY <1>1
<1>3. rows'[Len(rows) + 1] = Asked(n) /\ \A i \in DOMAIN rows : rows'[i] = rows[i]
  BY <1>1
<1> QED
  BY <1>2, <1>3 DEF RowsKept

LEMMA MarkedAs ==
    ASSUME TypeOK, NEW i \in DOMAIN rows, NEW s \in Decision,
           rows' = [rows EXCEPT ![i].st = s]
    PROVE  /\ RowsKept /\ Len(rows') = Len(rows)
           /\ rows'[i].st = s
           /\ \A j \in DOMAIN rows : j # i => rows'[j] = rows[j]
<1>1. rows \in Seq(Row) /\ rows[i] \in Row /\ Len(rows) \in Nat
  BY DEF TypeOK
<1>2. [rows[i] EXCEPT !.st = s] \in Row /\ [rows[i] EXCEPT !.st = s].st = s
      /\ [rows[i] EXCEPT !.st = s].step = rows[i].step
  BY <1>1 DEF Row, Decision
<1>3. rows' = [rows EXCEPT ![i] = [rows[i] EXCEPT !.st = s]]
  OBVIOUS
<1>4. rows' \in Seq(Row) /\ Len(rows') = Len(rows)
  BY <1>1, <1>2, <1>3
<1>5. rows'[i] = [rows[i] EXCEPT !.st = s] /\ \A j \in DOMAIN rows : j # i => rows'[j] = rows[j]
  BY <1>1, <1>3
<1>6. s # "pending"
  BY DEF Decision
<1>7. \A j \in DOMAIN rows : /\ rows'[j].step = rows[j].step
                             /\ rows[j].st # "pending" => rows'[j].st # "pending"
  <2>1. TAKE j \in DOMAIN rows
  <2>2. CASE j = i
    BY <1>2, <1>5, <1>6, <2>2
  <2>3. CASE j # i
    BY <1>5, <2>3
  <2> QED
    BY <2>2, <2>3
<1>8. rows'[i].st = s
  BY <1>2, <1>5
<1>9. RowsKept
  BY <1>1, <1>4, <1>7 DEF RowsKept
<1> QED
  BY <1>4, <1>5, <1>8, <1>9

LEMMA CancelledRows ==
    ASSUME TypeOK, CancelRows
    PROVE  RowsKept
<1>1. rows \in Seq(Row) /\ Len(rows) \in Nat /\ DOMAIN rows = 1 .. Len(rows)
  BY DEF TypeOK
<1>2. PICK S \in SUBSET Waiting :
        rows' = [i \in DOMAIN rows |-> IF i \in S THEN [rows[i] EXCEPT !.st = "cancelled"]
                                                  ELSE rows[i]]
  BY DEF CancelRows
<1>3. ASSUME NEW i \in DOMAIN rows
      PROVE  /\ rows'[i] \in Row /\ rows'[i].step = rows[i].step
             /\ rows[i].st # "pending" => rows'[i].st # "pending"
  <2>1. rows[i] \in Row
    BY <1>1
  <2>2. rows'[i] = IF i \in S THEN [rows[i] EXCEPT !.st = "cancelled"] ELSE rows[i]
    BY <1>2
  <2> QED
    BY <2>1, <2>2 DEF Row
<1>4. rows' \in [1 .. Len(rows) -> Row]
  BY <1>1, <1>2, <1>3
<1>5. rows' \in Seq(Row) /\ Len(rows') = Len(rows)
  BY <1>1, <1>4
<1> QED
  BY <1>1, <1>3, <1>5 DEF RowsKept

-----------------------------------------------------------------------------
(* What an action may do to the handlers: c goes on, the others stay.      *)
TaskOK(d) == task[d].pc \in {"mark", "insert"} => task[d].row \in DOMAIN rows

Goes(c) ==
    /\ task' \in [Client -> Task]
    /\ \A d \in Client : d # c => task'[d] = task[d]

LEMMA StartType ==
    ASSUME TypeOK, NEW c \in Client, NEW pc \in {"lookup", "decide"},
           NEW call \in {"approve", "advance", "reject"}, NEW owes \in BOOLEAN,
           Start(c, pc, call, owes)
    PROVE  Goes(c) /\ task'[c].pc = pc /\ task'[c].call = call
<1>1. task \in [Client -> Task]
  BY DEF TypeOK, Task
<1>2. [pc |-> pc, call |-> call, row |-> 0, owes |-> owes] \in Task
  BY DEF Task
<1> QED
  BY <1>1, <1>2 DEF Start, Goes

LEMMA EndType ==
    ASSUME TypeOK, NEW c \in Client, End(c)
    PROVE  Goes(c) /\ task'[c].pc \in {"idle", "wait"}
<1>1. task \in [Client -> Task] /\ Idle \in Task
  BY DEF TypeOK, Task, Idle
<1>2. task[c] \in Task
  BY <1>1
<1>3. [task[c] EXCEPT !.pc = "wait", !.row = 0] \in Task
      /\ [task[c] EXCEPT !.pc = "wait", !.row = 0].pc = "wait"
  BY <1>2 DEF Task
<1>4. task'[c] = IF task[c].owes THEN [task[c] EXCEPT !.pc = "wait", !.row = 0] ELSE Idle
  BY <1>1 DEF End
<1> QED
  BY <1>1, <1>3, <1>4 DEF End, Goes, Idle

LEMMA ApprovedType ==
    ASSUME TypeOK, NEW c \in Client, Approved(c)
    PROVE  Goes(c) /\ task'[c].pc \in {"decide", "idle", "wait"}
<1>1. CASE task[c].call = "approve"
  <2>1. task \in [Client -> Task] /\ task[c] \in Task
    BY DEF TypeOK, Task
  <2>2. task' = [task EXCEPT ![c] = [task[c] EXCEPT !.pc = "decide", !.row = 0]]
    BY <1>1, <2>1 DEF Approved, Task
  <2>3. [task[c] EXCEPT !.pc = "decide", !.row = 0] \in Task
        /\ [task[c] EXCEPT !.pc = "decide", !.row = 0].pc = "decide"
    BY <2>1 DEF Task
  <2> QED
    BY <2>1, <2>2, <2>3 DEF Goes
<1>2. CASE task[c].call # "approve"
  BY <1>2, EndType DEF Approved
<1> QED
  BY <1>1, <1>2

LEMMA GotoType ==
    ASSUME TypeOK, NEW c \in Client, NEW pc \in {"lookup", "insert"}, Goto(c, pc)
    PROVE  /\ Goes(c)
           /\ task'[c].pc = pc /\ task'[c].call = task[c].call /\ task'[c].row = task[c].row
<1>1. task \in [Client -> Task] /\ task[c] \in Task
  BY DEF TypeOK, Task
<1>2. task' = [task EXCEPT ![c] = [task[c] EXCEPT !.pc = pc]]
  BY DEF Goto
<1>3. [task[c] EXCEPT !.pc = pc] \in Task
  BY <1>1 DEF Task
<1> QED
  BY <1>1, <1>2, <1>3 DEF Goes, Task

LEMMA CrashType ==
    ASSUME TypeOK, NEW c \in Client, Crash(c)
    PROVE  Goes(c) /\ task'[c].pc = "idle"
<1>1. task \in [Client -> Task] /\ Idle \in Task
  BY DEF TypeOK, Task, Idle
<1> QED
  BY <1>1 DEF Crash, Goes, Idle

LEMMA RefuseType ==
    ASSUME TypeOK, NEW c \in Client, Refuse(c)
    PROVE  /\ Goes(c)
           /\ \/ task'[c].pc = "idle"
              \/ /\ task'[c].pc = task[c].pc /\ task'[c].call = task[c].call
                 /\ task'[c].row = task[c].row
<1>1. task \in [Client -> Task] /\ task[c] \in Task /\ Idle \in Task
  BY DEF TypeOK, Task, Idle
<1>2. [task[c] EXCEPT !.owes = FALSE] \in Task
  BY <1>1 DEF Task
<1>3. task'[c] = IF task[c].pc = "wait" THEN Idle ELSE [task[c] EXCEPT !.owes = FALSE]
  BY <1>1 DEF Refuse
<1> QED
  BY <1>1, <1>2, <1>3 DEF Refuse, Goes, Task, Idle

LEMMA LookUpType ==
    ASSUME TypeOK, NEW c \in Client, LookUp(c)
    PROVE  /\ Goes(c)
           /\ \/ /\ Waiting # {} /\ slipped' = slipped
                 /\ task'[c].pc = "mark" /\ task'[c].row \in DOMAIN rows
              \/ /\ Waiting = {} /\ task'[c].pc \in {"decide", "idle", "wait"}
                 /\ slipped' = (slipped \/ chain = "coming" \/ \E d \in Client : InGap(d))
<1>1. CASE Waiting # {}
  <2>1. task \in [Client -> Task] /\ task[c] \in Task /\ DOMAIN rows \subseteq Nat
    BY DEF TypeOK, Task
  <2>2. PICK i \in DOMAIN rows : task' = [task EXCEPT ![c].pc = "mark", ![c].row = i]
    BY <1>1 DEF LookUp
  <2>3. task' = [task EXCEPT ![c] = [task[c] EXCEPT !.pc = "mark", !.row = i]]
    BY <2>1, <2>2 DEF Task
  <2>4. [task[c] EXCEPT !.pc = "mark", !.row = i] \in Task
        /\ [task[c] EXCEPT !.pc = "mark", !.row = i].pc = "mark"
        /\ [task[c] EXCEPT !.pc = "mark", !.row = i].row = i
    BY <2>1 DEF Task
  <2> QED
    BY <1>1, <2>1, <2>3, <2>4 DEF LookUp, Goes
<1>2. CASE Waiting = {}
  BY <1>2, ApprovedType DEF LookUp
<1> QED
  BY <1>1, <1>2

-----------------------------------------------------------------------------
(* Type correctness.                                                       *)
LEMMA InitType == Init => TypeOK
<1> SUFFICES ASSUME Init PROVE TypeOK
  OBVIOUS
<1>1. rows \in Seq(Row)
  BY DEF Init
<1>2. task \in [Client -> Task] /\ \A c \in Client : task[c].pc = "idle"
  BY DEF Init, Idle, Task
<1> QED
  BY <1>1, <1>2 DEF Init, TypeOK, Task

(* A handler whose own row is still there leaves all of them right.        *)
LEMMA TasksKept ==
    ASSUME TypeOK, RowsKept, NEW c \in Client, Goes(c), TaskOK(c)'
    PROVE  task' \in [Client -> Task] /\ \A d \in Client : TaskOK(d)'
<1>1. DOMAIN rows \subseteq DOMAIN rows'
  BY DEF TypeOK, RowsKept
<1>2. ASSUME NEW d \in Client, d # c PROVE TaskOK(d)'
  <2>1. task'[d] = task[d]
    BY <1>2 DEF Goes
  <2> QED
    BY <1>1, <2>1 DEF TypeOK, TaskOK
<1> QED
  BY <1>2 DEF Goes

LEMMA TypeFollows ==
    ASSUME TypeOK, RowsKept, NEW c \in Client, Goes(c), TaskOK(c)',
           doc' \in {"pending", "approved", "rejected", "cancelled"},
           chain' = chain, slipped' \in BOOLEAN
    PROVE  TypeOK'
BY TasksKept DEF TypeOK, RowsKept, TaskOK, Task

LEMMA TypeStep ==
    ASSUME TypeOK, InHand, Before, [Next]_vars
    PROVE  TypeOK'
<1>a. ASSUME NEW c \in Client, Begin(c) PROVE TypeOK'
  <2>1. PICK pc \in {"lookup", "decide"}, call \in {"approve", "advance", "reject"},
             owes \in BOOLEAN : Start(c, pc, call, owes)
    BY <1>a, Zenon DEF Begin, BeginRoute, BeginInbox, BeginCron
  <2>3. Goes(c) /\ task'[c].pc \in {"lookup", "decide"}
    BY <2>1, StartType, Zenon
  <2>2. UNCHANGED <<doc, chain, rows, slipped>>
    BY <2>1 DEF Start
  <2> QED
    BY <2>2, <2>3, Unchanged, TypeFollows DEF TaskOK, TypeOK
<1>b. ASSUME NEW c \in Client, LookUp(c) PROVE TypeOK'
  <2>1. UNCHANGED <<doc, chain, rows>> /\ slipped' \in BOOLEAN
    BY <1>b DEF LookUp, TypeOK
  <2>2. Goes(c) /\ TaskOK(c)'
    BY <1>b, <2>1, LookUpType DEF TaskOK
  <2> QED
    BY <2>1, <2>2, Unchanged, TypeFollows DEF TypeOK
<1>c. ASSUME NEW c \in Client, MarkApproved(c) PROVE TypeOK'
  <2>1. task[c].row \in DOMAIN rows /\ UNCHANGED <<doc, chain, slipped>>
    BY <1>c DEF MarkApproved, TypeOK
  <2>2. RowsKept /\ Len(rows') = Len(rows)
    BY <1>c, <2>1, MarkedAs DEF MarkApproved, Decision
  <2>3. Goes(c) /\ (task'[c].pc \in {"mark", "insert"} => task'[c].row = task[c].row)
    BY <1>c, GotoType, ApprovedType DEF MarkApproved
  <2>4. TaskOK(c)'
    BY <2>1, <2>2, <2>3 DEF TaskOK, RowsKept, TypeOK
  <2> QED
    BY <2>1, <2>2, <2>3, <2>4, TypeFollows DEF TypeOK
<1>d. ASSUME NEW c \in Client, MarkRejected(c) PROVE TypeOK'
  <2>1. task[c].row \in DOMAIN rows /\ UNCHANGED <<doc, chain>> /\ slipped' \in BOOLEAN
    BY <1>d DEF MarkRejected, TypeOK
  <2>2. RowsKept
    BY <1>d, <2>1, MarkedAs DEF MarkRejected, Decision
  <2> QED
    BY <1>d, <2>1, <2>2, EndType, TypeFollows DEF MarkRejected, TaskOK, TypeOK
<1>e. ASSUME NEW c \in Client, InsertNext(c) \/ AnswerLost(c) PROVE TypeOK'
  <2>1. InGap(c) /\ rows' = NextAsked(c) /\ UNCHANGED <<doc, chain>> /\ slipped' \in BOOLEAN
    BY <1>e DEF InsertNext, AnswerLost, TypeOK
  <2>2. rows[task[c].row].step + 1 \in 1 .. Last
    <3>1. task[c].row \in DOMAIN rows /\ rows[task[c].row].step < Last
      BY <2>1 DEF InHand, TypeOK, InGap
    <3>2. rows[task[c].row] \in Row
      BY <3>1 DEF TypeOK
    <3> QED
      BY <3>1, <3>2, ApprovalAssumption DEF Row
  <2>3. RowsKept
    BY <2>1, <2>2, Appended DEF NextAsked
  <2>4. Goes(c) /\ TaskOK(c)'
    BY <1>e, EndType, ApprovedType DEF InsertNext, AnswerLost, TaskOK
  <2> QED
    BY <2>1, <2>3, <2>4, TypeFollows DEF TypeOK
<1>f. ASSUME NEW c \in Client, Fail(c) PROVE TypeOK'
  <2>1. UNCHANGED <<doc, chain, rows>> /\ slipped' \in BOOLEAN
    BY <1>f DEF Fail, TypeOK
  <2>2. Goes(c) /\ TaskOK(c)'
    BY <1>f, ApprovedType DEF Fail, TaskOK
  <2> QED
    BY <2>1, <2>2, Unchanged, TypeFollows DEF TypeOK
<1>g. ASSUME NEW c \in Client, Crash(c) PROVE TypeOK'
  <2>1. UNCHANGED <<doc, chain, rows>> /\ slipped' \in BOOLEAN
    BY <1>g DEF Crash, TypeOK
  <2>2. Goes(c) /\ TaskOK(c)'
    BY <1>g, CrashType DEF TaskOK
  <2> QED
    BY <2>1, <2>2, Unchanged, TypeFollows DEF TypeOK
<1>h. ASSUME NEW c \in Client, Approve(c) \/ Reject(c) PROVE TypeOK'
  <2>1. UNCHANGED <<chain, rows, slipped>>
        /\ doc' \in {"pending", "approved", "rejected", "cancelled"}
    BY <1>h DEF Approve, Reject, Decided, TypeOK
  <2>2. Goes(c) /\ TaskOK(c)'
    BY <1>h, EndType, GotoType DEF Approve, Reject, TaskOK
  <2> QED
    BY <2>1, <2>2, Unchanged, TypeFollows DEF TypeOK
<1>i. ASSUME NEW c \in Client, Refuse(c) PROVE TypeOK'
  <2>1. UNCHANGED <<chain, rows, slipped>>
        /\ doc' \in {"pending", "approved", "rejected", "cancelled"}
    BY <1>i DEF Refuse, Decided, TypeOK
  <2>2. Goes(c) /\ TaskOK(c)'
    BY <1>i, <2>1, RefuseType DEF TaskOK, TypeOK
  <2> QED
    BY <2>1, <2>2, Unchanged, TypeFollows DEF TypeOK
<1>j. ASSUME Initiate PROVE TypeOK'
  <2>1. First \in 1 .. Last
    BY ApprovalAssumption DEF First
  <2>2. RowsKept
    BY <1>j, <2>1, Appended DEF Initiate
  <2>3. DOMAIN rows \subseteq DOMAIN rows'
    BY <2>2 DEF RowsKept, TypeOK
  <2> QED
    BY <1>j, <2>2, <2>3 DEF Initiate, TypeOK, RowsKept
<1>k. ASSUME CancelRows PROVE TypeOK'
  <2>1. RowsKept
    BY <1>k, CancelledRows
  <2>2. DOMAIN rows \subseteq DOMAIN rows'
    BY <2>1 DEF RowsKept, TypeOK
  <2> QED
    BY <1>k, <2>1, <2>2 DEF CancelRows, TypeOK, RowsKept
<1>l. ASSUME NoChain \/ CancelLoan \/ UNCHANGED vars PROVE TypeOK'
  BY <1>l DEF NoChain, CancelLoan, vars, TypeOK
<1> QED
  BY <1>a, <1>b, <1>c, <1>d, <1>e, <1>f, <1>g, <1>h, <1>i, <1>j, <1>k, <1>l
     DEF Next, Proceed

-----------------------------------------------------------------------------
(* Lemmas on the parts of the invariant.                                   *)
LEMMA OrderKept ==
    ASSUME TypeOK, NoStepSkipped, RowsKept, Len(rows') = Len(rows)
    PROVE  NoStepSkipped'
<1>1. DOMAIN rows' = DOMAIN rows /\ \A i \in DOMAIN rows : rows'[i].step = rows[i].step
  BY DEF TypeOK, RowsKept
<1>2. ASSUME NEW i \in DOMAIN rows, NEW n \in 1 .. rows[i].step - 1
      PROVE  \E j \in 1 .. i - 1 : rows'[j].step = n /\ rows'[j].st # "pending"
  <2>1. PICK j \in 1 .. i - 1 : rows[j].step = n /\ rows[j].st # "pending"
    BY <1>2 DEF NoStepSkipped
  <2>2. j \in DOMAIN rows
    BY <2>1, <1>2 DEF TypeOK
  <2> QED
    BY <2>1, <2>2 DEF RowsKept
<1> QED
  BY <1>1, <1>2 DEF NoStepSkipped

LEMMA HandsKept ==
    ASSUME TypeOK, InHand, RowsKept, NEW c \in Client, Goes(c),
           InGap(c)' => /\ rows'[task'[c].row].st # "pending"
                        /\ rows'[task'[c].row].step < Last
    PROVE  InHand'
<1>1. ASSUME NEW d \in Client, d # c, InGap(d)'
      PROVE  rows'[task'[d].row].st # "pending" /\ rows'[task'[d].row].step < Last
  <2>1. task'[d] = task[d] /\ InGap(d)
    BY <1>1 DEF Goes, InGap
  <2>2. task[d].row \in DOMAIN rows
    BY <2>1 DEF TypeOK, InGap
  <2> QED
    BY <2>1, <2>2 DEF InHand, RowsKept
<1> QED
  BY <1>1 DEF InHand

(* Whoever holds a row has a chain.                                        *)
LEMMA HolderHasChain ==
    ASSUME TypeOK, Before, NEW i \in DOMAIN rows
    PROVE  chain = "started"
<1>1. rows # <<>>
  BY DEF TypeOK
<1> QED
  BY <1>1 DEF Before

(* An action of one handler that leaves rows and chain alone.              *)
LEMMA Quiet ==
    ASSUME ChainInv, NEW c \in Client, Goes(c), UNCHANGED <<chain, rows>>,
           InGap(c)' => InGap(c) /\ task'[c].row = task[c].row,
           doc' \in {"pending", "approved"} => doc \in {"pending", "approved"},
           doc' = "approved" => doc = "approved" \/ Past(c),
           ~slipped' => ~slipped /\ (Past(c)' => Past(c)) /\ (InGap(c) => InGap(c)')
    PROVE  NoStepSkipped' /\ InHand' /\ Before' /\ Clean' /\ Alive' /\ Done'
<1>1. RowsKept /\ TypeOK
  BY Unchanged DEF ChainInv
<1>2. NoStepSkipped'
  BY DEF ChainInv, NoStepSkipped
<1>3. InHand'
  BY <1>1, HandsKept DEF ChainInv, InHand
<1>4. ~slipped' => \A d \in Client : (Past(d)' => Past(d)) /\ (InGap(d) => InGap(d)')
  BY DEF Goes, Past, InGap
<1>5. Straight' => Straight
  BY DEF Straight
<1>6. Before'
  BY <1>4 DEF ChainInv, Before
<1>7. Clean'
  BY <1>5 DEF ChainInv, Clean
<1>8. LastApproved' = LastApproved /\ Waiting' = Waiting
  BY DEF LastApproved, Waiting
<1>9. Alive'
  BY <1>4, <1>5, <1>8 DEF ChainInv, Alive, Straight
<1>10. Done'
  BY <1>4, <1>5, <1>8 DEF ChainInv, Done, Straight
<1> QED
  BY <1>2, <1>3, <1>6, <1>7, <1>9, <1>10

-----------------------------------------------------------------------------
(* The invariant, action by action.                                        *)
LEMMA BeginStep ==
    ASSUME ChainInv, NEW c \in Client, Begin(c)
    PROVE  NoStepSkipped' /\ InHand' /\ Before' /\ Clean' /\ Alive' /\ Done'
<1>1. PICK pc \in {"lookup", "decide"}, call \in {"approve", "advance", "reject"},
           owes \in BOOLEAN :
        Start(c, pc, call, owes) /\ (pc = "decide" => call = "reject")
  BY Zenon DEF Begin, BeginRoute, BeginInbox, BeginCron
<1>2. TypeOK
  BY DEF ChainInv
<1>3. Goes(c) /\ task'[c].pc = pc /\ task'[c].call = call
  BY <1>1, <1>2, StartType, Zenon
<1>4. UNCHANGED <<doc, chain, rows, slipped>> /\ ~InGap(c)
  BY <1>1 DEF Start, InGap, Idle
<1>5. ~InGap(c)' /\ ~Past(c)'
  BY <1>1, <1>3 DEF InGap, Past
<1> QED
  BY <1>3, <1>4, <1>5, Quiet

LEMMA LookUpStep ==
    ASSUME ChainInv, NEW c \in Client, LookUp(c)
    PROVE  NoStepSkipped' /\ InHand' /\ Before' /\ Clean' /\ Alive' /\ Done'
<1>1. TypeOK /\ Goes(c) /\ UNCHANGED <<doc, chain, rows>> /\ ~InGap(c) /\ ~Past(c)
  BY LookUpType DEF ChainInv, LookUp, InGap, Past
<1>2. CASE Waiting # {}
  <2>1. task'[c].pc = "mark" /\ slipped' = slipped
    BY <1>1, <1>2, LookUpType
  <2>2. ~InGap(c)' /\ ~Past(c)'
    BY <2>1 DEF InGap, Past
  <2> QED
    BY <1>1, <2>1, <2>2, Quiet
<1>3. CASE Waiting = {}
  <2>1. /\ task'[c].pc \in {"decide", "idle", "wait"}
        /\ slipped' = (slipped \/ chain = "coming" \/ \E d \in Client : InGap(d))
    BY <1>1, <1>3, LookUpType
  <2>2. ~InGap(c)' /\ RowsKept /\ Len(rows') = Len(rows)
    BY <1>1, <2>1, Unchanged DEF InGap
  <2>3. NoStepSkipped' /\ InHand'
    BY <1>1, <2>2, OrderKept, HandsKept DEF ChainInv
  <2>4. Before'
    BY <1>1, <2>1 DEF ChainInv, Before
  <2>5. Clean'
    BY <1>1, <2>1 DEF ChainInv, Clean, Straight
  <2>6. Straight' /\ chain' = "started" => LastApproved'
    BY <1>1, <1>3, <2>1 DEF ChainInv, Alive, Straight, LastApproved
  <2> QED
    BY <2>3, <2>4, <2>5, <2>6 DEF Alive, Done
<1> QED
  BY <1>2, <1>3

LEMMA MarkApprovedStep ==
    ASSUME ChainInv, NEW c \in Client, MarkApproved(c)
    PROVE  NoStepSkipped' /\ InHand' /\ Before' /\ Clean' /\ Alive' /\ Done'
<1> DEFINE i == task[c].row
<1>1. /\ TypeOK /\ i \in DOMAIN rows /\ rows' = [rows EXCEPT ![i].st = "approved"]
      /\ UNCHANGED <<doc, chain, slipped>>
  BY DEF ChainInv, MarkApproved, TypeOK
<1>2. chain = "started"
  BY <1>1, HolderHasChain DEF ChainInv
<1>3. /\ RowsKept /\ Len(rows') = Len(rows) /\ rows'[i].st = "approved"
      /\ \A j \in DOMAIN rows : j # i => rows'[j] = rows[j]
  BY <1>1, MarkedAs DEF Decision
<1>4. DOMAIN rows' = DOMAIN rows /\ rows'[i].step = rows[i].step /\ rows[i] \in Row
  <2>1. rows \in Seq(Row) /\ rows' \in Seq(Row)
    BY <1>1, <1>3 DEF RowsKept, TypeOK
  <2>2. DOMAIN rows' = DOMAIN rows
    BY <1>3, <2>1
  <2>3. rows[i] \in Row
    BY <1>1, <2>1
  <2>4. rows'[i].step = rows[i].step
    BY <1>1, <1>3 DEF RowsKept
  <2> QED
    BY <2>2, <2>3, <2>4
<1>5. Goes(c)
  BY <1>1, GotoType, ApprovedType DEF MarkApproved
<1>6. CASE rows[i].step = Last
  <2>1. task'[c].pc \in {"decide", "idle", "wait"}
    BY <1>1, <1>6, ApprovedType DEF MarkApproved, IsLast
  <2>2. InHand'
    BY <1>1, <1>3, <1>5, <2>1, HandsKept DEF ChainInv, InGap
  <2>3. LastApproved'
    BY <1>1, <1>3, <1>4, <1>6 DEF LastApproved
  <2> QED
    <3>1. NoStepSkipped'
      BY <1>1, <1>3, OrderKept DEF ChainInv
    <3>2. Before'
      BY <1>1, <1>2 DEF Before
    <3>3. Clean'
      BY <1>1, <1>3, <1>4 DEF ChainInv, Clean, Straight
    <3> QED
      BY <2>2, <2>3, <3>1, <3>2, <3>3 DEF Alive, Done
<1>7. CASE rows[i].step # Last
  <2>1. task'[c].pc = "insert" /\ task'[c].row = i
    BY <1>1, <1>7, GotoType DEF MarkApproved, IsLast
  <2>2. rows'[i].step < Last
    BY <1>4, <1>7, ApprovalAssumption DEF Row
  <2>3. InHand'
    BY <1>1, <1>3, <1>5, <2>1, <2>2, HandsKept DEF ChainInv
  <2>4. NoStepSkipped'
    BY <1>1, <1>3, OrderKept DEF ChainInv
  <2>5. Before'
    BY <1>1, <1>2 DEF Before
  <2>6. Clean'
    BY <1>1, <1>3, <1>4 DEF ChainInv, Clean, Straight
  <2>7. Alive'
    BY <2>1 DEF Alive, InGap
  <2>8. LastApproved => LastApproved'
    BY <1>3, <1>4, <1>7 DEF LastApproved
  <2>9. \A d \in Client : Past(d)' => Past(d)
    BY <1>5, <2>1 DEF Goes, Past
  <2> QED
    <3>1. Done'
      BY <1>1, <2>8, <2>9 DEF ChainInv, Done, Straight
    <3> QED
      BY <2>3, <2>4, <2>5, <2>6, <2>7, <3>1
<1> QED
  BY <1>6, <1>7

LEMMA MarkRejectedStep ==
    ASSUME ChainInv, NEW c \in Client, MarkRejected(c)
    PROVE  NoStepSkipped' /\ InHand' /\ Before' /\ Clean' /\ Alive' /\ Done'
<1>1. TypeOK /\ task[c].row \in DOMAIN rows /\ UNCHANGED <<doc, chain>>
  BY DEF ChainInv, MarkRejected, TypeOK
<1>2. chain = "started"
  BY <1>1, HolderHasChain DEF ChainInv
<1>3. RowsKept /\ Len(rows') = Len(rows)
  BY <1>1, MarkedAs DEF MarkRejected, Decision
<1>4. Goes(c) /\ ~InGap(c)'
  BY <1>1, EndType DEF MarkRejected, InGap
<1>5. NoStepSkipped' /\ InHand'
  BY <1>1, <1>3, <1>4, OrderKept, HandsKept DEF ChainInv
<1>6. ~Straight'
  BY <1>1 DEF MarkRejected, Straight
<1>7. Before'
  BY <1>1, <1>2 DEF Before
<1> QED
  BY <1>5, <1>6, <1>7 DEF Clean, Alive, Done

LEMMA InsertStep ==
    ASSUME ChainInv, NEW c \in Client, InsertNext(c) \/ AnswerLost(c)
    PROVE  NoStepSkipped' /\ InHand' /\ Before' /\ Clean' /\ Alive' /\ Done'
<1> DEFINE i == task[c].row
           n == rows[i].step + 1
<1>1. TypeOK /\ InGap(c) /\ i \in DOMAIN rows /\ rows' = Append(rows, Asked(n))
      /\ UNCHANGED <<doc, chain>>
  BY DEF ChainInv, InsertNext, AnswerLost, NextAsked, TypeOK, InGap
<1>2. chain = "started"
  BY <1>1, HolderHasChain DEF ChainInv
<1>3. rows[i].st # "pending" /\ rows[i].step \in 1 .. Last /\ n \in 1 .. Last
  <2>1. rows[i].st # "pending" /\ rows[i].step < Last
    BY <1>1 DEF ChainInv, InHand
  <2>2. rows[i] \in Row
    BY <1>1 DEF TypeOK
  <2> QED
    BY <2>1, <2>2, ApprovalAssumption DEF Row
<1>4. Goes(c) /\ ~InGap(c)' /\ (Past(c)' => slipped')
  <2>1. CASE InsertNext(c)
    BY <2>1, <1>1, EndType DEF InsertNext, InGap, Past
  <2>2. CASE AnswerLost(c)
    <3>1. Goes(c) /\ task'[c].pc \in {"decide", "idle", "wait"}
      BY <2>2, <1>1, ApprovedType DEF AnswerLost
    <3>2. task[c].call # "approve" => task'[c].pc \in {"idle", "wait"}
      BY <2>2, <1>1, EndType DEF AnswerLost, Approved
    <3> QED
      BY <2>2, <3>1, <3>2 DEF AnswerLost, InGap, Past
  <2> QED
    BY <2>1, <2>2
<1>5. /\ RowsKept /\ Len(rows') = Len(rows) + 1
      /\ rows'[Len(rows) + 1] = Asked(n)
      /\ \A j \in DOMAIN rows : rows'[j] = rows[j]
  BY <1>1, <1>3, Appended
<1>6. DOMAIN rows = 1 .. Len(rows) /\ Len(rows) \in Nat
      /\ DOMAIN rows' = 1 .. Len(rows) + 1
  BY <1>1, <1>5 DEF TypeOK, RowsKept
<1>7. NoStepSkipped'
  <2>1. ASSUME NEW k \in DOMAIN rows, NEW s \in 1 .. rows[k].step - 1
        PROVE  \E j \in 1 .. k - 1 : rows'[j].step = s /\ rows'[j].st # "pending"
    <3>1. PICK j \in 1 .. k - 1 : rows[j].step = s /\ rows[j].st # "pending"
      BY <2>1 DEF ChainInv, NoStepSkipped
    <3> QED
      BY <1>5, <1>6, <3>1
  <2>2. ASSUME NEW s \in 1 .. n - 1
        PROVE  \E j \in 1 .. Len(rows) : rows'[j].step = s /\ rows'[j].st # "pending"
    <3>1. CASE s = rows[i].step
      BY <1>1, <1>3, <1>5, <1>6, <3>1
    <3>2. CASE s # rows[i].step
      <4>1. s \in 1 .. rows[i].step - 1
        BY <1>3, <2>2, <3>2
      <4>2. PICK j \in 1 .. i - 1 : rows'[j].step = s /\ rows'[j].st # "pending"
        BY <1>1, <2>1, <4>1
      <4> QED
        BY <1>1, <1>6, <4>2
    <3> QED
      BY <3>1, <3>2
  <2>3. rows'[Len(rows) + 1].step = n
    BY <1>5 DEF Asked
  <2>4. ASSUME NEW k \in DOMAIN rows', NEW s \in 1 .. rows'[k].step - 1
        PROVE  \E j \in 1 .. k - 1 : rows'[j].step = s /\ rows'[j].st # "pending"
    <3>1. CASE k \in DOMAIN rows
      BY <1>5, <2>1, <2>4, <3>1
    <3>2. CASE k = Len(rows) + 1
      BY <1>6, <2>2, <2>3, <2>4, <3>2
    <3> QED
      BY <1>6, <3>1, <3>2
  <2> QED
    BY <2>4 DEF NoStepSkipped
<1>8. InHand'
  BY <1>1, <1>4, <1>5, HandsKept DEF ChainInv
<1>9. Before'
  BY <1>1, <1>2 DEF Before
<1>10. Straight' => Straight
  BY <1>1 DEF Straight, InsertNext, AnswerLost
<1>11. Clean'
  BY <1>5, <1>6, <1>10 DEF ChainInv, Clean, Asked
<1>12. Waiting' # {}
  BY <1>5, <1>6 DEF Waiting, Asked
<1>13. LastApproved => LastApproved'
  BY <1>5, <1>6 DEF LastApproved
<1>14. Straight' => \A d \in Client : Past(d)' => Past(d)
  BY <1>4 DEF Goes, Past, Straight
<1>15. Done'
  BY <1>1, <1>10, <1>13, <1>14 DEF ChainInv, Done
<1> QED
  BY <1>7, <1>8, <1>9, <1>11, <1>12, <1>15 DEF Alive

LEMMA FailStep ==
    ASSUME ChainInv, NEW c \in Client, Fail(c)
    PROVE  NoStepSkipped' /\ InHand' /\ Before' /\ Clean' /\ Alive' /\ Done'
<1>1. TypeOK /\ UNCHANGED <<doc, chain, rows>>
      /\ slipped' = (slipped \/ InGap(c) \/ task[c].call = "approve")
  BY DEF ChainInv, Fail
<1>2. Goes(c) /\ ~InGap(c)'
  BY <1>1, ApprovedType DEF Fail, InGap
<1>3. task[c].call # "approve" => ~Past(c)'
  BY <1>1, EndType DEF Fail, Approved, Past
<1> QED
  BY <1>1, <1>2, <1>3, Quiet

LEMMA CrashStep ==
    ASSUME ChainInv, NEW c \in Client, Crash(c)
    PROVE  NoStepSkipped' /\ InHand' /\ Before' /\ Clean' /\ Alive' /\ Done'
<1>1. UNCHANGED <<doc, chain, rows>> /\ slipped' = (slipped \/ InGap(c))
  BY DEF Crash
<1>2. Goes(c) /\ ~InGap(c)' /\ ~Past(c)'
  BY CrashType DEF ChainInv, InGap, Past
<1> QED
  BY <1>1, <1>2, Quiet

LEMMA DecideStep ==
    ASSUME ChainInv, NEW c \in Client, Approve(c) \/ Reject(c) \/ Refuse(c)
    PROVE  NoStepSkipped' /\ InHand' /\ Before' /\ Clean' /\ Alive' /\ Done'
<1>1. TypeOK /\ UNCHANGED <<chain, rows, slipped>>
  BY DEF ChainInv, Approve, Reject, Refuse
<1>2. CASE Approve(c)
  <2>1. Goes(c) /\ ~InGap(c)' /\ ~Past(c)' /\ Past(c) /\ ~InGap(c)
    BY <1>1, <1>2, EndType DEF Approve, InGap, Past
  <2>2. doc' = doc \/ doc = "pending"
    BY <1>2 DEF Approve, Decided
  <2> QED
    BY <1>1, <2>1, <2>2, Quiet
<1>3. CASE Reject(c)
  <2>1. Goes(c) /\ ~InGap(c)' /\ ~Past(c)' /\ ~InGap(c)
    BY <1>1, <1>3, EndType, GotoType DEF Reject, InGap, Past
  <2>2. doc' = doc \/ doc' = "rejected"
    BY <1>3 DEF Reject, Decided
  <2> QED
    BY <1>1, <2>1, <2>2, Quiet
<1>4. CASE Refuse(c)
  <2>1. Goes(c) /\ (Past(c)' => Past(c))
        /\ (InGap(c)' => InGap(c) /\ task'[c].row = task[c].row)
        /\ (InGap(c) => InGap(c)')
    <3>1. task'[c] = IF task[c].pc = "wait" THEN Idle ELSE [task[c] EXCEPT !.owes = FALSE]
      BY <1>1, <1>4 DEF Refuse, TypeOK
    <3>2. task[c] \in Task
      BY <1>1 DEF TypeOK, Task
    <3> QED
      BY <1>1, <1>4, <3>1, <3>2, RefuseType DEF InGap, Past, Task, Idle
  <2>2. doc' = doc \/ doc' = "rejected"
    BY <1>4 DEF Refuse, Decided
  <2> QED
    BY <1>1, <2>1, <2>2, Quiet
<1> QED
  BY <1>2, <1>3, <1>4

LEMMA InitiateStep ==
    ASSUME ChainInv, Initiate
    PROVE  NoStepSkipped' /\ InHand' /\ Before' /\ Clean' /\ Alive' /\ Done'
<1>1. /\ TypeOK /\ chain = "coming" /\ chain' = "started" /\ UNCHANGED <<doc, task, slipped>>
      /\ rows = <<>> /\ rows' = Append(rows, Asked(1))
  BY DEF ChainInv, Before, Initiate, First
<1>2. rows' = <<Asked(1)>> /\ DOMAIN rows' = {1} /\ rows'[1] = Asked(1)
  BY <1>1
<1>3. NoStepSkipped'
  BY <1>2 DEF NoStepSkipped, Asked
<1>4. \A c \in Client : ~InGap(c)
  BY <1>1 DEF TypeOK, InGap
<1>5. InHand' /\ Before'
  BY <1>1, <1>4 DEF InHand, Before, InGap
<1>6. Clean' /\ Waiting' # {}
  BY <1>2 DEF Clean, Waiting, Asked
<1>7. ~slipped => doc # "approved" /\ \A c \in Client : ~Past(c)
  BY <1>1 DEF ChainInv, Before
<1> QED
  BY <1>1, <1>3, <1>5, <1>6, <1>7 DEF Alive, Done, Straight, Past

LEMMA CancelRowsStep ==
    ASSUME ChainInv, CancelRows
    PROVE  NoStepSkipped' /\ InHand' /\ Before' /\ Clean' /\ Alive' /\ Done'
<1>1. TypeOK /\ UNCHANGED <<doc, chain, task>> /\ slipped' = TRUE /\ Waiting # {}
  BY DEF ChainInv, CancelRows
<1>2. chain = "started"
  BY <1>1, HolderHasChain DEF ChainInv, Waiting
<1>3. RowsKept
  BY <1>1, CancelledRows
<1>4. Len(rows') = Len(rows)
  <2>1. DOMAIN rows' = DOMAIN rows
    BY DEF CancelRows
  <2> QED
    BY <1>1, <1>3, <2>1 DEF RowsKept, TypeOK
<1>5. NoStepSkipped'
  BY <1>1, <1>3, <1>4, OrderKept DEF ChainInv
<1>6. InHand'
  BY <1>1, <1>3 DEF ChainInv, InHand, TypeOK, InGap, RowsKept
<1> QED
  BY <1>1, <1>2, <1>5, <1>6 DEF Before, Clean, Alive, Done, Straight

LEMMA OtherStep ==
    ASSUME ChainInv, NoChain \/ CancelLoan \/ UNCHANGED vars
    PROVE  NoStepSkipped' /\ InHand' /\ Before' /\ Clean' /\ Alive' /\ Done'
<1>1. UNCHANGED <<rows, task, slipped>>
  BY DEF NoChain, CancelLoan, vars
<1>2. NoStepSkipped' /\ InHand'
  BY <1>1 DEF ChainInv, NoStepSkipped, InHand, InGap
<1>3. CASE NoChain
  BY <1>1, <1>3 DEF NoChain, ChainInv, Before, Clean, Alive, Done, Straight, NoStepSkipped,
                    InHand, InGap, Past
<1>4. CASE CancelLoan
  BY <1>1, <1>2, <1>4 DEF CancelLoan, ChainInv, Before, Clean, Alive, Done, Straight, Past
<1>5. CASE UNCHANGED vars
  BY <1>2, <1>5 DEF vars, ChainInv, Before, Clean, Alive, Done, Straight, Past, InGap,
                    Waiting, LastApproved
<1> QED
  BY <1>3, <1>4, <1>5

-----------------------------------------------------------------------------
LEMMA InvInit == Init => ChainInv
<1> SUFFICES ASSUME Init PROVE ChainInv
  OBVIOUS
<1>1. TypeOK
  BY InitType
<1>2. rows = <<>> /\ DOMAIN rows = {} /\ chain = "coming" /\ doc = "pending"
      /\ \A c \in Client : task[c].pc = "idle"
  BY DEF Init, Idle
<1> QED
  BY <1>1, <1>2 DEF ChainInv, NoStepSkipped, InHand, Before, Clean, Alive, Done, InGap, Past

LEMMA InvNext ==
    ASSUME ChainInv, [Next]_vars
    PROVE  ChainInv'
<1>1. TypeOK'
  BY TypeStep DEF ChainInv
<1>2. NoStepSkipped' /\ InHand' /\ Before' /\ Clean' /\ Alive' /\ Done'
  BY BeginStep, LookUpStep, MarkApprovedStep, MarkRejectedStep, InsertStep, FailStep, CrashStep,
     DecideStep, InitiateStep, CancelRowsStep, OtherStep
     DEF Next, Proceed
<1> QED
  BY <1>1, <1>2 DEF ChainInv

THEOREM Invariance == Spec => []ChainInv
BY InvInit, InvNext, PTL DEF Spec

(* Handlers, rows and documents keep their types, and the row that a       *)
(* handler has looked up exists when it is marked.                         *)
THEOREM ApprovalTypeCorrect == Spec => []TypeOK
<1>1. ChainInv => TypeOK
  BY DEF ChainInv
<1> QED
  BY <1>1, Invariance, PTL

(* No step of a chain is skipped: nobody is asked for a step before a row  *)
(* of each earlier step was decided, whoever overlaps, fails or dies in    *)
(* processApprovalStep.                                                    *)
THEOREM StepsInOrder == Spec => []NoStepSkipped
<1>1. ChainInv => NoStepSkipped
  BY DEF ChainInv
<1> QED
  BY <1>1, Invariance, PTL

(* A document is approved after the whole chain unless one of the listed   *)
(* ways round it was taken: there is no other.                             *)
THEOREM NoOtherWayRound == Spec => []WholeChain
<1>1. ChainInv => WholeChain
  <2> SUFFICES ASSUME ChainInv, doc = "approved", chain = "started", ~slipped,
                      NEW n \in 1 .. Last
               PROVE  \E i \in DOMAIN rows : rows[i].step = n /\ rows[i].st = "approved"
    BY DEF WholeChain
  <2>1. Straight
    BY DEF Straight
  <2>2. PICK l \in DOMAIN rows : rows[l].step = Last /\ rows[l].st = "approved"
    BY <2>1 DEF ChainInv, Done, LastApproved
  <2>3. CASE n = Last
    BY <2>2, <2>3
  <2>4. CASE n # Last
    <3>1. n \in 1 .. rows[l].step - 1
      BY <2>2, <2>4, ApprovalAssumption
    <3>2. PICK i \in 1 .. l - 1 : rows[i].step = n /\ rows[i].st # "pending"
      BY <2>2, <3>1 DEF ChainInv, NoStepSkipped
    <3>3. i \in DOMAIN rows
      BY <2>2, <3>2 DEF ChainInv, TypeOK
    <3> QED
      BY <2>1, <3>2, <3>3 DEF ChainInv, Clean
  <2> QED
    BY <2>3, <2>4
<1> QED
  BY <1>1, Invariance, PTL
=============================================================================
