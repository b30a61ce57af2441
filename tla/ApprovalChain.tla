--------------------------- MODULE ApprovalChain ---------------------------
(***************************************************************************)
(* One document of the HR routes (a loan, an overtime or an exit request)  *)
(* and its approval chain: rows of approval_requests, one for each step    *)
(* that somebody has been asked to decide.                                 *)
(*                                                                         *)
(* processApprovalStep runs outside any transaction: it looks up the       *)
(* latest pending row, marks it by id and inserts the row of the next step *)
(* in three statements.  It is called by the document's own routes, by the *)
(* inbox of approvals and by the hourly job, and all of them may overlap.  *)
(* It answers "approved" after the last step, and also when it finds no    *)
(* pending row; the routes take a failure of it for "approved" as well.    *)
(*                                                                         *)
(* Documents share nothing, so one is enough.  Who may decide is left out, *)
(* and so are workflow definitions, which no company has unless it makes   *)
(* them itself.  "slipped" is no state of the program: it records that one *)
(* of the known ways round the chain was taken, for WholeChain to ask      *)
(* whether there are others.                                               *)
(***************************************************************************)
EXTENDS Integers, Sequences

CONSTANTS
    Staff,    \* clients of the document's routes
    Clerk,    \* clients of the inbox
    Worker,   \* runs of the hourly job, one expired row of each at a time
    Last,     \* the last step of the chain
    Automatic, \* the steps with autoApproveOnTimeout
    IsLoan    \* the document is a loan

ASSUME ApprovalAssumption ==
    /\ Last \in Nat \ {0} /\ Automatic \subseteq 1 .. Last
    /\ IsLoan \in BOOLEAN

VARIABLES
    doc,      \* status of the document ("approved": active, for a loan)
    chain,    \* whether the chain has been initiated
    rows,     \* approval_requests of the document, in order of createdAt
    task,     \* where each handler is
    slipped

vars == <<doc, chain, rows, task, slipped>>

Client == Staff \cup Clerk \cup Worker
Idle == [pc |-> "idle", call |-> "none", row |-> 0, owes |-> FALSE]

Asked(n) == [step |-> n, st |-> "pending"]
Waiting == {i \in DOMAIN rows : rows[i].st = "pending"}
Latest(i) == i \in Waiting /\ \A j \in Waiting : j <= i

Init ==
    /\ doc = "pending" /\ chain = "coming" /\ rows = <<>>
    /\ task = [c \in Client |-> Idle]
    /\ slipped = FALSE

Start(c, pc, call, owes) ==
    /\ task[c] = Idle
    /\ task' = [task EXCEPT ![c] = [pc |-> pc, call |-> call, row |-> 0, owes |-> owes]]
    /\ UNCHANGED <<doc, chain, rows, slipped>>

Goto(c, pc) == task' = [task EXCEPT ![c].pc = pc]

(* The call of processApprovalStep is over; PATCH /reject, which does not  *)
(* wait for it, may still have the document to update.                     *)
End(c) == task' = [task EXCEPT ![c] = IF @.owes THEN [@ EXCEPT !.pc = "wait", !.row = 0] ELSE Idle]

(* The answer "approved", which only the approving route acts upon.        *)
Approved(c) ==
    IF task[c].call = "approve"
    THEN task' = [task EXCEPT ![c].pc = "decide", ![c].row = 0]
    ELSE End(c)

-----------------------------------------------------------------------------
(* The document is there; the first row follows in a statement of its own, *)
(* or not at all: no chain is configured, or the call fails and is logged. *)
FirstOfReversed == Last
First == 1

Initiate ==
    /\ chain = "coming"
    /\ chain' = "started" /\ rows' = Append(rows, Asked(First))
    /\ UNCHANGED <<doc, task, slipped>>

NoChain ==
    /\ chain = "coming"
    /\ chain' = "none"
    /\ UNCHANGED <<doc, rows, task, slipped>>

-----------------------------------------------------------------------------
(* PATCH /approve with approved true or false, and PATCH /reject, whose    *)
(* call runs beside the update of the document it owes.                    *)
BeginRoute(c) ==
    /\ c \in Staff /\ doc = "pending"
    /\ \/ Start(c, "lookup", "approve", FALSE)
       \/ Start(c, "decide", "reject", FALSE)
       \/ Start(c, "lookup", "reject", TRUE)

(* The inbox, which leaves these documents alone.                          *)
BeginInbox(c) ==
    /\ c \in Clerk /\ Waiting # {}
    /\ Start(c, "lookup", "advance", FALSE) \/ Start(c, "lookup", "reject", FALSE)

(* The hourly job, which leaves them alone too, found the row expired.     *)
ExpiredAtFirst(i) == rows[i].step \in Automatic /\ rows[i].step = 1
Expired(i) == rows[i].step \in Automatic

BeginCron(c) ==
    /\ c \in Worker
    /\ \E i \in Waiting : Expired(i)
    /\ Start(c, "lookup", "advance", FALSE)

-----------------------------------------------------------------------------
(* processApprovalStep, statement by statement.                            *)
InGap(c) == task[c].pc = "insert"

LookUp(c) ==
    /\ task[c].pc = "lookup"
    /\ IF Waiting # {}
          THEN /\ \E i \in DOMAIN rows :
                     Latest(i) /\ task' = [task EXCEPT ![c].pc = "mark", ![c].row = i]
               /\ UNCHANGED slipped
          ELSE /\ Approved(c)
               /\ slipped' = (slipped \/ chain = "coming" \/ \E d \in Client : InGap(d))
    /\ UNCHANGED <<doc, chain, rows>>

IsLastEarly(n) == n >= Last - 1
IsLastLate(n) == n > Last
IsLast(n) == n = Last

MarkApproved(c) ==
    LET i == task[c].row
    IN /\ task[c].pc = "mark" /\ task[c].call # "reject"
       /\ rows' = [rows EXCEPT ![i].st = "approved"]
       /\ IF IsLast(rows[i].step) THEN Approved(c) ELSE Goto(c, "insert")
       /\ UNCHANGED <<doc, chain, slipped>>

MarkRejected(c) ==
    /\ task[c].pc = "mark" /\ task[c].call = "reject"
    /\ rows' = [rows EXCEPT ![task[c].row].st = "rejected"]
    /\ End(c)
    /\ slipped' = (slipped \/ doc \in {"pending", "approved"})
    /\ UNCHANGED <<doc, chain>>

NextAsked(c) == Append(rows, Asked(rows[task[c].row].step + 1))

InsertNext(c) ==
    /\ InGap(c)
    /\ rows' = NextAsked(c)
    /\ End(c)
    /\ UNCHANGED <<doc, chain, slipped>>

(* A statement fails, before or after it took effect: PATCH /approve goes  *)
(* on as if approved.  A mark that took effect ends in the gap.            *)
Fail(c) ==
    /\ task[c].pc \in {"lookup", "mark", "insert"}
    /\ Approved(c)
    /\ slipped' = (slipped \/ InGap(c) \/ task[c].call = "approve")
    /\ UNCHANGED <<doc, chain, rows>>

AnswerLost(c) ==
    /\ InGap(c)
    /\ rows' = NextAsked(c)
    /\ Approved(c)
    /\ slipped' = (slipped \/ task[c].call = "approve")
    /\ UNCHANGED <<doc, chain>>

(* The process dies, or the update of the document fails.                  *)
Crash(c) ==
    /\ task[c] # Idle
    /\ task' = [task EXCEPT ![c] = Idle]
    /\ slipped' = (slipped \/ InGap(c))
    /\ UNCHANGED <<doc, chain, rows>>

-----------------------------------------------------------------------------
(* The document's own update is guarded by its status.                     *)
Decided(outcome) == doc' = IF doc = "pending" THEN outcome ELSE doc

Approve(c) ==
    /\ task[c].pc = "decide" /\ task[c].call = "approve"
    /\ Decided("approved")
    /\ End(c)
    /\ UNCHANGED <<chain, rows, slipped>>

Reject(c) ==
    /\ task[c].pc = "decide" /\ task[c].call = "reject"
    /\ Decided("rejected")
    /\ IF doc = "pending" THEN Goto(c, "lookup") ELSE End(c)
    /\ UNCHANGED <<chain, rows, slipped>>

(* PATCH /reject updates the document while its chain call is under way.   *)
Refuse(c) ==
    /\ task[c].owes
    /\ Decided("rejected")
    /\ task' = [task EXCEPT ![c] = IF @.pc = "wait" THEN Idle ELSE [@ EXCEPT !.owes = FALSE]]
    /\ UNCHANGED <<chain, rows, slipped>>

-----------------------------------------------------------------------------
(* An employee leaves: an approver's pending rows are cancelled with       *)
(* nobody asked instead, a borrower's loan is cancelled with its rows left.*)
CancelRows ==
    /\ \E S \in SUBSET Waiting :
          /\ S # {}
          /\ rows' = [i \in DOMAIN rows |->
                         IF i \in S THEN [rows[i] EXCEPT !.st = "cancelled"] ELSE rows[i]]
    /\ slipped' = TRUE
    /\ UNCHANGED <<doc, chain, task>>

CancelLoan ==
    /\ IsLoan /\ doc \in {"pending", "approved"}
    /\ doc' = "cancelled"
    /\ UNCHANGED <<chain, rows, task, slipped>>

-----------------------------------------------------------------------------
Begin(c) == BeginRoute(c) \/ BeginInbox(c) \/ BeginCron(c)

Proceed(c) ==
    \/ LookUp(c) \/ MarkApproved(c) \/ MarkRejected(c) \/ InsertNext(c)
    \/ Approve(c) \/ Reject(c) \/ Refuse(c)

Next ==
    \/ Initiate \/ NoChain
    \/ \E c \in Client : Begin(c) \/ Proceed(c) \/ Fail(c) \/ AnswerLost(c) \/ Crash(c)
    \/ CancelRows \/ CancelLoan

Spec == Init /\ [][Next]_vars

(* The job runs hour after hour.  A run goes on, fails or dies, and not    *)
(* every run fails or dies before it has looked up and marked its row.     *)
FairSpec ==
    /\ Spec
    /\ \A c \in Worker : WF_vars(Proceed(c) \/ Fail(c) \/ AnswerLost(c))
    /\ SF_vars(\E c \in Worker : BeginCron(c))
    /\ SF_vars(\E c \in Worker : LookUp(c))
    /\ SF_vars(\E c \in Worker : MarkApproved(c))

-----------------------------------------------------------------------------
(* The variables keep their types, and a handler that has looked up a row  *)
(* holds the id of a row that exists.                                      *)
Row == [step : 1 .. Last, st : {"pending", "approved", "rejected", "cancelled"}]

TypeOK ==
    /\ doc \in {"pending", "approved", "rejected", "cancelled"}
    /\ chain \in {"coming", "started", "none"}
    /\ rows \in Seq(Row)
    /\ task \in [Client -> [pc : {"idle", "lookup", "mark", "insert", "decide", "wait"},
                            call : {"none", "approve", "advance", "reject"},
                            row : Nat, owes : BOOLEAN]]
    /\ \A c \in Client : task[c].pc \in {"mark", "insert"} => task[c].row \in DOMAIN rows
    /\ slipped \in BOOLEAN

(* No step is skipped: somebody is asked for a step only after a row of    *)
(* each step before it was decided, whoever overlaps, fails or dies in     *)
(* processApprovalStep (businessHelpers.ts:1173-1228).                     *)
NoStepSkipped ==
    \A i \in DOMAIN rows : \A n \in 1 .. rows[i].step - 1 :
        \E j \in 1 .. i - 1 : rows[j].step = n /\ rows[j].st # "pending"

(* A document is approved after every step of its chain was, unless one of *)
(* the known ways round the chain was taken: approved before the chain is  *)
(* there, or in the gap between a mark and the row of the next step; a     *)
(* failure taken for an approval; a handler that dies or fails in the gap; *)
(* a step rejected although the document is not; an approver who left.     *)
(* Two approvers, the inbox and the job may overlap as they like           *)
(* (hr-loans.ts:533-570 and its two siblings).                             *)
WholeChain ==
    doc = "approved" /\ chain = "started" /\ ~slipped =>
        \A n \in 1 .. Last : \E i \in DOMAIN rows : rows[i].step = n /\ rows[i].st = "approved"

(* No row that the job may approve waits for ever, whatever other rows the *)
(* job finds instead and however often a run fails                         *)
(* (cronScheduler.ts:1037-1078).                                           *)
NothingWaitsForEver == []<>(\A i \in Waiting : rows[i].step \notin Automatic)
=============================================================================
