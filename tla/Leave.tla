------------------------------- MODULE Leave -------------------------------
(***************************************************************************)
(* The leave requests of one employee for one leave type and year, the     *)
(* balance row they share, their approval stages, and the generic workflow *)
(* instance that every request also gets.                                  *)
(*                                                                         *)
(* Three engines decide the same request: the staged approval of the HR    *)
(* routes, the workflow engine with its SLA sweep, and the nightly job     *)
(* that approves stages left undecided for 28 hours.  A client is one HTTP *)
(* request or one run of a job.  A transaction is one action; a handler    *)
(* without one takes an action per statement.  How long a stage has waited *)
(* is not recorded: a job may find any pending stage overdue.  An instance *)
(* may let one client run routes and jobs, never both at once.             *)
(*                                                                         *)
(* The request row and the balance row are only written under row locks or *)
(* by relative updates, so a transaction takes effect at its commit.       *)
(***************************************************************************)
EXTENDS Integers, FiniteSets, Sequences, FiniteSetsExt

CONSTANTS
    Request,   \* the requests that may be submitted
    Staff,     \* clients calling the HR and workflow routes
    Worker,    \* runs of the scheduled jobs
    Days,      \* length of each leave
    Entitled,  \* days the employee is entitled to
    Steps,     \* steps of the leave approval chain
    WfSteps,   \* steps of the workflow definition
    Routes,    \* the kinds of handler an instance exercises
    Alone,     \* the kinds that overlap no other handler of the same request
    MayCrash,  \* the kinds of handler that may die between two statements
    RowLimit,  \* bound on the stage rows of a request
    None

Decide == {"approve", "reject", "return"}
Flow == {"wfApprove", "wfReject", "wfReturn"}
Kind == Decide \cup Flow \cup {"submit", "cancel", "delete", "escalate", "terminate",
                               "cron", "close", "sla"}

ASSUME LeaveAssumption ==
    /\ IsFiniteSet(Request) /\ Days \in [Request -> Nat \ {0}]
    /\ Entitled \in Nat
    /\ Steps \in Nat \ {0} /\ Steps < 99
    /\ WfSteps \in Nat \ {0}
    /\ RowLimit \in Nat \ {0}
    /\ Routes \subseteq Kind /\ Alone \subseteq Kind /\ MayCrash \subseteq Kind
    /\ None \notin Request

VARIABLES
    status,   \* hr_leave_requests.status, "none" before the request exists
    deleted,  \* deletedAt is set
    stages,   \* rows of leave_approval_stages, in order of id
    used, reserved,  \* the row of hr_leave_balances
    wf,       \* the request's workflow instance
    pc, job   \* where each handler is, and what it has read

balance == <<used, reserved>>
vars == <<status, deleted, stages, balance, wf, pc, job>>

Client == Staff \cup Worker
Status == {"none", "pending", "approved", "rejected", "returned", "cancelled", "completed"}

(* Every reader of a stage only asks whether it is pending, and whether it *)
(* is approved: "closed" stands for rejected, returned, escalated and      *)
(* cancelled.  A workflow instance is "pending" while actions are admitted *)
(* (in_review and escalated are not told apart from it).                   *)
StageStatus == {"pending", "approved", "closed"}
Stage == [stage : Nat, status : StageStatus]
Workflow == [status : {"none", "pending", "approved", "rejected", "returned"}, step : Nat]
Phase == {"idle", "stage", "act", "final", "spawn", "balance", "stages", "finish"}
Job == [kind : Kind \cup {"none"}, req : Request \cup {None}, row : Nat,
        was : Status, step : Nat, rows : SUBSET (Request \X Nat)]

NoJob == [kind |-> "none", req |-> None, row |-> 0, was |-> "none", step |-> 0, rows |-> {}]
Handle(k, r) == [NoJob EXCEPT !.kind = k, !.req = r]

Floor(n) == IF n < 0 THEN 0 ELSE n
Held(r) == ~deleted[r] /\ status[r] = "pending"
PendingRows(r) == {i \in DOMAIN stages[r] : stages[r][i].status = "pending"}

Mark(s, i, to) == [s EXCEPT ![i] = [@ EXCEPT !.status = to]]
MarkRows(s, rows, to) ==
    [i \in 1 .. Len(s) |-> IF i \in rows THEN [s[i] EXCEPT !.status = to] ELSE s[i]]
MarkPendingDeletes(s, to) == SelectSeq(s, LAMBDA x : x.status # "pending")
MarkPending(s, to) == MarkRows(s, {i \in DOMAIN s : s[i].status = "pending"}, to)
PendingStage(n) == [stage |-> n, status |-> "pending"]

(* What the job of handler d works on, and whether a handler of kind k may *)
(* start on request r now.                                                 *)
On(d) == {job[d].req} \cup {x[1] : x \in job[d].rows}
Free(k, r) ==
    /\ k \in Routes
    /\ \A d \in Client : pc[d] \notin {"idle", "spawn"} /\ r \in On(d)
                             => {k, job[d].kind} \cap Alone = {}

(* The rows of request r stay within RowLimit.                             *)
Room(r) ==
    Len(stages[r]) + Cardinality({d \in Client : job[d].req = r
                                      /\ job[d].kind \in {"approve", "escalate"}}) < RowLimit

Begin(c, s, j) == pc' = [pc EXCEPT ![c] = s] /\ job' = [job EXCEPT ![c] = j]
Goto(c, s) == Begin(c, s, job[c])
Finish(c) == Begin(c, "idle", NoJob)

(* Days of leaves taken before these requests may already be used.         *)
Init ==
    /\ status = [r \in Request |-> "none"]
    /\ deleted = [r \in Request |-> FALSE]
    /\ stages = [r \in Request |-> <<>>]
    /\ used \in 0 .. Entitled /\ reserved = 0
    /\ wf = [r \in Request |-> [status |-> "none", step |-> 1]]
    /\ pc = [c \in Client |-> "idle"]
    /\ job = [c \in Client |-> NoJob]

-----------------------------------------------------------------------------
(* POST /leave-requests: the balance is checked and reserved under its row *)
(* lock; the workflow is submitted afterwards, and nobody waits for it.    *)
Sufficient(r) == Floor(Entitled - used - reserved) >= Days[r]

Submit(c, r) ==
    /\ c \in Staff /\ pc[c] = "idle" /\ "submit" \in Routes
    /\ status[r] = "none"
    /\ Sufficient(r)
    /\ status' = [status EXCEPT ![r] = "pending"]
    /\ stages' = [stages EXCEPT ![r] = <<PendingStage(1)>>]
    /\ reserved' = reserved + Days[r]
    /\ Begin(c, "spawn", Handle("submit", r))
    /\ UNCHANGED <<deleted, used, wf>>

(* submitWorkflow: no active definition or no assignee leaves no instance. *)
SubmitWorkflow(c) ==
    /\ pc[c] = "spawn"
    /\ \/ wf' = [wf EXCEPT ![job[c].req].status = "pending"]
       \/ UNCHANGED wf
    /\ Finish(c)
    /\ UNCHANGED <<status, deleted, stages, balance>>

-----------------------------------------------------------------------------
(* PATCH /leave-requests/:id/approve and /escalate read the request, then  *)
(* its lowest pending stage, and lock neither.                             *)
BeginDecision(c, r, k) ==
    /\ c \in Staff /\ pc[c] = "idle" /\ k \in Decide \cup {"escalate"}
    /\ Free(k, r)
    /\ Held(r)
    /\ k \in {"approve", "escalate"} => Room(r)
    /\ Begin(c, "stage", Handle(k, r))
    /\ UNCHANGED <<status, deleted, stages, balance, wf>>

(* Without a pending stage a decision goes on with none; escalation ends.  *)
ReadStage(c) ==
    LET r == job[c].req
        rows == PendingRows(r)
        lowest == {i \in rows : \A k \in rows : stages[r][i].stage <= stages[r][k].stage}
    IN
    /\ pc[c] = "stage"
    /\ \/ \E i \in lowest : Begin(c, "act", [job[c] EXCEPT !.row = i])
       \/ rows = {} /\ IF job[c].kind = "escalate" THEN Finish(c) ELSE Goto(c, "act")
       \/ job[c].kind = "escalate" /\ Finish(c)  \* not expired yet, or no HR to take it
    /\ UNCHANGED <<status, deleted, stages, balance, wf>>

(* applyTransition to a decision: it locks the request and checks status,  *)
(* but not deletedAt; a refusal rolls everything back.                     *)
TransitionUnchecked(r, from) == TRUE
Transition(r, from) == status[r] \in from

ReleaseReserved(r) == reserved' = Floor(reserved - Days[r])

RejectOrReturn(c) ==
    LET r == job[c].req
        i == job[c].row
        to == IF job[c].kind = "reject" THEN "rejected" ELSE "returned"
    IN
    /\ pc[c] = "act" /\ job[c].kind \in {"reject", "return"}
    /\ Transition(r, {"pending"})
    /\ status' = [status EXCEPT ![r] = to]
    /\ stages' = IF i # 0 /\ (to = "returned" => i \in PendingRows(r))
                 THEN [stages EXCEPT ![r] = Mark(@, i, "closed")] ELSE stages
    /\ ReleaseReserved(r)
    /\ Finish(c)
    /\ UNCHANGED <<deleted, used, wf>>

NextRowLost(s, n) == s
NextRow(s, n) == Append(s, PendingStage(n))

(* The first transaction of an approval: the stage that was read is marked *)
(* approved whatever its status is now.  The next step of the chain gets a *)
(* row, unless nobody can take it or the approver is the one who would.    *)
ApproveStage(c) ==
    LET r == job[c].req
        i == job[c].row
        marked == IF i # 0 THEN Mark(stages[r], i, "approved") ELSE stages[r]
        step == IF i # 0 THEN stages[r][i].stage ELSE 1
    IN
    /\ pc[c] = "act" /\ job[c].kind = "approve"
    /\ \/ /\ step < Steps
          /\ stages' = [stages EXCEPT ![r] = NextRow(marked, step + 1)]
          /\ Finish(c)
       \/ /\ stages' = [stages EXCEPT ![r] = marked]
          /\ Goto(c, "final")
    /\ UNCHANGED <<status, deleted, balance, wf>>

(* The second one: applyTransition to approved, with the balance.          *)
ChargeForgotten(r) == UNCHANGED used /\ ReleaseReserved(r)
ChargeKeepsReserved(r) == used' = used + Days[r] /\ UNCHANGED reserved
Charge(r) == used' = used + Days[r] /\ ReleaseReserved(r)

ApproveFinal(c) ==
    LET r == job[c].req IN
    /\ pc[c] = "final"
    /\ Transition(r, {"pending"})
    /\ status' = [status EXCEPT ![r] = "approved"]
    /\ stages' = IF job[c].row # 0
                 THEN [stages EXCEPT ![r] = Mark(@, job[c].row, "approved")] ELSE stages
    /\ Charge(r)
    /\ Finish(c)
    /\ UNCHANGED <<deleted, wf>>

(* The pending stages that have expired, the one that was read among them, *)
(* are marked escalated, and HR gets a row numbered 99.                    *)
Escalate(c) ==
    LET r == job[c].req IN
    /\ pc[c] = "act" /\ job[c].kind = "escalate"
    /\ \E expired \in SUBSET PendingRows(r) :
          /\ job[c].row \in PendingRows(r) => job[c].row \in expired
          /\ stages' = [stages EXCEPT ![r] =
                            Append(MarkRows(@, expired, "closed"), PendingStage(99))]
    /\ Finish(c)
    /\ UNCHANGED <<status, deleted, balance, wf>>

-----------------------------------------------------------------------------
(* POST /leave-requests/:id/cancel decides what to give back from the      *)
(* status it read, not from the one it locks.                              *)
BeginCancel(c, r) ==
    /\ c \in Staff /\ pc[c] = "idle" /\ Free("cancel", r)
    /\ ~deleted[r] /\ status[r] \in {"approved", "pending"}
    /\ Begin(c, "act", [Handle("cancel", r) EXCEPT !.was = status[r]])
    /\ UNCHANGED <<status, deleted, stages, balance, wf>>

Cancel(c) ==
    LET r == job[c].req IN
    /\ pc[c] = "act" /\ job[c].kind = "cancel"
    /\ Transition(r, {"approved", "pending"})
    /\ status' = [status EXCEPT ![r] = "cancelled"]
    /\ IF job[c].was = "approved"
       THEN used' = Floor(used - Days[r]) /\ UNCHANGED reserved
       ELSE ReleaseReserved(r) /\ UNCHANGED used
    /\ Finish(c)
    /\ UNCHANGED <<deleted, stages, wf>>

(* A decision, approval or cancellation whose status check fails.          *)
Refused(c) ==
    /\ \/ pc[c] = "act" /\ job[c].kind \in {"reject", "return"}
       \/ pc[c] = "final"
    /\ status[job[c].req] # "pending"
    /\ Finish(c)
    /\ UNCHANGED <<status, deleted, stages, balance, wf>>
CancelRefused(c) ==
    /\ pc[c] = "act" /\ job[c].kind = "cancel"
    /\ status[job[c].req] \notin {"approved", "pending"}
    /\ Finish(c)
    /\ UNCHANGED <<status, deleted, stages, balance, wf>>

(* DELETE /leave-requests/:id keeps status, stages and workflow.           *)
Delete(c, r) ==
    /\ c \in Staff /\ pc[c] = "idle" /\ Free("delete", r)
    /\ Held(r)
    /\ deleted' = [deleted EXCEPT ![r] = TRUE]
    /\ ReleaseReserved(r)
    /\ UNCHANGED <<status, stages, used, wf, pc, job>>

(* The termination of the employee cancels what is pending, and leaves the *)
(* reserved days reserved.                                                 *)
Terminate(c) ==
    /\ c \in Staff /\ pc[c] = "idle" /\ \A r \in Request : Free("terminate", r)
    /\ \E r \in Request : status[r] # "none"
    /\ status' = [r \in Request |-> IF Held(r) THEN "cancelled" ELSE status[r]]
    /\ stages' = [r \in Request |-> MarkPending(stages[r], "closed")]
    /\ UNCHANGED <<deleted, balance, wf, pc, job>>

-----------------------------------------------------------------------------
(* leaveEscalationCheck: a snapshot of the pending stages of pending       *)
(* requests, deleted ones included, then a transaction for each that is    *)
(* overdue.                                                                *)
Candidates == {x \in Request \X (1 .. RowLimit) :
                   status[x[1]] = "pending" /\ x[2] \in PendingRows(x[1])}

CronRead(c, overdue) ==
    /\ c \in Worker /\ pc[c] = "idle"
    /\ overdue # {} /\ overdue \subseteq Candidates
    /\ \A x \in overdue : Free("cron", x[1])
    /\ Begin(c, "act", [NoJob EXCEPT !.kind = "cron", !.rows = overdue])
    /\ UNCHANGED <<status, deleted, stages, balance, wf>>

(* Only rows that exist count: the steps of the chain that have no row yet *)
(* do not, and rows marked escalated always do.                            *)
LastStageOfChain(r, i) == Len(stages[r]) >= Steps
LastStage(r, i) ==
    \A k \in DOMAIN stages[r] \ {i} : stages[r][k].status = "approved"

(* The stage by id, then the request by id, with no look at their status.  *)
CronApprove(c, x) ==
    LET r == x[1] IN
    /\ pc[c] = "act" /\ x \in job[c].rows
    /\ stages' = [stages EXCEPT ![r] = Mark(@, x[2], "approved")]
    /\ IF LastStage(r, x[2])
       THEN /\ status' = [status EXCEPT ![r] = "approved"]
            /\ used' = used + Days[r] /\ reserved' = reserved - Days[r]
       ELSE UNCHANGED <<status, balance>>
    /\ IF job[c].rows = {x} THEN Finish(c)
       ELSE Begin(c, "act", [job[c] EXCEPT !.rows = @ \ {x}])
    /\ UNCHANGED <<deleted, wf>>

(* leaveReturnToWorkClosure, for a leave that has ended.                   *)
CloseRead(c, r) ==
    /\ c \in Worker /\ pc[c] = "idle" /\ Free("close", r)
    /\ status[r] = "approved"
    /\ Begin(c, "act", Handle("close", r))
    /\ UNCHANGED <<status, deleted, stages, balance, wf>>

CloseWrite(c) ==
    /\ pc[c] = "act" /\ job[c].kind = "close"
    /\ status' = [status EXCEPT ![job[c].req] = "completed"]
    /\ Finish(c)
    /\ UNCHANGED <<deleted, stages, balance, wf>>

-----------------------------------------------------------------------------
(* processAction of the workflow engine.  It reads the instance outside a  *)
(* transaction, so that its FOR UPDATE locks nothing beyond the statement. *)
BeginAction(c, r, k) ==
    /\ c \in Staff /\ pc[c] = "idle" /\ k \in Flow /\ Free(k, r)
    /\ wf[r].status = "pending"
    /\ Begin(c, "act", [Handle(k, r) EXCEPT !.step = wf[r].step])
    /\ UNCHANGED <<status, deleted, stages, balance, wf>>

Outcome(k) == CASE k \in {"wfApprove", "sla"} -> "approved"
                [] k = "wfReject" -> "rejected"
                [] OTHER -> "returned"

(* An approval with a step left only moves the instance on.                *)
Advance(c) ==
    /\ pc[c] = "act" /\ job[c].kind = "wfApprove" /\ job[c].step < WfSteps
    /\ wf' = [wf EXCEPT ![job[c].req].step = job[c].step + 1]
    /\ Finish(c)
    /\ UNCHANGED <<status, deleted, stages, balance>>

(* propagateDomainStatus: a request that is no longer pending is left      *)
(* alone, and counts as done.  A return touches no balance.                *)
PropagateSwallowed(r, to) == UNCHANGED status
PropagateStatus(r, to) ==
    status' = IF status[r] = "pending" THEN [status EXCEPT ![r] = to] ELSE status

Propagate(c) ==
    LET r == job[c].req
        k == job[c].kind
    IN
    /\ pc[c] = "act" /\ k \in Flow
    /\ k = "wfApprove" => job[c].step >= WfSteps
    /\ PropagateStatus(r, Outcome(k))
    /\ Goto(c, CASE k = "wfReturn" -> "stages"
                 [] k # "wfReturn" /\ status[r] = "pending" -> "balance"
                 [] OTHER -> "finish")
    /\ UNCHANGED <<deleted, stages, balance, wf>>

PropagateBalance(c) ==
    LET r == job[c].req IN
    /\ pc[c] = "balance"
    /\ IF deleted[r] THEN Goto(c, "finish") /\ UNCHANGED balance
       ELSE /\ Goto(c, "stages")
            /\ IF job[c].kind = "wfApprove" THEN Charge(r)
               ELSE ReleaseReserved(r) /\ UNCHANGED used
    /\ UNCHANGED <<status, deleted, stages, wf>>

PropagateStages(c) ==
    LET r == job[c].req IN
    /\ pc[c] = "stages"
    /\ stages' = [stages EXCEPT ![r] = 
                  MarkPending(@, IF job[c].kind = "wfApprove" THEN "approved" ELSE "closed")]
    /\ Goto(c, "finish")
    /\ UNCHANGED <<status, deleted, balance, wf>>

(* The instance's own update, guarded by its status.                       *)
CloseInstance(r, to) ==
    wf' = IF wf[r].status = "pending" THEN [wf EXCEPT ![r].status = to] ELSE wf

FinishAction(c) ==
    /\ pc[c] = "finish"
    /\ CloseInstance(job[c].req, Outcome(job[c].kind))
    /\ Finish(c)
    /\ UNCHANGED <<status, deleted, stages, balance>>

(* checkSlaStatus with autoApproveOnTimeout: the same, in one transaction. *)
SlaRead(c, r) ==
    /\ c \in Worker /\ pc[c] = "idle" /\ Free("sla", r)
    /\ wf[r].status = "pending"
    /\ Begin(c, "act", Handle("sla", r))
    /\ UNCHANGED <<status, deleted, stages, balance, wf>>

SlaApprove(c) ==
    LET r == job[c].req IN
    /\ pc[c] = "act" /\ job[c].kind = "sla"
    /\ PropagateStatus(r, "approved")
    /\ IF Held(r)
       THEN Charge(r) /\ stages' = [stages EXCEPT ![r] = MarkPending(@, "approved")]
       ELSE UNCHANGED <<balance, stages>>
    /\ CloseInstance(r, "approved")
    /\ Finish(c)
    /\ UNCHANGED deleted

-----------------------------------------------------------------------------
(* The process dies, or the connection drops, between two statements.      *)
Crash(c) ==
    /\ pc[c] # "idle" /\ job[c].kind \in MayCrash
    /\ Finish(c)
    /\ UNCHANGED <<status, deleted, stages, balance, wf>>

(* What a handler in flight does next.                                     *)
Continue(c) ==
    \/ SubmitWorkflow(c) \/ ReadStage(c) \/ RejectOrReturn(c)
    \/ ApproveStage(c) \/ ApproveFinal(c) \/ Escalate(c)
    \/ Cancel(c) \/ Refused(c) \/ CancelRefused(c)
    \/ CloseWrite(c) \/ \E x \in job[c].rows : CronApprove(c, x)
    \/ Advance(c) \/ Propagate(c) \/ PropagateBalance(c) \/ PropagateStages(c)
    \/ FinishAction(c) \/ SlaApprove(c)

Start(c) ==
    \/ Terminate(c)
    \/ \E overdue \in SUBSET Candidates : CronRead(c, overdue)
    \/ \E r \in Request :
          \/ Submit(c, r) \/ BeginCancel(c, r) \/ Delete(c, r)
          \/ CloseRead(c, r) \/ SlaRead(c, r)
          \/ \E k \in Decide \cup {"escalate"} : BeginDecision(c, r, k)
          \/ \E k \in Flow : BeginAction(c, r, k)

Next == \E c \in Client : Start(c) \/ Continue(c) \/ Crash(c)

Spec == Init /\ [][Next]_vars

(* A handler that has begun goes on; a stage that keeps waiting is overdue *)
(* at a run of the job, sooner or later, and not every run that finds it   *)
(* so dies before its turn.                                                *)
FairSpec ==
    /\ Spec
    /\ \A c \in Client : WF_vars(Continue(c))
    /\ \A x \in Request \X (1 .. RowLimit) :
           /\ SF_vars(\E c \in Worker, overdue \in SUBSET Candidates :
                          x \in overdue /\ CronRead(c, overdue))
           /\ SF_vars(\E c \in Worker : CronApprove(c, x))

-----------------------------------------------------------------------------
(* The variables keep their types; a handler in flight has a submitted     *)
(* request, and the stage rows it remembers exist; stage rows and a        *)
(* workflow instance belong to a submitted request.                        *)
JobOK(c) ==
    LET j == job[c] IN
    /\ pc[c] = "idle" => j = NoJob
    /\ pc[c] # "idle" /\ j.kind # "cron" => j.req \in Request
    /\ pc[c] # "idle" /\ j.kind = "cron" => pc[c] = "act" /\ j.req = None
    /\ j.req \in Request => status[j.req] # "none" /\ j.row \in 0 .. Len(stages[j.req])
    /\ \A x \in j.rows : x[2] \in DOMAIN stages[x[1]]

TypeOK ==
    /\ status \in [Request -> Status]
    /\ deleted \in [Request -> BOOLEAN]
    /\ stages \in [Request -> Seq(Stage)]
    /\ used \in Int /\ reserved \in Int
    /\ wf \in [Request -> Workflow]
    /\ pc \in [Client -> Phase]
    /\ job \in [Client -> Job]
    /\ \A c \in Client : JobOK(c)
    /\ \A r \in Request : status[r] = "none" => stages[r] = <<>> /\ wf[r].status = "none"

(* Days that the requests of S take.                                       *)
Total(S) == MapThenSumSet(LAMBDA r : Days[r], S)

(* The handlers of the workflow engine that have set the status of their   *)
(* request and not yet its balance.                                        *)
Midway(k) == {c \in Client : pc[c] = "balance" /\ job[c].kind = k}

(* The balance covers the requests that count on it: what is waiting is    *)
(* reserved, what was granted is used.                                     *)
Covered ==
    /\ reserved >= Total({r \in Request : Held(r)})
    /\ used + Total({job[c].req : c \in Midway("wfApprove")})
           >= Total({r \in Request : status[r] \in {"approved", "completed"}})

(* No employee is granted more days than the entitlement, however the      *)
(* decisions on the requests that share the balance interleave.            *)
NotOverdrawn == used + reserved <= Entitled

(* A request that has been rejected, returned, cancelled or completed is   *)
(* never decided again by a handler that read it before.                   *)
DecidedStays ==
    [][\A r \in Request : status[r] \in {"rejected", "returned", "cancelled", "completed"}
           => status'[r] = status[r]]_vars

(* The workflow engine changes its instance last: no instance is closed    *)
(* over a leave request that is still waiting.                             *)
WorkflowNotAhead ==
    \A r \in Request : wf[r].status \in {"approved", "rejected", "returned"}
                           => status[r] # "pending"

(* A waiting request has a stage somebody can act on, or an approval of it *)
(* is about to complete.                                                   *)
PendingIsActionable ==
    \A r \in Request : Held(r) =>
        \/ PendingRows(r) # {}
        \/ \E c \in Client : pc[c] = "final" /\ job[c].req = r

(* Whatever the staff do or fail to do, a request is decided: the job      *)
(* promises an approval when the last stage has waited 28 hours.           *)
EveryRequestDecided ==
    \A r \in Request : Held(r) ~> ~Held(r)

(* A deleted request, whose days went back to the balance, is not approved *)
(* (and charged) afterwards.                                               *)
DeletedNotApproved ==
    \A r \in Request : ~(deleted[r] /\ status[r] = "approved")
=============================================================================
