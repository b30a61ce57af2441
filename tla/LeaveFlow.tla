----------------------------- MODULE LeaveFlow -----------------------------
(***************************************************************************)
(* Three results about leave requests, for any number of requests, stages  *)
(* and clients.                                                            *)
(*                                                                         *)
(* The workflow engine never runs ahead of the request it decides: it      *)
(* writes the request first and its own instance last, and a request that  *)
(* has left "pending" never becomes pending again.                         *)
(*                                                                         *)
(* A pending request has a pending stage, as long as nobody escalates and  *)
(* no approval dies between its two transactions.                          *)
(*                                                                         *)
(* A decision is final, as long as no run of a job overlaps another        *)
(* handler of the request it writes.                                       *)
(***************************************************************************)
EXTENDS LeaveProofs

-----------------------------------------------------------------------------
(* The inductive invariant.  A handler that is past the status update has  *)
(* seen to it that its request is not pending: that is what FinishAction   *)
(* relies on, steps later, when it closes the instance.                    *)
Late == {"balance", "stages", "finish"}
Closed == {"approved", "rejected", "returned"}

LateOK == \A c \in Client : pc[c] \in Late => status[job[c].req] # "pending"
FlowInv == LateOK /\ WorkflowNotAhead

(* What a step does to each of the three.                                  *)
StatusForward ==
    \A r \in Request : status'[r] = "pending" =>
        \/ status[r] = "pending"
        \/ status[r] = "none" /\ wf'[r].status = "none"
InstanceForward ==
    \A r \in Request : wf'[r].status \in Closed =>
        wf[r].status \in Closed \/ status'[r] # "pending"
HandlersForward ==
    \A d \in Client : pc'[d] \in Late =>
        \/ pc[d] \in Late /\ job'[d].req = job[d].req
        \/ status'[job'[d].req] # "pending"

LEMMA FlowStep ==
    ASSUME TypeOK, FlowInv, StatusForward, InstanceForward, HandlersForward
    PROVE  FlowInv'
<1>1. WorkflowNotAhead'
    BY DEF FlowInv, WorkflowNotAhead, StatusForward, InstanceForward, Closed
<1>2. ASSUME NEW d \in Client, pc'[d] \in Late PROVE status'[job'[d].req] # "pending"
    <2>1. CASE status'[job'[d].req] # "pending"
        BY <2>1
    <2>2. CASE pc[d] \in Late /\ job'[d].req = job[d].req
        <3>1. pc[d] # "idle" /\ job[d].kind # "cron"
            BY <2>2 DEF Late, TypeOK, JobOK
        <3>2. job[d].req \in Request /\ status[job[d].req] \notin {"none", "pending"}
            BY <2>2, <3>1, InFlight DEF FlowInv, LateOK
        <3> QED
            BY <2>2, <3>2 DEF StatusForward
    <2> QED
        BY <1>2, <2>1, <2>2 DEF HandlersForward
<1> QED
    BY <1>1, <1>2 DEF FlowInv, LateOK

LEMMA BeginForward ==
    ASSUME TypeOK, NEW c \in Client, NEW s, NEW j, Begin(c, s, j),
           s \in Late => status'[j.req] # "pending"
    PROVE  HandlersForward
BY DEF Begin, HandlersForward, TypeOK

LEMMA FinishForward ==
    ASSUME TypeOK, NEW c \in Client, Finish(c)
    PROVE  HandlersForward
BY BeginForward DEF Finish, Late

(* Steps that leave the request and the instance alone.                    *)
LEMMA KeptForward ==
    ASSUME UNCHANGED <<status, wf>>
    PROVE  StatusForward /\ InstanceForward
BY DEF StatusForward, InstanceForward

LEMMA FlowInit == Init => FlowInv
BY DEF Init, FlowInv, LateOK, WorkflowNotAhead, Late

-----------------------------------------------------------------------------
(* The inductive step, action by action.                                   *)

LEMMA SubmitFlow ==
    ASSUME TypeOK, FlowInv, NEW c \in Client, NEW r \in Request, Submit(c, r)
    PROVE  FlowInv'
<1>1. StatusForward /\ InstanceForward
    BY DEF Submit, StatusForward, InstanceForward, TypeOK
<1>2. HandlersForward
    BY BeginForward DEF Submit, Late
<1> QED
    BY <1>1, <1>2, FlowStep

LEMMA SubmitWorkflowFlow ==
    ASSUME TypeOK, FlowInv, NEW c \in Client, SubmitWorkflow(c)
    PROVE  FlowInv'
<1>1. StatusForward
    BY DEF SubmitWorkflow, StatusForward
<1>2. InstanceForward
    <2>1. wf \in [Request -> Workflow]
        BY DEF TypeOK
    <2>2. CASE wf' = wf
        BY <2>2 DEF InstanceForward
    <2>3. CASE wf' = [wf EXCEPT ![job[c].req].status = "pending"]
        <3>1. \A r \in Request : wf'[r].status = wf[r].status \/ wf'[r].status = "pending"
            BY <2>1, <2>3 DEF Workflow
        <3> QED
            BY <3>1 DEF InstanceForward, Closed
    <2> QED
        BY <2>2, <2>3 DEF SubmitWorkflow
<1>3. HandlersForward
    BY FinishForward DEF SubmitWorkflow
<1> QED
    BY <1>1, <1>2, <1>3, FlowStep

LEMMA BeginDecisionFlow ==
    ASSUME TypeOK, FlowInv, NEW c \in Client, NEW r \in Request, NEW k \in Kind, BeginDecision(c, r, k)
    PROVE  FlowInv'
<1>1. HandlersForward
    BY BeginForward DEF BeginDecision, Late
<1> QED
    BY <1>1, KeptForward, FlowStep DEF BeginDecision

LEMMA ReadStageFlow ==
    ASSUME TypeOK, FlowInv, NEW c \in Client, ReadStage(c)
    PROVE  FlowInv'
<1>1. HandlersForward
    BY FinishForward, BeginForward DEF ReadStage, Goto, Late
<1> QED
    BY <1>1, KeptForward, FlowStep DEF ReadStage

LEMMA RejectOrReturnFlow ==
    ASSUME TypeOK, FlowInv, NEW c \in Client, RejectOrReturn(c)
    PROVE  FlowInv'
<1>0. job[c].req \in Request /\ status[job[c].req] # "none"
    <2>1. job[c].kind # "cron" /\ pc[c] # "idle"
        BY DEF RejectOrReturn, TypeOK, JobOK, Flow
    <2> QED
        BY <2>1, InFlight
<1>1. StatusForward /\ InstanceForward
    BY <1>0 DEF RejectOrReturn, StatusForward, InstanceForward, TypeOK
<1>2. HandlersForward
    BY FinishForward DEF RejectOrReturn
<1> QED
    BY <1>1, <1>2, FlowStep

LEMMA ApproveStageFlow ==
    ASSUME TypeOK, FlowInv, NEW c \in Client, ApproveStage(c)
    PROVE  FlowInv'
<1>1. HandlersForward
    BY FinishForward, BeginForward DEF ApproveStage, Goto, Late
<1> QED
    BY <1>1, KeptForward, FlowStep DEF ApproveStage

LEMMA ApproveFinalFlow ==
    ASSUME TypeOK, FlowInv, NEW c \in Client, ApproveFinal(c)
    PROVE  FlowInv'
<1>0. job[c].req \in Request /\ status[job[c].req] # "none"
    <2>1. job[c].kind # "cron" /\ pc[c] # "idle"
        BY DEF ApproveFinal, TypeOK, JobOK, Flow
    <2> QED
        BY <2>1, InFlight
<1>1. StatusForward /\ InstanceForward
    BY <1>0 DEF ApproveFinal, StatusForward, InstanceForward, TypeOK
<1>2. HandlersForward
    BY FinishForward DEF ApproveFinal
<1> QED
    BY <1>1, <1>2, FlowStep

LEMMA EscalateFlow ==
    ASSUME TypeOK, FlowInv, NEW c \in Client, Escalate(c)
    PROVE  FlowInv'
<1>1. HandlersForward
    BY FinishForward DEF Escalate
<1> QED
    BY <1>1, KeptForward, FlowStep DEF Escalate

LEMMA BeginCancelFlow ==
    ASSUME TypeOK, FlowInv, NEW c \in Client, NEW r \in Request, BeginCancel(c, r)
    PROVE  FlowInv'
<1>1. HandlersForward
    BY BeginForward DEF BeginCancel, Late
<1> QED
    BY <1>1, KeptForward, FlowStep DEF BeginCancel

LEMMA CancelFlow ==
    ASSUME TypeOK, FlowInv, NEW c \in Client, Cancel(c)
    PROVE  FlowInv'
<1>0. job[c].req \in Request /\ status[job[c].req] # "none"
    <2>1. job[c].kind # "cron" /\ pc[c] # "idle"
        BY DEF Cancel, TypeOK, JobOK, Flow
    <2> QED
        BY <2>1, InFlight
<1>1. StatusForward /\ InstanceForward
    BY <1>0 DEF Cancel, StatusForward, InstanceForward, TypeOK
<1>2. HandlersForward
    BY FinishForward DEF Cancel
<1> QED
    BY <1>1, <1>2, FlowStep

LEMMA RefusedFlow ==
    ASSUME TypeOK, FlowInv, NEW c \in Client, Refused(c)
    PROVE  FlowInv'
<1>1. HandlersForward
    BY FinishForward DEF Refused
<1> QED
    BY <1>1, KeptForward, FlowStep DEF Refused

LEMMA CancelRefusedFlow ==
    ASSUME TypeOK, FlowInv, NEW c \in Client, CancelRefused(c)
    PROVE  FlowInv'
<1>1. HandlersForward
    BY FinishForward DEF CancelRefused
<1> QED
    BY <1>1, KeptForward, FlowStep DEF CancelRefused

LEMMA DeleteFlow ==
    ASSUME TypeOK, FlowInv, NEW c \in Client, NEW r \in Request, Delete(c, r)
    PROVE  FlowInv'
<1>1. HandlersForward
    BY DEF Delete, HandlersForward
<1> QED
    BY <1>1, KeptForward, FlowStep DEF Delete

LEMMA TerminateFlow ==
    ASSUME TypeOK, FlowInv, NEW c \in Client, Terminate(c)
    PROVE  FlowInv'
<1>1. StatusForward /\ InstanceForward
    BY DEF Terminate, StatusForward, InstanceForward
<1>2. HandlersForward
    BY DEF Terminate, HandlersForward
<1> QED
    BY <1>1, <1>2, FlowStep

LEMMA CronReadFlow ==
    ASSUME TypeOK, FlowInv, NEW c \in Client, NEW overdue \in SUBSET Candidates, CronRead(c, overdue)
    PROVE  FlowInv'
<1>1. HandlersForward
    BY BeginForward DEF CronRead, Late
<1> QED
    BY <1>1, KeptForward, FlowStep DEF CronRead

LEMMA CronApproveFlow ==
    ASSUME TypeOK, FlowInv, NEW c \in Client, NEW x \in job[c].rows, CronApprove(c, x)
    PROVE  FlowInv'
<1>1. StatusForward /\ InstanceForward
    BY DEF CronApprove, StatusForward, InstanceForward, TypeOK
<1>2. HandlersForward
    BY FinishForward, BeginForward DEF CronApprove, Late
<1> QED
    BY <1>1, <1>2, FlowStep

LEMMA CloseReadFlow ==
    ASSUME TypeOK, FlowInv, NEW c \in Client, NEW r \in Request, CloseRead(c, r)
    PROVE  FlowInv'
<1>1. HandlersForward
    BY BeginForward DEF CloseRead, Late
<1> QED
    BY <1>1, KeptForward, FlowStep DEF CloseRead

LEMMA CloseWriteFlow ==
    ASSUME TypeOK, FlowInv, NEW c \in Client, CloseWrite(c)
    PROVE  FlowInv'
<1>0. job[c].req \in Request /\ status[job[c].req] # "none"
    <2>1. job[c].kind # "cron" /\ pc[c] # "idle"
        BY DEF CloseWrite, TypeOK, JobOK, Flow
    <2> QED
        BY <2>1, InFlight
<1>1. StatusForward /\ InstanceForward
    BY <1>0 DEF CloseWrite, StatusForward, InstanceForward, TypeOK
<1>2. HandlersForward
    BY FinishForward DEF CloseWrite
<1> QED
    BY <1>1, <1>2, FlowStep

LEMMA BeginActionFlow ==
    ASSUME TypeOK, FlowInv, NEW c \in Client, NEW r \in Request, NEW k \in Kind, BeginAction(c, r, k)
    PROVE  FlowInv'
<1>1. HandlersForward
    BY BeginForward DEF BeginAction, Late
<1> QED
    BY <1>1, KeptForward, FlowStep DEF BeginAction

LEMMA AdvanceFlow ==
    ASSUME TypeOK, FlowInv, NEW c \in Client, Advance(c)
    PROVE  FlowInv'
<1>1. StatusForward
    BY DEF Advance, StatusForward
<1>2. \A r \in Request : wf'[r].status = wf[r].status
    BY DEF Advance, TypeOK, Workflow
<1>3. InstanceForward /\ HandlersForward
    BY <1>2, FinishForward DEF Advance, InstanceForward
<1> QED
    BY <1>1, <1>3, FlowStep

LEMMA PropagateFlow ==
    ASSUME TypeOK, FlowInv, NEW c \in Client, Propagate(c)
    PROVE  FlowInv'
<1>0. job[c].req \in Request /\ status[job[c].req] # "none"
    <2>1. job[c].kind # "cron" /\ pc[c] # "idle"
        BY DEF Propagate, TypeOK, JobOK, Flow
    <2> QED
        BY <2>1, InFlight
<1>1. status'[job[c].req] # "pending"
    BY <1>0 DEF Propagate, PropagateStatus, Outcome, TypeOK
<1>2. StatusForward /\ InstanceForward
    BY <1>0, <1>1 DEF Propagate, PropagateStatus, StatusForward, InstanceForward, TypeOK
<1>3. HandlersForward
    BY <1>1, BeginForward DEF Propagate, Goto
<1> QED
    BY <1>2, <1>3, FlowStep

LEMMA PropagateBalanceFlow ==
    ASSUME TypeOK, FlowInv, NEW c \in Client, PropagateBalance(c)
    PROVE  FlowInv'
<1>1. status'[job[c].req] # "pending"
    BY DEF PropagateBalance, FlowInv, LateOK, Late
<1>2. HandlersForward
    BY <1>1, BeginForward DEF PropagateBalance, Goto
<1> QED
    BY <1>2, KeptForward, FlowStep DEF PropagateBalance

LEMMA PropagateStagesFlow ==
    ASSUME TypeOK, FlowInv, NEW c \in Client, PropagateStages(c)
    PROVE  FlowInv'
<1>1. status'[job[c].req] # "pending"
    BY DEF PropagateStages, FlowInv, LateOK, Late
<1>2. HandlersForward
    BY <1>1, BeginForward DEF PropagateStages, Goto
<1> QED
    BY <1>2, KeptForward, FlowStep DEF PropagateStages

(* Only here is an instance closed, over a request that is not pending.    *)
LEMMA ClosingForward ==
    ASSUME TypeOK, NEW r \in Request, NEW to, CloseInstance(r, to), status'[r] # "pending"
    PROVE  InstanceForward
BY DEF CloseInstance, InstanceForward, TypeOK

LEMMA FinishActionFlow ==
    ASSUME TypeOK, FlowInv, NEW c \in Client, FinishAction(c)
    PROVE  FlowInv'
<1>0. job[c].req \in Request /\ status[job[c].req] # "none"
    <2>1. job[c].kind # "cron" /\ pc[c] # "idle"
        BY DEF FinishAction, TypeOK, JobOK, Flow
    <2> QED
        BY <2>1, InFlight
<1>1. status'[job[c].req] # "pending" /\ StatusForward
    BY DEF FinishAction, FlowInv, LateOK, Late, StatusForward
<1>2. InstanceForward
    BY <1>0, <1>1, ClosingForward DEF FinishAction
<1>3. HandlersForward
    BY FinishForward DEF FinishAction
<1> QED
    BY <1>1, <1>2, <1>3, FlowStep

LEMMA SlaReadFlow ==
    ASSUME TypeOK, FlowInv, NEW c \in Client, NEW r \in Request, SlaRead(c, r)
    PROVE  FlowInv'
<1>1. HandlersForward
    BY BeginForward DEF SlaRead, Late
<1> QED
    BY <1>1, KeptForward, FlowStep DEF SlaRead

LEMMA SlaApproveFlow ==
    ASSUME TypeOK, FlowInv, NEW c \in Client, SlaApprove(c)
    PROVE  FlowInv'
<1>0. job[c].req \in Request /\ status[job[c].req] # "none"
    <2>1. job[c].kind # "cron" /\ pc[c] # "idle"
        BY DEF SlaApprove, TypeOK, JobOK, Flow
    <2> QED
        BY <2>1, InFlight
<1>1. status'[job[c].req] # "pending"
    BY <1>0 DEF SlaApprove, PropagateStatus, TypeOK
<1>2. StatusForward
    BY <1>0 DEF SlaApprove, PropagateStatus, StatusForward, TypeOK
<1>3. InstanceForward
    BY <1>0, <1>1, ClosingForward DEF SlaApprove
<1>4. HandlersForward
    BY FinishForward DEF SlaApprove
<1> QED
    BY <1>2, <1>3, <1>4, FlowStep

LEMMA CrashFlow ==
    ASSUME TypeOK, FlowInv, NEW c \in Client, Crash(c)
    PROVE  FlowInv'
<1>1. HandlersForward
    BY FinishForward DEF Crash
<1> QED
    BY <1>1, KeptForward, FlowStep DEF Crash

LEMMA FlowNext ==
    ASSUME TypeOK, FlowInv, Next
    PROVE  FlowInv'
<1>1. ASSUME NEW c \in Client, Start(c) \/ Continue(c) \/ Crash(c)
      PROVE  FlowInv'
    <2>1. CASE Terminate(c)
        BY <2>1, TerminateFlow
    <2>2. ASSUME NEW overdue \in SUBSET Candidates, CronRead(c, overdue) PROVE FlowInv'
        BY <2>2, CronReadFlow
    <2>3. ASSUME NEW r \in Request, Submit(c, r) PROVE FlowInv'
        BY <2>3, SubmitFlow
    <2>4. ASSUME NEW r \in Request, BeginCancel(c, r) PROVE FlowInv'
        BY <2>4, BeginCancelFlow
    <2>5. ASSUME NEW r \in Request, Delete(c, r) PROVE FlowInv'
        BY <2>5, DeleteFlow
    <2>6. ASSUME NEW r \in Request, CloseRead(c, r) PROVE FlowInv'
        BY <2>6, CloseReadFlow
    <2>7. ASSUME NEW r \in Request, SlaRead(c, r) PROVE FlowInv'
        BY <2>7, SlaReadFlow
    <2>8. ASSUME NEW r \in Request, NEW k \in Kind, BeginDecision(c, r, k) PROVE FlowInv'
        BY <2>8, BeginDecisionFlow
    <2>9. ASSUME NEW r \in Request, NEW k \in Kind, BeginAction(c, r, k) PROVE FlowInv'
        BY <2>9, BeginActionFlow
    <2>10. ASSUME NEW x \in job[c].rows, CronApprove(c, x) PROVE FlowInv'
        BY <2>10, CronApproveFlow
    <2>11. CASE SubmitWorkflow(c)
        BY <2>11, SubmitWorkflowFlow
    <2>12. CASE ReadStage(c)
        BY <2>12, ReadStageFlow
    <2>13. CASE RejectOrReturn(c)
        BY <2>13, RejectOrReturnFlow
    <2>14. CASE ApproveStage(c)
        BY <2>14, ApproveStageFlow
    <2>15. CASE ApproveFinal(c)
        BY <2>15, ApproveFinalFlow
    <2>16. CASE Escalate(c)
        BY <2>16, EscalateFlow
    <2>17. CASE Cancel(c)
        BY <2>17, CancelFlow
    <2>18. CASE Refused(c)
        BY <2>18, RefusedFlow
    <2>19. CASE CancelRefused(c)
        BY <2>19, CancelRefusedFlow
    <2>20. CASE CloseWrite(c)
        BY <2>20, CloseWriteFlow
    <2>21. CASE Advance(c)
        BY <2>21, AdvanceFlow
    <2>22. CASE Propagate(c)
        BY <2>22, PropagateFlow
    <2>23. CASE PropagateBalance(c)
        BY <2>23, PropagateBalanceFlow
    <2>24. CASE PropagateStages(c)
        BY <2>24, PropagateStagesFlow
    <2>25. CASE FinishAction(c)
        BY <2>25, FinishActionFlow
    <2>26. CASE SlaApprove(c)
        BY <2>26, SlaApproveFlow
    <2>27. CASE Crash(c)
        BY <2>27, CrashFlow
    <2>a. Decide \cup {"escalate"} \subseteq Kind /\ Flow \subseteq Kind
        BY DEF Decide, Flow, Kind
    <2>b. CASE Start(c)
        BY <2>a, <2>b, <2>1, <2>2, <2>3, <2>4, <2>5, <2>6, <2>7, <2>8, <2>9 DEF Start
    <2>c. CASE Continue(c)
        BY <2>c, <2>10, <2>11, <2>12, <2>13, <2>14, <2>15, <2>16, <2>17, <2>18, <2>19, <2>20, <2>21, <2>22, <2>23, <2>24, <2>25, <2>26 DEF Continue
    <2> QED
        BY <1>1, <2>b, <2>c, <2>27
<1> QED
    BY <1>1 DEF Next

(* Whatever routes run, overlap or die, no workflow instance is approved,  *)
(* rejected or returned over a leave request that is still waiting.        *)
THEOREM WorkflowFollows == Spec => []WorkflowNotAhead
<1>1. TypeOK /\ FlowInv /\ [Next]_vars => FlowInv'
    <2>1. ASSUME FlowInv, UNCHANGED vars PROVE FlowInv'
        BY <2>1 DEF FlowInv, LateOK, WorkflowNotAhead, vars
    <2> QED
        BY <2>1, FlowNext
<1>2. Spec => []TypeOK
    BY LeaveTypeCorrect
<1>3. FlowInv => WorkflowNotAhead
    BY DEF FlowInv
<1> QED
    BY FlowInit, <1>1, <1>2, <1>3, PTL DEF Spec

-----------------------------------------------------------------------------
(* A waiting request can be acted upon: no row of it is closed but those   *)
(* of a request that is decided, so a row that is not approved is pending. *)
(* It needs that nobody escalates by hand, and that the process survives   *)
(* between the two transactions of an approval.                            *)
Unescalated == "escalate" \notin Routes /\ "approve" \notin MayCrash

OpenRows == \A r \in Request : Held(r) =>
                \A i \in DOMAIN stages[r] : stages[r][i].status # "closed"
Kinds == \A c \in Client : /\ pc[c] = "final" => job[c].kind = "approve"
                           /\ job[c].kind # "escalate"
ActionInv == OpenRows /\ Kinds /\ PendingIsActionable

(* What a step does to requests and handlers that it leaves in peace.      *)
StillHeld(q) == ~deleted'[q] /\ status'[q] = "pending"
HeldKept == \A r \in Request : Held(r)' => Held(r) /\ stages'[r] = stages[r]
FinalKept == \A d \in Client : pc[d] = "final" /\ StillHeld(job[d].req) =>
                 pc'[d] = "final" /\ job'[d].req = job[d].req

LEMMA Undisturbed ==
    ASSUME ActionInv, HeldKept, FinalKept, Kinds'
    PROVE  ActionInv'
<1>1. OpenRows'
    BY DEF ActionInv, OpenRows, HeldKept
<1>2. ASSUME NEW r \in Request, Held(r)'
      PROVE  PendingRows(r)' # {} \/ \E c \in Client : pc'[c] = "final" /\ job'[c].req = r
    <2>1. Held(r) /\ PendingRows(r)' = PendingRows(r)
        BY <1>2 DEF HeldKept, PendingRows
    <2> QED
        BY <1>2, <2>1 DEF ActionInv, PendingIsActionable, FinalKept, Held, StillHeld
<1> QED
    BY <1>1, <1>2 DEF ActionInv, PendingIsActionable

LEMMA BeginActs ==
    ASSUME TypeOK, Kinds, NEW c \in Client, NEW s, NEW j, Begin(c, s, j),
           pc[c] = "final" => ~StillHeld(job[c].req),
           s = "final" => j.kind = "approve", j.kind # "escalate"
    PROVE  FinalKept /\ Kinds'
BY DEF Begin, FinalKept, Kinds, TypeOK

LEMMA FinishActs ==
    ASSUME TypeOK, Kinds, NEW c \in Client, Finish(c),
           pc[c] = "final" => ~StillHeld(job[c].req)
    PROVE  FinalKept /\ Kinds'
BY BeginActs DEF Finish, NoJob

LEMMA GotoActs ==
    ASSUME TypeOK, Kinds, NEW c \in Client, NEW s, Goto(c, s), pc[c] # "final", s # "final"
    PROVE  FinalKept /\ Kinds'
BY BeginActs DEF Goto, Kinds

(* Handlers that only begin, end, or go on.                                *)
LEMMA QuietActs ==
    ASSUME TypeOK, ActionInv, Unescalated, NEW c \in Client,
           \/ SubmitWorkflow(c) \/ ReadStage(c) \/ Refused(c) \/ CancelRefused(c)
           \/ Advance(c) \/ PropagateBalance(c) \/ FinishAction(c) \/ Crash(c)
           \/ \E overdue \in SUBSET Candidates : CronRead(c, overdue)
           \/ \E r \in Request :
                 \/ BeginCancel(c, r) \/ CloseRead(c, r) \/ SlaRead(c, r)
                 \/ \E k \in Decide \cup {"escalate"} : BeginDecision(c, r, k)
                 \/ \E k \in Flow : BeginAction(c, r, k)
    PROVE  ActionInv'
<1>1. HeldKept
    BY DEF SubmitWorkflow, ReadStage, Refused, CancelRefused, Advance, PropagateBalance,
           FinishAction, Crash, CronRead, BeginCancel, CloseRead, SlaRead, BeginDecision,
           BeginAction, HeldKept, Held
<1>2. Kinds
    BY DEF ActionInv
<1>3. CASE SubmitWorkflow(c) \/ CancelRefused(c) \/ Advance(c) \/ FinishAction(c)
    <2>1. Finish(c) /\ pc[c] # "final"
        BY <1>3 DEF SubmitWorkflow, CancelRefused, Advance, FinishAction
    <2> QED
        BY <1>1, <1>2, <2>1, FinishActs, Undisturbed
<1>4. CASE ReadStage(c)
    <2>1. pc[c] # "final" /\ job[c].kind # "escalate" /\ job[c] \in Job
        BY <1>2, <1>4 DEF ReadStage, Kinds, TypeOK
    <2>2. CASE \E i \in PendingRows(job[c].req) : Begin(c, "act", [job[c] EXCEPT !.row = i])
        BY <1>1, <1>2, <2>1, <2>2, BeginActs, Undisturbed DEF Job
    <2>3. CASE Finish(c) \/ Goto(c, "act")
        BY <1>1, <1>2, <2>1, <2>3, FinishActs, GotoActs, Undisturbed
    <2> QED
        BY <1>4, <2>2, <2>3 DEF ReadStage
<1>5. CASE Refused(c)
    <2>1. Finish(c) /\ (pc[c] = "final" => ~StillHeld(job[c].req))
        BY <1>5 DEF Refused, StillHeld
    <2> QED
        BY <1>1, <1>2, <2>1, FinishActs, Undisturbed
<1>6. CASE PropagateBalance(c)
    <2>1. pc[c] # "final" /\ (Goto(c, "finish") \/ Goto(c, "stages"))
        BY <1>6 DEF PropagateBalance
    <2> QED
        BY <1>1, <1>2, <2>1, GotoActs, Undisturbed
<1>7. CASE Crash(c)
    <2>1. Finish(c) /\ pc[c] # "final"
        BY <1>2, <1>7 DEF Crash, Kinds, Unescalated
    <2> QED
        BY <1>1, <1>2, <2>1, FinishActs, Undisturbed
<1>8. ASSUME NEW overdue \in SUBSET Candidates, CronRead(c, overdue) PROVE ActionInv'
    <2>1. pc[c] = "idle" /\ Begin(c, "act", [NoJob EXCEPT !.kind = "cron", !.rows = overdue])
        BY <1>8 DEF CronRead
    <2> QED
        BY <1>1, <1>2, <2>1, BeginActs, Undisturbed DEF NoJob
<1>9. ASSUME NEW r \in Request, BeginCancel(c, r) PROVE ActionInv'
    <2>1. pc[c] = "idle" /\ Begin(c, "act", [Handle("cancel", r) EXCEPT !.was = status[r]])
        BY <1>9 DEF BeginCancel
    <2> QED
        BY <1>1, <1>2, <2>1, BeginActs, Undisturbed DEF NoJob, Handle
<1>10. ASSUME NEW r \in Request, CloseRead(c, r) \/ SlaRead(c, r) PROVE ActionInv'
    <2>1. pc[c] = "idle"
          /\ (Begin(c, "act", Handle("close", r)) \/ Begin(c, "act", Handle("sla", r)))
        BY <1>10 DEF CloseRead, SlaRead
    <2> QED
        BY <1>1, <1>2, <2>1, BeginActs, Undisturbed DEF NoJob, Handle
<1>11. ASSUME NEW r \in Request, NEW k \in Decide \cup {"escalate"}, BeginDecision(c, r, k)
       PROVE  ActionInv'
    <2>1. pc[c] = "idle" /\ k # "escalate" /\ Begin(c, "stage", Handle(k, r))
        BY <1>11 DEF BeginDecision, Free, Unescalated
    <2> QED
        BY <1>1, <1>2, <2>1, BeginActs, Undisturbed DEF NoJob, Handle
<1>12. ASSUME NEW r \in Request, NEW k \in Flow, BeginAction(c, r, k) PROVE ActionInv'
    <2>1. /\ pc[c] = "idle" /\ k # "escalate"
          /\ Begin(c, "act", [Handle(k, r) EXCEPT !.step = wf[r].step])
        BY <1>12 DEF BeginAction, Flow
    <2> QED
        BY <1>1, <1>2, <2>1, BeginActs, Undisturbed DEF NoJob, Handle
<1> QED
    BY <1>3, <1>4, <1>5, <1>6, <1>7, <1>8, <1>9, <1>10, <1>11, <1>12

(* Handlers that write a request or its rows without leaving it pending.   *)
LEMMA DecidingActs ==
    ASSUME TypeOK, FlowInv, ActionInv, NEW c \in Client,
           \/ RejectOrReturn(c) \/ ApproveFinal(c) \/ Cancel(c) \/ CloseWrite(c)
           \/ Propagate(c) \/ PropagateStages(c) \/ SlaApprove(c)
    PROVE  ActionInv'
<1> DEFINE r == job[c].req
<1>1. Kinds /\ pc[c] # "idle"
    BY DEF ActionInv, RejectOrReturn, ApproveFinal, Cancel, CloseWrite, Propagate,
           PropagateStages, SlaApprove
<1>2. r \in Request
    <2>1. job[c].kind # "cron"
        BY <1>1 DEF RejectOrReturn, ApproveFinal, Cancel, CloseWrite, Propagate,
                    PropagateStages, SlaApprove, TypeOK, JobOK, Flow
    <2> QED
        BY <1>1, <2>1, InFlight
<1>3. deleted' = deleted /\ \A q \in Request \ {r} : status'[q] = status[q] /\ stages'[q] = stages[q]
    BY <1>2 DEF RejectOrReturn, ApproveFinal, Cancel, CloseWrite, Propagate, PropagateStatus,
                PropagateStages, SlaApprove, TypeOK
<1>4. ~StillHeld(r)
    <2>1. CASE RejectOrReturn(c) \/ ApproveFinal(c) \/ Cancel(c) \/ CloseWrite(c)
        BY <1>2, <2>1 DEF RejectOrReturn, ApproveFinal, Cancel, CloseWrite, TypeOK, StillHeld
    <2>2. CASE Propagate(c) \/ SlaApprove(c)
        BY <1>2, <2>2 DEF Propagate, SlaApprove, PropagateStatus, Outcome, TypeOK, StillHeld
    <2>3. CASE PropagateStages(c)
        BY <2>3 DEF PropagateStages, FlowInv, LateOK, Late, StillHeld
    <2> QED
        BY <2>1, <2>2, <2>3
<1>5. HeldKept
    BY <1>3, <1>4 DEF HeldKept, Held, StillHeld
<1>6. FinalKept /\ Kinds'
    <2>1. CASE RejectOrReturn(c) \/ ApproveFinal(c) \/ Cancel(c) \/ CloseWrite(c) \/ SlaApprove(c)
        BY <1>1, <1>4, <2>1, FinishActs DEF RejectOrReturn, ApproveFinal, Cancel, CloseWrite,
                                           SlaApprove
    <2>2. CASE Propagate(c) \/ PropagateStages(c)
        BY <1>1, <2>2, GotoActs DEF Propagate, PropagateStages
    <2> QED
        BY <2>1, <2>2
<1> QED
    BY <1>5, <1>6, Undisturbed

LEMMA DeleteActs ==
    ASSUME TypeOK, ActionInv, NEW c \in Client, NEW r \in Request, Delete(c, r)
    PROVE  ActionInv'
<1>1. HeldKept /\ FinalKept /\ Kinds'
    BY DEF Delete, HeldKept, FinalKept, ActionInv, Kinds, Held, StillHeld, TypeOK
<1> QED
    BY <1>1, Undisturbed

LEMMA TerminateActs ==
    ASSUME TypeOK, ActionInv, NEW c \in Client, Terminate(c)
    PROVE  ActionInv'
<1>1. \A r \in Request : ~Held(r)'
    BY DEF Terminate, Held, TypeOK
<1> QED
    BY <1>1 DEF Terminate, ActionInv, OpenRows, Kinds, PendingIsActionable

(* Handlers that give a waiting request a row, or approve one of its rows. *)
LEMMA SubmitActs ==
    ASSUME TypeOK, ActionInv, NEW c \in Client, NEW r \in Request, Submit(c, r)
    PROVE  ActionInv'
<1>1. Kinds' /\ FinalKept
    BY BeginActs DEF Submit, ActionInv, Handle, NoJob
<1>2. stages'[r] = <<PendingStage(1)>>
      /\ \A q \in Request \ {r} : (Held(q)' <=> Held(q)) /\ stages'[q] = stages[q]
    BY DEF Submit, Held, TypeOK
<1>3. PendingRows(r)' # {} /\ \A i \in DOMAIN stages'[r] : stages'[r][i].status # "closed"
    BY <1>2 DEF PendingRows, PendingStage
<1>4. OpenRows'
    BY <1>2, <1>3 DEF ActionInv, OpenRows
<1>5. \A q \in Request \ {r} : PendingRows(q)' = PendingRows(q)
    BY <1>2 DEF PendingRows
<1>6. PendingIsActionable'
    BY <1>1, <1>2, <1>3, <1>5 DEF ActionInv, PendingIsActionable, FinalKept, Held, StillHeld
<1> QED
    BY <1>1, <1>4, <1>6 DEF ActionInv

LEMMA MarkRow ==
    ASSUME NEW s \in Seq(Stage), NEW i \in 1 .. Len(s)
    PROVE  /\ DOMAIN Mark(s, i, "approved") = DOMAIN s
           /\ Mark(s, i, "approved")[i].status = "approved"
           /\ \A k \in DOMAIN s : k # i => Mark(s, i, "approved")[k] = s[k]
<1>1. s[i] \in Stage
    OBVIOUS
<1> QED
    BY <1>1 DEF Mark, Stage

LEMMA ApproveStageActs ==
    ASSUME TypeOK, ActionInv, NEW c \in Client, ApproveStage(c)
    PROVE  ActionInv'
<1> DEFINE r == job[c].req
           i == job[c].row
           marked == IF i # 0 THEN Mark(stages[r], i, "approved") ELSE stages[r]
           step == IF i # 0 THEN stages[r][i].stage ELSE 1
<1>1. /\ pc[c] = "act" /\ job[c].kind = "approve" /\ r \in Request /\ i \in 0 .. Len(stages[r])
      /\ stages[r] \in Seq(Stage) /\ UNCHANGED <<status, deleted>>
    BY InFlight DEF ApproveStage
<1>2. /\ marked \in Seq(Stage) /\ Len(marked) = Len(stages[r])
      /\ \A k \in DOMAIN marked : k \in DOMAIN stages[r]
             /\ (marked[k].status = "approved" \/ marked[k] = stages[r][k])
    <2>1. CASE i = 0
        BY <1>1, <2>1
    <2>2. CASE i # 0
        <3>1. i \in 1 .. Len(stages[r]) /\ "approved" \in StageStatus
            BY <1>1, <2>2 DEF StageStatus
        <3> QED
            BY <1>1, <2>2, <3>1, MarkType, MarkRow
    <2> QED
        BY <2>1, <2>2
<1>3. Held(r) => \A k \in DOMAIN marked : marked[k].status # "closed"
    BY <1>1, <1>2 DEF ActionInv, OpenRows
<1>4. \/ stages' = [stages EXCEPT ![r] = Append(marked, PendingStage(step + 1))] /\ Finish(c)
      \/ stages' = [stages EXCEPT ![r] = marked] /\ Goto(c, "final")
    BY DEF ApproveStage, NextRow
<1> HIDE DEF marked, step
<1>5. \A q \in Request \ {r} : stages'[q] = stages[q] /\ PendingRows(q)' = PendingRows(q)
    BY <1>1, <1>4 DEF TypeOK, PendingRows
<1>6. FinalKept /\ Kinds'
    BY <1>1, <1>4, FinishActs, BeginActs DEF ActionInv, Goto
<1>7. \A q \in Request : Held(q)' <=> Held(q)
    BY <1>1 DEF Held
<1>8. \A q \in Request \ {r} : Held(q)' =>
          PendingRows(q)' # {} \/ \E d \in Client : pc'[d] = "final" /\ job'[d].req = q
    BY <1>5, <1>6, <1>7 DEF ActionInv, PendingIsActionable, FinalKept, Held, StillHeld
<1>9. CASE stages' = [stages EXCEPT ![r] = Append(marked, PendingStage(step + 1))]
    <2>1. stages'[r] = Append(marked, PendingStage(step + 1))
        BY <1>1, <1>9 DEF TypeOK
    <2>2. /\ DOMAIN stages'[r] = 1 .. Len(marked) + 1 /\ DOMAIN marked = 1 .. Len(marked)
          /\ Len(marked) \in Nat
          /\ stages'[r][Len(marked) + 1].status = "pending"
          /\ \A k \in DOMAIN marked : stages'[r][k] = marked[k]
        <3>1. marked \in Seq([stage : Nat, status : StageStatus]) /\ Len(marked) \in Nat
            BY <1>2 DEF Stage
        <3>2. PendingStage(step + 1).status = "pending"
            BY DEF PendingStage
        <3>3. Len(stages'[r]) = Len(marked) + 1 /\ DOMAIN stages'[r] = 1 .. Len(marked) + 1
            BY <2>1, <3>1
        <3>4. stages'[r][Len(marked) + 1] = PendingStage(step + 1)
            BY <2>1, <3>1
        <3>5. \A k \in DOMAIN marked : stages'[r][k] = marked[k]
            BY <2>1, <3>1
        <3> QED
            BY <3>1, <3>2, <3>3, <3>4, <3>5
    <2>4. Held(r) => \A k \in DOMAIN stages'[r] : stages'[r][k].status # "closed"
        BY <1>3, <2>2
    <2>5. OpenRows'
        BY <1>5, <1>7, <2>4 DEF ActionInv, OpenRows
    <2>6. \E k \in DOMAIN stages'[r] : stages'[r][k].status = "pending"
        BY <2>2
    <2>7. PendingIsActionable'
        BY <1>8, <2>6 DEF PendingIsActionable, PendingRows
    <2> QED
        BY <1>6, <2>5, <2>7 DEF ActionInv
<1>10. CASE stages' = [stages EXCEPT ![r] = marked] /\ Goto(c, "final")
    <2>1. stages'[r] = marked /\ pc'[c] = "final" /\ job'[c].req = r
        BY <1>1, <1>10 DEF TypeOK, Goto, Begin
    <2>2. OpenRows'
        BY <1>3, <1>5, <1>7, <2>1 DEF ActionInv, OpenRows
    <2>3. PendingIsActionable'
        BY <1>8, <2>1 DEF PendingIsActionable
    <2> QED
        BY <1>6, <2>2, <2>3 DEF ActionInv
<1> QED
    BY <1>4, <1>9, <1>10

LEMMA CronApproveActs ==
    ASSUME TypeOK, ActionInv, NEW c \in Client, NEW x \in job[c].rows, CronApprove(c, x)
    PROVE  ActionInv'
<1>1. pc[c] = "act" /\ deleted' = deleted
    BY DEF CronApprove
<1>2. PICK r \in Request, i \in Nat : r = x[1] /\ i = x[2]
    <2>1. job[c].rows \in SUBSET (Request \X Nat)
        BY DEF TypeOK, Job
    <2>2. x \in Request \X Nat
        BY <2>1
    <2> QED
        BY <2>2
<1>3. stages[r] \in Seq(Stage) /\ i \in 1 .. Len(stages[r])
    BY <1>2 DEF TypeOK, JobOK
<1>4. stages' = [stages EXCEPT ![r] = Mark(stages[r], i, "approved")]
    BY <1>2 DEF CronApprove
<1>5. /\ stages'[r] = Mark(stages[r], i, "approved")
      /\ \A q \in Request \ {r} : stages'[q] = stages[q] /\ PendingRows(q)' = PendingRows(q)
    BY <1>2, <1>4 DEF TypeOK, PendingRows
<1>6. \A q \in Request : Held(q)' => Held(q)
    BY <1>1, <1>2 DEF CronApprove, Held, TypeOK
<1>7. FinalKept /\ Kinds'
    <2>1. job[c].kind # "escalate" /\ job[c] \in Job
        BY DEF ActionInv, Kinds, TypeOK
    <2>2. CASE Finish(c)
        BY <1>1, <2>2, FinishActs DEF ActionInv
    <2>3. CASE Begin(c, "act", [job[c] EXCEPT !.rows = @ \ {x}])
        BY <1>1, <2>1, <2>3, BeginActs DEF ActionInv, Job
    <2> QED
        BY <2>2, <2>3 DEF CronApprove
<1>8. \A k \in DOMAIN stages[r] : k # i => stages'[r][k] = stages[r][k]
    BY <1>3, <1>5, MarkRow
<1>9. DOMAIN stages'[r] = DOMAIN stages[r] /\ stages'[r][i].status = "approved"
    BY <1>3, <1>5, MarkRow
<1>10. OpenRows'
    <2>1. Held(r) => \A k \in DOMAIN stages'[r] : stages'[r][k].status # "closed"
        BY <1>8, <1>9 DEF ActionInv, OpenRows
    <2> QED
        BY <1>5, <1>6, <2>1 DEF ActionInv, OpenRows
<1>11. ASSUME Held(r)' PROVE \E k \in DOMAIN stages'[r] : stages'[r][k].status = "pending"
    <2>1. ~LastStage(r, i)
        BY <1>2, <1>11 DEF CronApprove, Held, TypeOK
    <2>2. PICK k \in DOMAIN stages[r] \ {i} : stages[r][k].status # "approved"
        BY <2>1 DEF LastStage
    <2>3. stages[r][k].status = "pending"
        <3>1. stages[r][k] \in Stage
            BY <1>3, <2>2
        <3> QED
            BY <1>6, <1>11, <2>2, <3>1 DEF ActionInv, OpenRows, Stage, StageStatus
    <2> QED
        BY <1>8, <1>9, <2>2, <2>3
<1>12. \A q \in Request \ {r} : Held(q)' =>
          PendingRows(q)' # {} \/ \E d \in Client : pc'[d] = "final" /\ job'[d].req = q
    BY <1>5, <1>6, <1>7 DEF ActionInv, PendingIsActionable, FinalKept, Held, StillHeld
<1>13. PendingIsActionable'
    BY <1>11, <1>12 DEF PendingIsActionable, PendingRows
<1> QED
    BY <1>7, <1>10, <1>13 DEF ActionInv

LEMMA ActionNext ==
    ASSUME TypeOK, FlowInv, ActionInv, Unescalated, Next
    PROVE  ActionInv'
<1>1. ASSUME NEW c \in Client, Start(c) PROVE ActionInv'
    BY <1>1, TerminateActs, SubmitActs, DeleteActs, QuietActs DEF Start
<1>2. ASSUME NEW c \in Client, Continue(c) PROVE ActionInv'
    <2>1. ~Escalate(c)
        BY DEF Escalate, ActionInv, Kinds
    <2> QED
        BY <1>2, <2>1, QuietActs, DecidingActs, ApproveStageActs, CronApproveActs DEF Continue
<1>3. ASSUME NEW c \in Client, Crash(c) PROVE ActionInv'
    BY <1>3, QuietActs
<1> QED
    BY <1>1, <1>2, <1>3 DEF Next

(* A waiting request that nobody escalates by hand always has a stage that *)
(* somebody can act upon, or is about to be approved, whichever handlers   *)
(* overlap or die, if approvals live until their second transaction.       *)
THEOREM WaitingIsActionable == ASSUME Unescalated PROVE Spec => []PendingIsActionable
<1>1. Init => FlowInv /\ ActionInv
    <2>1. Init => ActionInv
        BY DEF Init, ActionInv, OpenRows, Kinds, PendingIsActionable, Held, NoJob
    <2> QED
        BY <2>1, FlowInit
<1>2. TypeOK /\ FlowInv /\ ActionInv /\ [Next]_vars => FlowInv' /\ ActionInv'
    <2>1. ASSUME FlowInv, ActionInv, UNCHANGED vars PROVE FlowInv' /\ ActionInv'
        BY <2>1 DEF FlowInv, LateOK, WorkflowNotAhead, ActionInv, OpenRows, Kinds,
                    PendingIsActionable, PendingRows, Held, vars
    <2> QED
        BY <2>1, FlowNext, ActionNext
<1>3. ActionInv => PendingIsActionable
    BY DEF ActionInv
<1> QED
    BY <1>1, <1>2, <1>3, LeaveTypeCorrect, PTL DEF Spec

-----------------------------------------------------------------------------
(* A decision stays, when the jobs that update a request by its id overlap *)
(* no other handler of that request: what they read of it then still holds *)
(* when they write.                                                        *)
JobsAlone == {"cron", "close"} \subseteq Alone

Decided == {"rejected", "returned", "cancelled", "completed"}
ById == {"cron", "close"}
Holds(c, r) == pc[c] \notin {"idle", "spawn"} /\ r \in On(c)

OneHandler == \A c, d \in Client : \A r \in Request :
                  c # d /\ Holds(c, r) /\ Holds(d, r) => job[c].kind \notin ById
StillTrue == \A c \in Client : \A r \in Request : Holds(c, r) =>
                 /\ job[c].kind = "cron" => status[r] \in {"pending", "approved"}
                 /\ job[c].kind = "close" => status[r] = "approved"
RowsOfCron == \A c \in Client : job[c].kind # "cron" => job[c].rows = {}
JobsInv == OneHandler /\ StillTrue /\ RowsOfCron

(* c goes on with what it holds, or with less of it; the others stay.      *)
Proceeds(c) ==
    /\ \A d \in Client : d # c => pc'[d] = pc[d] /\ job'[d] = job[d]
    /\ \A r \in Request : Holds(c, r)' => Holds(c, r) /\ job'[c].kind = job[c].kind
    /\ job'[c].kind # "cron" => job'[c].rows = {}

LEMMA HandlerProceeds ==
    ASSUME TypeOK, JobsInv, NEW c \in Client, Proceeds(c),
           \A r \in Request : status'[r] # status[r] => Holds(c, r),
           \A r \in Request : job[c].kind \in ById /\ Holds(c, r)' =>
               status'[r] \in {status[r], "approved"}
    PROVE  JobsInv'
<1>1. \A d \in Client : \A r \in Request :
          Holds(d, r)' => Holds(d, r) /\ job'[d].kind = job[d].kind
    BY DEF Proceeds, Holds, On
<1>2. OneHandler'
    BY <1>1 DEF JobsInv, OneHandler
<1>3. ASSUME NEW d \in Client, NEW r \in Request, Holds(d, r)', job'[d].kind \in ById
      PROVE  status'[r] \in {status[r], "approved"}
    <2>1. CASE d = c
        BY <1>1, <1>3, <2>1
    <2>2. CASE d # c
        <3>1. ~Holds(c, r)
            BY <1>1, <1>3, <2>2 DEF JobsInv, OneHandler
        <3> QED
            BY <3>1
    <2> QED
        BY <2>1, <2>2
<1>4. StillTrue'
    BY <1>1, <1>3 DEF JobsInv, StillTrue, ById
<1>5. RowsOfCron'
    BY DEF JobsInv, RowsOfCron, Proceeds
<1> QED
    BY <1>2, <1>4, <1>5 DEF JobsInv

LEMMA FinishProceeds ==
    ASSUME TypeOK, NEW c \in Client, Finish(c)
    PROVE  Proceeds(c) /\ \A r \in Request : ~Holds(c, r)'
BY DEF Finish, Begin, Proceeds, Holds, NoJob, TypeOK

LEMMA GotoProceeds ==
    ASSUME TypeOK, JobsInv, NEW c \in Client, NEW s \in Phase, Goto(c, s),
           pc[c] \notin {"idle", "spawn"}
    PROVE  Proceeds(c)
BY DEF Goto, Begin, Proceeds, Holds, On, JobsInv, RowsOfCron, TypeOK

(* A handler that begins on request r while it is free to.                 *)
LEMMA StartsFree ==
    ASSUME TypeOK, JobsInv, JobsAlone, NEW c \in Client, NEW s, NEW j,
           NEW k \in Kind, NEW r \in Request, Begin(c, s, j),
           pc[c] = "idle", Free(k, r), UNCHANGED status,
           j.kind = k, j.req = r, j.rows = {}, k # "cron",
           k = "close" => status[r] = "approved"
    PROVE  JobsInv'
<1>1. /\ pc'[c] = s /\ job'[c] = j
      /\ \A d \in Client : d # c => pc'[d] = pc[d] /\ job'[d] = job[d]
    BY DEF Begin, TypeOK
<1>2. \A d \in Client : \A q \in Request : d # c => (Holds(d, q)' <=> Holds(d, q))
    BY <1>1 DEF Holds, On
<1>3. \A q \in Request : Holds(c, q)' => q = r
    BY <1>1 DEF Holds, On
<1>4. \A d \in Client : Holds(d, r) => k \notin ById /\ job[d].kind \notin ById
    BY DEF Free, Holds, JobsAlone, ById
<1>5. OneHandler'
    BY <1>1, <1>2, <1>3, <1>4 DEF JobsInv, OneHandler
<1>6. StillTrue'
    BY <1>1, <1>2, <1>3 DEF JobsInv, StillTrue
<1>7. RowsOfCron'
    BY <1>1 DEF JobsInv, RowsOfCron
<1> QED
    BY <1>5, <1>6, <1>7 DEF JobsInv

LEMMA CronReads ==
    ASSUME TypeOK, JobsInv, JobsAlone, NEW c \in Client, NEW overdue \in SUBSET Candidates,
           CronRead(c, overdue)
    PROVE  JobsInv'
<1> DEFINE j == [NoJob EXCEPT !.kind = "cron", !.rows = overdue]
<1>1. /\ pc'[c] = "act" /\ job'[c] = j /\ UNCHANGED status
      /\ \A d \in Client : d # c => pc'[d] = pc[d] /\ job'[d] = job[d]
    BY DEF CronRead, Begin, TypeOK
<1>2. \A d \in Client : \A q \in Request : d # c => (Holds(d, q)' <=> Holds(d, q))
    BY <1>1 DEF Holds, On
<1>3. j.kind = "cron" /\ j.req = None /\ j.rows = overdue
    BY DEF NoJob
<1>4. ASSUME NEW q \in Request, Holds(c, q)' PROVE \E x \in overdue : x[1] = q
    BY <1>1, <1>3, <1>4, LeaveAssumption DEF Holds, On
<1>5. ASSUME NEW q \in Request, Holds(c, q)'
      PROVE  status[q] = "pending" /\ \A d \in Client : ~Holds(d, q)
    <2>1. PICK x \in overdue : x[1] = q
        BY <1>4, <1>5
    <2>2. Free("cron", q) /\ status[q] = "pending"
        BY <2>1 DEF CronRead, Candidates
    <2> QED
        BY <2>2 DEF Free, Holds, JobsAlone
<1>6. OneHandler'
    BY <1>1, <1>2, <1>5 DEF JobsInv, OneHandler
<1>7. StillTrue'
    BY <1>1, <1>2, <1>3, <1>5 DEF JobsInv, StillTrue
<1>8. RowsOfCron'
    BY <1>1, <1>3 DEF JobsInv, RowsOfCron
<1> QED
    BY <1>6, <1>7, <1>8 DEF JobsInv

LEMMA StartJobs ==
    ASSUME TypeOK, JobsInv, JobsAlone, NEW c \in Client, Start(c)
    PROVE  JobsInv'
<1>1. CASE Terminate(c)
    <2>1. \A d \in Client : \A r \in Request : Holds(d, r) => job[d].kind \notin ById
        BY <1>1 DEF Terminate, Free, Holds, JobsAlone, ById
    <2>2. UNCHANGED <<pc, job>>
        BY <1>1 DEF Terminate
    <2>3. \A d \in Client : \A r \in Request : Holds(d, r)' <=> Holds(d, r)
        BY <2>2 DEF Holds, On
    <2> QED
        BY <2>1, <2>2, <2>3 DEF JobsInv, OneHandler, StillTrue, RowsOfCron, ById
<1>2. ASSUME NEW overdue \in SUBSET Candidates, CronRead(c, overdue) PROVE JobsInv'
    BY <1>2, CronReads
<1>3. ASSUME NEW r \in Request, Submit(c, r) PROVE JobsInv'
    <2>1. /\ pc'[c] = "spawn" /\ job'[c] = Handle("submit", r)
          /\ \A d \in Client : d # c => pc'[d] = pc[d] /\ job'[d] = job[d]
          /\ status[r] = "none" /\ \A q \in Request : q # r => status'[q] = status[q]
        BY <1>3 DEF Submit, Begin, TypeOK
    <2>2. \A d \in Client : \A q \in Request : Holds(d, q)' => d # c /\ Holds(d, q)
        BY <2>1 DEF Holds, On
    <2>3. job'[c].kind = "submit" /\ job'[c].rows = {}
        BY <2>1 DEF Handle, NoJob
    <2> QED
        BY <2>1, <2>2, <2>3 DEF JobsInv, OneHandler, StillTrue, RowsOfCron
<1>4. ASSUME NEW r \in Request, BeginCancel(c, r) PROVE JobsInv'
    <2> DEFINE j == [Handle("cancel", r) EXCEPT !.was = status[r]]
    <2>1. j.kind = "cancel" /\ j.req = r /\ j.rows = {} /\ "cancel" \in Kind
        BY DEF Handle, NoJob, Kind
    <2> QED
        BY <1>4, <2>1, StartsFree DEF BeginCancel
<1>5. ASSUME NEW r \in Request, Delete(c, r) PROVE JobsInv'
    BY <1>5 DEF Delete, JobsInv, OneHandler, StillTrue, RowsOfCron, Holds, On
<1>6. ASSUME NEW r \in Request, CloseRead(c, r) \/ SlaRead(c, r) PROVE JobsInv'
    <2>1. \A k \in {"close", "sla"} : Handle(k, r).kind = k /\ Handle(k, r).req = r
                                      /\ Handle(k, r).rows = {} /\ k \in Kind
        BY DEF Handle, NoJob, Kind
    <2> QED
        BY <1>6, <2>1, StartsFree DEF CloseRead, SlaRead
<1>7. ASSUME NEW r \in Request, NEW k \in Decide \cup {"escalate"}, BeginDecision(c, r, k)
      PROVE  JobsInv'
    <2>1. /\ Handle(k, r).kind = k /\ Handle(k, r).req = r /\ Handle(k, r).rows = {}
          /\ k \in Kind /\ k \notin ById
        BY DEF Handle, NoJob, Kind, Decide, ById
    <2> QED
        BY <1>7, <2>1, StartsFree DEF BeginDecision, ById
<1>8. ASSUME NEW r \in Request, NEW k \in Flow, BeginAction(c, r, k) PROVE JobsInv'
    <2> DEFINE j == [Handle(k, r) EXCEPT !.step = wf[r].step]
    <2>1. j.kind = k /\ j.req = r /\ j.rows = {} /\ k \in Kind /\ k \notin ById
        BY DEF Handle, NoJob, Kind, Flow, ById
    <2> QED
        BY <1>8, <2>1, StartsFree DEF BeginAction, ById
<1> QED
    BY <1>1, <1>2, <1>3, <1>4, <1>5, <1>6, <1>7, <1>8 DEF Start

LEMMA ContinueJobs ==
    ASSUME TypeOK, JobsInv, NEW c \in Client, Continue(c) \/ Crash(c)
    PROVE  JobsInv'
<1>1. CASE \/ SubmitWorkflow(c) \/ Refused(c) \/ CancelRefused(c) \/ Escalate(c)
           \/ Advance(c) \/ FinishAction(c) \/ Crash(c)
    <2>1. Finish(c) /\ UNCHANGED status
        BY <1>1 DEF SubmitWorkflow, Refused, CancelRefused, Escalate, Advance, FinishAction, Crash
    <2> QED
        BY <2>1, FinishProceeds, HandlerProceeds
<1>2. CASE \/ RejectOrReturn(c) \/ ApproveFinal(c) \/ Cancel(c) \/ CloseWrite(c) \/ SlaApprove(c)
    <2>1. Finish(c)
        BY <1>2 DEF RejectOrReturn, ApproveFinal, Cancel, CloseWrite, SlaApprove
    <2>2. \A r \in Request : status'[r] # status[r] => r = job[c].req
        BY <1>2 DEF RejectOrReturn, ApproveFinal, Cancel, CloseWrite, SlaApprove, PropagateStatus,
                    TypeOK
    <2>3. pc[c] \in {"act", "final"}
        BY <1>2 DEF RejectOrReturn, ApproveFinal, Cancel, CloseWrite, SlaApprove
    <2>4. \A r \in Request : status'[r] # status[r] => Holds(c, r)
        BY <2>2, <2>3 DEF Holds, On
    <2> QED
        BY <2>1, <2>4, FinishProceeds, HandlerProceeds
<1>3. CASE ReadStage(c)
    <2>1. pc[c] = "stage" /\ UNCHANGED status /\ job[c] \in Job
        BY <1>3 DEF ReadStage, TypeOK
    <2>2. ASSUME NEW i, Begin(c, "act", [job[c] EXCEPT !.row = i]) PROVE Proceeds(c)
        <3> DEFINE j == [job[c] EXCEPT !.row = i]
        <3>1. j.kind = job[c].kind /\ j.req = job[c].req /\ j.rows = job[c].rows
            BY <2>1 DEF Job
        <3>2. /\ pc'[c] = "act" /\ job'[c] = j
              /\ \A d \in Client : d # c => pc'[d] = pc[d] /\ job'[d] = job[d]
            BY <2>2 DEF Begin, TypeOK
        <3> HIDE DEF j
        <3> QED
            BY <2>1, <3>1, <3>2 DEF Proceeds, Holds, On, JobsInv, RowsOfCron
    <2>3. Proceeds(c)
        BY <1>3, <2>1, <2>2, FinishProceeds, GotoProceeds DEF ReadStage, Phase
    <2> QED
        BY <2>1, <2>3, HandlerProceeds
<1>4. CASE ApproveStage(c) \/ PropagateBalance(c) \/ PropagateStages(c)
    <2>1. /\ pc[c] \notin {"idle", "spawn"} /\ UNCHANGED status
          /\ \/ Finish(c)
             \/ \E s \in Phase : Goto(c, s)
        BY <1>4 DEF ApproveStage, PropagateBalance, PropagateStages, Phase
    <2>2. Proceeds(c)
        BY <2>1, FinishProceeds, GotoProceeds
    <2> QED
        BY <2>1, <2>2, HandlerProceeds
<1>5. CASE Propagate(c)
    <2>1. pc[c] = "act" /\ job[c].kind \in Flow /\ \E s \in Phase : Goto(c, s)
        BY <1>5 DEF Propagate, Phase
    <2>2. Proceeds(c) /\ job[c].kind \notin ById
        BY <2>1, GotoProceeds DEF ById, Flow
    <2>3. \A r \in Request : status'[r] # status[r] => r = job[c].req
        BY <1>5 DEF Propagate, PropagateStatus, TypeOK
    <2>4. \A r \in Request : status'[r] # status[r] => Holds(c, r)
        BY <2>1, <2>3 DEF Holds, On
    <2> QED
        BY <2>2, <2>4, HandlerProceeds
<1>6. ASSUME NEW x \in job[c].rows, CronApprove(c, x) PROVE JobsInv'
    <2>1. pc[c] = "act" /\ job[c] \in Job
        BY <1>6 DEF CronApprove, TypeOK
    <2>2. \A r \in Request : /\ status'[r] # status[r] => r = x[1]
                             /\ status'[r] \in {status[r], "approved"}
        BY <1>6 DEF CronApprove, TypeOK
    <2>3. \A r \in Request : status'[r] # status[r] => Holds(c, r)
        BY <2>1, <2>2 DEF Holds, On
    <2>4. ASSUME Begin(c, "act", [job[c] EXCEPT !.rows = @ \ {x}]) PROVE Proceeds(c)
        <3> DEFINE j == [job[c] EXCEPT !.rows = @ \ {x}]
        <3>1. j.kind = job[c].kind /\ j.req = job[c].req /\ j.rows \subseteq job[c].rows
            BY <2>1 DEF Job
        <3>2. /\ pc'[c] = "act" /\ job'[c] = j
              /\ \A d \in Client : d # c => pc'[d] = pc[d] /\ job'[d] = job[d]
            BY <2>4 DEF Begin, TypeOK
        <3> HIDE DEF j
        <3> QED
            BY <2>1, <3>1, <3>2 DEF Proceeds, Holds, On, JobsInv, RowsOfCron
    <2>5. Proceeds(c)
        BY <1>6, <2>4, FinishProceeds DEF CronApprove
    <2> QED
        BY <2>2, <2>3, <2>5, HandlerProceeds
<1> QED
    BY <1>1, <1>2, <1>3, <1>4, <1>5, <1>6 DEF Continue

DecisionsKept == \A r \in Request : status[r] \in Decided => status'[r] = status[r]

LEMMA JobsKeepDecisions ==
    ASSUME TypeOK, JobsInv, Next
    PROVE  DecisionsKept
<1>1. ASSUME NEW c \in Client, Start(c) PROVE DecisionsKept
    BY <1>1 DEF Start, Terminate, CronRead, Submit, BeginCancel, Delete, CloseRead, SlaRead,
                BeginDecision, BeginAction, DecisionsKept, Decided, Held, TypeOK
<1>2. ASSUME NEW c \in Client, Crash(c) PROVE DecisionsKept
    BY <1>2 DEF Crash, DecisionsKept
<1>3. ASSUME NEW c \in Client, RejectOrReturn(c) \/ ApproveFinal(c) \/ Cancel(c)
      PROVE  DecisionsKept
    BY <1>3 DEF RejectOrReturn, ApproveFinal, Cancel, Transition, DecisionsKept, Decided, TypeOK
<1>4. ASSUME NEW c \in Client, Propagate(c) \/ SlaApprove(c) PROVE DecisionsKept
    BY <1>4 DEF Propagate, SlaApprove, PropagateStatus, DecisionsKept, Decided, TypeOK
<1>5. ASSUME NEW c \in Client, CloseWrite(c) PROVE DecisionsKept
    <2>1. pc[c] = "act" /\ job[c].kind = "close"
        BY <1>5 DEF CloseWrite
    <2>2. job[c].req \in Request => status[job[c].req] = "approved"
        BY <2>1 DEF JobsInv, StillTrue, Holds, On
    <2> QED
        BY <1>5, <2>2 DEF CloseWrite, DecisionsKept, Decided, TypeOK
<1>6. ASSUME NEW c \in Client, NEW x \in job[c].rows, CronApprove(c, x) PROVE DecisionsKept
    <2>1. pc[c] = "act" /\ job[c].kind = "cron"
        BY <1>6 DEF CronApprove, JobsInv, RowsOfCron
    <2>2. x[1] \in Request => status[x[1]] \in {"pending", "approved"}
        BY <2>1 DEF JobsInv, StillTrue, Holds, On
    <2> QED
        BY <1>6, <2>2 DEF CronApprove, DecisionsKept, Decided, TypeOK
<1>7. ASSUME NEW c \in Client,
             \/ SubmitWorkflow(c) \/ ReadStage(c) \/ ApproveStage(c) \/ Escalate(c) \/ Refused(c)
             \/ CancelRefused(c) \/ Advance(c) \/ PropagateBalance(c) \/ PropagateStages(c)
             \/ FinishAction(c)
      PROVE  DecisionsKept
    BY <1>7 DEF SubmitWorkflow, ReadStage, ApproveStage, Escalate, Refused, CancelRefused, Advance,
                PropagateBalance, PropagateStages, FinishAction, DecisionsKept
<1> QED
    BY <1>1, <1>2, <1>3, <1>4, <1>5, <1>6, <1>7 DEF Next, Continue

(* No handler decides a request anew that was rejected, returned,          *)
(* cancelled or completed after it read it, if the two jobs that do not    *)
(* look at the status again overlap no other handler of the request.       *)
THEOREM DecisionsAreFinal == ASSUME JobsAlone PROVE Spec => DecidedStays
<1>1. Init => JobsInv
    BY DEF Init, JobsInv, OneHandler, StillTrue, RowsOfCron, Holds, NoJob
<1>2. TypeOK /\ JobsInv /\ [Next]_vars => JobsInv'
    <2>1. ASSUME JobsInv, UNCHANGED vars PROVE JobsInv'
        BY <2>1 DEF JobsInv, OneHandler, StillTrue, RowsOfCron, Holds, On, vars
    <2> QED
        BY <2>1, StartJobs, ContinueJobs DEF Next
<1>3. TypeOK /\ JobsInv /\ [Next]_vars =>
          [\A r \in Request : status[r] \in {"rejected", "returned", "cancelled", "completed"}
               => status'[r] = status[r]]_vars
    BY JobsKeepDecisions DEF DecisionsKept, Decided
<1> QED
    BY <1>1, <1>2, <1>3, LeaveTypeCorrect, PTL DEF Spec, DecidedStays
=============================================================================
