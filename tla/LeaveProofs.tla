---------------------------- MODULE LeaveProofs ----------------------------
(* The type invariant of Leave, and what follows from it alone.            *)
EXTENDS Leave, TLAPS

-----------------------------------------------------------------------------
(* Operators on stage rows keep their type and number.                     *)

LEMMA MarkType ==
    ASSUME NEW s \in Seq(Stage), NEW i \in 1 .. Len(s), NEW to \in StageStatus
    PROVE  Mark(s, i, to) \in Seq(Stage) /\ Len(Mark(s, i, to)) = Len(s)
<1>0. s[i] \in Stage
    OBVIOUS
<1>1. [s[i] EXCEPT !.status = to] \in Stage
    BY <1>0 DEF Stage
<1> QED
    BY <1>1 DEF Mark

LEMMA MarkRowsType ==
    ASSUME NEW s \in Seq(Stage), NEW rows, NEW to \in StageStatus
    PROVE  MarkRows(s, rows, to) \in Seq(Stage) /\ Len(MarkRows(s, rows, to)) = Len(s)
<1>0. \A i \in 1 .. Len(s) : s[i] \in Stage
    OBVIOUS
<1>1. \A i \in 1 .. Len(s) :
          (IF i \in rows THEN [s[i] EXCEPT !.status = to] ELSE s[i]) \in Stage
    BY <1>0 DEF Stage
<1> QED
    BY <1>1 DEF MarkRows

LEMMA MarkPendingType ==
    ASSUME NEW s \in Seq(Stage), NEW to \in StageStatus
    PROVE  MarkPending(s, to) \in Seq(Stage) /\ Len(MarkPending(s, to)) = Len(s)
BY MarkRowsType DEF MarkPending

LEMMA AppendRowType ==
    ASSUME NEW s \in Seq(Stage), NEW n \in Nat
    PROVE  /\ Append(s, PendingStage(n)) \in Seq(Stage)
           /\ Len(Append(s, PendingStage(n))) = Len(s) + 1
BY DEF PendingStage, Stage, StageStatus

LEMMA EntitledType == Entitled \in Nat /\ \A r \in Request : Days[r] \in Nat
BY LeaveAssumption

LEMMA FloorType == \A n \in Int : Floor(n) \in Nat
BY DEF Floor

-----------------------------------------------------------------------------
(* A step loses no request and no stage row, and adds rows to requests only. *)
StagesGrow ==
    /\ stages' \in [Request -> Seq(Stage)]
    /\ \A r \in Request : Len(stages'[r]) >= Len(stages[r])
    /\ \A r \in Request : status'[r] = "none" => status[r] = "none"
    /\ \A r \in Request : status'[r] = "none" => stages'[r] = <<>>

LEMMA Others ==
    ASSUME TypeOK, StagesGrow, NEW d \in Client, pc'[d] = pc[d], job'[d] = job[d]
    PROVE  JobOK(d)'
<1>1. JobOK(d) /\ job[d] \in Job /\ stages \in [Request -> Seq(Stage)]
    BY DEF TypeOK
<1>2. \A r \in Request : Len(stages[r]) \in Nat /\ Len(stages'[r]) \in Nat
    BY <1>1 DEF StagesGrow
<1>3. job[d].req \in Request => /\ status'[job[d].req] # "none"
                              /\ job[d].row \in 0 .. Len(stages'[job[d].req])
    BY <1>1, <1>2 DEF StagesGrow, JobOK, Job
<1>4. \A x \in job[d].rows : x[1] \in Request /\ x[2] \in DOMAIN stages[x[1]]
    BY <1>1 DEF JobOK, Job
<1>5. \A x \in job[d].rows : x[2] \in DOMAIN stages'[x[1]]
    BY <1>1, <1>2, <1>4 DEF StagesGrow
<1> QED
    BY <1>1, <1>3, <1>5 DEF JobOK

(* A handler goes to a step with a record that suits it, the others stay.  *)
LEMMA BeginType ==
    ASSUME TypeOK, StagesGrow, NEW c \in Client, NEW s \in Phase, NEW j \in Job,
           Begin(c, s, j),
           s = "idle" => j = NoJob,
           s # "idle" /\ j.kind # "cron" => j.req \in Request,
           s # "idle" /\ j.kind = "cron" => s = "act" /\ j.req = None,
           j.req \in Request => status'[j.req] # "none" /\ j.row \in 0 .. Len(stages'[j.req]),
           \A x \in j.rows : x[2] \in DOMAIN stages'[x[1]]
    PROVE  /\ pc' \in [Client -> Phase] /\ job' \in [Client -> Job]
           /\ \A d \in Client : JobOK(d)'
<1>1. pc' \in [Client -> Phase] /\ job' \in [Client -> Job]
    BY DEF Begin, TypeOK
<1>2. pc'[c] = s /\ job'[c] = j
    BY DEF Begin, TypeOK
<1>3. JobOK(c)'
    BY <1>2 DEF JobOK
<1>4. ASSUME NEW d \in Client, d # c PROVE JobOK(d)'
    <2>1. pc'[d] = pc[d] /\ job'[d] = job[d]
        BY <1>4 DEF Begin, TypeOK
    <2> QED
        BY <2>1, Others
<1> QED
    BY <1>1, <1>3, <1>4

LEMMA NoJobType == NoJob \in Job /\ NoJob.rows = {} /\ NoJob.req = None
BY DEF NoJob, Job, Status

LEMMA FinishType ==
    ASSUME TypeOK, StagesGrow, NEW c \in Client, Finish(c)
    PROVE  /\ pc' \in [Client -> Phase] /\ job' \in [Client -> Job]
           /\ \A d \in Client : JobOK(d)'
<1>1. "idle" \in Phase /\ None \notin Request
    BY LeaveAssumption DEF Phase
<1> QED
    BY <1>1, NoJobType, BeginType DEF Finish

(* A handler that starts on a request has read no stage yet.               *)
LEMMA HandleType ==
    ASSUME NEW k \in Kind, NEW r \in Request
    PROVE  /\ Handle(k, r) \in Job
           /\ Handle(k, r).req = r /\ Handle(k, r).kind = k
           /\ Handle(k, r).row = 0 /\ Handle(k, r).rows = {}
BY DEF Handle, NoJob, Job, Status

(* A job in flight whose record is kept, up to its row, its old status or  *)
(* its step.                                                               *)
LEMMA GotoType ==
    ASSUME TypeOK, StagesGrow, NEW c \in Client, NEW s \in Phase, Goto(c, s),
           pc[c] # "idle", s # "idle", job[c].kind # "cron"
    PROVE  /\ pc' \in [Client -> Phase] /\ job' \in [Client -> Job]
           /\ \A d \in Client : JobOK(d)'
<1>1. job[c] \in Job /\ JobOK(c) /\ job[c].req \in Request
    BY DEF TypeOK, JobOK
<1>2. /\ status'[job[c].req] # "none"
      /\ job[c].row \in 0 .. Len(stages'[job[c].req])
      /\ \A x \in job[c].rows : x[2] \in DOMAIN stages'[x[1]]
    <2>1. stages \in [Request -> Seq(Stage)]
        BY DEF TypeOK
    <2>2. \A r \in Request : Len(stages[r]) \in Nat /\ Len(stages'[r]) \in Nat
        BY <2>1 DEF StagesGrow
    <2>3. job[c].row \in 0 .. Len(stages'[job[c].req])
        BY <1>1, <2>2 DEF JobOK, Job, StagesGrow
    <2>4. \A x \in job[c].rows : x[1] \in Request
        BY <1>1 DEF Job
    <2>5. \A x \in job[c].rows : x[2] \in DOMAIN stages'[x[1]]
        BY <1>1, <2>1, <2>2, <2>4 DEF JobOK, StagesGrow
    <2> QED
        BY <1>1, <2>3, <2>5 DEF JobOK, StagesGrow
<1> QED
    BY <1>1, <1>2, BeginType DEF Goto

-----------------------------------------------------------------------------
(* Type correctness, action by action.                                     *)

(* What a step writes besides the stage rows and the handlers.             *)
DataOK ==
    /\ status \in [Request -> Status]
    /\ deleted \in [Request -> BOOLEAN]
    /\ used \in Int /\ reserved \in Int
    /\ wf \in [Request -> Workflow]
    /\ \A r \in Request : status[r] = "none" => wf[r].status = "none"

HandlersOK ==
    /\ pc \in [Client -> Phase] /\ job \in [Client -> Job]
    /\ \A d \in Client : JobOK(d)

LEMMA Parts ==
    /\ TypeOK => DataOK /\ HandlersOK
    /\ DataOK' /\ HandlersOK' /\ StagesGrow => TypeOK'
BY DEF TypeOK, DataOK, HandlersOK, StagesGrow

LEMMA DataKept ==
    ASSUME TypeOK, UNCHANGED <<status, deleted, balance, wf>>
    PROVE  DataOK'
<1>1. DataOK
    BY Parts
<1> QED
    BY <1>1 DEF DataOK, balance

LEMMA HandlersKept ==
    ASSUME TypeOK, StagesGrow, UNCHANGED <<pc, job>>
    PROVE  HandlersOK'
<1>1. \A d \in Client : JobOK(d)'
    BY Others
<1> QED
    BY <1>1 DEF HandlersOK, TypeOK

LEMMA StagesKept ==
    ASSUME TypeOK, stages' = stages,
           \A r \in Request : status'[r] = "none" => status[r] = "none"
    PROVE  StagesGrow
<1>1. stages \in [Request -> Seq(Stage)] /\ \A r \in Request : Len(stages[r]) \in Nat
    BY DEF TypeOK
<1> QED
    BY <1>1 DEF StagesGrow, TypeOK

(* A request that exists gets new rows for its old ones.                   *)
LEMMA StagesReplaced ==
    ASSUME TypeOK, NEW r \in Request, NEW s \in Seq(Stage), Len(s) >= Len(stages[r]),
           stages' = [stages EXCEPT ![r] = s],
           status'[r] # "none",
           \A q \in Request : status'[q] = "none" => status[q] = "none"
    PROVE  StagesGrow
<1>1. stages \in [Request -> Seq(Stage)] /\ \A q \in Request : Len(stages[q]) \in Nat
    BY DEF TypeOK
<1> QED
    BY <1>1 DEF StagesGrow, TypeOK

(* A handler in flight works on a request that has been submitted.         *)
LEMMA InFlight ==
    ASSUME TypeOK, NEW c \in Client, pc[c] # "idle", job[c].kind # "cron"
    PROVE  /\ job[c].req \in Request /\ job[c] \in Job
           /\ stages[job[c].req] \in Seq(Stage) /\ status[job[c].req] # "none"
           /\ job[c].row \in 0 .. Len(stages[job[c].req])
BY DEF TypeOK, JobOK

LEMMA ReleaseType ==
    ASSUME TypeOK, NEW r \in Request, ReleaseReserved(r)
    PROVE  reserved' \in Int
<1>1. reserved - Days[r] \in Int
    BY EntitledType DEF TypeOK
<1> QED
    BY <1>1, FloorType DEF ReleaseReserved

LEMMA ChargeType ==
    ASSUME TypeOK, NEW r \in Request, Charge(r)
    PROVE  used' \in Int /\ reserved' \in Int
<1>1. used' \in Int
    BY EntitledType DEF TypeOK, Charge
<1> QED
    BY <1>1, ReleaseType DEF Charge

LEMMA TypeInit == Init => TypeOK
<1> SUFFICES ASSUME Init PROVE TypeOK
    OBVIOUS
<1>1. DataOK
    BY EntitledType DEF Init, DataOK, Status, Workflow
<1>2. stages \in [Request -> Seq(Stage)]
    BY DEF Init
<1>3. HandlersOK
    <2>1. None \notin Request /\ "idle" \in Phase
        BY LeaveAssumption DEF Phase
    <2>2. pc \in [Client -> Phase] /\ job \in [Client -> Job]
        BY <2>1, NoJobType DEF Init
    <2>3. \A d \in Client : JobOK(d)
        BY <2>1, NoJobType DEF Init, JobOK
    <2> QED
        BY <2>2, <2>3 DEF HandlersOK
<1> QED
    BY <1>1, <1>2, <1>3 DEF TypeOK, DataOK, HandlersOK, Init

LEMMA SubmitType ==
    ASSUME TypeOK, NEW c \in Client, NEW r \in Request, Submit(c, r)
    PROVE  TypeOK'
<1>1. DataOK'
    BY EntitledType DEF Submit, DataOK, TypeOK, Status
<1>2. StagesGrow
    <2> DEFINE s == <<PendingStage(1)>>
    <2>1. s \in Seq(Stage) /\ Len(s) = 1
        BY DEF PendingStage, Stage, StageStatus
    <2>2. Len(stages[r]) = 0
        BY DEF Submit, TypeOK
    <2>3. status'[r] # "none" /\ \A q \in Request : status'[q] = "none" => status[q] = "none"
        BY DEF Submit, TypeOK
    <2>4. stages' = [stages EXCEPT ![r] = s]
        BY DEF Submit
    <2>5. Len(s) >= Len(stages[r])
        BY <2>1, <2>2
    <2> HIDE DEF s
    <2> QED
        BY <2>1, <2>3, <2>4, <2>5, StagesReplaced
<1>3. HandlersOK'
    <2>1. "submit" \in Kind /\ "spawn" \in Phase
        BY DEF Kind, Phase
    <2>2. status'[r] # "none" /\ Handle("submit", r).row \in 0 .. Len(stages'[r])
        BY <1>2, <2>1, HandleType DEF StagesGrow, Submit, TypeOK
    <2> QED
        BY <1>2, <2>1, <2>2, HandleType, BeginType DEF Submit, HandlersOK
<1> QED
    BY <1>1, <1>2, <1>3, Parts

LEMMA SubmitWorkflowType ==
    ASSUME TypeOK, NEW c \in Client, SubmitWorkflow(c)
    PROVE  TypeOK'
<1>1. DataOK'
    <2>1. job[c].kind # "cron"
        BY DEF SubmitWorkflow, TypeOK, JobOK
    <2>2. job[c].req \in Request /\ status[job[c].req] # "none"
        BY <2>1, InFlight DEF SubmitWorkflow
    <2>3. CASE wf' = [wf EXCEPT ![job[c].req].status = "pending"]
        <3>1. wf[job[c].req] \in Workflow /\ wf \in [Request -> Workflow]
            BY <2>2 DEF TypeOK
        <3>2. [wf[job[c].req] EXCEPT !.status = "pending"] \in Workflow
            BY <3>1 DEF Workflow
        <3>3. wf' \in [Request -> Workflow]
            BY <2>3, <3>1, <3>2
        <3>4. \A q \in Request : status'[q] = "none" => wf'[q].status = "none"
            BY <2>2, <2>3, <3>1 DEF SubmitWorkflow, TypeOK
        <3>5. /\ status' = status /\ deleted' = deleted /\ used' = used /\ reserved' = reserved
              /\ DataOK
            BY Parts DEF SubmitWorkflow, balance
        <3> QED
            BY <3>3, <3>4, <3>5 DEF DataOK
    <2>4. CASE wf' = wf
        BY <2>4, DataKept DEF SubmitWorkflow
    <2> QED
        BY <2>3, <2>4 DEF SubmitWorkflow
<1>2. StagesGrow
    BY StagesKept DEF SubmitWorkflow
<1>3. HandlersOK'
    BY <1>2, FinishType DEF HandlersOK, SubmitWorkflow
<1> QED
    BY <1>1, <1>2, <1>3, Parts

LEMMA BeginDecisionType ==
    ASSUME TypeOK, NEW c \in Client, NEW r \in Request, NEW k \in Kind, BeginDecision(c, r, k)
    PROVE  TypeOK'
<1>1. DataOK'
    BY DataKept DEF BeginDecision
<1>2. StagesGrow
    BY StagesKept DEF BeginDecision
<1>3. HandlersOK'
    <2>1. "stage" \in Phase /\ k # "cron"
        BY DEF Phase, BeginDecision, Decide
    <2>2. status'[r] # "none" /\ Handle(k, r).row \in 0 .. Len(stages'[r])
        BY <1>2, HandleType DEF StagesGrow, BeginDecision, Held
    <2> QED
        BY <1>2, <2>1, <2>2, HandleType, BeginType DEF BeginDecision, HandlersOK
<1> QED
    BY <1>1, <1>2, <1>3, Parts

LEMMA ReadStageType ==
    ASSUME TypeOK, NEW c \in Client, ReadStage(c)
    PROVE  TypeOK'
<1>1. DataOK'
    BY DataKept DEF ReadStage
<1>2. StagesGrow
    BY StagesKept DEF ReadStage
<1>3. HandlersOK'
    <2>1. job[c].kind # "cron" /\ pc[c] # "idle" /\ "act" \in Phase
        BY DEF ReadStage, TypeOK, JobOK, Phase
    <2>2. CASE Finish(c)
        BY <1>2, <2>2, FinishType DEF HandlersOK
    <2>3. CASE Goto(c, "act")
        BY <1>2, <2>1, <2>3, GotoType DEF HandlersOK
    <2>4. ASSUME NEW i \in PendingRows(job[c].req), Begin(c, "act", [job[c] EXCEPT !.row = i])
          PROVE  HandlersOK'
        <3> DEFINE j == [job[c] EXCEPT !.row = i]
        <3>1. /\ job[c].req \in Request /\ job[c] \in Job
              /\ stages[job[c].req] \in Seq(Stage) /\ status[job[c].req] # "none"
            BY <2>1, InFlight
        <3>2. i \in 1 .. Len(stages[job[c].req])
            BY <2>4, <3>1 DEF PendingRows
        <3>3. /\ j \in Job /\ j.req = job[c].req /\ j.kind = job[c].kind
              /\ j.row = i /\ j.rows = job[c].rows
            BY <3>1, <3>2 DEF Job
        <3>4. stages' = stages /\ status' = status
            BY DEF ReadStage
        <3>5. \A x \in j.rows : x[2] \in DOMAIN stages'[x[1]]
            BY <3>3, <3>4 DEF TypeOK, JobOK
        <3>6. status'[j.req] # "none" /\ j.row \in 0 .. Len(stages'[j.req])
            BY <3>1, <3>2, <3>3, <3>4
        <3> HIDE DEF j
        <3> QED
            BY <1>2, <2>1, <2>4, <3>1, <3>3, <3>5, <3>6, BeginType DEF HandlersOK, j
    <2> QED
        BY <2>2, <2>3, <2>4 DEF ReadStage
<1> QED
    BY <1>1, <1>2, <1>3, Parts

LEMMA RejectOrReturnType ==
    ASSUME TypeOK, NEW c \in Client, RejectOrReturn(c)
    PROVE  TypeOK'
<1>0. /\ job[c].kind # "cron" /\ pc[c] # "idle" /\ job[c].req \in Request
      /\ stages[job[c].req] \in Seq(Stage) /\ job[c].row \in 0 .. Len(stages[job[c].req])
    <2>1. job[c].kind # "cron" /\ pc[c] # "idle"
        BY DEF RejectOrReturn, TypeOK, JobOK
    <2> QED
        BY <2>1, InFlight
<1>1. DataOK'
    BY <1>0, ReleaseType DEF RejectOrReturn, DataOK, TypeOK, Status
<1>2. StagesGrow
    <2> DEFINE r == job[c].req
               i == job[c].row
    <2>1. status'[r] # "none" /\ \A q \in Request : status'[q] = "none" => status[q] = "none"
        BY <1>0 DEF RejectOrReturn, TypeOK
    <2>2. CASE stages' = stages
        BY <2>1, <2>2, StagesKept
    <2>3. CASE i # 0 /\ stages' = [stages EXCEPT ![r] = Mark(stages[r], i, "closed")]
        <3>1. i \in 1 .. Len(stages[r]) /\ "closed" \in StageStatus
            BY <1>0, <2>3 DEF StageStatus
        <3>2. Mark(stages[r], i, "closed") \in Seq(Stage)
              /\ Len(Mark(stages[r], i, "closed")) >= Len(stages[r])
            BY <1>0, <3>1, MarkType
        <3> QED
            BY <1>0, <2>1, <2>3, <3>2, StagesReplaced
    <2> QED
        BY <1>0, <2>2, <2>3 DEF RejectOrReturn, TypeOK
<1>3. HandlersOK'
    BY <1>2, FinishType DEF HandlersOK, RejectOrReturn
<1> QED
    BY <1>1, <1>2, <1>3, Parts

LEMMA ApproveStageType ==
    ASSUME TypeOK, NEW c \in Client, ApproveStage(c)
    PROVE  TypeOK'
<1>0. /\ job[c].kind # "cron" /\ pc[c] # "idle" /\ job[c].req \in Request
      /\ stages[job[c].req] \in Seq(Stage) /\ job[c].row \in 0 .. Len(stages[job[c].req])
      /\ status[job[c].req] # "none" /\ job[c] \in Job
    <2>1. job[c].kind # "cron" /\ pc[c] # "idle"
        BY DEF ApproveStage, TypeOK, JobOK
    <2> QED
        BY <2>1, InFlight
<1>1. DataOK'
    BY DataKept DEF ApproveStage
<1>2. StagesGrow
    <2> DEFINE r == job[c].req
               i == job[c].row
               marked == IF i # 0 THEN Mark(stages[r], i, "approved") ELSE stages[r]
               step == IF i # 0 THEN stages[r][i].stage ELSE 1
    <2>1. marked \in Seq(Stage) /\ Len(marked) = Len(stages[r])
        BY <1>0, MarkType DEF StageStatus
    <2>2. step + 1 \in Nat
        <3>1. CASE i # 0
            <4>1. stages[r][i] \in Stage
                BY <1>0, <3>1
            <4> QED
                BY <3>1, <4>1 DEF Stage
        <3> QED
            BY <3>1
    <2>3. NextRow(marked, step + 1) \in Seq(Stage) /\ Len(NextRow(marked, step + 1)) = Len(marked) + 1
        BY <2>1, <2>2, AppendRowType DEF NextRow
    <2>4. status'[r] # "none" /\ \A q \in Request : status'[q] = "none" => status[q] = "none"
        BY <1>0 DEF ApproveStage
    <2>5. \/ stages' = [stages EXCEPT ![r] = NextRow(marked, step + 1)]
          \/ stages' = [stages EXCEPT ![r] = marked]
        BY DEF ApproveStage
    <2>6. Len(stages[r]) \in Nat
        BY <1>0
    <2> HIDE DEF marked, step
    <2> QED
        BY <1>0, <2>1, <2>3, <2>4, <2>5, <2>6, StagesReplaced
<1>3. HandlersOK'
    <2>1. {"act", "final", "balance", "stages", "finish"} \subseteq Phase
        BY DEF Phase
    <2> QED
        BY <1>0, <1>2, <2>1, FinishType, GotoType DEF HandlersOK, ApproveStage
<1> QED
    BY <1>1, <1>2, <1>3, Parts

LEMMA ApproveFinalType ==
    ASSUME TypeOK, NEW c \in Client, ApproveFinal(c)
    PROVE  TypeOK'
<1>0. /\ job[c].kind # "cron" /\ pc[c] # "idle" /\ job[c].req \in Request
      /\ stages[job[c].req] \in Seq(Stage) /\ job[c].row \in 0 .. Len(stages[job[c].req])
      /\ status[job[c].req] # "none" /\ job[c] \in Job
    <2>1. job[c].kind # "cron" /\ pc[c] # "idle"
        BY DEF ApproveFinal, TypeOK, JobOK
    <2> QED
        BY <2>1, InFlight
<1>1. DataOK'
    BY <1>0, ChargeType DEF ApproveFinal, DataOK, TypeOK, Status
<1>2. StagesGrow
    <2> DEFINE r == job[c].req
               i == job[c].row
    <2>1. status'[r] # "none" /\ \A q \in Request : status'[q] = "none" => status[q] = "none"
        BY <1>0 DEF ApproveFinal, TypeOK
    <2>2. CASE stages' = stages
        BY <2>1, <2>2, StagesKept
    <2>3. CASE i # 0 /\ stages' = [stages EXCEPT ![r] = Mark(stages[r], i, "approved")]
        <3>1. i \in 1 .. Len(stages[r]) /\ "approved" \in StageStatus
            BY <1>0, <2>3 DEF StageStatus
        <3>2. Mark(stages[r], i, "approved") \in Seq(Stage)
              /\ Len(Mark(stages[r], i, "approved")) >= Len(stages[r])
            BY <1>0, <3>1, MarkType
        <3> QED
            BY <1>0, <2>1, <2>3, <3>2, StagesReplaced
    <2> QED
        BY <1>0, <2>2, <2>3 DEF ApproveFinal, TypeOK
<1>3. HandlersOK'
    BY <1>2, FinishType DEF HandlersOK, ApproveFinal
<1> QED
    BY <1>1, <1>2, <1>3, Parts

LEMMA EscalateType ==
    ASSUME TypeOK, NEW c \in Client, Escalate(c)
    PROVE  TypeOK'
<1>0. /\ job[c].kind # "cron" /\ pc[c] # "idle" /\ job[c].req \in Request
      /\ stages[job[c].req] \in Seq(Stage) /\ job[c].row \in 0 .. Len(stages[job[c].req])
      /\ status[job[c].req] # "none" /\ job[c] \in Job
    <2>1. job[c].kind # "cron" /\ pc[c] # "idle"
        BY DEF Escalate, TypeOK, JobOK
    <2> QED
        BY <2>1, InFlight
<1>1. DataOK'
    BY DataKept DEF Escalate
<1>2. StagesGrow
    <2> DEFINE r == job[c].req
    <2>1. status'[r] # "none" /\ \A q \in Request : status'[q] = "none" => status[q] = "none"
        BY <1>0 DEF Escalate
    <2>2. PICK expired : stages' = [stages EXCEPT ![r] =
                                Append(MarkRows(stages[r], expired, "closed"), PendingStage(99))]
        BY DEF Escalate
    <2> DEFINE s == Append(MarkRows(stages[r], expired, "closed"), PendingStage(99))
    <2>3. s \in Seq(Stage) /\ Len(s) = Len(stages[r]) + 1 /\ Len(stages[r]) \in Nat
        BY <1>0, MarkRowsType, AppendRowType DEF StageStatus
    <2>4. stages' = [stages EXCEPT ![r] = s]
        BY <2>2
    <2> HIDE DEF s
    <2>5. Len(s) >= Len(stages[r])
        BY <2>3
    <2> QED
        BY <1>0, <2>1, <2>3, <2>4, <2>5, StagesReplaced
<1>3. HandlersOK'
    BY <1>2, FinishType DEF HandlersOK, Escalate
<1> QED
    BY <1>1, <1>2, <1>3, Parts

LEMMA BeginCancelType ==
    ASSUME TypeOK, NEW c \in Client, NEW r \in Request, BeginCancel(c, r)
    PROVE  TypeOK'
<1>1. DataOK'
    BY DataKept DEF BeginCancel
<1>2. StagesGrow
    BY StagesKept DEF BeginCancel
<1>3. HandlersOK'
    <2> DEFINE j == [Handle("cancel", r) EXCEPT !.was = status[r]]
    <2>1. status[r] \in Status /\ "cancel" \in Kind /\ "act" \in Phase
        BY DEF TypeOK, Kind, Phase
    <2>2. /\ j \in Job /\ j.req = r /\ j.kind = "cancel" /\ j.row = 0 /\ j.rows = {}
        BY <2>1, HandleType DEF Job
    <2>3. status'[r] # "none" /\ 0 \in 0 .. Len(stages'[r])
        BY <1>2 DEF BeginCancel, StagesGrow
    <2>4. Begin(c, "act", j)
        BY DEF BeginCancel
    <2> HIDE DEF j
    <2> QED
        BY <1>2, <2>1, <2>2, <2>3, <2>4, BeginType DEF HandlersOK
<1> QED
    BY <1>1, <1>2, <1>3, Parts

LEMMA CancelType ==
    ASSUME TypeOK, NEW c \in Client, Cancel(c)
    PROVE  TypeOK'
<1>0. /\ job[c].kind # "cron" /\ pc[c] # "idle" /\ job[c].req \in Request
      /\ stages[job[c].req] \in Seq(Stage) /\ job[c].row \in 0 .. Len(stages[job[c].req])
      /\ status[job[c].req] # "none" /\ job[c] \in Job
    <2>1. job[c].kind # "cron" /\ pc[c] # "idle"
        BY DEF Cancel, TypeOK, JobOK
    <2> QED
        BY <2>1, InFlight
<1>1. DataOK'
    <2>1. used' \in Int /\ reserved' \in Int
        <3>1. used - Days[job[c].req] \in Int
            BY <1>0, EntitledType DEF TypeOK
        <3>2. CASE used' = Floor(used - Days[job[c].req]) /\ UNCHANGED reserved
            BY <3>1, <3>2, FloorType DEF TypeOK
        <3>3. CASE ReleaseReserved(job[c].req) /\ UNCHANGED used
            BY <1>0, <3>3, ReleaseType DEF TypeOK
        <3> QED
            BY <3>2, <3>3 DEF Cancel
    <2> QED
        BY <1>0, <2>1 DEF Cancel, DataOK, TypeOK, Status
<1>2. StagesGrow
    BY <1>0, StagesKept DEF Cancel, TypeOK
<1>3. HandlersOK'
    BY <1>2, FinishType DEF HandlersOK, Cancel
<1> QED
    BY <1>1, <1>2, <1>3, Parts

LEMMA RefusedType ==
    ASSUME TypeOK, NEW c \in Client, Refused(c)
    PROVE  TypeOK'
<1>1. DataOK'
    BY DataKept DEF Refused
<1>2. StagesGrow
    BY StagesKept DEF Refused
<1>3. HandlersOK'
    BY <1>2, FinishType DEF HandlersOK, Refused
<1> QED
    BY <1>1, <1>2, <1>3, Parts

LEMMA CancelRefusedType ==
    ASSUME TypeOK, NEW c \in Client, CancelRefused(c)
    PROVE  TypeOK'
<1>1. DataOK'
    BY DataKept DEF CancelRefused
<1>2. StagesGrow
    BY StagesKept DEF CancelRefused
<1>3. HandlersOK'
    BY <1>2, FinishType DEF HandlersOK, CancelRefused
<1> QED
    BY <1>1, <1>2, <1>3, Parts

LEMMA DeleteType ==
    ASSUME TypeOK, NEW c \in Client, NEW r \in Request, Delete(c, r)
    PROVE  TypeOK'
<1>1. DataOK'
    BY ReleaseType DEF Delete, DataOK, TypeOK
<1>2. StagesGrow
    BY StagesKept DEF Delete
<1>3. HandlersOK'
    BY <1>2, HandlersKept DEF Delete
<1> QED
    BY <1>1, <1>2, <1>3, Parts

LEMMA TerminateType ==
    ASSUME TypeOK, NEW c \in Client, Terminate(c)
    PROVE  TypeOK'
<1>1. DataOK'
    <2>1. status' \in [Request -> Status]
        BY DEF Terminate, TypeOK, Status
    <2>2. \A r \in Request : status'[r] = "none" => status[r] = "none"
        BY DEF Terminate, Held
    <2> QED
        BY <2>1, <2>2, Parts DEF Terminate, DataOK, balance
<1>2. StagesGrow
    <2>1. \A r \in Request : /\ MarkPending(stages[r], "closed") \in Seq(Stage)
                             /\ Len(MarkPending(stages[r], "closed")) = Len(stages[r])
                             /\ Len(stages[r]) \in Nat
        BY MarkPendingType DEF TypeOK, StageStatus
    <2>2. \A r \in Request : stages'[r] = MarkPending(stages[r], "closed")
        BY DEF Terminate
    <2>3. \A r \in Request : status'[r] = "none" => status[r] = "none"
        BY DEF Terminate, Held
    <2>4. \A r \in Request : status'[r] = "none" => stages'[r] = <<>>
        BY <2>1, <2>2, <2>3 DEF TypeOK
    <2>5. stages' \in [Request -> Seq(Stage)]
        BY <2>1, <2>2 DEF Terminate
    <2> QED
        BY <2>1, <2>2, <2>3, <2>4, <2>5 DEF StagesGrow
<1>3. HandlersOK'
    BY <1>2, HandlersKept DEF Terminate
<1> QED
    BY <1>1, <1>2, <1>3, Parts

LEMMA CronReadType ==
    ASSUME TypeOK, NEW c \in Client, NEW overdue \in SUBSET Candidates, CronRead(c, overdue)
    PROVE  TypeOK'
<1>1. DataOK'
    BY DataKept DEF CronRead
<1>2. StagesGrow
    BY StagesKept DEF CronRead
<1>3. HandlersOK'
    <2> DEFINE j == [NoJob EXCEPT !.kind = "cron", !.rows = overdue]
    <2>1. overdue \subseteq Request \X Nat /\ \A x \in overdue : x[2] \in DOMAIN stages[x[1]]
        BY LeaveAssumption DEF Candidates, PendingRows
    <2>2. "cron" \in Kind /\ "act" \in Phase /\ None \notin Request
        BY LeaveAssumption DEF Kind, Phase
    <2>3. j \in Job /\ j.kind = "cron" /\ j.req = None /\ j.rows = overdue
        BY <2>1, <2>2 DEF NoJob, Job, Status
    <2>4. Begin(c, "act", j) /\ stages' = stages
        BY DEF CronRead
    <2>5. \A x \in j.rows : x[2] \in DOMAIN stages'[x[1]]
        BY <2>1, <2>3, <2>4
    <2> HIDE DEF j
    <2> QED
        BY <1>2, <2>2, <2>3, <2>4, <2>5, BeginType DEF HandlersOK
<1> QED
    BY <1>1, <1>2, <1>3, Parts

LEMMA CronApproveType ==
    ASSUME TypeOK, NEW c \in Client, NEW x \in job[c].rows, CronApprove(c, x)
    PROVE  TypeOK'
<1> DEFINE r == x[1]
<1>0. /\ r \in Request /\ x[2] \in 1 .. Len(stages[r]) /\ stages[r] \in Seq(Stage)
      /\ job[c] \in Job /\ status[r] # "none" /\ Len(stages[r]) \in Nat
    <2>1. job[c] \in Job /\ JobOK(c)
        BY DEF TypeOK
    <2>2. r \in Request
        BY <2>1 DEF Job
    <2>3. stages[r] \in Seq(Stage) /\ x[2] \in 1 .. Len(stages[r])
        BY <2>1, <2>2 DEF TypeOK, JobOK
    <2>4. status[r] # "none"
        BY <2>2, <2>3 DEF TypeOK
    <2> QED
        BY <2>1, <2>2, <2>3, <2>4
<1>1. DataOK'
    <2>1. CASE /\ status' = [status EXCEPT ![r] = "approved"]
               /\ used' = used + Days[r] /\ reserved' = reserved - Days[r]
        BY <1>0, <2>1, EntitledType DEF CronApprove, DataOK, TypeOK, Status
    <2>2. CASE UNCHANGED <<status, balance>>
        BY <2>2, DataKept DEF CronApprove
    <2> QED
        BY <2>1, <2>2 DEF CronApprove
<1>2. StagesGrow
    <2> DEFINE s == Mark(stages[r], x[2], "approved")
    <2>1. s \in Seq(Stage) /\ Len(s) = Len(stages[r])
        BY <1>0, MarkType DEF StageStatus
    <2>2. stages' = [stages EXCEPT ![r] = s]
        BY DEF CronApprove
    <2>3. status'[r] # "none" /\ \A q \in Request : status'[q] = "none" => status[q] = "none"
        BY <1>0 DEF CronApprove, TypeOK
    <2> HIDE DEF s
    <2>4. Len(s) >= Len(stages[r])
        BY <1>0, <2>1
    <2> QED
        BY <1>0, <2>1, <2>2, <2>3, <2>4, StagesReplaced
<1>3. HandlersOK'
    <2>1. CASE Finish(c)
        BY <1>2, <2>1, FinishType DEF HandlersOK
    <2>2. CASE Begin(c, "act", [job[c] EXCEPT !.rows = @ \ {x}])
        <3> DEFINE j == [job[c] EXCEPT !.rows = @ \ {x}]
        <3>1. /\ j \in Job /\ j.kind = job[c].kind /\ j.req = job[c].req /\ j.row = job[c].row
              /\ j.rows \subseteq job[c].rows
            BY <1>0 DEF Job
        <3>2. JobOK(c) /\ pc[c] = "act" /\ "act" \in Phase
            BY DEF CronApprove, TypeOK, Phase
        <3>3. j.kind # "cron" => j.req \in Request
            BY <3>1, <3>2 DEF JobOK
        <3>4. j.kind = "cron" => j.req = None
            BY <3>1, <3>2 DEF JobOK
        <3>5. stages \in [Request -> Seq(Stage)] /\ \A q \in Request : Len(stages[q]) \in Nat
            BY DEF TypeOK
        <3>6. \A q \in Request : Len(stages'[q]) \in Nat /\ stages'[q] \in Seq(Stage)
            BY <1>2 DEF StagesGrow, TypeOK
        <3>7. j.req \in Request => status'[j.req] # "none" /\ j.row \in 0 .. Len(stages'[j.req])
            BY <1>0, <1>2, <3>1, <3>2, <3>5, <3>6 DEF JobOK, Job, StagesGrow
        <3>8. \A y \in j.rows : y[1] \in Request /\ y[2] \in 1 .. Len(stages[y[1]])
            BY <1>0, <3>1, <3>2, <3>5 DEF JobOK, Job
        <3>9. \A y \in j.rows : y[2] \in DOMAIN stages'[y[1]]
            BY <1>2, <3>5, <3>6, <3>8 DEF StagesGrow
        <3> HIDE DEF j
        <3> QED
            BY <1>2, <2>2, <3>1, <3>2, <3>3, <3>4, <3>7, <3>9, BeginType DEF HandlersOK, j
    <2> QED
        BY <2>1, <2>2 DEF CronApprove
<1> QED
    BY <1>1, <1>2, <1>3, Parts

LEMMA CloseReadType ==
    ASSUME TypeOK, NEW c \in Client, NEW r \in Request, CloseRead(c, r)
    PROVE  TypeOK'
<1>1. DataOK'
    BY DataKept DEF CloseRead
<1>2. StagesGrow
    BY StagesKept DEF CloseRead
<1>3. HandlersOK'
    <2>1. "close" \in Kind /\ "close" # "cron" /\ "act" \in Phase
        BY DEF Kind, Phase
    <2>2. status'[r] # "none" /\ Handle("close", r).row \in 0 .. Len(stages'[r])
        BY <1>2, <2>1, HandleType DEF StagesGrow, CloseRead
    <2> QED
        BY <1>2, <2>1, <2>2, HandleType, BeginType DEF CloseRead, HandlersOK
<1> QED
    BY <1>1, <1>2, <1>3, Parts

LEMMA CloseWriteType ==
    ASSUME TypeOK, NEW c \in Client, CloseWrite(c)
    PROVE  TypeOK'
<1>0. /\ job[c].kind # "cron" /\ pc[c] # "idle" /\ job[c].req \in Request
      /\ stages[job[c].req] \in Seq(Stage) /\ job[c].row \in 0 .. Len(stages[job[c].req])
      /\ status[job[c].req] # "none" /\ job[c] \in Job
    <2>1. job[c].kind # "cron" /\ pc[c] # "idle"
        BY DEF CloseWrite, TypeOK, JobOK
    <2> QED
        BY <2>1, InFlight
<1>1. DataOK'
    BY <1>0 DEF CloseWrite, DataOK, TypeOK, Status, balance
<1>2. StagesGrow
    BY <1>0, StagesKept DEF CloseWrite, TypeOK
<1>3. HandlersOK'
    BY <1>2, FinishType DEF HandlersOK, CloseWrite
<1> QED
    BY <1>1, <1>2, <1>3, Parts

LEMMA BeginActionType ==
    ASSUME TypeOK, NEW c \in Client, NEW r \in Request, NEW k \in Kind, BeginAction(c, r, k)
    PROVE  TypeOK'
<1>1. DataOK'
    BY DataKept DEF BeginAction
<1>2. StagesGrow
    BY StagesKept DEF BeginAction
<1>3. HandlersOK'
    <2> DEFINE j == [Handle(k, r) EXCEPT !.step = wf[r].step]
    <2>1. wf[r].step \in Nat /\ k # "cron" /\ "act" \in Phase
        BY DEF BeginAction, TypeOK, Workflow, Flow, Phase
    <2>2. j \in Job /\ j.req = r /\ j.kind = k /\ j.row = 0 /\ j.rows = {}
        BY <2>1, HandleType DEF Job
    <2>3. status'[r] # "none" /\ 0 \in 0 .. Len(stages'[r])
        BY <1>2 DEF BeginAction, StagesGrow, TypeOK
    <2>4. Begin(c, "act", j)
        BY DEF BeginAction
    <2> HIDE DEF j
    <2> QED
        BY <1>2, <2>1, <2>2, <2>3, <2>4, BeginType DEF HandlersOK
<1> QED
    BY <1>1, <1>2, <1>3, Parts

LEMMA AdvanceType ==
    ASSUME TypeOK, NEW c \in Client, Advance(c)
    PROVE  TypeOK'
<1>0. /\ job[c].kind # "cron" /\ pc[c] # "idle" /\ job[c].req \in Request
      /\ stages[job[c].req] \in Seq(Stage) /\ job[c].row \in 0 .. Len(stages[job[c].req])
      /\ status[job[c].req] # "none" /\ job[c] \in Job
    <2>1. job[c].kind # "cron" /\ pc[c] # "idle"
        BY DEF Advance, TypeOK, JobOK
    <2> QED
        BY <2>1, InFlight
<1>1. DataOK'
    <2>1. wf' \in [Request -> Workflow]
        <3>1. wf[job[c].req] \in Workflow /\ job[c].step + 1 \in Nat
            BY <1>0 DEF TypeOK, Job
        <3>2. [wf[job[c].req] EXCEPT !.step = job[c].step + 1] \in Workflow
            BY <3>1 DEF Workflow
        <3> QED
            BY <3>2 DEF Advance, TypeOK
    <2>2. \A q \in Request : status'[q] = "none" => wf'[q].status = "none"
        BY <1>0 DEF Advance, TypeOK
    <2> QED
        BY <2>1, <2>2, Parts DEF Advance, DataOK, balance
<1>2. StagesGrow
    BY StagesKept DEF Advance
<1>3. HandlersOK'
    BY <1>2, FinishType DEF HandlersOK, Advance
<1> QED
    BY <1>1, <1>2, <1>3, Parts

LEMMA PropagateType ==
    ASSUME TypeOK, NEW c \in Client, Propagate(c)
    PROVE  TypeOK'
<1>0. /\ job[c].kind # "cron" /\ pc[c] # "idle" /\ job[c].req \in Request
      /\ stages[job[c].req] \in Seq(Stage) /\ job[c].row \in 0 .. Len(stages[job[c].req])
      /\ status[job[c].req] # "none" /\ job[c] \in Job
    <2>1. job[c].kind # "cron" /\ pc[c] # "idle"
        BY DEF Propagate, TypeOK, JobOK, Flow
    <2> QED
        BY <2>1, InFlight
<1>1. DataOK'
    <2>1. Outcome(job[c].kind) \in Status /\ Outcome(job[c].kind) # "none"
        BY DEF Outcome, Status
    <2> QED
        BY <1>0, <2>1 DEF Propagate, PropagateStatus, DataOK, TypeOK, balance
<1>2. StagesGrow
    <2>1. Outcome(job[c].kind) # "none"
        BY DEF Outcome
    <2> QED
        BY <1>0, <2>1, StagesKept DEF Propagate, PropagateStatus, TypeOK
<1>3. HandlersOK'
    <2>1. {"act", "final", "balance", "stages", "finish"} \subseteq Phase
        BY DEF Phase
    <2> QED
        BY <1>0, <1>2, <2>1, FinishType, GotoType DEF HandlersOK, Propagate
<1> QED
    BY <1>1, <1>2, <1>3, Parts

LEMMA PropagateBalanceType ==
    ASSUME TypeOK, NEW c \in Client, PropagateBalance(c)
    PROVE  TypeOK'
<1>0. /\ job[c].kind # "cron" /\ pc[c] # "idle" /\ job[c].req \in Request
      /\ stages[job[c].req] \in Seq(Stage) /\ job[c].row \in 0 .. Len(stages[job[c].req])
      /\ status[job[c].req] # "none" /\ job[c] \in Job
    <2>1. job[c].kind # "cron" /\ pc[c] # "idle"
        BY DEF PropagateBalance, TypeOK, JobOK
    <2> QED
        BY <2>1, InFlight
<1>1. DataOK'
    <2>1. used' \in Int /\ reserved' \in Int
        <3>1. CASE UNCHANGED balance
            BY <3>1 DEF TypeOK, balance
        <3>2. CASE Charge(job[c].req)
            BY <1>0, <3>2, ChargeType
        <3>3. CASE ReleaseReserved(job[c].req) /\ UNCHANGED used
            BY <1>0, <3>3, ReleaseType DEF TypeOK
        <3> QED
            BY <3>1, <3>2, <3>3 DEF PropagateBalance
    <2> QED
        BY <2>1, Parts DEF PropagateBalance, DataOK
<1>2. StagesGrow
    BY StagesKept DEF PropagateBalance
<1>3. HandlersOK'
    <2>1. {"act", "final", "balance", "stages", "finish"} \subseteq Phase
        BY DEF Phase
    <2> QED
        BY <1>0, <1>2, <2>1, FinishType, GotoType DEF HandlersOK, PropagateBalance
<1> QED
    BY <1>1, <1>2, <1>3, Parts

LEMMA PropagateStagesType ==
    ASSUME TypeOK, NEW c \in Client, PropagateStages(c)
    PROVE  TypeOK'
<1>0. /\ job[c].kind # "cron" /\ pc[c] # "idle" /\ job[c].req \in Request
      /\ stages[job[c].req] \in Seq(Stage) /\ job[c].row \in 0 .. Len(stages[job[c].req])
      /\ status[job[c].req] # "none" /\ job[c] \in Job
    <2>1. job[c].kind # "cron" /\ pc[c] # "idle"
        BY DEF PropagateStages, TypeOK, JobOK
    <2> QED
        BY <2>1, InFlight
<1>1. DataOK'
    BY DataKept DEF PropagateStages
<1>2. StagesGrow
    <2> DEFINE r == job[c].req
               to == IF job[c].kind = "wfApprove" THEN "approved" ELSE "closed"
               s == MarkPending(stages[r], to)
    <2>0. to \in StageStatus /\ Len(stages[r]) \in Nat
        BY <1>0 DEF StageStatus
    <2> HIDE DEF to
    <2>1. s \in Seq(Stage) /\ Len(s) = Len(stages[r]) /\ Len(stages[r]) \in Nat
        BY <1>0, <2>0, MarkPendingType
    <2>2. stages' = [stages EXCEPT ![r] = s]
        BY DEF PropagateStages, to
    <2>3. status'[r] # "none" /\ \A q \in Request : status'[q] = "none" => status[q] = "none"
        BY <1>0 DEF PropagateStages
    <2> HIDE DEF s
    <2>4. Len(s) >= Len(stages[r])
        BY <2>1
    <2> QED
        BY <1>0, <2>1, <2>2, <2>3, <2>4, StagesReplaced
<1>3. HandlersOK'
    <2>1. {"act", "final", "balance", "stages", "finish"} \subseteq Phase
        BY DEF Phase
    <2> QED
        BY <1>0, <1>2, <2>1, FinishType, GotoType DEF HandlersOK, PropagateStages
<1> QED
    BY <1>1, <1>2, <1>3, Parts

(* Closing the instance of a request that exists.                          *)
LEMMA CloseInstanceType ==
    ASSUME TypeOK, NEW r \in Request, NEW to \in {"approved", "rejected", "returned"},
           CloseInstance(r, to), status'[r] # "none",
           \A q \in Request : status'[q] = "none" => status[q] = "none"
    PROVE  /\ wf' \in [Request -> Workflow]
           /\ \A q \in Request : status'[q] = "none" => wf'[q].status = "none"
<1>1. wf \in [Request -> Workflow] /\ \A q \in Request : status[q] = "none" => wf[q].status = "none"
    BY DEF TypeOK
<1>2. [wf[r] EXCEPT !.status = to] \in Workflow
    BY <1>1 DEF Workflow
<1>3. CASE wf' = [wf EXCEPT ![r].status = to]
    BY <1>1, <1>2, <1>3
<1>4. CASE wf' = wf
    BY <1>1, <1>4
<1> QED
    BY <1>3, <1>4 DEF CloseInstance

LEMMA FinishActionType ==
    ASSUME TypeOK, NEW c \in Client, FinishAction(c)
    PROVE  TypeOK'
<1>0. /\ job[c].kind # "cron" /\ pc[c] # "idle" /\ job[c].req \in Request
      /\ stages[job[c].req] \in Seq(Stage) /\ job[c].row \in 0 .. Len(stages[job[c].req])
      /\ status[job[c].req] # "none" /\ job[c] \in Job
    <2>1. job[c].kind # "cron" /\ pc[c] # "idle"
        BY DEF FinishAction, TypeOK, JobOK
    <2> QED
        BY <2>1, InFlight
<1>1. DataOK'
    <2>1. Outcome(job[c].kind) \in {"approved", "rejected", "returned"}
        BY DEF Outcome
    <2>2. /\ wf' \in [Request -> Workflow]
          /\ \A q \in Request : status'[q] = "none" => wf'[q].status = "none"
        BY <1>0, <2>1, CloseInstanceType DEF FinishAction
    <2> QED
        BY <2>2, Parts DEF FinishAction, DataOK, balance
<1>2. StagesGrow
    BY StagesKept DEF FinishAction
<1>3. HandlersOK'
    BY <1>2, FinishType DEF HandlersOK, FinishAction
<1> QED
    BY <1>1, <1>2, <1>3, Parts

LEMMA SlaReadType ==
    ASSUME TypeOK, NEW c \in Client, NEW r \in Request, SlaRead(c, r)
    PROVE  TypeOK'
<1>1. DataOK'
    BY DataKept DEF SlaRead
<1>2. StagesGrow
    BY StagesKept DEF SlaRead
<1>3. HandlersOK'
    <2>1. "sla" \in Kind /\ "sla" # "cron" /\ "act" \in Phase
        BY DEF Kind, Phase
    <2>2. status'[r] # "none" /\ Handle("sla", r).row \in 0 .. Len(stages'[r])
        BY <1>2, <2>1, HandleType DEF StagesGrow, SlaRead, TypeOK
    <2> QED
        BY <1>2, <2>1, <2>2, HandleType, BeginType DEF SlaRead, HandlersOK
<1> QED
    BY <1>1, <1>2, <1>3, Parts

LEMMA SlaApproveType ==
    ASSUME TypeOK, NEW c \in Client, SlaApprove(c)
    PROVE  TypeOK'
<1>0. /\ job[c].kind # "cron" /\ pc[c] # "idle" /\ job[c].req \in Request
      /\ stages[job[c].req] \in Seq(Stage) /\ job[c].row \in 0 .. Len(stages[job[c].req])
      /\ status[job[c].req] # "none" /\ job[c] \in Job
    <2>1. job[c].kind # "cron" /\ pc[c] # "idle"
        BY DEF SlaApprove, TypeOK, JobOK
    <2> QED
        BY <2>1, InFlight
<1>4. status' \in [Request -> Status] /\ status'[job[c].req] # "none"
      /\ \A q \in Request : status'[q] = "none" => status[q] = "none"
    BY <1>0 DEF SlaApprove, PropagateStatus, TypeOK, Status
<1>1. DataOK'
    <2>1. /\ wf' \in [Request -> Workflow]
          /\ \A q \in Request : status'[q] = "none" => wf'[q].status = "none"
        BY <1>0, <1>4, CloseInstanceType DEF SlaApprove
    <2>2. used' \in Int /\ reserved' \in Int
        <3>1. CASE UNCHANGED balance
            BY <3>1 DEF TypeOK, balance
        <3>2. CASE Charge(job[c].req)
            BY <1>0, <3>2, ChargeType
        <3> QED
            BY <3>1, <3>2 DEF SlaApprove
    <2> QED
        BY <1>4, <2>1, <2>2, Parts DEF SlaApprove, DataOK
<1>2. StagesGrow
    <2> DEFINE r == job[c].req
               s == MarkPending(stages[r], "approved")
    <2>0. "approved" \in StageStatus /\ Len(stages[r]) \in Nat
        BY <1>0 DEF StageStatus
    <2>1. s \in Seq(Stage) /\ Len(s) = Len(stages[r]) /\ Len(stages[r]) \in Nat
        BY <1>0, <2>0, MarkPendingType
    <2>2. CASE stages' = [stages EXCEPT ![r] = s]
        <3> HIDE DEF s
        <3>1. Len(s) >= Len(stages[r])
            BY <2>1
        <3> QED
            BY <1>0, <1>4, <2>1, <2>2, <3>1, StagesReplaced
    <2>3. CASE stages' = stages
        BY <1>4, <2>3, StagesKept
    <2> QED
        BY <2>2, <2>3 DEF SlaApprove
<1>3. HandlersOK'
    BY <1>2, FinishType DEF HandlersOK, SlaApprove
<1> QED
    BY <1>1, <1>2, <1>3, Parts

LEMMA CrashType ==
    ASSUME TypeOK, NEW c \in Client, Crash(c)
    PROVE  TypeOK'
<1>1. DataOK'
    BY DataKept DEF Crash
<1>2. StagesGrow
    BY StagesKept DEF Crash
<1>3. HandlersOK'
    BY <1>2, FinishType DEF HandlersOK, Crash
<1> QED
    BY <1>1, <1>2, <1>3, Parts

LEMMA TypeNext ==
    ASSUME TypeOK, Next
    PROVE  TypeOK'
<1>1. ASSUME NEW c \in Client, Start(c) \/ Continue(c) \/ Crash(c)
      PROVE  TypeOK'
    <2>1. CASE Terminate(c)
        BY <2>1, TerminateType
    <2>2. ASSUME NEW overdue \in SUBSET Candidates, CronRead(c, overdue) PROVE TypeOK'
        BY <2>2, CronReadType
    <2>3. ASSUME NEW r \in Request, Submit(c, r) PROVE TypeOK'
        BY <2>3, SubmitType
    <2>4. ASSUME NEW r \in Request, BeginCancel(c, r) PROVE TypeOK'
        BY <2>4, BeginCancelType
    <2>5. ASSUME NEW r \in Request, Delete(c, r) PROVE TypeOK'
        BY <2>5, DeleteType
    <2>6. ASSUME NEW r \in Request, CloseRead(c, r) PROVE TypeOK'
        BY <2>6, CloseReadType
    <2>7. ASSUME NEW r \in Request, SlaRead(c, r) PROVE TypeOK'
        BY <2>7, SlaReadType
    <2>8. ASSUME NEW r \in Request, NEW k \in Kind, BeginDecision(c, r, k) PROVE TypeOK'
        BY <2>8, BeginDecisionType
    <2>9. ASSUME NEW r \in Request, NEW k \in Kind, BeginAction(c, r, k) PROVE TypeOK'
        BY <2>9, BeginActionType
    <2>10. ASSUME NEW x \in job[c].rows, CronApprove(c, x) PROVE TypeOK'
        BY <2>10, CronApproveType
    <2>11. CASE SubmitWorkflow(c)
        BY <2>11, SubmitWorkflowType
    <2>12. CASE ReadStage(c)
        BY <2>12, ReadStageType
    <2>13. CASE RejectOrReturn(c)
        BY <2>13, RejectOrReturnType
    <2>14. CASE ApproveStage(c)
        BY <2>14, ApproveStageType
    <2>15. CASE ApproveFinal(c)
        BY <2>15, ApproveFinalType
    <2>16. CASE Escalate(c)
        BY <2>16, EscalateType
    <2>17. CASE Cancel(c)
        BY <2>17, CancelType
    <2>18. CASE Refused(c)
        BY <2>18, RefusedType
    <2>19. CASE CancelRefused(c)
        BY <2>19, CancelRefusedType
    <2>20. CASE CloseWrite(c)
        BY <2>20, CloseWriteType
    <2>21. CASE Advance(c)
        BY <2>21, AdvanceType
    <2>22. CASE Propagate(c)
        BY <2>22, PropagateType
    <2>23. CASE PropagateBalance(c)
        BY <2>23, PropagateBalanceType
    <2>24. CASE PropagateStages(c)
        BY <2>24, PropagateStagesType
    <2>25. CASE FinishAction(c)
        BY <2>25, FinishActionType
    <2>26. CASE SlaApprove(c)
        BY <2>26, SlaApproveType
    <2>27. CASE Crash(c)
        BY <2>27, CrashType
    <2>a. Decide \cup {"escalate"} \subseteq Kind /\ Flow \subseteq Kind
        BY DEF Decide, Flow, Kind
    <2>b. CASE Start(c)
        BY <2>a, <2>b, <2>1, <2>2, <2>3, <2>4, <2>5, <2>6, <2>7, <2>8, <2>9 DEF Start
    <2>c. CASE Continue(c)
        BY <2>c, <2>10, <2>11, <2>12, <2>13, <2>14, <2>15, <2>16, <2>17, <2>18, <2>19, <2>20, <2>21, <2>22, <2>23, <2>24, <2>25, <2>26 DEF Continue
    <2> QED
        BY <1>1, <2>b, <2>c, <2>27
<1> QED
    BY <1>1 DEF Next

LEMMA TypeStutter ==
    ASSUME TypeOK, UNCHANGED vars
    PROVE  TypeOK'
BY DEF TypeOK, JobOK, vars, balance

(* Every reachable state of every instance is well typed: a handler in     *)
(* flight works on a request that was submitted, the stage rows it read    *)
(* are still there, and only submitted requests have stages or a workflow. *)
THEOREM LeaveTypeCorrect == Spec => []TypeOK
<1>1. TypeOK /\ [Next]_vars => TypeOK'
    BY TypeNext, TypeStutter
<1> QED
    BY TypeInit, <1>1, PTL DEF Spec
=============================================================================
