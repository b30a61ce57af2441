--------------------------- MODULE PayrollProofs ---------------------------
(***************************************************************************)
(* Proofs about Payroll, for any number of makers, keepers, runs, months   *)
(* and dues.                                                               *)
(*                                                                         *)
(* The inductive invariant adds to the invariants of the runs that a run   *)
(* and a draft hold dues of their own month, and that requests name runs   *)
(* that exist.  What needs approvals and deletions to be apart from other  *)
(* requests is proved from a second invariant on top of the first.         *)
(***************************************************************************)
EXTENDS Payroll, TLAPS

-----------------------------------------------------------------------------
(* Type correctness.                                                       *)
LEMMA InitType == Init => TypeOK
BY PayrollAssumption
   DEF Init, TypeOK, RunRow, NoRun, Blank, Idle

LEMMA MarkedType ==
    ASSUME TypeOK, NEW i \in Item, NEW r \in Run, NEW p \in Period, NEW s \in SUBSET Item
    PROVE  /\ Marked(i, r, p, s) \in [st : {"open", "due", "paid", "void"}, line : Run \cup {None}]
           /\ KindOf[i] \in Swept => Marked(i, r, p, s).line = None
<1>1. item[i] \in [st : {"open", "due", "paid", "void"}, line : Run \cup {None}]
      /\ (KindOf[i] \in Swept => item[i].line = None)
  BY DEF TypeOK
<1>2. KindOf[i] \in Swept => KindOf[i] \notin Stamped
  BY DEF Swept, Stamped
<1> QED
  BY <1>1, <1>2 DEF Marked

LEMMA RestoredType ==
    ASSUME TypeOK, NEW i \in Item, NEW r \in Run
    PROVE  /\ Restored(i, r) \in [st : {"open", "due", "paid", "void"}, line : Run \cup {None}]
           /\ Restored(i, r).line = item[i].line
<1>1. item[i] \in [st : {"open", "due", "paid", "void"}, line : Run \cup {None}]
  BY DEF TypeOK
<1> QED
  BY <1>1 DEF Restored

LEMMA RunType ==
    ASSUME TypeOK, NEW r \in Run, run[r].st # "none"
    PROVE  run[r] \in [st : {"pending_approval", "completed", "posted"}, period : Period,
                       counts : SUBSET Item, deleted : BOOLEAN]
BY DEF TypeOK, RunRow, NoRun

LEMMA DraftType ==
    ASSUME TypeOK, NEW m \in Maker, draft[m] # Blank
    PROVE  draft[m] \in [period : Period, left : SUBSET Kind, seen : SUBSET Item]
BY DEF TypeOK

LEMMA TaskType ==
    ASSUME TypeOK, NEW k \in Keeper, task[k] # Idle
    PROVE  task[k] \in [op : Request, on : Run]
BY DEF TypeOK

(* A request in hand names a run that exists; runs never cease to exist.   *)
Exists == \A k \in Keeper : task[k] # Idle => run[task[k].on].st # "none"

LEMMA TypeStep ==
    ASSUME TypeOK, Exists, [Next]_vars
    PROVE  TypeOK'
<1> USE DEF Kind, Swept, Stamped
<1>1. ASSUME NEW i \in Item, Approve(i) PROVE TypeOK'
  BY <1>1 DEF Approve, TypeOK
<1>2. ASSUME NEW i \in Item, Withdraw(i) PROVE TypeOK'
  BY <1>2 DEF Withdraw, TypeOK
<1>3. ASSUME NEW i \in Item, Recompute(i) PROVE TypeOK'
  BY <1>3 DEF Recompute, TypeOK
<1>4. ASSUME NEW m \in Maker, NEW p \in Period, Begin(m, p) PROVE TypeOK'
  <2>1. {KindOf[i] : i \in Item} \subseteq Kind
    BY PayrollAssumption
  <2> QED
    BY <1>4, <2>1 DEF Begin, TypeOK
<1>5. ASSUME NEW m \in Maker, NEW k \in Kind, Read(m, k) PROVE TypeOK'
  <2>1. draft[m] # Blank
    BY <1>5 DEF Read, Blank
  <2>2. Dues(draft[m].period, k) \subseteq Item
    BY DEF Dues
  <2>3. draft[m] \in [period : Period, left : SUBSET Kind, seen : SUBSET Item]
    BY <2>1, DraftType
  <2>4. draft' = [draft EXCEPT ![m].left = @ \ {k},
                               ![m].seen = @ \cup Dues(draft[m].period, k)]
    BY <1>5 DEF Read
  <2>5. draft' \in [Maker -> {Blank} \cup [period : Period, left : SUBSET Kind,
                                           seen : SUBSET Item]]
    BY <2>2, <2>3, <2>4 DEF TypeOK
  <2> QED
    BY <1>5, <2>5 DEF Read, TypeOK
<1>6. ASSUME NEW m \in Maker, Create(m) PROVE TypeOK'
  <2> DEFINE p == draft[m].period
             s == draft[m].seen
  <2>1. p \in Period /\ s \in SUBSET Item
    BY <1>6, DraftType DEF Create
  <2>2. PICK r \in Run :
           /\ run' = [run EXCEPT ![r] = [st |-> "pending_approval", period |-> p,
                                         counts |-> s, deleted |-> FALSE]]
           /\ item' = [i \in Item |-> Marked(i, r, p, s)]
           /\ accrual' = accrual \cup {r}
    BY <1>6 DEF Create
  <2> HIDE DEF p, s
  <2>3. run' \in [Run -> RunRow]
    BY <2>1, <2>2 DEF TypeOK, RunRow
  <2>4. /\ item' \in [Item -> [st : {"open", "due", "paid", "void"}, line : Run \cup {None}]]
        /\ \A i \in Item : KindOf[i] \in Swept => item'[i].line = None
    BY <2>1, <2>2, MarkedType
  <2>5. draft' = [draft EXCEPT ![m] = Blank] /\ UNCHANGED <<payment, task>>
    BY <1>6 DEF Create
  <2> QED
    BY <2>2, <2>3, <2>4, <2>5 DEF TypeOK
<1>7. ASSUME NEW m \in Maker, Abandon(m) PROVE TypeOK'
  BY <1>7 DEF Abandon, TypeOK
<1>8. ASSUME NEW k \in Keeper, NEW op \in Request, NEW r \in Run, StartRequest(k, op, r)
      PROVE TypeOK'
  BY <1>8 DEF StartRequest, TypeOK
<1>9. ASSUME NEW k \in Keeper, ApproveRun(k) PROVE TypeOK'
  <2>1. task[k] # Idle
    BY <1>9 DEF ApproveRun, Idle
  <2>2. task[k].on \in Run
        /\ run[task[k].on] \in [st : {"pending_approval", "completed", "posted"}, period : Period,
                                counts : SUBSET Item, deleted : BOOLEAN]
    BY <2>1, TaskType, RunType DEF Exists
  <2>3. run' \in [Run -> RunRow]
    BY <1>9, <2>2 DEF ApproveRun, TypeOK, RunRow
  <2> QED
    BY <1>9, <2>3 DEF ApproveRun, Finish, TypeOK
<1>10. ASSUME NEW k \in Keeper, PostRun(k) PROVE TypeOK'
  <2>1. task[k] # Idle
    BY <1>10 DEF PostRun, Idle
  <2>2. task[k].on \in Run
        /\ run[task[k].on] \in [st : {"pending_approval", "completed", "posted"}, period : Period,
                                counts : SUBSET Item, deleted : BOOLEAN]
    BY <2>1, TaskType, RunType DEF Exists
  <2>3. run' \in [Run -> RunRow] /\ payment' \subseteq Run
    BY <1>10, <2>2 DEF PostRun, Settled, TypeOK, RunRow
  <2> QED
    BY <1>10, <2>3 DEF PostRun, Finish, TypeOK
<1>11. ASSUME NEW k \in Keeper, DeleteRun(k) PROVE TypeOK'
  <2>1. task[k] # Idle
    BY <1>11 DEF DeleteRun, Idle
  <2>2. task[k].on \in Run
        /\ run[task[k].on] \in [st : {"pending_approval", "completed", "posted"}, period : Period,
                                counts : SUBSET Item, deleted : BOOLEAN]
    BY <2>1, TaskType, RunType DEF Exists
  <2>3. run' \in [Run -> RunRow] /\ accrual' \subseteq Run
    BY <1>11, <2>2 DEF DeleteRun, TypeOK, RunRow
  <2>4. /\ item' \in [Item -> [st : {"open", "due", "paid", "void"}, line : Run \cup {None}]]
        /\ \A i \in Item : KindOf[i] \in Swept => item'[i].line = None
    <3>1. item' = [i \in Item |-> Restored(i, task[k].on)]
      BY <1>11 DEF DeleteRun
    <3> QED
      BY <2>2, <3>1, RestoredType DEF TypeOK
  <2> QED
    BY <1>11, <2>3, <2>4 DEF DeleteRun, Finish, TypeOK
<1>12. ASSUME NEW k \in Keeper, GiveUp(k) PROVE TypeOK'
  BY <1>12 DEF GiveUp, Finish, TypeOK
<1>13. CASE UNCHANGED vars
  BY <1>13 DEF vars, TypeOK
<1> QED
  BY <1>1, <1>2, <1>3, <1>4, <1>5, <1>6, <1>7, <1>8, <1>9, <1>10, <1>11, <1>12, <1>13
     DEF Next, DueStep, MakerStep, KeeperStep

LEMMA ExistsStep ==
    ASSUME TypeOK, Exists, [Next]_vars
    PROVE  Exists'
<1>1. ASSUME NEW i \in Item, Approve(i) \/ Withdraw(i) \/ Recompute(i) PROVE Exists'
  BY <1>1 DEF Approve, Withdraw, Recompute, Exists
<1>2. ASSUME NEW m \in Maker, NEW p \in Period, Begin(m, p) PROVE Exists'
  BY <1>2 DEF Begin, Exists
<1>3. ASSUME NEW m \in Maker, NEW k \in Kind, Read(m, k) PROVE Exists'
  BY <1>3 DEF Read, Exists
<1>4. ASSUME NEW m \in Maker, Create(m) PROVE Exists'
  <2>1. PICK r \in Run :
           /\ run[r] = NoRun
           /\ run' = [run EXCEPT ![r] = [st |-> "pending_approval", period |-> draft[m].period,
                                         counts |-> draft[m].seen, deleted |-> FALSE]]
    BY <1>4 DEF Create
  <2>2. task' = task
    BY <1>4 DEF Create
  <2>3. ASSUME NEW k \in Keeper, task[k] # Idle PROVE run'[task[k].on].st # "none"
    <3>1. task[k].on \in Run /\ run[task[k].on].st # "none"
      BY <2>3, TaskType DEF Exists
    <3> QED
      BY <2>1, <3>1 DEF TypeOK
  <2> QED
    BY <2>2, <2>3 DEF Exists
<1>5. ASSUME NEW m \in Maker, Abandon(m) PROVE Exists'
  BY <1>5 DEF Abandon, Exists
<1>6. ASSUME NEW k \in Keeper, NEW op \in Request, NEW r \in Run, StartRequest(k, op, r)
      PROVE Exists'
  BY <1>6 DEF StartRequest, Admits, Live, Exists, TypeOK
<1>7. ASSUME NEW k \in Keeper, ApproveRun(k) \/ PostRun(k) \/ DeleteRun(k) PROVE Exists'
  <2>1. \A r \in Run : run[r].st # "none" => run'[r].st # "none"
    <3>1. task[k] # Idle
      BY <1>7 DEF ApproveRun, PostRun, DeleteRun, Idle
    <3>2. task[k].on \in Run /\ run[task[k].on].st # "none"
      BY <3>1, TaskType DEF Exists
    <3>3. CASE ApproveRun(k)
      BY <3>2, <3>3 DEF ApproveRun, TypeOK
    <3>4. CASE PostRun(k)
      BY <3>2, <3>4 DEF PostRun, TypeOK
    <3>5. CASE DeleteRun(k)
      BY <3>2, <3>5 DEF DeleteRun, TypeOK
    <3> QED
      BY <1>7, <3>3, <3>4, <3>5
  <2>2. task' = [task EXCEPT ![k] = Idle]
    BY <1>7 DEF ApproveRun, PostRun, DeleteRun, Finish
  <2>3. ASSUME NEW h \in Keeper, task'[h] # Idle PROVE run'[task'[h].on].st # "none"
    <3>1. task'[h] = task[h] /\ task[h].on \in Run
      BY <2>2, <2>3, TaskType DEF TypeOK
    <3> QED
      BY <2>1, <2>3, <3>1 DEF Exists
  <2> QED
    BY <2>3 DEF Exists
<1>8. ASSUME NEW k \in Keeper, GiveUp(k) PROVE Exists'
  BY <1>8 DEF GiveUp, Finish, Exists, TypeOK
<1>9. CASE UNCHANGED vars
  BY <1>9 DEF vars, Exists
<1> QED
  BY <1>1, <1>2, <1>3, <1>4, <1>5, <1>6, <1>7, <1>8, <1>9
     DEF Next, DueStep, MakerStep, KeeperStep

(* The fields of runs, dues and requests stay what they are, and a request *)
(* in hand names a run that exists.                                        *)
THEOREM TypeCorrect == Spec => [](TypeOK /\ Exists)
<1>1. Init => TypeOK /\ Exists
  BY InitType DEF Init, Exists, Idle
<1>2. TypeOK /\ Exists /\ [Next]_vars => (TypeOK /\ Exists)'
  BY TypeStep, ExistsStep
<1> QED
  BY <1>1, <1>2, PTL DEF Spec

-----------------------------------------------------------------------------
(* Runs: one live run per month, and lines that count dues of their month. *)
OfMonth ==
    /\ \A r \in Run : \A i \in run[r].counts :
          KindOf[i] = "bonus" \/ Month[i] = run[r].period
    /\ \A m \in Maker : \A i \in draft[m].seen :
          KindOf[i] = "bonus" \/ Month[i] = draft[m].period

RunInv == OneLiveRun /\ OfMonth /\ Traceable /\ LedgerFollowsRuns

LEMMA InitRuns == Init => RunInv
<1> SUFFICES ASSUME Init PROVE RunInv
  OBVIOUS
<1>1. \A r \in Run : run[r] = NoRun
  BY DEF Init
<1>2. OneLiveRun /\ LedgerFollowsRuns
  BY <1>1 DEF Init, OneLiveRun, LedgerFollowsRuns, LiveIn, Live, NoRun
<1>3. OfMonth
  BY <1>1 DEF Init, OfMonth, NoRun, Blank
<1>4. Traceable
  BY DEF Init, Traceable
<1> QED
  BY <1>2, <1>3, <1>4 DEF RunInv

(* Nothing happens to the runs, their entries and the stamps.              *)
LEMMA RunsAtRest ==
    ASSUME TypeOK, RunInv, UNCHANGED <<run, accrual, payment>>,
           \A i \in Item : item'[i].line = item[i].line,
           \A m \in Maker : \A i \in draft'[m].seen :
              KindOf[i] = "bonus" \/ Month[i] = draft'[m].period
    PROVE  RunInv'
<1>1. OneLiveRun' /\ LedgerFollowsRuns'
  BY DEF RunInv, OneLiveRun, LedgerFollowsRuns, LiveIn, Live
<1>2. OfMonth'
  BY DEF RunInv, OfMonth
<1>3. Traceable'
  BY DEF RunInv, Traceable
<1> QED
  BY <1>1, <1>2, <1>3 DEF RunInv

LEMMA DraftsAtRest ==
    ASSUME RunInv, NEW m \in Maker, draft \in [Maker -> {Blank} \cup [period : Period, left : SUBSET Kind,
                                         seen : SUBSET Item]],
           draft' = draft \/ draft' = [draft EXCEPT ![m] = Blank]
    PROVE  \A n \in Maker : \A i \in draft'[n].seen :
              KindOf[i] = "bonus" \/ Month[i] = draft'[n].period
BY DEF RunInv, OfMonth, Blank

(* A new run joins the live ones of its month, of which there were none,   *)
(* and only dues it counts get its stamp.                                  *)
LEMMA CreateKeepsRuns ==
    ASSUME TypeOK, RunInv, NEW m \in Maker, Create(m)
    PROVE  RunInv'
<1> DEFINE p == draft[m].period
           s == draft[m].seen
<1>1. p \in Period /\ s \in SUBSET Item /\ LiveIn(p) = {}
  BY DraftType DEF Create, NoOtherRun
<1>2. PICK r \in Run :
         /\ run[r] = NoRun
         /\ run' = [run EXCEPT ![r] = [st |-> "pending_approval", period |-> p,
                                       counts |-> s, deleted |-> FALSE]]
         /\ item' = [i \in Item |-> Marked(i, r, p, s)]
         /\ accrual' = accrual \cup {r}
  BY DEF Create
<1>3. payment' = payment /\ draft' = [draft EXCEPT ![m] = Blank]
  BY DEF Create
<1>4. \A i \in s : KindOf[i] = "bonus" \/ Month[i] = p
  BY DEF RunInv, OfMonth
<1> HIDE DEF p, s
<1>5. \A q \in Run : q # r => run'[q] = run[q]
  BY <1>2 DEF TypeOK
<1>6. run'[r] = [st |-> "pending_approval", period |-> p, counts |-> s, deleted |-> FALSE]
  BY <1>2 DEF TypeOK
<1>7. OneLiveRun'
  <2>1. \A q \in Run : q # r => (Live(q)' <=> Live(q))
    BY <1>5 DEF Live
  <2>2. ASSUME NEW c \in Period, NEW a \in LiveIn(c)', NEW b \in LiveIn(c)' PROVE a = b
    <3>1. CASE c = p
      BY <1>1, <1>5, <1>6, <2>1, <3>1, <2>2 DEF LiveIn
    <3>2. CASE c # p
      <4>1. a # r /\ b # r /\ a \in Run /\ b \in Run
        BY <1>6, <2>2, <3>2 DEF LiveIn
      <4>2. a \in LiveIn(c) /\ b \in LiveIn(c)
        BY <1>5, <2>1, <2>2, <4>1 DEF LiveIn
      <4> QED
        BY <4>2 DEF RunInv, OneLiveRun
    <3> QED
      BY <3>1, <3>2
  <2> QED
    BY <2>2 DEF OneLiveRun
<1>8. OfMonth'
  <2>1. \A q \in Run : \A i \in run'[q].counts :
           KindOf[i] = "bonus" \/ Month[i] = run'[q].period
    <3>1. \A q \in Run \ {r} : \A i \in run'[q].counts :
             KindOf[i] = "bonus" \/ Month[i] = run'[q].period
      BY <1>5 DEF RunInv, OfMonth
    <3> QED
      BY <1>4, <1>6, <3>1
  <2>2. \A n \in Maker : \A i \in draft'[n].seen :
           KindOf[i] = "bonus" \/ Month[i] = draft'[n].period
    BY <1>3, DraftsAtRest DEF TypeOK
  <2> QED
    BY <2>1, <2>2 DEF OfMonth
<1>9. Traceable'
  <2>1. ASSUME NEW i \in Item, item'[i].line # None PROVE i \in run'[item'[i].line].counts
    <3>1. item'[i] = Marked(i, r, p, s)
      BY <1>2
    <3>2. CASE item'[i].line = r /\ i \in s
      BY <1>6, <3>2
    <3>3. CASE item'[i].line = item[i].line
      <4>1. item[i].line \in Run
        BY <2>1, <3>3 DEF TypeOK
      <4>2. i \in run[item[i].line].counts
        BY <2>1, <3>3 DEF RunInv, Traceable
      <4>3. item[i].line # r
        BY <1>2, <4>2 DEF NoRun
      <4> QED
        BY <1>5, <3>3, <4>1, <4>2, <4>3
    <3>4. (item'[i].line = r /\ i \in s) \/ item'[i].line = item[i].line
      <4>1. item[i] \in [st : {"open", "due", "paid", "void"}, line : Run \cup {None}]
        BY DEF TypeOK
      <4> QED
        BY <3>1, <4>1 DEF Marked
    <3> QED
      BY <3>2, <3>3, <3>4
  <2> QED
    BY <2>1 DEF Traceable
<1>10. LedgerFollowsRuns'
  <2>1. \A q \in Run : q # r => (Live(q)' <=> Live(q))
    BY <1>5 DEF Live
  <2>2. Live(r)'
    BY <1>6 DEF Live
  <2>3. \A q \in Run : run'[q].st = "posted" => q \in payment'
    BY <1>3, <1>5, <1>6 DEF RunInv, LedgerFollowsRuns
  <2> QED
    BY <1>2, <2>1, <2>2, <2>3 DEF RunInv, LedgerFollowsRuns
<1> QED
  BY <1>7, <1>8, <1>9, <1>10 DEF RunInv

(* What the keepers do to a run makes no other run live.                   *)
LEMMA KeepersKeepRuns ==
    ASSUME TypeOK, Exists, RunInv, NEW k \in Keeper,
           ApproveRun(k) \/ PostRun(k) \/ DeleteRun(k)
    PROVE  RunInv'
<1> DEFINE r == task[k].on
<1>1. task[k] # Idle
  BY DEF ApproveRun, PostRun, DeleteRun, Idle
<1>2. /\ r \in Run /\ run[r].st # "none"
      /\ run[r] \in [st : {"pending_approval", "completed", "posted"}, period : Period,
                     counts : SUBSET Item, deleted : BOOLEAN]
  BY <1>1, TaskType, RunType DEF Exists
<1>3. draft' = draft
  BY DEF ApproveRun, PostRun, DeleteRun
<1>4. \A q \in Run : q # r => run'[q] = run[q]
  BY DEF ApproveRun, PostRun, DeleteRun, TypeOK
<1>5. /\ run'[r].period = run[r].period /\ run'[r].counts = run[r].counts
      /\ run'[r].st \in {"pending_approval", "completed", "posted"}
      /\ run[r].deleted => run'[r].deleted
  BY <1>2 DEF ApproveRun, PostRun, DeleteRun, TypeOK
<1>6. \A q \in Run : /\ run'[q].period = run[q].period
                     /\ run'[q].counts = run[q].counts
                     /\ Live(q)' => Live(q)
  BY <1>2, <1>4, <1>5 DEF Live
<1> HIDE DEF r
<1>7. OneLiveRun'
  <2>1. \A c \in Period : LiveIn(c)' \subseteq LiveIn(c)
    BY <1>6 DEF LiveIn
  <2> QED
    BY <2>1 DEF RunInv, OneLiveRun
<1>8. OfMonth'
  BY <1>3, <1>6 DEF RunInv, OfMonth
<1>9. \A i \in Item : item'[i].line = item[i].line
  <2>1. CASE ApproveRun(k) \/ PostRun(k)
    BY <2>1 DEF ApproveRun, PostRun
  <2>2. CASE DeleteRun(k)
    BY <1>2, <2>2, RestoredType DEF DeleteRun, r
  <2> QED
    BY <2>1, <2>2
<1>10. Traceable'
  <2>1. \A i \in Item : item[i].line # None => item[i].line \in Run
    BY DEF TypeOK
  <2> QED
    BY <1>6, <1>9, <2>1 DEF RunInv, Traceable
<1>11. LedgerFollowsRuns'
  <2>1. CASE ApproveRun(k)
    <3>1. accrual' = accrual /\ payment' = payment
      BY <2>1 DEF ApproveRun
    <3>2. run'[r].deleted = run[r].deleted
      BY <1>2, <2>1 DEF ApproveRun, TypeOK, r
    <3>3. \A q \in Run : Live(q)' <=> Live(q)
      BY <1>2, <1>4, <1>5, <3>2 DEF Live
    <3>4. run'[r].st = "posted" => run[r].st = "posted"
      BY <1>2, <2>1 DEF ApproveRun, TypeOK, r
    <3> QED
      BY <1>4, <3>1, <3>3, <3>4 DEF RunInv, LedgerFollowsRuns
  <2>2. CASE PostRun(k)
    <3>1. accrual' = accrual /\ payment' = payment \cup {r}
      BY <2>2 DEF PostRun, Settled, r
    <3>2. run'[r].deleted = run[r].deleted
      BY <1>2, <2>2 DEF PostRun, TypeOK, r
    <3>3. \A q \in Run : Live(q)' <=> Live(q)
      BY <1>2, <1>4, <1>5, <3>2 DEF Live
    <3> QED
      BY <1>4, <3>1, <3>3 DEF RunInv, LedgerFollowsRuns
  <2>3. CASE DeleteRun(k)
    <3>1. accrual' = accrual \ {r} /\ payment' = payment
      BY <2>3 DEF DeleteRun, r
    <3>2. run'[r].deleted /\ run'[r].st = run[r].st
      BY <1>2, <2>3 DEF DeleteRun, TypeOK, r
    <3>3. \A q \in Run : Live(q)' <=> Live(q) /\ q # r
      BY <1>4, <3>2 DEF Live
    <3> QED
      BY <1>4, <3>1, <3>2, <3>3 DEF RunInv, LedgerFollowsRuns
  <2> QED
    BY <2>1, <2>2, <2>3
<1> QED
  BY <1>7, <1>8, <1>10, <1>11 DEF RunInv

LEMMA RunStep ==
    ASSUME TypeOK, Exists, RunInv, [Next]_vars
    PROVE  RunInv'
<1> DEFINE DraftsOfMonth == \A n \in Maker : \A i \in draft'[n].seen :
                               KindOf[i] = "bonus" \/ Month[i] = draft'[n].period
<1>1. ASSUME NEW i \in Item, Approve(i) \/ Withdraw(i) \/ Recompute(i) PROVE RunInv'
  <2>1. UNCHANGED <<run, accrual, payment, draft>>
    BY <1>1 DEF Approve, Withdraw, Recompute
  <2>2. \A j \in Item : item'[j].line = item[j].line
    BY <1>1 DEF Approve, Withdraw, Recompute, TypeOK
  <2>3. DraftsOfMonth
    BY <2>1 DEF RunInv, OfMonth
  <2> QED
    BY <2>1, <2>2, <2>3, RunsAtRest
<1>2. ASSUME NEW m \in Maker, NEW p \in Period, Begin(m, p) PROVE RunInv'
  <2>1. UNCHANGED <<run, accrual, payment, item>>
    BY <1>2 DEF Begin
  <2>2. DraftsOfMonth
    BY <1>2 DEF Begin, RunInv, OfMonth, TypeOK
  <2> QED
    BY <2>1, <2>2, RunsAtRest
<1>3. ASSUME NEW m \in Maker, NEW k \in Kind, Read(m, k) PROVE RunInv'
  <2>1. UNCHANGED <<run, accrual, payment, item>>
    BY <1>3 DEF Read
  <2>2. draft[m] # Blank
    BY <1>3 DEF Read, Blank
  <2>3. draft[m] \in [period : Period, left : SUBSET Kind, seen : SUBSET Item]
    BY <2>2, DraftType
  <2>4. draft' = [draft EXCEPT ![m].left = @ \ {k},
                               ![m].seen = @ \cup Dues(draft[m].period, k)]
    BY <1>3 DEF Read
  <2>5. \A i \in Dues(draft[m].period, k) : KindOf[i] = "bonus" \/ Month[i] = draft[m].period
    BY DEF Dues
  <2>6. /\ draft'[m].period = draft[m].period
        /\ draft'[m].seen = draft[m].seen \cup Dues(draft[m].period, k)
        /\ \A n \in Maker : n # m => draft'[n] = draft[n]
    BY <2>3, <2>4 DEF TypeOK
  <2>7. DraftsOfMonth
    BY <2>5, <2>6 DEF RunInv, OfMonth
  <2> QED
    BY <2>1, <2>7, RunsAtRest
<1>4. ASSUME NEW m \in Maker, Create(m) PROVE RunInv'
  BY <1>4, CreateKeepsRuns
<1>5. ASSUME NEW m \in Maker, Abandon(m) PROVE RunInv'
  <2>1. UNCHANGED <<run, accrual, payment, item>>
    BY <1>5 DEF Abandon
  <2>2. DraftsOfMonth
    BY <1>5, DraftsAtRest DEF Abandon, TypeOK
  <2> QED
    BY <2>1, <2>2, RunsAtRest
<1>6. ASSUME NEW k \in Keeper, NEW op \in Request, NEW r \in Run,
             StartRequest(k, op, r)
      PROVE RunInv'
  <2>1. UNCHANGED <<run, accrual, payment, item, draft>>
    BY <1>6 DEF StartRequest
  <2>2. DraftsOfMonth
    BY <2>1 DEF RunInv, OfMonth
  <2> QED
    BY <2>1, <2>2, RunsAtRest
<1>7. ASSUME NEW k \in Keeper, ApproveRun(k) \/ PostRun(k) \/ DeleteRun(k) PROVE RunInv'
  BY <1>7, KeepersKeepRuns
<1>8. ASSUME NEW k \in Keeper, GiveUp(k) PROVE RunInv'
  <2>1. UNCHANGED <<run, accrual, payment, item, draft>>
    BY <1>8 DEF GiveUp
  <2>2. DraftsOfMonth
    BY <2>1 DEF RunInv, OfMonth
  <2> QED
    BY <2>1, <2>2, RunsAtRest
<1>9. CASE UNCHANGED vars
  <2>1. UNCHANGED <<run, accrual, payment, item, draft>>
    BY <1>9 DEF vars
  <2>2. DraftsOfMonth
    BY <2>1 DEF RunInv, OfMonth
  <2> QED
    BY <2>1, <2>2, RunsAtRest
<1> QED
  BY <1>1, <1>2, <1>3, <1>4, <1>5, <1>6, <1>7, <1>8, <1>9
     DEF Next, DueStep, MakerStep, KeeperStep

THEOREM RunInvariant == Spec => [](TypeOK /\ Exists /\ RunInv)
<1>1. Init => RunInv
  BY InitRuns
<1>2. TypeOK /\ Exists /\ RunInv /\ [Next]_vars => RunInv'
  BY RunStep
<1> QED
  BY <1>1, <1>2, TypeCorrect, PTL DEF Spec


(* A month has at most one live run.                                       *)
THEOREM OneRunPerMonth == Spec => []OneLiveRun
BY RunInvariant, PTL DEF RunInv

(* No due of a month is counted by two live runs.                          *)
THEOREM NoDuePaidTwice == Spec => []PaidOnce
<1>1. TypeOK /\ RunInv => PaidOnce
  <2> SUFFICES ASSUME TypeOK, RunInv, NEW r \in Run, NEW q \in Run, Live(r), Live(q), r # q,
                      NEW i \in run[r].counts \cap run[q].counts, KindOf[i] # "bonus"
               PROVE  FALSE
    BY DEF PaidOnce
  <2>1. run[r].period = run[q].period
    BY DEF RunInv, OfMonth
  <2>2. run[r].period \in Period
    BY RunType DEF Live
  <2> QED
    BY <2>1, <2>2 DEF RunInv, OneLiveRun, LiveIn
<1> QED
  BY <1>1, RunInvariant, PTL

(* A stamp names a run that counts the due.                                *)
THEOREM StampsAreTrue == Spec => []Traceable
BY RunInvariant, PTL DEF RunInv

(* Accrual entries follow the live runs; posted runs are settled.          *)
THEOREM BooksFollowRuns == Spec => []LedgerFollowsRuns
BY RunInvariant, PTL DEF RunInv

-----------------------------------------------------------------------------
(* With approvals and deletions apart from the requests of other keepers,  *)
(* what such a request has read still holds when it writes.                *)
KeptApart == {"approve", "delete"} \subseteq Apart

Fresh ==
    /\ \A k \in Keeper : task[k].op \in {"approve", "delete"} =>
          /\ Admits(task[k].op, task[k].on)
          /\ \A h \in Keeper : h # k => task[h] = Idle
    /\ \A r \in payment : Live(r) /\ run[r].st = "posted"

LEMMA FreshStep ==
    ASSUME KeptApart, TypeOK, Exists, RunInv, Fresh, [Next]_vars
    PROVE  Fresh'
<1>1. ASSUME UNCHANGED <<run, payment, task>> PROVE Fresh'
  BY <1>1 DEF Fresh, Admits, Live
<1>2. ASSUME NEW m \in Maker, Create(m) PROVE Fresh'
  <2>1. PICK r \in Run :
           /\ run[r] = NoRun
           /\ run' = [run EXCEPT ![r] = [st |-> "pending_approval", period |-> draft[m].period,
                                         counts |-> draft[m].seen, deleted |-> FALSE]]
    BY <1>2 DEF Create
  <2>2. UNCHANGED <<payment, task>>
    BY <1>2 DEF Create
  <2>3. \A q \in Run : Live(q) => run'[q] = run[q]
    BY <2>1 DEF Live, NoRun, TypeOK
  <2>4. \A q \in payment : Live(q)' /\ run'[q].st = "posted"
    BY <2>3 DEF Fresh, Live, TypeOK
  <2>5. ASSUME NEW k \in Keeper, task[k].op \in {"approve", "delete"}
        PROVE  Admits(task[k].op, task[k].on)'
    <3>1. task[k].on \in Run
      BY <2>5, TaskType DEF Idle
    <3>2. Admits(task[k].op, task[k].on)
      BY <2>5 DEF Fresh
    <3> QED
      BY <2>2, <2>3, <3>1, <3>2 DEF Admits, Live
  <2> QED
    BY <2>2, <2>4, <2>5 DEF Fresh
<1>3. ASSUME NEW k \in Keeper, NEW op \in Request, NEW r \in Run, StartRequest(k, op, r)
      PROVE Fresh'
  <2>1. /\ task[k] = Idle /\ Admits(op, r) /\ MayOverlap(op)
        /\ task' = [task EXCEPT ![k] = [op |-> op, on |-> r]]
        /\ UNCHANGED <<run, payment>>
    BY <1>3 DEF StartRequest
  <2>2. task'[k] = [op |-> op, on |-> r] /\ \A h \in Keeper : h # k => task'[h] = task[h]
    BY <2>1 DEF TypeOK
  <2>3. \A h \in Keeper : task[h].op \notin {"approve", "delete"}
    <3>1. ASSUME NEW h \in Keeper, task[h].op \in {"approve", "delete"} PROVE FALSE
      <4>1. h \in Busy
        BY <3>1 DEF Busy, Idle
      <4> QED
        BY <2>1, <3>1, <4>1 DEF MayOverlap, KeptApart
    <3> QED
      BY <3>1
  <2>4. ASSUME op \in {"approve", "delete"} PROVE \A h \in Keeper : task[h] = Idle
    BY <2>1, <2>4 DEF MayOverlap, Busy, KeptApart
  <2>5. \A q \in payment' : Live(q)' /\ run'[q].st = "posted"
    BY <2>1 DEF Fresh, Live
  <2>6. ASSUME NEW h \in Keeper, task'[h].op \in {"approve", "delete"}
        PROVE  /\ Admits(task[h].op, task[h].on)'
               /\ \A g \in Keeper : g # h => task'[g] = Idle
    <3>1. h = k
      BY <2>2, <2>3, <2>6
    <3>2. task'[h].op = op /\ task'[h].on = r
      BY <2>2, <3>1
    <3>3. Admits(task[h].op, task[h].on)'
      BY <2>1, <3>2 DEF Admits, Live
    <3>4. \A g \in Keeper : g # h => task'[g] = Idle
      BY <2>2, <2>4, <2>6, <3>1, <3>2
    <3> QED
      BY <3>3, <3>4
  <2> QED
    BY <2>5, <2>6 DEF Fresh
<1>4. ASSUME NEW k \in Keeper, ApproveRun(k) \/ PostRun(k) \/ DeleteRun(k) \/ GiveUp(k)
      PROVE  /\ \A h \in Keeper : h # k => task'[h] = task[h]
             /\ task'[k] = Idle
             /\ task[k] # Idle
  BY <1>4 DEF ApproveRun, PostRun, DeleteRun, GiveUp, Finish, TypeOK, Idle
<1>5. ASSUME NEW k \in Keeper, ApproveRun(k) \/ PostRun(k) \/ DeleteRun(k) \/ GiveUp(k)
      PROVE  \A h \in Keeper : task'[h].op \notin {"approve", "delete"}
  <2>1. ASSUME NEW h \in Keeper, task'[h].op \in {"approve", "delete"} PROVE FALSE
    <3>1. h # k /\ task[h].op \in {"approve", "delete"}
      BY <1>4, <1>5, <2>1 DEF Idle
    <3> QED
      BY <1>4, <1>5, <3>1 DEF Fresh
  <2> QED
    BY <2>1
<1>6. ASSUME NEW k \in Keeper, ApproveRun(k) \/ DeleteRun(k) PROVE Fresh'
  <2> DEFINE r == task[k].on
  <2>1. task[k].op \in {"approve", "delete"} /\ r \in Run
    BY <1>6, TaskType DEF ApproveRun, DeleteRun, Idle
  <2>2. Admits(task[k].op, r)
    BY <2>1 DEF Fresh
  <2>3. r \notin payment
    BY <1>6, <2>1, <2>2 DEF Fresh, Admits, ApproveRun, DeleteRun
  <2>4. payment' = payment /\ \A q \in Run : q # r => run'[q] = run[q]
    BY <1>6, <2>1 DEF ApproveRun, DeleteRun, TypeOK
  <2>5. \A q \in payment' : Live(q)' /\ run'[q].st = "posted"
    BY <2>3, <2>4 DEF Fresh, Live, TypeOK
  <2> QED
    BY <1>5, <1>6, <2>5 DEF Fresh
<1>7. ASSUME NEW k \in Keeper, PostRun(k) PROVE Fresh'
  <2> DEFINE r == task[k].on
  <2>1. r \in Run /\ Live(r)
    BY <1>7, TaskType DEF PostRun, Idle
  <2>2. /\ payment' = payment \cup {r}
        /\ \A q \in Run : q # r => run'[q] = run[q]
        /\ run'[r].st = "posted" /\ run'[r].deleted = run[r].deleted
    <3>1. run[r] \in [st : {"pending_approval", "completed", "posted"}, period : Period,
                      counts : SUBSET Item, deleted : BOOLEAN]
      BY <2>1, RunType DEF Live
    <3> QED
      BY <1>7, <2>1, <3>1 DEF PostRun, Settled, TypeOK
  <2>3. \A q \in payment' : Live(q)' /\ run'[q].st = "posted"
    BY <2>1, <2>2 DEF Fresh, Live, TypeOK
  <2> QED
    BY <1>5, <1>7, <2>3 DEF Fresh
<1>8. ASSUME NEW k \in Keeper, GiveUp(k) PROVE Fresh'
  <2>1. UNCHANGED <<run, payment>>
    BY <1>8 DEF GiveUp
  <2> QED
    BY <1>5, <1>8, <2>1 DEF Fresh, Live
<1>9. ASSUME DueStep \/ (\E m \in Maker : (\E p \in Period : Begin(m, p)) \/ (\E k \in Kind : Read(m, k)) \/ Abandon(m))
      PROVE  UNCHANGED <<run, payment, task>>
  BY <1>9 DEF DueStep, Approve, Withdraw, Recompute, Begin, Read, Abandon
<1> QED
  BY <1>1, <1>2, <1>3, <1>6, <1>7, <1>8, <1>9
     DEF Next, MakerStep, KeeperStep, vars

THEOREM FreshInvariant ==
    ASSUME KeptApart
    PROVE  Spec => [](TypeOK /\ Exists /\ RunInv /\ Fresh)
<1>1. Init => Fresh
  BY DEF Init, Fresh, Idle
<1>2. TypeOK /\ Exists /\ RunInv /\ Fresh /\ [Next]_vars => Fresh'
  BY FreshStep
<1> QED
  BY <1>1, <1>2, RunInvariant, PTL DEF Spec

(* The salaries of a month leave the bank once.                            *)
THEOREM MonthSettledOnce ==
    ASSUME KeptApart
    PROVE  Spec => []SalariesPaidOnce
<1>1. TypeOK /\ RunInv /\ Fresh => SalariesPaidOnce
  <2> SUFFICES ASSUME TypeOK, RunInv, Fresh, NEW r \in payment, NEW q \in payment,
                      run[r].period = run[q].period
               PROVE  r = q
    BY DEF SalariesPaidOnce
  <2>1. r \in Run /\ q \in Run /\ Live(r) /\ Live(q)
    BY DEF Fresh, TypeOK
  <2>2. run[r].period \in Period
    BY <2>1, RunType DEF Live
  <2> QED
    BY <2>1, <2>2 DEF RunInv, OneLiveRun, LiveIn
<1> QED
  BY <1>1, FreshInvariant, PTL

-----------------------------------------------------------------------------
(* Dues: what is read for a run is not open again until it is counted, and *)
(* what a live run counts stays stamped, paid or withdrawn.                *)
Consumed ==
    /\ \A i \in Item : KindOf[i] \in {"hours", "bonus"} => item[i].st \in {"open", "due"}
    /\ \A m \in Maker : \A i \in draft[m].seen :
          KindOf[i] # "commission" => item[i].st # "open"
    /\ \A r \in Run : Live(r) => \A i \in run[r].counts :
          /\ KindOf[i] \in {"hours", "bonus"} => item[i].line # None
          /\ KindOf[i] \in Swept => item[i].st \in {"paid", "void"}

LEMMA ConsumedAtRest ==
    ASSUME TypeOK, Consumed, UNCHANGED <<run, item>>,
           \A m \in Maker : \A i \in draft'[m].seen :
              KindOf[i] # "commission" => item[i].st # "open"
    PROVE  Consumed'
BY DEF Consumed, Live

LEMMA DueKeepsConsumed ==
    ASSUME TypeOK, Consumed, NEW i \in Item, Approve(i) \/ Withdraw(i) \/ Recompute(i)
    PROVE  Consumed'
<1>1. UNCHANGED <<run, draft>> /\ \A j \in Item : j # i => item'[j] = item[j]
  BY DEF Approve, Withdraw, Recompute, TypeOK
<1>2. item'[i].line = item[i].line
  BY DEF Approve, Withdraw, Recompute, TypeOK
<1>3. \/ item[i].st = "open" /\ item'[i].st = "due"
      \/ KindOf[i] = "deduction" /\ item[i].st = "due" /\ item'[i].st = "void"
      \/ KindOf[i] = "commission" /\ item'[i].st = "open"
  BY DEF Approve, Withdraw, Recompute, TypeOK
<1>4. \A m \in Maker : draft[m].seen \subseteq Item
  BY DEF TypeOK, Blank
<1>5. \A r \in Run : run[r].counts \subseteq Item
  BY DEF TypeOK, RunRow, NoRun
<1>6. (\A j \in Item : KindOf[j] \in {"hours", "bonus"} => item[j].st \in {"open", "due"})'
  BY <1>1, <1>3 DEF Consumed
<1>7. (\A m \in Maker : \A j \in draft[m].seen :
         KindOf[j] # "commission" => item[j].st # "open")'
  BY <1>1, <1>3, <1>4 DEF Consumed
<1>8. ASSUME NEW r \in Run, Live(r), NEW j \in run[r].counts
      PROVE  /\ KindOf[j] \in {"hours", "bonus"} => item'[j].line # None
             /\ KindOf[j] \in Swept => item'[j].st \in {"paid", "void"}
  <2>1. /\ KindOf[j] \in {"hours", "bonus"} => item[j].line # None
        /\ KindOf[j] \in Swept => item[j].st \in {"paid", "void"}
    BY <1>8 DEF Consumed
  <2> QED
    BY <1>1, <1>2, <1>3, <1>5, <2>1 DEF Swept
<1> QED
  BY <1>1, <1>6, <1>7, <1>8 DEF Consumed, Live

LEMMA CreateKeepsConsumed ==
    ASSUME TypeOK, RunInv, Consumed, NEW m \in Maker, Create(m)
    PROVE  Consumed'
<1> DEFINE p == draft[m].period
           s == draft[m].seen
<1>1. p \in Period /\ s \in SUBSET Item
  BY DraftType DEF Create
<1>2. PICK r \in Run :
         /\ run[r] = NoRun
         /\ run' = [run EXCEPT ![r] = [st |-> "pending_approval", period |-> p,
                                       counts |-> s, deleted |-> FALSE]]
         /\ item' = [i \in Item |-> Marked(i, r, p, s)]
  BY DEF Create
<1>3. draft' = [draft EXCEPT ![m] = Blank]
  BY DEF Create
<1>4. \A i \in s : KindOf[i] = "bonus" \/ Month[i] = p
  BY DEF RunInv, OfMonth
<1>5. \A i \in s : KindOf[i] # "commission" => item[i].st # "open"
  BY DEF Consumed
<1> HIDE DEF p, s
<1>6. r # None
  BY PayrollAssumption
<1>7. ASSUME NEW i \in Item
      PROVE  /\ item[i].st # "open" => item'[i].st # "open"
             /\ KindOf[i] \in {"hours", "bonus"} => item'[i].st \in {"open", "due"}
             /\ item[i].line # None => item'[i].line # None
             /\ item[i].st \in {"paid", "void"} => item'[i].st = item[i].st
             /\ i \in s /\ KindOf[i] \in {"hours", "bonus"} => item'[i].line # None
             /\ i \in s /\ KindOf[i] \in Swept => item'[i].st \in {"paid", "void"}
  <2>1. item'[i] = Marked(i, r, p, s)
    BY <1>2
  <2>2. /\ item[i] \in [st : {"open", "due", "paid", "void"}, line : Run \cup {None}]
        /\ KindOf[i] \in Swept => item[i].line = None
        /\ KindOf[i] \in {"hours", "bonus"} => item[i].st \in {"open", "due"}
    BY DEF TypeOK, Consumed
  <2>3. KindOf[i] \in Kind
    BY PayrollAssumption
  <2>4. CASE KindOf[i] \in Stamped
    <3>1. item'[i] = IF i \in s /\ Due(i)
                     THEN [st |-> IF KindOf[i] = "commission" THEN "paid" ELSE "due", line |-> r]
                     ELSE item[i]
      BY <2>1, <2>4 DEF Marked, Stamped, Swept
    <3> QED
      BY <1>5, <1>6, <2>2, <2>4, <3>1 DEF Due, Stamped, Swept
  <2>5. CASE KindOf[i] \in Swept
    <3> DEFINE sw == /\ item[i].st = "due" /\ Month[i] = p
                     /\ KindOf[i] = "deduction" \/ \E j \in s : KindOf[j] = KindOf[i]
    <3>1. item'[i] = IF sw THEN [item[i] EXCEPT !.st = "paid"] ELSE item[i]
      BY <2>1, <2>5 DEF Marked, Stamped, Swept
    <3>2. i \in s /\ item[i].st = "due" => sw
      BY <1>4, <2>5 DEF Swept
    <3> HIDE DEF sw
    <3>3. i \in s => item[i].st # "open"
      BY <1>5, <2>5 DEF Swept
    <3>4. sw => item[i].st = "due"
      BY DEF sw
    <3> QED
      BY <2>2, <2>5, <3>1, <3>2, <3>3, <3>4 DEF Swept
  <2> QED
    BY <2>3, <2>4, <2>5 DEF Kind
<1>8. (\A n \in Maker : \A i \in draft[n].seen :
         KindOf[i] # "commission" => item[i].st # "open")'
  <2>1. \A n \in Maker : draft[n].seen \subseteq Item
    BY DEF TypeOK, Blank
  <2>2. \A n \in Maker : draft'[n].seen \subseteq draft[n].seen
    BY <1>3 DEF TypeOK, Blank
  <2> QED
    BY <1>7, <2>1, <2>2 DEF Consumed
<1>9. ASSUME NEW q \in Run, Live(q)', NEW i \in run'[q].counts
      PROVE  /\ KindOf[i] \in {"hours", "bonus"} => item'[i].line # None
             /\ KindOf[i] \in Swept => item'[i].st \in {"paid", "void"}
  <2>1. CASE q = r
    <3>1. i \in s
      BY <1>2, <1>9, <2>1 DEF TypeOK
    <3> QED
      BY <1>1, <1>7, <3>1
  <2>2. CASE q # r
    <3>1. run'[q] = run[q]
      BY <1>2, <2>2 DEF TypeOK
    <3>2. Live(q) /\ i \in run[q].counts
      BY <1>9, <3>1 DEF Live
    <3>3. i \in Item
      BY <3>2 DEF TypeOK, RunRow, NoRun
    <3> QED
      BY <1>7, <3>2, <3>3 DEF Consumed
  <2> QED
    BY <2>1, <2>2
<1> QED
  BY <1>7, <1>8, <1>9 DEF Consumed

(* The deductions that a deletion sends back belong to the month of the    *)
(* run, which is live until now and so the only one that counts them.      *)
LEMMA DeleteKeepsConsumed ==
    ASSUME TypeOK, RunInv, Fresh, Consumed, NEW k \in Keeper, DeleteRun(k)
    PROVE  Consumed'
<1> DEFINE r == task[k].on
<1>1. r \in Run /\ Live(r)
  BY TaskType DEF DeleteRun, Idle, Fresh, Admits
<1>2. /\ item' = [i \in Item |-> Restored(i, r)]
      /\ run' = [run EXCEPT ![r].deleted = TRUE]
      /\ draft' = draft
  BY DEF DeleteRun
<1>3. run[r].period \in Period
  BY <1>1, RunType DEF Live
<1> HIDE DEF r
<1>4. ASSUME NEW i \in Item
      PROVE  /\ item'[i].line = item[i].line
             /\ item[i].st # "open" => item'[i].st # "open"
             /\ KindOf[i] \notin {"deduction"} => item'[i].st = item[i].st
             /\ Month[i] # run[r].period => item'[i].st = item[i].st
  <2>1. item'[i] = Restored(i, r)
    BY <1>2
  <2>2. /\ item[i] \in [st : {"open", "due", "paid", "void"}, line : Run \cup {None}]
        /\ KindOf[i] \in Swept => item[i].line = None
    BY DEF TypeOK
  <2>3. KindOf[i] \in {"installment", "overtime"} => item[i].line # r
    BY <1>1, <2>2, PayrollAssumption DEF Swept
  <2> QED
    BY <2>1, <2>2, <2>3 DEF Restored
<1>5. ASSUME NEW q \in Run, Live(q)', NEW i \in run'[q].counts
      PROVE  /\ KindOf[i] \in {"hours", "bonus"} => item'[i].line # None
             /\ KindOf[i] \in Swept => item'[i].st \in {"paid", "void"}
  <2>1. q # r
    BY <1>1, <1>2, <1>5 DEF Live, TypeOK
  <2>2. run'[q] = run[q]
    BY <1>2, <2>1 DEF TypeOK
  <2>3. Live(q) /\ i \in run[q].counts
    BY <1>5, <2>2 DEF Live
  <2>4. i \in Item
    BY <2>3 DEF TypeOK, RunRow, NoRun
  <2>5. run[q].period # run[r].period
    BY <1>1, <1>3, <2>1, <2>3 DEF RunInv, OneLiveRun, LiveIn
  <2>6. KindOf[i] = "bonus" \/ Month[i] = run[q].period
    BY <2>3 DEF RunInv, OfMonth
  <2>7. KindOf[i] \in Swept => item'[i].st = item[i].st
    BY <1>4, <2>4, <2>5, <2>6 DEF Swept
  <2> QED
    BY <1>4, <2>3, <2>4, <2>7 DEF Consumed
<1>6. (\A m \in Maker : \A i \in draft[m].seen :
         KindOf[i] # "commission" => item[i].st # "open")'
  <2>1. \A m \in Maker : draft[m].seen \subseteq Item
    BY DEF TypeOK, Blank
  <2> QED
    BY <1>2, <1>4, <2>1 DEF Consumed
<1>7. (\A i \in Item : KindOf[i] \in {"hours", "bonus"} => item[i].st \in {"open", "due"})'
  BY <1>4 DEF Consumed
<1> QED
  BY <1>5, <1>6, <1>7 DEF Consumed

LEMMA ConsumedStep ==
    ASSUME TypeOK, Exists, RunInv, Fresh, Consumed, [Next]_vars
    PROVE  Consumed'
<1>1. ASSUME NEW i \in Item, Approve(i) \/ Withdraw(i) \/ Recompute(i) PROVE Consumed'
  BY <1>1, DueKeepsConsumed
<1>2. ASSUME NEW m \in Maker, NEW p \in Period, Begin(m, p) PROVE Consumed'
  <2>1. \A n \in Maker : draft'[n].seen \subseteq draft[n].seen
    BY <1>2 DEF Begin, TypeOK
  <2>2. UNCHANGED <<run, item>>
    BY <1>2 DEF Begin
  <2> QED
    BY <2>1, <2>2, ConsumedAtRest DEF Consumed
<1>3. ASSUME NEW m \in Maker, NEW k \in Kind, Read(m, k) PROVE Consumed'
  <2>1. draft[m] # Blank
    BY <1>3 DEF Read, Blank
  <2>2. draft[m] \in [period : Period, left : SUBSET Kind, seen : SUBSET Item]
    BY <2>1, DraftType
  <2>3. draft' = [draft EXCEPT ![m].left = @ \ {k},
                               ![m].seen = @ \cup Dues(draft[m].period, k)]
    BY <1>3 DEF Read
  <2>4. /\ draft'[m].seen = draft[m].seen \cup Dues(draft[m].period, k)
        /\ \A n \in Maker : n # m => draft'[n] = draft[n]
    BY <2>2, <2>3 DEF TypeOK
  <2>5. \A i \in Dues(draft[m].period, k) : item[i].st # "open"
    BY DEF Dues, Due
  <2>6. \A n \in Maker : \A i \in draft'[n].seen :
           KindOf[i] # "commission" => item[i].st # "open"
    BY <2>4, <2>5 DEF Consumed
  <2>7. UNCHANGED <<run, item>>
    BY <1>3 DEF Read
  <2> QED
    BY <2>6, <2>7, ConsumedAtRest
<1>4. ASSUME NEW m \in Maker, Create(m) PROVE Consumed'
  BY <1>4, CreateKeepsConsumed
<1>5. ASSUME NEW m \in Maker, Abandon(m) PROVE Consumed'
  <2>1. \A n \in Maker : draft'[n].seen \subseteq draft[n].seen
    BY <1>5 DEF Abandon, Blank, TypeOK
  <2>2. UNCHANGED <<run, item>>
    BY <1>5 DEF Abandon
  <2> QED
    BY <2>1, <2>2, ConsumedAtRest DEF Consumed
<1>6. ASSUME NEW k \in Keeper, NEW op \in Request, NEW r \in Run, StartRequest(k, op, r)
      PROVE Consumed'
  <2>1. UNCHANGED <<run, item, draft>>
    BY <1>6 DEF StartRequest
  <2> QED
    BY <2>1, ConsumedAtRest DEF Consumed
<1>7. ASSUME NEW k \in Keeper, ApproveRun(k) \/ PostRun(k) PROVE Consumed'
  <2>1. UNCHANGED <<item, draft>>
    BY <1>7 DEF ApproveRun, PostRun
  <2>2. /\ task[k].on \in Run /\ run[task[k].on].st # "none"
        /\ run[task[k].on] \in [st : {"pending_approval", "completed", "posted"},
                                period : Period, counts : SUBSET Item, deleted : BOOLEAN]
    BY <1>7, TaskType, RunType DEF ApproveRun, PostRun, Idle, Exists
  <2>3. \A q \in Run : run'[q].counts = run[q].counts /\ (Live(q)' => Live(q))
    <3>1. CASE ApproveRun(k)
      BY <2>2, <3>1 DEF ApproveRun, TypeOK, Live
    <3>2. CASE PostRun(k)
      BY <2>2, <3>2 DEF PostRun, TypeOK, Live
    <3> QED
      BY <1>7, <3>1, <3>2
  <2> QED
    BY <2>1, <2>3 DEF Consumed
<1>8. ASSUME NEW k \in Keeper, DeleteRun(k) PROVE Consumed'
  BY <1>8, DeleteKeepsConsumed
<1>9. ASSUME NEW k \in Keeper, GiveUp(k) PROVE Consumed'
  <2>1. UNCHANGED <<run, item, draft>>
    BY <1>9 DEF GiveUp
  <2> QED
    BY <2>1, ConsumedAtRest DEF Consumed
<1>10. CASE UNCHANGED vars
  <2>1. UNCHANGED <<run, item, draft>>
    BY <1>10 DEF vars
  <2> QED
    BY <2>1, ConsumedAtRest DEF Consumed
<1> QED
  BY <1>1, <1>2, <1>3, <1>4, <1>5, <1>6, <1>7, <1>8, <1>9, <1>10
     DEF Next, DueStep, MakerStep, KeeperStep

(* What a live run counts is not due any more, commissions excepted.       *)
THEOREM CountedIsConsumed ==
    ASSUME KeptApart
    PROVE  Spec => []CountedIsNotDue
<1>1. Init => Consumed
  BY DEF Init, Consumed, NoRun, Blank, Live
<1>2. TypeOK /\ Exists /\ RunInv /\ Fresh /\ Consumed /\ [Next]_vars => Consumed'
  BY ConsumedStep
<1>3. TypeOK /\ Consumed => CountedIsNotDue
  <2> SUFFICES ASSUME TypeOK, Consumed, NEW r \in Run, Live(r), NEW i \in run[r].counts,
                      KindOf[i] # "commission"
               PROVE  ~Due(i)
    BY DEF CountedIsNotDue
  <2>1. i \in Item
    BY DEF TypeOK, RunRow, NoRun
  <2>2. KindOf[i] \in {"hours", "bonus"} \cup Swept
    BY <2>1, PayrollAssumption DEF Kind, Stamped
  <2> QED
    BY <2>2 DEF Consumed, Due
<1> QED
  BY <1>1, <1>2, <1>3, FreshInvariant, PTL DEF Spec

=============================================================================
