---------------------------- MODULE LedgerProofs ----------------------------
(***************************************************************************)
(* Theorems about Ledger, for every set of clients, entries, keys,         *)
(* accounts and periods: its types; what the rows and the requests keep    *)
(* however requests overlap and drop, closed periods draining among it;    *)
(* and what the balances keep when the work on accident entries comes one  *)
(* request at a time and no reversal drops half-way.                       *)
(***************************************************************************)
EXTENDS Ledger, TLAPS

-----------------------------------------------------------------------------
(* The records a request keeps of what it has read.                        *)
LEMMA JobTypes ==
  /\ NoJob \in Job
  /\ \A k \in Key \cup {None}, e \in Entry \cup {None} : Posting(k, e) \in Job
  /\ \A k \in Key \cup {None}, e \in Entry \cup {None}, b \in BOOLEAN, T \in SUBSET Line :
        Reversing(k, e, b, T) \in Job
  /\ \A p \in Period : Closing(p) \in Job
  BY DEF NoJob, Posting, Reversing, Closing, Job, Status

(* The decisions of every kind of document are among those listed.         *)
LEMMA DecisionType ==
  ASSUME NEW k \in Kind, NEW d \in Decisions[k]
  PROVE  /\ d.from \subseteq Status
         /\ d.to \in Status \cup {"deleted"}
         /\ d.effect \in {"none", "apply", "reverse"}
  BY DEF Kind, Decisions, Decision, ExpenseDecisions, InboxDecisions, VoucherDecisions,
         ManualDecisions, DraftDeletion, Status

LEMMA DecidingType ==
  ASSUME NEW e \in Entry, NEW k \in Kind, NEW d \in Decisions[k]
  PROVE  Deciding(e, d) \in Job
  BY DecisionType DEF NoJob, Deciding, Job, Status

LEMMA RoundingType ==
  ASSUME TypeOK, NEW e \in Entry
  PROVE  Rounding9999(e) \in Job
  BY DEF TypeOK, NoJob, Rounding9999, Job, Status

(* The fields of a request's record.                                       *)
LEMMA JobFields ==
  ASSUME TypeOK, NEW c \in Client
  PROVE  /\ job[c] \in Job /\ pc[c] \in Step /\ JobOK(pc[c], job[c])
         /\ job[c].key \in Key \cup {None} /\ job[c].entry \in Entry \cup {None}
         /\ job[c].todo \in SUBSET Line /\ job[c].delete \in BOOLEAN
         /\ job[c].to \in Status \cup {"deleted"}
         /\ job[c].effect \in {"none", "apply", "reverse"}
         /\ job[c].period \in Period \cup {None}
         /\ job[c].entry # None => st[job[c].entry] # "free"
  BY DEF TypeOK, Requests, Job

LEMMA KeyType ==
  ASSUME TypeOK, NEW e \in Entry, st[e] # "free"
  PROVE  key[e] \in Key /\ KindOf[key[e]] \in Kind
  BY LedgerAssumption DEF TypeOK

(* No step frees a row.                                                    *)
RowsStay == \A e \in Entry : st[e] # "free" => st'[e] # "free"

(* Beginning, continuing and ending a request keep its record typed.       *)
LEMMA BeginType ==
  ASSUME TypeOK, RowsStay, NEW c \in Client, NEW s \in Step, NEW j \in Job,
         JobOK(s, j), j.entry # None => st'[j.entry] # "free", Begin(c, s, j)
  PROVE  Requests'
  BY DEF TypeOK, Requests, Begin, Goto, RowsStay, Job

LEMMA BeginPosting ==
  ASSUME TypeOK, RowsStay, NEW c \in Client, NEW k \in Key, NEW e \in Entry \cup {None},
         NEW s \in {"lookup", "gate", "recheck", "insert", "override"},
         s = "override" => e \in Entry, e # None => st'[e] # "free",
         Begin(c, s, Posting(k, e))
  PROVE  Requests'
<1>1. /\ Posting(k, e) \in Job /\ s \in Step
      /\ Posting(k, e).entry = e /\ Posting(k, e).key = k /\ ~Posting(k, e).delete
  BY JobTypes DEF Posting, NoJob, Step
<1> QED
  BY <1>1, BeginType DEF JobOK

LEMMA BeginReversing ==
  ASSUME TypeOK, RowsStay, NEW c \in Client, NEW k \in Key \cup {None}, NEW e \in Entry,
         NEW b \in BOOLEAN, NEW T \in SUBSET Line,
         NEW s \in {"readFlag", "rewind", "clearFlag"},
         b => k \in Key, st'[e] # "free", Begin(c, s, Reversing(k, e, b, T))
  PROVE  Requests'
<1>1. /\ Reversing(k, e, b, T) \in Job /\ s \in Step
      /\ Reversing(k, e, b, T).entry = e /\ Reversing(k, e, b, T).key = k
      /\ Reversing(k, e, b, T).delete = b
  BY JobTypes DEF Reversing, NoJob, Step
<1> QED
  BY <1>1, BeginType DEF JobOK

LEMMA BeginDeciding ==
  ASSUME TypeOK, RowsStay, NEW c \in Client, NEW e \in Entry, NEW k \in Kind,
         NEW d \in Decisions[k], st'[e] # "free", Begin(c, "decided", Deciding(e, d))
  PROVE  Requests'
<1>1. /\ Deciding(e, d) \in Job /\ "decided" \in Step
      /\ Deciding(e, d).entry = e /\ ~Deciding(e, d).delete
  BY DecidingType DEF Deciding, NoJob, Step
<1> QED
  BY <1>1, BeginType DEF JobOK

LEMMA BeginRounding ==
  ASSUME TypeOK, RowsStay, NEW c \in Client, NEW e \in Entry, st'[e] # "free",
         Begin(c, "round", Rounding9999(e))
  PROVE  Requests'
<1>1. /\ Rounding9999(e) \in Job /\ "round" \in Step
      /\ Rounding9999(e).entry = e /\ ~Rounding9999(e).delete
  BY RoundingType DEF Rounding9999, NoJob, Step
<1> QED
  BY <1>1, BeginType DEF JobOK

LEMMA BeginClosing ==
  ASSUME TypeOK, RowsStay, NEW c \in Client, NEW p \in Period, Begin(c, "close", Closing(p))
  PROVE  Requests'
<1>1. /\ Closing(p) \in Job /\ "close" \in Step
      /\ Closing(p).entry = None /\ Closing(p).period = p /\ ~Closing(p).delete
  BY JobTypes DEF Closing, NoJob, Step
<1> QED
  BY <1>1, BeginType DEF JobOK

LEMMA FinishType ==
  ASSUME TypeOK, RowsStay, NEW c \in Client, Finish(c)
  PROVE  Requests'
<1>1. "idle" \in Step /\ NoJob \in Job /\ NoJob.entry = None
  BY JobTypes DEF Step, NoJob
<1>2. JobOK("idle", NoJob)
  BY DEF JobOK, NoJob
<1> QED
  BY <1>1, <1>2, BeginType DEF Finish

LEMMA GotoType ==
  ASSUME TypeOK, RowsStay, NEW c \in Client, NEW s \in Step, JobOK(s, job[c]),
         Goto(c, s), UNCHANGED job
  PROVE  Requests'
  BY DEF TypeOK, Requests, Goto, RowsStay, Job

(* Moving balances keeps them integers.                                    *)
LEMMA ShiftType ==
  ASSUME TypeOK, NEW e \in Entry, NEW A, NEW n \in Int
  PROVE  Shift(e, A, n) \in [Entry -> [Line -> Int]]
  BY DEF TypeOK, Shift

-----------------------------------------------------------------------------
(* Type correctness: the variables of the ledger keep their types.         *)
USE LedgerAssumption DEF Kind

LEMMA TypeInit == Init => TypeOK
  BY JobTypes DEF Init, TypeOK, Requests, JobOK, NoJob, Step, Status, Line

LEMMA TypeNext == TypeOK /\ [Next]_vars => TypeOK'
<1> SUFFICES ASSUME TypeOK, [Next]_vars PROVE TypeOK'
  OBVIOUS
<1>1. ASSUME NEW c \in Client, NEW k \in Key, PostLookup(c, k) PROVE TypeOK'
  <2>1. RowsStay
    BY <1>1 DEF PostLookup, RowsStay, rowVars
  <2>2. Requests'
    BY <1>1, <2>1, JobFields, BeginPosting, FinishType DEF PostLookup,
       JobOK, Step, TypeOK, rowVars
  <2> QED
    BY <1>1, <2>2 DEF PostLookup, TypeOK, rowVars
<1>2. ASSUME NEW c \in Client, PostGate(c) PROVE TypeOK'
  <2>1. RowsStay
    BY <1>2 DEF PostGate, RowsStay, rowVars
  <2>2. Requests'
    BY <1>2, <2>1, JobFields, GotoType, FinishType DEF PostGate, JobOK,
       Step, TypeOK, rowVars
  <2> QED
    BY <1>2, <2>2 DEF PostGate, TypeOK, rowVars
<1>3. ASSUME NEW c \in Client, PostRecheck(c) PROVE TypeOK'
  <2>1. RowsStay
    BY <1>3 DEF PostRecheck, RowsStay, rowVars
  <2>2. Requests'
    BY <1>3, <2>1, JobFields, GotoType, BeginPosting, FinishType DEF
       PostRecheck, LiveWith, JobOK, Step, TypeOK, rowVars
  <2> QED
    BY <1>3, <2>2 DEF PostRecheck, TypeOK, rowVars
<1>4. ASSUME NEW c \in Client, NEW e \in Entry, PostInsert(c, e) PROVE TypeOK'
  <2>1. RowsStay
    BY <1>4 DEF PostInsert, RowsStay, TypeOK
  <2>2. Requests'
    BY <1>4, <2>1, JobFields, BeginPosting, FinishType DEF PostInsert,
       JobOK, Step, TypeOK
  <2> QED
    BY <1>4, <2>2, JobFields, ShiftType DEF PostInsert, StampKey, JobOK,
       TypeOK
<1>5. ASSUME NEW c \in Client, PostRejected(c) PROVE TypeOK'
  <2>1. RowsStay
    BY <1>5 DEF PostRejected, RowsStay, rowVars
  <2>2. Requests'
    BY <1>5, <2>1, FinishType DEF PostRejected
  <2> QED
    BY <1>5, <2>2, JobFields DEF PostRejected, JobOK, TypeOK, rowVars
<1>6. ASSUME NEW c \in Client, PostOverride(c) PROVE TypeOK'
  <2>1. RowsStay
    BY <1>6 DEF PostOverride, RowsStay
  <2>2. Requests'
    BY <1>6, <2>1, FinishType DEF PostOverride
  <2> QED
    BY <1>6, <2>2, JobFields DEF PostOverride, JobOK, TypeOK
<1>7. ASSUME NEW c \in Client, NEW e \in Entry, NEW d, DecideLock(c, e, d) PROVE TypeOK'
  <2>1. RowsStay
    BY <1>7 DEF DecideLock, RowsStay, rowVars
  <2>2. Requests'
    <3>1. KindOf[key[e]] \in Kind /\ d \in Decisions[KindOf[key[e]]]
      BY <1>7, KeyType DEF DecideLock
    <3>2. st'[e] # "free" /\ Begin(c, "decided", Deciding(e, d))
      BY <1>7 DEF DecideLock, rowVars
    <3> QED
      BY <2>1, <3>1, <3>2, BeginDeciding
  <2> QED
    BY <1>7, <2>2 DEF DecideLock, TypeOK, rowVars
<1>8. ASSUME NEW c \in Client, DecideCommit(c) PROVE TypeOK'
  <2>1. RowsStay
    BY <1>8 DEF DecideCommit, RowsStay, TypeOK
  <2>2. Requests'
    BY <1>8, <2>1, FinishType DEF DecideCommit
  <2>3. job[c].entry \in Entry /\ key[job[c].entry] \in Key
    BY <1>8, JobFields, KeyType DEF DecideCommit, JobOK, TypeOK
  <2>4. moved' \in [Entry -> [Line -> Int]] /\ applied' \in [Entry -> BOOLEAN]
    <3>1. CASE FlipBalances(job[c].entry)
      <4>1. (IF applied[job[c].entry] THEN -1 ELSE 1) \in Int
        OBVIOUS
      <4>2. Shift(job[c].entry, Lines(job[c].entry), IF applied[job[c].entry] THEN -1 ELSE 1)
               \in [Entry -> [Line -> Int]]
        BY <2>3, <4>1, ShiftType
      <4>3. applied' \in [Entry -> BOOLEAN]
        BY <3>1, <2>3 DEF FlipBalances, TypeOK
      <4> QED
        BY <3>1, <4>2, <4>3 DEF FlipBalances
    <3>2. CASE UNCHANGED <<moved, applied>>
      BY <3>2 DEF TypeOK
    <3> QED
      BY <1>8, <3>1, <3>2 DEF DecideCommit
  <2>5. status' \in [Entry -> Status]
    BY <1>8, <2>3, JobFields DEF DecideCommit, TypeOK
  <2>6. /\ st' \in [Entry -> {"free", "live", "deleted"}]
        /\ \A e \in Entry : st'[e] # "free" => key'[e] \in Key
    BY <1>8, <2>3 DEF DecideCommit, TypeOK
  <2> QED
    BY <1>8, <2>2, <2>4, <2>5, <2>6 DEF DecideCommit, Release, TypeOK
<1>9. ASSUME NEW c \in Client, NEW e \in Entry, DeleteVoucher(c, e) PROVE TypeOK'
  <2>1. RowsStay
    BY <1>9 DEF DeleteVoucher, RowsStay, TypeOK
  <2>2. Requests'
    <3>1. st'[e] # "free" /\ Begin(c, "readFlag", Reversing(None, e, FALSE, {}))
      BY <1>9 DEF DeleteVoucher, TypeOK
    <3> QED
      BY <2>1, <3>1, BeginReversing
  <2> QED
    BY <1>9, <2>2, KeyType DEF DeleteVoucher, TypeOK
<1>10. ASSUME NEW c \in Client, NEW k \in Key, Reassess(c, k) PROVE TypeOK'
  <2>1. RowsStay
    BY <1>10 DEF Reassess, RowsStay, rowVars
  <2>2. Requests'
    BY <1>10, <2>1, JobFields, BeginPosting, BeginReversing DEF Reassess,
       LiveWith, JobOK, Step, TypeOK, rowVars
  <2> QED
    BY <1>10, <2>2 DEF Reassess, TypeOK, rowVars
<1>11. ASSUME NEW c \in Client, ReadFlag(c) PROVE TypeOK'
  <2>1. RowsStay
    BY <1>11 DEF ReadFlag, RowsStay, rowVars
  <2>2. Requests'
    BY <1>11, <2>1, JobFields, GotoType, FinishType DEF ReadFlag, Reversed,
       JobOK, Step, TypeOK, rowVars
  <2> QED
    BY <1>11, <2>2 DEF ReadFlag, TypeOK, rowVars
<1>12. ASSUME NEW c \in Client, RevGate(c) PROVE TypeOK'
  <2>1. RowsStay
    BY <1>12 DEF RevGate, RowsStay, rowVars
  <2>2. Requests'
    <3>1. CASE Finish(c)
      BY <2>1, <3>1, FinishType
    <3>2. CASE Begin(c, "rewind", Reversing(job[c].key, job[c].entry, job[c].delete,
                                            Lines(job[c].entry)))
      <4>1. /\ job[c].entry \in Entry /\ st'[job[c].entry] # "free"
            /\ job[c].delete => job[c].key \in Key
        BY <1>12, <2>1, JobFields, LedgerAssumption DEF RevGate, JobOK, RowsStay
      <4>2. Lines(job[c].entry) \in SUBSET Line
        BY DEF Lines, Line
      <4> QED
        BY <2>1, <3>2, <4>1, <4>2, JobFields, BeginReversing
    <3> QED
      BY <1>12, <3>1, <3>2 DEF RevGate, Refused
  <2> QED
    BY <1>12, <2>2 DEF RevGate, TypeOK, rowVars
<1>13. ASSUME NEW c \in Client, NEW a \in Line, Rewind(c, a) PROVE TypeOK'
  <2>1. RowsStay
    BY <1>13 DEF Rewind, RowsStay, rowVars
  <2>2. Requests'
    <3>1. /\ job[c].entry \in Entry /\ st'[job[c].entry] # "free"
          /\ job[c].delete => job[c].key \in Key
      BY <1>13, <2>1, JobFields, LedgerAssumption DEF Rewind, JobOK, RowsStay
    <3>2. job[c].todo \ {a} \in SUBSET Line
      BY JobFields
    <3>3. PICK s \in {"clearFlag", "rewind"} :
             Begin(c, s, Reversing(job[c].key, job[c].entry, job[c].delete, job[c].todo \ {a}))
      BY <1>13 DEF Rewind
    <3> QED
      BY <2>1, <3>1, <3>2, <3>3, JobFields, BeginReversing
  <2> QED
    BY <1>13, <2>2, JobFields, ShiftType DEF Rewind, JobOK, TypeOK, rowVars
<1>14. ASSUME NEW c \in Client, ClearFlag(c) PROVE TypeOK'
  <2>1. RowsStay
    BY <1>14 DEF ClearFlag, RowsStay
  <2>2. Requests'
    BY <1>14, <2>1, JobFields, GotoType, FinishType DEF ClearFlag, Reversed,
       JobOK, Step, TypeOK
  <2> QED
    BY <1>14, <2>2 DEF ClearFlag, ResetFlag, TypeOK
<1>15. ASSUME NEW c \in Client, SoftDelete(c) PROVE TypeOK'
  <2>1. RowsStay
    BY <1>15 DEF SoftDelete, RowsStay, TypeOK
  <2>2. Requests'
    BY <1>15, <2>1, JobFields, BeginPosting, FinishType DEF SoftDelete,
       JobOK, Step, TypeOK
  <2> QED
    BY <1>15, <2>2, JobFields, KeyType DEF SoftDelete, JobOK, TypeOK
<1>16. ASSUME NEW c \in Client, NEW e \in Entry, RoundRead(c, e) PROVE TypeOK'
  <2>1. RowsStay
    BY <1>16 DEF RoundRead, RowsStay, rowVars
  <2>2. Requests'
    BY <1>16, <2>1, JobFields, BeginRounding DEF RoundRead, JobOK, Step,
       TypeOK, rowVars
  <2> QED
    BY <1>16, <2>2 DEF RoundRead, TypeOK, rowVars
<1>17. ASSUME NEW c \in Client, RoundInsert(c) PROVE TypeOK'
  <2>1. RowsStay
    BY <1>17 DEF RoundInsert, RowsStay
  <2>2. Requests'
    BY <1>17, <2>1, JobFields, GotoType DEF RoundInsert, JobOK, Step, TypeOK
  <2> QED
    BY <1>17, <2>2, JobFields, ShiftType DEF RoundInsert, JobOK, TypeOK
<1>18. ASSUME NEW c \in Client, RoundRoute(c) PROVE TypeOK'
  <2>1. RowsStay
    BY <1>18 DEF RoundRoute, RowsStay, rowVars
  <2>2. Requests'
    BY <1>18, <2>1, FinishType DEF RoundRoute
  <2> QED
    BY <1>18, <2>2, JobFields, ShiftType DEF RoundRoute, JobOK, TypeOK,
       rowVars
<1>19. ASSUME NEW c \in Client, NEW p \in Period, CloseCheck(c, p) PROVE TypeOK'
  <2>1. RowsStay
    BY <1>19 DEF CloseCheck, RowsStay, rowVars
  <2>2. Requests'
    BY <1>19, <2>1, JobFields, BeginClosing DEF CloseCheck, JobOK, Step,
       TypeOK, rowVars
  <2> QED
    BY <1>19, <2>2 DEF CloseCheck, TypeOK, rowVars
<1>20. ASSUME NEW c \in Client, CloseCommit(c) PROVE TypeOK'
  <2>1. RowsStay
    BY <1>20 DEF CloseCommit, RowsStay, rowVars
  <2>2. Requests'
    BY <1>20, <2>1, FinishType DEF CloseCommit
  <2> QED
    BY <1>20, <2>2 DEF CloseCommit, TypeOK, rowVars
<1>21. ASSUME NEW p \in Period, ReopenPeriod(p) \/ LockPeriod(p) PROVE TypeOK'
  BY <1>21 DEF ReopenPeriod, LockPeriod, TypeOK, Requests, rowVars
<1>22. ASSUME NEW k \in Key, ResolveFailure(k) PROVE TypeOK'
  BY <1>22 DEF ResolveFailure, TypeOK, Requests, rowVars
<1>23. ASSUME NEW c \in Client, Crash(c) PROVE TypeOK'
  BY <1>23, FinishType DEF Crash, RowsStay, TypeOK, rowVars
<1>24. CASE UNCHANGED vars
  BY <1>24 DEF vars, rowVars, TypeOK, Requests
<1> QED
  BY <1>1, <1>2, <1>3, <1>4, <1>5, <1>6, <1>7, <1>8, <1>9, <1>10, <1>11, <1>12,
     <1>13, <1>14, <1>15, <1>16, <1>17, <1>18, <1>19, <1>20, <1>21, <1>22, <1>23, <1>24
     DEF Next, Start, Continue

(* Every reachable state of the ledger is well typed.                      *)
THEOREM TypeCorrect == Spec => []TypeOK
  BY TypeInit, TypeNext, PTL DEF Spec

-----------------------------------------------------------------------------
(* The rows: what holds however requests overlap and drop.                 *)

(* The steps whose meaning the invariants follow.                          *)
Tracked == {"decided", "readFlag", "revGate", "rewind", "clearFlag", "softDelete"}

(* Only the request of c moves.                                            *)
Only(c) == \A d \in Client \ {c} : pc'[d] = pc[d] /\ job'[d] = job[d]

(* The step leaves row e as it is.                                         *)
RowSame(e) == /\ st'[e] = st[e] /\ key'[e] = key[e] /\ status'[e] = status[e]
              /\ applied'[e] = applied[e] /\ lock'[e] = lock[e]
Rows == UNCHANGED <<st, key, status, applied, lock>>

LEMMA BeginEffect ==
  ASSUME TypeOK, NEW c \in Client, NEW s, NEW j, Begin(c, s, j)
  PROVE  pc'[c] = s /\ job'[c] = j /\ Only(c)
  BY DEF TypeOK, Requests, Begin, Goto, Only

LEMMA FinishEffect ==
  ASSUME TypeOK, NEW c \in Client, Finish(c)
  PROVE  pc'[c] = "idle" /\ Only(c)
  BY BeginEffect DEF Finish

LEMMA GotoEffect ==
  ASSUME TypeOK, NEW c \in Client, NEW s, Goto(c, s), UNCHANGED job
  PROVE  pc'[c] = s /\ job'[c] = job[c] /\ Only(c)
  BY DEF TypeOK, Requests, Goto, Only

(* What Shift does to the balances of the entry's accounts.                *)
LEMMA ShiftEffect ==
  ASSUME TypeOK, NEW e \in Entry, NEW A, NEW n \in Int, NEW f \in Entry, NEW a \in Account
  PROVE  /\ Shift(e, A, n)[f][a] = moved[f][a] + (IF f = e /\ a \in A THEN n ELSE 0)
         /\ moved[f][a] \in Int
  BY DEF TypeOK, Shift, Line

(* The rows of the decisions and reversals under way were inserted.        *)
LEMMA TrackedRow ==
  ASSUME TypeOK, NEW c \in Client, pc[c] \in Tracked
  PROVE  job[c].entry \in Entry /\ st[job[c].entry] # "free"
  BY JobFields, LedgerAssumption DEF Tracked, JobOK

(* What the decisions on each kind of document do.                         *)
LEMMA DecisionEffects ==
  /\ \A k \in Kind : \A d \in Decisions[k] :
        /\ d.to = "deleted" => d.effect = "reverse"
        /\ d.to = "rejected" => d.effect # "apply"
        /\ d.effect = "apply" => k \in {"voucher", "manual"}
        /\ k = "accident" => d.effect = "reverse"
  /\ \A d \in Decisions["voucher"] :
        /\ d.to = "deleted" => d.from = {"draft"}
        /\ d.to # "deleted" => /\ "approved" \notin d.from
                              /\ d.effect = IF d.to = "approved" THEN "apply" ELSE "none"
  /\ \A d \in Decisions["manual"] :
        /\ d.to = "deleted" => d.from = {"draft"}
        /\ d.to # "deleted" => /\ "posted" \notin d.from
                              /\ d.effect = IF d.to = "posted" THEN "apply" ELSE "none"
  BY DEF Kind, Decisions, ExpenseDecisions, InboxDecisions, VoucherDecisions, ManualDecisions,
         DraftDeletion, Decision

(* A reversal can live with a step that at most takes its row out of the   *)
(* books and deletes it.                                                   *)
Fades(e) == /\ key'[e] = key[e]
            /\ applied'[e] => applied[e]
            /\ st[e] = "deleted" => st'[e] = "deleted" /\ status'[e] = status[e]

(* What the invariant says of a request stands while its row does, and of  *)
(* a reversal while its row fades.                                         *)
LEMMA Bystander ==
  ASSUME RowInv, NEW d \in Client, pc'[d] = pc[d], job'[d] = job[d],
         pc[d] \in Tracked => RowSame(job[d].entry) \/ (pc[d] # "decided" /\ Fades(job[d].entry))
  PROVE  HeldRow(d)' /\ Reversal(d)'
<1>1. HeldRow(d) /\ Reversal(d)
  BY DEF RowInv
<1>2. HeldRow(d)'
  BY <1>1 DEF HeldRow, RowSame, Tracked
<1>3. Reversal(d)'
  BY <1>1 DEF Reversal, RowSame, Fades, Tracked, Deferred
<1> QED
  BY <1>2, <1>3

(* It says nothing of a request at an untracked step.                      *)
LEMMA Untracked ==
  ASSUME NEW d \in Client, pc'[d] \notin Tracked
  PROVE  HeldRow(d)' /\ Reversal(d)'
  BY DEF Tracked, HeldRow, Reversal

(* What is said of the rows stands when no row changes.                    *)
LEMMA RowsSame ==
  ASSUME RowInv, TypeOK', Rows, NEW c \in Client, Only(c), HeldRow(c)', Reversal(c)'
  PROVE  RowInv'
<1>1. FreeRows' /\ UniqueLive'
  BY DEF RowInv, FreeRows, UniqueLive, Rows
<1>2. DeferredUntilDecided'
  BY DEF RowInv, DeferredUntilDecided, Deferred, Rows
<1>3. \A d \in Client \ {c} : HeldRow(d)' /\ Reversal(d)'
  BY Bystander DEF Only, RowSame, Rows
<1> QED
  BY <1>1, <1>2, <1>3 DEF RowInv

LEMMA InitRows == Init => RowInv
<1> SUFFICES ASSUME Init PROVE RowInv
  OBVIOUS
<1>1. TypeOK
  BY TypeInit
<1>2. \A c \in Client : HeldRow(c) /\ Reversal(c)
  BY DEF Init, HeldRow, Reversal
<1>3. FreeRows /\ UniqueLive /\ DeferredUntilDecided
  BY DEF Init, FreeRows, UniqueLive, DeferredUntilDecided
<1> QED
  BY <1>1, <1>2, <1>3 DEF RowInv

(* Most steps of a posting, of a rounding and of a closing are quiet: the  *)
(* request is at an untracked step before it and after it, and no row and  *)
(* no balance of the accounts entries post to changes.                     *)
Quiet(c) == /\ Only(c) /\ pc[c] \notin Tracked /\ pc'[c] \notin Tracked
            /\ Rows
            /\ \A e \in Entry, a \in Account : moved'[e][a] = moved[e][a]

LEMMA QuietSteps ==
  ASSUME TypeOK, NEW c \in Client,
         \/ \E k \in Key : PostLookup(c, k)
         \/ PostGate(c) \/ PostRecheck(c) \/ PostRejected(c) \/ PostOverride(c)
         \/ \E e \in Entry : RoundRead(c, e)
         \/ RoundInsert(c) \/ RoundRoute(c)
         \/ \E p \in Period : CloseCheck(c, p)
         \/ CloseCommit(c)
  PROVE  Quiet(c)
<1> USE DEF rowVars, Rows, Tracked, Quiet
<1>1. CASE \E k \in Key : PostLookup(c, k)
  BY <1>1, BeginEffect, FinishEffect DEF PostLookup
<1>2. CASE PostGate(c)
  BY <1>2, GotoEffect, FinishEffect DEF PostGate
<1>3. CASE PostRecheck(c)
  BY <1>3, GotoEffect, BeginEffect, FinishEffect DEF PostRecheck
<1>4. CASE PostRejected(c) \/ PostOverride(c) \/ CloseCommit(c)
  BY <1>4, FinishEffect DEF PostRejected, PostOverride, CloseCommit
<1>5. CASE \E e \in Entry : RoundRead(c, e)
  BY <1>5, BeginEffect DEF RoundRead
<1>6. CASE \E p \in Period : CloseCheck(c, p)
  BY <1>6, BeginEffect DEF CloseCheck
<1>7. CASE RoundInsert(c) \/ RoundRoute(c)
  <2>1. job[c].entry \in Entry
    BY <1>7, JobFields DEF RoundInsert, RoundRoute, JobOK
  <2>2. \A e \in Entry, a \in Account : moved'[e][a] = moved[e][a]
    <3> SUFFICES ASSUME NEW e \in Entry, NEW a \in Account PROVE moved'[e][a] = moved[e][a]
      OBVIOUS
    <3>1. Shift(job[c].entry, {Rounding}, 1)[e][a] = moved[e][a]
      BY <2>1, ShiftEffect, LedgerAssumption
    <3> QED
      BY <1>7, <3>1 DEF RoundInsert, RoundRoute
  <2> QED
    BY <1>7, <2>2, GotoEffect, FinishEffect DEF RoundInsert, RoundRoute
<1> QED
  BY <1>1, <1>2, <1>3, <1>4, <1>5, <1>6, <1>7

LEMMA QuietRows ==
  ASSUME RowInv, TypeOK', NEW c \in Client, Quiet(c)
  PROVE  RowInv'
  BY RowsSame, Untracked DEF Quiet

(* The insert fills a free row, whose lines are in no balance.             *)
LEMMA InsertRows ==
  ASSUME RowInv, TypeOK', NEW c \in Client, NEW e \in Entry, PostInsert(c, e)
  PROVE  RowInv'
<1>1. TypeOK /\ job[c].key \in Key /\ st[e] = "free" /\ ~applied[e] /\ status[e] = "draft"
  BY JobFields DEF RowInv, FreeRows, PostInsert, JobOK
<1>2. /\ st' = [st EXCEPT ![e] = "live"] /\ key' = [key EXCEPT ![e] = job[c].key]
      /\ applied' = [applied EXCEPT ![e] = ~Deferred(job[c].key)]
      /\ UNCHANGED <<status, lock>> /\ UniqueKey(job[c].key)
  BY DEF PostInsert, StampKey
<1>3. pc[c] \notin Tracked /\ pc'[c] \notin Tracked /\ Only(c)
  BY <1>1, BeginEffect, FinishEffect DEF PostInsert, Tracked
<1>4. \A d \in Client : pc[d] \in Tracked => job[d].entry \in Entry \ {e}
  BY <1>1, TrackedRow
<1>5. \A d \in Client : HeldRow(d)' /\ Reversal(d)'
  <2> SUFFICES ASSUME NEW d \in Client PROVE HeldRow(d)' /\ Reversal(d)'
    OBVIOUS
  <2>1. pc[d] \in Tracked => RowSame(job[d].entry)
    BY <1>1, <1>2, <1>4 DEF RowSame, TypeOK
  <2> QED
    BY <1>3, <2>1, Bystander, Untracked DEF Only
<1>6. FreeRows'
  BY <1>1, <1>2 DEF RowInv, FreeRows, TypeOK
<1>7. UniqueLive'
  BY <1>1, <1>2 DEF RowInv, UniqueLive, UniqueKey, LiveWith, TypeOK
<1>8. DeferredUntilDecided'
  BY <1>1, <1>2 DEF RowInv, DeferredUntilDecided, Deferred, TypeOK
<1> QED
  BY <1>5, <1>6, <1>7, <1>8 DEF RowInv

(* A decision locks a row that no other decision holds.                    *)
LEMMA LockRows ==
  ASSUME RowInv, TypeOK', NEW c \in Client, NEW e \in Entry, NEW d, DecideLock(c, e, d)
  PROVE  RowInv'
<1>1. /\ TypeOK /\ pc[c] = "idle" /\ pc'[c] = "decided" /\ job'[c] = Deciding(e, d) /\ Only(c)
  BY BeginEffect DEF RowInv, DecideLock
<1>2. job'[c].entry = e /\ job'[c].to = d.to /\ job'[c].effect = d.effect
  BY <1>1 DEF Deciding, NoJob
<1>3. /\ lock[e] = None /\ lock' = [lock EXCEPT ![e] = c] /\ st[e] = "live"
      /\ d \in Decisions[KindOf[key[e]]] /\ status[e] \in d.from
      /\ UNCHANGED <<st, key, status, applied, moved>>
  BY DEF DecideLock, MayLock, rowVars
<1>4. HeldRow(c)' /\ Reversal(c)'
  BY <1>1, <1>2, <1>3 DEF HeldRow, Reversal, TypeOK
<1>5. ASSUME NEW b \in Client \ {c} PROVE HeldRow(b)' /\ Reversal(b)'
  <2>1. HeldRow(b) /\ Reversal(b) /\ pc'[b] = pc[b] /\ job'[b] = job[b]
    BY <1>1 DEF RowInv, Only
  <2>2. pc[b] = "decided" => job[b].entry \in Entry \ {e}
    BY <1>1, <1>3, <2>1, TrackedRow, LedgerAssumption DEF HeldRow, Tracked
  <2>3. HeldRow(b)'
    BY <1>1, <1>3, <2>1, <2>2 DEF HeldRow, TypeOK
  <2>4. Reversal(b)'
    BY <1>3, <2>1 DEF Reversal
  <2> QED
    BY <2>3, <2>4
<1>6. FreeRows' /\ UniqueLive'
  BY <1>3 DEF RowInv, FreeRows, UniqueLive
<1>7. DeferredUntilDecided'
  BY <1>3 DEF RowInv, DeferredUntilDecided, Deferred
<1> QED
  BY <1>4, <1>5, <1>6, <1>7 DEF RowInv

(* A decision commits: the row changes state, and leaves or enters the     *)
(* books as its kind of document wants it.                                 *)
LEMMA CommitRows ==
  ASSUME RowInv, TypeOK', NEW c \in Client, DecideCommit(c)
  PROVE  RowInv'
<1> DEFINE e == job[c].entry
           to == job[c].to
<1>1. /\ TypeOK /\ pc[c] = "decided" /\ HeldRow(c) /\ e \in Entry
      /\ pc'[c] = "idle" /\ Only(c)
  BY FinishEffect, TrackedRow DEF RowInv, DecideCommit, Tracked
<1>2. PICK d \in Decisions[KindOf[key[e]]] : status[e] \in d.from /\ to = d.to /\ job[c].effect = d.effect
  BY <1>1 DEF HeldRow
<1>3. lock[e] = c /\ st[e] = "live" /\ key[e] \in Key /\ KindOf[key[e]] \in Kind
  BY <1>1, KeyType DEF HeldRow
<1>4. /\ st' = IF to = "deleted" THEN [st EXCEPT ![e] = "deleted"] ELSE st
      /\ status' = IF to = "deleted" THEN status ELSE [status EXCEPT ![e] = to]
      /\ IF Moves(e, job[c].effect) THEN FlipBalances(e) ELSE UNCHANGED <<moved, applied>>
      /\ lock' = [lock EXCEPT ![e] = None] /\ UNCHANGED key
  BY DEF DecideCommit, Release
<1>5. /\ applied'[e] = IF Moves(e, job[c].effect) THEN ~applied[e] ELSE applied[e]
      /\ \A f \in Entry \ {e} : applied'[f] = applied[f]
  BY <1>1, <1>4 DEF FlipBalances, TypeOK
(* What the decision does to the books of its document.                    *)
<1>6. /\ KindOf[key[e]] = "accident" => (applied'[e] => applied[e])
      /\ Deferred(key[e]) => (applied'[e] <=> status'[e] = IF KindOf[key[e]] = "voucher"
                                                           THEN "approved" ELSE "posted")
  <2>1. Deferred(key[e]) => (applied[e] <=> status[e] = IF KindOf[key[e]] = "voucher"
                                                        THEN "approved" ELSE "posted")
    BY <1>1, <1>3 DEF RowInv, DeferredUntilDecided
  <2>2. KindOf[key[e]] = "accident" => (applied'[e] => applied[e])
    BY <1>2, <1>3, <1>5, DecisionEffects DEF Moves
  <2>3. status'[e] = IF to = "deleted" THEN status[e] ELSE to
    BY <1>1, <1>4 DEF TypeOK
  <2>4. CASE KindOf[key[e]] = "voucher"
    <3>1. d \in Decisions["voucher"]
      BY <1>2, <2>4
    <3>2. to = "deleted" => d.from = {"draft"} /\ d.effect = "reverse"
      BY <1>2, <3>1, DecisionEffects
    <3>3. to # "deleted" => job[c].effect = IF to = "approved" THEN "apply" ELSE "none"
      BY <1>2, <3>1, DecisionEffects
    <3>4. to # "deleted" => status[e] # "approved"
      BY <1>2, <3>1, DecisionEffects
    <3> QED
      BY <1>2, <1>5, <2>1, <2>3, <2>4, <3>2, <3>3, <3>4 DEF Moves, Deferred
  <2>5. CASE KindOf[key[e]] = "manual"
    <3>1. d \in Decisions["manual"]
      BY <1>2, <2>5
    <3>2. to = "deleted" => d.from = {"draft"} /\ d.effect = "reverse"
      BY <1>2, <3>1, DecisionEffects
    <3>3. to # "deleted" => job[c].effect = IF to = "posted" THEN "apply" ELSE "none"
      BY <1>2, <3>1, DecisionEffects
    <3>4. to # "deleted" => status[e] # "posted"
      BY <1>2, <3>1, DecisionEffects
    <3> QED
      BY <1>2, <1>5, <2>1, <2>3, <2>5, <3>2, <3>3, <3>4 DEF Moves, Deferred
  <2> QED
    BY <2>2, <2>4, <2>5 DEF Deferred
<1>7. \A b \in Client : HeldRow(b)' /\ Reversal(b)'
  <2> SUFFICES ASSUME NEW b \in Client PROVE HeldRow(b)' /\ Reversal(b)'
    OBVIOUS
  <2>1. CASE b = c
    BY <1>1, <2>1, Untracked DEF Tracked
  <2>2. CASE b # c /\ pc[b] \in Tracked /\ job[b].entry # e
    <3>1. job[b].entry \in Entry
      BY <1>1, <2>2, TrackedRow
    <3> QED
      BY <1>1, <1>4, <1>5, <2>2, <3>1, Bystander DEF RowSame, Only, TypeOK
  <2>3. CASE b # c /\ pc[b] \in Tracked /\ job[b].entry = e
    <3>1. pc[b] # "decided"
      BY <1>3, <2>3 DEF RowInv, HeldRow
    <3>2. KindOf[key[e]] = "accident"
      BY <1>3, <2>3, <3>1 DEF RowInv, Reversal, Tracked
    <3> QED
      BY <1>1, <1>3, <1>4, <1>6, <2>3, <3>1, <3>2, Bystander DEF Fades, Only
  <2> QED
    BY <1>1, <2>1, <2>2, <2>3, Untracked DEF Only
<1>8. FreeRows' /\ UniqueLive'
  BY <1>1, <1>3, <1>4, <1>5 DEF RowInv, FreeRows, UniqueLive, TypeOK
<1>9. DeferredUntilDecided'
  BY <1>1, <1>3, <1>4, <1>5, <1>6 DEF RowInv, DeferredUntilDecided, Deferred, TypeOK
<1> QED
  BY <1>7, <1>8, <1>9 DEF RowInv

(* A draft that is deleted may be in the books still, if it is not         *)
(* deferred; nobody decides it and no bare deletion is under way on it.    *)
LEMMA DeleteVoucherRows ==
  ASSUME RowInv, TypeOK', NEW c \in Client, NEW e \in Entry, DeleteVoucher(c, e)
  PROVE  RowInv'
<1>0. TypeOK /\ pc[c] = "idle" /\ Begin(c, "readFlag", Reversing(None, e, FALSE, {}))
  BY DEF RowInv, DeleteVoucher
<1>1. /\ TypeOK /\ pc[c] = "idle" /\ pc'[c] = "readFlag"
      /\ job'[c] = Reversing(None, e, FALSE, {}) /\ Only(c)
  BY <1>0, BeginEffect
<1>2. job'[c].entry = e /\ ~job'[c].delete
  BY <1>1 DEF Reversing, NoJob
<1>3. /\ lock[e] = None /\ st[e] = "live" /\ st' = [st EXCEPT ![e] = "deleted"]
      /\ status[e] = "draft"
      /\ UNCHANGED <<key, status, applied, moved, lock>>
  BY DEF DeleteVoucher, MayLock
<1>4. HeldRow(c)' /\ Reversal(c)'
  BY <1>1, <1>2, <1>3 DEF HeldRow, Reversal, TypeOK
<1>5. ASSUME NEW b \in Client \ {c} PROVE HeldRow(b)' /\ Reversal(b)'
  <2>1. pc[b] \in Tracked => job[b].entry \in Entry
    BY <1>1, TrackedRow
  <2>2. pc[b] = "decided" => job[b].entry # e
    BY <1>3, LedgerAssumption DEF RowInv, HeldRow
  <2>3. pc[b] \in Tracked => RowSame(job[b].entry) \/ (pc[b] # "decided" /\ Fades(job[b].entry))
    BY <1>1, <1>3, <2>1, <2>2 DEF RowSame, Fades, TypeOK
  <2> QED
    BY <1>1, <2>3, Bystander DEF Only
<1>6. FreeRows' /\ UniqueLive'
  BY <1>1, <1>3 DEF RowInv, FreeRows, UniqueLive, TypeOK
<1>7. DeferredUntilDecided'
  BY <1>1, <1>3 DEF RowInv, DeferredUntilDecided, Deferred, TypeOK
<1> QED
  BY <1>4, <1>5, <1>6, <1>7 DEF RowInv

LEMMA ReassessRows ==
  ASSUME RowInv, TypeOK', NEW c \in Client, NEW k \in Key, Reassess(c, k)
  PROVE  RowInv'
<1>1. TypeOK /\ pc[c] = "idle" /\ Rows
  BY DEF RowInv, Reassess, rowVars, Rows
<1>2. CASE Begin(c, "lookup", Posting(k, None))
  BY <1>1, <1>2, BeginEffect, RowsSame, Untracked DEF Tracked
<1>3. ASSUME NEW e \in LiveWith(k), Begin(c, "readFlag", Reversing(k, e, TRUE, {}))
      PROVE  RowInv'
  <2>1. pc'[c] = "readFlag" /\ job'[c] = Reversing(k, e, TRUE, {}) /\ Only(c)
    BY <1>1, <1>3, BeginEffect
  <2>2. job'[c].entry = e /\ job'[c].delete /\ KindOf[key[e]] = "accident"
    BY <2>1 DEF Reversing, NoJob, LiveWith, Reassess
  <2>3. HeldRow(c)' /\ Reversal(c)'
    BY <1>1, <2>1, <2>2 DEF HeldRow, Reversal, Rows
  <2> QED
    BY <1>1, <2>1, <2>3, RowsSame
<1> QED
  BY <1>2, <1>3 DEF Reassess

(* A reversal looks at the flag and at the period, and takes lines out.    *)
LEMMA ReadFlagRows ==
  ASSUME RowInv, TypeOK', NEW c \in Client, ReadFlag(c)
  PROVE  RowInv'
<1> DEFINE e == job[c].entry
<1>1. /\ TypeOK /\ pc[c] = "readFlag" /\ Rows
      /\ e \in Entry /\ st[e] # "free" /\ Reversal(c)
  BY TrackedRow DEF RowInv, ReadFlag, rowVars, Rows, Tracked
<1>2. applied[e] => ~Deferred(key[e])
  <2>1. job[c].delete => KindOf[key[e]] = "accident"
    BY <1>1 DEF Reversal
  <2>2. ~job[c].delete => status[e] = "draft"
    BY <1>1 DEF Reversal
  <2> QED
    BY <1>1, <2>1, <2>2 DEF RowInv, DeferredUntilDecided, Deferred
<1>3. /\ Only(c) /\ \/ pc'[c] = "idle"
                    \/ /\ job'[c] = job[c]
                       /\ \/ pc'[c] = "revGate" /\ applied[e]
                          \/ pc'[c] = "softDelete" /\ ~applied[e] /\ job[c].delete
  BY <1>1, GotoEffect, FinishEffect DEF ReadFlag, Reversed
<1>4. HeldRow(c)' /\ Reversal(c)'
  BY <1>1, <1>2, <1>3 DEF HeldRow, Reversal, Rows, Deferred
<1> QED
  BY <1>1, <1>3, <1>4, RowsSame

LEMMA RevGateRows ==
  ASSUME RowInv, TypeOK', NEW c \in Client, RevGate(c)
  PROVE  RowInv'
<1> DEFINE e == job[c].entry
           j == Reversing(job[c].key, e, job[c].delete, Lines(e))
<1>1. TypeOK /\ pc[c] = "revGate" /\ Rows /\ Reversal(c)
  BY DEF RowInv, RevGate, rowVars, Rows
<1>2. j.entry = e /\ j.delete = job[c].delete
  BY DEF Reversing, NoJob
<1>3. Only(c) /\ (pc'[c] = "idle" \/ (pc'[c] = "rewind" /\ job'[c] = j))
  BY <1>1, BeginEffect, FinishEffect DEF RevGate, Refused
<1>4. HeldRow(c)' /\ Reversal(c)'
  BY <1>1, <1>2, <1>3 DEF HeldRow, Reversal, Rows, Deferred
<1> QED
  BY <1>1, <1>3, <1>4, RowsSame

LEMMA RewindRows ==
  ASSUME RowInv, TypeOK', NEW c \in Client, NEW a \in Line, Rewind(c, a)
  PROVE  RowInv'
<1> DEFINE j == Reversing(job[c].key, job[c].entry, job[c].delete, job[c].todo \ {a})
<1>1. TypeOK /\ pc[c] = "rewind" /\ Rows /\ Reversal(c)
  BY DEF RowInv, Rewind, rowVars, Rows
<1>2. j.entry = job[c].entry /\ j.delete = job[c].delete
  BY DEF Reversing, NoJob
<1>3. Only(c) /\ pc'[c] \in {"rewind", "clearFlag"} /\ job'[c] = j
  BY <1>1, BeginEffect DEF Rewind
<1>4. HeldRow(c)' /\ Reversal(c)'
  BY <1>1, <1>2, <1>3 DEF HeldRow, Reversal, Rows, Deferred
<1> QED
  BY <1>1, <1>3, <1>4, RowsSame

(* The entry fades: its flag is cleared, it is deleted.                    *)
LEMMA ClearFlagRows ==
  ASSUME RowInv, TypeOK', NEW c \in Client, ClearFlag(c)
  PROVE  RowInv'
<1> DEFINE e == job[c].entry
<1>1. /\ TypeOK /\ pc[c] = "clearFlag" /\ Reversal(c) /\ e \in Entry /\ st[e] # "free"
      /\ applied' = [applied EXCEPT ![e] = FALSE]
      /\ UNCHANGED <<st, key, status, lock>>
  BY TrackedRow DEF RowInv, ClearFlag, ResetFlag, Tracked
<1>2. lock[e] = None /\ ~Deferred(key[e])
  BY <1>1 DEF ClearFlag, MayLock, Reversal
<1>3. Only(c) /\ (pc'[c] = "idle" \/ (pc'[c] = "softDelete" /\ job[c].delete /\ job'[c] = job[c]))
  BY <1>1, GotoEffect, FinishEffect DEF ClearFlag, Reversed
<1>4. HeldRow(c)' /\ Reversal(c)'
  BY <1>1, <1>3 DEF HeldRow, Reversal, TypeOK
<1>5. ASSUME NEW b \in Client \ {c} PROVE HeldRow(b)' /\ Reversal(b)'
  <2>1. pc[b] = "decided" => job[b].entry # e
    BY <1>2, LedgerAssumption DEF RowInv, HeldRow
  <2>2. pc[b] \in Tracked => RowSame(job[b].entry) \/ (pc[b] # "decided" /\ Fades(job[b].entry))
    BY <1>1, <2>1, TrackedRow DEF RowSame, Fades, TypeOK
  <2> QED
    BY <1>3, <2>2, Bystander DEF Only
<1>6. FreeRows' /\ UniqueLive'
  BY <1>1 DEF RowInv, FreeRows, UniqueLive, TypeOK
<1>7. DeferredUntilDecided'
  BY <1>1, <1>2 DEF RowInv, DeferredUntilDecided, Deferred, TypeOK
<1> QED
  BY <1>4, <1>5, <1>6, <1>7 DEF RowInv

LEMMA SoftDeleteRows ==
  ASSUME RowInv, TypeOK', NEW c \in Client, SoftDelete(c)
  PROVE  RowInv'
<1> DEFINE e == job[c].entry
<1>1. /\ TypeOK /\ pc[c] = "softDelete" /\ Reversal(c) /\ e \in Entry /\ st[e] # "free"
      /\ st' = [st EXCEPT ![e] = "deleted"]
      /\ UNCHANGED <<key, status, applied, lock>>
  BY TrackedRow DEF RowInv, SoftDelete, Tracked
<1>2. /\ Only(c) /\ pc'[c] \in {"idle", "lookup"}
      /\ ~applied[e] /\ lock[e] = None
  BY <1>1, BeginEffect, FinishEffect DEF SoftDelete, Reversal, MayLock
<1>3. ASSUME NEW b \in Client PROVE HeldRow(b)' /\ Reversal(b)'
  <2>1. CASE b = c
    BY <1>2, <2>1, Untracked DEF Tracked
  <2>2. CASE b # c
    <3>1. pc[b] = "decided" => job[b].entry # e
      BY <1>2, LedgerAssumption DEF RowInv, HeldRow
    <3>2. pc[b] \in Tracked => RowSame(job[b].entry) \/ (pc[b] # "decided" /\ Fades(job[b].entry))
      BY <1>1, <3>1, TrackedRow DEF RowSame, Fades, TypeOK
    <3> QED
      BY <1>2, <2>2, <3>2, Bystander DEF Only
  <2> QED
    BY <2>1, <2>2
<1>4. FreeRows' /\ UniqueLive'
  BY <1>1, <1>2 DEF RowInv, FreeRows, UniqueLive, TypeOK
<1>5. DeferredUntilDecided'
  BY <1>1 DEF RowInv, DeferredUntilDecided, Deferred, TypeOK
<1> QED
  BY <1>3, <1>4, <1>5 DEF RowInv

(* A dropped connection gives back its own locks only.                     *)
LEMMA CrashRows ==
  ASSUME RowInv, TypeOK', NEW c \in Client, Crash(c)
  PROVE  RowInv'
<1>1. /\ TypeOK /\ UNCHANGED <<st, key, status, applied>>
      /\ lock' = [e \in Entry |-> IF lock[e] = c THEN None ELSE lock[e]]
      /\ Only(c) /\ pc'[c] = "idle"
  BY FinishEffect DEF RowInv, Crash, rowVars
<1>2. ASSUME NEW b \in Client PROVE HeldRow(b)' /\ Reversal(b)'
  <2>1. CASE b = c
    BY <1>1, <2>1, Untracked DEF Tracked
  <2>2. CASE b # c
    <3>1. HeldRow(b) /\ Reversal(b) /\ pc'[b] = pc[b] /\ job'[b] = job[b]
      BY <1>1, <2>2 DEF RowInv, Only
    <3>2. HeldRow(b)'
      BY <1>1, <2>2, <3>1, TrackedRow DEF HeldRow, Tracked
    <3>3. Reversal(b)'
      BY <1>1, <3>1 DEF Reversal
    <3> QED
      BY <3>2, <3>3
  <2> QED
    BY <2>1, <2>2
<1>3. FreeRows' /\ UniqueLive'
  BY <1>1 DEF RowInv, FreeRows, UniqueLive
<1>4. DeferredUntilDecided'
  BY <1>1 DEF RowInv, DeferredUntilDecided, Deferred
<1> QED
  BY <1>2, <1>3, <1>4 DEF RowInv

(* Periods, failures and stuttering leave the rows and requests alone.     *)
LEMMA StillRows ==
  ASSUME RowInv, TypeOK', Rows, UNCHANGED <<pc, job>>
  PROVE  RowInv'
<1>1. \A c \in Client : HeldRow(c)' /\ Reversal(c)'
  BY Bystander DEF RowSame, Rows
<1>2. FreeRows' /\ UniqueLive'
  BY DEF RowInv, FreeRows, UniqueLive, Rows
<1>3. DeferredUntilDecided'
  BY DEF RowInv, DeferredUntilDecided, Deferred, Rows
<1> QED
  BY <1>1, <1>2, <1>3 DEF RowInv

LEMMA NextRows == RowInv /\ [Next]_vars => RowInv'
<1> SUFFICES ASSUME RowInv, [Next]_vars PROVE RowInv'
  OBVIOUS
<1>t. TypeOK /\ TypeOK'
  BY TypeNext DEF RowInv
<1>1. ASSUME NEW c \in Client, Start(c) PROVE RowInv'
  BY <1>t, <1>1, QuietSteps, QuietRows, ReassessRows, DeleteVoucherRows, LockRows DEF Start
<1>2. ASSUME NEW c \in Client, Continue(c) PROVE RowInv'
  BY <1>t, <1>2, QuietSteps, QuietRows, InsertRows, CommitRows, ReadFlagRows, RevGateRows,
     RewindRows, ClearFlagRows, SoftDeleteRows DEF Continue
<1>3. ASSUME NEW c \in Client, Crash(c) PROVE RowInv'
  BY <1>t, <1>3, CrashRows
<1>4. ASSUME NEW p \in Period, ReopenPeriod(p) \/ LockPeriod(p) PROVE RowInv'
  BY <1>t, <1>4, StillRows DEF ReopenPeriod, LockPeriod, rowVars, Rows
<1>5. ASSUME NEW k \in Key, ResolveFailure(k) PROVE RowInv'
  BY <1>t, <1>5, StillRows DEF ResolveFailure, rowVars, Rows
<1>6. CASE UNCHANGED vars
  BY <1>t, <1>6, StillRows DEF vars, rowVars, Rows
<1> QED
  BY <1>1, <1>2, <1>3, <1>4, <1>5, <1>6 DEF Next

(* What is said of the rows holds throughout, however requests overlap and *)
(* drop.                                                                   *)
THEOREM RowInvariance == Spec => []RowInv
  BY InitRows, NextRows, PTL DEF Spec

(* Vouchers are in the books exactly from their approval on, and manual    *)
(* entries exactly from their posting on.                                  *)
THEOREM DeferredDocuments == Spec => []DeferredUntilDecided
<1>1. RowInv => DeferredUntilDecided
  BY DEF RowInv
<1> QED
  BY <1>1, RowInvariance, PTL

(* A step is one request's alone, and only two lead to an override.        *)
LEMMA StepOnly ==
  ASSUME TypeOK, NEW c \in Client, Start(c) \/ Continue(c) \/ Crash(c)
  PROVE  /\ Only(c)
         /\ \/ pc'[c] # "override" /\ key' = key
            \/ PostRecheck(c)
            \/ \E e \in Entry : PostInsert(c, e)
<1>1. CASE Start(c)
  <2>1. CASE \E k \in Key : PostLookup(c, k)
    BY <2>1, BeginEffect, FinishEffect DEF PostLookup, rowVars
  <2>2. CASE \E k \in Key : Reassess(c, k)
    <3>1. ASSUME NEW j, Begin(c, "lookup", j) \/ Begin(c, "readFlag", j)
          PROVE  pc'[c] # "override" /\ Only(c)
      BY <3>1, BeginEffect
    <3> QED
      BY <2>2, <3>1 DEF Reassess, rowVars
  <2>3. CASE \E e \in Entry : DeleteVoucher(c, e) \/ RoundRead(c, e)
    <3>1. ASSUME NEW j, Begin(c, "readFlag", j) \/ Begin(c, "round", j)
          PROVE  pc'[c] # "override" /\ Only(c)
      BY <3>1, BeginEffect
    <3> QED
      BY <2>3, <3>1 DEF DeleteVoucher, RoundRead, rowVars
  <2>4. CASE \E e \in Entry : \E d \in UNION {Decisions[k] : k \in Kind} : DecideLock(c, e, d)
    BY <2>4, BeginEffect DEF DecideLock, rowVars
  <2>5. CASE \E p \in Period : CloseCheck(c, p)
    BY <2>5, BeginEffect DEF CloseCheck, rowVars
  <2> QED
    BY <1>1, <2>1, <2>2, <2>3, <2>4, <2>5 DEF Start
<1>2. CASE Crash(c)
  BY <1>2, FinishEffect DEF Crash, rowVars
<1>3. CASE Continue(c)
  <2>1. CASE \/ \E k \in Key : PostLookup(c, k)
             \/ PostGate(c) \/ PostRejected(c) \/ PostOverride(c) \/ DecideCommit(c)
             \/ RoundInsert(c) \/ RoundRoute(c) \/ CloseCommit(c)
    BY <2>1, BeginEffect, FinishEffect, GotoEffect DEF PostLookup, PostGate, PostRejected,
       PostOverride, DecideCommit, RoundInsert, RoundRoute, CloseCommit, rowVars
  <2>2. CASE \/ ReadFlag(c) \/ RevGate(c) \/ ClearFlag(c) \/ SoftDelete(c)
             \/ \E a \in Line : Rewind(c, a)
    <3>1. CASE ReadFlag(c) \/ ClearFlag(c)
      BY <3>1, FinishEffect, GotoEffect DEF ReadFlag, ClearFlag, Reversed, rowVars
    <3>2. CASE RevGate(c) \/ SoftDelete(c)
      BY <3>2, BeginEffect, FinishEffect DEF RevGate, SoftDelete, Refused, rowVars
    <3>3. CASE \E a \in Line : Rewind(c, a)
      BY <3>3, BeginEffect DEF Rewind, rowVars
    <3> QED
      BY <2>2, <3>1, <3>2, <3>3
  <2>3. CASE PostRecheck(c)
    BY <2>3, BeginEffect, FinishEffect, GotoEffect DEF PostRecheck
  <2>4. CASE \E e \in Entry : PostInsert(c, e)
    BY <2>4, BeginEffect, FinishEffect DEF PostInsert
  <2> QED
    BY <1>3, <2>1, <2>2, <2>3, <2>4 DEF Continue
<1> QED
  BY <1>1, <1>2, <1>3

(* A request goes on with a reversal that it has begun, unless it stops    *)
(* before a closed period, drops, or has cleared the flag.                 *)
LEMMA ReversalGoesOn ==
  ASSUME RowInv, NEW e \in Entry, NEW c \in Reversers(e), Continue(c) \/ Crash(c),
         applied[e], applied'[e]
  PROVE  c \in Reversers(e)' \/ Crash(c) \/ (pc[c] = "revGate" /\ ~Open(date[e]))
<1>t. TypeOK /\ c \in Client /\ job[c].entry = e
      /\ pc[c] \in {"readFlag", "revGate", "rewind", "clearFlag"}
  BY DEF RowInv, Reversers
<1>1. CASE ReadFlag(c)
  <2>1. pc'[c] = "revGate" /\ job'[c] = job[c]
    BY <1>t, <1>1, GotoEffect DEF ReadFlag
  <2> QED
    BY <1>t, <2>1 DEF Reversers
<1>2. CASE RevGate(c) /\ Open(date[e])
  <2>1. /\ pc'[c] = "rewind"
        /\ job'[c] = Reversing(job[c].key, e, job[c].delete, Lines(e))
    BY <1>t, <1>2, BeginEffect DEF RevGate
  <2>2. job'[c].entry = e
    BY <2>1 DEF Reversing, NoJob
  <2> QED
    BY <1>t, <2>1, <2>2 DEF Reversers
<1>3. ASSUME NEW a \in Line, Rewind(c, a) PROVE c \in Reversers(e)'
  <2>1. /\ pc'[c] \in {"rewind", "clearFlag"}
        /\ job'[c] = Reversing(job[c].key, e, job[c].delete, job[c].todo \ {a})
    BY <1>t, <1>3, BeginEffect DEF Rewind
  <2>2. job'[c].entry = e
    BY <1>t, <2>1 DEF Reversing, NoJob
  <2> QED
    BY <1>t, <2>1, <2>2 DEF Reversers
<1>4. ~ClearFlag(c)
  BY <1>t DEF ClearFlag, ResetFlag, TypeOK
<1> QED
  BY <1>t, <1>1, <1>2, <1>3, <1>4 DEF Continue, PostLookup, PostGate, PostRecheck, PostInsert,
     PostRejected, PostOverride, DecideCommit, RevGate, SoftDelete, RoundInsert, RoundRoute,
     CloseCommit

(* The steps that discard an entry or set its flag.                        *)
LEMMA DiscardingSteps ==
  ASSUME TypeOK, NEW c \in Client, Start(c) \/ Continue(c) \/ Crash(c)
  PROVE  \/ UNCHANGED <<st, status>> /\ \A e \in Entry : applied'[e] => applied[e]
         \/ DecideCommit(c) \/ SoftDelete(c)
         \/ \E e \in Entry : PostInsert(c, e) \/ DeleteVoucher(c, e)
<1>1. CASE ClearFlag(c)
  BY <1>1 DEF ClearFlag, ResetFlag, TypeOK
<1>2. CASE Start(c)
  BY <1>2 DEF Start, PostLookup, Reassess, RoundRead, DecideLock, CloseCheck, rowVars
<1>3. CASE Continue(c)
  BY <1>1, <1>3 DEF Continue, PostLookup, PostGate, PostRecheck, PostRejected, PostOverride,
     ReadFlag, RevGate, Rewind, RoundInsert, RoundRoute, CloseCommit, rowVars
<1> QED
  BY <1>2, <1>3 DEF Crash, rowVars

(* What a decision discards it takes out of the books, or it is one of the *)
(* inbox.                                                                  *)
LEMMA DecisionsDiscard ==
  ASSUME RowInv, NEW c \in Client, DecideCommit(c), NEW e \in Entry, job[c].entry = e,
         Discarded(e)', applied'[e]
  PROVE  pc[c] = "decided" /\ job[c].to = "rejected" /\ job[c].effect = "none"
<1>1. TypeOK /\ pc[c] = "decided" /\ st[e] = "live" /\ KindOf[key[e]] \in Kind
  BY KeyType DEF RowInv, HeldRow, DecideCommit
<1>2. PICK d \in Decisions[KindOf[key[e]]] : job[c].to = d.to /\ job[c].effect = d.effect
  BY <1>1 DEF RowInv, HeldRow
<1>3. job[c].to \in {"deleted", "rejected"}
  BY <1>1 DEF Discarded, DecideCommit, TypeOK
<1>4. applied'[e] = IF Moves(e, job[c].effect) THEN ~applied[e] ELSE applied[e]
  BY <1>1 DEF DecideCommit, FlipBalances, TypeOK
<1>5. job[c].effect # "reverse"
  BY <1>4 DEF Moves
<1>6. job[c].effect \in {"none", "apply", "reverse"}
  BY <1>1, JobFields
<1>7. /\ d.to = "deleted" => d.effect = "reverse"
      /\ d.to = "rejected" => d.effect # "apply"
  BY <1>1, DecisionEffects
<1> QED
  BY <1>1, <1>2, <1>3, <1>5, <1>6, <1>7

(* What is deleted or rejected leaves the books, however requests overlap, *)
(* unless a bare reversal drops or comes to a closed period, or the inbox  *)
(* rejects it.                                                             *)
THEOREM DiscardedDocuments == Spec => DiscardedLeaveBooks
<1> DEFINE LetGo(e) ==
              \/ \E c \in Reversers(e) : Crash(c) \/ (pc[c] = "revGate" /\ ~Open(date[e]))
              \/ \E c \in Client : /\ pc[c] = "decided" /\ job[c].entry = e
                                   /\ job[c].to = "rejected" /\ job[c].effect = "none"
           Leaving == \A e \in Entry : ~Stranded(e) /\ Stranded(e)' => LetGo(e)
<1>1. RowInv /\ [Next]_vars => Leaving
  <2> SUFFICES ASSUME RowInv, [Next]_vars, NEW e \in Entry, ~Stranded(e), Stranded(e)'
               PROVE  LetGo(e)
    OBVIOUS
  <2>t. TypeOK /\ Discarded(e)' /\ applied'[e] /\ Reversers(e)' = {}
    BY DEF RowInv, Stranded
  <2>1. ASSUME UNCHANGED <<st, status, pc, job>>, applied'[e] => applied[e] PROVE FALSE
    BY <2>t, <2>1 DEF Stranded, Discarded, Reversers
  <2>2. ASSUME NEW c \in Client, Start(c) \/ Continue(c) \/ Crash(c),
               Discarded(e), applied[e]
        PROVE  LetGo(e)
    <3>1. PICK d \in Reversers(e) : TRUE
      BY <2>2 DEF Stranded
    <3>2. d = c
      BY <2>t, <2>2, <3>1, StepOnly DEF Only, Reversers
    <3>3. ~Start(c)
      BY <3>1, <3>2 DEF Reversers, Start, PostLookup, Reassess, DeleteVoucher, RoundRead,
         DecideLock, CloseCheck
    <3> QED
      BY <2>t, <2>2, <3>1, <3>2, <3>3, ReversalGoesOn
  <2>3. ASSUME NEW c \in Client, DecideCommit(c) PROVE LetGo(e)
    <3>1. CASE job[c].entry = e
      BY <2>t, <2>3, <3>1, DecisionsDiscard
    <3>2. CASE job[c].entry # e
      <4>1. job[c].entry \in Entry
        BY <2>t, <2>3, TrackedRow DEF DecideCommit, Tracked
      <4>2. st'[e] = st[e] /\ status'[e] = status[e] /\ applied'[e] = applied[e]
        BY <2>t, <2>3, <3>2, <4>1 DEF DecideCommit, FlipBalances, TypeOK
      <4> QED
        BY <2>t, <2>2, <2>3, <4>2 DEF Continue, Discarded
    <3> QED
      BY <3>1, <3>2
  <2>4. ASSUME NEW c \in Client, SoftDelete(c) PROVE LetGo(e)
    <3>1. job[c].entry \in Entry /\ ~applied[job[c].entry] /\ UNCHANGED <<status, applied>>
      BY <2>t, <2>4, TrackedRow DEF SoftDelete, RowInv, Reversal, Tracked
    <3>2. job[c].entry # e
      BY <2>t, <3>1
    <3>3. st'[e] = st[e]
      BY <2>t, <2>4, <3>1, <3>2 DEF SoftDelete, TypeOK
    <3> QED
      BY <2>t, <2>2, <2>4, <3>1, <3>3 DEF Continue, Discarded
  <2>5. ASSUME NEW c \in Client, NEW f \in Entry, PostInsert(c, f) PROVE LetGo(e)
    <3>1. CASE f = e
      <4>1. st'[e] = "live" /\ status'[e] = "draft"
        BY <2>t, <2>5, <3>1 DEF PostInsert, RowInv, FreeRows, TypeOK
      <4> QED
        BY <2>t, <4>1 DEF Discarded
    <3>2. CASE f # e
      <4>1. st'[e] = st[e] /\ status'[e] = status[e] /\ applied'[e] = applied[e]
        BY <2>t, <2>5, <3>2 DEF PostInsert, TypeOK
      <4> QED
        BY <2>t, <2>2, <2>5, <4>1 DEF Continue, Discarded
    <3> QED
      BY <3>1, <3>2
  <2>6. ASSUME NEW c \in Client, NEW f \in Entry, DeleteVoucher(c, f) PROVE LetGo(e)
    <3>1. pc'[c] = "readFlag" /\ job'[c] = Reversing(None, f, FALSE, {})
      BY <2>t, <2>6, BeginEffect DEF DeleteVoucher
    <3>2. job'[c].entry = f
      BY <3>1 DEF Reversing, NoJob
    <3>3. f # e
      BY <2>t, <3>1, <3>2 DEF Reversers
    <3>4. st'[e] = st[e] /\ UNCHANGED <<status, applied>>
      BY <2>t, <2>6, <3>3 DEF DeleteVoucher, TypeOK
    <3> QED
      BY <2>t, <2>2, <2>6, <3>4 DEF Start, Discarded
  <2>7. ASSUME NEW c \in Client, Start(c) \/ Continue(c) \/ Crash(c) PROVE LetGo(e)
    <3>1. CASE UNCHANGED <<st, status>> /\ \A f \in Entry : applied'[f] => applied[f]
      BY <2>t, <2>2, <2>7, <3>1 DEF Discarded
    <3> QED
      BY <2>t, <2>3, <2>4, <2>5, <2>6, <2>7, <3>1, DiscardingSteps
  <2>8. CASE UNCHANGED <<rowVars, pc, job>>
    BY <2>1, <2>8 DEF rowVars
  <2> QED
    BY <2>7, <2>8 DEF Next, ReopenPeriod, LockPeriod, ResolveFailure, vars
<1>2. RowInv /\ [Next]_vars =>
         [\A e \in Entry : ~Stranded(e) /\ Stranded(e)' =>
             \/ \E c \in Reversers(e) : Crash(c) \/ (pc[c] = "revGate" /\ ~Open(date[e]))
             \/ \E c \in Client : /\ pc[c] = "decided" /\ job[c].entry = e
                                  /\ job[c].to = "rejected" /\ job[c].effect = "none"]_vars
  BY <1>1
<1> QED
  BY <1>2, RowInvariance, PTL DEF Spec, DiscardedLeaveBooks

-----------------------------------------------------------------------------
(* A closed period drains.  A step moves the balances of a request's own   *)
(* entry, dated as its gate saw it: the date of an inserted row only       *)
(* changes in PostOverride, which waits for the lock of a decision and is  *)
(* never run on the entry of an accident; what else is reversed line by    *)
(* line is deleted, and the override passes it by.                         *)
Overrides == \A c \in Client : pc[c] = "override" => KindOf[key[job[c].entry]] # "accident"
DrainInv == RowInv /\ Overrides

LEMMA OverridesStep ==
  ASSUME DrainInv, NEW c \in Client, Start(c) \/ Continue(c) \/ Crash(c)
  PROVE  Overrides'
<1>t. TypeOK /\ RowInv
  BY DEF DrainInv, RowInv
<1>1. /\ Only(c)
      /\ \/ pc'[c] # "override" /\ key' = key
         \/ PostRecheck(c)
         \/ \E e \in Entry : PostInsert(c, e)
  BY <1>t, StepOnly
<1>2. CASE pc'[c] # "override" /\ key' = key
  BY <1>1, <1>2 DEF DrainInv, Overrides, Only
<1>3. CASE PostRecheck(c)
  <2>1. key' = key
    BY <1>3 DEF PostRecheck, rowVars
  <2>2. pc'[c] = "override" => KindOf[key[job'[c].entry]] # "accident"
    <3>1. ASSUME NEW e \in LiveWith(job[c].key), Begin(c, "override", Posting(job[c].key, e)),
                 KindOf[job[c].key] # "accident"
          PROVE  KindOf[key[job'[c].entry]] # "accident"
      <4>1. job'[c] = Posting(job[c].key, e)
        BY <1>t, <3>1, BeginEffect
      <4> QED
        BY <3>1, <4>1 DEF Posting, NoJob, LiveWith
    <3> QED
      BY <1>t, <1>3, <3>1, GotoEffect, FinishEffect DEF PostRecheck
  <2> QED
    BY <1>1, <2>1, <2>2 DEF DrainInv, Overrides, Only
<1>4. ASSUME NEW e \in Entry, PostInsert(c, e) PROVE Overrides'
  <2>1. st[e] = "free" /\ key' = [key EXCEPT ![e] = job[c].key]
    BY <1>4 DEF PostInsert, StampKey
  <2>2. pc'[c] = "override" => job'[c].entry = e /\ KindOf[job[c].key] = "manual"
    <3>1. CASE KindOf[job[c].key] = "manual"
      <4>1. job'[c] = Posting(job[c].key, e)
        BY <1>t, <1>4, <3>1, BeginEffect DEF PostInsert
      <4> QED
        BY <3>1, <4>1 DEF Posting, NoJob
    <3>2. CASE KindOf[job[c].key] # "manual"
      BY <1>t, <1>4, <3>2, FinishEffect DEF PostInsert
    <3> QED
      BY <3>1, <3>2
  <2>3. ASSUME NEW d \in Client \ {c}, pc'[d] = "override"
        PROVE  KindOf[key'[job'[d].entry]] # "accident"
    <3>1. pc[d] = "override" /\ job'[d] = job[d]
      BY <1>1, <2>3 DEF Only
    <3>2. job[d].entry \in Entry /\ st[job[d].entry] # "free"
      BY <1>t, <3>1, JobFields, LedgerAssumption DEF JobOK
    <3>3. job[d].entry # e
      BY <2>1, <3>2
    <3>4. key'[job[d].entry] = key[job[d].entry]
      BY <1>t, <2>1, <3>2, <3>3 DEF TypeOK
    <3> QED
      BY <3>1, <3>4 DEF DrainInv, Overrides
  <2>4. key'[e] = job[c].key
    BY <1>t, <2>1 DEF TypeOK
  <2> QED
    BY <2>2, <2>3, <2>4 DEF Overrides
<1> QED
  BY <1>1, <1>2, <1>3, <1>4

(* A request that rests is in flight in the same periods as before.        *)
LEMMA RestingFlight ==
  ASSUME NEW p \in Period, NEW d \in Client, pc'[d] = pc[d], job'[d] = job[d],
         pc[d] \in {"decided", "rewind", "clearFlag"} => date'[job[d].entry] = date[job[d].entry],
         pc[d] = "decided" => applied'[job[d].entry] = applied[job[d].entry]
  PROVE  d \in InFlight(p)' <=> d \in InFlight(p)
BY DEF InFlight, Moves, Deferred

(* Whoever else is in flight rests: the rows of decisions and reversals    *)
(* under way keep their dates, and those of decisions their flags.         *)
LEMMA OthersRest ==
  ASSUME DrainInv, NEW c \in Client, Start(c) \/ Continue(c) \/ Crash(c),
         NEW d \in Client \ {c}, pc[d] \in {"decided", "rewind", "clearFlag"}
  PROVE  /\ date'[job[d].entry] = date[job[d].entry]
         /\ pc[d] = "decided" => applied'[job[d].entry] = applied[job[d].entry]
<1> DEFINE f == job[d].entry
<1>t. TypeOK /\ RowInv
  BY DEF DrainInv, RowInv
<1>1. f \in Entry /\ st[f] # "free"
  BY <1>t, TrackedRow DEF Tracked
<1>2. pc[d] = "decided" => lock[f] = d /\ d # None
  BY <1>t, LedgerAssumption DEF RowInv, HeldRow
<1>3. pc[d] # "decided" => KindOf[key[f]] = "accident" \/ st[f] = "deleted"
  BY <1>t DEF RowInv, Reversal
<1>4. CASE UNCHANGED <<date, applied>>
  BY <1>4
<1>5. ASSUME NEW e \in Entry, PostInsert(c, e) PROVE date'[f] = date[f] /\ applied'[f] = applied[f]
  BY <1>t, <1>1, <1>5 DEF PostInsert, TypeOK
<1>6. ASSUME PostOverride(c) PROVE date'[f] = date[f] /\ applied'[f] = applied[f]
  <2>1. KindOf[key[job[c].entry]] # "accident" /\ lock[job[c].entry] = None
    BY <1>6 DEF DrainInv, Overrides, PostOverride, MayLock
  <2>2. f # job[c].entry \/ st[f] = "deleted"
    BY <1>2, <1>3, <2>1
  <2> QED
    BY <1>t, <1>1, <1>6, <2>2 DEF PostOverride, TypeOK
<1>7. ASSUME DecideCommit(c)
      PROVE  date'[f] = date[f] /\ (pc[d] = "decided" => applied'[f] = applied[f])
  <2>1. lock[job[c].entry] = c
    BY <1>t, <1>7 DEF RowInv, HeldRow, DecideCommit
  <2>2. pc[d] = "decided" => f # job[c].entry
    BY <1>2, <2>1
  <2> QED
    BY <1>t, <1>1, <1>7, <2>2 DEF DecideCommit, FlipBalances, TypeOK
<1>8. ASSUME ClearFlag(c)
      PROVE  date'[f] = date[f] /\ (pc[d] = "decided" => applied'[f] = applied[f])
  <2>1. lock[job[c].entry] = None
    BY <1>8 DEF ClearFlag, MayLock
  <2>2. pc[d] = "decided" => f # job[c].entry
    BY <1>2, <2>1
  <2> QED
    BY <1>t, <1>1, <1>8, <2>2 DEF ClearFlag, ResetFlag, TypeOK
<1>9. \/ UNCHANGED <<date, applied>> \/ PostOverride(c) \/ DecideCommit(c) \/ ClearFlag(c)
      \/ \E e \in Entry : PostInsert(c, e)
  <2>1. CASE Start(c)
    BY <2>1 DEF Start, PostLookup, Reassess, DeleteVoucher, RoundRead, DecideLock, CloseCheck, rowVars
  <2>2. CASE Crash(c)
    BY <2>2 DEF Crash, rowVars
  <2>3. CASE Continue(c)
    BY <2>3 DEF Continue, PostLookup, PostGate, PostRecheck, PostRejected, ReadFlag, RevGate,
       SoftDelete, Rewind, RoundInsert, RoundRoute, CloseCommit, rowVars
  <2> QED
    BY <2>1, <2>2, <2>3
<1> QED
  BY <1>4, <1>5, <1>6, <1>7, <1>8, <1>9

(* A request gets in flight in an open period only.                        *)
LEMMA OwnFlight ==
  ASSUME DrainInv, NEW c \in Client, Start(c) \/ Continue(c) \/ Crash(c),
         NEW p \in Period, ~Open(p), c \in InFlight(p)'
  PROVE  c \in InFlight(p)
<1> DEFINE Flying == {"recheck", "insert", "decided", "rewind", "clearFlag"}
<1>t. TypeOK /\ RowInv
  BY DEF DrainInv, RowInv
<1>1. pc'[c] \in Flying
  BY DEF InFlight
<1>2. CASE PostGate(c)
  <2>1. pc'[c] = "recheck" /\ job'[c] = job[c] /\ Open(PostingDate[job[c].key])
    BY <1>t, <1>1, <1>2, GotoEffect, FinishEffect DEF PostGate
  <2> QED
    BY <2>1 DEF InFlight
<1>3. CASE PostRecheck(c)
  <2>1. \A e : Begin(c, "override", Posting(job[c].key, e)) => pc'[c] = "override"
    BY <1>t, BeginEffect
  <2>2. pc[c] = "recheck" /\ pc'[c] = "insert" /\ job'[c] = job[c]
    BY <1>t, <1>1, <1>3, <2>1, GotoEffect, FinishEffect DEF PostRecheck
  <2> QED
    BY <2>2 DEF InFlight, Deferred
<1>4. ASSUME NEW e \in Entry, NEW d, DecideLock(c, e, d) PROVE c \in InFlight(p)
  <2>1. pc'[c] = "decided" /\ job'[c] = Deciding(e, d)
    BY <1>t, <1>4, BeginEffect DEF DecideLock
  <2>2. job'[c].entry = e /\ job'[c].effect = d.effect
    BY <2>1 DEF Deciding, NoJob
  <2>3. Moves(e, d.effect)' <=> Moves(e, d.effect)
    BY <1>4 DEF DecideLock, Moves, rowVars
  <2>4. date'[e] = p /\ Moves(e, d.effect)
    BY <2>1, <2>2, <2>3 DEF InFlight, Moves
  <2>5. Open(date[e]) /\ date' = date
    BY <1>4, <2>4 DEF DecideLock, EntryGate, rowVars
  <2> QED
    BY <2>4, <2>5
<1>5. CASE RevGate(c)
  <2>1. Open(date[job[c].entry]) /\ date' = date
    BY <1>t, <1>1, <1>5, FinishEffect DEF RevGate, Refused, rowVars
  <2>2. pc'[c] = "rewind" /\ job'[c].entry = job[c].entry
    <3>1. /\ pc'[c] = "rewind"
          /\ job'[c] = Reversing(job[c].key, job[c].entry, job[c].delete, Lines(job[c].entry))
      BY <1>t, <1>5, <2>1, BeginEffect DEF RevGate
    <3> QED
      BY <3>1 DEF Reversing, NoJob
  <2> QED
    BY <2>1, <2>2 DEF InFlight
<1>6. ASSUME NEW a \in Line, Rewind(c, a) PROVE c \in InFlight(p)
  <2>1. /\ pc[c] = "rewind" /\ date' = date /\ pc'[c] \in {"rewind", "clearFlag"}
        /\ job'[c] = Reversing(job[c].key, job[c].entry, job[c].delete, job[c].todo \ {a})
    BY <1>t, <1>6, BeginEffect DEF Rewind, rowVars
  <2>2. job'[c].entry = job[c].entry
    BY <2>1 DEF Reversing, NoJob
  <2> QED
    BY <2>1, <2>2 DEF InFlight
<1>7. \/ PostGate(c) \/ PostRecheck(c) \/ RevGate(c)
      \/ \E a \in Line : Rewind(c, a)
      \/ \E e \in Entry : \E d \in UNION {Decisions[k] : k \in Kind} : DecideLock(c, e, d)
  <2>1. ASSUME NEW s \in Step \ Flying, NEW j, Begin(c, s, j) PROVE FALSE
    BY <1>t, <1>1, <2>1, BeginEffect
  <2>2. ASSUME NEW s \in Step \ Flying, Goto(c, s), UNCHANGED job PROVE FALSE
    BY <1>t, <1>1, <2>2, GotoEffect
  <2>3. ~Finish(c)
    BY <2>1 DEF Finish, Step
  <2>4. CASE Start(c)
    BY <2>1, <2>3, <2>4 DEF Start, PostLookup, Reassess, DeleteVoucher, RoundRead, CloseCheck, Step
  <2>5. CASE Continue(c)
    BY <2>1, <2>2, <2>3, <2>5 DEF Continue, PostLookup, PostInsert, PostRejected, PostOverride,
       DecideCommit, ReadFlag, ClearFlag, SoftDelete, Reversed, RoundInsert, RoundRoute,
       CloseCommit, Step
  <2> QED
    BY <2>3, <2>4, <2>5 DEF Crash
<1> QED
  BY <1>2, <1>3, <1>4, <1>5, <1>6, <1>7

(* A step that moves a balance of an entry is taken by a request that is   *)
(* in flight in the period the entry is dated in.                          *)
LEMMA MoverInFlight ==
  ASSUME DrainInv, NEW c \in Client, Start(c) \/ Continue(c) \/ Crash(c),
         NEW e \in Entry, NEW a \in Account, moved'[e][a] # moved[e][a]
  PROVE  c \in InFlight(date'[e])
<1>t. TypeOK /\ RowInv
  BY DEF DrainInv, RowInv
<1>1. ASSUME NEW f \in Entry, PostInsert(c, f) PROVE c \in InFlight(date'[e])
  <2>1. job[c].key \in Key /\ pc[c] = "insert"
    BY <1>t, <1>1, JobFields DEF PostInsert, JobOK
  <2>2. ~Deferred(job[c].key) /\ moved' = Shift(f, Account, 1)
    BY <1>1 DEF PostInsert
  <2>3. e = f
    BY <1>t, <2>2, ShiftEffect
  <2>4. date'[e] = IF InTransaction(job[c].key) THEN PostingDate[job[c].key] ELSE Today
    BY <1>t, <1>1, <2>3 DEF PostInsert, TypeOK
  <2>5. KindOf[job[c].key] \in {"expense", "accident"}
    BY <2>1, <2>2, LedgerAssumption DEF Deferred, Kind
  <2>6. date'[e] = PostingDate[job[c].key]
    BY <2>1, <2>4, <2>5, LedgerAssumption DEF InTransaction
  <2> QED
    BY <2>1, <2>2, <2>6 DEF InFlight
<1>2. ASSUME DecideCommit(c) PROVE c \in InFlight(date'[e])
  <2>1. job[c].entry \in Entry /\ pc[c] = "decided" /\ date' = date
    BY <1>t, <1>2, TrackedRow DEF DecideCommit, Tracked
  <2>2. Moves(job[c].entry, job[c].effect)
    BY <1>2 DEF DecideCommit
  <2>3. e = job[c].entry
    <3>1. moved' = Shift(job[c].entry, Lines(job[c].entry), IF applied[job[c].entry] THEN -1 ELSE 1)
      BY <1>2, <2>2 DEF DecideCommit, FlipBalances
    <3>2. (IF applied[job[c].entry] THEN -1 ELSE 1) \in Int
      OBVIOUS
    <3> QED
      BY <1>t, <2>1, <3>1, <3>2, ShiftEffect
  <2> QED
    BY <2>1, <2>2, <2>3 DEF InFlight
<1>3. ASSUME NEW b \in Line, Rewind(c, b) PROVE c \in InFlight(date'[e])
  <2>1. job[c].entry \in Entry /\ pc[c] = "rewind" /\ date' = date
    BY <1>t, <1>3, TrackedRow DEF Rewind, Tracked, rowVars
  <2>2. e = job[c].entry
    BY <1>t, <1>3, <2>1, ShiftEffect DEF Rewind
  <2> QED
    BY <2>1, <2>2 DEF InFlight
<1>4. ASSUME RoundInsert(c) \/ RoundRoute(c) PROVE FALSE
  <2>1. job[c].entry \in Entry
    BY <1>t, <1>4, JobFields DEF RoundInsert, RoundRoute, JobOK
  <2>2. Shift(job[c].entry, {Rounding}, 1)[e][a] = moved[e][a]
    BY <1>t, <2>1, ShiftEffect, LedgerAssumption
  <2> QED
    BY <1>4, <2>2 DEF RoundInsert, RoundRoute
<1>5. \/ DecideCommit(c) \/ RoundInsert(c) \/ RoundRoute(c)
      \/ \E f \in Entry : PostInsert(c, f)
      \/ \E b \in Line : Rewind(c, b)
  <2>1. CASE Start(c)
    BY <2>1 DEF Start, PostLookup, Reassess, DeleteVoucher, RoundRead, DecideLock, CloseCheck
  <2>2. CASE Continue(c)
    BY <2>2 DEF Continue, PostLookup, PostGate, PostRecheck, PostRejected, PostOverride, ReadFlag,
       RevGate, ClearFlag, SoftDelete, CloseCommit
  <2> QED
    BY <2>1, <2>2 DEF Crash
<1> QED
  BY <1>1, <1>2, <1>3, <1>4, <1>5

(* While a period stays closed no further request gets past its gates, and *)
(* once none is in flight the balances of its entries are final.           *)
THEOREM ClosedPeriodIsFinal == Spec => ClosedPeriodDrains
<1> DEFINE Draining ==
              \A p \in Period : ~Open(p) /\ ~Open(p)' =>
                 /\ InFlight(p)' \subseteq InFlight(p)
                 /\ InFlight(p) = {} =>
                       \A e \in Entry, a \in Account : date'[e] = p => moved'[e][a] = moved[e][a]
<1>1. Init => DrainInv
  BY InitRows DEF Init, DrainInv, Overrides
<1>2. DrainInv /\ [Next]_vars => DrainInv'
  <2> SUFFICES ASSUME DrainInv, [Next]_vars PROVE DrainInv'
    OBVIOUS
  <2>1. RowInv'
    BY NextRows DEF DrainInv
  <2>2. CASE \E c \in Client : Start(c) \/ Continue(c) \/ Crash(c)
    BY <2>1, <2>2, OverridesStep DEF DrainInv
  <2>3. CASE UNCHANGED <<key, pc, job>>
    BY <2>1, <2>3 DEF DrainInv, Overrides
  <2> QED
    BY <2>2, <2>3 DEF Next, ReopenPeriod, LockPeriod, ResolveFailure, vars, rowVars
<1>3. DrainInv /\ [Next]_vars => Draining
  <2> SUFFICES ASSUME DrainInv, [Next]_vars, NEW p \in Period, ~Open(p), ~Open(p)'
               PROVE  /\ InFlight(p)' \subseteq InFlight(p)
                      /\ InFlight(p) = {} =>
                            \A e \in Entry, a \in Account : date'[e] = p => moved'[e][a] = moved[e][a]
    OBVIOUS
  <2>1. ASSUME NEW c \in Client, Start(c) \/ Continue(c) \/ Crash(c)
        PROVE  InFlight(p)' \subseteq InFlight(p)
    <3> SUFFICES ASSUME NEW d \in Client, d \in InFlight(p)' PROVE d \in InFlight(p)
      BY DEF InFlight
    <3>1. CASE d = c
      BY <2>1, <3>1, OwnFlight
    <3>2. CASE d # c
      <4>1. pc'[d] = pc[d] /\ job'[d] = job[d]
        BY <2>1, <3>2, StepOnly DEF DrainInv, RowInv, Only
      <4> QED
        BY <2>1, <3>2, <4>1, OthersRest, RestingFlight
    <3> QED
      BY <3>1, <3>2
  <2>2. ASSUME NEW c \in Client, Start(c) \/ Continue(c) \/ Crash(c), InFlight(p) = {},
               NEW e \in Entry, NEW a \in Account, date'[e] = p
        PROVE  moved'[e][a] = moved[e][a]
    BY <2>2, MoverInFlight
  <2>3. CASE UNCHANGED <<rowVars, moved, pc, job>>
    BY <2>3 DEF InFlight, Moves, Deferred, rowVars
  <2> QED
    BY <2>1, <2>2, <2>3 DEF Next, ReopenPeriod, LockPeriod, ResolveFailure, vars
<1> QED
  BY <1>1, <1>2, <1>3, PTL DEF Spec, ClosedPeriodDrains
-----------------------------------------------------------------------------
(* The balances: what holds as long as the work on accident entries is     *)
(* serialised and no reversal drops half-way.                              *)

(* The steps of a bare reversal that keep its entry to itself.             *)
RevSteps == {"readFlag", "revGate", "rewind", "clearFlag"}

(* A line is only rewound while the flag of its entry stands.              *)
LEMMA RewoundOnly ==
  ASSUME LedgerInv, NEW e \in Entry, NEW a \in Account, NEW c \in Client, Rewound(c, e, a)
  PROVE  applied[e] /\ c \in Reversers(e)
  BY DEF LedgerInv, BooksInv, Rewound, Handling, Reversers

(* What is said of a request stands while the flag of its entry does.      *)
LEMMA BystanderBooks ==
  ASSUME LedgerInv, NEW d \in Client, pc'[d] = pc[d], job'[d] = job[d],
         pc[d] \in Tracked => /\ key'[job[d].entry] = key[job[d].entry]
                              /\ applied'[job[d].entry] = applied[job[d].entry]
  PROVE  Handling(d)'
  BY DEF LedgerInv, BooksInv, Handling, MayHandle, Tracked

LEMMA UntrackedBooks ==
  ASSUME NEW d \in Client, pc'[d] \notin Tracked
  PROVE  Handling(d)'
  BY DEF Tracked, Handling

(* A request that begins no reversal is no second one of any entry.        *)
Continues(c) == pc'[c] \in RevSteps => pc[c] \in RevSteps /\ job'[c].entry = job[c].entry

LEMMA SoleSame ==
  ASSUME LedgerInv, NEW c \in Client, Only(c), Continues(c)
  PROVE  SoleReverser'
<1>1. \A e \in Entry : Reversers(e)' \subseteq Reversers(e)
  BY DEF Reversers, Only, Continues, RevSteps
<1> QED
  BY <1>1 DEF LedgerInv, BooksInv, SoleReverser

(* A reversal that begins on a live entry is its only one: another would   *)
(* be a reassessment, and all work on accidents is one client's.           *)
LEMMA SoleBegun ==
  ASSUME LedgerInv, Serialised, NEW c \in Client, NEW e \in Entry, Only(c),
         pc[c] = "idle", st[e] = "live", MayHandle(c, e), job'[c].entry = e
  PROVE  SoleReverser'
<1>1. Reversers(e) = {}
  <2> SUFFICES ASSUME NEW d \in Reversers(e) PROVE FALSE
    OBVIOUS
  <2>1. Reversal(d) /\ Handling(d)
    BY DEF LedgerInv, RowInv, BooksInv, Reversers
  <2>2. KindOf[key[e]] = "accident" /\ MayHandle(d, e) /\ pc[d] # "idle"
    BY <2>1 DEF Reversal, Handling, Reversers
  <2> QED
    BY <2>2 DEF MayHandle, Serialised
<1>2. \A f \in Entry : Reversers(f)' \subseteq IF f = e THEN {c} ELSE Reversers(f)
  BY <1>1 DEF Reversers, Only
<1> QED
  BY <1>2 DEF LedgerInv, BooksInv, SoleReverser

(* A step that moves no balance, clears no flag, begins no reversal and    *)
(* takes no line for rewound.                                              *)
LEMMA BooksSame ==
  ASSUME LedgerInv, NEW c \in Client, Only(c), Handling(c)', SoleReverser',
         UNCHANGED <<key, applied>>,
         \A e \in Entry, a \in Account : moved'[e][a] = moved[e][a],
         \A e \in Entry, a \in Account : Rewound(c, e, a)' <=> Rewound(c, e, a)
  PROVE  BooksInv'
<1>1. \A d \in Client, e \in Entry, a \in Account : Rewound(d, e, a)' <=> Rewound(d, e, a)
  BY DEF Rewound, Only
<1>2. BalancesMatch'
  BY <1>1 DEF LedgerInv, BooksInv, BalancesMatch
<1>3. \A d \in Client : Handling(d)'
  BY BystanderBooks DEF Only
<1> QED
  BY <1>2, <1>3 DEF BooksInv

LEMMA QuietBooks ==
  ASSUME LedgerInv, NEW c \in Client, Quiet(c)
  PROVE  BooksInv'
<1>1. \A e \in Entry, a \in Account : Rewound(c, e, a)' <=> Rewound(c, e, a)
  BY DEF Rewound, Quiet, Tracked
<1>2. SoleReverser' /\ Handling(c)'
  BY SoleSame, UntrackedBooks DEF Quiet, Continues, Tracked, RevSteps
<1> QED
  BY <1>1, <1>2, BooksSame DEF Quiet, Rows

LEMMA InitBooks == Init => BooksInv
<1> SUFFICES ASSUME Init PROVE BooksInv
  OBVIOUS
<1>1. (\A c \in Client : Handling(c)) /\ SoleReverser
  BY DEF Init, Handling, SoleReverser, Reversers
<1>2. BalancesMatch
  BY DEF Init, BalancesMatch, Rewound, Line
<1> QED
  BY <1>1, <1>2 DEF BooksInv

(* While that work is serialised, the entry of a decision or of a reversal *)
(* is nobody else's.                                                       *)
LEMMA Alone ==
  ASSUME LedgerInv, Serialised, NEW c \in Client, NEW b \in Client \ {c},
         pc[c] \in Tracked, pc[b] \in Tracked
  PROVE  job[b].entry # job[c].entry
<1> DEFINE e == job[c].entry
<1> SUFFICES ASSUME job[b].entry = e PROVE FALSE
  OBVIOUS
<1>1. /\ HeldRow(c) /\ HeldRow(b) /\ Reversal(c) /\ Reversal(b)
      /\ Handling(c) /\ Handling(b) /\ e \in Entry
  BY TrackedRow DEF LedgerInv, RowInv, BooksInv
<1>2. KindOf[key[e]] # "accident"
  BY <1>1 DEF Handling, MayHandle, Serialised, Tracked
<1>3. \A d \in {b, c} : pc[d] # "decided" => d \in Reversers(e) /\ st[e] = "deleted"
  BY <1>1, <1>2 DEF Reversal, Reversers, Tracked
<1>4. \A d \in {b, c} : pc[d] = "decided" => lock[e] = d /\ st[e] = "live"
  BY <1>1 DEF HeldRow
<1>5. b \in Reversers(e) /\ c \in Reversers(e) => b = c
  BY <1>1 DEF LedgerInv, BooksInv, SoleReverser
<1> QED
  BY <1>3, <1>4, <1>5

(* So a step on its row leaves the other requests' entries alone.          *)
LEMMA OthersElsewhere ==
  ASSUME LedgerInv, Serialised, NEW c \in Client, pc[c] \in Tracked, NEW b \in Client \ {c},
         pc[b] \in Tracked
  PROVE  job[b].entry \in Entry \ {job[c].entry}
  BY Alone, TrackedRow DEF LedgerInv, RowInv

(* The lines of a free row are in no balance.                              *)
LEMMA InsertBooks ==
  ASSUME LedgerInv, NEW c \in Client, NEW e \in Entry, PostInsert(c, e)
  PROVE  BooksInv'
<1>1. TypeOK /\ job[c].key \in Key /\ st[e] = "free" /\ ~applied[e]
  BY JobFields DEF LedgerInv, RowInv, FreeRows, PostInsert, JobOK
<1>2. /\ applied' = [applied EXCEPT ![e] = ~Deferred(job[c].key)]
      /\ key' = [key EXCEPT ![e] = job[c].key]
  BY DEF PostInsert, StampKey
<1>3. pc[c] \notin Tracked /\ pc'[c] \notin Tracked /\ Only(c)
  BY <1>1, BeginEffect, FinishEffect DEF PostInsert, Tracked
<1>4. \A d \in Client : pc[d] \in Tracked => job[d].entry \in Entry \ {e}
  BY <1>1, TrackedRow
<1>5. \A d \in Client : Handling(d)'
  BY <1>1, <1>2, <1>3, <1>4, BystanderBooks, UntrackedBooks DEF Only, TypeOK
<1>6. \A d \in Client, f \in Entry, a \in Account : Rewound(d, f, a)' <=> Rewound(d, f, a)
  BY <1>3 DEF Rewound, Tracked, Only
<1>7. ASSUME NEW f \in Entry, NEW a \in Account
      PROVE  moved'[f][a] = IF applied'[f] /\ ~(\E d \in Client : Rewound(d, f, a)') THEN 1 ELSE 0
  <2>1. moved[f][a] = IF applied[f] /\ ~(\E d \in Client : Rewound(d, f, a)) THEN 1 ELSE 0
    BY DEF LedgerInv, BooksInv, BalancesMatch
  <2>2. Shift(e, Account, 1)[f][a] = moved[f][a] + (IF f = e THEN 1 ELSE 0)
    BY <1>1, ShiftEffect
  <2>3. CASE f # e
    BY <1>1, <1>2, <1>6, <2>1, <2>2, <2>3 DEF PostInsert, TypeOK
  <2>4. CASE f = e
    <3>1. ~ \E d \in Client : Rewound(d, e, a)
      BY <1>4 DEF Rewound, Tracked
    <3>2. moved'[e][a] = IF Deferred(job[c].key) THEN 0 ELSE 1
      BY <1>1, <2>1, <2>2, <2>4 DEF PostInsert
    <3>3. applied'[e] = ~Deferred(job[c].key)
      BY <1>1, <1>2 DEF TypeOK
    <3> QED
      BY <1>6, <2>4, <3>1, <3>2, <3>3
  <2> QED
    BY <2>3, <2>4
<1>8. BalancesMatch'
  BY <1>7 DEF BalancesMatch
<1>9. SoleReverser'
  BY <1>3, SoleSame DEF Continues, Tracked, RevSteps
<1> QED
  BY <1>5, <1>8, <1>9 DEF BooksInv

LEMMA LockBooks ==
  ASSUME LedgerInv, NEW c \in Client, NEW e \in Entry, NEW d, DecideLock(c, e, d)
  PROVE  BooksInv'
<1>1. /\ pc[c] = "idle" /\ pc'[c] = "decided" /\ job'[c] = Deciding(e, d) /\ Only(c)
      /\ MayHandle(c, e) /\ UNCHANGED <<key, applied, moved>>
  BY BeginEffect DEF LedgerInv, RowInv, DecideLock, rowVars
<1>2. \A f \in Entry, a \in Account : Rewound(c, f, a)' <=> Rewound(c, f, a)
  BY <1>1 DEF Rewound
<1>3. job'[c].entry = e
  BY <1>1 DEF Deciding, NoJob
<1>4. Handling(c)' /\ SoleReverser'
  BY <1>1, <1>3, SoleSame DEF Handling, MayHandle, Continues, RevSteps
<1> QED
  BY <1>1, <1>2, <1>4, BooksSame

(* A decision moves every line together with the flag, and no reversal is  *)
(* under way on what it decides.                                           *)
LEMMA CommitBooks ==
  ASSUME LedgerInv, Serialised, NEW c \in Client, DecideCommit(c)
  PROVE  BooksInv'
<1> DEFINE e == job[c].entry
<1>1. TypeOK /\ pc[c] = "decided" /\ e \in Entry /\ pc'[c] = "idle" /\ Only(c)
  BY FinishEffect, TrackedRow DEF LedgerInv, RowInv, DecideCommit, Tracked
<1>2. /\ IF Moves(e, job[c].effect) THEN FlipBalances(e) ELSE UNCHANGED <<moved, applied>>
      /\ key' = key
  BY DEF DecideCommit
<1>3. /\ applied'[e] = IF Moves(e, job[c].effect) THEN ~applied[e] ELSE applied[e]
      /\ \A f \in Entry \ {e} : applied'[f] = applied[f]
  BY <1>1, <1>2 DEF FlipBalances, TypeOK
<1>4. \A b \in Client \ {c} : pc[b] \in Tracked => job[b].entry \in Entry \ {e}
  BY <1>1, OthersElsewhere DEF Tracked
<1>5. \A b \in Client : Handling(b)'
  <2>1. Handling(c)'
    BY <1>1, UntrackedBooks DEF Tracked
  <2>2. \A b \in Client \ {c} : Handling(b)'
    BY <1>1, <1>2, <1>3, <1>4, BystanderBooks DEF Only
  <2> QED
    BY <2>1, <2>2
<1>6. ASSUME NEW f \in Entry, NEW a \in Account
      PROVE  moved'[f][a] = IF applied'[f] /\ ~(\E b \in Client : Rewound(b, f, a)') THEN 1 ELSE 0
  <2>1. moved[f][a] = IF applied[f] /\ ~(\E b \in Client : Rewound(b, f, a)) THEN 1 ELSE 0
    BY DEF LedgerInv, BooksInv, BalancesMatch
  <2>2. \A b \in Client : Rewound(b, f, a)' <=> Rewound(b, f, a)
    BY <1>1 DEF Rewound, Only
  <2>3. CASE ~Moves(e, job[c].effect)
    BY <1>2, <2>1, <2>2, <2>3
  <2>4. CASE Moves(e, job[c].effect) /\ f # e
    <3>1. Shift(e, Lines(e), IF applied[e] THEN -1 ELSE 1)[f][a] = moved[f][a]
      BY <1>1, <2>4, ShiftEffect
    <3> QED
      BY <1>2, <1>3, <2>1, <2>2, <2>4, <3>1 DEF FlipBalances
  <2>5. CASE Moves(e, job[c].effect) /\ f = e
    <3>1. Shift(e, Lines(e), IF applied[e] THEN -1 ELSE 1)[e][a]
             = moved[e][a] + (IF applied[e] THEN -1 ELSE 1)
      <4>1. a \in Lines(e) /\ (IF applied[e] THEN -1 ELSE 1) \in Int
        BY DEF Lines
      <4> HIDE DEF e
      <4> QED
        BY <1>1, <4>1, ShiftEffect
    <3>2. ~ \E b \in Client : Rewound(b, e, a)
      BY <1>1, <1>4 DEF Rewound, Tracked
    <3>3. moved'[e][a] = IF applied[e] THEN 0 ELSE 1
      BY <1>2, <2>1, <2>5, <3>1, <3>2 DEF FlipBalances
    <3> QED
      BY <1>3, <2>2, <2>5, <3>2, <3>3
  <2> QED
    BY <2>3, <2>4, <2>5
<1>7. BalancesMatch'
  BY <1>6 DEF BalancesMatch
<1>8. SoleReverser'
  BY <1>1, SoleSame DEF Continues, RevSteps
<1> QED
  BY <1>5, <1>7, <1>8 DEF BooksInv

(* A reversal begins, reads the flag and passes the gate.                  *)
LEMMA DeleteVoucherBooks ==
  ASSUME LedgerInv, Serialised, NEW c \in Client, NEW e \in Entry, DeleteVoucher(c, e)
  PROVE  BooksInv'
<1>0. /\ TypeOK /\ pc[c] = "idle" /\ st[e] = "live" /\ MayHandle(c, e)
      /\ Begin(c, "readFlag", Reversing(None, e, FALSE, {})) /\ UNCHANGED <<key, applied, moved>>
  BY DEF LedgerInv, RowInv, DeleteVoucher
<1>1. pc'[c] = "readFlag" /\ job'[c] = Reversing(None, e, FALSE, {}) /\ Only(c)
  BY <1>0, BeginEffect
<1>2. job'[c].entry = e
  BY <1>1 DEF Reversing, NoJob
<1>3. Handling(c)' /\ SoleReverser'
  BY <1>0, <1>1, <1>2, SoleBegun DEF Handling, MayHandle
<1>4. \A f \in Entry, a \in Account : Rewound(c, f, a)' <=> Rewound(c, f, a)
  BY <1>0, <1>1 DEF Rewound
<1> QED
  BY <1>0, <1>1, <1>3, <1>4, BooksSame

LEMMA ReassessBooks ==
  ASSUME LedgerInv, Serialised, NEW c \in Client, NEW k \in Key, Reassess(c, k)
  PROVE  BooksInv'
<1>1. /\ TypeOK /\ pc[c] = "idle" /\ UNCHANGED <<key, applied, moved>> /\ c \in AccidentDesk
  BY DEF LedgerInv, RowInv, Reassess, rowVars
<1>2. \A e \in Entry, a \in Account : ~Rewound(c, e, a)
  BY <1>1 DEF Rewound
<1>3. CASE Begin(c, "lookup", Posting(k, None))
  <2>1. pc'[c] = "lookup" /\ Only(c)
    BY <1>1, <1>3, BeginEffect
  <2>2. Handling(c)' /\ SoleReverser'
    BY <2>1, SoleSame, UntrackedBooks DEF Continues, Tracked, RevSteps
  <2> QED
    BY <1>1, <1>2, <2>1, <2>2, BooksSame DEF Rewound
<1>4. ASSUME NEW e \in LiveWith(k), Begin(c, "readFlag", Reversing(k, e, TRUE, {}))
      PROVE  BooksInv'
  <2>1. pc'[c] = "readFlag" /\ job'[c] = Reversing(k, e, TRUE, {}) /\ Only(c)
    BY <1>1, <1>4, BeginEffect
  <2>2. job'[c].entry = e /\ e \in Entry /\ st[e] = "live" /\ MayHandle(c, e)
    BY <1>1, <2>1 DEF Reversing, NoJob, LiveWith, MayHandle
  <2>3. Handling(c)' /\ SoleReverser'
    BY <1>1, <2>1, <2>2, SoleBegun DEF Handling, MayHandle
  <2> QED
    BY <1>1, <1>2, <2>1, <2>3, BooksSame DEF Rewound
<1> QED
  BY <1>3, <1>4 DEF Reassess

LEMMA ReadFlagBooks ==
  ASSUME LedgerInv, NEW c \in Client, ReadFlag(c)
  PROVE  BooksInv'
<1>1. /\ TypeOK /\ pc[c] = "readFlag" /\ UNCHANGED <<key, applied, moved>> /\ Handling(c)
  BY DEF LedgerInv, RowInv, BooksInv, ReadFlag, rowVars
<1>2. /\ Only(c)
      /\ \/ pc'[c] \in {"idle", "softDelete"} /\ (pc'[c] = "idle" \/ job'[c] = job[c])
         \/ pc'[c] = "revGate" /\ applied[job[c].entry] /\ job'[c] = job[c]
  BY <1>1, GotoEffect, FinishEffect DEF ReadFlag, Reversed
<1>3. Handling(c)' /\ SoleReverser'
  BY <1>1, <1>2, SoleSame DEF Handling, MayHandle, Continues, RevSteps
<1>4. \A e \in Entry, a \in Account : Rewound(c, e, a)' <=> Rewound(c, e, a)
  BY <1>1, <1>2 DEF Rewound
<1> QED
  BY <1>1, <1>2, <1>3, <1>4, BooksSame

LEMMA RevGateBooks ==
  ASSUME LedgerInv, NEW c \in Client, RevGate(c)
  PROVE  BooksInv'
<1> DEFINE e == job[c].entry
           j == Reversing(job[c].key, e, job[c].delete, Lines(e))
<1>1. TypeOK /\ pc[c] = "revGate" /\ UNCHANGED <<key, applied, moved>> /\ Handling(c)
  BY DEF LedgerInv, RowInv, BooksInv, RevGate, rowVars
<1>2. j.entry = e /\ j.todo = Lines(e)
  BY DEF Reversing, NoJob
<1>3. Only(c) /\ (pc'[c] = "idle" \/ (pc'[c] = "rewind" /\ job'[c] = j))
  BY <1>1, BeginEffect, FinishEffect DEF RevGate, Refused
<1>4. Handling(c)' /\ SoleReverser'
  BY <1>1, <1>2, <1>3, SoleSame DEF Handling, MayHandle, Continues, RevSteps
<1>5. \A a \in Account : a \in Lines(e)
  BY DEF Lines
<1>6. \A f \in Entry, a \in Account : Rewound(c, f, a)' <=> Rewound(c, f, a)
  BY <1>1, <1>2, <1>3, <1>5 DEF Rewound
<1> QED
  BY <1>1, <1>3, <1>4, <1>6, BooksSame

(* One account's balance is moved back: the line joins those rewound.      *)
LEMMA RewindBooks ==
  ASSUME LedgerInv, Serialised, NEW c \in Client, NEW a \in Line, Rewind(c, a)
  PROVE  BooksInv'
<1> DEFINE e == job[c].entry
           todo == job[c].todo
           j == Reversing(job[c].key, e, job[c].delete, todo \ {a})
<1>1. /\ TypeOK /\ pc[c] = "rewind" /\ UNCHANGED <<key, applied>> /\ Handling(c) /\ e \in Entry
      /\ moved' = Shift(e, {a}, -1) /\ a \in todo
  BY TrackedRow DEF LedgerInv, RowInv, BooksInv, Rewind, rowVars, Tracked
<1>2. j.entry = e /\ j.todo = todo \ {a}
  BY DEF Reversing, NoJob
<1>3. Only(c) /\ pc'[c] = (IF todo = {a} THEN "clearFlag" ELSE "rewind") /\ job'[c] = j
  BY <1>1, BeginEffect DEF Rewind
<1>4. Handling(c)' /\ SoleReverser'
  BY <1>1, <1>2, <1>3, SoleSame DEF Handling, MayHandle, Continues, RevSteps
<1>5. \A b \in Client : Handling(b)'
  BY <1>1, <1>3, <1>4, BystanderBooks DEF Only
<1>6. ASSUME NEW f \in Entry, NEW g \in Account
      PROVE  moved'[f][g] = IF applied'[f] /\ ~(\E b \in Client : Rewound(b, f, g)') THEN 1 ELSE 0
  <2>1. moved[f][g] = IF applied[f] /\ ~(\E b \in Client : Rewound(b, f, g)) THEN 1 ELSE 0
    BY DEF LedgerInv, BooksInv, BalancesMatch
  <2>2. moved'[f][g] = moved[f][g] + (IF f = e /\ g = a THEN -1 ELSE 0) /\ moved[f][g] \in Int
    BY <1>1, ShiftEffect
  <2>3. CASE f = e /\ g = a
    <3>1. \A b \in Client : ~Rewound(b, f, g)
      BY <1>1, <2>3, Alone DEF Rewound, Tracked
    <3>2. applied[f] /\ Rewound(c, f, g)'
      BY <1>1, <1>2, <1>3, <2>3 DEF Handling, Rewound
    <3> QED
      BY <1>1, <2>1, <2>2, <2>3, <3>1, <3>2
  <2>4. CASE ~(f = e /\ g = a)
    <3>1. \A b \in Client : Rewound(b, f, g)' <=> Rewound(b, f, g)
      BY <1>1, <1>2, <1>3, <2>4 DEF Rewound, Only
    <3> QED
      BY <1>1, <2>1, <2>2, <2>4, <3>1
  <2> QED
    BY <2>3, <2>4
<1>7. BalancesMatch'
  BY <1>6 DEF BalancesMatch
<1> QED
  BY <1>4, <1>5, <1>7 DEF BooksInv

(* The flag is cleared when every line has been taken out.                 *)
LEMMA ClearFlagBooks ==
  ASSUME LedgerInv, Serialised, NEW c \in Client, ClearFlag(c)
  PROVE  BooksInv'
<1> DEFINE e == job[c].entry
<1>1. /\ TypeOK /\ pc[c] = "clearFlag" /\ Handling(c) /\ e \in Entry
      /\ applied' = [applied EXCEPT ![e] = FALSE] /\ UNCHANGED <<key, moved>>
  BY TrackedRow DEF LedgerInv, RowInv, BooksInv, ClearFlag, ResetFlag, Tracked
<1>2. applied[e] /\ job[c].todo = {}
  BY <1>1 DEF Handling
<1>3. Only(c) /\ (pc'[c] = "idle" \/ (pc'[c] = "softDelete" /\ job'[c] = job[c]))
  BY <1>1, GotoEffect, FinishEffect DEF ClearFlag, Reversed
<1>4. Handling(c)' /\ SoleReverser'
  BY <1>1, <1>3, SoleSame DEF Handling, MayHandle, Continues, RevSteps
<1>5. ASSUME NEW b \in Client \ {c} PROVE Handling(b)'
  <2>1. pc[b] \in Tracked => job[b].entry \in Entry \ {e}
    BY <1>1, OthersElsewhere DEF Tracked
  <2> QED
    BY <1>1, <1>3, <2>1, BystanderBooks DEF Only, TypeOK
<1>6. ASSUME NEW f \in Entry, NEW a \in Account
      PROVE  moved'[f][a] = IF applied'[f] /\ ~(\E b \in Client : Rewound(b, f, a)') THEN 1 ELSE 0
  <2>1. moved'[f][a] = IF applied[f] /\ ~(\E b \in Client : Rewound(b, f, a)) THEN 1 ELSE 0
    BY <1>1 DEF LedgerInv, BooksInv, BalancesMatch
  <2>2. CASE f = e
    <3>1. Rewound(c, e, a) /\ ~applied'[e]
      BY <1>1, <1>2 DEF Rewound, TypeOK
    <3> QED
      BY <2>1, <2>2, <3>1
  <2>3. CASE f # e
    <3>1. \A b \in Client : Rewound(b, f, a)' <=> Rewound(b, f, a)
      BY <1>1, <1>3, <2>3 DEF Rewound, Only
    <3>2. applied'[f] = applied[f]
      BY <1>1, <2>3 DEF TypeOK
    <3> QED
      BY <2>1, <3>1, <3>2
  <2> QED
    BY <2>2, <2>3
<1>7. BalancesMatch'
  BY <1>6 DEF BalancesMatch
<1> QED
  BY <1>4, <1>5, <1>7 DEF BooksInv

LEMMA SoftDeleteBooks ==
  ASSUME LedgerInv, NEW c \in Client, SoftDelete(c)
  PROVE  BooksInv'
<1>1. /\ TypeOK /\ pc[c] = "softDelete" /\ UNCHANGED <<key, applied, moved>>
  BY DEF LedgerInv, RowInv, SoftDelete
<1>2. Only(c) /\ pc'[c] \in {"idle", "lookup"}
  BY <1>1, BeginEffect, FinishEffect DEF SoftDelete
<1>3. \A e \in Entry, a \in Account : Rewound(c, e, a)' <=> Rewound(c, e, a)
  BY <1>1, <1>2 DEF Rewound
<1>4. Handling(c)' /\ SoleReverser'
  BY <1>2, SoleSame, UntrackedBooks DEF Continues, Tracked, RevSteps
<1> QED
  BY <1>1, <1>2, <1>3, <1>4, BooksSame

(* The connection that drops is none that has moved part of the lines.     *)
LEMMA CrashBooks ==
  ASSUME LedgerInv, Serialised, NEW c \in Client, Crash(c)
  PROVE  BooksInv'
<1>1. /\ TypeOK /\ pc[c] \notin {"rewind", "clearFlag"} /\ UNCHANGED <<key, applied, moved>>
      /\ Only(c) /\ pc'[c] = "idle"
  BY FinishEffect DEF LedgerInv, RowInv, Serialised, Crash, rowVars
<1>2. \A e \in Entry, a \in Account : ~Rewound(c, e, a) /\ ~Rewound(c, e, a)'
  BY <1>1 DEF Rewound
<1>3. Handling(c)' /\ SoleReverser'
  BY <1>1, SoleSame, UntrackedBooks DEF Continues, Tracked, RevSteps
<1> QED
  BY <1>1, <1>2, <1>3, BooksSame

LEMMA StillBooks ==
  ASSUME LedgerInv, UNCHANGED <<key, applied, moved, pc, job>>
  PROVE  BooksInv'
<1>1. \A c \in Client : Handling(c)'
  BY BystanderBooks
<1>2. BalancesMatch' /\ SoleReverser'
  BY DEF LedgerInv, BooksInv, BalancesMatch, SoleReverser, Rewound, Reversers
<1> QED
  BY <1>1, <1>2 DEF BooksInv

LEMMA NextLedger == Serialised /\ LedgerInv /\ [Next]_vars => LedgerInv'
<1> SUFFICES ASSUME Serialised, LedgerInv, [Next]_vars PROVE BooksInv'
  BY NextRows DEF LedgerInv
<1>t. TypeOK
  BY DEF LedgerInv, RowInv
<1>1. ASSUME NEW c \in Client, Start(c) PROVE BooksInv'
  BY <1>t, <1>1, QuietSteps, QuietBooks, ReassessBooks, DeleteVoucherBooks, LockBooks DEF Start
<1>2. ASSUME NEW c \in Client, Continue(c) PROVE BooksInv'
  BY <1>t, <1>2, QuietSteps, QuietBooks, InsertBooks, CommitBooks, ReadFlagBooks, RevGateBooks,
     RewindBooks, ClearFlagBooks, SoftDeleteBooks DEF Continue
<1>3. ASSUME NEW c \in Client, Crash(c) PROVE BooksInv'
  BY <1>3, CrashBooks
<1>4. ASSUME NEW p \in Period, ReopenPeriod(p) \/ LockPeriod(p) PROVE BooksInv'
  BY <1>4, StillBooks DEF ReopenPeriod, LockPeriod, rowVars
<1>5. ASSUME NEW k \in Key, ResolveFailure(k) PROVE BooksInv'
  BY <1>5, StillBooks DEF ResolveFailure, rowVars
<1>6. CASE UNCHANGED vars
  BY <1>6, StillBooks DEF vars, rowVars
<1> QED
  BY <1>1, <1>2, <1>3, <1>4, <1>5, <1>6 DEF Next

(* The whole invariant holds throughout, if the work on accident entries   *)
(* comes one request at a time and no reversal drops half-way.             *)
THEOREM Invariance == ASSUME Serialised PROVE Spec => []LedgerInv
<1>1. Init => LedgerInv
  BY InitRows, InitBooks DEF LedgerInv
<1>2. LedgerInv /\ [Next]_vars => LedgerInv'
  BY NextLedger
<1> QED
  BY <1>1, <1>2, PTL DEF Spec

(* The books balance under the same proviso, whatever bare and             *)
(* transactional deletions, decisions and reassessments overlap: the       *)
(* balance of every account an entry posts to includes its line exactly    *)
(* when balancesApplied says so, but for what a reversal under way has     *)
(* already taken out.                                                      *)
THEOREM BooksBalance == ASSUME Serialised PROVE Spec => []BalancesMatch
<1>1. LedgerInv => BalancesMatch
  BY DEF LedgerInv, BooksInv
<1> QED
  BY <1>1, Invariance, PTL

(* No line is taken out of a balance twice, if the requests that reassess  *)
(* or delete an accident entry take turns and no bare reversal drops       *)
(* half-way: TLC shows that each of the two is needed.                     *)
THEOREM NoDoubleReversalIfSerialised == ASSUME Serialised PROVE Spec => []NoDoubleReversal
<1>1. LedgerInv => NoDoubleReversal
  BY DEF LedgerInv, BooksInv, BalancesMatch, NoDoubleReversal
<1> QED
  BY <1>1, Invariance, PTL
-----------------------------------------------------------------------------
(* The ledger implements DocumentBooks.                                    *)
Mapped == <<key, Times, Entered, Struck>>

(* A step shows in the abstract books when it changes a line, or whether   *)
(* an entry was inserted or deleted, or the flag of a deferred one.        *)
LEMMA TimesSame ==
  ASSUME \A e \in Entry, a \in Account : moved'[e][a] = moved[e][a]
  PROVE  Times' = Times
  BY DEF Times

LEMMA EnteredSame ==
  ASSUME key' = key, \A e \in Entry : st'[e] = "free" <=> st[e] = "free",
         \A e \in Entry : st[e] # "free" /\ Deferred(key[e]) => (applied'[e] <=> applied[e])
  PROVE  Entered' = Entered
<1>1. \A e \in Entry : Deferred(key'[e]) <=> Deferred(key[e])
  BY DEF Deferred
<1> QED
  BY <1>1 DEF Entered

LEMMA Invisible ==
  ASSUME key' = key, st' = st, applied' = applied,
         \A e \in Entry, a \in Account : moved'[e][a] = moved[e][a]
  PROVE  UNCHANGED Mapped
  BY TimesSame, EnteredSame DEF Mapped, Struck

(* An entry off the books has no line in them, and one that is on them and *)
(* not being rewound has every line in them once.                          *)
LEMMA OffBooks ==
  ASSUME LedgerInv, NEW e \in Entry, ~applied[e]
  PROVE  Books!Absent(e)
  BY DEF LedgerInv, BooksInv, BalancesMatch, Books!Absent, Times

LEMMA OnBooks ==
  ASSUME LedgerInv, NEW e \in Entry, applied[e], NEW a \in Account,
         \A c \in Client : ~Rewound(c, e, a)
  PROVE  Times[e][a] = 1
  BY DEF LedgerInv, BooksInv, BalancesMatch, Times

(* While no entry of a document is live, or only one that is off the books *)
(* is, no line of the document is in them but of what was deleted.         *)
LEMMA DocumentAbsent ==
  ASSUME LedgerInv, NEW k \in Key,
         \A e \in Entry : st[e] = "live" /\ key[e] = k => ~applied[e]
  PROVE  \A f \in Entry \ Struck : key[f] = k => Books!Absent(f)
<1> SUFFICES ASSUME NEW f \in Entry \ Struck, key[f] = k PROVE ~applied[f]
  BY OffBooks
<1> QED
  BY DEF LedgerInv, RowInv, TypeOK, FreeRows, Struck

(* An entry that is deleted while it is off the books, or that leaves them *)
(* by a reversal of its own, is struck off with its lines as they are.     *)
LEMMA StruckAsItIs ==
  ASSUME RowInv, NEW e \in Entry, st[e] = "live", st' = [st EXCEPT ![e] = "deleted"],
         Times' = Times, key' = key, Entered' = Entered
  PROVE  Books!Strike(e, {})
<1>1. key[e] # None /\ e \notin Struck /\ Struck' = Struck \cup {e}
  BY LedgerAssumption DEF RowInv, TypeOK, Struck
<1>2. Times' = [Times EXCEPT ![e] = [a \in Account |-> IF a \in {} THEN 0 ELSE Times[e][a]]]
  BY DEF Times
<1> QED
  BY <1>1, <1>2 DEF Books!Strike, Books!TakeOut

LEMMA InsertImplements ==
  ASSUME LedgerInv, NEW c \in Client, NEW e \in Entry, PostInsert(c, e)
  PROVE  Books!Next
<1> DEFINE k == job[c].key
<1>1. TypeOK /\ k \in Key /\ st[e] = "free" /\ ~applied[e] /\ key[e] = None
  BY JobFields DEF LedgerInv, RowInv, FreeRows, PostInsert, JobOK
<1>2. /\ st' = [st EXCEPT ![e] = "live"] /\ key' = [key EXCEPT ![e] = k]
      /\ applied' = [applied EXCEPT ![e] = ~Deferred(k)]
      /\ moved' = IF Deferred(k) THEN moved ELSE Shift(e, Account, 1)
      /\ LiveWith(k) = {}
  BY DEF PostInsert, StampKey, UniqueKey
<1>3. \A f \in Entry : /\ st'[f] = IF f = e THEN "live" ELSE st[f]
                       /\ key'[f] = IF f = e THEN k ELSE key[f]
                       /\ applied'[f] = IF f = e THEN ~Deferred(k) ELSE applied[f]
  BY <1>1, <1>2 DEF TypeOK
<1>4. \A f \in Entry : Deferred(key'[f]) <=> Deferred(IF f = e THEN k ELSE key[f])
  BY <1>3 DEF Deferred
<1>5. Struck' = Struck /\ e \notin Struck
  BY <1>1, <1>3 DEF Struck
<1>6. CASE Deferred(k)
  <2>1. Entered' = Entered
    BY <1>1, <1>3, <1>4, <1>6 DEF Entered
  <2>2. Times' = Times
    BY <1>2, <1>6, TimesSame
  <2>3. Books!Record(e, k)
    BY <1>1, <1>2, <1>5, <2>1, <2>2 DEF Books!Record
  <2> QED
    BY <1>1, <2>3 DEF Books!Next
<1>7. CASE ~Deferred(k)
  <2>1. Entered' = Entered \cup {e} /\ e \notin Entered
    BY <1>1, <1>3, <1>4, <1>7 DEF Entered
  <2>2. Times' = [Times EXCEPT ![e] = [a \in Account |-> 1]]
    <3>1. \A a \in Account : moved[e][a] = 0
      BY <1>1, OffBooks DEF Books!Absent, Times
    <3>2. \A f \in Entry, a \in Account : moved'[f][a] = IF f = e THEN 1 ELSE moved[f][a]
      BY <1>1, <1>2, <1>7, <3>1, ShiftEffect
    <3> QED
      BY <3>2 DEF Times
  <2>3. \A f \in Entry \ Struck : key[f] = k => Books!Absent(f)
    BY <1>1, <1>2, DocumentAbsent DEF LiveWith
  <2>4. Books!Enter(e, k)
    BY <1>1, <1>2, <1>5, <2>1, <2>2, <2>3 DEF Books!Enter
  <2> QED
    BY <1>1, <2>4 DEF Books!Next
<1> QED
  BY <1>6, <1>7

(* Only deferred documents are applied by a decision, and what one takes   *)
(* out is not deferred: a deferred draft has nothing to take out.          *)
LEMMA DecisionBooks ==
  ASSUME RowInv, NEW c \in Client, pc[c] = "decided"
  PROVE  LET e == job[c].entry IN
         /\ job[c].effect = "apply" => Deferred(key[e]) /\ job[c].to # "deleted"
         /\ job[c].effect = "reverse" /\ applied[e] => ~Deferred(key[e])
<1> DEFINE e == job[c].entry
<1>1. TypeOK /\ e \in Entry /\ st[e] # "free" /\ KindOf[key[e]] \in Kind
  BY TrackedRow, KeyType DEF RowInv, Tracked
<1>2. PICK d \in Decisions[KindOf[key[e]]] :
         status[e] \in d.from /\ job[c].to = d.to /\ job[c].effect = d.effect
  BY DEF RowInv, HeldRow
<1>3. job[c].effect = "apply" => Deferred(key[e]) /\ job[c].to # "deleted"
  <2>1. /\ d.to = "deleted" => d.effect = "reverse"
        /\ d.effect = "apply" => KindOf[key[e]] \in {"voucher", "manual"}
    BY <1>1, DecisionEffects
  <2> QED
    BY <1>2, <2>1 DEF Deferred
<1>4. job[c].effect = "reverse" /\ Deferred(key[e]) => ~applied[e]
  <2>1. KindOf[key[e]] = "voucher" /\ d.effect = "reverse" => d.from = {"draft"}
    BY <1>2, DecisionEffects
  <2>2. KindOf[key[e]] = "manual" /\ d.effect = "reverse" => d.from = {"draft"}
    BY <1>2, DecisionEffects
  <2>3. Deferred(key[e]) => (applied[e] <=> status[e] = IF KindOf[key[e]] = "voucher"
                                                        THEN "approved" ELSE "posted")
    BY <1>1 DEF RowInv, DeferredUntilDecided
  <2> QED
    BY <1>2, <2>1, <2>2, <2>3 DEF Deferred
<1> QED
  BY <1>3, <1>4

LEMMA CommitImplements ==
  ASSUME LedgerInv, Serialised, NEW c \in Client, DecideCommit(c)
  PROVE  Books!Next \/ UNCHANGED Mapped
<1> DEFINE e == job[c].entry
           n == IF applied[e] THEN -1 ELSE 1
<1>1. /\ RowInv /\ TypeOK /\ pc[c] = "decided" /\ e \in Entry /\ st[e] = "live"
      /\ key[e] \in Key
  BY TrackedRow, KeyType DEF LedgerInv, RowInv, HeldRow, DecideCommit, Tracked
<1>2. /\ key' = key /\ \A f \in Entry : st'[f] = "free" <=> st[f] = "free"
      /\ st' = IF job[c].to = "deleted" THEN [st EXCEPT ![e] = "deleted"] ELSE st
  BY <1>1 DEF DecideCommit, TypeOK
<1>3. \A a \in Account, b \in Client : ~Rewound(b, e, a)
  BY <1>1, OthersElsewhere DEF Rewound, Tracked
<1>s. /\ key[e] # None /\ e \notin Struck
      /\ job[c].to # "deleted" => Struck' = Struck
      /\ job[c].to = "deleted" => Struck' = Struck \cup {e}
  BY <1>1, <1>2, LedgerAssumption DEF TypeOK, Struck
<1>4. CASE ~Moves(e, job[c].effect)
  <2>1. UNCHANGED <<moved, applied>>
    BY <1>4 DEF DecideCommit
  <2>2. Times' = Times /\ Entered' = Entered
    BY <1>2, <2>1, TimesSame, EnteredSame
  <2>3. CASE job[c].to = "deleted"
    <3>1. Books!Strike(e, {})
      BY <1>1, <1>2, <2>2, <2>3, StruckAsItIs
    <3> QED
      BY <1>1, <3>1 DEF Books!Next
  <2> QED
    BY <1>2, <1>s, <2>2, <2>3 DEF Mapped
<1>5. CASE Moves(e, job[c].effect)
  <2>1. moved' = Shift(e, Lines(e), n) /\ applied' = [applied EXCEPT ![e] = ~applied[e]]
    BY <1>5 DEF DecideCommit, FlipBalances
  <2>2. \A f \in Entry, a \in Account :
           moved'[f][a] = IF f = e THEN moved[e][a] + n ELSE moved[f][a]
    <3>1. n \in Int /\ \A a \in Account : a \in Lines(e)
      BY DEF Lines
    <3> HIDE DEF n, e
    <3> QED
      BY <1>1, <2>1, <3>1, ShiftEffect
  <2>3. \A f \in Entry : /\ applied'[f] = IF f = e THEN ~applied[e] ELSE applied[f]
                         /\ Deferred(key'[f]) <=> Deferred(key[f])
    BY <1>1, <1>2, <2>1 DEF TypeOK, Deferred
  <2>4. CASE applied[e]
    <3>1. ~Deferred(key[e])
      BY <1>1, <1>5, <2>4, DecisionBooks DEF Moves
    <3>2. \A a \in Account : Times[e][a] = 1
      BY <1>1, <1>3, <2>4, OnBooks
    <3>3. Times' = [Times EXCEPT ![e] = [a \in Account |-> IF a \in Account THEN 0 ELSE Times[e][a]]]
      <4>1. \A f \in Entry, a \in Account : moved'[f][a] = IF f = e THEN 0 ELSE moved[f][a]
        <5>1. n = -1 /\ \A a \in Account : moved[e][a] = 1
          BY <1>1, <2>4, <3>2 DEF Times
        <5> HIDE DEF n, e
        <5> QED
          BY <2>2, <5>1
      <4> HIDE DEF e
      <4> QED
        BY <4>1 DEF Times
    <3>4. Entered' = Entered
      BY <1>2, <2>3, <3>1, EnteredSame
    <3>5. Books!TakeOut(e, Account)
      BY <3>2, <3>3 DEF Books!TakeOut
    <3>6. Books!Leave(e, Account) \/ Books!Strike(e, Account)
      BY <1>2, <1>s, <3>4, <3>5 DEF Books!Leave, Books!Strike
    <3> QED
      BY <1>1, <3>6 DEF Books!Next
  <2>5. CASE ~applied[e]
    <3>1. Deferred(key[e]) /\ job[c].to # "deleted"
      BY <1>1, <1>5, <2>5, DecisionBooks DEF Moves
    <3>2. \A f \in Entry \ Struck : key[f] = key[e] => Books!Absent(f)
      BY <1>1, <2>5, DocumentAbsent DEF RowInv, UniqueLive
    <3>3. Times' = [Times EXCEPT ![e] = [a \in Account |-> 1]]
      <4>1. \A a \in Account : moved[e][a] = 0
        BY <1>1, <1>s, <3>2 DEF Books!Absent, Times
      <4>2. \A f \in Entry, a \in Account : moved'[f][a] = IF f = e THEN 1 ELSE moved[f][a]
        BY <2>2, <2>5, <4>1
      <4> HIDE DEF e
      <4> QED
        BY <4>2 DEF Times
    <3>4. Entered' = Entered \cup {e} /\ e \notin Entered
      <4>1. st[e] # "free" /\ st'[e] # "free" /\ applied'[e] /\ ~applied[e]
        BY <1>1, <1>2, <2>3, <2>5
      <4>2. \A f \in Entry : f # e => (applied'[f] <=> applied[f])
        BY <2>3
      <4> HIDE DEF e
      <4> QED
        BY <1>1, <1>2, <2>3, <3>1, <4>1, <4>2 DEF Entered
    <3>5. key' = [key EXCEPT ![e] = key[e]]
      BY <1>1, <1>2 DEF TypeOK
    <3>6. Books!Enter(e, key[e])
      BY <1>s, <3>1, <3>2, <3>3, <3>4, <3>5 DEF Books!Enter
    <3> QED
      BY <1>1, <3>6 DEF Books!Next
  <2> QED
    BY <2>4, <2>5
<1> QED
  BY <1>4, <1>5

(* A bare reversal takes its lines out one at a time, each of them once.   *)
LEMMA RewindImplements ==
  ASSUME LedgerInv, Serialised, NEW c \in Client, NEW a \in Line, Rewind(c, a)
  PROVE  Books!Next \/ UNCHANGED Mapped
<1> DEFINE e == job[c].entry
<1>1. /\ TypeOK /\ pc[c] = "rewind" /\ e \in Entry /\ applied[e] /\ a \in job[c].todo
      /\ moved' = Shift(e, {a}, -1) /\ UNCHANGED <<st, key, applied>>
  BY TrackedRow DEF LedgerInv, RowInv, BooksInv, Handling, Rewind, rowVars, Tracked
<1>2. \A f \in Entry, b \in Account :
         moved'[f][b] = IF f = e /\ b = a THEN moved[f][b] - 1 ELSE moved[f][b]
  BY <1>1, ShiftEffect
<1>3. CASE a \notin Account
  BY <1>1, <1>2, <1>3, Invisible
<1>4. CASE a \in Account
  <2>1. \A b \in Client : ~Rewound(b, e, a)
    BY <1>1, Alone DEF Rewound, Tracked
  <2>2. Times[e][a] = 1
    BY <1>1, <1>4, <2>1, OnBooks
  <2>3. Times' = [Times EXCEPT ![e] = [b \in Account |-> IF b \in {a} THEN 0 ELSE Times[e][b]]]
    <3>1. moved[e][a] = 1
      BY <1>1, <1>4, <2>2 DEF Times
    <3>2. \A f \in Entry, b \in Account :
             moved'[f][b] = IF f = e THEN (IF b \in {a} THEN 0 ELSE moved[e][b]) ELSE moved[f][b]
      BY <1>2, <3>1
    <3> DEFINE row == [b \in Account |-> IF b \in {a} THEN 0 ELSE Times[e][b]]
    <3>3. e \in Entry /\ \A f \in Entry : Times[f] = [b \in Account |-> moved[f][b]]
      BY <1>1 DEF Times
    <3> HIDE DEF e
    <3>4. \A b \in Account : row[b] = IF b \in {a} THEN 0 ELSE moved[e][b]
      BY <3>3
    <3>5. row = [b \in Account |-> moved'[e][b]]
      BY <3>2, <3>3, <3>4
    <3> HIDE DEF row
    <3>6. \A f \in Entry \ {e} : [b \in Account |-> moved'[f][b]] = Times[f]
      BY <3>2, <3>3
    <3>7. Times' = [Times EXCEPT ![e] = row]
      BY <3>3, <3>5, <3>6 DEF Times
    <3> QED
      BY <3>7 DEF row
  <2>4. Entered' = Entered /\ Struck' = Struck
    BY <1>1, EnteredSame DEF Struck
  <2>5. Books!Leave(e, {a})
    BY <1>1, <2>2, <2>3, <2>4 DEF Books!Leave, Books!TakeOut
  <2> QED
    BY <1>1, <1>4, <2>5 DEF Books!Next
<1> QED
  BY <1>3, <1>4

(* The flag of an entry that is not deferred is no part of the promise.    *)
LEMMA ClearFlagImplements ==
  ASSUME LedgerInv, NEW c \in Client, ClearFlag(c)
  PROVE  UNCHANGED Mapped
<1> DEFINE e == job[c].entry
<1>1. /\ TypeOK /\ ~Deferred(key[e]) /\ UNCHANGED <<st, key, moved>>
      /\ applied' = [applied EXCEPT ![e] = FALSE]
  BY DEF LedgerInv, RowInv, Reversal, ClearFlag, ResetFlag
<1>2. \A f \in Entry : Deferred(key[f]) => applied'[f] = applied[f]
  BY <1>1 DEF TypeOK
<1> QED
  BY <1>1, <1>2, TimesSame, EnteredSame DEF Mapped, Struck

(* The two deletions outside a transaction move nothing themselves.        *)
LEMMA DeletionImplements ==
  ASSUME LedgerInv, NEW c \in Client,
         SoftDelete(c) \/ \E e \in Entry : DeleteVoucher(c, e)
  PROVE  Books!Next \/ UNCHANGED Mapped
<1>1. PICK e \in Entry : st[e] # "free" /\ st' = [st EXCEPT ![e] = "deleted"]
  BY TrackedRow DEF LedgerInv, RowInv, SoftDelete, DeleteVoucher, Tracked
<1>2. /\ RowInv /\ TypeOK /\ UNCHANGED <<key, applied, moved>>
      /\ \A f \in Entry : st'[f] = "free" <=> st[f] = "free"
  BY <1>1 DEF LedgerInv, RowInv, TypeOK, SoftDelete, DeleteVoucher
<1>3. Times' = Times /\ Entered' = Entered
  BY <1>2, TimesSame, EnteredSame
<1>4. CASE st[e] = "live"
  BY <1>1, <1>2, <1>3, <1>4, StruckAsItIs DEF Books!Next
<1>5. CASE st[e] = "deleted"
  BY <1>1, <1>2, <1>3, <1>5 DEF Mapped, Struck, TypeOK
<1> QED
  BY <1>1, <1>2, <1>4, <1>5 DEF TypeOK

(* Starting a decision or a reassessment, looking and dropping change      *)
(* nothing.                                                                *)
LEMMA LookingImplements ==
  ASSUME NEW c \in Client,
         \/ \E k \in Key : Reassess(c, k)
         \/ \E e \in Entry : \E d : DecideLock(c, e, d)
         \/ ReadFlag(c) \/ RevGate(c) \/ Crash(c)
  PROVE  UNCHANGED Mapped
<1>1. UNCHANGED <<st, key, applied, moved>>
  BY DEF Reassess, DecideLock, ReadFlag, RevGate, Crash, rowVars
<1> QED
  BY <1>1, Invisible

LEMMA NextImplements ==
  ASSUME LedgerInv, Serialised, [Next]_vars
  PROVE  Books!Next \/ UNCHANGED Mapped
<1>1. ASSUME NEW c \in Client, Quiet(c) PROVE UNCHANGED Mapped
  BY <1>1, Invisible DEF Quiet, Rows
<1>t. TypeOK
  BY DEF LedgerInv, RowInv
<1>2. ASSUME NEW c \in Client, Start(c) PROVE Books!Next \/ UNCHANGED Mapped
  BY <1>t, <1>1, <1>2, QuietSteps, LookingImplements, DeletionImplements DEF Start
<1>3. ASSUME NEW c \in Client, Continue(c) PROVE Books!Next \/ UNCHANGED Mapped
  BY <1>t, <1>1, <1>3, QuietSteps, InsertImplements, CommitImplements, RewindImplements,
     ClearFlagImplements, DeletionImplements, LookingImplements DEF Continue
<1>4. CASE UNCHANGED <<rowVars, moved>>
  BY <1>4, Invisible DEF rowVars
<1> QED
  BY <1>2, <1>3, <1>4, LookingImplements DEF Next, ReopenPeriod, LockPeriod, ResolveFailure, vars

(* Under the same proviso every entry enters the books at most once in its *)
(* life, whole, and only while no other entry that stands for its document *)
(* is in them, and each of its lines leaves them at most once: with a      *)
(* decision all together, or one by one, before or after the deletion.     *)
THEOREM LedgerImplementsBooks == ASSUME Serialised PROVE Spec => DocumentsBookedOnce
<1>1. Init => Books!Init
  BY DEF Init, Books!Init, Times, Entered, Struck, Line
<1>2. LedgerInv /\ [Next]_vars => [Books!Next]_(Books!vars)
  BY NextImplements DEF Mapped, Books!vars
<1> QED
  BY <1>1, <1>2, Invariance, PTL DEF Spec, DocumentsBookedOnce, Books!Spec
=============================================================================
