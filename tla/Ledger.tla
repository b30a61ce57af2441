------------------------------- MODULE Ledger -------------------------------
(***************************************************************************)
(* The general ledger of one company: journal entries, the materialised    *)
(* account balances (chart_of_accounts.currentBalance), the balancesApplied *)
(* flag that says whether an entry has moved them, and the fiscal periods  *)
(* whose closing bars further movement.                                    *)
(*                                                                         *)
(* A client is one HTTP request (or cron run) on its own pooled            *)
(* connection.  A handler that runs inside withTransaction is one or two   *)
(* actions: the reads and the row lock, then everything it commits.  A     *)
(* handler that runs without one takes an action per SQL statement, so     *)
(* that other requests interleave between its statements.                  *)
(*                                                                         *)
(* currentBalance is only ever changed by relative updates, so it is kept  *)
(* per entry and account: moved[e][a] is the net number of times the line  *)
(* of e on account a is included in the balance of a.                      *)
(*                                                                         *)
(* Some definitions are preceded by a variant of the same parameters (a    *)
(* missing index, a dropped gate): the bug each property must catch.       *)
(***************************************************************************)
EXTENDS Integers, FiniteSets

CONSTANTS
    Client,       \* requests
    Entry,        \* ids the journal_entries sequence may hand out (a bound)
    Key,          \* idempotency keys (sourceKey)
    Account,      \* the accounts an entry posts to when it is created
    Rounding,     \* account 9999, rounding differences
    Period,       \* fiscal periods
    Today,        \* the period of CURRENT_DATE
    KindOf,       \* the kind of document a key belongs to
    PostingDate,  \* the period of the date a key's document is posted on
    AccidentDesk, \* the clients whose requests work on accident entries
    CrashAt,      \* the steps at which a connection may drop
    None

Kind == {"expense", "voucher", "manual", "accident"}

Step == {"idle", "lookup", "gate", "recheck", "insert", "override", "decided",
         "readFlag", "revGate", "rewind", "clearFlag", "softDelete",
         "round", "roundRoute", "close"}

ASSUME LedgerAssumption ==
    /\ KindOf \in [Key -> Kind]
    /\ PostingDate \in [Key -> Period]
    /\ \A k \in Key : KindOf[k] = "accident" => PostingDate[k] = Today
    /\ Today \in Period
    /\ Rounding \notin Account
    /\ None \notin Client \cup Entry \cup Key \cup Period
    /\ AccidentDesk \subseteq Client
    /\ CrashAt \subseteq Step

VARIABLES
    st,       \* life of the row: "free" (not inserted), "live", "deleted"
    key,      \* sourceKey
    date,     \* the ledger date's period
    status,   \* the document status
    applied,  \* balancesApplied
    rounded,  \* the entry has a rounding line on account 9999
    moved,    \* see above
    lock,     \* the client whose open transaction holds the row FOR UPDATE
    period,   \* status of each fiscal period
    failed,   \* unresolved rows of financial_posting_failures, by key
    pc, job   \* where each request is, and what it has read

rowVars == <<st, key, date, status, applied, rounded>>
vars == <<rowVars, moved, lock, period, failed, pc, job>>

Line == Account \cup {Rounding}
Status == {"draft", "returned", "approved", "rejected", "posted"}

Job == [key : Key \cup {None}, entry : Entry \cup {None}, period : Period \cup {None},
        flag : BOOLEAN, todo : SUBSET Line, to : Status \cup {"deleted"},
        effect : {"none", "apply", "reverse"}, delete : BOOLEAN]
NoJob == [key |-> None, entry |-> None, period |-> None, flag |-> FALSE,
          todo |-> {}, to |-> "draft", effect |-> "none", delete |-> FALSE]
Posting(k, e) == [NoJob EXCEPT !.key = k, !.entry = e]
Deciding(e, d) == [NoJob EXCEPT !.entry = e, !.to = d.to, !.effect = d.effect]
Reversing(k, e, delete, todo) ==
    [NoJob EXCEPT !.key = k, !.entry = e, !.delete = delete, !.todo = todo]
Rounding9999(e) == [NoJob EXCEPT !.entry = e, !.flag = applied[e]]
Closing(p) == [NoJob EXCEPT !.period = p]

(* The documents posted with deferBalances, and those created inside the   *)
(* caller's withTransaction, so that insert and header overrides commit    *)
(* together.                                                               *)
Deferred(k) == KindOf[k] \in {"voucher", "manual"}
InTransaction(k) == KindOf[k] \in {"expense", "voucher"}

LiveWith(k) == {e \in Entry : st[e] = "live" /\ key[e] = k}

(* The partial unique index on (companyId, sourceKey) of live rows.        *)
UniqueKeyMissing(k) == TRUE
UniqueKey(k) == LiveWith(k) = {}

(* FOR UPDATE, a plain UPDATE and a foreign-key check wait for the         *)
(* transaction that holds the row; COMMIT and ROLLBACK free it.            *)
MayLockAlways(e) == TRUE
MayLock(e) == lock[e] = None
ReleaseForgotten(e) == UNCHANGED lock
Release(e) == lock' = [lock EXCEPT ![e] = None]

Lines(e) == Account \cup (IF rounded[e] THEN {Rounding} ELSE {})
Open(p) == period[p] = "open"

(* currentBalance = currentBalance + n * (debit - credit), for the lines A. *)
Shift(e, A, n) ==
    [moved EXCEPT ![e] = [a \in Line |-> moved[e][a] + (IF a \in A THEN n ELSE 0)]]

(* What the record of a request holds at a step: the key of the document   *)
(* being posted, the entry being worked on, the period being closed.       *)
JobOK(s, j) ==
    /\ j.delete \/ s \in {"lookup", "gate", "recheck", "insert", "override"}
           => j.key \in Key
    /\ s \in {"override", "decided", "readFlag", "revGate", "rewind", "clearFlag",
              "softDelete", "round", "roundRoute"} => j.entry \in Entry
    /\ s = "softDelete" => j.delete
    /\ s = "close" => j.period \in Period

Goto(c, s) == pc' = [pc EXCEPT ![c] = s]
Begin(c, s, j) == Goto(c, s) /\ job' = [job EXCEPT ![c] = j]
Finish(c) == Begin(c, "idle", NoJob)

Init ==
    /\ st = [e \in Entry |-> "free"]
    /\ key = [e \in Entry |-> None]
    /\ date = [e \in Entry |-> Today]
    /\ status = [e \in Entry |-> "draft"]
    /\ applied = [e \in Entry |-> FALSE]
    /\ rounded = [e \in Entry |-> FALSE]
    /\ moved = [e \in Entry |-> [a \in Line |-> 0]]
    /\ lock = [e \in Entry |-> None]
    /\ period = [p \in Period |-> "open"]
    /\ failed = {}
    /\ pc = [c \in Client |-> "idle"]
    /\ job = [c \in Client |-> NoJob]

-----------------------------------------------------------------------------
(* postJournalEntry, and the createJournalEntry inside it.                 *)

(* The first idempotency lookup: a live entry with the key ends the call.  *)
PostLookup(c, k) ==
    /\ \/ pc[c] = "idle" /\ KindOf[k] # "accident"
       \/ pc[c] = "lookup" /\ k = job[c].key
    /\ IF LiveWith(k) # {}
       THEN Finish(c)
       ELSE Begin(c, "gate", Posting(k, None))
    /\ UNCHANGED <<rowVars, moved, lock, period, failed>>

(* checkFinancialPeriodOpen on postingDate ?? today.                       *)
PostGate(c) ==
    /\ pc[c] = "gate"
    /\ IF Open(PostingDate[job[c].key])
       THEN Goto(c, "recheck") /\ UNCHANGED job
       ELSE Finish(c)
    /\ UNCHANGED <<rowVars, moved, lock, period, failed>>

(* createJournalEntry's own lookup: an entry that appeared in between is   *)
(* taken over, and postJournalEntry goes on to override its header.        *)
PostRecheck(c) ==
    LET k == job[c].key IN
    /\ pc[c] = "recheck"
    /\ \/ LiveWith(k) = {} /\ Goto(c, "insert") /\ UNCHANGED job
       \/ /\ KindOf[k] = "accident" /\ LiveWith(k) # {}
          /\ Finish(c)
       \/ /\ KindOf[k] # "accident"
          /\ \E e \in LiveWith(k) : Begin(c, "override", Posting(k, e))
    /\ UNCHANGED <<rowVars, moved, lock, period, failed>>

StampKeyLater(e, k) == UNCHANGED key
StampKey(e, k) == key' = [key EXCEPT ![e] = k]

(* The transaction that inserts header and lines and, unless deferred,     *)
(* moves the balances.  The unique index admits one live entry per key.    *)
PostInsert(c, e) ==
    LET k == job[c].key IN
    /\ pc[c] = "insert"
    /\ st[e] = "free"
    /\ UniqueKey(k)
    /\ st' = [st EXCEPT ![e] = "live"]
    /\ StampKey(e, k)
    /\ date' = [date EXCEPT ![e] = IF InTransaction(k) THEN PostingDate[k] ELSE Today]
    /\ applied' = [applied EXCEPT ![e] = ~Deferred(k)]
    /\ moved' = IF Deferred(k) THEN moved ELSE Shift(e, Account, 1)
    /\ IF KindOf[k] = "manual"
       THEN Begin(c, "override", Posting(k, e))
       ELSE Finish(c)
    /\ UNCHANGED <<status, rounded, lock, period, failed>>

(* createGuardedJournalEntry records a failure; inside a caller's          *)
(* transaction that row goes with the rollback.                            *)
Guarded(k) == KindOf[k] = "accident"

(* createJournalEntry throws: an account that takes no posting, lines that *)
(* do not balance, or a unique violation.                                  *)
PostRejected(c) ==
    /\ pc[c] = "insert"
    /\ failed' = failed \cup {k \in {job[c].key} : Guarded(k)}
    /\ Finish(c)
    /\ UNCHANGED <<rowVars, moved, lock, period>>

(* applyHeaderOverrides: the ledger date becomes the posting date.         *)
PostOverride(c) ==
    LET e == job[c].entry IN
    /\ pc[c] = "override"
    /\ MayLock(e)
    /\ date' = IF st[e] = "live" THEN [date EXCEPT ![e] = PostingDate[job[c].key]] ELSE date
    /\ Finish(c)
    /\ UNCHANGED <<st, key, status, applied, rounded, moved, lock, period, failed>>

-----------------------------------------------------------------------------
(* Decisions taken in one transaction under the row lock: applyTransition  *)
(* with its onApply hook, request-attachment and DELETE /expenses/:id.     *)
(* status "pending_approval" is in every from-set "draft" is in, and is    *)
(* not told apart from it.  "deleted" stands for setting deletedAt.        *)
Decision(from, to, effect) == [from |-> from, to |-> to, effect |-> effect]

ExpenseDecisions ==
    {Decision({"draft", "returned"}, "approved", "none"),
     Decision({"draft"}, "rejected", "reverse"),
     Decision({"draft"}, "returned", "reverse"),
     Decision({"draft", "returned"}, "returned", "none")}  \* request-attachment

(* The approval inbox and the hourly job set the status of an expense in   *)
(* one statement, and leave the balances as they are.                      *)
InboxDecisions ==
    {Decision({"draft"}, "posted", "none"), Decision({"draft"}, "rejected", "none")}

VoucherDecisions ==
    {Decision({"draft", "returned"}, "approved", "apply"),
     Decision({"draft"}, "rejected", "none"),
     Decision({"draft"}, "returned", "none")}

ManualDecisions ==
    {Decision({"draft", "returned"}, "approved", "none"),
     Decision({"approved"}, "posted", "apply")}

(* DELETE /expenses/:id takes any draft entry, whatever its document.      *)
DraftDeletion == Decision({"draft"}, "deleted", "reverse")

Decisions == [expense  |-> {DraftDeletion} \cup ExpenseDecisions \cup InboxDecisions,
              voucher  |-> {DraftDeletion} \cup VoucherDecisions,
              manual   |-> {DraftDeletion} \cup ManualDecisions,
              accident |-> {DraftDeletion}]

(* reverseAccountBalances and applyJournalEntryBalances return early when  *)
(* the flag says there is nothing to do.                                   *)
Moves(e, effect) == \/ effect = "apply" /\ ~applied[e]
                    \/ effect = "reverse" /\ applied[e]

FlipBalances(e) ==
    /\ moved' = Shift(e, Lines(e), IF applied[e] THEN -1 ELSE 1)
    /\ applied' = [applied EXCEPT ![e] = ~applied[e]]

(* The gate on the entry's own date: a closed period rolls everything back. *)
EntryGateOff(e, effect) == TRUE
EntryGate(e, effect) == Moves(e, effect) => Open(date[e])

(* Whose requests may work on the entry (an assumption of the instance).   *)
MayHandle(c, e) == KindOf[key[e]] = "accident" => c \in AccidentDesk

(* SELECT ... FOR UPDATE, the state checks and the gate.                   *)
DecideLock(c, e, d) ==
    /\ pc[c] = "idle"
    /\ st[e] = "live" /\ MayLock(e) /\ MayHandle(c, e)
    /\ d \in Decisions[KindOf[key[e]]]
    /\ status[e] \in d.from
    /\ EntryGate(e, d.effect)
    /\ lock' = [lock EXCEPT ![e] = c]
    /\ Begin(c, "decided", Deciding(e, d))
    /\ UNCHANGED <<rowVars, moved, period, failed>>

DecideCommit(c) ==
    LET e == job[c].entry
        to == job[c].to
    IN
    /\ pc[c] = "decided"
    /\ st' = IF to = "deleted" THEN [st EXCEPT ![e] = "deleted"] ELSE st
    /\ status' = IF to = "deleted" THEN status ELSE [status EXCEPT ![e] = to]
    /\ IF Moves(e, job[c].effect) THEN FlipBalances(e) ELSE UNCHANGED <<moved, applied>>
    /\ Release(e)
    /\ Finish(c)
    /\ UNCHANGED <<key, date, rounded, period, failed>>

-----------------------------------------------------------------------------
(* reverseAccountBalances outside a transaction: every statement commits   *)
(* on its own, and the FOR UPDATE of the first one locks nothing beyond it. *)

(* DELETE /vouchers/:id takes any draft entry too; the deletion commits    *)
(* before the balances are looked at.                                      *)
DeleteVoucher(c, e) ==
    /\ pc[c] = "idle"
    /\ st[e] = "live" /\ MayLock(e) /\ MayHandle(c, e)
    /\ status[e] = "draft"
    /\ st' = [st EXCEPT ![e] = "deleted"]
    /\ Begin(c, "readFlag", Reversing(None, e, FALSE, {}))
    /\ UNCHANGED <<key, date, status, applied, rounded, moved, lock, period, failed>>

(* postAccidentGL: look for the entry of the previous assessment.          *)
Reassess(c, k) ==
    /\ c \in AccidentDesk
    /\ pc[c] = "idle"
    /\ KindOf[k] = "accident"
    /\ \/ LiveWith(k) = {} /\ Begin(c, "lookup", Posting(k, None))
       \/ \E e \in LiveWith(k) : Begin(c, "readFlag", Reversing(k, e, TRUE, {}))
    /\ UNCHANGED <<rowVars, moved, lock, period, failed>>

(* Where softDeleteJournalEntry goes on, and DELETE /vouchers ends.        *)
Reversed(c) == IF job[c].delete THEN Goto(c, "softDelete") /\ UNCHANGED job
                                ELSE Finish(c)

ReadFlag(c) ==
    /\ pc[c] = "readFlag"
    /\ MayLock(job[c].entry)
    /\ IF applied[job[c].entry] THEN Goto(c, "revGate") /\ UNCHANGED job
                                ELSE Reversed(c)
    /\ UNCHANGED <<rowVars, moved, lock, period, failed>>

(* The period gate on the entry's date, then the read of its lines; a      *)
(* refusal ends the request.                                               *)
RefusalIgnored(c) == Reversed(c)
Refused(c) == Finish(c)

RevGate(c) ==
    LET e == job[c].entry IN
    /\ pc[c] = "revGate"
    /\ IF Open(date[e])
       THEN Begin(c, "rewind", Reversing(job[c].key, e, job[c].delete, Lines(e)))
       ELSE Refused(c)
    /\ UNCHANGED <<rowVars, moved, lock, period, failed>>

(* One UPDATE of chart_of_accounts.                                        *)
Rewind(c, a) ==
    /\ pc[c] = "rewind"
    /\ a \in job[c].todo
    /\ moved' = Shift(job[c].entry, {a}, -1)
    /\ Begin(c, IF job[c].todo = {a} THEN "clearFlag" ELSE "rewind",
             Reversing(job[c].key, job[c].entry, job[c].delete, job[c].todo \ {a}))
    /\ UNCHANGED <<rowVars, lock, period, failed>>

ResetFlagForgotten(e) == UNCHANGED applied
ResetFlag(e) == applied' = [applied EXCEPT ![e] = FALSE]

ClearFlag(c) ==
    LET e == job[c].entry IN
    /\ pc[c] = "clearFlag"
    /\ MayLock(e)
    /\ ResetFlag(e)
    /\ Reversed(c)
    /\ UNCHANGED <<st, key, date, status, rounded, moved, lock, period, failed>>

(* The second statement of softDeleteJournalEntry; postAccidentGL then     *)
(* stops on a zero cost and posts the corrected entry otherwise.           *)
SoftDelete(c) ==
    LET e == job[c].entry IN
    /\ pc[c] = "softDelete"
    /\ MayLock(e)
    /\ st' = [st EXCEPT ![e] = "deleted"]
    /\ Finish(c) \/ Begin(c, "lookup", Posting(job[c].key, None))
    /\ UNCHANGED <<key, date, status, applied, rounded, moved, lock, period, failed>>

-----------------------------------------------------------------------------
(* POST /rounding-difference: appendRoundingAdjustment reads the flag,     *)
(* then inserts the line on 9999 and moves the account if the flag it read *)
(* was true; the route then moves the account once more.  Bound: one       *)
(* rounding line per entry.                                                *)
Roundings(e) == {c \in Client : pc[c] \in {"round", "roundRoute"} /\ job[c].entry = e}

RoundRead(c, e) ==
    /\ pc[c] = "idle"
    /\ st[e] = "live"
    /\ ~rounded[e] /\ Roundings(e) = {}
    /\ Begin(c, "round", Rounding9999(e))
    /\ UNCHANGED <<rowVars, moved, lock, period, failed>>

(* The foreign key of the new line waits for a row lock on the header.     *)
RoundInsert(c) ==
    LET e == job[c].entry IN
    /\ pc[c] = "round"
    /\ MayLock(e)
    /\ rounded' = [rounded EXCEPT ![e] = TRUE]
    /\ moved' = IF job[c].flag THEN Shift(e, {Rounding}, 1) ELSE moved
    /\ Goto(c, "roundRoute")
    /\ UNCHANGED <<st, key, date, status, applied, lock, period, failed, job>>

RoundRoute(c) ==
    /\ pc[c] = "roundRoute"
    /\ moved' = Shift(job[c].entry, {Rounding}, 1)
    /\ Finish(c)
    /\ UNCHANGED <<rowVars, lock, period, failed>>

-----------------------------------------------------------------------------
(* Fiscal periods.  closeFiscalPeriodCanonical collects the blockers, then *)
(* runs the transition; an unresolved posting failure (created today)      *)
(* blocks the current period.                                              *)
CloseCheck(c, p) ==
    /\ pc[c] = "idle"
    /\ Open(p)
    /\ p = Today => failed = {}
    /\ Begin(c, "close", Closing(p))
    /\ UNCHANGED <<rowVars, moved, lock, period, failed>>

CloseCommit(c) ==
    LET p == job[c].period IN
    /\ pc[c] = "close"
    /\ period' = IF Open(p) THEN [period EXCEPT ![p] = "closed"] ELSE period
    /\ Finish(c)
    /\ UNCHANGED <<rowVars, moved, lock, failed>>

(* Reopening and audit-locking: one applyTransition from "closed" each.    *)
ReopenPeriod(p) ==
    /\ period[p] = "closed"
    /\ period' = [period EXCEPT ![p] = "open"]
    /\ UNCHANGED <<rowVars, moved, lock, failed, pc, job>>

LockPeriod(p) ==
    /\ period[p] = "closed"
    /\ period' = [period EXCEPT ![p] = "locked"]
    /\ UNCHANGED <<rowVars, moved, lock, failed, pc, job>>

ResolveFailure(k) ==
    /\ k \in failed
    /\ failed' = failed \ {k}
    /\ UNCHANGED <<rowVars, moved, lock, period, pc, job>>

(* A dropped connection: an open transaction rolls back and frees its row. *)
Crash(c) ==
    /\ pc[c] \in CrashAt \ {"idle"}
    /\ lock' = [e \in Entry |-> IF lock[e] = c THEN None ELSE lock[e]]
    /\ Finish(c)
    /\ UNCHANGED <<rowVars, moved, period, failed>>

-----------------------------------------------------------------------------
(* The steps a request takes once it has begun.                            *)
Continue(c) ==
    \/ \E k \in Key : pc[c] = "lookup" /\ PostLookup(c, k)
    \/ PostGate(c) \/ PostRecheck(c)
    \/ \E e \in Entry : PostInsert(c, e)
    \/ PostRejected(c) \/ PostOverride(c)
    \/ DecideCommit(c)
    \/ ReadFlag(c) \/ RevGate(c) \/ ClearFlag(c) \/ SoftDelete(c)
    \/ \E a \in Line : Rewind(c, a)
    \/ RoundInsert(c) \/ RoundRoute(c)
    \/ CloseCommit(c)

Start(c) ==
    \/ \E k \in Key : (pc[c] = "idle" /\ PostLookup(c, k)) \/ Reassess(c, k)
    \/ \E e \in Entry : DeleteVoucher(c, e) \/ RoundRead(c, e)
    \/ \E e \in Entry : \E d \in UNION {Decisions[k] : k \in Kind} : DecideLock(c, e, d)
    \/ \E p \in Period : CloseCheck(c, p)

Next ==
    \/ \E c \in Client : Start(c) \/ Continue(c) \/ Crash(c)
    \/ \E p \in Period : ReopenPeriod(p) \/ LockPeriod(p)
    \/ \E k \in Key : ResolveFailure(k)

Spec == Init /\ [][Next]_vars

(* Every statement of a request that was sent is executed: the database    *)
(* serves the waiters of a row lock in the order they came.                *)
FairSpec == Spec /\ \A c \in Client : SF_vars(Continue(c))
-----------------------------------------------------------------------------
Requests == /\ pc \in [Client -> Step]
            /\ job \in [Client -> Job]
            /\ \A c \in Client : JobOK(pc[c], job[c])
            /\ \A c \in Client : job[c].entry # None => st[job[c].entry] # "free"

(* Type correctness: every variable has its type, a row that was inserted  *)
(* carries a key, and a request knows what its next statement works on, a  *)
(* row that was inserted.                                                  *)
TypeOK ==
    /\ st \in [Entry -> {"free", "live", "deleted"}]
    /\ key \in [Entry -> Key \cup {None}]
    /\ \A e \in Entry : st[e] # "free" => key[e] \in Key
    /\ date \in [Entry -> Period]
    /\ status \in [Entry -> Status]
    /\ applied \in [Entry -> BOOLEAN]
    /\ rounded \in [Entry -> BOOLEAN]
    /\ moved \in [Entry -> [Line -> Int]]
    /\ lock \in [Entry -> Client \cup {None}]
    /\ period \in [Period -> {"open", "closed", "locked"}]
    /\ failed \subseteq Key
    /\ Requests

(* c has taken the line on account a out of the balance of its entry, and  *)
(* has not cleared the entry's flag yet.                                   *)
Rewound(c, e, a) == /\ pc[c] \in {"rewind", "clearFlag"}
                    /\ job[c].entry = e
                    /\ a \notin job[c].todo

(* The books balance: a line posted at creation is in its account's        *)
(* balance exactly once while balancesApplied says so and not at all       *)
(* otherwise, except for what a reversal under way has already taken out.  *)
(* (createJournalEntry, applyJournalEntryBalances, reverseAccountBalances) *)
BalancesMatch ==
    \A e \in Entry, a \in Account :
        moved[e][a] = IF applied[e] /\ ~(\E c \in Client : Rewound(c, e, a))
                      THEN 1 ELSE 0

(* The ledger implements DocumentBooks.  What has entered the books: an     *)
(* entry that is not deferred does so when it is inserted, a deferred one  *)
(* when it is applied, and that one never leaves.                          *)
Times == [e \in Entry |-> [a \in Account |-> moved[e][a]]]
Entered == {e \in Entry : st[e] # "free" /\ (~Deferred(key[e]) \/ applied[e])}
Struck == {e \in Entry : st[e] = "deleted"}
Books == INSTANCE DocumentBooks
             WITH Document <- Key, of <- key, times <- Times, entered <- Entered,
                  struck <- Struck
DocumentsBookedOnce == Books!Spec

(* A deferred document is in the books exactly from the decision that      *)
(* posts it on: a voucher once approved, a manual entry once posted.  "A   *)
(* non-approved voucher never affects the ledger" (finance-vendors.ts).    *)
DeferredUntilDecided ==
    \A e \in Entry : st[e] # "free" /\ Deferred(key[e])
        => (applied[e] <=> status[e] = IF KindOf[key[e]] = "voucher"
                                       THEN "approved" ELSE "posted")

(* The requests that are taking an entry out of the books; an entry that   *)
(* was discarded, is in the books and has nobody to take it out.           *)
Reversers(e) ==
    {c \in Client : pc[c] \in {"readFlag", "revGate", "rewind", "clearFlag"}
                    /\ job[c].entry = e}
Discarded(e) == st[e] = "deleted" \/ status[e] = "rejected"
Stranded(e) == Discarded(e) /\ applied[e] /\ Reversers(e) = {}

(* What is deleted or rejected leaves the books, whichever way it was      *)
(* discarded and whatever else is under way, except where the code lets go *)
(* of it: a bare reversal whose connection drops or whose period has been  *)
(* closed, and a rejection in the approval inbox, which reverses nothing.  *)
DiscardedLeaveBooks ==
    [][\A e \in Entry : ~Stranded(e) /\ Stranded(e)' =>
          \/ \E c \in Reversers(e) : Crash(c) \/ (pc[c] = "revGate" /\ ~Open(date[e]))
          \/ \E c \in Client : /\ pc[c] = "decided" /\ job[c].entry = e
                               /\ job[c].to = "rejected" /\ job[c].effect = "none"]_vars

(* Requests that are past a period gate and about to move balances dated   *)
(* in period p.                                                            *)
InFlight(p) ==
    {c \in Client :
        \/ /\ pc[c] \in {"recheck", "insert"}
           /\ PostingDate[job[c].key] = p /\ ~Deferred(job[c].key)
        \/ /\ pc[c] = "decided"
           /\ date[job[c].entry] = p /\ Moves(job[c].entry, job[c].effect)
        \/ pc[c] \in {"rewind", "clearFlag"} /\ date[job[c].entry] = p}

(* A closed period drains: while it stays closed no further request gets   *)
(* past its gates, and once none is in flight its balances are final.      *)
ClosedPeriodDrains ==
    [][\A p \in Period : ~Open(p) /\ ~Open(p)' =>
          /\ InFlight(p)' \subseteq InFlight(p)
          /\ InFlight(p) = {} =>
                \A e \in Entry, a \in Account :
                    date'[e] = p => moved'[e][a] = moved[e][a]]_vars

(* Every request ends: no row lock is leaked and nobody waits forever.     *)
RequestsFinish == \A c \in Client : pc[c] # "idle" ~> pc[c] = "idle"

-----------------------------------------------------------------------------
(* The inductive invariants behind the properties above.  What is said of  *)
(* the rows holds whatever overlaps; what is said of the balances needs    *)
(* the work on accident entries to come one request at a time, and no      *)
(* connection to drop between the updates of a bare reversal.              *)

(* A decision under way holds the row and stands by what it read of it.    *)
HeldRow(c) ==
    LET e == job[c].entry IN
    pc[c] = "decided" =>
        /\ lock[e] = c
        /\ st[e] = "live"
        /\ \E d \in Decisions[KindOf[key[e]]] :
              status[e] \in d.from /\ job[c].to = d.to /\ job[c].effect = d.effect

(* A bare reversal is a reassessment of an accident, or works on a draft   *)
(* that it has deleted.  It finds nothing to reverse in a deferred draft,  *)
(* and nothing takes the entry of an accident back into the books: once    *)
(* its flag was seen clear it stays clear.                                 *)
Reversal(c) ==
    LET e == job[c].entry IN
    pc[c] \in {"readFlag", "revGate", "rewind", "clearFlag", "softDelete"} =>
        /\ IF job[c].delete
           THEN KindOf[key[e]] = "accident"
           ELSE pc[c] # "softDelete" /\ st[e] = "deleted" /\ status[e] = "draft"
        /\ pc[c] \in {"revGate", "rewind", "clearFlag"} => ~Deferred(key[e])
        /\ pc[c] = "softDelete" => ~applied[e]

FreeRows == \A e \in Entry :
    st[e] = "free" => ~applied[e] /\ status[e] = "draft" /\ key[e] = None
UniqueLive == \A e, f \in Entry : st[e] = "live" /\ st[f] = "live" /\ key[e] = key[f] => e = f

RowInv ==
    /\ TypeOK
    /\ \A c \in Client : HeldRow(c) /\ Reversal(c)
    /\ FreeRows /\ UniqueLive
    /\ DeferredUntilDecided

Serialised == /\ \A c, d \in AccidentDesk : c = d
              /\ CrashAt \cap {"rewind", "clearFlag"} = {}

(* Whoever works on the entry of an accident is of the desk, and a bare    *)
(* reversal past its first read works on an entry that is still applied.   *)
Handling(c) ==
    LET e == job[c].entry IN
    pc[c] \in {"decided", "readFlag", "revGate", "rewind", "clearFlag", "softDelete"} =>
        /\ MayHandle(c, e)
        /\ pc[c] \in {"revGate", "rewind", "clearFlag"} => applied[e]
        /\ pc[c] = "clearFlag" => job[c].todo = {}

(* No two bare reversals work on one entry.                                *)
SoleReverser == \A e \in Entry : \A c, d \in Reversers(e) : c = d

BooksInv == BalancesMatch /\ SoleReverser /\ \A c \in Client : Handling(c)
LedgerInv == RowInv /\ BooksInv

-----------------------------------------------------------------------------
(* What the comments of the code say and the code does not keep.           *)

(* "Prevent posting to closed periods": no step moves the balances of an   *)
(* entry dated in a period that is not open.                               *)
NoMovementInClosedPeriod ==
    [][\A e \in Entry, a \in Account :
          moved'[e][a] # moved[e][a] => Open(date'[e])]_vars

(* "The flag also makes a double reversal a no-op": no line is taken out   *)
(* of a balance it is not in.                                              *)
NoDoubleReversal == \A e \in Entry, a \in Account : moved[e][a] >= 0
=============================================================================
