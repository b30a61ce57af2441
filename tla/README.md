# Formal model of the Ghayth ERP back end

TLA+ modules, TLC configurations and TLAPS proofs about the API server
(`artifacts/api-server`). The repository is a multi-tenant ERP in TypeScript:
an Express server over PostgreSQL, with scheduled jobs in the same process and
browser and mobile front ends. This project concentrates on the parts in which
several requests and jobs change the same rows, because that is where the
server's rules can break without a unit test noticing.

Paths below are relative to `artifacts/api-server/src/`. `PROJECT.json` maps
every modelled definition to its lines, lists every component, every hazard with
the properties that watch it, every run and every theorem.

## 1. The system and its components

How everything meets: a request runs on a pooled PostgreSQL connection.
`withTransaction` (`lib/rawdb.ts`) groups statements, and `rawQuery` /
`rawExecute` called outside it commit one statement at a time. Several defects
and most of the modelling hinge on that difference: **a `FOR UPDATE` issued
outside a transaction is released when its own statement ends.** Components call
each other's functions directly; the event bus is in-process and used for
notifications and logging; shared state is the database.

| Component | State | Operations | Hard part | Status |
|---|---|---|---|---|
| General ledger: posting, decisions, reversals, periods | `journal_entries`, `journal_lines`, `chart_of_accounts.currentBalance`, `financial_periods`, `financial_posting_failures` | `postJournalEntry`, `createGuardedJournalEntry`, expense / voucher / manual / accident routes, `reverseAccountBalances`, `softDeleteJournalEntry`, `appendRoundingAdjustment`, period close / reopen / lock | stale gates, bare reversals, deletions that take any draft, same key twice, lost connections | **Ledger**, refining **DocumentBooks** |
| Leave requests | `hr_leave_requests`, `leave_approval_stages`, `hr_leave_balances`, `workflow_instances` | submit, approve, reject, return, escalate, cancel, delete, terminate; workflow actions and SLA; overdue job; closing of ended leaves | five writers of one status, decisions from stale reads, crashes between autocommitted statements | **Leave** |
| Job scheduler | `cron_locks`, `cron_jobs.isActive` | acquire, heartbeat, release, trigger, switch off | a lock with a time to live, replicas that die, statements that fail | **CronLock** |
| Approval chains | `approval_requests` and the document's status | `initiateApprovalChain`, `processApprovalStep` from routes, inbox and hourly job | look up, mark and insert in three statements, no lock, failures taken for answers | **ApprovalChain** |
| Document numbering | `numbering_counters`, `numbering_assignments` | issue, withdraw, override, reset, lock, import | rollback of a counter others wait for, late writes of administrators, imports | **Numbering** |
| Payroll runs and dues | `payroll_runs`, six tables of dues, their two journal entries | create, approve, post, delete; approve, withdraw, recompute a due | dues read long before they are marked, status checked long before it is written | **Payroll** |
| Manual journal v2 | same rows as the ledger, second status column | draft, submit, approve, post, reverse | two sets of routes decide one row | planned |
| Posting-failure retry; recurring, prepaid and deferred postings | failure rows, schedules | retry a posting, resolve the failure | retry of what was already done | later |
| Event bus and dead letters | in memory, `event_dlq` | emit, retry, park | a process that exits | later |
| ZATCA queue, inventory lots, telematics breaker, print queue | a table or a map each | claim, retry, expire, trip | small | later |
| Rules, KPI, journey, obligation and alert engines | derived rows | evaluate | they observe what others own | not modelled |
| Identity, permissions, sessions, rate limits | users, roles, tokens | authorise | decides who may call, never what a call does | not modelled |
| Domain CRUD (fleet, property, projects, CRM, Umrah, ...) | a table each | mostly one statement | money goes through the ledger functions | not modelled |
| VAT, WPS, Mudad, FX, algorithms | none | decimal arithmetic, file layouts | covered by unit tests; no concurrency | not modelled |
| Front ends, schema and migrations | - | - | constraints the models rely on are named below | not modelled |

What makes them correct, in one line each:

* ledger: an entry is in the balances exactly once while `balancesApplied` says
  so; a document is posted once per key; what is rejected or deleted leaves the
  books, but where the code lets go of it; closed periods drain; requests end;
* leave: the balance covers what is waiting and granted and never exceeds the
  entitlement; a decision is final; workflow, request and stages agree; a request
  is decided in the end;
* scheduler: at most one run of a job at a time, and an active job keeps running;
* approval chain: no step is skipped, a document is approved after its whole
  chain, and no row that the job may approve waits for ever;
* numbering: no value twice and none lost, withdrawn numbers stay withdrawn, a
  locked counter is quiet, and requests end;
* payroll: one live run per month, no due paid twice, stamps that can be trusted,
  books that follow the runs, one settlement per month.

## 2. Ledger

### State

`st`, `key`, `date`, `status`, `applied` are columns of `journal_entries`;
`rounded` says that a line on account 9999 was appended; `period` is the status
of each fiscal period; `failed` holds unresolved posting failures; `lock` is the
transaction that holds a row. `currentBalance` is changed by relative updates
only, so instead of an amount the module keeps `moved[e][a]`, how many times the
line of entry `e` is included in the balance of `a`: 1 is right for an applied
entry, 0 for another, anything else is a wrong balance. The amounts drop out
without losing a double or a missing movement.

`pc[c]` and `job[c]` are a request: its next statement and what it has read.

### Actions

A handler that runs in `withTransaction` is one or two actions (reads, locks and
checks; then everything it commits). A handler without a transaction has an
action per statement, and other requests run between them:

* posting (`PostLookup`, `PostGate`, `PostRecheck`, `PostInsert`, `PostRejected`,
  `PostOverride`) - `postJournalEntry` with the `createJournalEntry` in it: two
  look-ups of the key, the period gate, the insert that the partial unique index
  may refuse, the header override that follows;
* decisions (`DecideLock`, `DecideCommit`) - `applyTransition` with its `onApply`
  hook, and what else locks the row and commits with it; the table `Decisions` lists,
  by kind of document, from which states a decision is taken, what state follows and
  whether balances are applied or reversed. `DELETE /expenses/:id` takes any draft
  entry, of every kind (`DraftDeletion`); the approval inbox and the hourly job set
  the status of an expense and nothing else (`InboxDecisions`);
* bare reversal (`DeleteVoucher`, `Reassess`, `ReadFlag`, `RevGate`, `Rewind`,
  `ClearFlag`, `SoftDelete`) - one update of `chart_of_accounts` at a time.
  `DELETE /vouchers/:id` too takes any draft entry, an applied expense or the entry of
  an accident included, and has deleted it before the period gate may refuse the
  reversal;
* rounding (`RoundRead`, `RoundInsert`, `RoundRoute`);
* periods and failures (`CloseCheck`, `CloseCommit`, `ReopenPeriod`, `LockPeriod`,
  `ResolveFailure`);
* `Crash` - a dropped connection, which rolls back the open transaction only.

### Runs

| Run | Instance | What it shows |
|---|---|---|
| `ledger_applied` | 2 requests, 2 entries, an expense key and an accident key, 2 accounts, 1 period | `BalancesMatch`, `DiscardedLeaveBooks`, `DocumentsBookedOnce` (the refinement of `DocumentBooks`), `TypeOK` |
| `ledger_row` | 2 requests, 1 row, all four kinds of document, 2 periods, fair | `DeferredUntilDecided`, `ClosedPeriodDrains`, `RequestsFinish` (nobody leaks a row lock or waits forever); deadlock is checked |
| `ledger_closed_period` | violation | a close between the gate and the insert is posted into |
| `ledger_double_reversal` | violation | the entry of an accident is reversed twice, by two reassessments or by one and the deletion of the draft |

`DiscardedLeaveBooks` names the only steps that strand an entry, that is, leave it
deleted or rejected, applied, and with no request under way to take it out: a bare
reversal whose connection drops, one that the period gate refuses after the
deletion, and a rejection in the inbox. Every other way to discard an entry, and
every other step of any request meanwhile, takes it out of the books. The three are
places where the code goes wrong (section 8): without the disjunct that names it, TLC
finds the property violated by each. The property says that there is no fourth.

`NoMovementInClosedPeriod` is what the comments promise and the code does not
keep. `ClosedPeriodDrains` is the part it does keep: while a period stays closed
no further request passes a gate, and once the requests already past it are done
its balances are final. Rounding is left out of `InFlight` and of the accounts
the property ranges over, since the rounding route has no gate at all.

Two mistakes of single requests are modelled and have no run: the rounding route
moves account 9999 once more after the engine has moved it
(`routes/finance-algorithms.ts:2513`), so no property ranges over that account;
and request-attachment returns an expense and leaves it in the balances
(`routes/finance-journal.ts:2452`), so `DiscardedLeaveBooks` speaks of rejected and
deleted entries only.

`DocumentBooks` is the abstract promise: an entry belongs to one document for good,
enters the books at most once in its life and with all its lines, only while no
other entry that stands for the document has a line in them, and each line leaves
them at most once. An entry that is struck off stands for its document no longer and
never enters; its lines leave with it, or later. The mapping takes `key` for the
document, `moved` on the accounts an entry is created with for the lines, and
computes what has entered: an entry of a kind that is not deferred when it is
inserted, a deferred one when it is applied. That an expense which a return took out of the books never comes back is part of the claim.
What is struck off is what is deleted, and a bare deletion is why its lines may
leave later: the key of the document is free as soon as the row is deleted, and the
replacement enters while the old entry is still being rewound.

**Bounds.** Two requests show every pairwise interleaving, which is what each
property can be violated by; two entries are an entry and its replacement under
the same key; two accounts let a reversal stop halfway. The two kinds of
`ledger_applied` are those that are in the books from the start and can be reversed.
One period is enough there: it closes and reopens between any two statements, so
every gate passes and refuses, and the properties do not compare periods.
`ledger_row` has two, since `ClosedPeriodDrains` does; it gives the deferred kinds, one
row at a time, since rows interact only through a shared key. Each entry takes at
most one rounding line (guard of `RoundRead`).

**Assumption `Serialised`.** `AccidentDesk` are the clients whose requests work on the
entries of accidents: that reassess one, or delete its draft by either route.
`CrashAt` are the steps at which a connection may drop. `ledger_applied`, and the
theorems about the balances, have a desk of one, which takes one request at a time,
and connections that drop anywhere but between the updates of a bare reversal. (The
runs have none drop at its gate either: the step could not be told from a refusal, and
a drop one statement earlier leaves the same rows. The theorems admit it.) Both
halves are needed: with a desk of two an entry is reversed twice
(`ledger_double_reversal`), and a connection lost between two updates leaves an
entry half reversed and marked applied, so that the next reversal rewinds the first
account once more (one client and `CrashAt = Step` are enough for TLC to find
`NoDoubleReversal` violated); that of a deleted expense stays half reversed for ever. The assumption is therefore the condition under which the
balances are right, not a convenience; what is said of the rows, of what is discarded
and of closed periods is proved without it.

**Fairness.** `FairSpec` is strong fairness of the next statement of each
request. A statement may wait for a row lock that others take and release again
and again; PostgreSQL queues the waiters of a row, so one that keeps becoming
possible is served. Nothing is assumed about requests being sent, periods
reopened or failures resolved.

### Proofs

`LedgerProofs` is for any number of requests, entries, keys, accounts and periods.
`TypeCorrect == Spec => []TypeOK` is proved by a step per action. The rest is in two
layers, each with its inductive invariant.

**The rows** - without any assumption: any number of clients at the desk, any
connection may drop at any step.

* `RowInvariance` - `RowInv` is invariant;
* `DeferredDocuments` (`DeferredUntilDecided`);
* `DiscardedDocuments` (`DiscardedLeaveBooks`) - a step that strands an entry either
  discards it or ends its reversal (`DiscardingSteps`); a decision that discards
  reverses as well, unless it is the inbox's (`DecisionsDiscard`); and a reversal goes
  on to the next statement, or has cleared the flag when it ends (`ReversalGoesOn`);
* `ClosedPeriodIsFinal` (`ClosedPeriodDrains`) - what is left when a period closes
  drains, and nothing follows it.

A decision commits what it read when it locked, so `HeldRow` records that the row
cannot have changed since. A bare reversal holds no lock, so `Reversal` records why
its last read can be trusted all the same: it works on the entry of an accident or
on a draft that it has deleted, and nothing takes either back into the books. A
deferred draft has nothing to reverse, by `DeferredUntilDecided`. `UniqueLive` is the
unique index.

`ClosedPeriodIsFinal` needs one more conjunct, `Overrides`: the header override of
`postJournalEntry` never touches an accident entry. The date of an entry in the
hands of a decision cannot change because the override waits for its row lock,
and that of an entry being rewound because it is an accident's or deleted, and the
override passes a deleted row by (`OthersRest`). `OwnFlight` then says that a request
gets in flight through an open gate only, `MoverInFlight` that whoever moves a
balance is in flight.

**The balances** - under `Serialised`.

* `Invariance` - `LedgerInv`, which is `RowInv` and `BooksInv`, is invariant;
* `BooksBalance` (`BalancesMatch`);
* `NoDoubleReversalIfSerialised` - without the two overlaps the assumption excludes, no
  line is taken out of a balance it is not in;
* `LedgerImplementsBooks` (`DocumentsBookedOnce`) - the refinement, step by step: an
  insert is `Enter` or, when deferred, `Record`; a decision is `Enter`, `Leave` of every
  line or nothing; a deletion is `Strike`, with every line in one transaction and with
  none through the voucher route; a rewound line is `Leave`; the rest does not show.

`BooksInv` adds to `BalancesMatch` that whoever works on an accident's entry is of the
desk and that an entry being rewound is still marked applied (`Handling`), and that
no two bare reversals work on one entry (`SoleReverser`); `Alone` concludes that
nobody else changes the balances of that entry. A draft that is not an accident's has
one reverser without the assumption, since it is deleted once. For the refinement,
`DocumentAbsent`: while no live entry of a key is applied, no entry of the key has a line
in the books but those that are struck off.

Only TLC: `RequestsFinish` (liveness).

### Left out of the ledger

The reverse route that posts a mirrored entry (`/journal/:id/reverse`), the editing of
a voucher, the v2
manual journal, budgets (a replayed expense reserves its budget twice, recorded
as a hazard), subsidiary accounts, amounts and dimensions. A status of
`pending_approval` is admitted wherever `draft` is and not told apart. The
blockers of a close are reduced to open posting failures; the others read tables
of components that are not modelled. Locks on accounts are not modelled: a
deadlock between two entries that share accounts ends in a rollback of one.

The kinds of document are four. Other callers of the same functions work on entries
of other kinds: the deletion of payroll runs (in **Payroll**), opening balances
(`routes/finance-journal.ts:4437`), invoices (`routes/finance-invoices.ts:2433`, `2582`),
rejected custodies and salary advances.

The workflow engine sets `journal_entries.status` when an instance about one ends
(`lib/workflowEngine.ts:120`) and moves no balance. No route of the ledger submits an
entry to it; the general `POST /workflows/submit` can, for a company with a workflow
definition for entries. It is left out: with it a voucher would be approved and not
in the books, `DeferredUntilDecided` would be false. It is listed as a hazard.

## 3. Leave

### State

`status` and `deleted` are columns of `hr_leave_requests`; `stages[r]` is the
sequence of rows of `leave_approval_stages` in order of id, each with a stage
number and a status of which all readers only tell pending, approved and the rest
apart; `used` and `reserved` are the employee's balance row, shared by all
requests; `wf` is the workflow instance. `pc` and `job` are a handler: an HTTP
request (`Staff`) or a run of a job (`Worker`).

### Actions

* `Submit`, and `SubmitWorkflow` which nobody waits for;
* decisions of `PATCH /leave-requests/:id/approve`: `BeginDecision` and
  `ReadStage` read without locks, `RejectOrReturn` is one transaction,
  `ApproveStage` and `ApproveFinal` are two;
* `Escalate`; `BeginCancel` and `Cancel`, which gives back days according to the
  status it read first; `Delete`; `Terminate`, the cascade of an ended employment;
* `leaveEscalationCheck`: `CronRead` takes the snapshot, `CronApprove` handles one
  overdue stage of it; `leaveReturnToWorkClosure`: `CloseRead`, `CloseWrite`;
* the workflow engine: `BeginAction`, `Advance`, and the autocommitted
  `Propagate`, `PropagateBalance`, `PropagateStages`, `FinishAction`; the SLA sweep
  `SlaRead`, `SlaApprove` in one transaction;
* `Refused`, `CancelRefused` - `applyTransition` finds another status; `Crash`.

### Runs

| Run | Instance | What it shows |
|---|---|---|
| `leave_books` | 2 requests sharing a balance of 2 days, 2 clients, a chain of 1 step, symmetry on requests | `Covered`, `NotOverdrawn`, `DecidedStays`, `TypeOK` |
| `leave_progress` | 1 request, chain and workflow of 2 steps, all routes but escalation overlapping freely, fair | `WorkflowNotAhead`, `PendingIsActionable`, `EveryRequestDecided` |
| `leave_deleted` | violation | the overdue job approves and charges a deleted request |

**What the constants exclude, and why.** `Routes` are the handlers an instance
exercises, `Alone` those that overlap no other handler of the same request, and
`MayCrash` those that may die between statements. The exclusions are not for size
(but for one, the last in this list): each stands for a place where the code does
go wrong, TLC finds a violation when it is lifted, and the run shows what holds
apart from it.

* `"cancel" \in Alone`: `Cancel` chooses between used and reserved days by a status
  read before the lock. Approve in between, and it releases reserved days that are
  no longer there and leaves the used ones.
* `"cron" \in Alone`: `CronApprove` updates by id whatever the status has become, so
  a request rejected after the snapshot is approved and charged. The closing job,
  equally unguarded, only overtakes cancellations, which `Alone` keeps apart. The
  lock of the scheduler (section 4) keeps runs of one job apart, not a job and a
  request.
* no `"delete"` in `leave_books`: `applyTransition` does not look at `deletedAt`, so
  a decision read before a deletion releases the reserved days a second time.
* `MayCrash`: in `leave_books` an approval may die after its first transaction; a
  workflow action that dies between status and balance would leave the days
  uncharged. In `leave_progress` it is the other way round: an approval that dies
  between its two transactions leaves a pending request with no pending stage.
* no `"escalate"` in `leave_progress`: a stage marked escalated counts as unapproved
  for ever, so `EveryRequestDecided` is violated and the request has no pending
  stage left, although the job announces its approval (`lib/cronScheduler.ts:756`).
* no `"return"` and no `"wfReturn"` in `leave_books`, for size only: a return does to
  the balance what a rejection does, and a workflow return does nothing to it. With
  both and a chain of two steps the run passes too, in 8.8 million states.
  `leave_progress` has the returns and the chain.

Every one of these is listed as a hazard at its line.

**Bounds.** Two requests are the smallest number that share a balance; two clients
give each pair of overlapping handlers; one of them may also be a job. The
entitlement is 2 with 0 to 2 days used before, so that the second request may or
may not fit. `leave_books` has a chain of one step, where escalation still
adds a second row; the two steps of `leave_progress` make a row appear after the
first stage. `RowLimit` bounds the rows of a request.

**Fairness.** Weak fairness of each handler's next step: no statement of this
module waits for another client. For each stage row, strong fairness of its being
in the snapshot of a run (the job runs hourly and a row that stays pending 28
hours is overdue) and of being handled once it is in one (a run may die before it
reaches the row; not every run does). Nothing is assumed of the staff.

### Proofs

`LeaveProofs` proves `LeaveTypeCorrect == Spec => []TypeOK` without any assumption
on `Routes`, `Alone` or `MayCrash`. To be inductive the type invariant says that a
handler works on a submitted request and that the stage rows it remembers still
exist; the lemmas `DataOK` and `HandlersOK` carry that over each action, using
that stages never shrink.

`LeaveFlow` proves three properties.

* `WorkflowFollows == Spec => []WorkflowNotAhead`, for every instance again: crashes
  and overlaps of all handlers included. The strengthening `FlowInv` adds `LateOK`: a
  workflow action past its status update works on a request that is no longer
  pending. It survives other handlers because a status never returns to pending
  (`StatusForward`); and the instance is closed only by a handler at that point, by
  the SLA sweep in the same transaction, or was closed already (`InstanceForward`).
* `WaitingIsActionable`, under `Unescalated` (nobody escalates and no approval dies
  between its two transactions): `Spec => []PendingIsActionable`. `ActionInv` adds to
  the property that a request which is not decided has no closed stage (`OpenRows`)
  and that only an approval stands between the two transactions (`Kinds`).
* `DecisionsAreFinal`, under `JobsAlone` (no run of the two jobs overlaps another
  handler of the request it writes): `Spec => DecidedStays`. `JobsInv` says that a job
  and another handler never work on one request (`OneHandler`), that what a job read
  is therefore still true (`StillTrue`), and which rows a run holds (`RowsOfCron`).
  In `leave_books` the closing job is not in `Alone` and the property holds all the
  same, since the cancellations, which it would overtake, are.

`LeaveBooks` proves the two properties about the balance, for any number of requests
that share it and any `Days`, under `BooksKept`: nothing is deleted, cancellations and
the overdue job are in `Alone`, and no workflow approval dies before it has charged
the days. `leave_books` satisfies it, with room to spare: returns, longer chains and
crashes of every other handler are covered as well.

* `BalanceCovers == Spec => []Covered` and `WithinEntitlement == Spec => []NotOverdrawn`.

`HandsInv` says who may hold a request and what a handler that acts on an earlier read
can rely on: whoever cancels, and the overdue job, have it to themselves
(`OwnRequest`), and what they read is still so (`ReadHolds`). On top of it `BooksInv`
accounts for the gap between the two transactions of the workflow engine: the
reserved days cover what waits and what is decided but not settled (`Owed`), the used
ones together with what is approved and not charged yet (`Uncharged`) cover what is
granted, and no request is settled by two handlers (`OneSettles`).

Both are about sums over sets of requests, which `Total` computes with a recursive
function. The first section of the module derives their laws once: the function
exists and is the only one with its defining equations (`SumsExist`, `SumsUnique`,
each by a smallest counterexample, `Smallest`), a request taken out takes its days
with it (`TotalWithout`), and a larger set has at least the sum of a smaller one
(`TotalMonotonic`). It needs that there are finitely many requests, which
`LeaveAssumption` says.

`Unescalated` and `BooksKept` are met by the runs, and each bullet of the list above
says what goes wrong without the assumptions. Only TLC: `EveryRequestDecided` (liveness).

### Left out of leave

The generic PATCH of a request, referring a workflow instance to somebody else,
the exit cascade, attendance rows, tasks and notifications. Role checks are not
modelled: every caller the state admits is let in.

## 4. Job scheduler

### State and actions

`lock[j]` is the row of `cron_locks` of job `j`: its owner and, counted down, the time
until it expires. `run[r]` is a run of a job in a process, with the time by which
its next heartbeat must have been executed and how many have failed in a row;
`alive` is the processes that have not died; `active` is `cron_jobs.isActive`.

* `Check` and `Trigger` begin a run by schedule or by hand, the latter without
  asking whether the job is active; `Acquire` is the upsert that succeeds when there
  is no row or an expired one; `Skip` is "not acquired", which is also the answer
  when the statement fails; `AnswerLost` leaves a row that nobody will release;
* `Renew` and `MissBeat` are the heartbeat, `Finish`, `Release` and `ReleaseFailed` the
  end of a run; renewing and releasing go by owner, which is the **process**;
* `SetActive`, `Crash` (a successor draws a new owner) and `Tick`, which lets time pass
  as long as no heartbeat or release is overdue.

### Run and what it assumes

`cron_lock`: a replica that survives and one that may die; two runs of one job in
the first and one in the second, so that runs overlap within a process and across;
a second job. `TypeOK`, `AtMostOneRun`, `LockOutlivesRun` and
`JobKeepsRunning`.

`TTL = 5` and `Beat = 1` are the minutes of the code (`LOCK_TTL_MINUTES`,
`LOCK_HEARTBEAT_MS`), with `Late = 1` and `Misses = 1`. The runs and theorems assume `Timely == (Misses + 1) * (Beat + Late) <= TTL`: the heartbeats that
may fail one after another, each as late as a timer may be, fit into the life of
the lock. The code bounds neither (`lib/cronScheduler.ts:182` swallows the failures),
although the comment above it says that the lock of a live job never expires. One
more failure than `Timely` admits and TLC finds two runs of one job.

**Fairness.** Time passes, timers fire, handlers end. Strong fairness of `Check` and
`Acquire` for the runs of a process that survives: its schedule fires again and
again while the lock is free, and its statements do not fail for ever.

### Proofs

`CronLockProofs` proves for any number of processes, runs and jobs
`CronLockTypeCorrect` (`TypeOK`, whether `Timely` holds or not) and, under `Timely`:
`MutualExclusion` (`AtMostOneRun`) and `LockHeld` (`LockOutlivesRun`). The invariant is `AllKept`: the lock
of a live run belongs to its process and has at least `Reserve` left, the time the
run needs to lose all the beats it may still lose; with `OneHolder` this makes
another acquisition impossible, in the same process as well. Only TLC:
`JobKeepsRunning` (liveness).

Left out: the counters and log rows of a run, and what the jobs do, of which
`Leave` and `ApprovalChain` have three.

## 5. Approval chains

### State and actions

One document of the HR routes (a loan, an overtime or an exit request): `doc` is its
status, `rows` its rows of `approval_requests` in order of creation, `chain` whether
`initiateApprovalChain` has run, `task` each handler. `processApprovalStep` is three
statements outside any transaction: `LookUp` of the latest pending row, `MarkApproved`
or `MarkRejected` by id, `InsertNext`. It is called by `PATCH /approve` and
`PATCH /reject` (`BeginRoute`), by the inbox (`BeginInbox`) and by the hourly job for a
step with `autoApproveOnTimeout` (`BeginCron`). `Fail` is a statement that fails,
`AnswerLost` one that takes effect and answers with an error, `Crash` a process that
dies; `CancelRows` and `CancelLoan` are the end of an employment.

The function answers "approved" after the last step, and also when it finds no
pending row; `PATCH /approve` takes an error for "approved" as well
(`routes/hr-loans.ts:540`).

`slipped` is not a variable of the program. It records that one of six known ways
round the chain was taken, so that `WholeChain` can ask whether there are others:

1. the document is decided before the chain has its first row;
2. a look-up falls into the gap between a mark and the row of the next step;
3. a failure of the call is taken for an approval;
4. a handler dies or fails in the gap, and no row follows;
5. a step is rejected although the document is not (the inbox does not update it);
6. an approver leaves and the pending rows are cancelled with nobody asked instead.

### Run

`approval_chain`: two people on the routes, one of them in the inbox too, and a run of
the hourly job, on a chain of two steps which the job may both approve.
`TypeOK`, `NoStepSkipped`, `WholeChain`, `NothingWaitsForEver`. Two steps give a gap and
a last step; three handlers are an approval, a rejection and the job in one gap.

**Fairness.** A run of the hourly job goes on, fails or dies (weak fairness); the job
is started hour after hour, and not every run fails or dies before its look-up and
its mark (strong fairness of `BeginCron`, `LookUp` and `MarkApproved` over the runs).
Nothing is assumed of the people.

What the module shows beside its properties: neither the inbox nor the job ever
updates a document of these kinds, although a comment of the job says that its path
must mirror the route (`lib/cronScheduler.ts:1080`). The document stays pending after
its chain has ended, and the next `PATCH /approve` finds no pending row and approves
it, even when the inbox rejected the step. The job approves the latest pending row
of the document, which may be a fresh one that is not automatic.

### Proofs

`ApprovalProofs`, for any number of handlers, any length of the chain and any choice
of automatic steps: `ApprovalTypeCorrect`, `StepsInOrder` (`NoStepSkipped`) and
`NoOtherWayRound` (`WholeChain`). The invariant `ChainInv` adds that the row in the
hands of a handler in the gap stays decided (`InHand`), and that as long as nothing
slipped an unfinished chain shows: a row is pending, a handler is in the gap, or the
last step is approved (`Alive`). A look-up that finds nothing therefore comes after
the last step, and `NoStepSkipped` gives the steps before it. Only TLC:
`NothingWaitsForEver` (liveness).

Left out: who may decide, reminders, chains defined in the workflow engine (no
company has one unless it makes it), and the documents whose routes combine the
chain with something else: purchases, custody, letters, expenses, Umrah plans.

## 6. Numbering

### State and actions

One scheme of one company: `counter` is its rows of `numbering_counters`, each with the
transaction that holds it; `row` is `numbering_assignments`, named after the request
that issues the number, or after the old document and the administrator who imports
it; a row of an open transaction is `pending`, seen by the unique index alone.

* `issueNumber`: `Allocate` (bump and insert), `Refuse` (locked counter), `Collide` (the
  number exists, everything is rolled back), `Retry`; then `Commit` or `Rollback`, and
  `InsertDocument` for the routes that commit the number on its own;
* administrators, each of whom reads and checks first and writes in a later
  transaction: `ReadForVoid` / `VoidNumber`, `ReadForOverride` / `OverrideNumber`,
  `ReadForReset` / `ResetCounter`, `ReadForBackfill` / `Backfill`; and the single update
  `ToggleLock`.

### Runs

`numbering`: two requests on a branch's counter, one inserting its document in the
transaction that issues the number and one after it; a third on the scheme's own
counter, into which an old document is imported and whose second number an
administrator may type; a spare counter that may be reset. `TypeOK`, `Gapless`,
`LockedIsQuiet`, `NeverCollides`, `VoidIsFinal`, `RequestEnds`. Two values per counter are
a number and its successor, which is what a rollback, a ratchet and a typed number
can get wrong by one. `Top` bounds the values.

`numbering_retry` is a violation, see section 8.

**Fairness.** A request that has started takes its next step, and a caller told to
try again does so. Administrators need never act. `RequestEnds` is claimed for
counters that nobody resets or types numbers of (`Clean`).

`Gapless` is about numbers, not documents: a route that commits the number alone and
fails afterwards leaves an assigned number without a document
(`routes/finance-invoices.ts:820`, `routes/fleet.ts:2768`, `routes/warehouse.ts:1234`,
`routes/legal.ts:235`). An override decided before a withdrawal and written after it
still retypes the number; what holds is that it stays withdrawn.

### Proofs

`NumberingProofs`, for any number of counters, requests, old documents and
administrators: `NumberingTypeCorrect` (`TypeOK`), `NoGapNoRepetition` (`Gapless`),
`LockIsQuiet` (`LockedIsQuiet`),
`WithdrawnForEver` (`VoidIsFinal`) and `NoDrift` (`NeverCollides`). `BookInv` ties a
request that holds a counter to its row (`Owned`) and says that a counter is above
its rows, and above the others' by more than one while one transaction holds it
(`Below`): rolling back undoes exactly one bump. `NoDrift` assumes `CleanNumbers`: the
pattern tells the values of a counter from every other's, and an old document with a
number of a counter is imported into that one. Schemes with a counter per branch or
year break the second half, which is `numbering_retry`. `WithdrawnForEver` adds that an
import which is planned has none of its rows yet (`Fresh`). Only TLC: `RequestEnds`.

Left out: `reserveNumber`, `assignReservedNumber` and `assertNumberingAssignment`, which
nothing calls; edits of a scheme; previews; the gate on the document's status, which
can only refuse an administrator; the audit log.

## 7. Payroll

### State and actions

`run[r]` is a row of `payroll_runs` with the dues its lines count; `item[i]` is a due
(commission, driver's hours, movement bonus, attendance deduction, loan installment,
overtime) with its status and its stamp `payrollLineId`; `accrual` and `payment` are the
runs whose two journal entries are in the books.

* `Begin`, `Read` per kind in the order of the code, and `Create`, one transaction under
  an advisory lock that checks again for another run, inserts the lines, posts the
  accrual and marks the dues (`Marked`): three kinds by id with a stamp, three kinds
  by month; `Abandon` is every way to fail;
* `StartRequest` reads and checks a run for `ApproveRun`, `PostRun` and `DeleteRun`, which
  write later: approving does not look at the status again, posting does, deleting
  does not; `GiveUp`;
* `Approve`, `Withdraw` and `Recompute` are the lives of the dues.

### Run

`payroll`: two clients create runs of two months and two keep them; a commission of one
month, a deduction of the other, a bonus that any run may take; symmetry.
`TypeOK`, `OneLiveRun`, `PaidOnce`, `Traceable`, `LedgerFollowsRuns`, `CountedIsNotDue`,
`SalariesPaidOnce`. Two runs of a month that are deleted and made again are the
smallest story in which a due can be paid twice; there are no more rows than that.
No liveness: nothing in a payroll run happens by itself.

**`Apart`.** In the run, approvals and deletions overlap no other request of a keeper.
With `Apart = {}` TLC finds `SalariesPaidOnce` violated (a run approved on a stale status
is reopened after it was posted, deleted, made again and settled again) and
`CountedIsNotDue` as well (a second deletion, which read the run before the first one,
gives back what the run made in between counts). The other properties hold without it.

The code goes wrong in three more ways, recorded as hazards and excluded from the
properties: two overlapping runs of different months both count one bonus; the sweep
marks a due as paid that was approved after the read and is on no line; the deletion
of a run gives back installments and overtime by a stamp that creation never sets,
and commissions, hours and bonuses not at all.

### Proofs

`PayrollProofs`, for any number of clients, runs, months and dues: `TypeCorrect`
(`TypeOK`, and the run a request of a keeper works on exists), `OneRunPerMonth`,
`NoDuePaidTwice` (`PaidOnce`), `StampsAreTrue` (`Traceable`), `BooksFollowRuns`
(`LedgerFollowsRuns`) without assumption; `MonthSettledOnce` (`SalariesPaidOnce`) and
`CountedIsConsumed` (`CountedIsNotDue`) under `KeptApart`, which is `Apart` of the run.
`RunInv` adds that runs and drafts hold dues of their own month: with one live run
per month that is why none is counted twice. The last two use `Fresh`: what a request
of a keeper read still holds when it writes. Every property of the run is proved.

Left out: amounts (caps of deductions, social insurance, withholding), loan totals,
employees without a line, runs whose net is not positive, gates that can only refuse
(attendance, period, maker is not checker), the bank file, obligations and events.

## 8. Findings

Each has a run that exhibits it; the quotations are in `PROJECT.json`.

1. `lib/businessHelpers.ts:588` - the period gate is a plain read, and a close in
   between is posted into (`ledger_closed_period`).
2. `lib/engines/fleetEngine.ts:160` - a reassessment reverses outside a transaction, where
   a row lock lasts for one statement; another reassessment, or a deletion of the draft
   by either route, rewinds the entry as well (`ledger_double_reversal`).
3. `lib/cronScheduler.ts:611` - the overdue job approves deleted leave requests
   (`leave_deleted`).
4. `lib/numberingService.ts:422` - a caller refused for a number that exists is told
   to try again and computes the same number again, because the rollback undoes the
   bump; an import into a scheme with a counter per branch leads there
   (`numbering_retry`).

Four more disagreements of the ledger with its comments have no run. The
model takes them all; `DiscardedLeaveBooks` or `Serialised` name the first three:
`DELETE /vouchers/:id` deletes an applied draft before the period gate refuses its
reversal (`routes/finance-journal.ts:3235`; `lib/businessHelpers.ts:919` calls the bare
callers harmless), a connection drops between two accounts of a bare reversal
(`lib/businessHelpers.ts:955`; `:911` says that the flag makes a second reversal a
no-op), an expense rejected in the approval inbox stays in the books
(`routes/hr.ts:4544`; `routes/finance-journal.ts:2358` says that a rejected expense must
leave them), and request-attachment does the same to a returned one
(`routes/finance-journal.ts:2452`).

What else goes wrong in fewer steps, or without a text that promises otherwise, is in
the hazards, in `slipped` and in the assumptions named above.

## 9. How to run

    tlc -config LedgerApplied.cfg MCLedger
    tlc -config LeaveBooks.cfg MCLeave
    tlc -config CronLock.cfg MCCronLock
    tlc -config ApprovalChain.cfg MCApprovalChain
    tlc -config Numbering.cfg MCNumbering
    tlc -config Payroll.cfg MCPayroll
    tlapm LedgerProofs.tla        (and LeaveProofs, LeaveFlow, LeaveBooks,
                                   CronLockProofs, NumberingProofs,
                                   PayrollProofs, ApprovalProofs)

`PROJECT.json` names the module and configuration of each run. Deadlock is checked
in the runs of the ledger; the others say `CHECK_DEADLOCK FALSE`, since requests may
all have ended. A definition such as
`UniqueKeyMissing` directly before `UniqueKey` is a variant with a plausible bug:
putting it in place of the definition makes the property listed with it under
"mutants" fail, which shows that the property depends on the code being right.

## 10. Plan

In order:

1. `ManualJournal`: the v2 routes beside the v1 decisions, over the ledger's rows;
   property: posted by either route means applied once.
2. An abstract leave balance (reserve, charge, release, each once per request) that
   `Leave` implements where `Alone` admits it.
3. Retries of failed postings and of recurring, prepaid and deferred ones, as far as
   they ask more of the ledger than a second request with the same key.
4. Inventory lots, event delivery and the telematics breaker, as far as they add a
   question that is not asked yet.

Not modelled, and why: the rest of the server is mostly one statement per request,
arithmetic on amounts, formatting, or evaluation of rules over rows that other
components own; front ends repeat rules the server enforces. Each part is listed in
`PROJECT.json` with its reason. Every invariant and every action property that a
passing run checks is also proved, the liveness properties are not: liveness and
`ENABLED` are out of reach of the proof system here and stay with TLC.
