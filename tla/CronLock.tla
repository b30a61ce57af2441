------------------------------ MODULE CronLock ------------------------------
(***************************************************************************)
(* The scheduler of the background jobs on several replicas and the table  *)
(* cron_locks that keeps two of them from running one job at a time.       *)
(*                                                                         *)
(* A lock is a row with an owner and an expiry.  The owner is a process    *)
(* (LOCK_OWNER is drawn once per process), not a run: a schedule that      *)
(* fires again and a run triggered by hand share it.  A run pushes the     *)
(* expiry forward by a heartbeat whose failures are swallowed.             *)
(*                                                                         *)
(* Time is counted down: "left" is how long a row has until it expires,    *)
(* and "due" how long until the run's next heartbeat has been executed at  *)
(* the latest.  A process that dies does not come back: its successor      *)
(* draws a new owner.  A heartbeat that reaches the database after the     *)
(* release finds no row of its run and is left out.                        *)
(***************************************************************************)
EXTENDS Integers

CONSTANTS
    Process,   \* the processes that ever run the scheduler
    Run,       \* runs: one slot per overlapping execution of a job in a process
    Job,       \* names of the jobs
    Host,      \* the process of a run
    Task,      \* the job of a run
    TTL,       \* LOCK_TTL_MINUTES
    Beat,      \* LOCK_HEARTBEAT_MS
    Late,      \* bound on how late a timer fires and its statement arrives
    Misses,    \* bound on the heartbeats of a run that fail one after another
    MayCrash,  \* the processes that may die
    Owned,     \* the jobs whose row of cron_jobs belongs to a company
    None

ASSUME CronAssumption ==
    /\ Host \in [Run -> Process] /\ Task \in [Run -> Job]
    /\ TTL \in Nat /\ Beat \in Nat \ {0} /\ Late \in Nat /\ Misses \in Nat
    /\ MayCrash \subseteq Process /\ Owned \subseteq Job
    /\ None \notin Process

(* Enough of the heartbeats get through before the lock would expire.      *)
Timely == (Misses + 1) * (Beat + Late) <= TTL

VARIABLES
    active,  \* cron_jobs.isActive
    lock,    \* the row of cron_locks of each job
    alive,   \* the processes that have not died
    run      \* where each run is, and its heartbeat timer

vars == <<active, lock, alive, run>>

Lock == [owner : Process \cup {None}, left : -1 .. TTL]
NoLock == [owner |-> None, left |-> -1]
Phase == {"idle", "checked", "working", "ending"}
Timer == [pc : Phase, due : 0 .. Beat + Late, missed : 0 .. Misses]

At(s) == [pc |-> s, due |-> 0, missed |-> 0]
Goto(r, t) == run' = [run EXCEPT ![r] = t]

Init ==
    /\ active \in [Job -> BOOLEAN]
    /\ lock = [j \in Job |-> NoLock]
    /\ alive = Process
    /\ run = [r \in Run |-> At("idle")]

-----------------------------------------------------------------------------
(* The schedule fires and finds the job active, or somebody triggers it by *)
(* hand, which does not ask.                                               *)
Check(r) ==
    /\ run[r].pc = "idle" /\ Host[r] \in alive
    /\ active[Task[r]]
    /\ Goto(r, At("checked"))
    /\ UNCHANGED <<active, lock, alive>>

Trigger(r) ==
    /\ run[r].pc = "idle" /\ Host[r] \in alive
    /\ Goto(r, At("checked"))
    /\ UNCHANGED <<active, lock, alive>>

(* The insert goes through, or the row it conflicts with has expired.      *)
FreeReentrant(r) == lock[Task[r]].left < 0 \/ lock[Task[r]].owner = Host[r]
FreeNoTakeover(r) == lock[Task[r]].owner = None
Free(r) == lock[Task[r]].left < 0

Taken(r) == lock' = [lock EXCEPT ![Task[r]] = [owner |-> Host[r], left |-> TTL]]

Acquire(r) ==
    /\ run[r].pc = "checked" /\ Free(r)
    /\ Taken(r)
    /\ Goto(r, [pc |-> "working", due |-> Beat + Late, missed |-> 0])
    /\ UNCHANGED <<active, alive>>

(* The lock is held, or the statement fails: both mean "not acquired".     *)
Skip(r) ==
    /\ run[r].pc = "checked"
    /\ Goto(r, At("idle"))
    /\ UNCHANGED <<active, lock, alive>>

(* The statement takes effect and its answer is lost: nobody will release. *)
AnswerLost(r) ==
    /\ run[r].pc = "checked" /\ Free(r)
    /\ Taken(r)
    /\ Goto(r, At("idle"))
    /\ UNCHANGED <<active, alive>>

-----------------------------------------------------------------------------
(* The heartbeat renews the row of the run's process, if there is one.     *)
BeatsNow(r) == run[r].pc = "working" /\ run[r].due <= Late

Pushed(r, left) ==
    IF lock[Task[r]].owner = Host[r] THEN [lock EXCEPT ![Task[r]].left = left] ELSE lock

RenewedByOneBeat(r) == Pushed(r, Beat)
RenewedFromExpiry(r) == Pushed(r, lock[Task[r]].left + TTL)
Renewed(r) == Pushed(r, TTL)

Renew(r) ==
    /\ BeatsNow(r)
    /\ lock' = Renewed(r)
    /\ Goto(r, [pc |-> "working", due |-> Beat + Late, missed |-> 0])
    /\ UNCHANGED <<active, alive>>

MissBeat(r) ==
    /\ BeatsNow(r) /\ run[r].missed < Misses
    /\ Goto(r, [pc |-> "working", due |-> Beat + Late, missed |-> run[r].missed + 1])
    /\ UNCHANGED <<active, lock, alive>>

(* The handler returns or throws; the interval is cleared, then the lock   *)
(* is released, before the heartbeat it replaces would have been due.      *)
Finish(r) ==
    /\ run[r].pc = "working"
    /\ Goto(r, [run[r] EXCEPT !.pc = "ending"])
    /\ UNCHANGED <<active, lock, alive>>

Released(r) == IF lock[Task[r]].owner = Host[r] THEN [lock EXCEPT ![Task[r]] = NoLock] ELSE lock

Release(r) ==
    /\ run[r].pc = "ending"
    /\ lock' = Released(r)
    /\ Goto(r, At("idle"))
    /\ UNCHANGED <<active, alive>>

ReleaseFailed(r) ==
    /\ run[r].pc = "ending"
    /\ Goto(r, At("idle"))
    /\ UNCHANGED <<active, lock, alive>>

-----------------------------------------------------------------------------
(* An administrator switches a job of the company on or off; the rows that *)
(* the scheduler seeds belong to none.                                     *)
SetActive(j) ==
    /\ j \in Owned
    /\ active' = [active EXCEPT ![j] = ~@]
    /\ UNCHANGED <<lock, alive, run>>

Crash(p) ==
    /\ p \in MayCrash \cap alive
    /\ alive' = alive \ {p}
    /\ run' = [r \in Run |-> IF Host[r] = p THEN At("idle") ELSE run[r]]
    /\ UNCHANGED <<active, lock>>

(* Time passes, as long as no heartbeat or release is overdue.             *)
Holds(r) == run[r].pc \in {"working", "ending"}
Less(n) == IF n > 0 THEN n - 1 ELSE n

Tick ==
    /\ \A r \in Run : Holds(r) => run[r].due > 0
    /\ lock' = [j \in Job |-> [lock[j] EXCEPT !.left = IF @ < 0 THEN @ ELSE @ - 1]]
    /\ run' = [r \in Run |-> [run[r] EXCEPT !.due = Less(@)]]
    /\ UNCHANGED <<active, alive>>

Go(r) ==
    \/ Check(r) \/ Trigger(r) \/ Acquire(r) \/ Skip(r) \/ AnswerLost(r)
    \/ Renew(r) \/ MissBeat(r) \/ Finish(r) \/ Release(r) \/ ReleaseFailed(r)

Next ==
    \/ \E r \in Run : Go(r)
    \/ \E j \in Job : SetActive(j)
    \/ \E p \in Process : Crash(p)
    \/ Tick

Spec == Init /\ [][Next]_vars

(* Time passes, timers fire and handlers end.  On a process that survives  *)
(* the schedule fires, again and again, when nobody holds the lock, and    *)
(* its statements do not fail for ever.                                    *)
FairSpec ==
    /\ Spec
    /\ WF_vars(Tick)
    /\ \A r \in Run : /\ WF_vars(Renew(r) \/ MissBeat(r))
                      /\ WF_vars(Finish(r))
                      /\ WF_vars(Release(r) \/ ReleaseFailed(r))
    /\ \A r \in {x \in Run : Host[x] \notin MayCrash} :
           SF_vars(Check(r) /\ Free(r)) /\ SF_vars(Acquire(r))

-----------------------------------------------------------------------------
(* The variables keep their types, a run that waits has no timer, and a    *)
(* process that died runs nothing.                                         *)
TypeOK ==
    /\ active \in [Job -> BOOLEAN]
    /\ lock \in [Job -> Lock]
    /\ alive \in SUBSET Process
    /\ run \in [Run -> Timer]
    /\ \A r \in Run : run[r].pc # "idle" => Host[r] \in alive

(* No two runs are inside the handler of one job, on one replica or on     *)
(* two, by schedule or by hand, whoever dies or loses a statement.         *)
AtMostOneRun ==
    \A r, s \in Run : Task[r] = Task[s] /\ run[r].pc = "working" /\ run[s].pc = "working"
                          => r = s

(* The lock of a job never expires or changes hands under a live run.      *)
LockOutlivesRun ==
    \A r \in Run : Holds(r) => lock[Task[r]].owner = Host[r] /\ lock[Task[r]].left >= 0

(* A lock left behind by a dead process, a lost answer or a failed release *)
(* does not stop a job: while it stays active it is run again and again.   *)
JobKeepsRunning ==
    \A j \in Job : <>[](active[j])
                    => []<>(\E r \in Run : Task[r] = j /\ run[r].pc = "working")
=============================================================================
