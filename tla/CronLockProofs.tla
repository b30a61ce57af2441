--------------------------- MODULE CronLockProofs ---------------------------
(* Exclusive execution of the background jobs, for every number of         *)
(* processes, runs and jobs: the lock of a live run has enough time left   *)
(* for all the heartbeats that may still fail, so nobody can take it.      *)
EXTENDS CronLock, TLAPS

(* The time a lock must have left for run r to lose its remaining beats.   *)
Reserve(r) == run[r].due + (Misses - run[r].missed) * (Beat + Late)

Kept(r) == lock[Task[r]].owner = Host[r] /\ Reserve(r) <= lock[Task[r]].left
AllKept == \A r \in Run : Holds(r) => Kept(r)
OneHolder == \A r, s \in Run : Holds(r) /\ Holds(s) /\ Task[r] = Task[s] => r = s
LockInv == TypeOK /\ AllKept /\ OneHolder

LEMMA Numbers ==
    /\ TTL \in Nat /\ Beat \in Nat /\ Late \in Nat /\ Misses \in Nat
    /\ Beat > 0 /\ Beat + Late \in Nat
    /\ \A r \in Run : Host[r] \in Process /\ Task[r] \in Job /\ Host[r] # None
BY CronAssumption

LEMMA Product ==
    ASSUME NEW m \in 0 .. Misses
    PROVE  /\ (Misses - m) * (Beat + Late) \in Nat
           /\ m < Misses => (Misses - (m + 1)) * (Beat + Late) + (Beat + Late)
                                = (Misses - m) * (Beat + Late)
<1> DEFINE k == Misses - m
           s == Beat + Late
<1>1. k \in Nat /\ s \in Nat
    BY Numbers
<1>2. k * s \in Nat
    BY <1>1
<1>3. ASSUME m < Misses PROVE (k - 1) * s + s = k * s
    BY <1>1
<1>4. Misses - (m + 1) = k - 1
    BY Numbers
<1> QED
    BY <1>2, <1>3, <1>4

LEMMA FullReserve ==
    ASSUME Timely
    PROVE  (Beat + Late) + (Misses - 0) * (Beat + Late) <= TTL
<1> DEFINE s == Beat + Late
<1>1. s \in Nat /\ Misses \in Nat /\ TTL \in Nat
    BY Numbers
<1>2. (Misses + 1) * s = Misses * s + s
    BY <1>1
<1>3. Misses * s \in Nat
    BY <1>1
<1> QED
    BY <1>1, <1>2, <1>3 DEF Timely

-----------------------------------------------------------------------------
LEMMA InitInv == Init => LockInv
BY Numbers DEF Init, LockInv, TypeOK, AllKept, OneHolder, Holds, At, NoLock, Lock, Timer, Phase

(* A run that starts, passes or stops alone and leaves the locks alone.    *)
LEMMA Quiet ==
    ASSUME LockInv, NEW r \in Run, NEW t \in Timer, Goto(r, t),
           t.pc # "idle" => Host[r] \in alive,
           t.pc \in {"working", "ending"} => Holds(r) /\ Kept(r)',
           lock' = lock, UNCHANGED <<active, alive>>
    PROVE  LockInv'
<1>1. run \in [Run -> Timer] /\ run' = [run EXCEPT ![r] = t]
    BY DEF LockInv, TypeOK, Goto
<1>2. \A s \in Run : s # r => run'[s] = run[s]
    BY <1>1
<1>3. run'[r] = t /\ run' \in [Run -> Timer]
    BY <1>1
<1>4. TypeOK'
    BY <1>2, <1>3 DEF LockInv, TypeOK
<1>5. AllKept'
    BY <1>2, <1>3 DEF LockInv, AllKept, Kept, Reserve, Holds
<1>6. OneHolder'
    BY <1>2, <1>3 DEF LockInv, OneHolder, Holds
<1> QED
    BY <1>4, <1>5, <1>6 DEF LockInv

LEMMA IdleTimer == At("idle") \in Timer /\ At("checked") \in Timer
BY Numbers DEF At, Timer, Phase

LEMMA FullTimer ==
    [pc |-> "working", due |-> Beat + Late, missed |-> 0] \in Timer
BY Numbers DEF Timer, Phase

(* A lock that nobody can hold is nobody's.                                *)
LEMMA NobodyHolds ==
    ASSUME LockInv, NEW r \in Run, Free(r), NEW s \in Run, Task[s] = Task[r]
    PROVE  ~Holds(s)
<1>1. run[s] \in Timer /\ lock[Task[s]] \in Lock
    BY Numbers DEF LockInv, TypeOK
<1>2. run[s].due \in Nat /\ run[s].missed \in 0 .. Misses /\ lock[Task[s]].left \in Int
    BY <1>1, Numbers DEF Timer, Lock
<1>3. Reserve(s) >= 0
    BY <1>2, Product DEF Reserve
<1>4. Reserve(s) \in Int
    BY <1>2, Product DEF Reserve
<1> QED
    BY <1>2, <1>3, <1>4 DEF LockInv, AllKept, Kept, Free

LEMMA AcquireInv == ASSUME Timely, LockInv, NEW r \in Run, Acquire(r) PROVE LockInv'
<1> DEFINE t == [pc |-> "working", due |-> Beat + Late, missed |-> 0]
           l == [owner |-> Host[r], left |-> TTL]
<1>1. /\ run \in [Run -> Timer] /\ lock \in [Job -> Lock]
      /\ run' = [run EXCEPT ![r] = t] /\ lock' = [lock EXCEPT ![Task[r]] = l]
      /\ active' = active /\ alive' = alive /\ run[r].pc = "checked" /\ Free(r)
    BY DEF LockInv, TypeOK, Acquire, Goto, Taken
<1>2. \A s \in Run : s # r => run'[s] = run[s]
    BY <1>1
<1>3. t \in Timer /\ run'[r] = t /\ run' \in [Run -> Timer]
    BY <1>1, FullTimer
<1>4. l \in Lock
    BY Numbers DEF Lock
<1>5. lock'[Task[r]] = l /\ lock' \in [Job -> Lock] /\ \A j \in Job : j # Task[r] => lock'[j] = lock[j]
    BY <1>1, <1>4, Numbers
<1>6. Host[r] \in alive
    BY <1>1 DEF LockInv, TypeOK
<1>7. TypeOK'
    BY <1>1, <1>2, <1>3, <1>5, <1>6 DEF LockInv, TypeOK
<1>8. \A s \in Run : Task[s] = Task[r] => ~Holds(s)
    BY <1>1, NobodyHolds
<1>9. Kept(r)'
    BY <1>3, <1>5, FullReserve DEF Kept, Reserve
<1>10. ASSUME NEW s \in Run, s # r, Holds(s)' PROVE Kept(s)'
  <2>1. Holds(s) /\ run'[s] = run[s]
    BY <1>2, <1>10 DEF Holds
  <2>2. lock'[Task[s]] = lock[Task[s]]
    BY <2>1, <1>8, <1>5, Numbers
  <2> QED
    BY <2>1, <2>2 DEF LockInv, AllKept, Kept, Reserve
<1>11. AllKept'
    BY <1>9, <1>10 DEF AllKept
<1>12. OneHolder'
    BY <1>2, <1>8 DEF LockInv, OneHolder, Holds
<1> QED
    BY <1>7, <1>11, <1>12 DEF LockInv

LEMMA AnswerLostInv == ASSUME LockInv, NEW r \in Run, AnswerLost(r) PROVE LockInv'
<1> DEFINE l == [owner |-> Host[r], left |-> TTL]
<1>1. /\ run \in [Run -> Timer] /\ lock \in [Job -> Lock]
      /\ run' = [run EXCEPT ![r] = At("idle")] /\ lock' = [lock EXCEPT ![Task[r]] = l]
      /\ active' = active /\ alive' = alive /\ Free(r)
    BY DEF LockInv, TypeOK, AnswerLost, Goto, Taken
<1>2. \A s \in Run : s # r => run'[s] = run[s]
    BY <1>1
<1>3. run'[r] = At("idle") /\ run' \in [Run -> Timer] /\ At("idle").pc = "idle"
    BY <1>1, IdleTimer DEF At
<1>4. l \in Lock
    BY Numbers DEF Lock
<1>5. lock' \in [Job -> Lock] /\ \A j \in Job : j # Task[r] => lock'[j] = lock[j]
    BY <1>1, <1>4, Numbers
<1>6. TypeOK'
    BY <1>1, <1>2, <1>3, <1>5 DEF LockInv, TypeOK
<1>7. \A s \in Run : Holds(s)' => s # r /\ Holds(s) /\ Task[s] # Task[r]
    BY <1>1, <1>2, <1>3, NobodyHolds DEF Holds
<1>8. AllKept'
    BY <1>2, <1>5, <1>7, Numbers DEF LockInv, AllKept, Kept, Reserve
<1>9. OneHolder'
    BY <1>7 DEF LockInv, OneHolder
<1> QED
    BY <1>6, <1>8, <1>9 DEF LockInv

LEMMA RenewInv == ASSUME Timely, LockInv, NEW r \in Run, Renew(r) PROVE LockInv'
<1> DEFINE t == [pc |-> "working", due |-> Beat + Late, missed |-> 0]
<1>1. /\ run \in [Run -> Timer] /\ lock \in [Job -> Lock] /\ Holds(r)
      /\ run' = [run EXCEPT ![r] = t] /\ active' = active /\ alive' = alive
    BY DEF LockInv, TypeOK, Renew, BeatsNow, Goto, Holds
<1>2. lock[Task[r]].owner = Host[r]
    BY <1>1 DEF LockInv, AllKept, Kept
<1>3. lock' = [lock EXCEPT ![Task[r]].left = TTL]
    BY <1>2 DEF Renew, Renewed, Pushed
<1>4. lock'[Task[r]] = [lock[Task[r]] EXCEPT !.left = TTL]
    BY <1>1, <1>3, Numbers
<1>5. lock'[Task[r]] \in Lock /\ lock'[Task[r]].owner = Host[r] /\ lock'[Task[r]].left = TTL
    BY <1>1, <1>2, <1>4, Numbers DEF Lock
<1>6. lock' \in [Job -> Lock] /\ \A j \in Job : j # Task[r] => lock'[j] = lock[j]
    BY <1>1, <1>3, <1>5, Numbers
<1>7. \A s \in Run : s # r => run'[s] = run[s]
    BY <1>1
<1>8. run'[r] = t /\ run' \in [Run -> Timer]
    BY <1>1, FullTimer
<1>9. Host[r] \in alive
    BY <1>1 DEF LockInv, TypeOK, Holds
<1>10. TypeOK'
    BY <1>1, <1>6, <1>7, <1>8, <1>9 DEF LockInv, TypeOK
<1>11. Kept(r)'
    BY <1>5, <1>8, FullReserve DEF Kept, Reserve
<1>12. ASSUME NEW s \in Run, s # r, Holds(s)' PROVE Kept(s)'
  <2>1. Holds(s) /\ Task[s] # Task[r]
    BY <1>1, <1>7, <1>12 DEF LockInv, OneHolder, Holds
  <2> QED
    BY <2>1, <1>6, <1>7, <1>12, Numbers DEF LockInv, AllKept, Kept, Reserve
<1>13. AllKept'
    BY <1>11, <1>12 DEF AllKept
<1>14. OneHolder'
    BY <1>1, <1>7 DEF LockInv, OneHolder, Holds
<1> QED
    BY <1>10, <1>13, <1>14 DEF LockInv

LEMMA MissBeatInv == ASSUME LockInv, NEW r \in Run, MissBeat(r) PROVE LockInv'
<1> DEFINE t == [pc |-> "working", due |-> Beat + Late, missed |-> run[r].missed + 1]
<1>1. /\ run \in [Run -> Timer] /\ Holds(r) /\ run[r].missed < Misses /\ Goto(r, t)
      /\ lock' = lock /\ UNCHANGED <<active, alive>>
    BY DEF LockInv, TypeOK, MissBeat, BeatsNow, Holds
<1>2. run[r] \in Timer /\ lock[Task[r]] \in Lock
    BY <1>1, Numbers DEF LockInv, TypeOK
<1>3. run[r].missed \in 0 .. Misses /\ run[r].due \in Nat /\ lock[Task[r]].left \in Int
    BY <1>2, Numbers DEF Timer, Lock
<1>4. t \in Timer
    BY <1>1, <1>3, Numbers DEF Timer, Phase
<1>5. run'[r] = t
    BY <1>1 DEF Goto
<1>6. Reserve(r)' = (Misses - run[r].missed) * (Beat + Late)
    BY <1>1, <1>3, <1>5, Product, Numbers DEF Reserve
<1>7. Reserve(r)' <= Reserve(r) /\ Reserve(r)' \in Int /\ Reserve(r) \in Int
    BY <1>3, <1>6, Product DEF Reserve
<1>8. Kept(r)'
    BY <1>1, <1>3, <1>7 DEF LockInv, AllKept, Kept
<1>9. Host[r] \in alive
    BY <1>1 DEF LockInv, TypeOK, Holds
<1> QED
    BY <1>1, <1>4, <1>8, <1>9, Quiet

LEMMA FinishInv == ASSUME LockInv, NEW r \in Run, Finish(r) PROVE LockInv'
<1> DEFINE t == [run[r] EXCEPT !.pc = "ending"]
<1>1. /\ run \in [Run -> Timer] /\ Holds(r) /\ Goto(r, t)
      /\ lock' = lock /\ UNCHANGED <<active, alive>>
    BY DEF LockInv, TypeOK, Finish, Holds
<1>2. t \in Timer /\ t.due = run[r].due /\ t.missed = run[r].missed
    BY <1>1 DEF Timer, Phase
<1>3. run'[r] = t
    BY <1>1 DEF Goto
<1>4. Kept(r)'
    BY <1>1, <1>2, <1>3 DEF LockInv, AllKept, Kept, Reserve
<1>5. Host[r] \in alive
    BY <1>1 DEF LockInv, TypeOK, Holds
<1> QED
    BY <1>1, <1>2, <1>4, <1>5, Quiet

LEMMA ReleaseInv == ASSUME LockInv, NEW r \in Run, Release(r) PROVE LockInv'
<1>1. /\ run \in [Run -> Timer] /\ lock \in [Job -> Lock] /\ Holds(r)
      /\ run' = [run EXCEPT ![r] = At("idle")] /\ active' = active /\ alive' = alive
    BY DEF LockInv, TypeOK, Release, Goto, Holds
<1>2. lock' = [lock EXCEPT ![Task[r]] = NoLock]
    BY <1>1 DEF LockInv, AllKept, Kept, Release, Released
<1>3. NoLock \in Lock
    BY Numbers DEF NoLock, Lock
<1>4. lock' \in [Job -> Lock] /\ \A j \in Job : j # Task[r] => lock'[j] = lock[j]
    BY <1>1, <1>2, <1>3, Numbers
<1>5. \A s \in Run : s # r => run'[s] = run[s]
    BY <1>1
<1>6. run'[r] = At("idle") /\ run' \in [Run -> Timer] /\ At("idle").pc = "idle"
    BY <1>1, IdleTimer DEF At
<1>7. TypeOK'
    BY <1>1, <1>4, <1>5, <1>6 DEF LockInv, TypeOK
<1>8. \A s \in Run : Holds(s)' => s # r /\ Holds(s)
    BY <1>5, <1>6 DEF Holds
<1>9. \A s \in Run : Holds(s)' => Task[s] # Task[r]
    BY <1>1, <1>8 DEF LockInv, OneHolder
<1>10. AllKept'
    BY <1>4, <1>5, <1>8, <1>9, Numbers DEF LockInv, AllKept, Kept, Reserve
<1>11. OneHolder'
    BY <1>8 DEF LockInv, OneHolder
<1> QED
    BY <1>7, <1>10, <1>11 DEF LockInv

LEMMA CrashInv == ASSUME LockInv, NEW p \in Process, Crash(p) PROVE LockInv'
<1>1. /\ run \in [Run -> Timer]
      /\ run' = [r \in Run |-> IF Host[r] = p THEN At("idle") ELSE run[r]]
      /\ alive' = alive \ {p} /\ lock' = lock /\ active' = active
    BY DEF LockInv, TypeOK, Crash
<1>2. run' \in [Run -> Timer]
    BY <1>1, IdleTimer
<1>3. At("idle").pc = "idle"
    BY DEF At
<1>4. \A s \in Run : run'[s].pc # "idle" => Host[s] # p /\ run'[s] = run[s]
    BY <1>1, <1>3
<1>5. TypeOK'
    BY <1>1, <1>2, <1>4 DEF LockInv, TypeOK
<1>6. \A s \in Run : Holds(s)' => Holds(s) /\ run'[s] = run[s]
    BY <1>4 DEF Holds
<1>7. AllKept'
    BY <1>1, <1>6 DEF LockInv, AllKept, Kept, Reserve
<1>8. OneHolder'
    BY <1>6 DEF LockInv, OneHolder
<1> QED
    BY <1>5, <1>7, <1>8 DEF LockInv

LEMMA TickInv == ASSUME LockInv, Tick PROVE LockInv'
<1>1. /\ run \in [Run -> Timer] /\ lock \in [Job -> Lock]
      /\ run' = [r \in Run |-> [run[r] EXCEPT !.due = Less(@)]]
      /\ lock' = [j \in Job |-> [lock[j] EXCEPT !.left = IF @ < 0 THEN @ ELSE @ - 1]]
      /\ alive' = alive /\ active' = active
    BY DEF LockInv, TypeOK, Tick
<1>2. ASSUME NEW j \in Job
      PROVE  /\ lock'[j] \in Lock /\ lock'[j].owner = lock[j].owner
             /\ lock[j].left \in Int
             /\ lock[j].left >= 0 => lock'[j].left = lock[j].left - 1
  <2>1. lock[j] \in Lock /\ lock'[j] = [lock[j] EXCEPT !.left = IF @ < 0 THEN @ ELSE @ - 1]
    BY <1>1
  <2> QED
    BY <2>1, Numbers DEF Lock
<1>3. ASSUME NEW r \in Run
      PROVE  /\ run'[r] \in Timer /\ run'[r].pc = run[r].pc /\ run'[r].missed = run[r].missed
             /\ run[r].missed \in 0 .. Misses /\ run[r].due \in Nat
             /\ run[r].due > 0 => run'[r].due = run[r].due - 1
  <2>1. run[r] \in Timer /\ run'[r] = [run[r] EXCEPT !.due = Less(@)]
    BY <1>1
  <2>2. run[r].due \in 0 .. Beat + Late /\ run[r].missed \in 0 .. Misses
    BY <2>1 DEF Timer
  <2>3. Less(run[r].due) \in 0 .. Beat + Late
    BY <2>2, Numbers DEF Less
  <2>4. run[r].due > 0 => Less(run[r].due) = run[r].due - 1
    BY <2>2, Numbers DEF Less
  <2> QED
    BY <2>1, <2>2, <2>3, <2>4, Numbers DEF Timer
<1>4. TypeOK'
    BY <1>1, <1>2, <1>3 DEF LockInv, TypeOK
<1>5. ASSUME NEW r \in Run, Holds(r)' PROVE Kept(r)'
  <2>1. Holds(r) /\ run[r].due > 0 /\ Task[r] \in Job
    BY <1>3, <1>5, Numbers DEF Holds, Tick
  <2>2. Reserve(r) <= lock[Task[r]].left /\ lock[Task[r]].owner = Host[r]
    BY <2>1 DEF LockInv, AllKept, Kept
  <2>3. Reserve(r)' = Reserve(r) - 1 /\ Reserve(r) > 0 /\ Reserve(r) \in Int
    BY <2>1, <1>3, Product DEF Reserve
  <2>4. lock'[Task[r]].left = lock[Task[r]].left - 1 /\ lock[Task[r]].left \in Int
    BY <2>1, <2>2, <2>3, <1>2
  <2> QED
    BY <2>1, <2>2, <2>3, <2>4, <1>2 DEF Kept
<1>6. OneHolder'
    BY <1>3 DEF LockInv, OneHolder, Holds
<1> QED
    BY <1>4, <1>5, <1>6 DEF LockInv, AllKept

LEMMA NextInv == ASSUME Timely, LockInv, [Next]_vars PROVE LockInv'
<1>1. ASSUME NEW r \in Run, Go(r) PROVE LockInv'
  <2>1. CASE Check(r) \/ Trigger(r)
    BY <2>1, IdleTimer, Quiet DEF Check, Trigger, At
  <2>2. CASE Acquire(r)
    BY <2>2, AcquireInv
  <2>3. CASE Skip(r) \/ ReleaseFailed(r)
    BY <2>3, IdleTimer, Quiet DEF Skip, ReleaseFailed, At
  <2>4. CASE AnswerLost(r)
    BY <2>4, AnswerLostInv
  <2>5. CASE Renew(r)
    BY <2>5, RenewInv
  <2>6. CASE MissBeat(r)
    BY <2>6, MissBeatInv
  <2>7. CASE Finish(r)
    BY <2>7, FinishInv
  <2>8. CASE Release(r)
    BY <2>8, ReleaseInv
  <2> QED
    BY <1>1, <2>1, <2>2, <2>3, <2>4, <2>5, <2>6, <2>7, <2>8 DEF Go
<1>2. ASSUME NEW j \in Job, SetActive(j) PROVE LockInv'
    BY <1>2 DEF SetActive, LockInv, TypeOK, AllKept, OneHolder, Kept, Reserve, Holds
<1>3. ASSUME NEW p \in Process, Crash(p) PROVE LockInv'
    BY <1>3, CrashInv
<1>4. CASE Tick
    BY <1>4, TickInv
<1>5. CASE UNCHANGED vars
    BY <1>5 DEF vars, LockInv, TypeOK, AllKept, OneHolder, Kept, Reserve, Holds
<1> QED
    BY <1>1, <1>2, <1>3, <1>4, <1>5 DEF Next

THEOREM LockInvariant == ASSUME Timely PROVE Spec => []LockInv
<1>1. Init => LockInv
    BY InitInv
<1>2. LockInv /\ [Next]_vars => LockInv'
    BY NextInv
<1> QED
    BY <1>1, <1>2, PTL DEF Spec

-----------------------------------------------------------------------------
(* No job is ever inside two handlers: two replicas, a schedule that fires *)
(* again or a run started by hand never overlap.                           *)
THEOREM MutualExclusion == ASSUME Timely PROVE Spec => []AtMostOneRun
<1>1. LockInv => AtMostOneRun
    BY DEF LockInv, OneHolder, AtMostOneRun, Holds
<1> QED
    BY <1>1, LockInvariant, PTL

(* The lock of a live run neither expires nor changes hands.               *)
THEOREM LockHeld == ASSUME Timely PROVE Spec => []LockOutlivesRun
<1>1. ASSUME LockInv, NEW r \in Run, Holds(r)
      PROVE  lock[Task[r]].owner = Host[r] /\ lock[Task[r]].left >= 0
  <2>1. run[r] \in Timer /\ lock[Task[r]] \in Lock /\ Kept(r)
    BY <1>1, Numbers DEF LockInv, TypeOK, AllKept
  <2>2. run[r].due \in Nat /\ run[r].missed \in 0 .. Misses /\ lock[Task[r]].left \in Int
    BY <2>1, Numbers DEF Timer, Lock
  <2>3. Reserve(r) >= 0 /\ Reserve(r) \in Int
    BY <2>2, Product DEF Reserve
  <2> QED
    BY <2>1, <2>2, <2>3 DEF Kept
<1>2. LockInv => LockOutlivesRun
    BY <1>1 DEF LockOutlivesRun
<1> QED
    BY <1>2, LockInvariant, PTL

-----------------------------------------------------------------------------
(* Types, also where the heartbeats are too late to keep the locks.        *)
LEMMA GotoType ==
    ASSUME TypeOK, NEW r \in Run, NEW t \in Timer, Goto(r, t),
           t.pc # "idle" => Host[r] \in alive,
           lock' \in [Job -> Lock], UNCHANGED <<active, alive>>
    PROVE  TypeOK'
BY DEF TypeOK, Goto

LEMMA RunAndLock ==
    ASSUME TypeOK, NEW r \in Run
    PROVE  /\ run[r] \in Timer /\ lock[Task[r]] \in Lock
           /\ run[r].pc # "idle" => Host[r] \in alive
BY Numbers DEF TypeOK

LEMMA LockTypes ==
    ASSUME TypeOK, NEW r \in Run
    PROVE  /\ lock \in [Job -> Lock] /\ Renewed(r) \in [Job -> Lock]
           /\ Released(r) \in [Job -> Lock]
           /\ [lock EXCEPT ![Task[r]] = [owner |-> Host[r], left |-> TTL]] \in [Job -> Lock]
<1>1. lock \in [Job -> Lock] /\ Task[r] \in Job
    BY Numbers DEF TypeOK
<1>2. \A l \in Lock : [lock EXCEPT ![Task[r]] = l] \in [Job -> Lock]
    BY <1>1
<1>3. NoLock \in Lock /\ [owner |-> Host[r], left |-> TTL] \in Lock
    BY Numbers DEF NoLock, Lock
<1>4. [lock[Task[r]] EXCEPT !.left = TTL] \in Lock
    BY <1>1, Numbers DEF Lock
<1> QED
    BY <1>1, <1>2, <1>3, <1>4 DEF Renewed, Pushed, Released

LEMMA GoType == ASSUME TypeOK, NEW r \in Run, Go(r) PROVE TypeOK'
<1>1. CASE Check(r) \/ Trigger(r) \/ Skip(r) \/ ReleaseFailed(r)
    BY <1>1, IdleTimer, LockTypes, GotoType
       DEF Check, Trigger, Skip, ReleaseFailed, At
<1>2. CASE AnswerLost(r) \/ Release(r)
    BY <1>2, IdleTimer, LockTypes, GotoType DEF AnswerLost, Taken, Release, At
<1>3. CASE Acquire(r)
  <2>1. Host[r] \in alive
    BY <1>3, RunAndLock DEF Acquire
  <2> QED
    BY <1>3, <2>1, FullTimer, LockTypes, GotoType DEF Acquire, Taken
<1>4. CASE Renew(r)
  <2>1. Host[r] \in alive
    BY <1>4, RunAndLock DEF Renew, BeatsNow
  <2> QED
    BY <1>4, <2>1, FullTimer, LockTypes, GotoType DEF Renew
<1>5. CASE MissBeat(r)
  <2> DEFINE t == [pc |-> "working", due |-> Beat + Late, missed |-> run[r].missed + 1]
  <2>1. Host[r] \in alive
    BY <1>5, RunAndLock DEF MissBeat, BeatsNow
  <2>2. run[r].missed \in 0 .. Misses /\ run[r].missed < Misses
    BY <1>5, RunAndLock DEF MissBeat, Timer
  <2>3. t \in Timer
    BY <2>2, Numbers DEF Timer, Phase
  <2> QED
    BY <1>5, <2>1, <2>3, LockTypes, GotoType DEF MissBeat
<1>6. CASE Finish(r)
  <2> DEFINE t == [run[r] EXCEPT !.pc = "ending"]
  <2>1. Host[r] \in alive /\ t \in Timer
    BY <1>6, RunAndLock DEF Finish, Timer, Phase
  <2> QED
    BY <1>6, <2>1, LockTypes, GotoType DEF Finish
<1> QED
    BY <1>1, <1>2, <1>3, <1>4, <1>5, <1>6 DEF Go

LEMMA TickType == ASSUME TypeOK, Tick PROVE TypeOK'
<1>1. ASSUME NEW j \in Job
      PROVE  [lock[j] EXCEPT !.left = IF @ < 0 THEN @ ELSE @ - 1] \in Lock
  <2>1. lock[j] \in Lock
    BY DEF TypeOK
  <2> QED
    BY <2>1, Numbers DEF Lock
<1>2. ASSUME NEW r \in Run
      PROVE  [run[r] EXCEPT !.due = Less(@)] \in Timer
             /\ [run[r] EXCEPT !.due = Less(@)].pc = run[r].pc
  <2>1. run[r] \in Timer
    BY DEF TypeOK
  <2>2. Less(run[r].due) \in 0 .. Beat + Late
    BY <2>1, Numbers DEF Less, Timer
  <2> QED
    BY <2>1, <2>2 DEF Timer
<1> QED
    BY <1>1, <1>2 DEF Tick, TypeOK

(* Locks, timers and runs keep their types, whatever is late or lost.      *)
THEOREM CronLockTypeCorrect == Spec => []TypeOK
<1>1. Init => TypeOK
    BY InitInv DEF LockInv
<1>2. TypeOK /\ [Next]_vars => TypeOK'
  <2>1. ASSUME TypeOK, NEW p \in Process, Crash(p) PROVE TypeOK'
    <3>1. /\ run' = [r \in Run |-> IF Host[r] = p THEN At("idle") ELSE run[r]]
          /\ alive' = alive \ {p} /\ UNCHANGED <<active, lock>> /\ At("idle").pc = "idle"
      BY <2>1 DEF Crash, At
    <3> QED
      BY <2>1, <3>1, IdleTimer DEF TypeOK
  <2>2. ASSUME TypeOK, NEW j \in Job, SetActive(j) PROVE TypeOK'
    BY <2>2 DEF SetActive, TypeOK
  <2>3. ASSUME TypeOK, UNCHANGED vars PROVE TypeOK'
    BY <2>3 DEF vars, TypeOK
  <2> QED
    BY <2>1, <2>2, <2>3, GoType, TickType DEF Next
<1> QED
    BY <1>1, <1>2, PTL DEF Spec
=============================================================================
