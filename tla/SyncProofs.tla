----------------------------- MODULE SyncProofs -----------------------------
(***************************************************************************)
(* The locks of thread/sync.c, proved for any number of tasks and locks:   *)
(* the ASSERTs of the file hold, the wait queues are exact, no wakeup is   *)
(* lost, and the locks implement the abstract mutex.                       *)
(***************************************************************************)
EXTENDS Sync, SchedProofs

(* The types of the locks and of the tasks' places in sync.c.               *)
LockTypes ==
    /\ value   \in [Locks -> {0, 1}]
    /\ waiters \in [Locks -> Seq(Threads)]
    /\ holder  \in [Locks -> Threads \union {Null}]
    /\ repeat  \in [Locks -> Nat]
    /\ pc      \in [Threads -> Pcs]
    /\ plock   \in [Threads -> Locks]

(* The value of a semaphore is 1 exactly when its lock has no owner, and    *)
(* then nothing is left over of the last one.                               *)
OneOwner ==
    \A l \in Locks :
      /\ \A t, u \in Threads : Owns(t, l) /\ Owns(u, l) => t = u
      /\ value[l] = 1 <=> \A t \in Threads : ~Owns(t, l)
      /\ value[l] = 1 => repeat[l] = 0

(* What a task in the middle of lock_acquire or lock_release knows of its   *)
(* lock, and that a holder elsewhere has counted its acquisitions.          *)
PcsExact ==
    \A t \in Threads :
      /\ pc[t] \in {"set_holder", "clear_repeat", "up"} => holder[plock[t]] = Null
      /\ pc[t] \in {"set_holder", "set_repeat", "up"} => repeat[plock[t]] = 0
      /\ pc[t] = "set_repeat" => holder[plock[t]] = t
      /\ \A l \in Locks : holder[l] = t => repeat[l] >= 1 \/ At(t, "set_repeat", l)

(* Where a task sleeps: in sema_down or on a device, and idle never.        *)
SleepersExact ==
    /\ pc[Idle] = "run"
    /\ \A t \in Threads :
         /\ status[t] \in {"RUNNING", "READY", "BLOCKED", "NULL"}
         /\ status[t] = "NULL" => pc[t] = "run"
         /\ pc[t] = "asleep" => status[t] = "BLOCKED"
         /\ status[t] = "BLOCKED" => pc[t] \in {"down", "asleep"} \/ t = Idle

(* The inductive invariant.                                                 *)
SyncInv == CoreInv /\ LockTypes /\ OneOwner /\ PcsExact /\ SleepersExact
             /\ WaitersExact /\ NoLostWakeup

(* The tasks asleep on the semaphore of l.                                  *)
Sleepers(l) == {t \in Threads : At(t, "down", l) /\ status[t] = "BLOCKED"}

(* WaitersExact in terms of the scheduler's queues.                         *)
LEMMA WaitersQueue ==
  WaitersExact <=> \A l \in Locks : QueueExact(Sleepers(l), waiters[l])
BY DEF WaitersExact, QueueExact, Sleepers

(* Init satisfies the invariant.                                            *)
LEMMA InitSync == Init => SyncInv
<1> SUFFICES ASSUME Init PROVE SyncInv
  OBVIOUS
<1> USE TasksAssumption, NullAssumption
<1>1. CoreInv
  BY InitCore DEF Init
<1>2. LockTypes
  BY DEF Init, LockTypes, Pcs
<1>3. \A t \in Threads, l \in Locks : ~Owns(t, l)
  BY DEF Init, Owns, At
<1>4. OneOwner
  BY <1>3 DEF Init, OneOwner
<1>5. PcsExact
  BY DEF Init, PcsExact
<1>6. SleepersExact
  BY DEF Init, ThreadInit, SleepersExact
<1>7. WaitersExact /\ NoLostWakeup
  BY DEF Init, WaitersExact, NoLostWakeup, At
<1> QED  BY <1>1, <1>2, <1>4, <1>5, <1>6, <1>7 DEF SyncInv

(* A step of the current task's own code that neither blocks nor wakes      *)
(* anyone disturbs no queue, wherever outside sema_down it leads.           *)
LEMMA LocalStep ==
  ASSUME SyncInv, UNCHANGED <<threadVars, value, waiters>>, cur # Idle,
         pc[cur] \notin {"down", "asleep"},
         NEW p \in Pcs \ {"asleep"}, pc' = [pc EXCEPT ![cur] = p],
         NEW k \in Locks, plock' = [plock EXCEPT ![cur] = k]
  PROVE  CoreInv' /\ SleepersExact' /\ WaitersExact' /\ NoLostWakeup'
<1> USE TasksAssumption
<1>1. /\ cur \in Threads /\ status[cur] = "RUNNING" /\ UNCHANGED <<status, cur>>
      /\ pc \in [Threads -> Pcs] /\ plock \in [Threads -> Locks]
  BY DEF SyncInv, CoreInv, OneRunning, LockTypes, threadVars
<1>2. CoreInv'
  BY DEF SyncInv, CoreInv, ReadyListExact, OneRunning, IdleAvailable, ListExact, threadVars
<1>3. SleepersExact'
  BY <1>1 DEF SyncInv, SleepersExact
<1>4. ASSUME NEW l \in Locks PROVE Sleepers(l)' = Sleepers(l)
  BY <1>1 DEF Sleepers, At
<1>5. WaitersExact'
  BY <1>4, WaitersQueue DEF SyncInv, WaitersExact, Sleepers
<1>6. NoLostWakeup'
  <2>1. \A t \in Threads, l \in Locks : At(t, "down", l) => At(t, "down", l)'
    BY <1>1 DEF At
  <2> QED  BY <1>1, <2>1 DEF SyncInv, NoLostWakeup
<1> QED  BY <1>2, <1>3, <1>5, <1>6

(* A step of the scheduler that neither blocks nor wakes a client.          *)
LEMMA SchedStep ==
  ASSUME SyncInv, CoreInv', SameAwake, UNCHANGED <<lockVars, pc, plock>>
  PROVE  SyncInv'
<1> USE TasksAssumption
<1>1. LockTypes' /\ PcsExact'
  BY DEF SyncInv, LockTypes, PcsExact, At, lockVars
<1>2. OneOwner'
  <2>1. \A t \in Threads, l \in Locks : Owns(t, l)' <=> Owns(t, l)
    BY DEF Owns, At, lockVars
  <2> QED  BY <2>1 DEF SyncInv, OneOwner, lockVars
<1>3. status'[Idle] \in {"RUNNING", "READY", "BLOCKED"} /\ pc[Idle] = "run"
  BY DEF CoreInv, IdleAvailable, SyncInv, SleepersExact
<1>4. SleepersExact'
  BY <1>3 DEF SyncInv, SleepersExact, SameAwake, Awake
<1>5. \A t \in Threads, l \in Locks : At(t, "down", l) =>
         t # Idle /\ (status'[t] = "BLOCKED" <=> status[t] = "BLOCKED")
             /\ (status[t] \in Awake => status'[t] \in Awake)
  BY <1>3 DEF At, SameAwake, Awake
<1>6. ASSUME NEW l \in Locks PROVE Sleepers(l)' = Sleepers(l)
  BY <1>5 DEF Sleepers, At
<1>7. WaitersExact'
  BY <1>6 DEF SyncInv, WaitersExact, Sleepers, lockVars
<1>8. NoLostWakeup'
  BY <1>5 DEF SyncInv, NoLostWakeup, Awake, At, lockVars
<1> QED  BY <1>1, <1>2, <1>4, <1>7, <1>8 DEF SyncInv

(* lock_acquire up to sema_down.                                            *)
LEMMA LockAcquireSync ==
  ASSUME SyncInv, NEW l \in Locks, LockAcquire(l)
  PROVE  SyncInv'
<1> USE TasksAssumption, NullAssumption
<1>0. /\ cur \in Threads /\ cur # Idle /\ pc[cur] = "run" /\ LockTypes
      /\ UNCHANGED <<threadVars, value, waiters, holder>>
      /\ pc \in [Threads -> Pcs] /\ plock \in [Threads -> Locks]
  BY DEF SyncInv, CoreInv, LockAcquire, LockTypes
<1>1. CASE holder[l] # cur
  <2>1. /\ pc' = [pc EXCEPT ![cur] = "down"] /\ plock' = [plock EXCEPT ![cur] = l]
        /\ repeat' = repeat
    BY <1>1 DEF LockAcquire, GoTo
  <2>2. CoreInv' /\ SleepersExact' /\ WaitersExact' /\ NoLostWakeup'
    BY <1>0, <2>1, LocalStep DEF Pcs
  <2>3. LockTypes'
    BY <1>0, <2>1 DEF LockTypes, Pcs
  <2>4. \A t \in Threads, k \in Locks : Owns(t, k)' <=> Owns(t, k)
    BY <1>0, <2>1 DEF Owns, At
  <2>5. OneOwner'
    BY <1>0, <2>1, <2>4 DEF SyncInv, OneOwner
  <2>6. PcsExact'
    BY <1>0, <2>1 DEF SyncInv, PcsExact, At
  <2> QED  BY <2>2, <2>3, <2>5, <2>6 DEF SyncInv
<1>2. CASE holder[l] = cur
  <2>1. repeat' = [repeat EXCEPT ![l] = @ + 1] /\ pc' = pc /\ plock' = plock
    BY <1>2 DEF LockAcquire
  <2>2. CoreInv' /\ SleepersExact' /\ WaitersExact' /\ NoLostWakeup'
    <3>1. pc' = [pc EXCEPT ![cur] = "run"] /\ plock' = [plock EXCEPT ![cur] = plock[cur]]
      BY <1>0, <2>1
    <3>2. plock[cur] \in Locks
      BY <1>0
    <3> QED  BY <1>0, <3>1, <3>2, LocalStep DEF Pcs
  <2>3. LockTypes'
    BY <1>0, <2>1 DEF LockTypes
  <2>4. \A t \in Threads, k \in Locks : Owns(t, k)' <=> Owns(t, k)
    BY <1>0, <2>1 DEF Owns, At
  <2>5. Owns(cur, l) /\ value[l] # 1
    BY <1>0, <1>2 DEF SyncInv, OneOwner, Owns
  <2>6. OneOwner'
    BY <1>0, <2>1, <2>4, <2>5 DEF SyncInv, OneOwner, LockTypes
  <2>7. \A t \in Threads : plock[t] = l => pc[t] \notin {"set_holder", "set_repeat", "up"}
    BY <1>0, <1>2 DEF SyncInv, PcsExact
  <2>8. PcsExact'
    <3>1. repeat[l] \in Nat /\ repeat'[l] >= 1 /\ \A k \in Locks : k # l => repeat'[k] = repeat[k]
      BY <1>0, <2>1 DEF LockTypes
    <3> QED  BY <1>0, <2>1, <2>7, <3>1 DEF SyncInv, PcsExact, At
  <2> QED  BY <2>2, <2>3, <2>6, <2>8 DEF SyncInv
<1> QED  BY <1>1, <1>2

(* lock->holder = cur                                                       *)
LEMMA SetHolderSync ==
  ASSUME SyncInv, SetHolder
  PROVE  SyncInv'
<1> USE TasksAssumption, NullAssumption
<1> DEFINE l == plock[cur]
<1>0. /\ cur \in Threads /\ pc[cur] = "set_holder" /\ LockTypes /\ l \in Locks
      /\ UNCHANGED <<threadVars, value, waiters, repeat, plock>>
      /\ pc' = [pc EXCEPT ![cur] = "set_repeat"] /\ holder' = [holder EXCEPT ![l] = cur]
      /\ pc \in [Threads -> Pcs] /\ plock \in [Threads -> Locks]
  BY DEF SyncInv, CoreInv, SetHolder, LockTypes, GoTo
<1>1. cur # Idle
  BY <1>0 DEF SyncInv, SleepersExact
<1>2. CoreInv' /\ SleepersExact' /\ WaitersExact' /\ NoLostWakeup'
  <2>1. plock' = [plock EXCEPT ![cur] = l]
    BY <1>0
  <2> QED  BY <1>0, <1>1, <2>1, LocalStep DEF Pcs
<1>3. LockTypes'
  BY <1>0 DEF LockTypes, Pcs
<1>4. holder[l] = Null /\ repeat[l] = 0 /\ Owns(cur, l)
  BY <1>0 DEF SyncInv, PcsExact, Owns, At
<1>5. \A t \in Threads, k \in Locks : Owns(t, k)' <=> Owns(t, k)
  BY <1>0, <1>4 DEF Owns, At, LockTypes
<1>6. OneOwner'
  BY <1>0, <1>5 DEF SyncInv, OneOwner
<1>7. \A t \in Threads : t # cur /\ plock[t] = l
                          => pc[t] \notin {"set_holder", "set_repeat", "clear_repeat", "up"}
  BY <1>0, <1>4 DEF SyncInv, OneOwner, Owns, At
<1>8. PcsExact'
  BY <1>0, <1>4, <1>7 DEF SyncInv, PcsExact, At, LockTypes
<1> QED  BY <1>2, <1>3, <1>6, <1>8 DEF SyncInv

(* lock->holder_repeat_nr = 1                                               *)
LEMMA SetRepeatSync ==
  ASSUME SyncInv, SetRepeat
  PROVE  SyncInv'
<1> USE TasksAssumption, NullAssumption
<1> DEFINE l == plock[cur]
<1>0. /\ cur \in Threads /\ pc[cur] = "set_repeat" /\ LockTypes /\ l \in Locks
      /\ UNCHANGED <<threadVars, value, waiters, holder, plock>>
      /\ pc' = [pc EXCEPT ![cur] = "run"] /\ repeat' = [repeat EXCEPT ![l] = 1]
      /\ pc \in [Threads -> Pcs] /\ plock \in [Threads -> Locks]
  BY DEF SyncInv, CoreInv, SetRepeat, LockTypes, GoTo
<1>1. cur # Idle
  BY <1>0 DEF SyncInv, SleepersExact
<1>2. CoreInv' /\ SleepersExact' /\ WaitersExact' /\ NoLostWakeup'
  <2>1. plock' = [plock EXCEPT ![cur] = l]
    BY <1>0
  <2> QED  BY <1>0, <1>1, <2>1, LocalStep DEF Pcs
<1>3. LockTypes'
  BY <1>0 DEF LockTypes, Pcs
<1>4. holder[l] = cur /\ repeat[l] = 0 /\ Owns(cur, l)
  BY <1>0 DEF SyncInv, PcsExact, Owns, At
<1>5. \A t \in Threads, k \in Locks : Owns(t, k)' <=> Owns(t, k)
  BY <1>0, <1>4 DEF Owns, At, LockTypes
<1>6. value[l] # 1
  BY <1>0, <1>4 DEF SyncInv, OneOwner
<1>7. OneOwner'
  BY <1>0, <1>5, <1>6 DEF SyncInv, OneOwner, LockTypes
<1>8. \A t \in Threads : t # cur /\ plock[t] = l
                          => pc[t] \notin {"set_holder", "set_repeat", "clear_repeat", "up"}
  BY <1>0, <1>4 DEF SyncInv, OneOwner, Owns, At
<1>9. PcsExact'
  BY <1>0, <1>4, <1>8 DEF SyncInv, PcsExact, At, LockTypes
<1> QED  BY <1>2, <1>3, <1>7, <1>9 DEF SyncInv

(* lock_release up to lock->holder = NULL.                                  *)
LEMMA LockReleaseSync ==
  ASSUME SyncInv, NEW l \in Locks, LockRelease(l)
  PROVE  SyncInv'
<1> USE TasksAssumption, NullAssumption
<1>0. /\ cur \in Threads /\ cur # Idle /\ pc[cur] = "run" /\ LockTypes /\ holder[l] = cur
      /\ UNCHANGED <<threadVars, value, waiters>>
      /\ pc \in [Threads -> Pcs] /\ plock \in [Threads -> Locks]
      /\ repeat \in [Locks -> Nat]
  BY DEF SyncInv, CoreInv, LockRelease, LockTypes
<1>1. Owns(cur, l) /\ value[l] # 1
  BY <1>0 DEF SyncInv, OneOwner, Owns
<1>2. \A t \in Threads : plock[t] = l
                          => pc[t] \notin {"set_holder", "set_repeat", "clear_repeat", "up"}
  BY <1>0, <1>1 DEF SyncInv, OneOwner, Owns, At
<1>3. CASE repeat[l] > 1
  <2>1. repeat' = [repeat EXCEPT ![l] = @ - 1] /\ UNCHANGED <<holder, pc, plock>>
    BY <1>0, <1>3 DEF LockRelease
  <2>2. CoreInv' /\ SleepersExact' /\ WaitersExact' /\ NoLostWakeup'
    <3>1. pc' = [pc EXCEPT ![cur] = "run"] /\ plock' = [plock EXCEPT ![cur] = plock[cur]]
      BY <1>0, <2>1
    <3>2. plock[cur] \in Locks
      BY <1>0
    <3> QED  BY <1>0, <3>1, <3>2, LocalStep DEF Pcs
  <2>3. repeat[l] - 1 \in Nat /\ repeat[l] - 1 >= 1
    BY <1>0, <1>3
  <2>4. LockTypes'
    BY <1>0, <2>1, <2>3 DEF LockTypes
  <2>5. \A t \in Threads, k \in Locks : Owns(t, k)' <=> Owns(t, k)
    BY <1>0, <2>1 DEF Owns, At
  <2>6. OneOwner'
    BY <1>0, <1>1, <2>1, <2>5 DEF SyncInv, OneOwner, LockTypes
  <2>7. PcsExact'
    <3>1. repeat'[l] >= 1 /\ \A k \in Locks : k # l => repeat'[k] = repeat[k]
      BY <1>0, <2>1, <2>3
    <3> QED  BY <1>0, <1>2, <2>1, <3>1 DEF SyncInv, PcsExact, At
  <2> QED  BY <2>2, <2>4, <2>6, <2>7 DEF SyncInv
<1>4. CASE ~(repeat[l] > 1)
  <2>1. /\ holder' = [holder EXCEPT ![l] = Null] /\ repeat' = repeat
        /\ pc' = [pc EXCEPT ![cur] = "clear_repeat"] /\ plock' = [plock EXCEPT ![cur] = l]
    BY <1>0, <1>4 DEF LockRelease, GoTo
  <2>2. CoreInv' /\ SleepersExact' /\ WaitersExact' /\ NoLostWakeup'
    BY <1>0, <2>1, LocalStep DEF Pcs
  <2>3. LockTypes'
    BY <1>0, <2>1 DEF LockTypes, Pcs
  <2>4. \A t \in Threads, k \in Locks : Owns(t, k)' <=> Owns(t, k)
    <3>1. ASSUME NEW t \in Threads, NEW k \in Locks PROVE Owns(t, k)' <=> Owns(t, k)
      <4>1. CASE t = cur
        BY <1>0, <2>1, <4>1 DEF Owns, At, LockTypes
      <4>2. CASE t # cur
        BY <1>0, <2>1, <4>2 DEF Owns, At, LockTypes
      <4> QED  BY <4>1, <4>2
    <3> QED  BY <3>1
  <2>5. OneOwner'
    BY <1>0, <2>1, <2>4 DEF SyncInv, OneOwner
  <2>6. PcsExact'
    BY <1>0, <1>2, <2>1 DEF SyncInv, PcsExact, At, LockTypes
  <2> QED  BY <2>2, <2>3, <2>5, <2>6 DEF SyncInv
<1> QED  BY <1>3, <1>4

(* lock->holder_repeat_nr = 0                                               *)
LEMMA ClearRepeatSync ==
  ASSUME SyncInv, ClearRepeat
  PROVE  SyncInv'
<1> USE TasksAssumption, NullAssumption
<1> DEFINE l == plock[cur]
<1>0. /\ cur \in Threads /\ pc[cur] = "clear_repeat" /\ LockTypes /\ l \in Locks
      /\ UNCHANGED <<threadVars, value, waiters, holder, plock>>
      /\ pc' = [pc EXCEPT ![cur] = "up"] /\ repeat' = [repeat EXCEPT ![l] = 0]
      /\ pc \in [Threads -> Pcs] /\ plock \in [Threads -> Locks]
  BY DEF SyncInv, CoreInv, ClearRepeat, LockTypes, GoTo
<1>1. cur # Idle
  BY <1>0 DEF SyncInv, SleepersExact
<1>2. CoreInv' /\ SleepersExact' /\ WaitersExact' /\ NoLostWakeup'
  <2>1. plock' = [plock EXCEPT ![cur] = l]
    BY <1>0
  <2> QED  BY <1>0, <1>1, <2>1, LocalStep DEF Pcs
<1>3. LockTypes'
  BY <1>0 DEF LockTypes, Pcs
<1>4. holder[l] = Null
  BY <1>0 DEF SyncInv, PcsExact
<1>5. \A t \in Threads, k \in Locks : Owns(t, k)' <=> Owns(t, k)
  BY <1>0 DEF Owns, At, LockTypes
<1>6. OneOwner'
  BY <1>0, <1>5 DEF SyncInv, OneOwner, LockTypes
<1>7. PcsExact'
  BY <1>0, <1>4 DEF SyncInv, PcsExact, At, LockTypes
<1> QED  BY <1>2, <1>3, <1>6, <1>7 DEF SyncInv

(* sema_down takes the value: the lock gets an owner.                       *)
LEMMA DownTakeSync ==
  ASSUME SyncInv, pc[cur] = "down", DownTake(plock[cur]),
         UNCHANGED <<taskVars, idlepc, holder, repeat, plock>>
  PROVE  SyncInv'
<1> USE TasksAssumption, NullAssumption
<1> DEFINE l == plock[cur]
<1>a. /\ cur \in Threads /\ LockTypes /\ l \in Locks /\ status[cur] = "RUNNING"
      /\ UNCHANGED <<status, ready, cur, ticks, waiters>>
      /\ pc' = [pc EXCEPT ![cur] = "set_holder"]
      /\ pc \in [Threads -> Pcs] /\ plock \in [Threads -> Locks]
  BY DEF SyncInv, CoreInv, OneRunning, DownTake, LockTypes, GoTo
<1>b. value[l] = 1 /\ value' = [value EXCEPT ![l] = value[l] - 1]
  BY <1>a DEF DownTake, LockTypes
<1>0. /\ cur \in Threads /\ LockTypes /\ l \in Locks /\ value[l] = 1 /\ status[cur] = "RUNNING"
      /\ UNCHANGED <<status, ready, cur, ticks, waiters>>
      /\ pc' = [pc EXCEPT ![cur] = "set_holder"] /\ value' = [value EXCEPT ![l] = 0]
      /\ pc \in [Threads -> Pcs] /\ plock \in [Threads -> Locks]
  BY <1>a, <1>b
<1>1. CoreInv'
  BY <1>0 DEF SyncInv, CoreInv, ReadyListExact, OneRunning, IdleAvailable, ListExact
<1>2. LockTypes'
  BY <1>0 DEF LockTypes, Pcs
<1>3. \A t \in Threads : ~Owns(t, l)
  BY <1>0 DEF SyncInv, OneOwner
<1>4. /\ \A t \in Threads : Owns(t, l)' <=> t = cur
      /\ \A t \in Threads, k \in Locks \ {l} : Owns(t, k)' <=> Owns(t, k)
  BY <1>0, <1>3 DEF Owns, At, LockTypes
<1>5. OneOwner'
  <2>1. ASSUME NEW k \in Locks, k # l
        PROVE  /\ \A t, u \in Threads : Owns(t, k)' /\ Owns(u, k)' => t = u
               /\ value'[k] = 1 <=> \A t \in Threads : ~Owns(t, k)'
               /\ value'[k] = 1 => repeat'[k] = 0
    BY <1>0, <1>4, <2>1 DEF SyncInv, OneOwner, LockTypes
  <2>2. /\ \A t, u \in Threads : Owns(t, l)' /\ Owns(u, l)' => t = u
        /\ value'[l] = 0 /\ Owns(cur, l)'
    BY <1>0, <1>4 DEF LockTypes
  <2> QED  BY <1>0, <2>1, <2>2 DEF OneOwner
<1>6. holder[l] = Null /\ repeat[l] = 0
  BY <1>0, <1>3 DEF SyncInv, OneOwner, Owns, LockTypes
<1>7. PcsExact'
  BY <1>0, <1>6 DEF SyncInv, PcsExact, At, LockTypes
<1>8. SleepersExact'
  BY <1>0 DEF SyncInv, SleepersExact
<1>9. ASSUME NEW k \in Locks PROVE Sleepers(k)' = Sleepers(k)
  BY <1>0 DEF Sleepers, At
<1>10. WaitersExact'
  BY <1>0, <1>9 DEF SyncInv, WaitersExact, Sleepers
<1>11. NoLostWakeup'
  <2>1. \A k \in Locks : value'[k] = 1 => k # l /\ value[k] = 1
    BY <1>0 DEF LockTypes
  <2>2. \A t \in Threads, k \in Locks : k # l /\ At(t, "down", k) => At(t, "down", k)'
    BY <1>0 DEF At
  <2> QED  BY <1>0, <2>1, <2>2 DEF SyncInv, NoLostWakeup
<1> QED  BY <1>1, <1>2, <1>5, <1>7, <1>8, <1>10, <1>11 DEF SyncInv

(* sema_down queues the task and blocks it: the lock has an owner, so it    *)
(* will be woken.                                                           *)
LEMMA DownBlockSync ==
  ASSUME SyncInv, pc[cur] = "down", DownBlock(plock[cur]),
         UNCHANGED <<taskVars, idlepc, holder, repeat, plock>>
  PROVE  SyncInv'
<1> USE TasksAssumption, NullAssumption
<1>l. PICK l \in Locks : l = plock[cur]
  BY DEF SyncInv, LockTypes, CoreInv
<1>0. /\ cur \in Threads /\ LockTypes /\ l = plock[cur] /\ value[l] = 0 /\ status[cur] = "RUNNING"
      /\ cur # Idle /\ UNCHANGED <<value, pc, plock, holder, repeat>>
      /\ waiters' = [waiters EXCEPT ![l] = Append(waiters[l], cur)] /\ waiters[l] \in Seq(Threads)
      /\ pc \in [Threads -> Pcs] /\ plock \in [Threads -> Locks] /\ ThreadBlock("BLOCKED")
      /\ status \in [Threads -> Statuses]
  BY <1>l DEF SyncInv, CoreInv, OneRunning, SleepersExact, DownBlock, LockTypes
<1>1. /\ CoreInv' /\ cur' \in Threads /\ (status[cur'] = "READY" \/ cur' = Idle)
      /\ status' = [[status EXCEPT ![cur] = "BLOCKED"] EXCEPT ![cur'] = "RUNNING"]
  BY <1>0, BlockCore DEF SyncInv
<1>2. /\ status'[cur] = "BLOCKED"
      /\ \A t \in Threads : t # cur /\ t # Idle =>
            status'[t] = status[t] \/ (status[t] = "READY" /\ status'[t] = "RUNNING")
  BY <1>0, <1>1
<1>3. cur \notin Sleepers(l) /\ Append(waiters[l], cur) \in Seq(Threads)
      /\ QueueExact(Sleepers(l) \union {cur}, Append(waiters[l], cur))
  <2>1. cur \notin Sleepers(l)
    BY <1>0 DEF Sleepers
  <2>2. QueueExact(Sleepers(l), waiters[l])
    BY <1>0, WaitersQueue DEF SyncInv
  <2> QED  BY <1>0, <2>1, <2>2, QueueAppend
<1>4. LockTypes'
  BY <1>0, <1>3 DEF LockTypes
<1>5. OneOwner'
  <2>1. \A t \in Threads, k \in Locks : Owns(t, k)' <=> Owns(t, k)
    BY <1>0 DEF Owns, At
  <2> QED  BY <1>0, <2>1 DEF SyncInv, OneOwner
<1>6. PcsExact'
  BY <1>0 DEF SyncInv, PcsExact, At
<1>7. SleepersExact'
  <2>1. status'[Idle] \in {"RUNNING", "READY", "BLOCKED"}
    BY <1>1 DEF CoreInv, IdleAvailable
  <2> QED  BY <1>0, <1>2, <2>1 DEF SyncInv, SleepersExact
<1>8. /\ Sleepers(l)' = Sleepers(l) \union {cur}
      /\ \A k \in Locks \ {l} : Sleepers(k)' = Sleepers(k)
  <2>1. \A t \in Threads \ {cur} : pc[t] = "down" => (status'[t] = "BLOCKED" <=> status[t] = "BLOCKED")
    BY <1>2 DEF SyncInv, SleepersExact
  <2> QED  BY <1>0, <1>2, <2>1 DEF Sleepers, At
<1>9. WaitersExact'
  <2>1. ASSUME NEW k \in Locks PROVE QueueExact(Sleepers(k)', waiters'[k])
    <3>1. CASE k = l
      BY <1>0, <1>3, <1>8, <3>1 DEF LockTypes
    <3>2. CASE k # l
      BY <1>0, <1>8, <3>2, WaitersQueue DEF SyncInv, LockTypes
    <3> QED  BY <3>1, <3>2
  <2> QED  BY <2>1 DEF WaitersExact, QueueExact, Sleepers
<1>10. NoLostWakeup'
  <2>1. ASSUME NEW k \in Locks, waiters'[k] # <<>>, value'[k] = 1
        PROVE  \E t \in Threads : At(t, "down", k)' /\ status'[t] \in {"READY", "RUNNING"}
    <3>1. k # l /\ value[k] = 1 /\ waiters[k] # <<>>
      BY <1>0, <2>1 DEF LockTypes
    <3>2. PICK t \in Threads : At(t, "down", k) /\ status[t] \in {"READY", "RUNNING"}
      BY <3>1 DEF SyncInv, NoLostWakeup
    <3>3. t # cur /\ t # Idle
      BY <1>0, <3>1, <3>2 DEF At, SyncInv, SleepersExact
    <3> QED  BY <1>0, <1>2, <3>2, <3>3 DEF At
  <2> QED  BY <2>1 DEF NoLostWakeup
<1> QED  BY <1>1, <1>4, <1>5, <1>6, <1>7, <1>9, <1>10 DEF SyncInv

(* sema_up wakes the first waiter and gives the value back.                 *)
LEMMA SemaUpSync ==
  ASSUME SyncInv, SemaUp
  PROVE  SyncInv'
<1> USE TasksAssumption, NullAssumption
<1>l. PICK l \in Locks : l = plock[cur]
  BY DEF SyncInv, LockTypes, CoreInv
<1>q. PICK q \in Seq(Threads) : q = waiters[l]
  BY DEF SyncInv, LockTypes
<1>a. /\ cur \in Threads /\ LockTypes /\ l = plock[cur] /\ pc[cur] = "up" /\ status[cur] = "RUNNING"
      /\ UNCHANGED <<taskVars, idlepc, holder, repeat, plock>> /\ UpWake(l)
      /\ value' = [value EXCEPT ![l] = value[l] + 1] /\ q = waiters[l]
      /\ pc' = [pc EXCEPT ![cur] = "run"] /\ cur # Idle
      /\ pc \in [Threads -> Pcs] /\ plock \in [Threads -> Locks]
      /\ status \in [Threads -> Statuses]
  BY <1>l, <1>q DEF SyncInv, CoreInv, OneRunning, SemaUp, LockTypes, GoTo, SleepersExact
<1>b. Owns(cur, l) /\ value[l] = 0 /\ repeat[l] = 0 /\ holder[l] = Null
  BY <1>a DEF Owns, At, SyncInv, OneOwner, LockTypes, PcsExact
<1>0. value' = [value EXCEPT ![l] = 1]
  BY <1>a, <1>b
<1>1. QueueExact(Sleepers(l), q)
  BY <1>a, WaitersQueue DEF SyncInv
<1>2. /\ CoreInv' /\ cur' = cur /\ waiters' \in [Locks -> Seq(Threads)]
      /\ \A k \in Locks \ {l} : waiters'[k] = waiters[k]
      /\ \/ q = <<>> /\ waiters' = waiters /\ status' = status
         \/ /\ q # <<>> /\ Head(q) \in Sleepers(l) /\ status' = [status EXCEPT ![Head(q)] = "READY"]
            /\ QueueExact(Sleepers(l) \ {Head(q)}, waiters'[l])
  <2>1. CASE q = <<>>
    <3>1. UNCHANGED <<status, ready, cur, ticks, waiters>>
      BY <1>a, <2>1 DEF UpWake
    <3> QED  BY <1>a, <2>1, <3>1 DEF SyncInv, CoreInv, ReadyListExact, OneRunning, IdleAvailable,
                                     ListExact, LockTypes
  <2>2. CASE q # <<>>
    <3>1. ThreadUnblock(Head(q)) /\ waiters' = [waiters EXCEPT ![l] = Tail(q)]
      BY <1>a, <2>2 DEF UpWake
    <3>2. /\ Head(q) \in Threads /\ Head(q) \in Sleepers(l) /\ Tail(q) \in Seq(Threads)
          /\ QueueExact(Sleepers(l) \ {Head(q)}, Tail(q))
      BY <1>1, <2>2, QueueTail
    <3>3. status[Head(q)] = "BLOCKED"
      BY <3>2 DEF Sleepers
    <3>4. CoreInv'
      BY <3>1, <3>2, <3>3, UnblockCore DEF SyncInv
    <3>5. cur' = cur /\ status' = [status EXCEPT ![Head(q)] = "READY"]
      BY <3>1 DEF ThreadUnblock
    <3>6. waiters' \in [Locks -> Seq(Threads)] /\ waiters'[l] = Tail(q)
          /\ \A k \in Locks \ {l} : waiters'[k] = waiters[k]
      BY <1>a, <3>1, <3>2 DEF LockTypes
    <3> QED  BY <2>2, <3>2, <3>4, <3>5, <3>6
  <2> QED  BY <2>1, <2>2
<1>3. LockTypes'
  BY <1>a, <1>0, <1>2 DEF LockTypes, Pcs
<1>4. /\ \A t \in Threads : ~Owns(t, l)'
      /\ \A t \in Threads, k \in Locks \ {l} : Owns(t, k)' <=> Owns(t, k)
  <2>1. \A t \in Threads : t # cur => ~Owns(t, l)
    BY <1>a, <1>b DEF SyncInv, OneOwner
  <2> QED  BY <1>a, <1>b, <2>1 DEF Owns, At, LockTypes
<1>5. OneOwner'
  <2>1. ASSUME NEW k \in Locks, k # l
        PROVE  /\ \A t, u \in Threads : Owns(t, k)' /\ Owns(u, k)' => t = u
               /\ value'[k] = 1 <=> \A t \in Threads : ~Owns(t, k)'
               /\ value'[k] = 1 => repeat'[k] = 0
    BY <1>a, <1>0, <1>4, <2>1 DEF SyncInv, OneOwner, LockTypes
  <2>2. value'[l] = 1 /\ repeat'[l] = 0
    BY <1>a, <1>b, <1>0 DEF LockTypes
  <2> QED  BY <1>a, <1>4, <2>1, <2>2 DEF OneOwner
<1>6. PcsExact'
  BY <1>a, <1>b DEF SyncInv, PcsExact, At, LockTypes
<1>7. SleepersExact'
  <2>1. \A t \in Threads : status'[t] = status[t] \/ (t \in Sleepers(l) /\ status'[t] = "READY")
    BY <1>a, <1>2
  <2> QED  BY <1>a, <2>1 DEF SyncInv, SleepersExact, Sleepers, At
<1>8. WaitersExact'
  <2>1. /\ \A k \in Locks \ {l} : Sleepers(k)' = Sleepers(k)
        /\ Sleepers(l)' = {t \in Sleepers(l) : status'[t] = "BLOCKED"}
    BY <1>a, <1>2 DEF Sleepers, At
  <2>2. QueueExact(Sleepers(l)', waiters'[l])
    <3>1. CASE q = <<>>
      <4>1. status' = status /\ waiters' = waiters
        BY <1>2, <3>1
      <4>2. Sleepers(l)' = Sleepers(l)
        BY <2>1, <4>1 DEF Sleepers
      <4> QED  BY <1>1, <1>q, <4>1, <4>2
    <3>2. CASE q # <<>>
      <4>1. Sleepers(l)' = Sleepers(l) \ {Head(q)}
        BY <1>a, <1>2, <2>1, <3>2 DEF Sleepers
      <4> QED  BY <1>2, <3>2, <4>1
    <3> QED  BY <3>1, <3>2
  <2>3. \A k \in Locks \ {l} : QueueExact(Sleepers(k)', waiters'[k])
    BY <1>2, <2>1, WaitersQueue DEF SyncInv
  <2> QED  BY <2>2, <2>3 DEF WaitersExact, QueueExact, Sleepers
<1>9. NoLostWakeup'
  <2>1. ASSUME NEW k \in Locks, waiters'[k] # <<>>, value'[k] = 1
        PROVE  \E t \in Threads : At(t, "down", k)' /\ status'[t] \in {"READY", "RUNNING"}
    <3>1. CASE k = l
      <4>1. q # <<>>
        BY <1>q, <1>2, <2>1, <3>1
      <4>2. /\ Head(q) \in Threads /\ At(Head(q), "down", l) /\ status'[Head(q)] = "READY"
            /\ Head(q) # cur
        BY <1>a, <1>2, <4>1 DEF Sleepers, At
      <4> QED  BY <1>a, <3>1, <4>2 DEF At
    <3>2. CASE k # l
      <4>1. PICK t \in Threads : At(t, "down", k) /\ status[t] \in {"READY", "RUNNING"}
        BY <1>0, <1>2, <2>1, <3>2 DEF SyncInv, NoLostWakeup, LockTypes
      <4>2. t # cur /\ status'[t] = status[t]
        BY <1>a, <1>2, <3>2, <4>1 DEF At, Sleepers
      <4> QED  BY <1>a, <4>1, <4>2 DEF At
    <3> QED  BY <3>1, <3>2
  <2> QED  BY <2>1 DEF NoLostWakeup
<1> QED  BY <1>2, <1>3, <1>5, <1>6, <1>7, <1>8, <1>9 DEF SyncInv

(* A client goes to sleep on a device, with or without locks.               *)
LEMMA SleepSync ==
  ASSUME SyncInv, Sleep
  PROVE  SyncInv'
<1> USE TasksAssumption, NullAssumption
<1>0. /\ cur \in Threads /\ cur # Idle /\ pc[cur] = "run" /\ status[cur] = "RUNNING"
      /\ pc' = [pc EXCEPT ![cur] = "asleep"] /\ UNCHANGED <<value, waiters, holder, repeat, plock>>
      /\ pc \in [Threads -> Pcs] /\ plock \in [Threads -> Locks] /\ ThreadBlock("BLOCKED")
      /\ status \in [Threads -> Statuses]
  BY DEF SyncInv, CoreInv, OneRunning, Sleep, Block, GoTo, LockTypes, lockVars
<1>1. /\ CoreInv' /\ cur' \in Threads /\ (status[cur'] = "READY" \/ cur' = Idle)
      /\ status' = [[status EXCEPT ![cur] = "BLOCKED"] EXCEPT ![cur'] = "RUNNING"]
  BY <1>0, BlockCore DEF SyncInv
<1>2. /\ status'[cur] = "BLOCKED"
      /\ \A t \in Threads : t # cur /\ t # Idle =>
            status'[t] = status[t] \/ (status[t] = "READY" /\ status'[t] = "RUNNING")
  BY <1>0, <1>1
<1>3. LockTypes'
  BY <1>0 DEF SyncInv, LockTypes, Pcs
<1>4. OneOwner'
  <2>1. \A t \in Threads, k \in Locks : Owns(t, k)' <=> Owns(t, k)
    BY <1>0 DEF Owns, At
  <2> QED  BY <1>0, <2>1 DEF SyncInv, OneOwner
<1>5. PcsExact'
  BY <1>0 DEF SyncInv, PcsExact, At
<1>6. SleepersExact'
  <2>1. status'[Idle] \in {"RUNNING", "READY", "BLOCKED"}
    BY <1>1 DEF CoreInv, IdleAvailable
  <2> QED  BY <1>0, <1>2, <2>1 DEF SyncInv, SleepersExact
<1>7. \A t \in Threads : pc[t] = "down" =>
         /\ t # cur /\ (status'[t] = "BLOCKED" <=> status[t] = "BLOCKED")
         /\ status[t] \in {"READY", "RUNNING"} => status'[t] \in {"READY", "RUNNING"}
  BY <1>0, <1>2 DEF SyncInv, SleepersExact
<1>8. ASSUME NEW k \in Locks PROVE Sleepers(k)' = Sleepers(k)
  BY <1>0, <1>7 DEF Sleepers, At
<1>9. WaitersExact'
  BY <1>0, <1>8 DEF SyncInv, WaitersExact, Sleepers
<1>10. NoLostWakeup'
  BY <1>0, <1>7 DEF SyncInv, NoLostWakeup, At
<1> QED  BY <1>1, <1>3, <1>4, <1>5, <1>6, <1>9, <1>10 DEF SyncInv

(* The device's interrupt wakes it.                                         *)
LEMMA DeviceIntrSync ==
  ASSUME SyncInv, NEW d \in Threads, DeviceIntr(d)
  PROVE  SyncInv'
<1> USE TasksAssumption, NullAssumption
<1>0. /\ pc[d] = "asleep" /\ status[d] = "BLOCKED" /\ d # Idle /\ ThreadUnblock(d)
      /\ pc' = [pc EXCEPT ![d] = "run"] /\ UNCHANGED <<value, waiters, holder, repeat, plock>>
      /\ pc \in [Threads -> Pcs] /\ plock \in [Threads -> Locks]
      /\ status \in [Threads -> Statuses]
  BY DEF SyncInv, CoreInv, DeviceIntr, IntrUnblock, LockTypes, lockVars
<1>1. CoreInv'
  BY <1>0, UnblockCore DEF SyncInv
<1>2. status' = [status EXCEPT ![d] = "READY"]
  BY <1>0 DEF ThreadUnblock
<1>3. LockTypes'
  BY <1>0 DEF SyncInv, LockTypes, Pcs
<1>4. OneOwner'
  <2>1. \A t \in Threads, k \in Locks : Owns(t, k)' <=> Owns(t, k)
    BY <1>0 DEF Owns, At
  <2> QED  BY <1>0, <2>1 DEF SyncInv, OneOwner
<1>5. PcsExact'
  BY <1>0 DEF SyncInv, PcsExact, At
<1>6. SleepersExact'
  BY <1>0, <1>2 DEF SyncInv, SleepersExact
<1>7. ASSUME NEW k \in Locks PROVE Sleepers(k)' = Sleepers(k)
  BY <1>0, <1>2 DEF Sleepers, At
<1>8. WaitersExact'
  BY <1>0, <1>7 DEF SyncInv, WaitersExact, Sleepers
<1>9. NoLostWakeup'
  BY <1>0, <1>2 DEF SyncInv, NoLostWakeup, At
<1> QED  BY <1>1, <1>3, <1>4, <1>5, <1>6, <1>8, <1>9 DEF SyncInv

(* The scheduler's own steps: thread_start, thread_yield, the timer, idle.  *)
LEMMA SchedulerStepSync ==
  ASSUME SyncInv, SchedulerStep
  PROVE  SyncInv'
<1> USE TasksAssumption
<1>0. UNCHANGED <<lockVars, pc, plock>> /\ CoreInv
  BY DEF SchedulerStep, SyncInv
<1>1. ASSUME NEW t \in Threads, Start(t) PROVE SyncInv'
  <2>1. /\ CoreInv' /\ status[t] = "NULL" /\ t # Idle
        /\ status' = [status EXCEPT ![t] = "READY"] /\ status \in [Threads -> Statuses]
    BY <1>0, <1>1, StartCore DEF CoreInv
  <2>2. pc[t] = "run"
    BY <2>1 DEF SyncInv, SleepersExact
  <2>3. LockTypes' /\ PcsExact'
    BY <1>0 DEF SyncInv, LockTypes, PcsExact, At, lockVars
  <2>4. OneOwner'
    <3>1. \A u \in Threads, l \in Locks : Owns(u, l)' <=> Owns(u, l)
      BY <1>0 DEF Owns, At, lockVars
    <3> QED  BY <1>0, <3>1 DEF SyncInv, OneOwner, lockVars
  <2>5. SleepersExact'
    BY <1>0, <2>1, <2>2 DEF SyncInv, SleepersExact
  <2>6. ASSUME NEW k \in Locks PROVE Sleepers(k)' = Sleepers(k)
    BY <1>0, <2>1, <2>2 DEF Sleepers, At
  <2>7. WaitersExact'
    BY <1>0, <2>6 DEF SyncInv, WaitersExact, Sleepers, lockVars
  <2>8. NoLostWakeup'
    BY <1>0, <2>1 DEF SyncInv, NoLostWakeup, At, lockVars
  <2> QED  BY <2>1, <2>3, <2>4, <2>5, <2>7, <2>8 DEF SyncInv
<1>2. CASE Yield
  <2>1. ticks' \in [Threads -> 0..255] /\ \A t \in Threads : ticks'[t] <= Prio[t]
    BY <1>0, <1>2 DEF Yield, ThreadYield, CoreInv
  <2>2. CoreInv' /\ SameAwake
    BY <1>0, <1>2, <2>1, RequeueCore DEF Yield, ThreadYield
  <2> QED  BY <1>0, <2>2, SchedStep
<1>3. CASE TimerTick
  <2>1. CoreInv' /\ SameAwake
    BY <1>0, <1>3, TimerCore DEF TimerTick
  <2> QED  BY <1>0, <2>1, SchedStep
<1>4. CASE IdleBlock
  <2>1. /\ CoreInv' /\ status' = [[status EXCEPT ![cur] = "BLOCKED"] EXCEPT ![cur'] = "RUNNING"]
        /\ cur' \in Threads /\ (status[cur'] = "READY" \/ cur' = Idle) /\ cur = Idle
    BY <1>0, <1>4, BlockCore DEF IdleBlock
  <2>2. SameAwake
    BY <1>0, <2>1 DEF SameAwake, Awake, CoreInv
  <2> QED  BY <1>0, <2>1, <2>2, SchedStep
<1>5. CASE IdleHalt
  <2>1. CoreInv' /\ SameAwake
    BY <1>0, <1>5 DEF IdleHalt, CoreInv, SameAwake, ReadyListExact, ListExact, OneRunning, IdleAvailable
  <2> QED  BY <1>0, <2>1, SchedStep
<1> QED  BY <1>1, <1>2, <1>3, <1>4, <1>5 DEF SchedulerStep

(* Every step keeps the invariant.                                          *)
LEMMA NextSync ==
  ASSUME SyncInv, [Next]_vars
  PROVE  SyncInv'
<1>1. ASSUME NEW l \in Locks, LockAcquire(l) PROVE SyncInv'
  BY <1>1, LockAcquireSync
<1>2. CASE SemaDown
  BY <1>2, DownBlockSync, DownTakeSync DEF SemaDown
<1>3. CASE SetHolder
  BY <1>3, SetHolderSync
<1>4. CASE SetRepeat
  BY <1>4, SetRepeatSync
<1>5. ASSUME NEW l \in Locks, LockRelease(l) PROVE SyncInv'
  BY <1>5, LockReleaseSync
<1>6. CASE ClearRepeat
  BY <1>6, ClearRepeatSync
<1>7. CASE SemaUp
  BY <1>7, SemaUpSync
<1>8. CASE Sleep
  BY <1>8, SleepSync
<1>9. ASSUME NEW t \in Threads, DeviceIntr(t) PROVE SyncInv'
  BY <1>9, DeviceIntrSync
<1>10. CASE SchedulerStep
  BY <1>10, SchedulerStepSync
<1>11. CASE UNCHANGED vars
  <2>1. CoreInv' /\ SameAwake /\ UNCHANGED <<lockVars, pc, plock>>
    BY <1>11 DEF vars, threadVars, SyncInv, CoreInv, SameAwake, ReadyListExact, ListExact,
                 OneRunning, IdleAvailable
  <2> QED  BY <2>1, SchedStep
<1> QED  BY <1>1, <1>2, <1>3, <1>4, <1>5, <1>6, <1>7, <1>8, <1>9, <1>10, <1>11 DEF Next

(* The invariant holds throughout.                                          *)
LEMMA SpecSync == Spec => []SyncInv
BY InitSync, NextSync, PTL DEF Spec

(* The ASSERTs of sync.c hold where they are executed, whatever the tasks   *)
(* do with the locks and whenever the timer preempts them.                  *)
THEOREM AssertsHold == Spec => []SyncAsserts
<1>1. SyncInv => SyncAsserts
  <2> SUFFICES ASSUME SyncInv, NEW t \in Threads
               PROVE  /\ pc[t] = "set_repeat" => repeat[plock[t]] = 0
                      /\ pc[t] = "set_repeat" => holder[plock[t]] = t
                      /\ pc[t] = "up" => value[plock[t]] = 0 /\ repeat[plock[t]] = 0
                      /\ pc[t] = "run" => \A l \in Locks : holder[l] = t => repeat[l] >= 1
                      /\ pc[t] = "down" /\ t = cur =>
                           \A i \in 1..Len(waiters[plock[t]]) : waiters[plock[t]][i] # t
    BY DEF SyncAsserts
  <2>1. pc[t] = "up" => value[plock[t]] = 0
    BY DEF SyncInv, LockTypes, OneOwner, Owns, At
  <2>2. t = cur => status[t] = "RUNNING"
    BY DEF SyncInv, CoreInv, OneRunning
  <2>3. pc[t] = "down" /\ t = cur =>
          \A i \in 1..Len(waiters[plock[t]]) : waiters[plock[t]][i] # t
    BY <2>2 DEF SyncInv, WaitersExact, LockTypes
  <2> QED  BY <2>1, <2>3 DEF SyncInv, PcsExact, At
<1> QED  BY <1>1, SpecSync, PTL

(* The waiters of a semaphore are exactly the tasks blocked in its          *)
(* sema_down, each queued once.                                             *)
THEOREM WaitQueuesExact == Spec => []WaitersExact
<1>1. SyncInv => WaitersExact
  BY DEF SyncInv
<1> QED  BY <1>1, SpecSync, PTL

(* No wakeup is lost: while a task sleeps on a free lock, another one is    *)
(* awake in sema_down for it.                                               *)
THEOREM WakeupsNotLost == Spec => []NoLostWakeup
<1>1. SyncInv => NoLostWakeup
  BY DEF SyncInv
<1> QED  BY <1>1, SpecSync, PTL

-----------------------------------------------------------------------------
(* Sync and Thread have the operations of Sched in common.                  *)
LEMMA SameOperations ==
  /\ ThreadInit => T!ThreadInit
  /\ \A t \in Threads : Start(t) => T!SchedNext
  /\ cur # Idle /\ ThreadBlock("BLOCKED") /\ UNCHANGED <<taskVars, idlepc>> => T!SchedNext
  /\ \A t \in Threads : cur # Idle /\ t # Idle /\ status[t] = "BLOCKED" /\ ThreadUnblock(t)
                            /\ UNCHANGED <<taskVars, idlepc>> => T!SchedNext
  /\ \A t \in Threads : IntrUnblock(t) => T!SchedNext
  /\ Yield \/ TimerTick \/ IdleBlock \/ IdleHalt => T!SchedNext
<1>1. ThreadInit => T!ThreadInit
  BY DEF ThreadInit, T!ThreadInit
<1>2. ASSUME NEW t \in Threads, Start(t) PROVE T!SchedNext
  <2>1. T!Start(t)
    BY <1>2 DEF Start, NewTask, FirstFree, T!Start, T!NewTask, T!FirstFree
  <2> QED  BY <2>1 DEF T!SchedNext
<1>3. ASSUME cur # Idle, ThreadBlock("BLOCKED"), UNCHANGED <<taskVars, idlepc>> PROVE T!SchedNext
  <2>1. T!Block("BLOCKED")
    BY <1>3 DEF ThreadBlock, Dispatch, taskVars, T!Block, T!ThreadBlock, T!Dispatch, T!taskVars
  <2> QED  BY <2>1 DEF T!SchedNext
<1>4. ASSUME NEW t \in Threads, cur # Idle, t # Idle, status[t] = "BLOCKED", ThreadUnblock(t),
             UNCHANGED <<taskVars, idlepc>>
      PROVE  T!SchedNext
  <2>1. T!Unblock(t)
    BY <1>4 DEF ThreadUnblock, taskVars, T!Unblock, T!ThreadUnblock, T!taskVars
  <2> QED  BY <2>1 DEF T!SchedNext
<1>5. ASSUME NEW t \in Threads, IntrUnblock(t) PROVE T!SchedNext
  <2>1. T!IntrUnblock(t)
    BY <1>5 DEF IntrUnblock, ThreadUnblock, WakeHlt, taskVars,
                T!IntrUnblock, T!ThreadUnblock, T!WakeHlt, T!taskVars
  <2> QED  BY <2>1 DEF T!SchedNext
<1>6. Yield => T!Yield
  BY DEF Yield, ThreadYield, Dispatch, taskVars, T!Yield, T!ThreadYield, T!Dispatch, T!taskVars
<1>7. TimerTick => T!TimerTick
  BY DEF TimerTick, TimerHandler, ScheduleRunning, Dispatch, WakeHlt, taskVars,
         T!TimerTick, T!TimerHandler, T!ScheduleRunning, T!Dispatch, T!WakeHlt, T!taskVars
<1>8. IdleBlock => T!IdleBlock
  BY DEF IdleBlock, ThreadBlock, Dispatch, taskVars, T!IdleBlock, T!ThreadBlock, T!Dispatch, T!taskVars
<1>9. IdleHalt => T!IdleHalt
  BY DEF IdleHalt, taskVars, T!IdleHalt, T!taskVars
<1>10. Yield \/ TimerTick \/ IdleBlock \/ IdleHalt => T!SchedNext
  BY <1>6, <1>7, <1>8, <1>9 DEF T!SchedNext
<1> QED  BY <1>1, <1>2, <1>3, <1>4, <1>5, <1>10

(* Each step of Sync is a legal step of the scheduler or none of its        *)
(* business.                                                                *)
LEMMA StepThread ==
  ASSUME SyncInv, [Next]_vars
  PROVE  [T!SchedNext]_(T!threadVars)
<1> USE DEF T!threadVars, threadVars
<1>1. ASSUME NEW l \in Locks, LockAcquire(l) PROVE UNCHANGED T!threadVars
  BY <1>1 DEF LockAcquire
<1>2. CASE SemaDown
  <2>1. CASE DownBlock(plock[cur])
    <3>1. cur # Idle
      BY <1>2 DEF SemaDown, SyncInv, SleepersExact
    <3> QED  BY <1>2, <2>1, <3>1, SameOperations DEF SemaDown, DownBlock
  <2>2. CASE DownTake(plock[cur])
    BY <1>2, <2>2 DEF SemaDown, DownTake, taskVars
  <2> QED  BY <1>2, <2>1, <2>2 DEF SemaDown
<1>3. CASE SetHolder \/ SetRepeat \/ ClearRepeat
  BY <1>3 DEF SetHolder, SetRepeat, ClearRepeat
<1>4. ASSUME NEW l \in Locks, LockRelease(l) PROVE UNCHANGED T!threadVars
  BY <1>4 DEF LockRelease
<1>5. CASE SemaUp
  <2>1. PICK l \in Locks : l = plock[cur]
    BY DEF SyncInv, LockTypes, CoreInv
  <2>2. /\ cur # Idle /\ UpWake(l) /\ UNCHANGED <<taskVars, idlepc>>
        /\ waiters[l] \in Seq(Threads)
    BY <1>5, <2>1 DEF SemaUp, SyncInv, SleepersExact, LockTypes
  <2>3. CASE waiters[l] = <<>>
    BY <2>2, <2>3 DEF UpWake, taskVars
  <2>4. CASE waiters[l] # <<>>
    <3>1. QueueExact(Sleepers(l), waiters[l])
      BY WaitersQueue DEF SyncInv
    <3>2. Head(waiters[l]) \in Threads /\ Head(waiters[l]) \in Sleepers(l)
      BY <2>2, <2>4, <3>1, QueueTail
    <3>3. status[Head(waiters[l])] = "BLOCKED" /\ Head(waiters[l]) # Idle
      BY <3>2 DEF Sleepers, At, SyncInv, SleepersExact
    <3>4. ThreadUnblock(Head(waiters[l]))
      BY <2>2, <2>4 DEF UpWake
    <3> QED  BY <2>2, <3>2, <3>3, <3>4, SameOperations
  <2> QED  BY <2>3, <2>4
<1>6. CASE Sleep
  BY <1>6, SameOperations DEF Sleep, Block
<1>7. ASSUME NEW t \in Threads, DeviceIntr(t) PROVE T!SchedNext
  BY <1>7, SameOperations DEF DeviceIntr
<1>8. CASE SchedulerStep
  BY <1>8, SameOperations DEF SchedulerStep
<1>9. CASE UNCHANGED vars
  BY <1>9 DEF vars
<1> QED  BY <1>1, <1>2, <1>3, <1>4, <1>5, <1>6, <1>7, <1>8, <1>9 DEF Next

(* sync.c uses the scheduler legally: it blocks only the current task, and  *)
(* thread_unblock only meets blocked tasks.                                 *)
THEOREM ImplementsThread == Spec => ThreadSpec
<1>1. Init => T!ThreadInit
  BY SameOperations DEF Init
<1>2. SyncInv /\ [Next]_vars => [T!SchedNext]_(T!threadVars)
  BY StepThread
<1> QED  BY <1>1, <1>2, SpecSync, PTL DEF Spec, ThreadSpec, T!SchedSpec

-----------------------------------------------------------------------------
(* What the abstract mutex sees of a state.                                 *)
AbsFacts ==
    /\ AbsOwner = [l \in Locks |-> AbsOwner[l]] /\ AbsDepth = [l \in Locks |-> AbsDepth[l]]
    /\ \A l \in Locks :
         /\ \A t \in Threads : Owns(t, l) => AbsOwner[l] = t
         /\ (\A t \in Threads : ~Owns(t, l)) => AbsOwner[l] = Null /\ AbsDepth[l] = 0
         /\ (\E t \in Threads : Owns(t, l)) =>
              AbsDepth[l] = IF holder[l] # Null /\ repeat[l] > 1 THEN repeat[l] ELSE 1

(* The owner is unique, so AbsOwner is it.                                  *)
LEMMA AbsState == SyncInv => AbsFacts
<1> SUFFICES ASSUME SyncInv PROVE AbsFacts
  OBVIOUS
<1> USE NullAssumption
<1>1. AbsOwner = [l \in Locks |-> AbsOwner[l]] /\ AbsDepth = [l \in Locks |-> AbsDepth[l]]
  BY DEF AbsOwner, AbsDepth
<1>2. ASSUME NEW l \in Locks, NEW t \in Threads, Owns(t, l) PROVE AbsOwner[l] = t
  <2>1. AbsOwner[l] = CHOOSE u \in Threads : Owns(u, l)
    BY <1>2 DEF AbsOwner
  <2>2. \A u \in Threads : Owns(u, l) => u = t
    BY <1>2 DEF SyncInv, OneOwner
  <2> QED  BY <1>2, <2>1, <2>2
<1>3. ASSUME NEW l \in Locks, \A t \in Threads : ~Owns(t, l)
      PROVE  AbsOwner[l] = Null /\ AbsDepth[l] = 0
  BY <1>3 DEF AbsOwner, AbsDepth
<1>4. ASSUME NEW l \in Locks, NEW t \in Threads, Owns(t, l)
      PROVE  AbsDepth[l] = IF holder[l] # Null /\ repeat[l] > 1 THEN repeat[l] ELSE 1
  <2>1. AbsOwner[l] # Null
    BY <1>2, <1>4
  <2> QED  BY <2>1 DEF AbsDepth
<1> QED  BY <1>1, <1>2, <1>3, <1>4 DEF AbsFacts

(* The same of the state after a step.                                      *)
LEMMA AbsStateNext == SyncInv' => AbsFacts'
BY AbsState, PTL

(* A step that changes no owner, and changes holder and holder_repeat_nr    *)
(* of an owned lock only where the mutex does not see it, is a stutter.     *)
LEMMA MutexStutter ==
  ASSUME SyncInv, SyncInv', \A t \in Threads, l \in Locks : Owns(t, l)' <=> Owns(t, l),
         \A l \in Locks : \/ holder'[l] = holder[l] /\ repeat'[l] = repeat[l]
                          \/ /\ holder[l] = Null \/ ~(repeat[l] > 1)
                             /\ holder'[l] = Null \/ ~(repeat'[l] > 1)
  PROVE  UNCHANGED <<AbsOwner, AbsDepth>>
<1> USE NullAssumption
<1>0. AbsFacts /\ AbsFacts'
  BY AbsState, AbsStateNext
<1>1. ASSUME NEW l \in Locks PROVE AbsOwner'[l] = AbsOwner[l] /\ AbsDepth'[l] = AbsDepth[l]
  <2>1. CASE \E t \in Threads : Owns(t, l)
    BY <1>0, <2>1 DEF AbsFacts
  <2>2. CASE \A t \in Threads : ~Owns(t, l)
    BY <1>0, <2>2 DEF AbsFacts
  <2> QED  BY <2>1, <2>2
<1>2. /\ AbsOwner = [l \in Locks |-> AbsOwner[l]] /\ AbsDepth = [l \in Locks |-> AbsDepth[l]]
      /\ AbsOwner' = [l \in Locks |-> AbsOwner'[l]] /\ AbsDepth' = [l \in Locks |-> AbsDepth'[l]]
  BY <1>0 DEF AbsFacts
<1> HIDE DEF AbsOwner, AbsDepth
<1>3. AbsOwner' = AbsOwner
  BY <1>1, <1>2
<1>4. AbsDepth' = AbsDepth
  BY <1>1, <1>2
<1> QED  BY <1>3, <1>4

(* A step that changes the owner or the depth of one lock.                  *)
LEMMA MutexChange ==
  ASSUME SyncInv, SyncInv', NEW l \in Locks, NEW o, NEW d,
         \A t \in Threads, k \in Locks \ {l} : Owns(t, k)' <=> Owns(t, k),
         \A k \in Locks \ {l} : holder'[k] = holder[k] /\ repeat'[k] = repeat[k],
         AbsOwner'[l] = o, AbsDepth'[l] = d
  PROVE  /\ AbsOwner' = [AbsOwner EXCEPT ![l] = o]
         /\ AbsDepth' = [AbsDepth EXCEPT ![l] = d]
<1>0. AbsFacts /\ AbsFacts'
  BY AbsState, AbsStateNext
<1>1. ASSUME NEW k \in Locks, k # l
      PROVE  AbsOwner'[k] = AbsOwner[k] /\ AbsDepth'[k] = AbsDepth[k]
  <2>1. CASE \E t \in Threads : Owns(t, k)
    BY <1>0, <1>1, <2>1 DEF AbsFacts
  <2>2. CASE \A t \in Threads : ~Owns(t, k)
    BY <1>0, <1>1, <2>2 DEF AbsFacts
  <2> QED  BY <2>1, <2>2
<1>2. /\ AbsOwner = [k \in Locks |-> AbsOwner[k]] /\ AbsDepth = [k \in Locks |-> AbsDepth[k]]
      /\ AbsOwner' = [k \in Locks |-> AbsOwner'[k]] /\ AbsDepth' = [k \in Locks |-> AbsDepth'[k]]
  BY <1>0 DEF AbsFacts
<1>3. AbsOwner' = [AbsOwner EXCEPT ![l] = o]
  BY <1>1, <1>2
<1>4. AbsDepth' = [AbsDepth EXCEPT ![l] = d]
  BY <1>1, <1>2
<1> QED  BY <1>3, <1>4

(* value-- of sema_down takes the mutex.                                    *)
LEMMA DownTakeMutex ==
  ASSUME SyncInv, SyncInv', SemaDown, DownTake(plock[cur])
  PROVE  M!Next
<1> USE NullAssumption
<1>1. PICK l \in Locks : l = plock[cur]
  BY DEF SyncInv, LockTypes, CoreInv
<1>2. /\ cur \in Threads /\ UNCHANGED <<holder, repeat, plock>> /\ pc[cur] = "down"
      /\ pc' = [pc EXCEPT ![cur] = "set_holder"] /\ pc \in [Threads -> Pcs] /\ value[l] # 0
  BY <1>1 DEF SemaDown, DownTake, GoTo, SyncInv, LockTypes, CoreInv
<1>3. \A t \in Threads : ~Owns(t, l)
  BY <1>2 DEF SyncInv, OneOwner, LockTypes
<1>4. Owns(cur, l)' /\ \A t \in Threads, k \in Locks \ {l} : Owns(t, k)' <=> Owns(t, k)
  <2>1. At(cur, "set_holder", l)' <=> (pc'[cur'] = "set_holder" /\ plock'[cur'] = l)
    BY DEF At
  <2>2. cur' = cur
    BY DEF DownTake
  <2> QED  BY <1>1, <1>2, <2>1, <2>2 DEF Owns, At
<1>5. cur' = cur /\ holder'[l] = Null
  <2>1. cur' = cur
    BY DEF DownTake
  <2>2. holder[l] = Null
    BY <1>3 DEF Owns, SyncInv, LockTypes
  <2> QED  BY <1>2, <2>1, <2>2
<1>6. AbsOwner[l] = Null /\ AbsOwner'[l] = cur /\ AbsDepth'[l] = 1
  BY <1>2, <1>3, <1>4, <1>5, AbsState, AbsStateNext DEF AbsFacts
<1>7. AbsOwner' = [AbsOwner EXCEPT ![l] = cur] /\ AbsDepth' = [AbsDepth EXCEPT ![l] = 1]
  BY <1>2, <1>4, <1>6, MutexChange
<1>8. M!Acquire(cur, l)
  BY <1>6, <1>7 DEF M!Acquire
<1> QED  BY <1>2, <1>8 DEF M!Next

(* value++ of sema_up frees it.                                             *)
LEMMA SemaUpMutex ==
  ASSUME SyncInv, SyncInv', SemaUp
  PROVE  M!Next
<1> USE NullAssumption
<1>1. PICK l \in Locks : l = plock[cur]
  BY DEF SyncInv, LockTypes, CoreInv
<1>2. /\ cur \in Threads /\ UNCHANGED <<holder, repeat, plock>> /\ pc[cur] = "up"
      /\ pc' = [pc EXCEPT ![cur] = "run"] /\ pc \in [Threads -> Pcs]
  BY <1>1 DEF SemaUp, GoTo, SyncInv, LockTypes, CoreInv
<1>3. /\ Owns(cur, l) /\ holder[l] = Null /\ \A t \in Threads : Owns(t, l) => t = cur
  BY <1>1, <1>2 DEF SyncInv, OneOwner, PcsExact, Owns, At
<1>4. /\ \A t \in Threads, k \in Locks \ {l} : Owns(t, k)' <=> Owns(t, k)
      /\ \A t \in Threads : ~Owns(t, l)'
  BY <1>1, <1>2, <1>3 DEF Owns, At
<1>5. AbsOwner[l] = cur /\ AbsDepth[l] = 1 /\ AbsOwner'[l] = Null /\ AbsDepth'[l] = 0
  BY <1>2, <1>3, <1>4, AbsState, AbsStateNext DEF AbsFacts
<1>6. AbsOwner' = [AbsOwner EXCEPT ![l] = Null] /\ AbsDepth' = [AbsDepth EXCEPT ![l] = 0]
  BY <1>2, <1>4, <1>5, MutexChange
<1>7. M!Release(cur, l)
  BY <1>5, <1>6 DEF M!Release
<1> QED  BY <1>2, <1>7 DEF M!Next

(* A holder that acquires its lock again re-enters the mutex.               *)
LEMMA ReenterMutex ==
  ASSUME SyncInv, SyncInv', NEW l \in Locks, LockAcquire(l), holder[l] = cur
  PROVE  M!Next
<1> USE NullAssumption
<1>1. /\ cur \in Threads /\ UNCHANGED <<holder, pc, plock>> /\ pc[cur] = "run"
      /\ repeat' = [repeat EXCEPT ![l] = repeat[l] + 1] /\ repeat \in [Locks -> Nat]
      /\ holder \in [Locks -> Threads \union {Null}]
  BY DEF LockAcquire, SyncInv, LockTypes, CoreInv
<1>2. \A t \in Threads, k \in Locks : Owns(t, k)' <=> Owns(t, k)
  BY <1>1 DEF Owns, At
<1>3. Owns(cur, l) /\ repeat[l] >= 1 /\ holder[l] # Null
  BY <1>1 DEF SyncInv, PcsExact, Owns, At
<1>4. repeat[l] \in Nat /\ repeat'[l] = repeat[l] + 1 /\ repeat'[l] > 1
  BY <1>1, <1>3
<1>5. AbsOwner[l] = cur /\ AbsOwner'[l] = cur
  BY <1>1, <1>2, <1>3, AbsState, AbsStateNext DEF AbsFacts
<1>6. AbsDepth[l] = (IF repeat[l] > 1 THEN repeat[l] ELSE 1) /\ AbsDepth'[l] = repeat'[l]
  BY <1>1, <1>2, <1>3, <1>4, AbsState, AbsStateNext DEF AbsFacts
<1>7. AbsDepth'[l] = AbsDepth[l] + 1
  BY <1>3, <1>4, <1>6
<1>8. /\ AbsOwner' = [AbsOwner EXCEPT ![l] = cur]
      /\ AbsDepth' = [AbsDepth EXCEPT ![l] = AbsDepth[l] + 1]
  BY <1>1, <1>2, <1>5, <1>7, MutexChange
<1>9. AbsOwner' = AbsOwner
  BY <1>5, <1>8, AbsState DEF AbsFacts
<1>10. M!Reenter(cur, l)
  BY <1>5, <1>8, <1>9 DEF M!Reenter
<1> QED  BY <1>1, <1>10 DEF M!Next

(* An inner release leaves it once.                                         *)
LEMMA LeaveMutex ==
  ASSUME SyncInv, SyncInv', NEW l \in Locks, LockRelease(l), repeat[l] > 1
  PROVE  M!Next
<1> USE NullAssumption
<1>1. /\ cur \in Threads /\ UNCHANGED <<holder, pc, plock>> /\ holder[l] = cur
      /\ repeat' = [repeat EXCEPT ![l] = repeat[l] - 1] /\ repeat \in [Locks -> Nat]
      /\ holder \in [Locks -> Threads \union {Null}]
  <2>1. ~(repeat[l] <= 1)
    BY DEF SyncInv, LockTypes
  <2> QED  BY <2>1 DEF LockRelease, SyncInv, LockTypes, CoreInv
<1>2. \A t \in Threads, k \in Locks : Owns(t, k)' <=> Owns(t, k)
  BY <1>1 DEF Owns, At
<1>3. Owns(cur, l) /\ holder[l] # Null
  BY <1>1 DEF Owns
<1>4. repeat[l] \in Nat /\ repeat'[l] = repeat[l] - 1
  BY <1>1
<1>5. AbsOwner[l] = cur /\ AbsOwner'[l] = cur
  BY <1>1, <1>2, <1>3, AbsState, AbsStateNext DEF AbsFacts
<1>6. AbsDepth[l] = repeat[l] /\ AbsDepth'[l] = IF repeat'[l] > 1 THEN repeat'[l] ELSE 1
  BY <1>1, <1>2, <1>3, AbsState, AbsStateNext DEF AbsFacts
<1>7. AbsDepth'[l] = AbsDepth[l] - 1 /\ AbsDepth[l] > 1
  BY <1>4, <1>6
<1>8. /\ AbsOwner' = [AbsOwner EXCEPT ![l] = cur]
      /\ AbsDepth' = [AbsDepth EXCEPT ![l] = AbsDepth[l] - 1]
  BY <1>1, <1>2, <1>5, <1>7, MutexChange
<1>9. AbsOwner' = AbsOwner
  BY <1>5, <1>8, AbsState DEF AbsFacts
<1>10. M!Leave(cur, l)
  BY <1>5, <1>7, <1>8, <1>9 DEF M!Leave
<1> QED  BY <1>1, <1>10 DEF M!Next

(* The stores of lock_acquire and lock_release on either side of the        *)
(* semaphore are invisible.                                                 *)
LEMMA HiddenMutex ==
  ASSUME SyncInv, SyncInv',
         \/ SetHolder \/ SetRepeat \/ ClearRepeat
         \/ \E l \in Locks : LockRelease(l) /\ ~(repeat[l] > 1)
  PROVE  UNCHANGED <<AbsOwner, AbsDepth>>
<1> USE NullAssumption
<1>0. /\ cur \in Threads /\ plock[cur] \in Locks /\ plock \in [Threads -> Locks]
      /\ holder \in [Locks -> Threads \union {Null}] /\ repeat \in [Locks -> Nat]
      /\ pc \in [Threads -> Pcs]
  BY DEF SyncInv, LockTypes, CoreInv
<1>1. CASE SetHolder
  <2>1. /\ pc[cur] = "set_holder" /\ holder' = [holder EXCEPT ![plock[cur]] = cur]
        /\ pc' = [pc EXCEPT ![cur] = "set_repeat"] /\ UNCHANGED <<repeat, plock>>
    BY <1>1 DEF SetHolder, GoTo
  <2>2. holder[plock[cur]] = Null /\ repeat[plock[cur]] = 0
    BY <1>0, <2>1 DEF SyncInv, PcsExact
  <2>3. \A t \in Threads, l \in Locks : Owns(t, l)' <=> Owns(t, l)
    BY <1>0, <2>1, <2>2 DEF Owns, At
  <2>4. \A l \in Locks : \/ holder'[l] = holder[l] /\ repeat'[l] = repeat[l]
                         \/ holder[l] = Null /\ ~(repeat'[l] > 1)
    BY <1>0, <2>1, <2>2
  <2> QED  BY <2>3, <2>4, MutexStutter
<1>2. CASE SetRepeat
  <2>1. /\ pc[cur] = "set_repeat" /\ repeat' = [repeat EXCEPT ![plock[cur]] = 1]
        /\ pc' = [pc EXCEPT ![cur] = "run"] /\ UNCHANGED <<holder, plock>>
    BY <1>2 DEF SetRepeat, GoTo
  <2>2. holder[plock[cur]] = cur /\ repeat[plock[cur]] = 0
    BY <1>0, <2>1 DEF SyncInv, PcsExact
  <2>3. \A t \in Threads, l \in Locks : Owns(t, l)' <=> Owns(t, l)
    BY <1>0, <2>1, <2>2 DEF Owns, At
  <2>4. \A l \in Locks : \/ holder'[l] = holder[l] /\ repeat'[l] = repeat[l]
                         \/ ~(repeat[l] > 1) /\ ~(repeat'[l] > 1)
    BY <1>0, <2>1, <2>2
  <2> QED  BY <2>3, <2>4, MutexStutter
<1>3. CASE ClearRepeat
  <2>1. /\ pc[cur] = "clear_repeat" /\ repeat' = [repeat EXCEPT ![plock[cur]] = 0]
        /\ pc' = [pc EXCEPT ![cur] = "up"] /\ UNCHANGED <<holder, plock>>
    BY <1>3 DEF ClearRepeat, GoTo
  <2>2. holder[plock[cur]] = Null
    BY <1>0, <2>1 DEF SyncInv, PcsExact
  <2>3. \A t \in Threads, l \in Locks : Owns(t, l)' <=> Owns(t, l)
    BY <1>0, <2>1 DEF Owns, At
  <2>4. \A l \in Locks : \/ holder'[l] = holder[l] /\ repeat'[l] = repeat[l]
                         \/ holder[l] = Null /\ holder'[l] = Null
    BY <1>0, <2>1, <2>2
  <2> QED  BY <2>3, <2>4, MutexStutter
<1>4. ASSUME NEW l \in Locks, LockRelease(l), ~(repeat[l] > 1)
      PROVE  UNCHANGED <<AbsOwner, AbsDepth>>
  <2>1. /\ pc[cur] = "run" /\ holder[l] = cur /\ holder' = [holder EXCEPT ![l] = Null]
        /\ pc' = [pc EXCEPT ![cur] = "clear_repeat"] /\ plock' = [plock EXCEPT ![cur] = l]
        /\ repeat' = repeat
    BY <1>4 DEF LockRelease, GoTo
  <2>2. ASSUME NEW t \in Threads, NEW k \in Locks PROVE Owns(t, k)' <=> Owns(t, k)
    <3>1. CASE t = cur
      BY <1>0, <2>1, <3>1 DEF Owns, At
    <3>2. CASE t # cur
      BY <1>0, <2>1, <3>2 DEF Owns, At
    <3> QED  BY <3>1, <3>2
  <2>3. \A k \in Locks : \/ holder'[k] = holder[k] /\ repeat'[k] = repeat[k]
                         \/ ~(repeat[k] > 1) /\ ~(repeat'[k] > 1)
    BY <1>0, <1>4, <2>1
  <2> QED  BY <2>2, <2>3, MutexStutter
<1> QED  BY <1>1, <1>2, <1>3, <1>4

(* Each step of Sync is a step of the mutex or invisible to it.             *)
LEMMA StepMutex ==
  ASSUME SyncInv, [Next]_vars
  PROVE  [M!Next]_(M!vars)
<1>0. SyncInv' /\ cur \in Threads /\ pc \in [Threads -> Pcs]
  BY NextSync DEF SyncInv, CoreInv, LockTypes
<1> USE DEF M!vars
<1> HIDE DEF AbsOwner, AbsDepth
<1>1. ASSUME NEW l \in Locks, LockAcquire(l) PROVE [M!Next]_(M!vars)
  <2>1. CASE holder[l] = cur
    BY <1>0, <1>1, <2>1, ReenterMutex
  <2>2. CASE holder[l] # cur
    <3>1. /\ pc[cur] = "run" /\ pc' = [pc EXCEPT ![cur] = "down"]
          /\ plock' = [plock EXCEPT ![cur] = l] /\ UNCHANGED <<holder, repeat>>
          /\ plock \in [Threads -> Locks]
      BY <1>1, <2>2 DEF LockAcquire, GoTo, SyncInv, LockTypes
    <3>2. \A t \in Threads, k \in Locks : Owns(t, k)' <=> Owns(t, k)
      BY <1>0, <3>1 DEF Owns, At
    <3> QED  BY <1>0, <3>1, <3>2, MutexStutter
  <2> QED  BY <2>1, <2>2
<1>2. CASE SemaDown
  <2>1. CASE DownTake(plock[cur])
    BY <1>0, <1>2, <2>1, DownTakeMutex
  <2>2. CASE DownBlock(plock[cur])
    <3>1. UNCHANGED <<holder, repeat, pc, plock>>
      BY <1>2, <2>2 DEF SemaDown, DownBlock
    <3>2. \A t \in Threads, k \in Locks : Owns(t, k)' <=> Owns(t, k)
      BY <3>1 DEF Owns, At
    <3> QED  BY <1>0, <3>1, <3>2, MutexStutter
  <2> QED  BY <1>2, <2>1, <2>2 DEF SemaDown
<1>3. CASE SetHolder \/ SetRepeat \/ ClearRepeat
  BY <1>0, <1>3, HiddenMutex
<1>4. ASSUME NEW l \in Locks, LockRelease(l) PROVE [M!Next]_(M!vars)
  BY <1>0, <1>4, HiddenMutex, LeaveMutex
<1>5. CASE SemaUp
  BY <1>0, <1>5, SemaUpMutex
<1>6. CASE Sleep \/ \E t \in Threads : DeviceIntr(t)
  <2>1. PICK t \in Threads, p \in {"run", "asleep"} :
          /\ pc[t] \in {"run", "asleep"} /\ pc' = [pc EXCEPT ![t] = p]
          /\ UNCHANGED <<holder, repeat, plock>>
    BY <1>0, <1>6 DEF Sleep, DeviceIntr, GoTo, lockVars
  <2>2. \A u \in Threads, k \in Locks : Owns(u, k)' <=> Owns(u, k)
    BY <1>0, <2>1 DEF Owns, At
  <2> QED  BY <1>0, <2>1, <2>2, MutexStutter
<1>7. CASE SchedulerStep \/ UNCHANGED vars
  <2>1. UNCHANGED <<holder, repeat, pc, plock>>
    BY <1>7 DEF SchedulerStep, vars, lockVars
  <2>2. \A t \in Threads, k \in Locks : Owns(t, k)' <=> Owns(t, k)
    BY <2>1 DEF Owns, At
  <2> QED  BY <1>0, <2>1, <2>2, MutexStutter
<1> QED  BY <1>1, <1>2, <1>3, <1>4, <1>5, <1>6, <1>7 DEF Next

(* lock_acquire and lock_release implement the abstract recursive mutex:    *)
(* one owner at a time, as many releases as acquisitions, all by the owner. *)
THEOREM ImplementsMutex == Spec => MutexSpec
<1>1. Init => M!Init
  <2> SUFFICES ASSUME Init PROVE M!Init
    OBVIOUS
  <2>1. \A t \in Threads, l \in Locks : ~Owns(t, l)
    BY NullAssumption DEF Init, Owns, At
  <2>2. AbsFacts
    BY InitSync, AbsState
  <2>3. \A l \in Locks : AbsOwner[l] = Null /\ AbsDepth[l] = 0
    BY <2>1, <2>2 DEF AbsFacts
  <2>4. AbsOwner = [l \in Locks |-> AbsOwner[l]] /\ AbsDepth = [l \in Locks |-> AbsDepth[l]]
    BY <2>2 DEF AbsFacts
  <2>5. AbsOwner = [l \in Locks |-> Null] /\ AbsDepth = [l \in Locks |-> 0]
    BY <2>3, <2>4
  <2> QED  BY <2>5 DEF M!Init
<1>2. SyncInv /\ [Next]_vars => [M!Next]_(M!vars)
  BY StepMutex
<1> QED  BY <1>1, <1>2, SpecSync, PTL DEF Spec, MutexSpec, M!Spec
=============================================================================
