-------------------------------- MODULE Sync --------------------------------
(***************************************************************************)
(* Semaphores and recursive locks: thread/sync.c, running on the scheduler *)
(* of Sched.  sema_down and sema_up run with interrupts off; the rest of   *)
(* lock_acquire and lock_release runs with whatever the caller has, and a  *)
(* kernel thread has interrupts ON (kernel_thread enables them), so the    *)
(* timer may preempt it between any two of the steps below.  A caller with *)
(* interrupts off (a system call) only has fewer interleavings.            *)
(*                                                                         *)
(* The tasks are arbitrary clients: between operations they take, re-enter *)
(* and release locks, sleep on a device while holding them, and yield.     *)
(***************************************************************************)
EXTENDS Sched

CONSTANTS
    Locks,       \* the struct locks of the kernel
    Null,        \* NULL as a holder
    MaxRepeat    \* bound on holder_repeat_nr (a uint32_t in the code)

ASSUME NullAssumption == Null \notin Threads
ASSUME MaxRepeatAssumption == MaxRepeat \in Nat /\ MaxRepeat >= 1

VARIABLES
    value,       \* lock.semaphore.value
    waiters,     \* lock.semaphore.waiters, linked through general_tag
    holder,      \* lock.holder
    repeat,      \* lock.holder_repeat_nr
    pc,          \* where each task is in lock_acquire / lock_release
    plock        \* the argument of that call

lockVars == <<value, waiters, holder, repeat>>
vars     == <<threadVars, lockVars, pc, plock>>

Pcs == {"run",          \* outside lock_acquire and lock_release
        "down",         \* in sema_down, at the while
        "set_holder",   \* sema_down has returned, holder not yet stored
        "set_repeat",   \* holder stored, holder_repeat_nr not yet
        "clear_repeat", \* lock_release has cleared holder
        "up",           \* ... and holder_repeat_nr; sema_up is next
        "asleep"}       \* blocked on a device, not on a lock

At(t, p, l) == pc[t] = p /\ plock[t] = l
GoTo(p) == pc' = [pc EXCEPT ![cur] = p]

(* lock_init / sema_init with value 1, and the state after thread_init.     *)
Init ==
    /\ ThreadInit
    /\ value   = [l \in Locks |-> 1]
    /\ waiters = [l \in Locks |-> <<>>]
    /\ holder  = [l \in Locks |-> Null]
    /\ repeat  = [l \in Locks |-> 0]
    /\ pc      = [t \in Threads |-> "run"]
    /\ \E l \in Locks : plock = [t \in Threads |-> l]

-----------------------------------------------------------------------------
(* lock_acquire: a holder only counts up, anyone else goes to sema_down.    *)
LockAcquire(l) ==
    /\ cur # Idle /\ pc[cur] = "run"
    /\ \/ /\ holder[l] # cur
          /\ GoTo("down") /\ plock' = [plock EXCEPT ![cur] = l]
          /\ UNCHANGED repeat
       \/ /\ holder[l] = cur /\ repeat[l] < MaxRepeat
          /\ repeat' = [repeat EXCEPT ![l] = @ + 1]
          /\ UNCHANGED <<pc, plock>>
    /\ UNCHANGED <<threadVars, value, waiters, holder>>

(* Mutants: the task blocks without queueing; the value is taken untested.  *)
DownBlockUnqueued(l) ==
    /\ value[l] = 0
    /\ ThreadBlock("BLOCKED")
    /\ UNCHANGED <<value, waiters, pc>>
DownTakeUntested(l) ==
    /\ value' = [value EXCEPT ![l] = (@ + 255) % 256]
    /\ GoTo("set_holder")
    /\ UNCHANGED <<status, ready, cur, ticks, waiters>>

(* One turn of sema_down's while: queue up and block, or take the value.    *)
(* A task that is woken starts the next turn.                               *)
DownBlock(l) ==
    /\ value[l] = 0
    /\ waiters' = [waiters EXCEPT ![l] = Append(@, cur)]
    /\ ThreadBlock("BLOCKED")
    /\ UNCHANGED <<value, pc>>

DownTake(l) ==
    /\ value[l] # 0
    /\ value' = [value EXCEPT ![l] = @ - 1]
    /\ GoTo("set_holder")
    /\ UNCHANGED <<status, ready, cur, ticks, waiters>>

SemaDown ==
    /\ pc[cur] = "down"
    /\ DownBlock(plock[cur]) \/ DownTake(plock[cur])
    /\ UNCHANGED <<taskVars, idlepc, holder, repeat, plock>>

SetHolder ==
    /\ pc[cur] = "set_holder"
    /\ holder' = [holder EXCEPT ![plock[cur]] = cur]
    /\ GoTo("set_repeat")
    /\ UNCHANGED <<threadVars, value, waiters, repeat, plock>>

SetRepeat ==
    /\ pc[cur] = "set_repeat"
    /\ repeat' = [repeat EXCEPT ![plock[cur]] = 1]
    /\ GoTo("run")
    /\ UNCHANGED <<threadVars, value, waiters, holder, plock>>

(* Mutant: holder_repeat_nr is left as it was.                              *)
ClearRepeatSkipped ==
    /\ pc[cur] = "clear_repeat"
    /\ GoTo("up")
    /\ UNCHANGED <<threadVars, lockVars, plock>>

(* lock_release: an inner release only counts down; the outermost one       *)
(* clears holder, then holder_repeat_nr, then calls sema_up.                *)
LockRelease(l) ==
    /\ cur # Idle /\ pc[cur] = "run" /\ holder[l] = cur
    /\ \/ /\ repeat[l] > 1
          /\ repeat' = [repeat EXCEPT ![l] = @ - 1]
          /\ UNCHANGED <<holder, pc, plock>>
       \/ /\ repeat[l] <= 1
          /\ holder' = [holder EXCEPT ![l] = Null]
          /\ GoTo("clear_repeat") /\ plock' = [plock EXCEPT ![cur] = l]
          /\ UNCHANGED repeat
    /\ UNCHANGED <<threadVars, value, waiters>>

ClearRepeat ==
    /\ pc[cur] = "clear_repeat"
    /\ repeat' = [repeat EXCEPT ![plock[cur]] = 0]
    /\ GoTo("up")
    /\ UNCHANGED <<threadVars, value, waiters, holder, plock>>

(* Mutants: nobody is woken; the waiter is woken but stays in the list.     *)
UpWakeNobody(l) == UNCHANGED <<status, ready, cur, ticks, waiters>>
UpWakeUnpopped(l) ==
    IF waiters[l] = <<>>
    THEN UNCHANGED <<status, ready, cur, ticks, waiters>>
    ELSE ThreadUnblock(Head(waiters[l])) /\ UNCHANGED waiters

(* sema_up: wake the first waiter, if any, and give the value back.         *)
UpWake(l) ==
    IF waiters[l] = <<>>
    THEN UNCHANGED <<status, ready, cur, ticks, waiters>>
    ELSE /\ ThreadUnblock(Head(waiters[l]))
         /\ waiters' = [waiters EXCEPT ![l] = Tail(@)]

SemaUp ==
    /\ pc[cur] = "up"
    /\ UpWake(plock[cur])
    /\ value' = [value EXCEPT ![plock[cur]] = @ + 1]
    /\ GoTo("run")
    /\ UNCHANGED <<taskVars, idlepc, holder, repeat, plock>>

-----------------------------------------------------------------------------
(* The rest of the system: a client sleeps on a device, also while it holds *)
(* locks (ide_read, ioq_wait), and the device's interrupt wakes it; the     *)
(* scheduler's own steps.                                                   *)
Sleep ==
    /\ pc[cur] = "run"
    /\ Block("BLOCKED")
    /\ GoTo("asleep")
    /\ UNCHANGED <<lockVars, plock>>

DeviceIntr(t) ==
    /\ pc[t] = "asleep"
    /\ IntrUnblock(t)
    /\ pc' = [pc EXCEPT ![t] = "run"]
    /\ UNCHANGED <<lockVars, plock>>

SchedulerStep ==
    /\ \/ \E t \in Threads : Start(t) /\ pc[cur] = "run"
       \/ Yield /\ pc[cur] = "run"
       \/ TimerTick
       \/ IdleBlock
       \/ IdleHalt
    /\ UNCHANGED <<lockVars, pc, plock>>

Next ==
    \/ \E l \in Locks : LockAcquire(l)
    \/ SemaDown
    \/ SetHolder
    \/ SetRepeat
    \/ \E l \in Locks : LockRelease(l)
    \/ ClearRepeat
    \/ SemaUp
    \/ Sleep
    \/ \E t \in Threads : DeviceIntr(t)
    \/ SchedulerStep

Spec == Init /\ [][Next]_vars

(* The timer interrupts for ever, and a task that is given the CPU again    *)
(* and again executes its kernel code (a slice is many instructions).       *)
(* Nothing is assumed of the clients: a holder may keep its lock for ever.  *)
KernelCode(t) == cur = t /\ (SemaDown \/ SetHolder \/ SetRepeat \/ ClearRepeat \/ SemaUp)
Fairness ==
    /\ WF_vars(SchedulerStep /\ TimerTick)
    /\ WF_vars(SchedulerStep /\ IdleBlock)
    /\ \A t \in Threads \ {Idle} : SF_vars(KernelCode(t))
FairSpec == Spec /\ Fairness

-----------------------------------------------------------------------------
(* t has the semaphore of l: it took the value and has not given it back.   *)
Owns(t, l) ==
    \/ holder[l] = t
    \/ \E p \in {"set_holder", "set_repeat", "clear_repeat", "up"} : At(t, p, l)

(* The ASSERTs of sync.c hold where they are executed: nobody's repeat      *)
(* count is left behind for the next holder, the semaphore is 0 when it is  *)
(* given back, and a task in sema_down is not yet in the waiters list.      *)
SyncAsserts ==
    \A t \in Threads :
      /\ pc[t] = "set_repeat" => repeat[plock[t]] = 0
      /\ pc[t] = "set_repeat" => holder[plock[t]] = t
      /\ pc[t] = "up" => value[plock[t]] = 0 /\ repeat[plock[t]] = 0
      /\ pc[t] = "run" => \A l \in Locks : holder[l] = t => repeat[l] >= 1
      /\ pc[t] = "down" /\ t = cur =>
           \A i \in 1..Len(waiters[plock[t]]) : waiters[plock[t]][i] # t

(* The waiters of a semaphore are the tasks blocked in its sema_down, each  *)
(* queued once: a sema_up finds every one of them, and general_tag, which   *)
(* the ready list uses too, is in one list only.                            *)
WaitersExact ==
    \A l \in Locks :
      /\ {t \in Threads : At(t, "down", l) /\ status[t] = "BLOCKED"}
            = {waiters[l][i] : i \in 1..Len(waiters[l])}
      /\ \A i, j \in 1..Len(waiters[l]) : waiters[l][i] = waiters[l][j] => i = j

(* No lost wakeup, although a woken task can be overtaken: as long as a     *)
(* task sleeps on a lock that is free, another one is awake in sema_down    *)
(* and will take the lock (and wake the sleeper when it releases it).       *)
NoLostWakeup ==
    \A l \in Locks :
      waiters[l] # <<>> /\ value[l] = 1 =>
        \E t \in Threads : At(t, "down", l) /\ status[t] \in {"READY", "RUNNING"}

(* A free lock that somebody wants is taken: not always by the task that    *)
(* was woken for it, which may be overtaken and has to queue again.         *)
FreeLockTaken ==
    \A l \in Locks :
      (value[l] = 1 /\ \E t \in Threads : At(t, "down", l))
        ~> (\E t \in Threads : At(t, "set_holder", l))

-----------------------------------------------------------------------------
(* sync.c uses the scheduler legally: each of its steps is one of Thread's, *)
(* so thread_unblock only meets blocked tasks.                              *)
T == INSTANCE Thread
ThreadSpec == T!SchedSpec

(* lock_acquire and lock_release implement the abstract recursive mutex:    *)
(* it is taken by the value-- of sema_down and freed by the value++ of      *)
(* sema_up.                                                                 *)
AbsOwner == [l \in Locks |-> IF \E t \in Threads : Owns(t, l)
                             THEN CHOOSE t \in Threads : Owns(t, l) ELSE Null]
AbsDepth == [l \in Locks |-> IF AbsOwner[l] = Null THEN 0
                             ELSE IF holder[l] # Null /\ repeat[l] > 1 THEN repeat[l] ELSE 1]
M == INSTANCE Mutex WITH Tasks <- Threads, owner <- AbsOwner, depth <- AbsDepth
MutexSpec == M!Spec
=============================================================================
