------------------------------- MODULE IoQueue ------------------------------
(***************************************************************************)
(* The ring buffers of device/ioqueue.c with their two users: the keyboard *)
(* (device/keyboard.c puts, sys_read gets) and the pipe (shell/pipe.c), on *)
(* the scheduler of Sched.                                                 *)
(*                                                                         *)
(* System calls run with interrupts off, so a process is interleaved with  *)
(* others only where it blocks: on the queue's lock and in ioq_wait.       *)
(* Interrupts are on in user mode (pc = "user") and in idle().  With       *)
(* interrupts off lock_acquire and lock_release are atomic, and the        *)
(* lock behaves as the mutex of Mutex (MutexSpec of Sync), so the holder   *)
(* and the waiters are all there is to it.                                 *)
(***************************************************************************)
EXTENDS Sched, FiniteSetsExt

CONSTANTS
    Kbd, Pipe,     \* kbd_buf and the ring buffer behind a pipe
    Null,          \* NULL
    Setups,        \* who uses what: [readers, writers], the processes that
                   \* read the keyboard and those that write to the pipe
    BufSize,       \* bufsize (2048)
    MaxCount,      \* bound on the count of one read or write
    MaxChars       \* bound on the characters put into each queue

Queues == {Kbd, Pipe}
Sides  == {"consumer", "producer"}

ASSUME QueuesAssumption == Kbd # Pipe
ASSUME IoqNullAssumption == Null \notin Threads
ASSUME UsersAssumption == Setups \subseteq [readers : SUBSET Procs, writers : SUBSET Procs]
ASSUME BufSizeAssumption == BufSize \in Nat /\ BufSize >= 2
ASSUME BoundsAssumption == MaxCount \in Nat /\ MaxChars \in Nat

VARIABLES
    buf, head, tail,   \* the ring; characters are numbered as they are put
    waiter,            \* ioq->consumer and ioq->producer
    holder, waiters,   \* ioq->lock
    pc, side, q, left, \* per process: place in ioq_getchar / ioq_putchar, which
                       \* of the two, on which queue, characters still to move
    put, got,          \* last character put, last character returned by a get
    users              \* the setup of this behaviour

ioqVars  == <<buf, head, tail, waiter, holder, waiters, put, got>>
callVars == <<side, q, left>>
vars     == <<threadVars, ioqVars, pc, callVars, users>>

(* Mutant: the ring does not wrap in ioq_full.                              *)
FullUnwrapped(k) == head[k] + 1 = tail[k]

next_pos(p) == (p + 1) % BufSize
Full(k)     == next_pos(head[k]) = tail[k]
Empty(k)    == head[k] = tail[k]
(* ioq_lenth                                                                *)
Length(k)   == IF head[k] >= tail[k] THEN head[k] - tail[k]
                                     ELSE BufSize - (tail[k] - head[k])
MustWait(k, s) == IF s = "consumer" THEN Empty(k) ELSE Full(k)
Minimum(a, b)  == IF a > b THEN b ELSE a
IntrOn == cur = Idle \/ pc[cur] = "user"

(* ioqueue_init on both queues                                              *)
Init ==
    /\ ThreadInit
    /\ buf     = [k \in Queues |-> [p \in 0..BufSize-1 |-> 0]]
    /\ head    = [k \in Queues |-> 0]
    /\ tail    = [k \in Queues |-> 0]
    /\ waiter  = [k \in Queues |-> [s \in Sides |-> Null]]
    /\ holder  = [k \in Queues |-> Null]
    /\ waiters = [k \in Queues |-> <<>>]
    /\ pc      = [t \in Threads |-> "user"]
    /\ side    = [t \in Threads |-> "consumer"]
    /\ q       = [t \in Threads |-> Kbd]
    /\ left    = [t \in Threads |-> 0]
    /\ put     = [k \in Queues |-> 0]
    /\ got     = [k \in Queues |-> 0]
    /\ users   \in Setups

GoTo(p) == pc' = [pc EXCEPT ![cur] = p]

-----------------------------------------------------------------------------
(* The system calls that move characters.  A call for which nothing is to   *)
(* be moved returns at once and changes nothing.                            *)
Enter(k, s, n) ==
    /\ cur \in Procs /\ pc[cur] = "user" /\ n > 0
    /\ GoTo("loop")
    /\ side' = [side EXCEPT ![cur] = s]
    /\ q'    = [q EXCEPT ![cur] = k]
    /\ left' = [left EXCEPT ![cur] = n]
    /\ UNCHANGED <<threadVars, ioqVars>>

(* Characters that writers asleep in a pipe_write still have to put.        *)
BeingWritten == MapThenSumSet(LAMBDA t : left[t],
                              {t \in Procs : pc[t] # "user" /\ side[t] = "producer"})

(* sys_read(stdin_no, _, count): ioq_getchar, count times.                  *)
ReadKbd(count) == cur \in users.readers /\ Enter(Kbd, "consumer", count)

(* Mutant: pipe_read asks for all of count.                                 *)
PipeReadAll(count) == Enter(Pipe, "consumer", count)

(* pipe_read: no more than the pipe holds.                                  *)
PipeRead(count) == Enter(Pipe, "consumer", Minimum(Length(Pipe), count))

(* pipe_write: no more than ioq_left.                                       *)
PipeWrite(count) ==
    /\ cur \in users.writers /\ put[Pipe] + BeingWritten + count <= MaxChars
    /\ Enter(Pipe, "producer", Minimum(BufSize - Length(Pipe), count))

-----------------------------------------------------------------------------
(* Mutant: the sleeper is not woken.                                        *)
WakeOtherNobody(k, s) == UNCHANGED <<status, ready, cur, ticks, waiter>>

(* wakeup(&ioq->...) if that side sleeps.                                   *)
WakeOther(k, s) ==
    IF waiter[k][s] = Null
    THEN UNCHANGED <<status, ready, cur, ticks, waiter>>
    ELSE /\ ThreadUnblock(waiter[k][s])
         /\ waiter' = [waiter EXCEPT ![k][s] = Null]

PutByte(k) ==
    /\ put'  = [put EXCEPT ![k] = @ + 1]
    /\ buf'  = [buf EXCEPT ![k][head[k]] = put[k] + 1]
    /\ head' = [head EXCEPT ![k] = next_pos(@)]
    /\ UNCHANGED <<tail, got>>

GetByte(k) ==
    /\ got'  = [got EXCEPT ![k] = buf[k][tail[k]]]
    /\ tail' = [tail EXCEPT ![k] = next_pos(@)]
    /\ UNCHANGED <<buf, head, put>>

(* Back to user mode; the call's arguments are forgotten.                   *)
Return ==
    /\ GoTo("user")
    /\ side' = [side EXCEPT ![cur] = "consumer"]
    /\ q'    = [q EXCEPT ![cur] = Kbd]

(* The loop of ioq_getchar / ioq_putchar is left: move one character, wake  *)
(* the other side, return to the caller's loop over its count.              *)
Move ==
    LET k == q[cur] IN
    /\ pc[cur] = "loop" /\ ~MustWait(k, side[cur])
    /\ \/ side[cur] = "consumer" /\ GetByte(k) /\ WakeOther(k, "producer")
       \/ side[cur] = "producer" /\ PutByte(k) /\ WakeOther(k, "consumer")
    /\ left' = [left EXCEPT ![cur] = @ - 1]
    /\ \/ left[cur] > 1 /\ UNCHANGED <<pc, side, q>>
       \/ left[cur] = 1 /\ Return
    /\ UNCHANGED <<holder, waiters, taskVars, idlepc>>

(* Mutant: ioq_wait without the lock.                                       *)
WaitUnlocked(k, s) ==
    /\ waiter' = [waiter EXCEPT ![k][s] = cur]
    /\ ThreadBlock("BLOCKED")
    /\ GoTo("wait")
    /\ UNCHANGED <<holder, waiters>>

(* lock_acquire on a free lock, then ioq_wait: note that the queue is not   *)
(* looked at again between the two.                                         *)
AcquireAndWait(k, s) ==
    /\ holder[k] = Null
    /\ holder' = [holder EXCEPT ![k] = cur]
    /\ waiter' = [waiter EXCEPT ![k][s] = cur]
    /\ ThreadBlock("BLOCKED")
    /\ GoTo("wait")
    /\ UNCHANGED waiters

(* lock_acquire on a lock another task holds: sema_down queues and blocks.  *)
QueueForLock(k) ==
    /\ holder[k] # Null
    /\ waiters' = [waiters EXCEPT ![k] = Append(@, cur)]
    /\ ThreadBlock("BLOCKED")
    /\ GoTo("lock")
    /\ UNCHANGED <<holder, waiter>>

Lock == AcquireAndWait(q[cur], side[cur]) \/ QueueForLock(q[cur])
Wait ==
    /\ pc[cur] = "loop" /\ MustWait(q[cur], side[cur])
    /\ Lock
    /\ UNCHANGED <<buf, head, tail, put, got, callVars, taskVars, idlepc>>

(* A task woken in sema_down tries again.                                   *)
LockRetry ==
    /\ pc[cur] = "lock"
    /\ Lock
    /\ UNCHANGED <<buf, head, tail, put, got, callVars, taskVars, idlepc>>

(* Mutant: lock_release frees the lock and leaves its waiters asleep.       *)
WokenWakesNobody ==
    /\ pc[cur] = "wait"
    /\ holder' = [holder EXCEPT ![q[cur]] = Null]
    /\ GoTo("loop")
    /\ UNCHANGED <<threadVars, waiters, buf, head, tail, waiter, put, got, callVars>>

(* A task woken in ioq_wait: lock_release, and back to the while.           *)
Woken ==
    LET k == q[cur] IN
    /\ pc[cur] = "wait"
    /\ holder' = [holder EXCEPT ![k] = Null]
    /\ IF waiters[k] = <<>>
       THEN UNCHANGED <<status, ready, cur, ticks, waiters>>
       ELSE /\ ThreadUnblock(Head(waiters[k]))
            /\ waiters' = [waiters EXCEPT ![k] = Tail(@)]
    /\ GoTo("loop")
    /\ UNCHANGED <<buf, head, tail, waiter, put, got, callVars, taskVars, idlepc>>

-----------------------------------------------------------------------------
(* Mutant: the handler stores the character itself and wakes nobody.        *)
KeyIntrSilent ==
    /\ IntrOn /\ ~Full(Kbd) /\ put[Kbd] < MaxChars
    /\ PutByte(Kbd)
    /\ WakeHlt
    /\ UNCHANGED <<waiter, status, ready, cur, ticks, holder, waiters, pc, callVars, taskVars>>

(* intr_keyboard_handler for a key with a character: ioq_putchar unless the *)
(* buffer is full, in which case the key is dropped.                        *)
KeyIntr ==
    /\ IntrOn
    /\ \/ /\ ~Full(Kbd) /\ put[Kbd] < MaxChars
          /\ PutByte(Kbd)
          /\ WakeOther(Kbd, "consumer")
       \/ Full(Kbd) /\ UNCHANGED <<buf, head, tail, put, got, waiter, status, ready, cur, ticks>>
    /\ WakeHlt
    /\ UNCHANGED <<holder, waiters, pc, callVars, taskVars>>

SchedulerStep ==
    /\ \/ IntrOn /\ TimerTick
       \/ IntrOn /\ \E t \in Procs : Start(t)
       \/ MainExit
       \/ IdleBlock
       \/ IdleHalt
    /\ UNCHANGED <<ioqVars, pc, callVars>>

Step ==
    \/ \E count \in 1..MaxCount : ReadKbd(count)
    \/ \E count \in 1..MaxCount : PipeRead(count)
    \/ \E count \in 1..MaxCount : PipeWrite(count)
    \/ Move
    \/ Wait
    \/ LockRetry
    \/ Woken
    \/ KeyIntr
    \/ SchedulerStep

Next == Step /\ UNCHANGED users

Spec == Init /\ [][Next]_vars

(* The timer interrupts for ever; a process that is given the CPU again and *)
(* again executes the rest of its system call.                              *)
KernelCode(t) == cur = t /\ (Move \/ Wait \/ LockRetry \/ Woken) /\ UNCHANGED users
Fairness ==
    /\ WF_vars(SchedulerStep /\ TimerTick /\ UNCHANGED users)
    /\ WF_vars(SchedulerStep /\ IdleBlock /\ UNCHANGED users)
    /\ \A t \in Procs : SF_vars(KernelCode(t))
FairSpec == Spec /\ Fairness

-----------------------------------------------------------------------------
(* FIFO without loss or duplication across the wrap of the ring: from tail  *)
(* to head it holds exactly the characters put and not yet returned, in     *)
(* order, and ioq_lenth counts them.                                        *)
BufferExact ==
    \A k \in Queues :
      /\ Length(k) = put[k] - got[k]
      /\ \A i \in 1..Length(k) : buf[k][(tail[k] + i - 1) % BufSize] = got[k] + i

(* The slots for the sleepers are exact: the task in one is asleep in       *)
(* ioq_wait, on that side of that queue, with the lock (what wakeup's       *)
(* thread_unblock asserts), and whoever is asleep there is in the slot, so  *)
(* nobody is overwritten (the ASSERT of ioq_wait) and lost.                 *)
SleeperExact ==
    \A k \in Queues, s \in Sides, t \in Threads :
      waiter[k][s] = t <=>
        /\ status[t] = "BLOCKED" /\ pc[t] = "wait"
        /\ q[t] = k /\ side[t] = s /\ holder[k] = t

(* lock_release in ioq_getchar / ioq_putchar: a task asleep for the lock of *)
(* a queue is in its list, and is not the last to know: the lock has a      *)
(* holder, or a task woken for it is on its way.                            *)
LockerNotForgotten ==
    \A t \in Threads :
      pc[t] = "lock" /\ status[t] = "BLOCKED" =>
        /\ \E i \in DOMAIN waiters[q[t]] : waiters[q[t]][i] = t
        /\ \/ holder[q[t]] # Null
           \/ \E u \in Threads : pc[u] = "lock" /\ q[u] = q[t] /\ status[u] # "BLOCKED"

(* The queues have one user on the side that can sleep.                     *)
OneReader == \E t \in Procs : users.readers = {t}
OneWriter == \E t \in Procs : users.writers = {t}

(* ioq_getchar: a consumer sleeps only while there is nothing to get, for   *)
(* the producer that puts something wakes it.  It takes a single reader: a  *)
(* second one does not look at the queue again once it has the lock.        *)
NoSleepWithData ==
    OneReader => \A t \in Threads :
      pc[t] = "wait" /\ status[t] = "BLOCKED" /\ side[t] = "consumer" => Empty(q[t])

(* pipe_read never blocks, and pipe_write, which takes the room to be one   *)
(* more than it is, sleeps only on a full ring.  That takes a single writer *)
(* too: a second one that slept for the lock sleeps again with room to put. *)
PipeBlocksFull ==
    \A t \in Threads : pc[t] \in {"lock", "wait"} /\ q[t] = Pipe =>
      /\ side[t] = "producer"
      /\ OneWriter /\ status[t] = "BLOCKED" => Full(Pipe)

(* A key that is in the buffer reaches the process that reads the keyboard. *)
KeyDelivered ==
    \A n \in 0..MaxChars :
      (OneReader /\ got[Kbd] = n /\ put[Kbd] > n
         /\ \E t \in Procs : pc[t] # "user" /\ q[t] = Kbd)
        ~> got[Kbd] > n
=============================================================================
