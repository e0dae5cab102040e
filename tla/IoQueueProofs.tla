--------------------------- MODULE IoQueueProofs ----------------------------
(***************************************************************************)
(* The ring buffers of device/ioqueue.c, proved for any number of          *)
(* processes, any size of the ring and any counts: FIFO without loss, no   *)
(* sleeper is overwritten or forgotten, and who may sleep when.            *)
(***************************************************************************)
EXTENDS IoQueue, SchedProofs

(* The types of the queues and of the places in the calls.                  *)
IoqTypes ==
    /\ buf \in [Queues -> [0 .. BufSize - 1 -> Nat]]
    /\ head \in [Queues -> 0 .. BufSize - 1] /\ tail \in [Queues -> 0 .. BufSize - 1]
    /\ put \in [Queues -> Nat] /\ got \in [Queues -> Nat]
    /\ waiter \in [Queues -> [Sides -> Threads \union {Null}]]
    /\ holder \in [Queues -> Threads \union {Null}]
    /\ waiters \in [Queues -> Seq(Threads)]
    /\ pc \in [Threads -> {"user", "loop", "lock", "wait"}]
    /\ side \in [Threads -> Sides] /\ q \in [Threads -> Queues] /\ left \in [Threads -> Nat]
    /\ users \in Setups

(* Who is where: only a process that uses the queue is in a call, it runs   *)
(* until it sleeps, and sleeps nowhere else.                                *)
PlacesExact ==
    \A t \in Threads :
      /\ status[t] \notin {"WAITING", "HANGING"}
      /\ pc[t] # "user" => status[t] \notin {"NULL", "OVER"} /\ t \in Procs /\ left[t] > 0
      /\ status[t] = "BLOCKED" => t = Idle \/ pc[t] \in {"lock", "wait"}
      /\ pc[t] = "loop" => t = cur
UsersExact ==
    \A t \in Threads : pc[t] # "user" =>
      /\ q[t] = Kbd => side[t] = "consumer" /\ t \in users.readers
      /\ q[t] = Pipe /\ side[t] = "producer" => t \in users.writers

(* pipe_read asks for no more than the pipe holds, and nobody can take it   *)
(* away: the reader does not block.                                         *)
ReadsAvailable ==
    \A t \in Threads : pc[t] # "user" /\ q[t] = Pipe /\ side[t] = "consumer" =>
      pc[t] = "loop" /\ left[t] <= Length(Pipe)

(* The lock of a queue: who holds it, who sleeps for it.                    *)
HoldersExact == \A k \in Queues, t \in Threads : holder[k] = t <=> pc[t] = "wait" /\ q[t] = k
Lockers(k) == {t \in Threads : pc[t] = "lock" /\ q[t] = k /\ status[t] = "BLOCKED"}
LockersExact == \A k \in Queues : QueueExact(Lockers(k), waiters[k])

(* A single user never meets the lock taken.                                *)
SoleUsers ==
    \A t \in Threads : pc[t] = "lock" =>
      /\ OneReader => q[t] # Kbd
      /\ OneWriter => q[t] # Pipe

(* The inductive invariant.                                                 *)
IoqInv ==
    /\ SchedInv /\ IoqTypes /\ PlacesExact /\ UsersExact /\ ReadsAvailable
    /\ HoldersExact /\ LockersExact /\ SoleUsers
    /\ SleeperExact /\ LockerNotForgotten /\ NoSleepWithData /\ PipeBlocksFull /\ BufferExact

-----------------------------------------------------------------------------
(* The ring by itself: ioq_lenth of a head and a tail, and BufferExact.     *)
Dist(h, t) == IF h >= t THEN h - t ELSE BufSize - (t - h)
Ring(b, h, t, p, g) ==
    /\ Dist(h, t) = p - g
    /\ \A i \in 1 .. Dist(h, t) : b[(t + i - 1) % BufSize] = g + i

(* BufferExact in terms of Ring, queue by queue.                            *)
LEMMA BufferRing ==
  BufferExact <=> \A k \in Queues : Ring(buf[k], head[k], tail[k], put[k], got[k])
BY DEF BufferExact, Ring, Dist, Length

(* next_pos, and a position some way on, wrap at most once.                 *)
LEMMA Wrap ==
  ASSUME NEW p \in 0 .. BufSize - 1, NEW n \in 0 .. BufSize
  PROVE  (p + n) % BufSize = IF p + n < BufSize THEN p + n ELSE p + n - BufSize
<1> USE BufSizeAssumption
<1>1. CASE p + n < BufSize
  BY <1>1
<1>2. CASE p + n >= BufSize
  <2>1. p + n - BufSize \in 0 .. BufSize - 1
    BY <1>2
  <2>2. (p + n) % BufSize = (p + n - BufSize) % BufSize
    BY <1>2
  <2> QED
    BY <1>2, <2>1, <2>2
<1> QED
  BY <1>1, <1>2

(* next_pos without its remainder.                                          *)
LEMMA NextPos ==
  ASSUME NEW p \in 0 .. BufSize - 1
  PROVE  next_pos(p) = (IF p + 1 < BufSize THEN p + 1 ELSE 0) /\ next_pos(p) \in 0 .. BufSize - 1
<1> USE BufSizeAssumption
<1>1. (p + 1) % BufSize = IF p + 1 < BufSize THEN p + 1 ELSE p + 1 - BufSize
  BY Wrap
<1> QED
  BY <1>1 DEF next_pos

(* ioq_putchar: the character goes behind the others, into an unused cell.  *)
LEMMA RingPut ==
  ASSUME NEW b \in [0 .. BufSize - 1 -> Nat], NEW h \in 0 .. BufSize - 1,
         NEW t \in 0 .. BufSize - 1, NEW p \in Nat, NEW g \in Nat,
         Ring(b, h, t, p, g), next_pos(h) # t
  PROVE  /\ Ring([b EXCEPT ![h] = p + 1], next_pos(h), t, p + 1, g)
         /\ Dist(next_pos(h), t) = Dist(h, t) + 1
<1> USE BufSizeAssumption
<1>1. next_pos(h) = IF h + 1 < BufSize THEN h + 1 ELSE 0
  BY NextPos
<1>2. Dist(h, t) \in 0 .. BufSize - 2 /\ Dist(next_pos(h), t) = Dist(h, t) + 1
  BY <1>1 DEF Dist
<1>3. ASSUME NEW i \in 1 .. Dist(h, t) + 1
      PROVE  [b EXCEPT ![h] = p + 1][(t + i - 1) % BufSize] = g + i
  <2>1. i - 1 \in 0 .. BufSize
    BY <1>2
  <2>2. t + i - 1 = t + (i - 1)
    BY <1>2
  <2>3. (t + i - 1) % BufSize = IF t + i - 1 < BufSize THEN t + i - 1 ELSE t + i - 1 - BufSize
    BY <2>1, <2>2, Wrap
  <2>4. CASE i = Dist(h, t) + 1
    <3>1. (t + i - 1) % BufSize = h
      BY <1>2, <2>3, <2>4 DEF Dist
    <3>2. p + 1 = g + i
      BY <1>2, <2>4 DEF Ring
    <3>3. [b EXCEPT ![h] = p + 1][h] = p + 1
      OBVIOUS
    <3> QED
      BY <3>1, <3>2, <3>3
  <2>5. CASE i \in 1 .. Dist(h, t)
    <3> DEFINE x == IF t + i - 1 < BufSize THEN t + i - 1 ELSE t + i - 1 - BufSize
    <3>0. x # h /\ x \in 0 .. BufSize - 1
      <4>1. CASE h >= t
        BY <2>5, <4>1 DEF Dist
      <4>2. CASE h < t
        BY <2>5, <4>2 DEF Dist
      <4> QED
        BY <4>1, <4>2
    <3>1. (t + i - 1) % BufSize # h /\ (t + i - 1) % BufSize \in 0 .. BufSize - 1
      BY <2>3, <3>0
    <3>2. b[(t + i - 1) % BufSize] = g + i
      BY <2>5 DEF Ring
    <3>3. \A y \in 0 .. BufSize - 1 : y # h => [b EXCEPT ![h] = p + 1][y] = b[y]
      OBVIOUS
    <3> QED
      BY <3>1, <3>2, <3>3
  <2>6. i = Dist(h, t) + 1 \/ i \in 1 .. Dist(h, t)
    <3>1. \A d \in Nat : i \in 1 .. d + 1 => i = d + 1 \/ i \in 1 .. d
      OBVIOUS
    <3>2. Dist(h, t) \in Nat
      BY <1>2
    <3> QED
      BY <3>1, <3>2
  <2> QED
    BY <2>4, <2>5, <2>6
<1>4. Dist(h, t) + 1 = p + 1 - g
  BY <1>2 DEF Ring
<1> QED
  BY <1>2, <1>3, <1>4 DEF Ring

(* ioq_getchar: the oldest character, and the others stay in order.         *)
LEMMA RingGet ==
  ASSUME NEW b \in [0 .. BufSize - 1 -> Nat], NEW h \in 0 .. BufSize - 1,
         NEW t \in 0 .. BufSize - 1, NEW p \in Nat, NEW g \in Nat,
         Ring(b, h, t, p, g), h # t
  PROVE  /\ b[t] = g + 1 /\ Ring(b, h, next_pos(t), p, b[t])
         /\ Dist(h, next_pos(t)) = Dist(h, t) - 1
<1> USE BufSizeAssumption
<1>1. next_pos(t) = IF t + 1 < BufSize THEN t + 1 ELSE 0
  BY NextPos
<1>2. Dist(h, t) \in 1 .. BufSize - 1 /\ Dist(h, next_pos(t)) = Dist(h, t) - 1
  BY <1>1 DEF Dist
<1>3. b[t] = g + 1
  <2>1. (t + 1 - 1) % BufSize = t
    <3>1. (t + 0) % BufSize = IF t + 0 < BufSize THEN t + 0 ELSE t + 0 - BufSize
      BY Wrap
    <3>2. t + 1 - 1 = t + 0 /\ t + 0 = t /\ t < BufSize
      OBVIOUS
    <3> QED
      BY <3>1, <3>2
  <2>2. 1 \in 1 .. Dist(h, t)
    BY <1>2
  <2> QED
    BY <2>1, <2>2 DEF Ring
<1>4. ASSUME NEW i \in 1 .. Dist(h, t) - 1
      PROVE  b[(next_pos(t) + i - 1) % BufSize] = b[t] + i
  <2> DEFINE j == i + 1
  <2>1. j \in 1 .. Dist(h, t) /\ i \in 0 .. BufSize /\ i - 1 \in 0 .. BufSize
    BY <1>2
  <2>2. next_pos(t) \in 0 .. BufSize - 1
    BY <1>1
  <2>3. (t + i) % BufSize = IF t + i < BufSize THEN t + i ELSE t + i - BufSize
    BY <2>1, Wrap
  <2>4. (next_pos(t) + (i - 1)) % BufSize =
          IF next_pos(t) + (i - 1) < BufSize THEN next_pos(t) + (i - 1)
                                             ELSE next_pos(t) + (i - 1) - BufSize
    BY <2>1, <2>2, Wrap
  <2>5. (next_pos(t) + i - 1) % BufSize = (t + j - 1) % BufSize
    <3>1. t + j - 1 = t + i /\ next_pos(t) + i - 1 = next_pos(t) + (i - 1)
      BY <2>1, <2>2
    <3>2. (t + i) % BufSize = (next_pos(t) + (i - 1)) % BufSize
      BY <1>1, <2>1, <2>3, <2>4
    <3> QED
      BY <3>1, <3>2
  <2>6. b[(t + j - 1) % BufSize] = g + j
    BY <2>1 DEF Ring
  <2>7. g + j = b[t] + i
    BY <1>3, <2>1
  <2> QED
    BY <2>5, <2>6, <2>7
<1>5. Dist(h, t) - 1 = p - b[t]
  BY <1>2, <1>3 DEF Ring
<1> QED
  BY <1>2, <1>3, <1>4, <1>5 DEF Ring

-----------------------------------------------------------------------------
(* The queues ioqueue_init leaves satisfy the invariant.                    *)
LEMMA InitIoq == Init => IoqInv
<1> SUFFICES ASSUME Init PROVE IoqInv
  OBVIOUS
<1> USE TasksAssumption, QueuesAssumption, IoqNullAssumption, BufSizeAssumption
<1>1. SchedInv
  BY InitSched DEF Init
<1>2. IoqTypes
  BY DEF Init, IoqTypes, Queues, Sides
<1>3. PlacesExact
  BY DEF Init, ThreadInit, PlacesExact
<1>4. UsersExact /\ ReadsAvailable /\ SoleUsers /\ LockerNotForgotten
  BY DEF Init, UsersExact, ReadsAvailable, SoleUsers, LockerNotForgotten
<1>5. HoldersExact /\ SleeperExact /\ NoSleepWithData /\ PipeBlocksFull
  BY DEF Init, HoldersExact, SleeperExact, NoSleepWithData, PipeBlocksFull, Sides, Queues
<1>6. LockersExact
  BY DEF Init, LockersExact, Lockers, QueueExact, Queues
<1>7. BufferExact
  BY DEF Init, BufferExact, Length, Queues
<1> QED
  BY <1>1, <1>2, <1>3, <1>4, <1>5, <1>6, <1>7 DEF IoqInv

(* A step of the scheduler that interrupts no call, and neither blocks nor  *)
(* wakes a task that is in one.                                             *)
LEMMA SchedStepIoq ==
  ASSUME IoqInv, SchedInv', UNCHANGED <<ioqVars, pc, callVars, users>>, pc[cur] = "user",
         \A t \in Threads : status'[t] \notin {"WAITING", "HANGING"},
         \A t \in Threads : status'[t] = "BLOCKED" => t = Idle \/ status[t] = "BLOCKED",
         \A t \in Threads : pc[t] # "user" =>
            status'[t] = status[t] \/ (status[t] \in Awake /\ status'[t] \in Awake)
  PROVE  IoqInv'
<1>1. IoqTypes'
  BY DEF IoqInv, IoqTypes, ioqVars, callVars
<1>2. PlacesExact'
  BY DEF IoqInv, PlacesExact, callVars, Awake
<1>3. UsersExact' /\ ReadsAvailable' /\ SoleUsers' /\ HoldersExact'
  BY DEF IoqInv, UsersExact, ReadsAvailable, SoleUsers, HoldersExact, Length, OneReader,
         OneWriter, ioqVars, callVars
<1>4. \A t \in Threads : pc[t] # "user" => (status'[t] = "BLOCKED" <=> status[t] = "BLOCKED")
  BY DEF Awake
<1>5. LockersExact'
  <2>1. ASSUME NEW k \in Queues PROVE Lockers(k)' = Lockers(k)
    BY <1>4 DEF Lockers, callVars
  <2> QED
    BY <2>1 DEF IoqInv, LockersExact, ioqVars
<1>6. SleeperExact' /\ LockerNotForgotten'
  BY <1>4 DEF IoqInv, SleeperExact, LockerNotForgotten, ioqVars, callVars
<1>7. NoSleepWithData' /\ PipeBlocksFull'
  BY <1>4 DEF IoqInv, NoSleepWithData, PipeBlocksFull, Empty, Full, OneReader, OneWriter,
              ioqVars, callVars
<1>8. BufferExact'
  BY DEF IoqInv, BufferExact, Length, ioqVars
<1> QED
  BY <1>1, <1>2, <1>3, <1>5, <1>6, <1>7, <1>8 DEF IoqInv

(* The timer, the idle task, the starts and exits of processes.             *)
LEMMA SchedulerIoq ==
  ASSUME IoqInv, SchedulerStep, UNCHANGED users
  PROVE  IoqInv'
<1> USE TasksAssumption
<1>0. /\ UNCHANGED <<ioqVars, pc, callVars, users>> /\ SchedInv
      /\ \A t \in Threads : pc[t] # "user" => t \notin {Idle, Main}
      /\ \A t \in Threads : status[t] \notin {"WAITING", "HANGING"}
      /\ cur \in Threads /\ status \in [Threads -> Statuses]
  BY DEF SchedulerStep, IoqInv, PlacesExact, Procs, SchedInv, CoreInv
<1>1. CASE (IntrOn /\ TimerTick) \/ IdleBlock \/ IdleHalt
  <2>1. SchedInv' /\ SameAwake
    BY <1>0, <1>1, TimerIdleSched
  <2>2. pc[cur] = "user"
    BY <1>0, <1>1 DEF IntrOn, IdleBlock, IdleHalt
  <2>3. status'[Idle] \in {"RUNNING", "READY", "BLOCKED"}
    BY <2>1 DEF SchedInv, CoreInv, IdleAvailable
  <2> QED
    BY <1>0, <2>1, <2>2, <2>3, SchedStepIoq DEF SameAwake, Awake
<1>2. ASSUME NEW t \in Procs, IntrOn, Start(t) PROVE IoqInv'
  <2>1. SchedInv' /\ status[t] = "NULL" /\ status' = [status EXCEPT ![t] = "READY"]
    BY <1>0, <1>2, StartSched DEF Start, NewTask, Procs
  <2>2. pc[cur] = "user" /\ pc[t] = "user"
    BY <1>0, <1>2, <2>1 DEF IntrOn, IoqInv, PlacesExact, Procs
  <2> QED
    BY <1>0, <2>1, <2>2, SchedStepIoq
<1>3. CASE MainExit
  <2>1. /\ SchedInv' /\ status'[Main] = "OVER"
        /\ \A u \in Threads \ {Main, Idle} :
              status'[u] = status[u] \/ (status[u] \in Awake /\ status'[u] \in Awake)
    BY <1>0, <1>3, MainExitSched
  <2>2. status'[Idle] \in {"RUNNING", "READY", "BLOCKED"}
    BY <2>1 DEF SchedInv, CoreInv, IdleAvailable
  <2>3. pc[cur] = "user"
    BY <1>0, <1>3 DEF MainExit
  <2> QED
    BY <1>0, <2>1, <2>2, <2>3, SchedStepIoq DEF Awake
<1> QED
  BY <1>1, <1>2, <1>3 DEF SchedulerStep

-----------------------------------------------------------------------------
(* A step that does not touch the scheduler, an end of a hlt aside.         *)
LEMMA SameSched ==
  ASSUME SchedInv, UNCHANGED <<status, ready, cur, ticks, taskVars>>,
         idlepc' \in {"block", "hlt", "halted"}
  PROVE  SchedInv'
<1>1. CoreInv'
  BY DEF SchedInv, CoreInv, ReadyListExact, OneRunning, IdleAvailable, ListExact
<1>2. SameTasks
  BY DEF SameTasks, Listed
<1> QED
  BY <1>1, <1>2, SameTasksSched

(* A step of the current task inside or around a call that wakes w, if it   *)
(* is a task, out of its slot: the sleepers and the lock stay exact.        *)
LEMMA CallStep ==
  ASSUME IoqInv, IoqTypes', cur' = cur, UNCHANGED <<holder, waiters, users>>,
         NEW w, w \in Threads => pc[w] = "wait" /\ status[w] = "BLOCKED",
         \A t \in Threads : status'[t] = IF t = w THEN "READY" ELSE status[t],
         \A k \in Queues, s \in Sides, t \in Threads :
            waiter'[k][s] = t <=> waiter[k][s] = t /\ t # w,
         \A t \in Threads \ {cur} : pc'[t] = pc[t] /\ q'[t] = q[t] /\ side'[t] = side[t],
         pc[cur] \in {"user", "loop"}, pc'[cur] \in {"user", "loop"}
  PROVE  HoldersExact' /\ LockersExact' /\ SoleUsers' /\ SleeperExact' /\ LockerNotForgotten'
<1>1. cur \in Threads /\ status[cur] = "RUNNING"
  BY DEF IoqInv, SchedInv, CoreInv, OneRunning
<1>2. HoldersExact'
  BY <1>1 DEF IoqInv, HoldersExact
<1>3. LockersExact'
  <2>1. ASSUME NEW k \in Queues PROVE Lockers(k)' = Lockers(k)
    BY <1>1 DEF Lockers
  <2> QED
    BY <2>1 DEF IoqInv, LockersExact
<1>4. SoleUsers'
  BY <1>1 DEF IoqInv, SoleUsers, OneReader, OneWriter
<1>5. SleeperExact'
  BY <1>1 DEF IoqInv, SleeperExact
<1>6. LockerNotForgotten'
  <2> SUFFICES ASSUME NEW t \in Threads, pc'[t] = "lock", status'[t] = "BLOCKED"
               PROVE  /\ \E i \in DOMAIN waiters[q[t]] : waiters[q[t]][i] = t
                      /\ \/ holder[q[t]] # Null
                         \/ \E u \in Threads : pc[u] = "lock" /\ q[u] = q[t] /\ status[u] # "BLOCKED"
                      /\ t # cur
    BY DEF LockerNotForgotten
  <2> QED
    BY <1>1 DEF IoqInv, LockerNotForgotten
<1> QED
  BY <1>2, <1>3, <1>4, <1>5, <1>6

(* A process enters a call: it asks for n characters, and of a pipe it      *)
(* reads no more than there are.                                            *)
LEMMA EnterIoq ==
  ASSUME IoqInv, NEW k \in Queues, NEW s \in Sides, NEW n \in Nat, Enter(k, s, n), UNCHANGED users,
         k = Kbd => s = "consumer" /\ cur \in users.readers,
         k = Pipe /\ s = "producer" => cur \in users.writers,
         k = Pipe /\ s = "consumer" => n <= Length(Pipe)
  PROVE  IoqInv'
<1> USE TasksAssumption, QueuesAssumption
<1>1. /\ cur \in Threads /\ cur \in Procs /\ status[cur] = "RUNNING" /\ pc[cur] = "user" /\ n > 0
      /\ UNCHANGED <<threadVars, ioqVars>>
  BY DEF IoqInv, SchedInv, CoreInv, OneRunning, Enter
<1>2. /\ IoqTypes' /\ pc'[cur] = "loop" /\ side'[cur] = s /\ q'[cur] = k /\ left'[cur] = n
      /\ \A t \in Threads \ {cur} : /\ pc'[t] = pc[t] /\ q'[t] = q[t] /\ side'[t] = side[t]
                                    /\ left'[t] = left[t]
  BY <1>1 DEF IoqInv, IoqTypes, Enter, GoTo, ioqVars
<1>3. SchedInv' /\ UNCHANGED <<status, cur>>
  <2>1. UNCHANGED <<status, ready, cur, ticks, taskVars, idlepc>>
    BY <1>1 DEF threadVars, taskVars
  <2> QED
    BY <2>1, SameSched DEF IoqInv, SchedInv, TaskTypes
<1>4. HoldersExact' /\ LockersExact' /\ SoleUsers' /\ SleeperExact' /\ LockerNotForgotten'
  <2>1. Null \notin Threads
    BY IoqNullAssumption
  <2> QED
    BY <1>1, <1>2, <1>3, <2>1, CallStep DEF ioqVars
<1>5. PlacesExact' /\ UsersExact'
  BY <1>1, <1>2, <1>3 DEF IoqInv, PlacesExact, UsersExact
<1>6. ReadsAvailable'
  BY <1>1, <1>2 DEF IoqInv, ReadsAvailable, Length, ioqVars
<1>7. NoSleepWithData'
  BY <1>1, <1>2, <1>3 DEF IoqInv, NoSleepWithData, Empty, OneReader, ioqVars
<1>8. PipeBlocksFull'
  BY <1>1, <1>2, <1>3 DEF IoqInv, PipeBlocksFull, Full, OneWriter, ioqVars
<1>9. BufferExact'
  BY <1>1 DEF IoqInv, BufferExact, Length, ioqVars
<1> QED
  BY <1>2, <1>3, <1>4, <1>5, <1>6, <1>7, <1>8, <1>9 DEF IoqInv

(* wakeup, if a task sleeps in the slot.                                    *)
LEMMA WakeOtherIoq ==
  ASSUME IoqInv, NEW k \in Queues, NEW s \in Sides, WakeOther(k, s), UNCHANGED taskVars,
         idlepc' \in {"block", "hlt", "halted"}
  PROVE  /\ SchedInv' /\ cur' = cur
         /\ waiter[k][s] \in Threads => /\ pc[waiter[k][s]] = "wait"
                                        /\ status[waiter[k][s]] = "BLOCKED"
         /\ \A t \in Threads : status'[t] = IF t = waiter[k][s] THEN "READY" ELSE status[t]
         /\ waiter' \in [Queues -> [Sides -> Threads \union {Null}]]
         /\ \A j \in Queues, r \in Sides, t \in Threads :
               waiter'[j][r] = t <=> waiter[j][r] = t /\ t # waiter[k][s]
<1> USE IoqNullAssumption
<1>0. waiter \in [Queues -> [Sides -> Threads \union {Null}]] /\ SchedInv /\ CoreInv
      /\ status \in [Threads -> Statuses]
  BY DEF IoqInv, IoqTypes, SchedInv, CoreInv
<1>1. CASE waiter[k][s] = Null
  <2>1. UNCHANGED <<status, ready, cur, ticks, waiter>>
    BY <1>1 DEF WakeOther
  <2>2. SchedInv'
    BY <1>0, <2>1, SameSched
  <2> QED
    BY <1>0, <1>1, <2>1, <2>2
<1>2. CASE waiter[k][s] # Null
  <2>1. PICK w \in Threads : waiter[k][s] = w
    BY <1>0, <1>2
  <2>2. ThreadUnblock(w) /\ waiter' = [waiter EXCEPT ![k][s] = Null]
    BY <1>2, <2>1 DEF WakeOther
  <2>3. status[w] = "BLOCKED" /\ pc[w] = "wait" /\ q[w] = k /\ side[w] = s
    BY <2>1 DEF IoqInv, SleeperExact
  <2>4. CoreInv' /\ SameTasks
    BY <1>0, <2>2, <2>3, UnblockCore
  <2>5. SchedInv'
    BY <1>0, <2>4, SameTasksSched
  <2>6. status' = [status EXCEPT ![w] = "READY"] /\ cur' = cur
    BY <2>2 DEF ThreadUnblock
  <2>7. \A j \in Queues, r \in Sides : waiter[j][r] = w => j = k /\ r = s
    BY <2>3 DEF IoqInv, SleeperExact
  <2>8. /\ waiter' \in [Queues -> [Sides -> Threads \union {Null}]]
        /\ \A j \in Queues, r \in Sides :
              waiter'[j][r] = IF j = k /\ r = s THEN Null ELSE waiter[j][r]
    BY <1>0, <2>2
  <2> QED
    BY <1>0, <2>1, <2>3, <2>5, <2>6, <2>7, <2>8
<1> QED
  BY <1>1, <1>2

(* What PutByte and GetByte do to the rings.                                *)
LEMMA PutByteRings ==
  ASSUME IoqTypes, BufferExact, NEW k \in Queues, PutByte(k), ~Full(k)
  PROVE  /\ buf' \in [Queues -> [0 .. BufSize - 1 -> Nat]]
         /\ head' \in [Queues -> 0 .. BufSize - 1] /\ tail' \in [Queues -> 0 .. BufSize - 1]
         /\ put' \in [Queues -> Nat] /\ got' \in [Queues -> Nat]
         /\ BufferExact' /\ \A j \in Queues \ {k} : head'[j] = head[j] /\ tail'[j] = tail[j]
<1>1. /\ put' = [put EXCEPT ![k] = @ + 1] /\ buf' = [buf EXCEPT ![k][head[k]] = put[k] + 1]
      /\ head' = [head EXCEPT ![k] = next_pos(@)] /\ tail' = tail /\ got' = got
  BY DEF PutByte
<1>2. /\ buf[k] \in [0 .. BufSize - 1 -> Nat] /\ head[k] \in 0 .. BufSize - 1
      /\ tail[k] \in 0 .. BufSize - 1 /\ put[k] \in Nat /\ got[k] \in Nat
  BY DEF IoqTypes
<1>3. next_pos(head[k]) \in 0 .. BufSize - 1
  BY <1>2, NextPos
<1>4. Ring([buf[k] EXCEPT ![head[k]] = put[k] + 1], next_pos(head[k]), tail[k], put[k] + 1, got[k])
  BY <1>2, RingPut, BufferRing DEF Full
<1>5. /\ buf'[k] = [buf[k] EXCEPT ![head[k]] = put[k] + 1] /\ head'[k] = next_pos(head[k])
      /\ put'[k] = put[k] + 1
      /\ \A j \in Queues \ {k} : buf'[j] = buf[j] /\ head'[j] = head[j] /\ put'[j] = put[j]
  BY <1>1 DEF IoqTypes
<1>6. BufferExact'
  <2>1. \A j \in Queues : Ring(buf'[j], head'[j], tail'[j], put'[j], got'[j])
    BY <1>1, <1>4, <1>5, BufferRing
  <2> QED
    BY <2>1 DEF BufferExact, Ring, Dist, Length
<1>7. buf' \in [Queues -> [0 .. BufSize - 1 -> Nat]]
  BY <1>1, <1>2 DEF IoqTypes
<1>8. /\ head' \in [Queues -> 0 .. BufSize - 1] /\ put' \in [Queues -> Nat]
      /\ tail' \in [Queues -> 0 .. BufSize - 1] /\ got' \in [Queues -> Nat]
  BY <1>1, <1>2, <1>3 DEF IoqTypes
<1> QED
  BY <1>1, <1>5, <1>6, <1>7, <1>8

(* ioq_getchar takes from one ring and leaves the other alone.              *)
LEMMA GetByteRings ==
  ASSUME IoqTypes, BufferExact, NEW k \in Queues, GetByte(k), ~Empty(k)
  PROVE  /\ buf' \in [Queues -> [0 .. BufSize - 1 -> Nat]]
         /\ head' \in [Queues -> 0 .. BufSize - 1] /\ tail' \in [Queues -> 0 .. BufSize - 1]
         /\ put' \in [Queues -> Nat] /\ got' \in [Queues -> Nat]
         /\ BufferExact' /\ \A j \in Queues \ {k} : head'[j] = head[j] /\ tail'[j] = tail[j]
         /\ Length(k) \in Nat \ {0} /\ Length(k)' = Length(k) - 1
<1>1. /\ got' = [got EXCEPT ![k] = buf[k][tail[k]]] /\ tail' = [tail EXCEPT ![k] = next_pos(@)]
      /\ buf' = buf /\ head' = head /\ put' = put
  BY DEF GetByte
<1>2. /\ buf[k] \in [0 .. BufSize - 1 -> Nat] /\ head[k] \in 0 .. BufSize - 1
      /\ tail[k] \in 0 .. BufSize - 1 /\ put[k] \in Nat /\ got[k] \in Nat
  BY DEF IoqTypes
<1>3. next_pos(tail[k]) \in 0 .. BufSize - 1 /\ buf[k][tail[k]] \in Nat
  BY <1>2, NextPos
<1>4. /\ Ring(buf[k], head[k], next_pos(tail[k]), put[k], buf[k][tail[k]])
      /\ Dist(head[k], next_pos(tail[k])) = Dist(head[k], tail[k]) - 1
  BY <1>2, RingGet, BufferRing DEF Empty
<1>5. /\ tail'[k] = next_pos(tail[k]) /\ got'[k] = buf[k][tail[k]]
      /\ \A j \in Queues \ {k} : tail'[j] = tail[j] /\ got'[j] = got[j]
  BY <1>1 DEF IoqTypes
<1>6. BufferExact'
  <2>1. \A j \in Queues : Ring(buf'[j], head'[j], tail'[j], put'[j], got'[j])
    BY <1>1, <1>4, <1>5, BufferRing
  <2> QED
    BY <2>1 DEF BufferExact, Ring, Dist, Length
<1>7. /\ tail' \in [Queues -> 0 .. BufSize - 1] /\ got' \in [Queues -> Nat]
      /\ head' \in [Queues -> 0 .. BufSize - 1] /\ put' \in [Queues -> Nat]
      /\ buf' \in [Queues -> [0 .. BufSize - 1 -> Nat]]
  BY <1>1, <1>2, <1>3 DEF IoqTypes
<1>8. Length(k) \in Nat \ {0}
  BY <1>2, BufSizeAssumption DEF Length, Empty
<1>9. Length(k)' = Length(k) - 1
  BY <1>1, <1>4, <1>5 DEF Length, Dist
<1> QED
  BY <1>1, <1>5, <1>6, <1>7, <1>8, <1>9

(* The current task moves one character and wakes the other side.           *)
LEMMA MoveIoq ==
  ASSUME IoqInv, Move, UNCHANGED users
  PROVE  IoqInv'
<1> USE TasksAssumption, QueuesAssumption, IoqNullAssumption
<1>0. SchedInv /\ IoqTypes /\ BufferExact /\ idlepc' \in {"block", "hlt", "halted"}
  BY DEF IoqInv, SchedInv, TaskTypes, Move
<1>1. /\ cur \in Threads /\ status[cur] = "RUNNING" /\ pc[cur] = "loop"
      /\ UNCHANGED <<holder, waiters, taskVars, idlepc, users>> /\ ~MustWait(q[cur], side[cur])
  <2>1. /\ pc[cur] = "loop" /\ ~MustWait(q[cur], side[cur])
        /\ UNCHANGED <<holder, waiters, taskVars, idlepc, users>>
    BY DEF Move
  <2> QED
    BY <1>0, <2>1 DEF SchedInv, CoreInv, OneRunning
<1>a. cur \in Procs /\ left[cur] \in Nat \ {0} /\ q[cur] \in Queues /\ side[cur] \in Sides
  <2>1. left \in [Threads -> Nat] /\ q \in [Threads -> Queues] /\ side \in [Threads -> Sides]
    BY <1>0 DEF IoqTypes
  <2>2. cur \in Procs /\ left[cur] > 0
    BY <1>1 DEF IoqInv, PlacesExact
  <2> QED
    BY <1>1, <2>1, <2>2
<1>2. PICK k \in Queues : k = q[cur]
  BY <1>a
<1>3. PICK s \in Sides : s # side[cur]
  BY DEF Sides
<1>4. /\ side[cur] = "consumer" => s = "producer" /\ GetByte(k) /\ ~Empty(k)
      /\ side[cur] = "producer" => s = "consumer" /\ PutByte(k) /\ ~Full(k)
      /\ WakeOther(k, s)
  BY <1>1, <1>a, <1>2, <1>3 DEF Move, MustWait, Sides
<1>5. PICK w : w = waiter[k][s]
  OBVIOUS
<1>6. /\ SchedInv' /\ cur' = cur /\ (w \in Threads => pc[w] = "wait" /\ status[w] = "BLOCKED")
      /\ \A t \in Threads : status'[t] = IF t = w THEN "READY" ELSE status[t]
      /\ waiter' \in [Queues -> [Sides -> Threads \union {Null}]]
      /\ \A j \in Queues, r \in Sides, t \in Threads :
            waiter'[j][r] = t <=> waiter[j][r] = t /\ t # w
  BY <1>0, <1>1, <1>4, <1>5, WakeOtherIoq
<1>7. /\ buf' \in [Queues -> [0 .. BufSize - 1 -> Nat]]
      /\ head' \in [Queues -> 0 .. BufSize - 1] /\ tail' \in [Queues -> 0 .. BufSize - 1]
      /\ put' \in [Queues -> Nat] /\ got' \in [Queues -> Nat]
      /\ BufferExact' /\ \A j \in Queues \ {k} : head'[j] = head[j] /\ tail'[j] = tail[j]
      /\ side[cur] = "consumer" => Length(k) \in Nat \ {0} /\ Length(k)' = Length(k) - 1
  <2>1. side[cur] = "consumer" \/ side[cur] = "producer"
    BY <1>a DEF Sides
  <2> QED
    BY <1>0, <1>4, <2>1, PutByteRings, GetByteRings
<1>8. /\ pc' \in [Threads -> {"user", "loop", "lock", "wait"}] /\ side' \in [Threads -> Sides]
      /\ q' \in [Threads -> Queues] /\ left' \in [Threads -> Nat]
      /\ \A t \in Threads \ {cur} : /\ pc'[t] = pc[t] /\ q'[t] = q[t] /\ side'[t] = side[t]
                                    /\ left'[t] = left[t]
      /\ pc'[cur] \in {"user", "loop"} /\ left'[cur] = left[cur] - 1
      /\ pc'[cur] = "loop" => /\ q'[cur] = k /\ side'[cur] = side[cur] /\ left[cur] > 1
  <2>1. /\ left' = [left EXCEPT ![cur] = @ - 1] /\ left \in [Threads -> Nat]
        /\ pc \in [Threads -> {"user", "loop", "lock", "wait"}] /\ side \in [Threads -> Sides]
        /\ q \in [Threads -> Queues]
    BY <1>0, <1>1 DEF Move, IoqTypes
  <2>2. CASE left[cur] > 1 /\ UNCHANGED <<pc, side, q>>
    BY <1>1, <1>a, <1>2, <2>1, <2>2
  <2>3. CASE Return
    BY <1>1, <1>a, <2>1, <2>3 DEF Return, GoTo, Queues, Sides
  <2> QED
    BY <2>2, <2>3 DEF Move
<1>9. IoqTypes'
  BY <1>0, <1>1, <1>6, <1>7, <1>8 DEF IoqTypes
<1>10. HoldersExact' /\ LockersExact' /\ SoleUsers' /\ SleeperExact' /\ LockerNotForgotten'
  <2>1. pc[cur] \in {"user", "loop"} /\ pc'[cur] \in {"user", "loop"}
    BY <1>1, <1>8
  <2>2. \A t \in Threads \ {cur} : pc'[t] = pc[t] /\ q'[t] = q[t] /\ side'[t] = side[t]
    BY <1>8
  <2>3. UNCHANGED <<holder, waiters, users>>
    BY <1>1
  <2> QED
    BY <1>6, <1>9, <2>1, <2>2, <2>3, CallStep
<1>11. PlacesExact'
  <2> SUFFICES ASSUME NEW t \in Threads
               PROVE  /\ status'[t] \notin {"WAITING", "HANGING"}
                      /\ pc'[t] # "user" => /\ status'[t] \notin {"NULL", "OVER"} /\ t \in Procs
                                            /\ left'[t] > 0
                      /\ status'[t] = "BLOCKED" => t = Idle \/ pc'[t] \in {"lock", "wait"}
                      /\ pc'[t] = "loop" => t = cur'
    BY DEF PlacesExact
  <2>1. CASE t = cur
    BY <1>1, <1>a, <1>6, <1>8, <2>1
  <2>2. CASE t # cur
    BY <1>6, <1>8, <2>2 DEF IoqInv, PlacesExact
  <2> QED
    BY <2>1, <2>2
<1>12. UsersExact'
  BY <1>1, <1>2, <1>8 DEF IoqInv, UsersExact
<1>13. ReadsAvailable'
  <2> SUFFICES ASSUME NEW t \in Threads, pc'[t] # "user", q'[t] = Pipe, side'[t] = "consumer"
               PROVE  pc'[t] = "loop" /\ left'[t] <= Length(Pipe)'
    BY DEF ReadsAvailable
  <2>1. t = cur
    BY <1>1, <1>8 DEF IoqInv, ReadsAvailable, PlacesExact
  <2>2. k = Pipe /\ side[cur] = "consumer" /\ left[cur] <= Length(Pipe)
    BY <1>1, <1>2, <1>8, <2>1 DEF IoqInv, ReadsAvailable
  <2> QED
    <3>1. Length(k) = Length(Pipe) /\ Length(k)' = Length(Pipe)'
      BY <2>2 DEF Length
    <3>a. left[cur] <= Length(k) /\ Length(k) \in Nat /\ Length(k)' = Length(k) - 1
      BY <1>7, <2>2, <3>1
    <3>2. left[cur] - 1 <= Length(k)' /\ left'[cur] = left[cur] - 1
      <4>1. left[cur] \in Nat /\ left'[cur] = left[cur] - 1
        BY <1>a, <1>8
      <4> QED
        BY <3>a, <4>1
    <3>3. pc'[cur] = "loop"
      BY <1>8, <2>1
    <3> QED
      BY <2>1, <3>1, <3>2, <3>3
<1>14. NoSleepWithData'
  <2> SUFFICES ASSUME OneReader, NEW t \in Threads, pc'[t] = "wait", status'[t] = "BLOCKED",
                      side'[t] = "consumer"
               PROVE  Empty(q[t])' /\ t # cur
    BY <1>8 DEF NoSleepWithData, OneReader
  <2>1. t # cur /\ pc[t] = "wait" /\ status[t] = "BLOCKED" /\ side[t] = "consumer"
    BY <1>1, <1>6, <1>8
  <2>2. Empty(q[t]) /\ q[t] = Kbd /\ t \in users.readers
    BY <2>1 DEF IoqInv, NoSleepWithData, PipeBlocksFull, UsersExact, IoqTypes, Queues
  <2>3. k # Kbd
    BY <1>1, <1>2, <2>1, <2>2 DEF OneReader, IoqInv, UsersExact
  <2> QED
    BY <1>7, <1>8, <2>1, <2>2, <2>3 DEF Empty, Queues
<1>15. PipeBlocksFull'
  <2> SUFFICES ASSUME NEW t \in Threads, pc'[t] \in {"lock", "wait"}, q'[t] = Pipe
               PROVE  side'[t] = "producer" /\ (OneWriter /\ status'[t] = "BLOCKED" => Full(Pipe)')
    BY <1>1 DEF PipeBlocksFull, OneWriter
  <2>1. t # cur /\ pc[t] \in {"lock", "wait"} /\ q[t] = Pipe /\ side'[t] = side[t]
    BY <1>8
  <2>2. side[t] = "producer" /\ t \in users.writers
    BY <2>1 DEF IoqInv, PipeBlocksFull, UsersExact
  <2>3. ASSUME OneWriter, status'[t] = "BLOCKED" PROVE Full(Pipe)'
    <3>1. status[t] = "BLOCKED" /\ t # w
      BY <1>6, <2>3
    <3>2. Full(Pipe) /\ pc[t] = "wait"
      BY <2>1, <2>3, <3>1 DEF IoqInv, PipeBlocksFull, SoleUsers
    <3>3. waiter[Pipe]["producer"] = t
      BY <2>1, <2>2, <3>1, <3>2 DEF IoqInv, SleeperExact, HoldersExact, Queues, Sides
    <3>4. k # Pipe
      <4>1. CASE side[cur] = "consumer"
        BY <1>4, <1>5, <3>1, <3>3, <4>1
      <4>2. CASE side[cur] = "producer"
        BY <1>1, <1>2, <2>1, <2>2, <2>3, <4>2 DEF OneWriter, IoqInv, UsersExact
      <4> QED
        BY <1>a, <4>1, <4>2 DEF Sides
    <3> QED
      BY <1>7, <3>2, <3>4 DEF Full, Queues
  <2> QED
    BY <2>1, <2>2, <2>3
<1> QED
  BY <1>6, <1>7, <1>9, <1>10, <1>11, <1>12, <1>13, <1>14, <1>15 DEF IoqInv

(* The keyboard interrupt puts a character, or drops it.                    *)
LEMMA KeyIntrIoq ==
  ASSUME IoqInv, KeyIntr, UNCHANGED users
  PROVE  IoqInv'
<1> USE TasksAssumption, QueuesAssumption, IoqNullAssumption
<1>1. SchedInv /\ IoqTypes /\ BufferExact /\ idlepc' \in {"block", "hlt", "halted"}
  BY DEF IoqInv, SchedInv, TaskTypes, KeyIntr, WakeHlt
<1>2. UNCHANGED <<holder, waiters, pc, side, q, left, taskVars, users>> /\ pc[cur] = "user"
  BY DEF KeyIntr, callVars, IntrOn, IoqInv, PlacesExact, Procs
<1>3. CASE ~Full(Kbd) /\ PutByte(Kbd) /\ WakeOther(Kbd, "consumer")
  <2>1. Kbd \in Queues /\ "consumer" \in Sides
    BY DEF Queues, Sides
  <2>2. PICK w : w = waiter[Kbd]["consumer"]
    OBVIOUS
  <2>3. /\ SchedInv' /\ cur' = cur /\ (w \in Threads => pc[w] = "wait" /\ status[w] = "BLOCKED")
        /\ \A t \in Threads : status'[t] = IF t = w THEN "READY" ELSE status[t]
        /\ waiter' \in [Queues -> [Sides -> Threads \union {Null}]]
        /\ \A j \in Queues, r \in Sides, t \in Threads :
              waiter'[j][r] = t <=> waiter[j][r] = t /\ t # w
    BY <1>1, <1>2, <1>3, <2>1, <2>2, WakeOtherIoq
  <2>4. /\ buf' \in [Queues -> [0 .. BufSize - 1 -> Nat]]
        /\ head' \in [Queues -> 0 .. BufSize - 1] /\ tail' \in [Queues -> 0 .. BufSize - 1]
        /\ put' \in [Queues -> Nat] /\ got' \in [Queues -> Nat]
        /\ BufferExact' /\ head'[Pipe] = head[Pipe] /\ tail'[Pipe] = tail[Pipe]
    <3>1. Pipe \in Queues \ {Kbd}
      BY DEF Queues
    <3> QED
      BY <1>1, <1>3, <2>1, <3>1, PutByteRings
  <2>5. IoqTypes'
    BY <1>1, <1>2, <2>3, <2>4 DEF IoqTypes
  <2>6. HoldersExact' /\ LockersExact' /\ SoleUsers' /\ SleeperExact' /\ LockerNotForgotten'
    <3>1. pc[cur] \in {"user", "loop"} /\ pc'[cur] \in {"user", "loop"}
      BY <1>2
    <3>2. \A t \in Threads \ {cur} : pc'[t] = pc[t] /\ q'[t] = q[t] /\ side'[t] = side[t]
      BY <1>2
    <3>3. UNCHANGED <<holder, waiters, users>>
      BY <1>2
    <3> QED
      BY <2>3, <2>5, <3>1, <3>2, <3>3, CallStep
  <2>7. PlacesExact'
    BY <1>2, <2>3 DEF IoqInv, PlacesExact
  <2>8. UsersExact' /\ ReadsAvailable'
    BY <1>2, <2>4 DEF IoqInv, UsersExact, ReadsAvailable, Length
  <2>9. NoSleepWithData'
    <3> SUFFICES ASSUME OneReader, NEW t \in Threads, pc[t] = "wait", status'[t] = "BLOCKED",
                        side[t] = "consumer"
                 PROVE  FALSE
      BY <1>2 DEF NoSleepWithData, OneReader
    <3>1. status[t] = "BLOCKED" /\ t # w
      BY <2>3
    <3>2. q[t] = Kbd
      BY DEF IoqInv, PipeBlocksFull, IoqTypes, Queues
    <3>3. waiter[Kbd]["consumer"] = t
      BY <2>1, <3>1, <3>2 DEF IoqInv, SleeperExact, HoldersExact
    <3> QED
      BY <2>2, <3>1, <3>3
  <2>10. PipeBlocksFull'
    BY <1>2, <2>3, <2>4 DEF IoqInv, PipeBlocksFull, Full, OneWriter
  <2> QED
    BY <2>3, <2>4, <2>5, <2>6, <2>7, <2>8, <2>9, <2>10 DEF IoqInv
<1>4. CASE UNCHANGED <<buf, head, tail, put, got, waiter, status, ready, cur, ticks>>
  <2>1. SchedInv'
    BY <1>1, <1>2, <1>4, SameSched
  <2>2. UNCHANGED <<ioqVars, pc, callVars, users>>
    BY <1>2, <1>4 DEF ioqVars, callVars
  <2>3. /\ \A t \in Threads : status'[t] \notin {"WAITING", "HANGING"}
        /\ \A t \in Threads : status'[t] = "BLOCKED" => t = Idle \/ status[t] = "BLOCKED"
        /\ \A t \in Threads : pc[t] # "user" =>
             status'[t] = status[t] \/ (status[t] \in Awake /\ status'[t] \in Awake)
    BY <1>4 DEF IoqInv, PlacesExact
  <2> QED
    BY <1>2, <2>1, <2>2, <2>3, SchedStepIoq
<1> QED
  BY <1>3, <1>4 DEF KeyIntr

(* What the current task knows when it goes to sleep: why it does, and who  *)
(* has the lock if it is taken.                                             *)
LEMMA Sleepy ==
  ASSUME IoqInv, Wait \/ LockRetry
  PROVE  /\ cur \in Procs /\ pc[cur] \in {"loop", "lock"} /\ q[cur] \in Queues
         /\ q[cur] = Kbd => side[cur] = "consumer" /\ cur \in users.readers
         /\ q[cur] = Pipe => side[cur] = "producer" /\ cur \in users.writers
         /\ OneReader /\ side[cur] = "consumer" => Empty(q[cur])
         /\ OneWriter /\ q[cur] = Pipe => Full(Pipe)
<1> USE TasksAssumption, QueuesAssumption
<1>1. /\ cur \in Threads /\ pc[cur] \in {"loop", "lock"} /\ q[cur] \in Queues
      /\ side[cur] \in Sides
  BY DEF IoqInv, SchedInv, CoreInv, IoqTypes, Wait, LockRetry
<1>2. cur \in Procs /\ left[cur] > 0 /\ (q[cur] = Kbd => side[cur] = "consumer" /\ cur \in users.readers)
  BY <1>1 DEF IoqInv, PlacesExact, UsersExact
<1>3. q[cur] = Pipe => side[cur] = "producer"
  <2> SUFFICES ASSUME q[cur] = Pipe, side[cur] = "consumer" PROVE FALSE
    BY <1>1 DEF Sides
  <2>1. pc[cur] = "loop" /\ left[cur] <= Length(Pipe)
    BY <1>1 DEF IoqInv, ReadsAvailable
  <2>2. Empty(Pipe)
    BY <2>1 DEF Wait, LockRetry, MustWait
  <2>3. head[Pipe] \in Int /\ tail[Pipe] \in Int /\ left[cur] \in Nat
    BY <1>1, BufSizeAssumption DEF IoqInv, IoqTypes, Queues
  <2>4. Length(Pipe) = 0
    BY <2>2, <2>3 DEF Length, Empty
  <2> QED
    BY <1>2, <2>1, <2>3, <2>4
<1>4. q[cur] = Pipe => cur \in users.writers
  BY <1>1, <1>3 DEF IoqInv, UsersExact
<1>5. ASSUME OneReader, side[cur] = "consumer" PROVE Empty(q[cur])
  <2>1. q[cur] = Kbd
    BY <1>1, <1>3, <1>5 DEF Queues
  <2>2. pc[cur] # "lock"
    BY <1>1, <1>5, <2>1 DEF IoqInv, SoleUsers
  <2> QED
    BY <1>5, <2>2 DEF Wait, LockRetry, MustWait
<1>6. ASSUME OneWriter, q[cur] = Pipe PROVE Full(Pipe)
  <2>1. pc[cur] # "lock"
    BY <1>1, <1>6 DEF IoqInv, SoleUsers
  <2> QED
    BY <1>3, <1>6, <2>1 DEF Wait, LockRetry, MustWait
<1> QED
  BY <1>1, <1>2, <1>3, <1>4, <1>5, <1>6

(* The current task blocks, in ioq_wait (p = "wait") or for the lock: what  *)
(* does not depend on which.                                                *)
LEMMA SleepFrame ==
  ASSUME IoqInv, Wait \/ LockRetry, UNCHANGED users,
         NEW p \in {"lock", "wait"}, pc' = [pc EXCEPT ![cur] = p], ThreadBlock("BLOCKED")
  PROVE  /\ SchedInv' /\ status'[cur] = "BLOCKED" /\ status[cur] = "RUNNING"
         /\ \A t \in Threads \ {cur} :
               /\ pc'[t] = pc[t]
               /\ pc[t] # "user" => (status'[t] = "BLOCKED" <=> status[t] = "BLOCKED")
         /\ pc'[cur] = p /\ UNCHANGED <<side, q, left, buf, head, tail, put, got>>
         /\ PlacesExact' /\ UsersExact' /\ ReadsAvailable' /\ NoSleepWithData' /\ PipeBlocksFull'
         /\ BufferExact'
<1> USE TasksAssumption, QueuesAssumption
<1>1. /\ cur \in Procs /\ pc[cur] \in {"loop", "lock"} /\ q[cur] \in Queues
      /\ q[cur] = Kbd => side[cur] = "consumer" /\ cur \in users.readers
      /\ q[cur] = Pipe => side[cur] = "producer" /\ cur \in users.writers
      /\ OneReader /\ side[cur] = "consumer" => Empty(q[cur])
      /\ OneWriter /\ q[cur] = Pipe => Full(Pipe)
  BY Sleepy
<1>2. UNCHANGED <<side, q, left, buf, head, tail, put, got, taskVars, idlepc>>
  BY DEF Wait, LockRetry, callVars
<1>3. SchedInv /\ cur \in Threads /\ cur # Idle /\ status[cur] = "RUNNING"
  BY <1>1 DEF IoqInv, SchedInv, CoreInv, OneRunning, Procs
<1>4. Block("BLOCKED")
  BY <1>2, <1>3 DEF Block
<1>5. /\ SchedInv' /\ status'[cur] = "BLOCKED"
      /\ \A t \in Threads \ {cur, Idle} :
            status'[t] = status[t] \/ (status[t] \in Awake /\ status'[t] \in Awake)
  BY <1>3, <1>4, BlockSched
<1>6. pc \in [Threads -> {"user", "loop", "lock", "wait"}]
  BY DEF IoqInv, IoqTypes
<1>7. pc'[cur] = p /\ \A t \in Threads \ {cur} : pc'[t] = pc[t]
  BY <1>3, <1>6
<1>8. pc[Idle] = "user" /\ status'[Idle] \in {"RUNNING", "READY", "BLOCKED"}
  BY <1>5 DEF IoqInv, PlacesExact, Procs, SchedInv, CoreInv, IdleAvailable
<1>9. \A t \in Threads \ {cur} : pc[t] # "user" => (status'[t] = "BLOCKED" <=> status[t] = "BLOCKED")
  BY <1>5, <1>8 DEF Awake
<1>10. PlacesExact'
  <2> SUFFICES ASSUME NEW t \in Threads
               PROVE  /\ status'[t] \notin {"WAITING", "HANGING"}
                      /\ pc'[t] # "user" => /\ status'[t] \notin {"NULL", "OVER"} /\ t \in Procs
                                            /\ left'[t] > 0
                      /\ status'[t] = "BLOCKED" => t = Idle \/ pc'[t] \in {"lock", "wait"}
                      /\ pc'[t] # "loop"
    BY DEF PlacesExact
  <2>1. CASE t = cur
    <3>1. left[cur] > 0
      BY <1>1, <1>3 DEF IoqInv, PlacesExact
    <3> QED
      BY <1>1, <1>2, <1>5, <1>7, <2>1, <3>1
  <2>2. CASE t = Idle
    BY <1>3, <1>7, <1>8, <2>2
  <2>3. CASE t \notin {cur, Idle}
    BY <1>2, <1>5, <1>7, <2>3 DEF IoqInv, PlacesExact, Awake
  <2> QED
    BY <2>1, <2>2, <2>3
<1>11. UsersExact'
  BY <1>1, <1>2, <1>7 DEF IoqInv, UsersExact
<1>12. ReadsAvailable'
  <2>1. \A t \in Threads \ {cur} : pc[t] # "loop"
    BY DEF IoqInv, PlacesExact
  <2>2. \A t \in Threads : pc'[t] # "user" /\ q'[t] = Pipe /\ side'[t] = "consumer" => FALSE
    BY <1>1, <1>2, <1>7, <2>1 DEF IoqInv, ReadsAvailable
  <2> QED
    BY <2>2 DEF ReadsAvailable
<1>13. NoSleepWithData'
  <2> SUFFICES ASSUME OneReader, NEW t \in Threads, pc'[t] = "wait", status'[t] = "BLOCKED",
                      side[t] = "consumer"
               PROVE  Empty(q[t])
    BY <1>2 DEF NoSleepWithData, OneReader, Empty
  <2> QED
    BY <1>1, <1>7, <1>9 DEF IoqInv, NoSleepWithData
<1>14. PipeBlocksFull'
  <2> SUFFICES ASSUME NEW t \in Threads, pc'[t] \in {"lock", "wait"}, q[t] = Pipe
               PROVE  side[t] = "producer" /\ (OneWriter /\ status'[t] = "BLOCKED" => Full(Pipe))
    BY <1>2 DEF PipeBlocksFull, OneWriter, Full
  <2> QED
    BY <1>1, <1>7, <1>9 DEF IoqInv, PipeBlocksFull
<1>15. BufferExact'
  BY <1>2 DEF IoqInv, BufferExact, Length
<1> QED
  BY <1>2, <1>3, <1>5, <1>7, <1>9, <1>10, <1>11, <1>12, <1>13, <1>14, <1>15

(* lock_acquire succeeds and ioq_wait blocks.                               *)
LEMMA AcquireAndWaitIoq ==
  ASSUME IoqInv, Wait \/ LockRetry, UNCHANGED users, AcquireAndWait(q[cur], side[cur])
  PROVE  IoqInv'
<1> USE TasksAssumption, QueuesAssumption, IoqNullAssumption
<1>1. /\ cur \in Procs /\ cur \in Threads /\ pc[cur] \in {"loop", "lock"} /\ q[cur] \in Queues
      /\ side[cur] \in Sides
  BY Sleepy DEF Procs, IoqInv, IoqTypes
<1>2. PICK k \in Queues, s \in Sides : k = q[cur] /\ s = side[cur]
  BY <1>1
<1>3. /\ holder[k] = Null /\ holder' = [holder EXCEPT ![k] = cur] /\ UNCHANGED waiters
      /\ waiter' = [waiter EXCEPT ![k][s] = cur] /\ ThreadBlock("BLOCKED")
      /\ pc' = [pc EXCEPT ![cur] = "wait"]
  BY <1>2 DEF AcquireAndWait, GoTo
<1>4. /\ SchedInv' /\ status'[cur] = "BLOCKED" /\ status[cur] = "RUNNING"
      /\ \A t \in Threads \ {cur} :
            /\ pc'[t] = pc[t]
            /\ pc[t] # "user" => (status'[t] = "BLOCKED" <=> status[t] = "BLOCKED")
      /\ pc'[cur] = "wait" /\ UNCHANGED <<side, q, left, buf, head, tail, put, got>>
      /\ PlacesExact' /\ UsersExact' /\ ReadsAvailable' /\ NoSleepWithData' /\ PipeBlocksFull'
      /\ BufferExact'
  BY <1>3, SleepFrame
<1>5. /\ holder \in [Queues -> Threads \union {Null}]
      /\ waiter \in [Queues -> [Sides -> Threads \union {Null}]]
  BY DEF IoqInv, IoqTypes
<1>6. /\ holder'[k] = cur /\ \A j \in Queues \ {k} : holder'[j] = holder[j]
      /\ \A j \in Queues, r \in Sides :
            waiter'[j][r] = IF j = k /\ r = s THEN cur ELSE waiter[j][r]
  BY <1>3, <1>5
<1>7. IoqTypes'
  <2>1. holder' \in [Queues -> Threads \union {Null}]
    BY <1>1, <1>3, <1>5
  <2>2. waiter' \in [Queues -> [Sides -> Threads \union {Null}]]
    BY <1>1, <1>3, <1>5
  <2>3. pc' \in [Threads -> {"user", "loop", "lock", "wait"}]
    BY <1>3 DEF IoqInv, IoqTypes
  <2> QED
    BY <1>3, <1>4, <2>1, <2>2, <2>3 DEF IoqInv, IoqTypes
<1>8. HoldersExact'
  BY <1>1, <1>2, <1>3, <1>4, <1>6 DEF IoqInv, HoldersExact
<1>9. LockersExact'
  <2>1. ASSUME NEW j \in Queues PROVE Lockers(j)' = Lockers(j)
    BY <1>4 DEF Lockers
  <2> QED
    BY <1>3, <2>1 DEF IoqInv, LockersExact
<1>10. SoleUsers'
  BY <1>4 DEF IoqInv, SoleUsers, OneReader, OneWriter
<1>11. SleeperExact'
  <2> SUFFICES ASSUME NEW j \in Queues, NEW r \in Sides, NEW t \in Threads
               PROVE  waiter'[j][r] = t <=>
                        /\ status'[t] = "BLOCKED" /\ pc'[t] = "wait"
                        /\ q[t] = j /\ side[t] = r /\ holder'[j] = t
    BY <1>4 DEF SleeperExact
  <2>1. waiter[j][r] = t <=> /\ status[t] = "BLOCKED" /\ pc[t] = "wait"
                             /\ q[t] = j /\ side[t] = r /\ holder[j] = t
    BY DEF IoqInv, SleeperExact
  <2> QED
    BY <1>2, <1>3, <1>4, <1>6, <2>1
<1>12. LockerNotForgotten'
  <2> SUFFICES ASSUME NEW t \in Threads, pc'[t] = "lock", status'[t] = "BLOCKED"
               PROVE  /\ \E i \in DOMAIN waiters[q[t]] : waiters[q[t]][i] = t
                      /\ \/ holder'[q[t]] # Null
                         \/ \E u \in Threads : pc'[u] = "lock" /\ q[u] = q[t] /\ status'[u] # "BLOCKED"
    BY <1>3, <1>4 DEF LockerNotForgotten
  <2>1. t # cur /\ pc[t] = "lock" /\ status[t] = "BLOCKED" /\ q[t] \in Queues
    BY <1>4 DEF IoqInv, IoqTypes
  <2>2. /\ \E i \in DOMAIN waiters[q[t]] : waiters[q[t]][i] = t
        /\ \/ holder[q[t]] # Null
           \/ \E u \in Threads : pc[u] = "lock" /\ q[u] = q[t] /\ status[u] # "BLOCKED"
    BY <2>1 DEF IoqInv, LockerNotForgotten
  <2>3. CASE q[t] = k
    BY <1>1, <1>6, <2>2, <2>3
  <2>4. CASE q[t] # k
    BY <1>2, <1>4, <1>6, <2>1, <2>2, <2>4
  <2> QED
    BY <2>3, <2>4
<1> QED
  BY <1>4, <1>7, <1>8, <1>9, <1>10, <1>11, <1>12 DEF IoqInv

(* lock_acquire finds the lock taken.                                       *)
LEMMA QueueForLockIoq ==
  ASSUME IoqInv, Wait \/ LockRetry, UNCHANGED users, QueueForLock(q[cur])
  PROVE  IoqInv'
<1> USE TasksAssumption, QueuesAssumption, IoqNullAssumption
<1>1. /\ cur \in Procs /\ cur \in Threads /\ pc[cur] \in {"loop", "lock"} /\ q[cur] \in Queues
      /\ q[cur] = Kbd => cur \in users.readers
      /\ q[cur] = Pipe => cur \in users.writers
  BY Sleepy DEF Procs
<1>2. PICK k \in Queues : k = q[cur]
  BY <1>1
<1>3. /\ holder[k] # Null /\ waiters' = [waiters EXCEPT ![k] = Append(@, cur)]
      /\ UNCHANGED <<holder, waiter>> /\ ThreadBlock("BLOCKED")
      /\ pc' = [pc EXCEPT ![cur] = "lock"]
  BY <1>2 DEF QueueForLock, GoTo
<1>4. /\ SchedInv' /\ status'[cur] = "BLOCKED" /\ status[cur] = "RUNNING"
      /\ \A t \in Threads \ {cur} :
            /\ pc'[t] = pc[t]
            /\ pc[t] # "user" => (status'[t] = "BLOCKED" <=> status[t] = "BLOCKED")
      /\ pc'[cur] = "lock" /\ UNCHANGED <<side, q, left, buf, head, tail, put, got>>
      /\ PlacesExact' /\ UsersExact' /\ ReadsAvailable' /\ NoSleepWithData' /\ PipeBlocksFull'
      /\ BufferExact'
  BY <1>3, SleepFrame
<1>5. /\ waiters \in [Queues -> Seq(Threads)] /\ waiters[k] \in Seq(Threads)
      /\ QueueExact(Lockers(k), waiters[k]) /\ cur \notin Lockers(k)
  BY <1>4 DEF IoqInv, IoqTypes, LockersExact, Lockers
<1>6. /\ Append(waiters[k], cur) \in Seq(Threads)
      /\ QueueExact(Lockers(k) \union {cur}, Append(waiters[k], cur))
  BY <1>1, <1>5, QueueAppend
<1>7. /\ waiters' \in [Queues -> Seq(Threads)] /\ waiters'[k] = Append(waiters[k], cur)
      /\ \A j \in Queues \ {k} : waiters'[j] = waiters[j]
  BY <1>3, <1>5, <1>6
<1>8. IoqTypes'
  <2>1. pc' \in [Threads -> {"user", "loop", "lock", "wait"}]
    BY <1>3 DEF IoqInv, IoqTypes
  <2> QED
    BY <1>3, <1>4, <1>7, <2>1 DEF IoqInv, IoqTypes
<1>9. HoldersExact'
  BY <1>1, <1>3, <1>4 DEF IoqInv, HoldersExact
<1>10. LockersExact'
  <2>1. Lockers(k)' = Lockers(k) \union {cur}
    BY <1>1, <1>2, <1>4 DEF Lockers
  <2>2. ASSUME NEW j \in Queues \ {k} PROVE Lockers(j)' = Lockers(j)
    BY <1>2, <1>4 DEF Lockers
  <2>3. ASSUME NEW j \in Queues PROVE QueueExact(Lockers(j)', waiters'[j])
    BY <1>6, <1>7, <2>1, <2>2 DEF IoqInv, LockersExact
  <2> QED
    BY <2>3 DEF LockersExact, QueueExact
<1>11. SoleUsers'
  <2> SUFFICES ASSUME NEW t \in Threads, pc'[t] = "lock"
               PROVE  (OneReader => q[t] # Kbd) /\ (OneWriter => q[t] # Pipe)
    BY <1>4 DEF SoleUsers, OneReader, OneWriter
  <2>1. CASE t # cur
    BY <1>4, <2>1 DEF IoqInv, SoleUsers
  <2>2. CASE t = cur
    <3>1. PICK u \in Threads : holder[k] = u
      BY <1>3 DEF IoqInv, IoqTypes
    <3>2. pc[u] = "wait" /\ q[u] = k /\ u # cur
      BY <1>1, <3>1 DEF IoqInv, HoldersExact
    <3>3. (k = Kbd => u \in users.readers) /\ (k = Pipe => u \in users.writers)
      BY <3>2 DEF IoqInv, UsersExact, PipeBlocksFull
    <3> QED
      BY <1>1, <1>2, <2>2, <3>2, <3>3 DEF OneReader, OneWriter
  <2> QED
    BY <2>1, <2>2
<1>12. SleeperExact'
  BY <1>1, <1>3, <1>4 DEF IoqInv, SleeperExact
<1>13. LockerNotForgotten'
  <2> SUFFICES ASSUME NEW t \in Threads, pc'[t] = "lock", status'[t] = "BLOCKED"
               PROVE  /\ \E i \in DOMAIN waiters'[q[t]] : waiters'[q[t]][i] = t
                      /\ \/ holder[q[t]] # Null
                         \/ \E u \in Threads : pc'[u] = "lock" /\ q[u] = q[t] /\ status'[u] # "BLOCKED"
    BY <1>3, <1>4 DEF LockerNotForgotten
  <2>1. q[t] \in Queues /\ t \in Lockers(q[t])'
    BY <1>4 DEF IoqInv, IoqTypes, Lockers
  <2>2. \E i \in DOMAIN waiters'[q[t]] : waiters'[q[t]][i] = t
    <3>1. QueueExact(Lockers(q[t])', waiters'[q[t]]) /\ waiters'[q[t]] \in Seq(Threads)
      BY <1>4, <1>7, <1>10, <2>1 DEF LockersExact, QueueExact
    <3> QED
      BY <2>1, <3>1 DEF QueueExact
  <2>3. CASE q[t] = k
    BY <1>3, <2>2, <2>3
  <2>4. CASE q[t] # k
    <3>1. \/ holder[q[t]] # Null
          \/ \E u \in Threads : pc[u] = "lock" /\ q[u] = q[t] /\ status[u] # "BLOCKED"
      BY <1>2, <1>4, <2>4 DEF IoqInv, LockerNotForgotten
    <3> QED
      BY <1>2, <1>4, <2>2, <2>4, <3>1
  <2> QED
    BY <2>3, <2>4
<1> QED
  BY <1>4, <1>8, <1>9, <1>10, <1>11, <1>12, <1>13 DEF IoqInv

(* A task woken in ioq_wait releases the lock to the first that waits.      *)
LEMMA WokenIoq ==
  ASSUME IoqInv, Woken, UNCHANGED users
  PROVE  IoqInv'
<1> USE TasksAssumption, QueuesAssumption, IoqNullAssumption
<1>1. SchedInv /\ IoqTypes /\ idlepc' \in {"block", "hlt", "halted"}
  BY DEF IoqInv, SchedInv, TaskTypes, Woken
<1>2. /\ pc[cur] = "wait" /\ pc' = [pc EXCEPT ![cur] = "loop"]
      /\ UNCHANGED <<buf, head, tail, waiter, put, got, side, q, left, taskVars, users>>
  BY DEF Woken, GoTo, callVars
<1>3. cur \in Threads /\ status[cur] = "RUNNING" /\ status \in [Threads -> Statuses]
  BY <1>1 DEF SchedInv, CoreInv, OneRunning
<1>4. PICK k \in Queues : k = q[cur]
  BY <1>1, <1>3 DEF IoqTypes
<1>5. holder[k] = cur /\ holder' = [holder EXCEPT ![k] = Null]
  BY <1>2, <1>3, <1>4 DEF IoqInv, HoldersExact, Woken
<1>6. holder'[k] = Null /\ \A j \in Queues \ {k} : holder'[j] = holder[j]
  BY <1>1, <1>5 DEF IoqTypes
<1>7. waiters[k] \in Seq(Threads) /\ QueueExact(Lockers(k), waiters[k])
  BY <1>1 DEF IoqTypes, IoqInv, LockersExact
<1>8. pc'[cur] = "loop" /\ \A t \in Threads \ {cur} : pc'[t] = pc[t]
  BY <1>1, <1>2, <1>3 DEF IoqTypes
(* Whoever w is woken for the lock.                                         *)
<1>9. PICK w \in Threads \union {Null} :
        /\ SchedInv' /\ cur' = cur /\ waiters' \in [Queues -> Seq(Threads)]
        /\ \A t \in Threads : status'[t] = IF t = w THEN "READY" ELSE status[t]
        /\ QueueExact(Lockers(k) \ {w}, waiters'[k])
        /\ \A j \in Queues \ {k} : waiters'[j] = waiters[j]
        /\ w \in Threads => w \in Lockers(k)
        /\ w = Null => Lockers(k) = {}
  <2>1. CASE waiters[k] = <<>>
    <3>1. UNCHANGED <<status, ready, cur, ticks, waiters>>
      BY <1>4, <2>1 DEF Woken
    <3>2. SchedInv'
      BY <1>1, <1>2, <3>1, SameSched
    <3>3. Lockers(k) = {}
      BY <1>7, <2>1 DEF QueueExact
    <3>4. /\ waiters' \in [Queues -> Seq(Threads)] /\ QueueExact(Lockers(k) \ {Null}, waiters'[k])
          /\ \A j \in Queues \ {k} : waiters'[j] = waiters[j]
      BY <1>1, <1>7, <3>1, <3>3 DEF IoqTypes
    <3> QED
      BY <3>1, <3>2, <3>3, <3>4
  <2>2. CASE waiters[k] # <<>>
    <3>1. ThreadUnblock(Head(waiters[k])) /\ waiters' = [waiters EXCEPT ![k] = Tail(@)]
      BY <1>4, <2>2 DEF Woken
    <3>2. PICK w \in Threads : w = Head(waiters[k]) /\ w \in Lockers(k)
      BY <1>7, <2>2, QueueTail
    <3>3. Tail(waiters[k]) \in Seq(Threads) /\ QueueExact(Lockers(k) \ {w}, Tail(waiters[k]))
      BY <1>7, <2>2, <3>2, QueueTail
    <3>4. CoreInv' /\ SameTasks
      BY <1>1, <3>1, <3>2, UnblockCore DEF Lockers, SchedInv
    <3>5. SchedInv'
      BY <1>1, <1>2, <3>4, SameTasksSched
    <3>6. status' = [status EXCEPT ![w] = "READY"] /\ cur' = cur
      BY <3>1, <3>2 DEF ThreadUnblock
    <3>7. /\ waiters' \in [Queues -> Seq(Threads)] /\ waiters'[k] = Tail(waiters[k])
          /\ \A j \in Queues \ {k} : waiters'[j] = waiters[j]
      BY <1>1, <3>1, <3>3 DEF IoqTypes
    <3>8. \A t \in Threads : status'[t] = IF t = w THEN "READY" ELSE status[t]
      BY <1>3, <3>6
    <3> QED
      BY <3>2, <3>3, <3>5, <3>6, <3>7, <3>8
  <2> QED
    BY <2>1, <2>2
<1>10. w \in Threads => pc[w] = "lock" /\ q[w] = k /\ status[w] = "BLOCKED" /\ w # cur
  BY <1>2, <1>9 DEF Lockers
<1>11. IoqTypes'
  <2>1. holder' \in [Queues -> Threads \union {Null}]
    BY <1>1, <1>5 DEF IoqTypes
  <2>2. pc' \in [Threads -> {"user", "loop", "lock", "wait"}]
    BY <1>1, <1>2 DEF IoqTypes
  <2> QED
    BY <1>1, <1>2, <1>9, <2>1, <2>2 DEF IoqTypes
<1>12. HoldersExact'
  BY <1>2, <1>4, <1>5, <1>6, <1>8 DEF IoqInv, HoldersExact
<1>13. LockersExact'
  <2>1. Lockers(k)' = Lockers(k) \ {w}
    BY <1>2, <1>3, <1>8, <1>9 DEF Lockers
  <2>2. ASSUME NEW j \in Queues \ {k} PROVE Lockers(j)' = Lockers(j)
    BY <1>2, <1>3, <1>8, <1>9, <1>10 DEF Lockers
  <2>3. ASSUME NEW j \in Queues PROVE QueueExact(Lockers(j)', waiters'[j])
    BY <1>9, <2>1, <2>2 DEF IoqInv, LockersExact
  <2> QED
    BY <2>3 DEF LockersExact, QueueExact
<1>14. SoleUsers'
  BY <1>2, <1>8 DEF IoqInv, SoleUsers, OneReader, OneWriter
<1>15. SleeperExact'
  <2> SUFFICES ASSUME NEW j \in Queues, NEW r \in Sides, NEW t \in Threads
               PROVE  waiter[j][r] = t <=>
                        /\ status'[t] = "BLOCKED" /\ pc'[t] = "wait"
                        /\ q[t] = j /\ side[t] = r /\ holder'[j] = t
    BY <1>2 DEF SleeperExact
  <2>1. waiter[j][r] = t <=> /\ status[t] = "BLOCKED" /\ pc[t] = "wait"
                             /\ q[t] = j /\ side[t] = r /\ holder[j] = t
    BY DEF IoqInv, SleeperExact
  <2>2. CASE t = cur
    <3>1. status'[t] # "BLOCKED" /\ status[t] # "BLOCKED"
      BY <1>3, <1>9, <2>2
    <3> QED
      BY <2>1, <3>1
  <2>3. CASE t # cur /\ t = w
    <3>1. pc'[t] # "wait" /\ pc[t] # "wait"
      BY <1>8, <1>10, <2>3
    <3> QED
      BY <2>1, <3>1
  <2>4. CASE t # cur /\ t # w
    <3>1. status'[t] = status[t] /\ pc'[t] = pc[t]
      BY <1>8, <1>9, <2>4
    <3>2. holder'[j] = t <=> holder[j] = t
      BY <1>5, <1>6, <2>4
    <3> QED
      BY <2>1, <3>1, <3>2
  <2> QED
    BY <2>2, <2>3, <2>4
<1>16. LockerNotForgotten'
  <2> SUFFICES ASSUME NEW t \in Threads, pc'[t] = "lock", status'[t] = "BLOCKED"
               PROVE  /\ \E i \in DOMAIN waiters'[q[t]] : waiters'[q[t]][i] = t
                      /\ \/ holder'[q[t]] # Null
                         \/ \E u \in Threads : pc'[u] = "lock" /\ q[u] = q[t] /\ status'[u] # "BLOCKED"
    BY <1>2 DEF LockerNotForgotten
  <2>1. q[t] \in Queues /\ t \in Lockers(q[t])' /\ t # cur /\ status[t] = "BLOCKED" /\ pc[t] = "lock"
    BY <1>1, <1>2, <1>8, <1>9 DEF IoqTypes, Lockers
  <2>2. \E i \in DOMAIN waiters'[q[t]] : waiters'[q[t]][i] = t
    <3>1. QueueExact(Lockers(q[t])', waiters'[q[t]]) /\ waiters'[q[t]] \in Seq(Threads)
      BY <1>2, <1>9, <1>13, <2>1 DEF LockersExact, QueueExact
    <3> QED
      BY <2>1, <3>1 DEF QueueExact
  <2>3. CASE q[t] = k
    <3>1. w \in Threads
      BY <1>9, <2>1, <2>3 DEF Lockers
    <3>2. pc'[w] = "lock" /\ q[w] = q[t] /\ status'[w] # "BLOCKED"
      BY <1>8, <1>9, <1>10, <2>3, <3>1
    <3> QED
      BY <2>2, <3>1, <3>2
  <2>4. CASE q[t] # k
    <3>1. \/ holder[q[t]] # Null
          \/ \E u \in Threads : pc[u] = "lock" /\ q[u] = q[t] /\ status[u] # "BLOCKED"
      BY <2>1 DEF IoqInv, LockerNotForgotten
    <3>2. \A u \in Threads : pc[u] = "lock" /\ status[u] # "BLOCKED" =>
                              pc'[u] = "lock" /\ status'[u] # "BLOCKED"
      BY <1>2, <1>8, <1>9
    <3> QED
      BY <1>6, <2>1, <2>2, <2>4, <3>1, <3>2
  <2> QED
    BY <2>3, <2>4
<1>17. PlacesExact'
  <2> SUFFICES ASSUME NEW t \in Threads
               PROVE  /\ status'[t] \notin {"WAITING", "HANGING"}
                      /\ pc'[t] # "user" =>
                            status'[t] \notin {"NULL", "OVER"} /\ t \in Procs /\ left[t] > 0
                      /\ status'[t] = "BLOCKED" => t = Idle \/ pc'[t] \in {"lock", "wait"}
                      /\ pc'[t] = "loop" => t = cur
    BY <1>2, <1>9 DEF PlacesExact
  <2>1. /\ status[t] \notin {"WAITING", "HANGING"}
        /\ pc[t] # "user" => status[t] \notin {"NULL", "OVER"} /\ t \in Procs /\ left[t] > 0
        /\ status[t] = "BLOCKED" => t = Idle \/ pc[t] \in {"lock", "wait"}
        /\ pc[t] = "loop" => t = cur
    BY DEF IoqInv, PlacesExact
  <2> QED
    BY <1>2, <1>3, <1>8, <1>9, <1>10, <2>1
<1>18. UsersExact'
  BY <1>2, <1>8 DEF IoqInv, UsersExact
<1>19. ReadsAvailable'
  BY <1>2, <1>3, <1>8 DEF IoqInv, ReadsAvailable, Length
<1>20. NoSleepWithData'
  BY <1>2, <1>8, <1>9 DEF IoqInv, NoSleepWithData, OneReader, Empty
<1>21. PipeBlocksFull'
  BY <1>2, <1>8, <1>9 DEF IoqInv, PipeBlocksFull, OneWriter, Full
<1>22. BufferExact'
  BY <1>2 DEF IoqInv, BufferExact, Length
<1> QED
  BY <1>9, <1>11, <1>12, <1>13, <1>14, <1>15, <1>16, <1>17, <1>18, <1>19, <1>20, <1>21, <1>22
     DEF IoqInv

-----------------------------------------------------------------------------
(* Every step keeps the invariant.                                          *)
LEMMA NextIoq == IoqInv /\ [Next]_vars => IoqInv'
<1> SUFFICES ASSUME IoqInv, [Next]_vars PROVE IoqInv'
  OBVIOUS
<1> USE TasksAssumption, QueuesAssumption, BoundsAssumption
<1>1. ASSUME UNCHANGED vars PROVE IoqInv'
  <2>1. UNCHANGED <<status, ready, cur, ticks, taskVars, idlepc, ioqVars, pc, callVars, users>>
    BY <1>1 DEF vars, threadVars, taskVars
  <2>2. SchedInv'
    BY <2>1, SameSched DEF IoqInv, SchedInv, TaskTypes
  <2>3. /\ IoqTypes' /\ PlacesExact' /\ UsersExact' /\ ReadsAvailable' /\ HoldersExact'
        /\ SoleUsers'
    <3>1. IoqTypes'
      BY <2>1 DEF IoqInv, IoqTypes, ioqVars, callVars
    <3>2. PlacesExact' /\ UsersExact'
      BY <2>1 DEF IoqInv, PlacesExact, UsersExact, callVars
    <3>3. ReadsAvailable' /\ HoldersExact'
      BY <2>1 DEF IoqInv, ReadsAvailable, HoldersExact, Length, ioqVars, callVars
    <3>4. SoleUsers'
      BY <2>1 DEF IoqInv, SoleUsers, OneReader, OneWriter, ioqVars, callVars
    <3> QED
      BY <3>1, <3>2, <3>3, <3>4
  <2>4. LockersExact'
    <3>1. \A k \in Queues : Lockers(k)' = Lockers(k)
      BY <2>1 DEF Lockers, callVars
    <3> QED
      BY <2>1, <3>1 DEF IoqInv, LockersExact, ioqVars
  <2>5. SleeperExact' /\ LockerNotForgotten' /\ NoSleepWithData' /\ PipeBlocksFull' /\ BufferExact'
    BY <2>1 DEF IoqInv, SleeperExact, LockerNotForgotten, NoSleepWithData, PipeBlocksFull,
                BufferExact, Length, Empty, Full, OneReader, OneWriter, ioqVars, callVars
  <2> QED
    BY <2>2, <2>3, <2>4, <2>5 DEF IoqInv
<1>2. ASSUME Step, UNCHANGED users PROVE IoqInv'
  <2>1. Kbd \in Queues /\ Pipe \in Queues /\ "consumer" \in Sides /\ "producer" \in Sides
    BY DEF Queues, Sides
  <2>2. ASSUME NEW count \in 1..MaxCount, ReadKbd(count) PROVE IoqInv'
    BY <1>2, <2>1, <2>2, EnterIoq DEF ReadKbd
  <2>3. Length(Pipe) \in Nat /\ BufSize - Length(Pipe) \in Nat
    <3>1. head[Pipe] \in 0 .. BufSize - 1 /\ tail[Pipe] \in 0 .. BufSize - 1
      BY <2>1 DEF IoqInv, IoqTypes
    <3> QED
      BY <3>1, BufSizeAssumption DEF Length
  <2>4. ASSUME NEW count \in 1..MaxCount, PipeRead(count) PROVE IoqInv'
    <3>1. Minimum(Length(Pipe), count) \in Nat /\ Minimum(Length(Pipe), count) <= Length(Pipe)
      BY <2>3 DEF Minimum
    <3> QED
      BY <1>2, <2>1, <2>4, <3>1, EnterIoq DEF PipeRead
  <2>5. ASSUME NEW count \in 1..MaxCount, PipeWrite(count) PROVE IoqInv'
    <3>1. Minimum(BufSize - Length(Pipe), count) \in Nat
      BY <2>3 DEF Minimum
    <3> QED
      BY <1>2, <2>1, <2>5, <3>1, EnterIoq DEF PipeWrite
  <2>6. ASSUME Wait \/ LockRetry PROVE IoqInv'
    BY <1>2, <2>6, AcquireAndWaitIoq, QueueForLockIoq DEF Wait, LockRetry, Lock
  <2> QED
    BY <1>2, <2>2, <2>4, <2>5, <2>6, MoveIoq, WokenIoq, KeyIntrIoq, SchedulerIoq DEF Step
<1> QED
  BY <1>1, <1>2 DEF Next

(* So it holds in every reachable state.                                    *)
LEMMA SpecIoq == Spec => []IoqInv
BY InitIoq, NextIoq, PTL DEF Spec

(* ioq_putchar and ioq_getchar are a FIFO for any size of the ring: what is *)
(* between tail and head is what was put and not returned, in order.        *)
THEOREM RingIsFifo == Spec => []BufferExact
<1>1. IoqInv => BufferExact
  BY DEF IoqInv
<1> QED
  BY <1>1, SpecIoq, PTL

(* Each side of a queue has one slot, and it names exactly the task that    *)
(* sleeps there: the ASSERTs of ioq_wait and wakeup hold, and no sleeper is *)
(* overwritten, whatever the number of processes.                           *)
THEOREM SleepersKept == Spec => []SleeperExact
<1>1. IoqInv => SleeperExact
  BY DEF IoqInv
<1> QED
  BY <1>1, SpecIoq, PTL

(* lock_release around ioq_wait forgets nobody who waits for the lock.      *)
THEOREM LockersKept == Spec => []LockerNotForgotten
<1>1. IoqInv => LockerNotForgotten
  BY DEF IoqInv
<1> QED
  BY <1>1, SpecIoq, PTL

(* The single reader of the keyboard sleeps only while the buffer is empty. *)
THEOREM ReaderNotAsleep == Spec => []NoSleepWithData
<1>1. IoqInv => NoSleepWithData
  BY DEF IoqInv
<1> QED
  BY <1>1, SpecIoq, PTL

(* pipe_read never blocks, for any number of readers and writers, and the   *)
(* single writer of a pipe sleeps only while it is full.                    *)
THEOREM PipeBlocking == Spec => []PipeBlocksFull
<1>1. IoqInv => PipeBlocksFull
  BY DEF IoqInv
<1> QED
  BY <1>1, SpecIoq, PTL
=============================================================================
