----------------------------- MODULE SchedProofs ----------------------------
(***************************************************************************)
(* What the operations of Sched do to the ready list and to the statuses,  *)
(* for any number of tasks, which the proofs about its callers rest on; at *)
(* the end the scheduler's invariants, proved for any number of tasks, any *)
(* priorities and any size of the pid pool, whatever the tasks call.       *)
(***************************************************************************)
EXTENDS Thread, TLAPS

(* list_push of a task that was not ready (thread_unblock) keeps the list   *)
(* exact.                                                                   *)
LEMMA PushExact ==
  ASSUME NEW st \in [Threads -> Statuses], NEW rd \in Seq(Threads),
         NEW t \in Threads, ListExact(st, rd), st[t] # "READY"
  PROVE  /\ <<t>> \o rd \in Seq(Threads)
         /\ <<t>> \o rd # <<>>
         /\ ListExact([st EXCEPT ![t] = "READY"], <<t>> \o rd)
<1> DEFINE r == <<t>> \o rd
           s == [st EXCEPT ![t] = "READY"]
<1>1. /\ r \in Seq(Threads) /\ Len(r) = Len(rd) + 1 /\ r[1] = t
      /\ \A i \in 1..Len(rd) : r[i + 1] = rd[i]
      /\ \A i \in 2..Len(r) : r[i] = rd[i - 1] /\ i - 1 \in 1..Len(rd)
  OBVIOUS
<1>2. \A i \in 1..Len(rd) : rd[i] # t
  BY DEF ListExact
<1>3. ASSUME NEW u \in Threads
      PROVE  s[u] = "READY" <=> \E i \in 1..Len(r) : r[i] = u
  <2>1. CASE u = t
    BY <1>1, <2>1
  <2>2. CASE u # t
    <3>1. s[u] = st[u]
      BY <2>2
    <3>2. ASSUME NEW i \in 1..Len(r), r[i] = u
          PROVE  \E k \in 1..Len(rd) : rd[k] = u
      <4>1. i \in 2..Len(r)
        BY <1>1, <2>2, <3>2
      <4> QED  BY <1>1, <3>2, <4>1
    <3>3. ASSUME NEW i \in 1..Len(rd), rd[i] = u
          PROVE  \E k \in 1..Len(r) : r[k] = u
      <4>1. i + 1 \in 1..Len(r) /\ r[i + 1] = u
        BY <1>1, <3>3
      <4> QED  BY <4>1
    <3> QED  BY <3>1, <3>2, <3>3 DEF ListExact
  <2> QED  BY <2>1, <2>2
<1>4. ASSUME NEW i \in 1..Len(r), NEW j \in 1..Len(r), r[i] = r[j]
      PROVE  i = j
  <2>1. CASE i = 1 \/ j = 1
    BY <1>1, <1>2, <1>4, <2>1
  <2>2. CASE i # 1 /\ j # 1
    BY <1>1, <1>4, <2>2 DEF ListExact
  <2> QED  BY <2>1, <2>2
<1>5. r # <<>>
  BY <1>1
<1> QED  BY <1>1, <1>3, <1>4, <1>5 DEF ListExact

(* list_append of a task that was not ready (schedule, thread_yield,        *)
(* thread_start) keeps the list exact.                                      *)
LEMMA AppendExact ==
  ASSUME NEW st \in [Threads -> Statuses], NEW rd \in Seq(Threads),
         NEW t \in Threads, ListExact(st, rd), st[t] # "READY"
  PROVE  /\ Append(rd, t) \in Seq(Threads)
         /\ Append(rd, t) # <<>>
         /\ ListExact([st EXCEPT ![t] = "READY"], Append(rd, t))
<1> DEFINE r == Append(rd, t)
           s == [st EXCEPT ![t] = "READY"]
<1>1. /\ r \in Seq(Threads) /\ Len(r) = Len(rd) + 1 /\ r[Len(rd) + 1] = t
      /\ \A i \in 1..Len(rd) : r[i] = rd[i]
  OBVIOUS
<1>2. \A i \in 1..Len(rd) : rd[i] # t
  BY DEF ListExact
<1>3. ASSUME NEW u \in Threads
      PROVE  s[u] = "READY" <=> \E i \in 1..Len(r) : r[i] = u
  <2>1. CASE u = t
    BY <1>1, <2>1
  <2>2. CASE u # t
    <3>1. s[u] = st[u]
      BY <2>2
    <3>2. ASSUME NEW i \in 1..Len(r), r[i] = u
          PROVE  \E k \in 1..Len(rd) : rd[k] = u
      <4>1. i \in 1..Len(rd)
        BY <1>1, <2>2, <3>2
      <4> QED  BY <1>1, <3>2, <4>1
    <3>3. ASSUME NEW i \in 1..Len(rd), rd[i] = u
          PROVE  \E k \in 1..Len(r) : r[k] = u
      <4>1. i \in 1..Len(r) /\ r[i] = u
        BY <1>1, <3>3
      <4> QED  BY <4>1
    <3> QED  BY <3>1, <3>2, <3>3 DEF ListExact
  <2> QED  BY <2>1, <2>2
<1>4. ASSUME NEW i \in 1..Len(r), NEW j \in 1..Len(r), r[i] = r[j]
      PROVE  i = j
  BY <1>1, <1>2, <1>4 DEF ListExact
<1>5. r # <<>>
  BY <1>1
<1> QED  BY <1>1, <1>3, <1>4, <1>5 DEF ListExact

(* list_pop, the popped task leaving TASK_READY, keeps the list exact.      *)
LEMMA PopExact ==
  ASSUME NEW st \in [Threads -> Statuses], NEW rd \in Seq(Threads),
         ListExact(st, rd), rd # <<>>, NEW x \in Statuses, x # "READY"
  PROVE  /\ Head(rd) \in Threads /\ st[Head(rd)] = "READY"
         /\ Tail(rd) \in Seq(Threads)
         /\ ListExact([st EXCEPT ![Head(rd)] = x], Tail(rd))
<1> DEFINE h == Head(rd)
           r == Tail(rd)
           s == [st EXCEPT ![h] = x]
<1>1. /\ Len(rd) >= 1 /\ h = rd[1] /\ h \in Threads
      /\ r \in Seq(Threads) /\ Len(r) = Len(rd) - 1
      /\ \A i \in 1..Len(r) : r[i] = rd[i + 1]
  OBVIOUS
<1>2. st[h] = "READY"
  BY <1>1 DEF ListExact
<1>3. \A i \in 1..Len(r) : r[i] # h
  BY <1>1 DEF ListExact
<1>4. ASSUME NEW u \in Threads
      PROVE  s[u] = "READY" <=> \E i \in 1..Len(r) : r[i] = u
  <2>1. CASE u = h
    BY <1>1, <1>3, <2>1
  <2>2. CASE u # h
    <3>1. s[u] = st[u]
      BY <2>2
    <3>2. ASSUME NEW i \in 1..Len(rd), rd[i] = u
          PROVE  \E k \in 1..Len(r) : r[k] = u
      <4>1. i - 1 \in 1..Len(r) /\ r[i - 1] = rd[i]
        BY <1>1, <2>2, <3>2
      <4> QED  BY <4>1, <3>2
    <3>3. ASSUME NEW i \in 1..Len(r), r[i] = u
          PROVE  \E k \in 1..Len(rd) : rd[k] = u
      BY <1>1, <3>3
    <3> QED  BY <3>1, <3>2, <3>3 DEF ListExact
  <2> QED  BY <2>1, <2>2
<1>5. ASSUME NEW i \in 1..Len(r), NEW j \in 1..Len(r), r[i] = r[j]
      PROVE  i = j
  BY <1>1, <1>5 DEF ListExact
<1> QED  BY <1>1, <1>2, <1>4, <1>5 DEF ListExact

(* schedule(): whatever is done with the task that leaves the CPU, the task *)
(* that gets it is the only running one and the ready list stays exact;     *)
(* with an empty list that task is idle.                                    *)
LEMMA DispatchExact ==
  ASSUME NEW st \in [Threads -> Statuses], NEW rd \in Seq(Threads), ListExact(st, rd),
         \A t \in Threads : st[t] # "RUNNING",
         st[Idle] \in {"READY", "BLOCKED"},
         Dispatch(st, rd)
  PROVE  /\ status' = [st EXCEPT ![cur'] = "RUNNING"] /\ cur' \in Threads
         /\ st[cur'] = "READY" \/ cur' = Idle
         /\ status' \in [Threads -> Statuses] /\ ready' \in Seq(Threads)
         /\ ReadyListExact' /\ OneRunning' /\ IdleAvailable'
<1> USE TasksAssumption
<1>1. CASE rd = <<>>
  <2>1. cur' = Idle /\ ready' = <<>> /\ status' = [st EXCEPT ![Idle] = "RUNNING"]
    BY <1>1 DEF Dispatch
  <2>2. \A u \in Threads : st[u] # "READY"
    BY <1>1 DEF ListExact
  <2>3. ListExact(status, ready)'
    BY <2>1, <2>2 DEF ListExact
  <2>4. OneRunning' /\ IdleAvailable'
    BY <2>1 DEF OneRunning, IdleAvailable
  <2> QED  BY <2>1, <2>3, <2>4 DEF ReadyListExact, Statuses
<1>2. CASE rd # <<>>
  <2> DEFINE h == Head(rd)
  <2>1. cur' = h /\ ready' = Tail(rd) /\ status' = [st EXCEPT ![h] = "RUNNING"]
    BY <1>2 DEF Dispatch
  <2>2. /\ h \in Threads /\ st[h] = "READY" /\ Tail(rd) \in Seq(Threads)
        /\ ListExact([st EXCEPT ![h] = "RUNNING"], Tail(rd))
    BY <1>2, PopExact, "RUNNING" \in Statuses DEF Statuses
  <2>3. status' \in [Threads -> Statuses]
    BY <2>1, <2>2 DEF Statuses
  <2>4. ReadyListExact'
    BY <2>1, <2>2 DEF ReadyListExact
  <2>5. OneRunning'
    BY <2>1, <2>2 DEF OneRunning
  <2>6. status'[Idle] \in {"RUNNING", "READY", "BLOCKED"}
    BY <2>1, <2>2
  <2>7. ready' = <<>> => status'[Idle] # "READY"
    BY <2>4 DEF ReadyListExact, ListExact
  <2> QED  BY <2>1, <2>2, <2>3, <2>4, <2>5, <2>6, <2>7 DEF IdleAvailable
<1> QED  BY <1>1, <1>2

(* A queue that holds exactly the tasks of S, once each.                    *)
QueueExact(S, q) ==
    /\ S = {q[i] : i \in 1..Len(q)}
    /\ \A i, j \in 1..Len(q) : q[i] = q[j] => i = j

(* list_append of a task that is not in the queue.                          *)
LEMMA QueueAppend ==
  ASSUME NEW S, NEW q \in Seq(Threads), NEW t \in Threads, QueueExact(S, q), t \notin S
  PROVE  Append(q, t) \in Seq(Threads) /\ QueueExact(S \union {t}, Append(q, t))
<1> DEFINE r == Append(q, t)
<1>1. /\ r \in Seq(Threads) /\ Len(r) = Len(q) + 1 /\ r[Len(q) + 1] = t
      /\ \A i \in 1..Len(q) : r[i] = q[i]
  OBVIOUS
<1>2. \A i \in 1..Len(q) : q[i] # t /\ q[i] \in S
  BY DEF QueueExact
<1>3. Len(q) \in Nat
  OBVIOUS
<1>4. \A i \in 1..Len(r) : i \in 1..Len(q) \/ i = Len(q) + 1
  BY <1>1, <1>3
<1>5. Len(q) + 1 \in 1..Len(r) /\ \A i \in 1..Len(q) : i \in 1..Len(r)
  BY <1>1, <1>3
<1> HIDE DEF r
<1>6. S \union {t} = {r[i] : i \in 1..Len(r)}
  <2>1. S = {q[i] : i \in 1..Len(q)}
    BY DEF QueueExact
  <2>2. ASSUME NEW u \in S \union {t} PROVE \E i \in 1..Len(r) : u = r[i]
    BY <1>1, <1>5, <2>1
  <2>3. ASSUME NEW i \in 1..Len(r) PROVE r[i] \in S \union {t}
    BY <1>1, <1>2, <1>4
  <2> QED  BY <2>2, <2>3
<1>7. \A i, j \in 1..Len(r) : r[i] = r[j] => i = j
  BY <1>1, <1>2, <1>4 DEF QueueExact
<1>8. r \in Seq(Threads) /\ QueueExact(S \union {t}, r)
  BY <1>1, <1>6, <1>7 DEF QueueExact
<1> QED  BY <1>8 DEF r

(* list_pop: the popped task was in the queue and no longer is.             *)
LEMMA QueueTail ==
  ASSUME NEW S, NEW q \in Seq(Threads), QueueExact(S, q), q # <<>>
  PROVE  /\ Head(q) \in Threads /\ Head(q) \in S /\ Tail(q) \in Seq(Threads)
         /\ QueueExact(S \ {Head(q)}, Tail(q))
<1> DEFINE h == Head(q)
           r == Tail(q)
<1>1. /\ Len(q) \in Nat /\ Len(q) >= 1 /\ h = q[1] /\ h \in Threads
      /\ r \in Seq(Threads) /\ Len(r) = Len(q) - 1
      /\ \A i \in 1..Len(r) : r[i] = q[i + 1]
  OBVIOUS
<1>2. /\ \A i \in 1..Len(r) : i + 1 \in 1..Len(q) /\ i + 1 # 1
      /\ \A i \in 1..Len(q) : i = 1 \/ (i - 1 \in 1..Len(r) /\ (i - 1) + 1 = i)
      /\ \A i, j \in 1..Len(r) : i + 1 = j + 1 => i = j
      /\ 1 \in 1..Len(q)
  BY <1>1
<1> HIDE DEF h, r
<1>3. \A i, j \in 1..Len(q) : q[i] = q[j] => i = j
  BY DEF QueueExact
<1>4. S = {q[i] : i \in 1..Len(q)}
  BY DEF QueueExact
<1>5. ASSUME NEW u \in S \ {h} PROVE \E i \in 1..Len(r) : u = r[i]
  <2>1. PICK i \in 1..Len(q) : u = q[i]
    BY <1>4
  <2>2. i # 1
    BY <1>1, <2>1
  <2>3. i - 1 \in 1..Len(r) /\ r[i - 1] = q[(i - 1) + 1] /\ (i - 1) + 1 = i
    BY <1>1, <1>2, <2>2
  <2> QED  BY <2>1, <2>3
<1>6. ASSUME NEW i \in 1..Len(r) PROVE r[i] \in S \ {h}
  <2>1. r[i] = q[i + 1] /\ i + 1 \in 1..Len(q) /\ q[i + 1] # q[1]
    BY <1>1, <1>2, <1>3
  <2> QED  BY <2>1, <1>1, <1>4
<1>7. S \ {h} = {r[i] : i \in 1..Len(r)}
  BY <1>5, <1>6
<1>8. \A i, j \in 1..Len(r) : r[i] = r[j] => i = j
  BY <1>1, <1>2, <1>3
<1>9. h \in Threads /\ h \in S /\ r \in Seq(Threads) /\ QueueExact(S \ {h}, r)
  BY <1>1, <1>2, <1>4, <1>7, <1>8 DEF QueueExact
<1> QED  BY <1>9 DEF h, r

(* A step of the scheduler that creates and ends no task.                   *)
SameTasks == \A t \in Threads : Listed(t)' <=> Listed(t)

Awake == {"READY", "RUNNING"}
(* ... and one that neither blocks nor wakes a task, idle aside.            *)
SameAwake == \A t \in Threads \ {Idle} :
                status'[t] = status[t] \/ (status[t] \in Awake /\ status'[t] \in Awake)

(* The state thread_init leaves satisfies the scheduler's invariant.        *)
LEMMA InitCore == ThreadInit => CoreInv
<1> SUFFICES ASSUME ThreadInit PROVE CoreInv
  OBVIOUS
<1> USE TasksAssumption DEF ThreadInit
<1>1. status \in [Threads -> Statuses] /\ ready \in Seq(Threads) /\ cur \in Threads
  BY DEF Statuses
<1>2. ticks \in [Threads -> 0..255] /\ \A t \in Threads : ticks[t] <= Prio[t]
  BY PrioAssumption
<1>3. ReadyListExact
  BY DEF ReadyListExact, ListExact
<1>4. OneRunning /\ IdleAvailable
  BY DEF OneRunning, IdleAvailable
<1> QED  BY <1>1, <1>2, <1>3, <1>4 DEF CoreInv

(* thread_start keeps the scheduler's invariant: a free PCB page becomes a  *)
(* ready task.                                                              *)
LEMMA StartCore ==
  ASSUME CoreInv, NEW t \in Threads, Start(t)
  PROVE  /\ CoreInv' /\ status[t] = "NULL" /\ t # Idle /\ cur' = cur
         /\ status' = [status EXCEPT ![t] = "READY"]
<1> USE TasksAssumption
<1>1. /\ status[t] = "NULL" /\ status' = [status EXCEPT ![t] = "READY"]
      /\ ready' = Append(ready, t) /\ cur' = cur
      /\ ticks' = [ticks EXCEPT ![t] = Prio[t]]
  BY DEF Start, NewTask
<1>2. ready' \in Seq(Threads) /\ ready' # <<>> /\ ListExact(status', ready')
  BY <1>1, AppendExact DEF CoreInv, ReadyListExact
<1>3. status' \in [Threads -> Statuses] /\ cur' \in Threads
  BY <1>1 DEF CoreInv, Statuses
<1>4. OneRunning' /\ IdleAvailable' /\ t # Idle
  BY <1>1, <1>2 DEF CoreInv, OneRunning, IdleAvailable
<1>p. \A u \in Threads : Prio[u] \in 1..255
  BY PrioAssumption
<1>5. ticks \in [Threads -> 0..255] /\ \A u \in Threads : ticks[u] <= Prio[u]
  BY DEF CoreInv
<1>6. ticks' \in [Threads -> 0..255]
  BY <1>1, <1>5, <1>p
<1>7. ASSUME NEW u \in Threads PROVE ticks'[u] <= Prio[u]
  <2>1. ticks'[u] = ticks[u] \/ ticks'[u] = Prio[u]
    BY <1>1, <1>5
  <2>2. Prio[u] <= Prio[u] /\ ticks[u] <= Prio[u]
    BY <1>5, <1>p
  <2> QED  BY <2>1, <2>2
<1>8. CoreInv'
  BY <1>2, <1>3, <1>4, <1>6, <1>7 DEF CoreInv, ReadyListExact
<1> QED  BY <1>1, <1>4, <1>8

(* thread_block keeps the scheduler's invariant.                            *)
LEMMA BlockCore ==
  ASSUME CoreInv, NEW s \in {"BLOCKED", "WAITING", "HANGING"},
         cur = Idle => s = "BLOCKED", ThreadBlock(s)
  PROVE  /\ CoreInv' /\ SameTasks
         /\ status' = [[status EXCEPT ![cur] = s] EXCEPT ![cur'] = "RUNNING"]
         /\ cur' \in Threads /\ (status[cur'] = "READY" \/ cur' = Idle)
<1> USE TasksAssumption
<1> DEFINE st == [status EXCEPT ![cur] = s]
<1>1. st \in [Threads -> Statuses] /\ ready \in Seq(Threads)
  BY DEF CoreInv, Statuses
<1>2. status[cur] = "RUNNING" /\ \A t \in Threads : st[t] # "RUNNING"
  BY DEF CoreInv, OneRunning
<1>3. ListExact(st, ready)
  BY <1>1, <1>2 DEF CoreInv, ReadyListExact, ListExact
<1>4. st[Idle] \in {"READY", "BLOCKED"}
  BY <1>2 DEF CoreInv, IdleAvailable, OneRunning
<1>5. Dispatch(st, ready) /\ ticks' = ticks
  BY DEF ThreadBlock
<1>6. /\ status' = [st EXCEPT ![cur'] = "RUNNING"] /\ cur' \in Threads
      /\ st[cur'] = "READY" \/ cur' = Idle
      /\ status' \in [Threads -> Statuses] /\ ready' \in Seq(Threads)
      /\ ReadyListExact' /\ OneRunning' /\ IdleAvailable'
  BY <1>1, <1>2, <1>3, <1>4, <1>5, DispatchExact
<1>7. CoreInv'
  BY <1>5, <1>6 DEF CoreInv
<1>8. status[cur'] = "READY" \/ cur' = Idle
  BY <1>1, <1>6 DEF CoreInv
<1>9. SameTasks
  BY <1>1, <1>2, <1>6, <1>8 DEF SameTasks, Listed, CoreInv, IdleAvailable
<1> QED  BY <1>6, <1>7, <1>8, <1>9

(* thread_unblock of a blocked task keeps the scheduler's invariant.        *)
LEMMA UnblockCore ==
  ASSUME CoreInv, NEW t \in Threads,
         status[t] \in {"BLOCKED", "WAITING", "HANGING"}, ThreadUnblock(t)
  PROVE  CoreInv' /\ SameTasks
<1> USE TasksAssumption
<1>1. /\ ready' = <<t>> \o ready /\ status' = [status EXCEPT ![t] = "READY"]
      /\ cur' = cur /\ ticks' = ticks
  BY DEF ThreadUnblock
<1>2. ready' \in Seq(Threads) /\ ready' # <<>> /\ ListExact(status', ready')
  BY <1>1, PushExact DEF CoreInv, ReadyListExact
<1>3. status' \in [Threads -> Statuses] /\ OneRunning' /\ IdleAvailable'
  BY <1>1, <1>2 DEF CoreInv, OneRunning, IdleAvailable, Statuses
<1>4. CoreInv'
  BY <1>1, <1>2, <1>3 DEF CoreInv, ReadyListExact
<1>5. SameTasks
  BY <1>1 DEF SameTasks, Listed, CoreInv
<1> QED  BY <1>4, <1>5

(* The current task goes to the tail of the ready list and schedule() picks *)
(* the next one: thread_yield, and the expiry of a time slice.              *)
LEMMA RequeueCore ==
  ASSUME CoreInv, Dispatch([status EXCEPT ![cur] = "READY"], Append(ready, cur)),
         ticks' \in [Threads -> 0..255], \A t \in Threads : ticks'[t] <= Prio[t]
  PROVE  CoreInv' /\ SameTasks /\ SameAwake
<1> USE TasksAssumption
<1> DEFINE st == [status EXCEPT ![cur] = "READY"]
<1>1. st \in [Threads -> Statuses] /\ status[cur] = "RUNNING"
  BY DEF CoreInv, Statuses, OneRunning
<1>2. \A t \in Threads : st[t] # "RUNNING"
  BY DEF CoreInv, OneRunning
<1>3. Append(ready, cur) \in Seq(Threads) /\ ListExact(st, Append(ready, cur))
  BY <1>1, AppendExact DEF CoreInv, ReadyListExact
<1>4. st[Idle] \in {"READY", "BLOCKED"}
  BY <1>2 DEF CoreInv, IdleAvailable
<1>5. /\ status' = [st EXCEPT ![cur'] = "RUNNING"] /\ cur' \in Threads
      /\ st[cur'] = "READY" \/ cur' = Idle
      /\ status' \in [Threads -> Statuses] /\ ready' \in Seq(Threads)
      /\ ReadyListExact' /\ OneRunning' /\ IdleAvailable'
  BY <1>1, <1>2, <1>3, <1>4, DispatchExact
<1>6. CoreInv'
  BY <1>5 DEF CoreInv
<1>7. SameTasks
  BY <1>1, <1>5 DEF SameTasks, Listed, CoreInv, IdleAvailable
<1>8. SameAwake
  BY <1>1, <1>5 DEF SameAwake, Awake, CoreInv
<1> QED  BY <1>6, <1>7, <1>8

(* The timer interrupt keeps the scheduler's invariant.                     *)
LEMMA TimerCore ==
  ASSUME CoreInv, TimerHandler
  PROVE  CoreInv' /\ SameTasks /\ SameAwake
<1>0. /\ cur \in Threads /\ ticks \in [Threads -> 0..255]
      /\ \A t \in Threads : ticks[t] <= Prio[t]
  BY DEF CoreInv
<1>p. \A t \in Threads : Prio[t] \in 1..255
  BY PrioAssumption
<1>1. CASE ticks[cur] = 0
  <2>1. ticks' = [ticks EXCEPT ![cur] = Prio[cur]]
    BY <1>1 DEF TimerHandler, ScheduleRunning
  <2>2. ticks' \in [Threads -> 0..255] /\ \A t \in Threads : ticks'[t] <= Prio[t]
    <3>1. ticks' \in [Threads -> 0..255]
      BY <2>1, <1>0, <1>p
    <3>2. ASSUME NEW t \in Threads PROVE ticks'[t] <= Prio[t]
      BY <2>1, <1>0, <1>p
    <3> QED  BY <3>1, <3>2
  <2> QED  BY <1>1, <2>2, RequeueCore DEF TimerHandler, ScheduleRunning
<1>2. CASE ticks[cur] # 0
  <2>1. ticks' = [ticks EXCEPT ![cur] = @ - 1] /\ UNCHANGED <<status, ready, cur>>
    BY <1>2 DEF TimerHandler
  <2>2. ticks' \in [Threads -> 0..255] /\ \A t \in Threads : ticks'[t] <= Prio[t]
    <3>1. ticks[cur] - 1 \in 0..255
      BY <1>0, <1>2
    <3>2. ticks' \in [Threads -> 0..255]
      BY <2>1, <3>1, <1>0
    <3>3. ASSUME NEW t \in Threads PROVE ticks'[t] <= Prio[t]
      <4>1. ticks[t] \in 0..255 /\ Prio[t] \in 1..255 /\ ticks[t] <= Prio[t]
        BY <1>0, <1>p
      <4>2. ticks'[t] = ticks[t] \/ ticks'[t] = ticks[t] - 1
        BY <2>1, <1>0
      <4>3. \A a, b \in Int : a <= b => a - 1 <= b
        OBVIOUS
      <4>4. ticks[t] \in Int /\ Prio[t] \in Int
        BY <4>1
      <4> QED  BY <4>1, <4>2, <4>3, <4>4
    <3> QED  BY <3>2, <3>3
  <2> QED  BY <2>1, <2>2 DEF CoreInv, SameTasks, SameAwake, Listed, ReadyListExact, OneRunning, IdleAvailable
<1> QED  BY <1>1, <1>2

(* The types of what schedule() does not touch.                             *)
TaskTypes ==
    /\ all \subseteq Threads
    /\ pid \in [Threads -> 0..MaxPid] /\ pid_bitmap \subseteq 1..MaxPid
    /\ idlepc \in {"block", "hlt", "halted"}

(* The scheduler's inductive invariant: what the ready list, the statuses   *)
(* and the current task have to do with each other, and the pid pool.       *)
SchedInv == CoreInv /\ TaskTypes /\ PidsExact

(* The state thread_init leaves satisfies the invariant.                    *)
LEMMA InitSched == ThreadInit => SchedInv
<1> SUFFICES ASSUME ThreadInit PROVE SchedInv
  OBVIOUS
<1> USE TasksAssumption, MaxPidAssumption DEF ThreadInit
<1>4. CoreInv
  BY InitCore
<1>5. TaskTypes
  BY DEF TaskTypes
<1>6. PidsExact
  BY DEF PidsExact, Listed
<1> QED  BY <1>4, <1>5, <1>6 DEF SchedInv

(* A step that creates and ends no task keeps the pid pool exact.           *)
LEMMA SameTasksPids ==
  ASSUME PidsExact, SameTasks, UNCHANGED taskVars
  PROVE  PidsExact'
BY DEF PidsExact, SameTasks, taskVars

(* thread_start: a free PCB page becomes a ready task with a fresh pid.     *)
LEMMA StartSched ==
  ASSUME SchedInv, NEW t \in Threads, Start(t)
  PROVE  SchedInv'
<1> USE TasksAssumption, MaxPidAssumption
<1>1. /\ status[t] = "NULL" /\ status' = [status EXCEPT ![t] = "READY"]
      /\ ready' = Append(ready, t) /\ all' = all \union {t} /\ cur' = cur
      /\ ticks' = [ticks EXCEPT ![t] = Prio[t]] /\ idlepc' = idlepc
  BY DEF Start, NewTask
<1>2. PICK p \in 1..MaxPid : /\ p \notin pid_bitmap
                             /\ pid' = [pid EXCEPT ![t] = p]
                             /\ pid_bitmap' = pid_bitmap \union {p}
  BY DEF Start, NewTask, FirstFree
<1>3. CoreInv'
  BY StartCore DEF SchedInv
<1>4. TaskTypes'
  BY <1>1, <1>2 DEF SchedInv, TaskTypes
<1>5. PidsExact'
  <2>1. t \notin all
    BY <1>1 DEF SchedInv, PidsExact, Listed
  <2>2. \A u \in all : pid'[u] = pid[u] /\ pid[u] \in pid_bitmap /\ pid[u] # p
    BY <1>2, <2>1 DEF SchedInv, PidsExact, TaskTypes
  <2>3. pid'[t] = p
    BY <1>2 DEF SchedInv, TaskTypes
  <2>4. \A u, v \in all' : pid'[u] = pid'[v] => u = v
    BY <1>1, <2>2, <2>3 DEF SchedInv, PidsExact
  <2>5. pid_bitmap' = {pid'[u] : u \in all'}
    BY <1>1, <1>2, <2>2, <2>3 DEF SchedInv, PidsExact
  <2>6. \A u \in Threads : u \in all' <=> Listed(u)'
    BY <1>1 DEF SchedInv, PidsExact, Listed, CoreInv
  <2> QED  BY <2>4, <2>5, <2>6 DEF PidsExact
<1> QED  BY <1>3, <1>4, <1>5 DEF SchedInv

(* thread_exit's bookkeeping: the pid of the ended task is freed and no     *)
(* other.                                                                   *)
LEMMA ReleasePids ==
  ASSUME SchedInv, NEW t \in Threads, t \in all, ReleaseTask(t),
         \A u \in Threads : Listed(u)' <=> u # t /\ Listed(u)
  PROVE  all' \subseteq Threads /\ pid' \in [Threads -> 0..MaxPid]
         /\ pid_bitmap' \subseteq 1..MaxPid /\ PidsExact'
<1> USE MaxPidAssumption
<1>1. /\ all' = all \ {t} /\ pid_bitmap' = pid_bitmap \ {pid[t]}
      /\ pid' = [pid EXCEPT ![t] = 0]
  BY DEF ReleaseTask
<1>2. all' \subseteq Threads /\ pid' \in [Threads -> 0..MaxPid] /\ pid_bitmap' \subseteq 1..MaxPid
  <2>1. /\ all \subseteq Threads /\ pid \in [Threads -> 0..MaxPid]
        /\ pid_bitmap \subseteq 1..MaxPid /\ 0 \in 0..MaxPid
    BY DEF SchedInv, TaskTypes
  <2> QED  BY <1>1, <2>1
<1>3. \A u \in all' : pid'[u] = pid[u] /\ pid[u] # pid[t] /\ u \in all
  BY <1>1 DEF SchedInv, PidsExact, TaskTypes
<1>4. \A u, v \in all' : pid'[u] = pid'[v] => u = v
  BY <1>3 DEF SchedInv, PidsExact
<1>5. pid_bitmap' = {pid'[u] : u \in all'}
  BY <1>1, <1>3 DEF SchedInv, PidsExact
<1>6. \A u \in Threads : u \in all' <=> Listed(u)'
  BY <1>1 DEF SchedInv, PidsExact
<1> QED  BY <1>2, <1>4, <1>5, <1>6 DEF PidsExact

(* A task that left the CPU or was reaped is not in the ready list, so      *)
(* thread_exit finds nothing to remove from it.                             *)
LEMMA OffReadyNoop ==
  ASSUME CoreInv, NEW t \in Threads, status[t] # "READY"
  PROVE  OffReady(t) = ready
BY DEF OffReady, CoreInv, ReadyListExact, ListExact

(* sys_wait's thread_exit(child, false) keeps the invariant.                *)
LEMMA ReapSched ==
  ASSUME SchedInv, NEW t \in Threads, Reap(t)
  PROVE  /\ SchedInv' /\ t \in all /\ all' = all \ {t} /\ cur' = cur
         /\ \A u \in Threads \ {t} : status'[u] = status[u] /\ pid'[u] = pid[u]
<1> USE TasksAssumption
<1> DEFINE x == ExitStatus(t)
<1>1. /\ status[t] = "HANGING" /\ ReleaseTask(t) /\ ready' = OffReady(t)
      /\ status' = [status EXCEPT ![t] = x] /\ UNCHANGED <<cur, ticks, idlepc>>
  BY DEF Reap
<1>2. x \in {"OVER", "NULL"}
  BY DEF ExitStatus
<1>3. ready' = ready
  BY <1>1, OffReadyNoop DEF SchedInv
<1> HIDE DEF x
<1>4. status' \in [Threads -> Statuses] /\ t # Idle /\ t # cur
  BY <1>1, <1>2 DEF SchedInv, CoreInv, Statuses, IdleAvailable, OneRunning
<1>5. ListExact(status', ready')
  BY <1>1, <1>2, <1>3, <1>4 DEF SchedInv, CoreInv, ReadyListExact, ListExact
<1>6. OneRunning' /\ IdleAvailable'
  BY <1>1, <1>2, <1>3, <1>4 DEF SchedInv, CoreInv, OneRunning, IdleAvailable
<1>7. CoreInv'
  BY <1>1, <1>3, <1>4, <1>5, <1>6 DEF SchedInv, CoreInv, ReadyListExact
<1>8. t \in all /\ \A u \in Threads : Listed(u)' <=> u # t /\ Listed(u)
  BY <1>1, <1>2 DEF SchedInv, CoreInv, PidsExact, Listed
<1>9. TaskTypes' /\ PidsExact'
  BY <1>1, <1>8, ReleasePids DEF TaskTypes, SchedInv
<1>10. \A u \in Threads \ {t} : status'[u] = status[u] /\ pid'[u] = pid[u]
  BY <1>1 DEF ReleaseTask, SchedInv, CoreInv, TaskTypes
<1> QED  BY <1>1, <1>7, <1>8, <1>9, <1>10 DEF SchedInv, ReleaseTask

(* main's thread_exit(running_thread(), true) keeps the invariant.          *)
LEMMA MainExitSched ==
  ASSUME SchedInv, MainExit
  PROVE  /\ SchedInv' /\ all' = all \ {Main} /\ status'[Main] = "OVER"
         /\ \A u \in Threads \ {Main} : pid'[u] = pid[u]
         /\ \A u \in Threads \ {Main, Idle} :
               status'[u] = status[u] \/ (status[u] \in Awake /\ status'[u] \in Awake)
<1> USE TasksAssumption
<1> DEFINE st == [status EXCEPT ![Main] = "OVER"]
<1>1. cur = Main /\ ReleaseTask(Main) /\ UNCHANGED <<ticks, idlepc>> /\ status[Main] = "RUNNING"
  BY DEF MainExit, SchedInv, CoreInv, OneRunning
<1>2. Dispatch(st, ready)
  BY <1>1, OffReadyNoop DEF MainExit, ExitStatus, SchedInv
<1>3. st \in [Threads -> Statuses] /\ ready \in Seq(Threads)
  BY DEF SchedInv, CoreInv, Statuses
<1>4. (\A t \in Threads : st[t] # "RUNNING") /\ st[Idle] \in {"READY", "BLOCKED"}
  BY <1>1 DEF SchedInv, CoreInv, OneRunning, IdleAvailable
<1>5. ListExact(st, ready)
  BY <1>1, <1>3 DEF SchedInv, CoreInv, ReadyListExact, ListExact
<1>6. /\ status' = [st EXCEPT ![cur'] = "RUNNING"] /\ cur' \in Threads
      /\ st[cur'] = "READY" \/ cur' = Idle
      /\ status' \in [Threads -> Statuses] /\ ready' \in Seq(Threads)
      /\ ReadyListExact' /\ OneRunning' /\ IdleAvailable'
  BY <1>2, <1>3, <1>4, <1>5, DispatchExact
<1>7. CoreInv'
  BY <1>1, <1>6 DEF SchedInv, CoreInv
<1>8. Main \in all /\ \A u \in Threads : Listed(u)' <=> u # Main /\ Listed(u)
  BY <1>1, <1>3, <1>4, <1>6 DEF SchedInv, CoreInv, PidsExact, Listed
<1>9. TaskTypes' /\ PidsExact'
  BY <1>1, <1>8, ReleasePids DEF TaskTypes, SchedInv
<1>10. \A u \in Threads \ {Main} : pid'[u] = pid[u]
  BY <1>1 DEF ReleaseTask, SchedInv, TaskTypes
<1>11. /\ status'[Main] = "OVER"
       /\ \A u \in Threads \ {Main, Idle} :
             status'[u] = status[u] \/ (status[u] \in Awake /\ status'[u] \in Awake)
  BY <1>3, <1>6 DEF Awake, SchedInv, CoreInv
<1>12. SchedInv'
  BY <1>7, <1>9 DEF SchedInv
<1>13. all' = all \ {Main}
  BY <1>1 DEF ReleaseTask
<1> QED  BY <1>10, <1>11, <1>12, <1>13

(* sys_exit: waking the waiting parent and hanging in one go.               *)
LEMMA HangSched ==
  ASSUME SchedInv, NEW p \in Threads, UnblockAndHang(p)
  PROVE  /\ SchedInv' /\ status'[cur] = "HANGING" /\ status'[p] \in Awake
         /\ \A t \in Threads \ {p, cur, Idle} :
               status'[t] = status[t] \/ (status[t] \in Awake /\ status'[t] \in Awake)
<1> USE TasksAssumption
<1> DEFINE s1 == [status EXCEPT ![cur] = "HANGING"]
           s2 == [s1 EXCEPT ![p] = "READY"]
<1>1. /\ cur \in Threads /\ cur # Idle /\ p # cur /\ status[p] = "WAITING"
      /\ status[cur] = "RUNNING" /\ UNCHANGED <<ticks, taskVars, idlepc>>
  BY DEF UnblockAndHang, Procs, SchedInv, CoreInv, OneRunning
<1>2. s1 \in [Threads -> Statuses] /\ ready \in Seq(Threads) /\ s1[p] # "READY"
  BY <1>1 DEF SchedInv, CoreInv, Statuses
<1>3. ListExact(s1, ready)
  BY <1>1, <1>2 DEF SchedInv, CoreInv, ReadyListExact, ListExact
<1>4. <<p>> \o ready \in Seq(Threads) /\ ListExact(s2, <<p>> \o ready)
  BY <1>2, <1>3, PushExact
<1>5. s2 = [status EXCEPT ![p] = "READY", ![cur] = "HANGING"]
  BY <1>1 DEF SchedInv, CoreInv
<1>6. Dispatch(s2, <<p>> \o ready)
  BY <1>5 DEF UnblockAndHang
<1>7. s2 \in [Threads -> Statuses]
  BY <1>2 DEF Statuses
<1>8. (\A t \in Threads : s2[t] # "RUNNING") /\ s2[Idle] \in {"READY", "BLOCKED"}
  BY <1>1 DEF SchedInv, CoreInv, OneRunning, IdleAvailable
<1>9. /\ status' = [s2 EXCEPT ![cur'] = "RUNNING"] /\ cur' \in Threads
      /\ s2[cur'] = "READY" \/ cur' = Idle
      /\ status' \in [Threads -> Statuses] /\ ready' \in Seq(Threads)
      /\ ReadyListExact' /\ OneRunning' /\ IdleAvailable'
  BY <1>4, <1>6, <1>7, <1>8, DispatchExact
<1>10. CoreInv'
  BY <1>1, <1>9 DEF SchedInv, CoreInv
<1>11. SameTasks
  BY <1>1, <1>7, <1>9 DEF SameTasks, Listed, SchedInv, CoreInv, IdleAvailable
<1>12. TaskTypes' /\ PidsExact'
  BY <1>1, <1>11, SameTasksPids DEF TaskTypes, SchedInv, taskVars
<1>13. /\ status'[cur] = "HANGING" /\ status'[p] \in Awake
       /\ \A t \in Threads \ {p, cur, Idle} :
             status'[t] = status[t] \/ (status[t] \in Awake /\ status'[t] \in Awake)
  BY <1>1, <1>7, <1>9 DEF Awake, SchedInv, CoreInv
<1> QED  BY <1>10, <1>12, <1>13 DEF SchedInv

(* A step that creates and ends no task keeps the invariant when it keeps   *)
(* schedule()'s part of it.                                                 *)
LEMMA SameTasksSched ==
  ASSUME SchedInv, CoreInv', SameTasks, UNCHANGED taskVars,
         idlepc' \in {"block", "hlt", "halted"}
  PROVE  SchedInv'
BY SameTasksPids DEF SchedInv, TaskTypes, taskVars

(* thread_block called by a task.                                           *)
LEMMA BlockSched ==
  ASSUME SchedInv, NEW s \in {"BLOCKED", "WAITING", "HANGING"}, Block(s)
  PROVE  /\ SchedInv' /\ status'[cur] = s
         /\ \A t \in Threads \ {cur, Idle} :
               status'[t] = status[t] \/ (status[t] \in Awake /\ status'[t] \in Awake)
<1>1. /\ CoreInv' /\ SameTasks /\ cur # Idle /\ cur' \in Threads
      /\ status' = [[status EXCEPT ![cur] = s] EXCEPT ![cur'] = "RUNNING"]
      /\ (status[cur'] = "READY" \/ cur' = Idle)
  BY BlockCore DEF Block, SchedInv
<1>2. SchedInv'
  BY <1>1, SameTasksSched DEF Block, SchedInv, TaskTypes
<1>3. cur \in Threads /\ status[cur] = "RUNNING" /\ status \in [Threads -> Statuses]
  BY DEF SchedInv, CoreInv, OneRunning
<1>4. status'[cur] = s
  BY <1>1, <1>3
<1>5. \A t \in Threads \ {cur, Idle} :
         status'[t] = status[t] \/ (status[t] \in Awake /\ status'[t] \in Awake)
  BY <1>1, <1>3 DEF Awake
<1> QED  BY <1>2, <1>4, <1>5

(* thread_unblock called by an interrupt handler.                           *)
LEMMA IntrUnblockSched ==
  ASSUME SchedInv, NEW t \in Threads, IntrUnblock(t)
  PROVE  SchedInv' /\ status' = [status EXCEPT ![t] = "READY"] /\ cur' = cur
<1>1. CoreInv' /\ SameTasks
  BY UnblockCore DEF IntrUnblock, SchedInv
<1>2. SchedInv'
  BY <1>1, SameTasksSched DEF IntrUnblock, WakeHlt, SchedInv, TaskTypes
<1> QED  BY <1>2 DEF IntrUnblock, ThreadUnblock

(* The timer interrupt, and the steps of idle().                            *)
LEMMA TimerIdleSched ==
  ASSUME SchedInv, TimerTick \/ IdleBlock \/ IdleHalt
  PROVE  SchedInv' /\ SameAwake
<1>1. CASE TimerTick
  <2>1. CoreInv' /\ SameTasks /\ SameAwake
    BY <1>1, TimerCore DEF TimerTick, SchedInv
  <2> QED  BY <1>1, <2>1, SameTasksSched DEF TimerTick, WakeHlt, SchedInv, TaskTypes
<1>2. CASE IdleBlock
  <2>1. /\ CoreInv' /\ SameTasks /\ cur = Idle /\ cur' \in Threads
        /\ status' = [[status EXCEPT ![cur] = "BLOCKED"] EXCEPT ![cur'] = "RUNNING"]
        /\ (status[cur'] = "READY" \/ cur' = Idle)
    BY <1>2, BlockCore DEF IdleBlock, SchedInv
  <2>2. SameAwake
    BY <2>1 DEF SameAwake, Awake, SchedInv, CoreInv
  <2> QED  BY <1>2, <2>1, <2>2, SameTasksSched DEF IdleBlock
<1>3. CASE IdleHalt
  <2>1. CoreInv' /\ SameTasks /\ SameAwake
    BY <1>3 DEF IdleHalt, SchedInv, CoreInv, SameTasks, SameAwake, Listed, ReadyListExact,
                OneRunning, IdleAvailable
  <2> QED  BY <1>3, <2>1, SameTasksSched DEF IdleHalt
<1> QED  BY <1>1, <1>2, <1>3

-----------------------------------------------------------------------------
(* The specification                                                        *)

(* Every step of the scheduler keeps the invariant.                         *)
LEMMA NextSched == SchedInv /\ [SchedNext]_threadVars => SchedInv'
<1> SUFFICES ASSUME SchedInv, [SchedNext]_threadVars PROVE SchedInv'
  OBVIOUS
<1> USE TasksAssumption
<1>1. ASSUME NEW t \in Threads, Start(t) PROVE SchedInv'
  BY <1>1, StartSched
<1>2. ASSUME NEW s \in {"BLOCKED", "WAITING", "HANGING"}, Block(s) PROVE SchedInv'
  BY <1>2, BlockSched
<1>3. ASSUME NEW t \in Threads, Unblock(t) PROVE SchedInv'
  <2>1. CoreInv' /\ SameTasks
    BY <1>3, UnblockCore DEF Unblock, SchedInv
  <2> QED  BY <1>3, <2>1, SameTasksSched DEF Unblock, SchedInv, TaskTypes
<1>4. ASSUME NEW p \in Threads, UnblockAndHang(p) PROVE SchedInv'
  BY <1>4, HangSched
<1>5. ASSUME NEW t \in Threads, IntrUnblock(t) PROVE SchedInv'
  BY <1>5, IntrUnblockSched
<1>6. ASSUME UNCHANGED <<status, ready, cur, ticks, taskVars>>,
             idlepc' \in {"block", "hlt", "halted"}
      PROVE  SchedInv'
  <2>1. CoreInv' /\ SameTasks
    BY <1>6 DEF SchedInv, CoreInv, SameTasks, Listed, ReadyListExact, OneRunning, IdleAvailable
  <2> QED  BY <1>6, <2>1, SameTasksSched
<1>7. CASE IntrNoWake
  BY <1>6, <1>7 DEF IntrNoWake, WakeHlt
<1>8. CASE Yield
  <2>1. CoreInv' /\ SameTasks
    BY <1>8, RequeueCore DEF Yield, ThreadYield, SchedInv, CoreInv
  <2> QED  BY <1>8, <2>1, SameTasksSched DEF Yield, SchedInv, TaskTypes
<1>9. CASE TimerTick \/ IdleBlock \/ IdleHalt
  BY <1>9, TimerIdleSched
<1>10. ASSUME NEW t \in Threads, Reap(t) PROVE SchedInv'
  BY <1>10, ReapSched
<1>11. CASE MainExit
  BY <1>11, MainExitSched
<1>12. CASE UNCHANGED threadVars
  BY <1>6, <1>12 DEF threadVars, taskVars, SchedInv, TaskTypes
<1> QED
  BY <1>1, <1>2, <1>3, <1>4, <1>5, <1>7, <1>8, <1>9, <1>10, <1>11, <1>12 DEF SchedNext

(* The invariant holds in every reachable state.                            *)
LEMMA SpecSched == SchedSpec => []SchedInv
BY InitSched, NextSched, PTL DEF SchedSpec

(* Type correctness of the scheduler; the uint8_t time slices never wrap.   *)
THEOREM ThreadTypes == SchedSpec => []SchedTypeOK
<1>1. SchedInv => SchedTypeOK
  BY DEF SchedInv, CoreInv, TaskTypes, SchedTypeOK
<1> QED  BY <1>1, SpecSched, PTL

(* The ready list holds exactly the ready tasks, once each, so the ASSERTs  *)
(* of thread.c on it never stop the machine.                                *)
THEOREM ThreadReadyList == SchedSpec => []ReadyListExact
<1>1. SchedInv => ReadyListExact
  BY DEF SchedInv, CoreInv
<1> QED  BY <1>1, SpecSched, PTL

(* Exactly one task runs, and it is the current one.                        *)
THEOREM ThreadOneRunning == SchedSpec => []OneRunning
<1>1. SchedInv => OneRunning
  BY DEF SchedInv, CoreInv
<1> QED  BY <1>1, SpecSched, PTL

(* schedule() can always fall back on idle.                                 *)
THEOREM ThreadIdleAvailable == SchedSpec => []IdleAvailable
<1>1. SchedInv => IdleAvailable
  BY DEF SchedInv, CoreInv
<1> QED  BY <1>1, SpecSched, PTL

(* No two tasks share a pid and no pid leaks.                               *)
THEOREM ThreadPids == SchedSpec => []PidsExact
<1>1. SchedInv => PidsExact
  BY DEF SchedInv
<1> QED  BY <1>1, SpecSched, PTL
=============================================================================
