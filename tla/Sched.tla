-------------------------------- MODULE Sched -------------------------------
(***************************************************************************)
(* The scheduler of seeking-os: thread/thread.c with the time slices of    *)
(* device/timer.c.  One CPU; every operation below runs with interrupts    *)
(* off (IF = 0), so it is one atomic action.  What happens BETWEEN two     *)
(* operations of a task (preemption by the timer, another interrupt) is an *)
(* action of its own.                                                      *)
(*                                                                         *)
(* This module has the PCB state, the kernel's operations on it and what   *)
(* must hold of it.  Thread lets any task call any operation at any time;  *)
(* Sync, IoQueue and WaitExit call them the way the kernel does.           *)
(***************************************************************************)
EXTENDS Integers, Sequences, FiniteSets

CONSTANTS
    Threads,     \* the PCB pages: every task that can exist at once
    Idle,        \* idle_thread
    Main,        \* main_thread, whose PCB is the boot stack and is never freed
    InitProc,    \* the first user process, pid 1
    Prio,        \* task.priority of each task
    MaxPid       \* bits of pid_pool (1024 in the code)

ASSUME TasksAssumption ==
    /\ {Idle, Main, InitProc} \subseteq Threads
    /\ Idle # Main /\ Idle # InitProc /\ Main # InitProc
ASSUME PrioAssumption == Prio \in [Threads -> 1..255]
ASSUME MaxPidAssumption == MaxPid \in Nat /\ MaxPid >= 3

VARIABLES
    status,      \* task.status; "NULL" for a PCB page that is not allocated
    ready,       \* thread_ready_list, head first
    all,         \* the tasks of thread_all_list
    cur,         \* running_thread()
    ticks,       \* task.ticks, what is left of the time slice
    pid,         \* task.pid
    pid_bitmap,  \* the pids whose bit is set in pid_pool
    idlepc       \* where idle() continues: before thread_block, before hlt, in hlt

taskVars   == <<all, pid, pid_bitmap>>
threadVars == <<status, ready, all, cur, ticks, pid, pid_bitmap, idlepc>>

Statuses == {"RUNNING", "READY", "BLOCKED", "WAITING", "HANGING", "OVER", "NULL"}
Procs    == Threads \ {Idle, Main}      \* the user processes

(* A list that holds exactly the tasks which st says are TASK_READY, once   *)
(* each.                                                                    *)
ListExact(st, rd) ==
    /\ \A t \in Threads : st[t] = "READY" <=> \E i \in 1..Len(rd) : rd[i] = t
    /\ \A i, j \in 1..Len(rd) : rd[i] = rd[j] => i = j

(***************************************************************************)
(* thread_init: the init process is created first and gets pid 1, then     *)
(* main becomes a task, then idle is started.  main is still running.      *)
(***************************************************************************)
ThreadInit ==
    /\ status = [t \in Threads |-> CASE t = Main -> "RUNNING"
                                     [] t \in {InitProc, Idle} -> "READY"
                                     [] OTHER -> "NULL"]
    /\ ready = <<InitProc, Idle>>
    /\ all = {InitProc, Main, Idle}
    /\ cur = Main
    /\ ticks = Prio
    /\ pid = [t \in Threads |-> CASE t = InitProc -> 1 [] t = Main -> 2
                                  [] t = Idle -> 3 [] OTHER -> 0]
    /\ pid_bitmap = 1..3
    /\ idlepc = "block"

-----------------------------------------------------------------------------
(* Mutant: next->status is not set.                                         *)
DispatchStatusKept(st, rd) ==
    LET rd1 == IF rd = <<>> THEN <<Idle>> ELSE rd
    IN  ready' = Tail(rd1) /\ status' = st /\ cur' = Head(rd1)

(* schedule(), from line 217 on: st and rd are the statuses and the ready   *)
(* list once the task that leaves the CPU has been dealt with.              *)
Dispatch(st, rd) ==
    LET rd1  == IF rd = <<>> THEN <<Idle>> ELSE rd   \* thread_unblock(idle_thread)
        next == Head(rd1)
    IN  /\ ready'  = Tail(rd1)
        /\ status' = [st EXCEPT ![next] = "RUNNING"]
        /\ cur'    = next

(* Mutants: the preempted task is not queued again, or is queued first.     *)
ScheduleRunningDropped ==
    /\ Dispatch([status EXCEPT ![cur] = "READY"], ready)
    /\ ticks' = [ticks EXCEPT ![cur] = Prio[cur]]
ScheduleRunningPushed ==
    /\ Dispatch([status EXCEPT ![cur] = "READY"], <<cur>> \o ready)
    /\ ticks' = [ticks EXCEPT ![cur] = Prio[cur]]

(* schedule() called while the current task is still TASK_RUNNING.          *)
ScheduleRunning ==
    /\ Dispatch([status EXCEPT ![cur] = "READY"], Append(ready, cur))
    /\ ticks' = [ticks EXCEPT ![cur] = Prio[cur]]

(* thread_block(s)                                                          *)
ThreadBlock(s) ==
    /\ Dispatch([status EXCEPT ![cur] = s], ready)
    /\ UNCHANGED ticks

(* Mutant: the status stays as it was.                                      *)
ThreadUnblockStatusKept(t) ==
    /\ ready' = <<t>> \o ready
    /\ UNCHANGED <<status, cur, ticks>>

(* thread_unblock(t): the woken task goes to the FRONT of the ready list.   *)
ThreadUnblock(t) ==
    /\ ready'  = <<t>> \o ready
    /\ status' = [status EXCEPT ![t] = "READY"]
    /\ UNCHANGED <<cur, ticks>>

(* thread_yield(): back to the tail; the time slice is not refilled.        *)
ThreadYield ==
    /\ Dispatch([status EXCEPT ![cur] = "READY"], Append(ready, cur))
    /\ UNCHANGED ticks

(* Mutant: no test for 0, so the uint8_t wraps and nobody is preempted.     *)
TimerHandlerNoTest ==
    /\ ticks' = [ticks EXCEPT ![cur] = (@ + 255) % 256]
    /\ UNCHANGED <<status, ready, cur>>

(* The intr_timer_handler: a task with no slice left goes to the tail.      *)
TimerHandler ==
    IF ticks[cur] = 0
    THEN ScheduleRunning
    ELSE /\ ticks' = [ticks EXCEPT ![cur] = @ - 1]
         /\ UNCHANGED <<status, ready, cur>>

(* Any interrupt resumes a halted CPU after the hlt instruction of idle().  *)
WakeHlt == idlepc' = IF cur = Idle /\ idlepc = "halted" THEN "block" ELSE idlepc

(* bitmap_scan(&pid_pool.pid_bitmap, 1): the lowest clear bit.              *)
FirstFree(p) == p \notin pid_bitmap /\ \A o \in 1..(p - 1) : o \in pid_bitmap

(* allocate_pid, init_task and the two list_appends of thread_start         *)
(* (process_execute and sys_fork end the same way).  Without a free pid the *)
(* ASSERT of allocate_pid stops the machine.                                *)
NewTask(t) ==
    /\ \E p \in 1..MaxPid :
         /\ FirstFree(p)
         /\ pid' = [pid EXCEPT ![t] = p]
         /\ pid_bitmap' = pid_bitmap \union {p}
    /\ status' = [status EXCEPT ![t] = "READY"]
    /\ ready'  = Append(ready, t)
    /\ all'    = all \union {t}
    /\ ticks'  = [ticks EXCEPT ![t] = Prio[t]]
    /\ UNCHANGED cur

(* Mutant: thread_exit without release_pid.                                 *)
ReleaseTaskPidKept(t) ==
    /\ all' = all \ {t}
    /\ pid' = [pid EXCEPT ![t] = 0]
    /\ UNCHANGED pid_bitmap

(* thread_exit(t, _) without the final schedule(): off both lists, the pid  *)
(* given back, the PCB page freed unless it is main's.                      *)
ExitStatus(t) == IF t = Main THEN "OVER" ELSE "NULL"
ReleaseTask(t) ==
    /\ all' = all \ {t}
    /\ pid_bitmap' = pid_bitmap \ {pid[t]}
    /\ pid' = [pid EXCEPT ![t] = 0]
OffReady(t) == IF \E i \in 1..Len(ready) : ready[i] = t
               THEN SelectSeq(ready, LAMBDA u : u # t) ELSE ready

-----------------------------------------------------------------------------
(* The operations, with the conditions their callers establish.             *)

(* thread_start, process_execute and sys_fork, called by the current task.  *)
Start(t) ==
    /\ cur # Idle /\ status[t] = "NULL"
    /\ NewTask(t)
    /\ UNCHANGED idlepc

(* The current task blocks: on a semaphore, lock or ioqueue (BLOCKED), in   *)
(* sys_wait (WAITING), or for good in sys_exit (HANGING).                   *)
Block(s) ==
    /\ cur # Idle
    /\ s \in {"WAITING", "HANGING"} => cur \in Procs
    /\ s = "HANGING" => cur # InitProc
    /\ ThreadBlock(s)
    /\ UNCHANGED <<taskVars, idlepc>>

(* The current task wakes another one: sema_up, wakeup, sys_exit.           *)
Unblock(t) ==
    /\ cur # Idle /\ t # Idle
    /\ status[t] \in {"BLOCKED", "WAITING"}
    /\ ThreadUnblock(t)
    /\ UNCHANGED <<taskVars, idlepc>>

(* sys_exit as the scheduler sees it: wake the waiting parent p, then hang. *)
UnblockAndHang(p) ==
    /\ cur \in Procs \ {InitProc} /\ p # cur
    /\ status[p] = "WAITING"
    /\ Dispatch([status EXCEPT ![p] = "READY", ![cur] = "HANGING"], <<p>> \o ready)
    /\ UNCHANGED <<ticks, taskVars, idlepc>>

(* A device interrupt handler (keyboard, disk) wakes a task.                *)
IntrUnblock(t) ==
    /\ t # Idle /\ status[t] = "BLOCKED"
    /\ ThreadUnblock(t)
    /\ WakeHlt
    /\ UNCHANGED taskVars

(* An interrupt whose handler wakes nobody still ends the hlt.              *)
IntrNoWake ==
    /\ cur = Idle /\ idlepc = "halted"
    /\ WakeHlt
    /\ UNCHANGED <<status, ready, cur, ticks, taskVars>>

Yield ==
    /\ cur # Idle
    /\ ThreadYield
    /\ UNCHANGED <<taskVars, idlepc>>

TimerTick ==
    /\ TimerHandler
    /\ WakeHlt
    /\ UNCHANGED taskVars

(* sys_wait reaps a hanging child: thread_exit(t, false).                   *)
Reap(t) ==
    /\ cur \in Procs /\ status[t] = "HANGING"
    /\ ReleaseTask(t)
    /\ ready'  = OffReady(t)
    /\ status' = [status EXCEPT ![t] = ExitStatus(t)]
    /\ UNCHANGED <<cur, ticks, idlepc>>

(* The end of main(): thread_exit(running_thread(), true).                  *)
MainExit ==
    /\ cur = Main
    /\ ReleaseTask(Main)
    /\ Dispatch([status EXCEPT ![Main] = ExitStatus(Main)], OffReady(Main))
    /\ UNCHANGED <<ticks, idlepc>>

(* idle(): thread_block, and once resumed sti; hlt, which the next          *)
(* interrupt ends.  An interrupt may also come in between the two.          *)
IdleBlock ==
    /\ cur = Idle /\ idlepc = "block"
    /\ ThreadBlock("BLOCKED")
    /\ idlepc' = "hlt"
    /\ UNCHANGED taskVars

IdleHalt ==
    /\ cur = Idle /\ idlepc = "hlt"
    /\ idlepc' = "halted"
    /\ UNCHANGED <<status, ready, cur, ticks, taskVars>>

-----------------------------------------------------------------------------
(* Types; in particular the uint8_t ticks never goes below 0 nor above the  *)
(* priority it is refilled from.                                            *)
SchedTypeOK ==
    /\ status \in [Threads -> Statuses]
    /\ ready \in Seq(Threads)
    /\ all \subseteq Threads
    /\ cur \in Threads
    /\ ticks \in [Threads -> 0..255] /\ \A t \in Threads : ticks[t] <= Prio[t]
    /\ pid \in [Threads -> 0..MaxPid]
    /\ pid_bitmap \subseteq 1..MaxPid
    /\ idlepc \in {"block", "hlt", "halted"}

(* The ready list holds exactly the TASK_READY tasks, each once: what the   *)
(* ASSERT(!elem_find(&thread_ready_list, ...)) of schedule, thread_unblock, *)
(* thread_yield and thread_start rely on.                                   *)
ReadyListExact == ListExact(status, ready)

(* running_thread() is the one and only TASK_RUNNING task.                  *)
OneRunning == \A t \in Threads : status[t] = "RUNNING" <=> t = cur

(* schedule() may always fall back on idle: when no task is ready, idle is  *)
(* either on the CPU or TASK_BLOCKED, so the ASSERT in                      *)
(* thread_unblock(idle_thread) holds.                                       *)
IdleAvailable ==
    /\ ready = <<>> => status[Idle] \in {"RUNNING", "BLOCKED"}
    /\ status[Idle] \in {"RUNNING", "READY", "BLOCKED"}

Listed(t) == status[t] \notin {"NULL", "OVER"}

(* pid_pool agrees with thread_all_list through every creation, exit and    *)
(* reuse of a PCB: two tasks never share a pid, no pid leaks, and only      *)
(* listed tasks can be on the CPU or in a queue.                            *)
PidsExact ==
    /\ \A t, u \in all : pid[t] = pid[u] => t = u
    /\ pid_bitmap = {pid[t] : t \in all}
    /\ \A t \in Threads : t \in all <=> Listed(t)

(* The part of the state the scheduler proper works on, and what must hold  *)
(* of it: the inductive invariant of schedule() and its callers.            *)
CoreInv ==
    /\ status \in [Threads -> Statuses] /\ ready \in Seq(Threads) /\ cur \in Threads
    /\ ticks \in [Threads -> 0..255] /\ \A t \in Threads : ticks[t] <= Prio[t]
    /\ ReadyListExact /\ OneRunning /\ IdleAvailable
=============================================================================
