------------------------------ MODULE WaitExit ------------------------------
(***************************************************************************)
(* Processes: sys_fork (userprog/fork.c), sys_wait and sys_exit            *)
(* (userprog/wait_exit.c) and the init process (kernel/main.c), on the     *)
(* scheduler and the pid pool of Sched.                                    *)
(*                                                                         *)
(* System calls run with interrupts off, so sys_fork and sys_exit are      *)
(* atomic up to the thread_block that ends sys_exit, and sys_wait is one   *)
(* atomic turn of its while(1) after another.  A parent is linked to its   *)
(* children only by the pid they keep in parent_pid.                       *)
(***************************************************************************)
EXTENDS Sched

VARIABLES
    parent_pid,   \* task.parent_pid, -1 for none
    pc,           \* "user", "wait" (in sys_wait) or "io" (blocked on a device)
    forked        \* init has forked the shell and waits for orphans

procVars == <<parent_pid, pc, forked>>
vars     == <<threadVars, procVars>>

InitPid == 1
IntrOn  == pc[cur] # "wait"
GoTo(p) == pc' = [pc EXCEPT ![cur] = p]

Children(p) == {c \in all : parent_pid[c] = pid[p]}
(* pid2thread(parent_pid)                                                   *)
ParentOf(c) == CHOOSE p \in all : pid[p] = parent_pid[c]

Init ==
    /\ ThreadInit
    /\ parent_pid  = [t \in Threads |-> -1]
    /\ pc          = [t \in Threads |-> "user"]
    /\ forked      = FALSE

-----------------------------------------------------------------------------
(* sys_fork: copy_process and the two lists.  init() forks once.            *)
Fork(t) ==
    /\ cur \in Procs /\ pc[cur] = "user"
    /\ cur = InitProc => ~forked
    /\ Start(t)
    /\ parent_pid'  = [parent_pid EXCEPT ![t] = pid[cur]]
    /\ forked' = (forked \/ cur = InitProc)
    /\ UNCHANGED pc

(* The wait system call.  init() calls it again and again once it has       *)
(* forked the shell.                                                        *)
WaitCall ==
    /\ cur \in Procs /\ pc[cur] = "user"
    /\ cur = InitProc => forked
    /\ GoTo("wait")
    /\ UNCHANGED <<threadVars, parent_pid, forked>>

(* A turn of sys_wait that finds a hanging child: thread_exit gives its pid *)
(* and PCB back.  Which child's exit status is returned is which is reaped. *)
WaitReap(c) ==
    /\ c \in Children(cur) /\ status[c] = "HANGING"
    /\ Reap(c)
    /\ parent_pid'  = [parent_pid EXCEPT ![c] = -1]
    /\ GoTo("user")

(* Mutant: sys_wait blocks without looking for a hanging child.             *)
WaitSleepHastily ==
    /\ Children(cur) # {}
    /\ Block("WAITING")
    /\ UNCHANGED <<pc, parent_pid>>

(* A turn that finds no hanging child: return -1 without children, block    *)
(* until one of them exits otherwise.                                       *)
NoneHanging == \A c \in Children(cur) : status[c] # "HANGING"
WaitNoChild ==
    /\ Children(cur) = {}
    /\ GoTo("user")
    /\ UNCHANGED <<threadVars, parent_pid>>
WaitSleep ==
    /\ Children(cur) # {} /\ NoneHanging
    /\ Block("WAITING")
    /\ UNCHANGED <<pc, parent_pid>>

WaitTurn ==
    /\ pc[cur] = "wait"
    /\ (\E c \in Threads : WaitReap(c)) \/ WaitNoChild \/ WaitSleep
    /\ UNCHANGED forked

(* Mutants: the children are not passed on; the parent is not woken.        *)
AdoptedNobody == parent_pid
ExitSilently ==
    /\ cur \in Procs \ {InitProc} /\ pc[cur] = "user"
    /\ Block("HANGING")
    /\ UNCHANGED procVars

(* sys_exit: the children go to init, the parent is woken if it waits, and  *)
(* the process hangs until it is reaped.                                    *)
Adopted == [t \in Threads |-> IF t \in all /\ parent_pid[t] = pid[cur]
                              THEN InitPid ELSE parent_pid[t]]
Exit ==
    /\ cur \in Procs \ {InitProc} /\ pc[cur] = "user"
    /\ parent_pid'  = Adopted
    /\ \/ status[ParentOf(cur)] = "WAITING" /\ UnblockAndHang(ParentOf(cur))
       \/ status[ParentOf(cur)] # "WAITING" /\ Block("HANGING")
    /\ UNCHANGED <<pc, forked>>

(* A process (init() does no I/O) sleeps on a device until its interrupt.   *)
Sleep ==
    /\ cur \in Procs \ {InitProc} /\ pc[cur] = "user"
    /\ Block("BLOCKED")
    /\ GoTo("io")
    /\ UNCHANGED <<parent_pid, forked>>

DeviceIntr(t) ==
    /\ IntrOn /\ pc[t] = "io"
    /\ IntrUnblock(t)
    /\ pc' = [pc EXCEPT ![t] = "user"]
    /\ UNCHANGED <<parent_pid, forked>>

SchedulerStep ==
    /\ \/ IntrOn /\ TimerTick
       \/ MainExit
       \/ IdleBlock
       \/ IdleHalt
    /\ UNCHANGED procVars

Next ==
    \/ \E t \in Threads : Fork(t)
    \/ WaitCall
    \/ WaitTurn
    \/ Exit
    \/ Sleep
    \/ \E t \in Threads : DeviceIntr(t)
    \/ SchedulerStep

Spec == Init /\ [][Next]_vars

(* The timer interrupts for ever; a process that is given the CPU again and *)
(* again finishes its system call; init goes on calling wait.               *)
Fairness ==
    /\ WF_vars(SchedulerStep /\ TimerTick)
    /\ WF_vars(SchedulerStep /\ IdleBlock)
    /\ \A t \in Procs : SF_vars(cur = t /\ WaitTurn)
    /\ SF_vars(cur = InitProc /\ WaitCall)
FairSpec == Spec /\ Fairness

-----------------------------------------------------------------------------
UserProcs == all \cap (Procs \ {InitProc})

(* The processes form a tree with init at its root, through every exit,     *)
(* adoption and reuse of a pid, although parents are linked by number only: *)
(* each has a parent that pid2thread finds (sys_exit dereferences it) and   *)
(* that has not exited itself, and no set of them keeps itself alive        *)
(* without init, which could then never reap it.                            *)
RootedAtInit ==
    /\ \A c \in UserProcs :
          \E p \in all : /\ pid[p] = parent_pid[c] /\ p # c
                         /\ p \in Procs /\ status[p] # "HANGING"
    /\ \A S \in (SUBSET UserProcs) \ {{}} : \E c \in S : ParentOf(c) \notin S

(* No exit is missed: a parent other than init is not asleep in sys_wait    *)
(* while a child of its hangs, however the child's exit and the parent's    *)
(* wait are interleaved.                                                    *)
NoMissedExit ==
    \A p \in Procs \ {InitProc} :
      p \in all /\ status[p] = "WAITING" => \A c \in Children(p) : status[c] # "HANGING"

(* A hanging child of a process that is in sys_wait (init excepted) is      *)
(* reaped.                                                                  *)
WaiterReaps ==
    \A p \in Procs \ {InitProc} :
      (pc[p] = "wait" /\ \E c \in Children(p) : status[c] = "HANGING") ~> pc[p] # "wait"

(* init keeps reaping the orphans: it is not asleep in sys_wait while one   *)
(* of its children, adopted ones included, hangs.                           *)
InitMissesNoOrphan ==
    status[InitProc] = "WAITING" => \A c \in Children(InitProc) : status[c] # "HANGING"
=============================================================================
