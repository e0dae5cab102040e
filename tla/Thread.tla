------------------------------- MODULE Thread -------------------------------
(***************************************************************************)
(* The open specification of the scheduler (thread/thread.c): any task may *)
(* call any operation of Sched that one of its callers in the kernel could *)
(* call, in any order.  The modules that model those callers are shown to  *)
(* implement this one.                                                     *)
(***************************************************************************)
EXTENDS Sched

SchedNext ==
    \/ \E t \in Threads : Start(t)
    \/ \E s \in {"BLOCKED", "WAITING", "HANGING"} : Block(s)
    \/ \E t \in Threads : Unblock(t)
    \/ \E p \in Threads : UnblockAndHang(p)
    \/ \E t \in Threads : IntrUnblock(t)
    \/ IntrNoWake
    \/ Yield
    \/ TimerTick
    \/ \E t \in Threads : Reap(t)
    \/ MainExit
    \/ IdleBlock
    \/ IdleHalt

SchedSpec == ThreadInit /\ [][SchedNext]_threadVars

(* The timer interrupts for ever, and idle() executes its instructions.     *)
SchedFairness == WF_threadVars(TimerTick) /\ WF_threadVars(IdleBlock) /\ WF_threadVars(IdleHalt)
SchedFairSpec == SchedSpec /\ SchedFairness

-----------------------------------------------------------------------------
(* No starvation, although thread_unblock queues at the front and a task    *)
(* that blocks keeps its rest of a slice: a ready task gets the CPU.        *)
NoStarvation == \A t \in Threads : status[t] = "READY" ~> cur = t
=============================================================================
