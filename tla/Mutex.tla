-------------------------------- MODULE Mutex -------------------------------
(***************************************************************************)
(* What lock_acquire and lock_release promise their callers, without the   *)
(* semaphore, the queues and the scheduler: a lock has at most one owner,  *)
(* the owner may re-enter it, and it is free again only after as many      *)
(* releases as acquisitions, all of them by the owner.                     *)
(***************************************************************************)
EXTENDS Integers

CONSTANTS Tasks, Locks, Null

VARIABLES owner, depth
vars == <<owner, depth>>

Init ==
    /\ owner = [l \in Locks |-> Null]
    /\ depth = [l \in Locks |-> 0]

Acquire(t, l) ==
    /\ owner[l] = Null
    /\ owner' = [owner EXCEPT ![l] = t]
    /\ depth' = [depth EXCEPT ![l] = 1]

Reenter(t, l) ==
    /\ owner[l] = t
    /\ depth' = [depth EXCEPT ![l] = @ + 1]
    /\ UNCHANGED owner

Leave(t, l) ==
    /\ owner[l] = t /\ depth[l] > 1
    /\ depth' = [depth EXCEPT ![l] = @ - 1]
    /\ UNCHANGED owner

Release(t, l) ==
    /\ owner[l] = t /\ depth[l] = 1
    /\ owner' = [owner EXCEPT ![l] = Null]
    /\ depth' = [depth EXCEPT ![l] = 0]

Next == \E t \in Tasks, l \in Locks :
            Acquire(t, l) \/ Reenter(t, l) \/ Leave(t, l) \/ Release(t, l)

Spec == Init /\ [][Next]_vars
=============================================================================
