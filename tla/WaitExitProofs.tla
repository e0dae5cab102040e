--------------------------- MODULE WaitExitProofs ---------------------------
(***************************************************************************)
(* fork, wait and exit, proved for any number of processes and any size of *)
(* the pid pool: the processes stay a tree with init at its root, and no   *)
(* parent but init misses the exit of a child.                             *)
(***************************************************************************)
EXTENDS WaitExit, SchedProofs

(* init lives for ever with pid 1; only user processes have a parent, and a *)
(* PCB that is free or belongs to a kernel thread remembers none.           *)
ParentsExact ==
    /\ InitProc \in all /\ pid[InitProc] = InitPid /\ status[InitProc] # "HANGING"
    /\ status[Main] # "NULL"
    /\ parent_pid \in [Threads -> {-1} \union 1..MaxPid]
    /\ \A t \in Threads \ UserProcs : parent_pid[t] = -1

(* The two halves of RootedAtInit, without pid2thread.                      *)
HasParents ==
    \A c \in UserProcs :
      \E p \in all : /\ pid[p] = parent_pid[c] /\ p # c
                     /\ p \in Procs /\ status[p] # "HANGING"
NoCycle ==
    \A S \in (SUBSET UserProcs) \ {{}} : \E c \in S : \A p \in S : pid[p] # parent_pid[c]

(* The inductive invariant: the properties are inductive together with the  *)
(* scheduler's invariant, which makes a pid name one task.                  *)
ProcInv == SchedInv /\ ParentsExact /\ HasParents /\ NoCycle /\ NoMissedExit

(* pid2thread finds the one parent there is.                                *)
LEMMA RootedHalves == PidsExact /\ HasParents /\ NoCycle => RootedAtInit
<1> SUFFICES ASSUME PidsExact, HasParents, NoCycle
             PROVE  \A S \in (SUBSET UserProcs) \ {{}} : \E c \in S : ParentOf(c) \notin S
  BY DEF RootedAtInit, HasParents
<1>1. ASSUME NEW S \in (SUBSET UserProcs) \ {{}} PROVE \E c \in S : ParentOf(c) \notin S
  <2>1. PICK c \in S : \A p \in S : pid[p] # parent_pid[c]
    BY DEF NoCycle
  <2>2. \E p \in all : pid[p] = parent_pid[c]
    BY DEF HasParents
  <2>3. pid[ParentOf(c)] = parent_pid[c]
    BY <2>2 DEF ParentOf
  <2> QED  BY <2>1, <2>3
<1> QED  BY <1>1

(* The parent of a user process, as sys_exit finds it.                      *)
LEMMA TheParent ==
  ASSUME ProcInv, NEW c \in UserProcs
  PROVE  /\ ParentOf(c) \in all /\ pid[ParentOf(c)] = parent_pid[c]
         /\ \A p \in all : pid[p] = parent_pid[c] => p = ParentOf(c)
<1>1. \E p \in all : pid[p] = parent_pid[c]
  BY DEF ProcInv, HasParents
<1>2. ParentOf(c) \in all /\ pid[ParentOf(c)] = parent_pid[c]
  BY <1>1 DEF ParentOf
<1> QED  BY <1>2 DEF ProcInv, SchedInv, PidsExact

(* The initial state satisfies the invariant: there is no process but init. *)
LEMMA InitProcs == Init => ProcInv
<1> SUFFICES ASSUME Init PROVE ProcInv
  OBVIOUS
<1> USE TasksAssumption
<1>1. SchedInv
  BY InitSched DEF Init
<1>2. UserProcs = {}
  BY DEF Init, ThreadInit, UserProcs, Procs
<1>3. ParentsExact
  BY <1>2 DEF Init, ThreadInit, ParentsExact, InitPid
<1>4. HasParents /\ NoCycle
  BY <1>2 DEF HasParents, NoCycle
<1>5. NoMissedExit
  BY DEF Init, ThreadInit, NoMissedExit
<1> QED  BY <1>1, <1>3, <1>4, <1>5 DEF ProcInv

(* A step that creates, ends and adopts no process, and after which a       *)
(* process waits only if it did or has no hanging child.                    *)
LEMMA TreeKept ==
  ASSUME ProcInv, SchedInv', parent_pid' = parent_pid,
         all' \subseteq all, all \cap Procs \subseteq all',
         \A t \in Procs : pid'[t] = pid[t],
         \A t \in Threads : status'[t] = "HANGING" <=> status[t] = "HANGING",
         status'[Main] # "NULL",
         \A t \in Procs \ {InitProc} : status'[t] = "WAITING" =>
            status[t] = "WAITING" \/ \A c \in Children(t) : status[c] # "HANGING"
  PROVE  ProcInv'
<1> USE TasksAssumption DEF Procs
<1>0. all \subseteq Threads /\ all' \subseteq Threads
  BY DEF ProcInv, SchedInv, TaskTypes
<1>1. UserProcs' = UserProcs
  BY DEF UserProcs
<1>2. ParentsExact'
  BY <1>1 DEF ProcInv, ParentsExact
<1>3. HasParents'
  <2>1. ASSUME NEW c \in UserProcs'
        PROVE  \E p \in all' : /\ pid'[p] = parent_pid'[c] /\ p # c
                               /\ p \in Procs /\ status'[p] # "HANGING"
    <3>1. PICK p \in all : pid[p] = parent_pid[c] /\ p # c /\ p \in Procs /\ status[p] # "HANGING"
      BY <1>1 DEF ProcInv, HasParents
    <3> QED  BY <3>1
  <2> QED  BY <2>1 DEF HasParents
<1>4. NoCycle'
  <2>1. \A p \in UserProcs : pid'[p] = pid[p]
    BY DEF UserProcs
  <2> QED  BY <1>1, <2>1 DEF ProcInv, NoCycle
<1>5. NoMissedExit'
  <2>1. \A p \in Procs : Children(p)' \subseteq Children(p)
    BY DEF Children
  <2> QED  BY <1>0, <2>1 DEF ProcInv, NoMissedExit, Children
<1> QED  BY <1>2, <1>3, <1>4, <1>5 DEF ProcInv

(* sys_fork adds a leaf below the caller; its pid is nobody's parent_pid.   *)
LEMMA ForkProcs ==
  ASSUME ProcInv, NEW t \in Threads, Fork(t)
  PROVE  ProcInv'
<1> USE TasksAssumption
<1>0. SchedInv'
  BY StartSched DEF Fork, ProcInv
<1>1. /\ status[t] = "NULL" /\ t # Idle /\ t # Main /\ cur \in Procs /\ cur' = cur
      /\ status' = [status EXCEPT ![t] = "READY"] /\ status \in [Threads -> Statuses]
      /\ status[cur] = "RUNNING" /\ cur \in Threads
      /\ all' = all \union {t} /\ all \subseteq Threads
      /\ parent_pid' = [parent_pid EXCEPT ![t] = pid[cur]]
      /\ parent_pid \in [Threads -> {-1} \union 1..MaxPid]
      /\ pid \in [Threads -> 0..MaxPid]
  BY StartCore DEF Fork, ProcInv, ParentsExact, SchedInv, TaskTypes, CoreInv, OneRunning, Start, NewTask
<1>2. PICK n \in 1..MaxPid : n \notin pid_bitmap /\ pid' = [pid EXCEPT ![t] = n]
  BY DEF Fork, Start, NewTask, FirstFree
<1>3. t \notin all /\ cur \in all /\ t # InitProc /\ t # cur
  BY <1>1 DEF ProcInv, SchedInv, PidsExact, Listed, ParentsExact
<1>4. /\ \A u \in all : pid'[u] = pid[u] /\ pid[u] \in pid_bitmap /\ pid[u] \in 1..MaxPid
      /\ pid'[t] = n
  BY <1>1, <1>2, <1>3 DEF ProcInv, SchedInv, PidsExact, TaskTypes
<1>5. UserProcs' = UserProcs \union {t} /\ t \notin UserProcs /\ UserProcs \subseteq all
  BY <1>1, <1>3 DEF UserProcs, Procs
<1>6. parent_pid'[t] = pid[cur] /\ \A u \in Threads \ {t} : parent_pid'[u] = parent_pid[u]
  BY <1>1
<1>7. ParentsExact'
  <2>1. \A u \in Threads \ UserProcs' : parent_pid'[u] = -1
    BY <1>5, <1>6 DEF ProcInv, ParentsExact
  <2>2. parent_pid' \in [Threads -> {-1} \union 1..MaxPid]
    BY <1>1, <1>3, <1>4
  <2>3. InitProc \in all' /\ pid'[InitProc] = InitPid /\ status'[InitProc] # "HANGING"
    BY <1>1, <1>3, <1>4 DEF ProcInv, ParentsExact
  <2>4. status'[Main] # "NULL"
    BY <1>1 DEF ProcInv, ParentsExact
  <2> QED  BY <2>1, <2>2, <2>3, <2>4 DEF ParentsExact
<1>8. \A c \in UserProcs : parent_pid'[c] = parent_pid[c] /\ parent_pid[c] \in pid_bitmap
  BY <1>1, <1>4, <1>5, <1>6 DEF ProcInv, HasParents
<1>9. HasParents'
  <2>1. ASSUME NEW c \in UserProcs'
        PROVE  \E p \in all' : /\ pid'[p] = parent_pid'[c] /\ p # c
                               /\ p \in Procs /\ status'[p] # "HANGING"
    <3>1. CASE c = t
      BY <1>1, <1>3, <1>4, <1>6, <3>1
    <3>2. CASE c # t
      <4>1. PICK p \in all : pid[p] = parent_pid[c] /\ p # c /\ p \in Procs /\ status[p] # "HANGING"
        BY <1>5, <3>2 DEF ProcInv, HasParents
      <4>2. p # t /\ pid'[p] = pid[p] /\ parent_pid'[c] = parent_pid[c]
        BY <1>3, <1>4, <1>5, <1>8, <3>2
      <4> QED  BY <1>1, <4>1, <4>2
    <3> QED  BY <3>1, <3>2
  <2> QED  BY <2>1 DEF HasParents
<1>10. NoCycle'
  <2>1. ASSUME NEW S \in (SUBSET UserProcs') \ {{}}
        PROVE  \E c \in S : \A p \in S : pid'[p] # parent_pid'[c]
    <3>1. CASE S \ {t} = {}
      <4>1. S = {t}
        BY <3>1
      <4>2. pid'[t] # parent_pid'[t]
        BY <1>2, <1>3, <1>4, <1>6
      <4> QED  BY <4>1, <4>2
    <3>2. CASE S \ {t} # {}
      <4>1. S \ {t} \in (SUBSET UserProcs) \ {{}}
        BY <1>5, <3>2
      <4>2. PICK c \in S \ {t} : \A p \in S \ {t} : pid[p] # parent_pid[c]
        BY <4>1 DEF ProcInv, NoCycle
      <4>3. c \in UserProcs /\ \A p \in S \ {t} : pid'[p] = pid[p]
        BY <1>4, <1>5, <4>1, <4>2
      <4>4. pid'[t] # parent_pid'[c] /\ parent_pid'[c] = parent_pid[c]
        BY <1>2, <1>4, <1>8, <4>3
      <4> QED  BY <4>2, <4>3, <4>4
    <3> QED  BY <3>1, <3>2
  <2> QED  BY <2>1 DEF NoCycle
<1>11. NoMissedExit'
  <2>1. ASSUME NEW p \in Procs \ {InitProc}, p \in all', status'[p] = "WAITING",
               NEW c \in Children(p)'
        PROVE  status'[c] # "HANGING"
    <3>1. p # t /\ p \in all /\ status[p] = "WAITING" /\ pid'[p] = pid[p]
      BY <1>1, <1>4, <2>1
    <3>2. CASE c = t
      BY <1>1, <3>2
    <3>3. CASE c # t
      <4>1. c \in all /\ c \in Threads /\ parent_pid'[c] = pid'[p]
        BY <1>1, <2>1, <3>3 DEF Children
      <4>2. c \in Children(p)
        BY <1>6, <3>1, <3>3, <4>1 DEF Children
      <4>3. status[c] # "HANGING"
        BY <3>1, <4>2 DEF ProcInv, NoMissedExit
      <4> QED  BY <1>1, <3>3, <4>1, <4>3
    <3> QED  BY <3>2, <3>3
  <2> QED  BY <2>1 DEF NoMissedExit
<1> QED  BY <1>0, <1>7, <1>9, <1>10, <1>11 DEF ProcInv

(* sys_wait reaps a hanging child, which is nobody's parent any more.       *)
LEMMA ReapProcs ==
  ASSUME ProcInv, NEW r \in Threads, WaitReap(r)
  PROVE  ProcInv'
<1> USE TasksAssumption
<1>1. /\ SchedInv' /\ r \in all /\ all' = all \ {r}
      /\ \A u \in Threads \ {r} : status'[u] = status[u] /\ pid'[u] = pid[u]
      /\ status[r] = "HANGING" /\ parent_pid[r] = pid[cur] /\ cur \in Procs
      /\ parent_pid' = [parent_pid EXCEPT ![r] = -1]
  BY ReapSched DEF WaitReap, ProcInv, Children, Reap
<1>2. /\ parent_pid \in [Threads -> {-1} \union 1..MaxPid] /\ all \subseteq Threads
      /\ pid[cur] # -1
  BY DEF ProcInv, SchedInv, TaskTypes, ParentsExact, CoreInv
<1>3. /\ r \in UserProcs /\ UserProcs' = UserProcs \ {r} /\ UserProcs \subseteq all
      /\ r # InitProc /\ r # Main
  BY <1>1, <1>2 DEF ProcInv, ParentsExact, UserProcs, Procs
<1>4. parent_pid'[r] = -1 /\ \A u \in Threads \ {r} : parent_pid'[u] = parent_pid[u]
  BY <1>1, <1>2
<1>5. ParentsExact'
  <2>1. \A u \in Threads \ UserProcs' : parent_pid'[u] = -1
    BY <1>3, <1>4 DEF ProcInv, ParentsExact
  <2>2. parent_pid' \in [Threads -> {-1} \union 1..MaxPid]
    BY <1>1, <1>2
  <2> QED  BY <1>1, <1>3, <2>1, <2>2 DEF ProcInv, ParentsExact
<1>6. HasParents'
  <2>1. ASSUME NEW c \in UserProcs'
        PROVE  \E p \in all' : /\ pid'[p] = parent_pid'[c] /\ p # c
                               /\ p \in Procs /\ status'[p] # "HANGING"
    <3>1. PICK p \in all : pid[p] = parent_pid[c] /\ p # c /\ p \in Procs /\ status[p] # "HANGING"
      BY <1>3 DEF ProcInv, HasParents
    <3>2. p # r /\ p \in Threads /\ c # r /\ c \in Threads
      BY <1>1, <1>2, <1>3, <3>1
    <3> QED  BY <1>1, <1>4, <3>1, <3>2
  <2> QED  BY <2>1 DEF HasParents
<1>7. NoCycle'
  <2>1. \A u \in UserProcs' : pid'[u] = pid[u] /\ parent_pid'[u] = parent_pid[u]
    BY <1>1, <1>2, <1>3, <1>4
  <2>2. UserProcs' \subseteq UserProcs
    BY <1>3
  <2>3. ASSUME NEW S \in (SUBSET UserProcs') \ {{}}
        PROVE  \E c \in S : \A p \in S : pid'[p] # parent_pid'[c]
    <3>1. PICK c \in S : \A p \in S : pid[p] # parent_pid[c]
      BY <2>2 DEF ProcInv, NoCycle
    <3> QED  BY <2>1, <3>1
  <2> QED  BY <2>3 DEF NoCycle
<1>8. NoMissedExit'
  <2>1. ASSUME NEW p \in Procs \ {InitProc}, p \in all', status'[p] = "WAITING",
               NEW c \in Children(p)'
        PROVE  status'[c] # "HANGING"
    <3>1. /\ p # r /\ p \in all /\ p \in Threads /\ c # r /\ c \in all /\ c \in Threads
          /\ parent_pid'[c] = pid'[p]
      BY <1>1, <1>2, <2>1 DEF Children
    <3>2. c \in Children(p) /\ status[p] = "WAITING"
      BY <1>1, <1>4, <2>1, <3>1 DEF Children
    <3> QED  BY <1>1, <3>1, <3>2 DEF ProcInv, NoMissedExit
  <2> QED  BY <2>1 DEF NoMissedExit
<1> QED  BY <1>1, <1>5, <1>6, <1>7, <1>8 DEF ProcInv

(* sys_exit: the children go to init, and the parent is awake afterwards.   *)
LEMMA ExitProcs ==
  ASSUME ProcInv, Exit
  PROVE  ProcInv'
<1> USE TasksAssumption
<1>1. PICK e \in Threads : e = cur
  BY DEF ProcInv, SchedInv, CoreInv
<1>2. /\ e \in UserProcs /\ e \in all /\ all \subseteq Threads /\ status[e] = "RUNNING"
      /\ e \in Procs \ {InitProc} /\ UserProcs \subseteq all
  BY <1>1 DEF Exit, UserProcs, ProcInv, SchedInv, CoreInv, OneRunning, PidsExact, Listed, TaskTypes
<1>3. PICK o \in all : /\ o = ParentOf(e) /\ pid[o] = parent_pid[e]
                       /\ \A p \in all : pid[p] = parent_pid[e] => p = o
  BY <1>2, TheParent
<1>4. o # e /\ o \in Procs /\ o \in Threads /\ status[o] # "HANGING"
  BY <1>2, <1>3 DEF ProcInv, HasParents
<1>5. /\ SchedInv' /\ UNCHANGED <<all, pid>> /\ status'[e] = "HANGING" /\ status'[o] # "WAITING"
      /\ \A t \in Threads \ {e, Idle} :
            /\ status'[t] = "HANGING" <=> status[t] = "HANGING"
            /\ status'[t] = "WAITING" => status[t] = "WAITING"
  <2>1. CASE status[o] = "WAITING"
    <3>1. UnblockAndHang(o)
      BY <1>1, <1>3, <2>1 DEF Exit
    <3>2. /\ SchedInv' /\ status'[e] = "HANGING" /\ status'[o] \in Awake
          /\ \A t \in Threads \ {o, e, Idle} :
                status'[t] = status[t] \/ (status[t] \in Awake /\ status'[t] \in Awake)
      BY <1>1, <1>4, <3>1, HangSched DEF ProcInv
    <3>3. UNCHANGED <<all, pid>>
      BY <3>1 DEF UnblockAndHang, taskVars
    <3> QED  BY <1>4, <2>1, <3>2, <3>3 DEF Awake
  <2>2. CASE status[o] # "WAITING"
    <3>1. Block("HANGING")
      BY <1>1, <1>3, <2>2 DEF Exit
    <3>2. /\ SchedInv' /\ status'[e] = "HANGING"
          /\ \A t \in Threads \ {e, Idle} :
                status'[t] = status[t] \/ (status[t] \in Awake /\ status'[t] \in Awake)
      BY <1>1, <3>1, BlockSched DEF ProcInv
    <3>3. UNCHANGED <<all, pid>> /\ o # Idle
      BY <1>4, <3>1 DEF Block, taskVars, Procs
    <3> QED  BY <1>4, <2>2, <3>2, <3>3 DEF Awake
  <2> QED  BY <2>1, <2>2
<1>6. \A t \in Threads : parent_pid'[t] = IF t \in all /\ parent_pid[t] = pid[e]
                                         THEN InitPid ELSE parent_pid[t]
  BY <1>1 DEF Exit, Adopted
<1>7. UserProcs' = UserProcs
  BY <1>5 DEF UserProcs
<1>8. pid[e] \in 1..MaxPid /\ pid[e] # InitPid /\ pid[InitProc] = InitPid /\ InitPid \in 1..MaxPid
      /\ \A u \in all : pid[u] = pid[e] => u = e
  BY <1>2, MaxPidAssumption DEF ProcInv, SchedInv, PidsExact, TaskTypes, ParentsExact, InitPid
<1>9. ParentsExact'
  <2>1. \A u \in Threads \ UserProcs' : parent_pid'[u] = -1
    BY <1>6, <1>7, <1>8 DEF ProcInv, ParentsExact
  <2>2. parent_pid' \in [Threads -> {-1} \union 1..MaxPid]
    <3>1. parent_pid' = [t \in Threads |-> parent_pid'[t]]
      BY DEF Exit, Adopted
    <3>2. \A t \in Threads : parent_pid'[t] \in {-1} \union 1..MaxPid
      BY <1>6, <1>8 DEF ProcInv, ParentsExact
    <3> QED  BY <3>1, <3>2
  <2>3. status'[InitProc] # "HANGING"
    BY <1>2, <1>5 DEF ProcInv, ParentsExact
  <2>4. status'[Main] # "NULL"
    <3>1. UNCHANGED all /\ (Main \in all => Listed(Main)') /\ (Main \in all <=> Listed(Main))
      BY <1>5 DEF ProcInv, SchedInv, PidsExact
    <3>2. CASE Main \in all
      BY <3>1, <3>2 DEF Listed
    <3>3. CASE Main \notin all
      <4>1. status[Main] = "OVER"
        BY <3>1, <3>3 DEF Listed, ProcInv, ParentsExact
      <4>2. status'[Main] = "OVER"
        <5>1. CASE status[o] = "WAITING"
          <6>1. UnblockAndHang(o)
            BY <1>1, <1>3, <5>1 DEF Exit
          <6> QED  BY <1>1, <1>2, <1>4, <4>1, <6>1, HangSched DEF ProcInv, Awake, Procs
        <5>2. CASE status[o] # "WAITING"
          <6>1. Block("HANGING")
            BY <1>1, <1>3, <5>2 DEF Exit
          <6> QED  BY <1>1, <1>2, <4>1, <6>1, BlockSched DEF ProcInv, Awake, Procs
        <5> QED  BY <5>1, <5>2
      <4> QED  BY <4>2
    <3> QED  BY <3>2, <3>3
  <2> QED  BY <1>5, <2>1, <2>2, <2>3, <2>4 DEF ProcInv, ParentsExact
<1>10. HasParents'
  <2>1. ASSUME NEW c \in UserProcs'
        PROVE  \E p \in all' : /\ pid'[p] = parent_pid'[c] /\ p # c
                               /\ p \in Procs /\ status'[p] # "HANGING"
    <3>0. c \in UserProcs /\ c \in Threads /\ c \in all /\ c # InitProc
      BY <1>2, <1>7 DEF UserProcs
    <3>1. CASE parent_pid[c] = pid[e]
      <4>1. parent_pid'[c] = InitPid
        BY <1>6, <3>0, <3>1
      <4>2. InitProc \in all' /\ pid'[InitProc] = InitPid /\ status'[InitProc] # "HANGING"
        BY <1>9 DEF ParentsExact
      <4> QED  BY <3>0, <4>1, <4>2 DEF Procs
    <3>2. CASE parent_pid[c] # pid[e]
      <4>1. PICK p \in all : pid[p] = parent_pid[c] /\ p # c /\ p \in Procs /\ status[p] # "HANGING"
        BY <3>0 DEF ProcInv, HasParents
      <4>2. p # e /\ p # Idle /\ p \in Threads
        BY <1>2, <3>2, <4>1 DEF Procs
      <4>3. parent_pid'[c] = parent_pid[c] /\ status'[p] # "HANGING"
        BY <1>5, <1>6, <3>0, <3>2, <4>1, <4>2
      <4> QED  BY <1>5, <4>1, <4>3
    <3> QED  BY <3>1, <3>2
  <2> QED  BY <2>1 DEF HasParents
<1>11. NoCycle'
  <2>1. ASSUME NEW S \in (SUBSET UserProcs') \ {{}}
        PROVE  \E c \in S : \A p \in S : pid'[p] # parent_pid'[c]
    <3>1. PICK c \in S : \A p \in S : pid[p] # parent_pid[c]
      BY <1>7 DEF ProcInv, NoCycle
    <3>2. c \in Threads /\ c \in all /\ S \subseteq UserProcs
      BY <1>2, <1>7
    <3>3. CASE parent_pid[c] = pid[e]
      <4>1. parent_pid'[c] = InitPid
        BY <1>6, <3>2, <3>3
      <4>2. \A p \in S : p # InitProc /\ p \in all
        BY <1>2, <3>2 DEF UserProcs
      <4>3. \A p \in S : pid[p] # InitPid
        BY <1>8, <4>2 DEF ProcInv, ParentsExact, SchedInv, PidsExact
      <4> QED  BY <1>5, <4>1, <4>3
    <3>4. CASE parent_pid[c] # pid[e]
      BY <1>5, <1>6, <3>1, <3>2, <3>4
    <3> QED  BY <3>3, <3>4
  <2> QED  BY <2>1 DEF NoCycle
<1>12. NoMissedExit'
  <2>1. ASSUME NEW p \in Procs \ {InitProc}, p \in all', status'[p] = "WAITING",
               NEW c \in Children(p)'
        PROVE  status'[c] # "HANGING"
    <3>1. /\ p \in all /\ p \in Threads /\ p # Idle /\ p # e /\ p # o /\ status[p] = "WAITING"
      BY <1>2, <1>5, <2>1 DEF Procs
    <3>2. c \in all /\ c \in Threads /\ parent_pid'[c] = pid[p]
      BY <1>2, <1>5, <2>1 DEF Children
    <3>3. pid[p] # InitPid
      BY <3>1 DEF ProcInv, ParentsExact, SchedInv, PidsExact
    <3>4. parent_pid[c] = pid[p]
      BY <1>6, <3>2, <3>3
    <3>5. c # e
      BY <1>3, <3>1, <3>4
    <3>6. status[c] # "HANGING"
      BY <3>1, <3>2, <3>4 DEF ProcInv, NoMissedExit, Children
    <3>7. c = Idle => status'[c] # "HANGING"
      BY <1>5 DEF SchedInv, CoreInv, IdleAvailable
    <3> QED  BY <1>5, <3>2, <3>5, <3>6, <3>7
  <2> QED  BY <2>1 DEF NoMissedExit
<1> QED  BY <1>5, <1>9, <1>10, <1>11, <1>12 DEF ProcInv

(* The steps that leave the tree alone: thread_block in sys_wait and on a   *)
(* device, the device's interrupt, the timer, idle and main's exit.         *)
LEMMA OtherProcs ==
  ASSUME ProcInv,
         \/ WaitCall \/ Sleep \/ SchedulerStep \/ UNCHANGED vars
         \/ \E t \in Threads : DeviceIntr(t)
         \/ pc[cur] = "wait" /\ (WaitNoChild \/ WaitSleep)
  PROVE  ProcInv'
<1> USE TasksAssumption
<1>0. /\ SchedInv /\ cur \in Threads /\ all \subseteq Threads /\ status[cur] = "RUNNING"
      /\ status[Idle] # "HANGING" /\ status[Main] # "NULL" /\ status \in [Threads -> Statuses]
  BY DEF ProcInv, SchedInv, CoreInv, OneRunning, TaskTypes, IdleAvailable, ParentsExact
<1>1. CASE WaitCall \/ WaitNoChild \/ UNCHANGED vars
  <2>1. UNCHANGED <<threadVars, parent_pid>>
    BY <1>1 DEF WaitCall, WaitNoChild, vars, procVars
  <2>2. SchedInv'
    BY <1>0, <2>1 DEF threadVars, SchedInv, CoreInv, TaskTypes, PidsExact, Listed, ReadyListExact,
                      ListExact, OneRunning, IdleAvailable
  <2> QED  BY <1>0, <2>1, <2>2, TreeKept DEF threadVars
<1>2. ASSUME NEW s \in {"BLOCKED", "WAITING"}, Block(s), parent_pid' = parent_pid,
             s = "WAITING" => \A c \in Children(cur) : status[c] # "HANGING"
      PROVE  ProcInv'
  <2>1. /\ SchedInv' /\ status'[cur] = s
        /\ \A t \in Threads \ {cur, Idle} :
              status'[t] = status[t] \/ (status[t] \in Awake /\ status'[t] \in Awake)
    BY <1>0, <1>2, BlockSched
  <2>2. UNCHANGED <<all, pid>> /\ status'[Idle] # "HANGING"
    BY <1>2, <2>1 DEF Block, taskVars, SchedInv, CoreInv, IdleAvailable
  <2>3. \A t \in Threads : status'[t] = "HANGING" <=> status[t] = "HANGING"
    BY <1>0, <2>1, <2>2 DEF Awake
  <2>4. \A t \in Procs \ {InitProc} : status'[t] = "WAITING" =>
            status[t] = "WAITING" \/ \A c \in Children(t) : status[c] # "HANGING"
    BY <1>2, <2>1 DEF Awake, Procs
  <2>5. status'[Main] # "NULL"
    BY <1>0, <1>2, <2>1 DEF Awake
  <2> QED  BY <1>2, <2>1, <2>2, <2>3, <2>4, <2>5, TreeKept
<1>3. CASE Sleep
  BY <1>2, <1>3 DEF Sleep
<1>4. CASE WaitSleep
  BY <1>2, <1>4 DEF WaitSleep, NoneHanging
<1>5. ASSUME NEW t \in Threads, DeviceIntr(t) PROVE ProcInv'
  <2>1. /\ SchedInv' /\ status' = [status EXCEPT ![t] = "READY"] /\ status[t] = "BLOCKED"
        /\ UNCHANGED <<all, pid, parent_pid>>
    BY <1>0, <1>5, IntrUnblockSched DEF DeviceIntr, IntrUnblock, taskVars
  <2> QED  BY <1>0, <2>1, TreeKept DEF Procs
<1>6. CASE SchedulerStep
  <2>1. parent_pid' = parent_pid
    BY <1>6 DEF SchedulerStep, procVars
  <2>2. CASE TimerTick \/ IdleBlock \/ IdleHalt
    <3>1. SchedInv' /\ SameAwake /\ UNCHANGED <<all, pid>>
      BY <1>0, <2>2, TimerIdleSched DEF TimerTick, IdleBlock, IdleHalt, taskVars
    <3>2. status'[Idle] # "HANGING"
      BY <3>1 DEF SchedInv, CoreInv, IdleAvailable
    <3>3. \A t \in Threads : status'[t] = "HANGING" <=> status[t] = "HANGING"
      BY <1>0, <3>1, <3>2 DEF SameAwake, Awake
    <3>4. \A t \in Procs \ {InitProc} : status'[t] = "WAITING" => status[t] = "WAITING"
      BY <3>1 DEF SameAwake, Awake, Procs
    <3>5. status'[Main] # "NULL"
      BY <1>0, <3>1 DEF SameAwake, Awake
    <3> QED  BY <2>1, <3>1, <3>3, <3>4, <3>5, TreeKept
  <2>3. CASE MainExit
    <3>1. /\ SchedInv' /\ all' = all \ {Main} /\ status'[Main] = "OVER"
          /\ \A u \in Threads \ {Main} : pid'[u] = pid[u]
          /\ \A u \in Threads \ {Main, Idle} :
                status'[u] = status[u] \/ (status[u] \in Awake /\ status'[u] \in Awake)
      BY <1>0, <2>3, MainExitSched
    <3>2. status'[Idle] # "HANGING" /\ status[Main] = "RUNNING"
      BY <1>0, <2>3, <3>1 DEF SchedInv, CoreInv, IdleAvailable, MainExit
    <3>3. \A t \in Threads : status'[t] = "HANGING" <=> status[t] = "HANGING"
      BY <1>0, <3>1, <3>2 DEF Awake
    <3>4. \A t \in Procs \ {InitProc} : status'[t] = "WAITING" => status[t] = "WAITING"
      BY <3>1 DEF Awake, Procs
    <3>5. all' \subseteq all /\ all \cap Procs \subseteq all' /\ \A t \in Procs : pid'[t] = pid[t]
      BY <3>1 DEF Procs
    <3> QED  BY <2>1, <3>1, <3>3, <3>4, <3>5, TreeKept
  <2> QED  BY <1>6, <2>2, <2>3 DEF SchedulerStep
<1> QED  BY <1>1, <1>3, <1>4, <1>5, <1>6

(* The invariant holds throughout.                                          *)
LEMMA SpecProcs == Spec => []ProcInv
<1>1. ProcInv /\ [Next]_vars => ProcInv'
  <2> SUFFICES ASSUME ProcInv, [Next]_vars PROVE ProcInv'
    OBVIOUS
  <2>1. ASSUME NEW t \in Threads, Fork(t) PROVE ProcInv'
    BY <2>1, ForkProcs
  <2>2. CASE WaitTurn
    BY <2>2, ReapProcs, OtherProcs DEF WaitTurn
  <2>3. CASE Exit
    BY <2>3, ExitProcs
  <2>4. CASE WaitCall \/ Sleep \/ SchedulerStep \/ UNCHANGED vars
    BY <2>4, OtherProcs
  <2>5. ASSUME NEW t \in Threads, DeviceIntr(t) PROVE ProcInv'
    BY <2>5, OtherProcs
  <2> QED  BY <2>1, <2>2, <2>3, <2>4, <2>5 DEF Next
<1> QED  BY <1>1, InitProcs, PTL DEF Spec

(* The processes form a tree with init at its root, whatever is forked,     *)
(* exits, is adopted and reaped, and however pids are reused.               *)
THEOREM ProcessTree == Spec => []RootedAtInit
<1>1. ProcInv => RootedAtInit
  BY RootedHalves DEF ProcInv, SchedInv
<1> QED  BY <1>1, SpecProcs, PTL

(* A parent other than init is never asleep in sys_wait while a child of    *)
(* its hangs.                                                               *)
THEOREM ExitsNotMissed == Spec => []NoMissedExit
<1>1. ProcInv => NoMissedExit
  BY DEF ProcInv
<1> QED  BY <1>1, SpecProcs, PTL
=============================================================================
