----------------------------- MODULE IdeProofs ------------------------------
(***************************************************************************)
(* The disk driver, proved for any number of clients, any sizes of disks,  *)
(* requests and commands, and any time limit: a drive only works for the   *)
(* owner of the channel, interrupts match the commands waited for, and     *)
(* ide_read and ide_write implement the array of sectors of Disk.          *)
(***************************************************************************)
EXTENDS Ide, SequenceTheorems, TLAPS

Pcs == {"user", "lock", "select", "command", "sleep", "poll", "nap", "transfer",
        "release", "panic", "identify", "gone"}
Between == {"identify", "select", "command", "release"}     \* two commands
During  == {"sleep", "poll", "nap", "transfer", "panic"}    \* a command

(* The types of what the proofs rest on; data and buf may hold anything.    *)
IsDrive(d) ==
    /\ d = [state |-> d.state, cmd |-> d.cmd, lba |-> d.lba, cnt |-> d.cnt, data |-> d.data]
    /\ d.state \in {"idle", "reading", "accepting", "drq", "writing"}
IdeTypes ==
    /\ pc \in [Tasks -> Pcs] /\ holder \in Clients \cup {Null}
    /\ drive = [hd \in Disks |-> drive[hd]] /\ \A hd \in Disks : IsDrive(drive[hd])
    /\ reg \in [dev : Disks, lba : Nat, cnt : Nat]
    /\ intrq \in BOOLEAN /\ expecting \in BOOLEAN /\ diskDone \in Nat
    /\ req = [t \in Tasks |-> req[t]]
    /\ secsDone \in [Tasks -> Nat] /\ secsOp \in [Tasks -> Nat]

(* The request of a task in a call, and how far it is.                      *)
InBounds(r) == r.hd \in Disks /\ r.lba \in Nat /\ r.cnt \in Nat \ {0}
RequestsExact ==
    /\ \A c \in Clients : pc[c] # "user" => req[c].op \in {"read", "write"} /\ InBounds(req[c])
    /\ \A c \in Clients : pc[c] = "user" => secsDone[c] = 0
    /\ pc[Main] # "gone" => req[Main] = Identify(req[Main].hd) /\ req[Main].hd \in Disks
                              /\ secsOp[Main] = 1 /\ secsDone[Main] = 0
    /\ \A c \in Clients : pc[c] \in {"lock", "select"} => secsDone[c] < req[c].cnt
    /\ \A c \in Clients : pc[c] \in {"command"} \cup During =>
                            secsOp[c] \in 1 .. SecsPerOp

(* The lock: its holder is the one client inside ide_read or ide_write, and *)
(* none is while ide_init runs.                                             *)
LockExact ==
    /\ \A c \in Clients : holder = c <=> pc[c] \notin {"user", "lock"}
    /\ \A c \in Clients : pc[c] \in {"user", "lock"} \cup (Between \ {"identify"}) \cup During
    /\ pc[Main] \in {"gone", "identify", "command"} \cup During
    /\ pc[Main] # "gone" => \A c \in Clients : pc[c] = "user"

(* Nothing is going on in the channel.                                      *)
Quiet == ~intrq /\ ~expecting /\ diskDone = 0 /\ \A hd \in Disks : ~Busy(hd)

(* The drives while t waits for its command or moves its data.              *)
Serves(t) ==
    /\ reg.dev = req[t].hd
    /\ \A hd \in Disks \ {reg.dev} : ~Busy(hd)
    /\ Busy(reg.dev) => /\ drive[reg.dev].cmd = req[t].op
                        /\ drive[reg.dev].lba = req[t].lba + secsDone[t]
                        /\ drive[reg.dev].cnt = secsOp[t]

(* How far the command of t is: the state of the drive, the interrupt line, *)
(* expecting_intr and disk_done.                                            *)
Signal(s, e, i, d) == drive[reg.dev].state = s /\ expecting = e /\ intrq = i /\ diskDone = d
ReadPhase(t) ==
    IF pc[t] = "sleep"
    THEN \/ Signal("reading", TRUE, FALSE, 0)
         \/ Signal("drq", TRUE, TRUE, 0)
         \/ Signal("drq", FALSE, FALSE, 1)
    ELSE Signal("drq", FALSE, FALSE, 0)
WritePhase(t) ==
    IF pc[t] = "sleep"
    THEN \/ Signal("writing", TRUE, FALSE, 0)
         \/ Signal("idle", TRUE, TRUE, 0)
         \/ Signal("idle", FALSE, FALSE, 1)
    ELSE \/ Signal("drq", TRUE, FALSE, 0)
         \/ pc[t] # "transfer" /\ Signal("accepting", TRUE, FALSE, 0)

OwnerExact(t) ==
    /\ pc[t] \in Between => Quiet
    /\ pc[t] = "command" => /\ reg.dev = req[t].hd
                            /\ t # Main => /\ reg.lba = req[t].lba + secsDone[t]
                                           /\ reg.cnt = secsOp[t] % SecsPerOp
    /\ pc[t] \in During => /\ Serves(t)
                           /\ req[t].op = "write" => WritePhase(t)
                           /\ req[t].op # "write" => ReadPhase(t)

(* The inductive invariant.                                                 *)
IdeInv ==
    /\ IdeTypes /\ RequestsExact /\ LockExact
    /\ \A t \in Owners : OwnerExact(t)
    /\ Owners = {} => Quiet

-----------------------------------------------------------------------------
(* A count of 1 .. SecsPerOp survives the 8-bit sector-count register, where *)
(* the drive reads 0 as SecsPerOp.                                          *)
LEMMA CountRegister ==
  ASSUME NEW n \in 1 .. SecsPerOp
  PROVE  (IF n % SecsPerOp = 0 THEN SecsPerOp ELSE n % SecsPerOp) = n
<1>1. SecsPerOp \in Nat \ {0}
  BY IdeAssumption
<1>2. CASE n = SecsPerOp
  BY <1>1, <1>2
<1>3. CASE n < SecsPerOp
  BY <1>1, <1>3
<1> QED
  BY <1>1, <1>2, <1>3

(* The next command moves at least one sector and at most SecsPerOp.        *)
LEMMA NextOpInRange ==
  ASSUME NEW t, secsDone[t] \in Nat, req[t].cnt \in Nat, secsDone[t] < req[t].cnt
  PROVE  NextOp(t) \in 1 .. SecsPerOp
BY IdeAssumption DEF NextOp

(* A task inside a call that uses the channel is its only owner.            *)
LEMMA OnlyOwner ==
  ASSUME LockExact, NEW t \in Tasks, pc[t] \notin {"user", "lock", "gone"}
  PROVE  Owners = {t}
<1>1. CASE t \in Clients
  <2>1. holder = t /\ pc[Main] = "gone"
    BY <1>1 DEF LockExact
  <2> QED
    BY <1>1, <2>1 DEF Owners
<1>2. CASE t = Main
  <2>1. \A c \in Clients : pc[c] = "user"
    BY <1>2 DEF LockExact
  <2>2. \A c \in Clients : holder # c
    BY <2>1 DEF LockExact
  <2> QED
    BY <1>2, <2>2 DEF Owners
<1> QED
  BY <1>1, <1>2 DEF Tasks

(* Initially Main owns the quiet channel.                                   *)
LEMMA InitIde == Init => IdeInv
<1> SUFFICES ASSUME Init PROVE IdeInv
  OBVIOUS
<1>1. IdeTypes
  BY IdeAssumption DEF Init, IdeTypes, IsDrive, IdleDrive, Tasks, Pcs
<1>2. RequestsExact /\ LockExact
  BY IdeAssumption DEF Init, RequestsExact, LockExact, Tasks, Identify, During, Between
<1>3. Quiet
  BY DEF Init, Quiet, Busy, IdleDrive
<1>4. Owners = {Main}
  BY <1>2, IdeAssumption, OnlyOwner DEF Init, Tasks
<1> QED
  BY <1>1, <1>2, <1>3, <1>4 DEF IdeInv, OwnerExact, Init, Tasks, Between, During

-----------------------------------------------------------------------------
(* A step of the owner t that leaves it in its call: what is left to show   *)
(* is what t itself does.                                                   *)
LEMMA OwnerStep ==
  ASSUME IdeInv, NEW t \in Tasks, pc[t] \notin {"user", "lock", "gone"},
         NEW p \in Pcs \ {"user", "lock", "gone"}, GoTo(t, p), UNCHANGED holder,
         t = Main => p \in {"identify", "command"} \cup During,
         t # Main => p # "identify"
  PROVE  LockExact' /\ Owners' = {t} /\ pc'[t] = p /\ pc' \in [Tasks -> Pcs]
<1>1. pc' \in [Tasks -> Pcs] /\ pc'[t] = p /\ \A u \in Tasks \ {t} : pc'[u] = pc[u]
  BY DEF IdeInv, IdeTypes, GoTo
<1>2. LockExact'
  BY <1>1, IdeAssumption DEF IdeInv, LockExact, Tasks, Pcs, Between, During
<1>3. Owners' = Owners
  <2>1. pc[Main] # "gone" <=> pc'[Main] # "gone"
    BY <1>1 DEF Tasks
  <2> QED
    BY <2>1 DEF Owners
<1> QED
  BY <1>1, <1>2, <1>3, OnlyOwner DEF IdeInv

(* The steps of a client that is not the owner.                             *)
LEMMA CallIde ==
  ASSUME IdeInv, NEW c \in Clients, Call(c)
  PROVE  IdeInv'
<1>1. pc' \in [Tasks -> Pcs] /\ pc'[c] = "lock" /\ \A u \in Tasks \ {c} : pc'[u] = pc[u]
  BY DEF IdeInv, IdeTypes, Call, GoTo, Tasks, Pcs
<1>2. PICK r \in RequestsOf(c) : req' = [req EXCEPT ![c] = r]
  BY DEF Call
<1>3. r.op \in {"read", "write"} /\ InBounds(r)
  BY IdeAssumption DEF RequestsOf, InBounds
<1>4. /\ req' = [t \in Tasks |-> req'[t]] /\ req'[c] = r
      /\ \A u \in Tasks \ {c} : req'[u] = req[u]
  BY <1>2 DEF IdeInv, IdeTypes, Tasks
<1>5. UNCHANGED <<driveVars, chanVars, secsDone, secsOp>> /\ pc[c] = "user" /\ pc[Main] = "gone"
  BY DEF Call
<1>6. IdeTypes'
  BY <1>1, <1>4, <1>5 DEF IdeInv, IdeTypes, driveVars, chanVars
<1>7. RequestsExact'
  BY <1>1, <1>3, <1>4, <1>5, IdeAssumption DEF IdeInv, RequestsExact, Tasks, InBounds, During
<1>8. LockExact'
  BY <1>1, <1>5, IdeAssumption DEF IdeInv, LockExact, Tasks, chanVars, Between, During
<1>9. Owners' = Owners /\ c \notin Owners
  BY <1>1, <1>5, IdeAssumption DEF IdeInv, LockExact, Owners, Tasks, chanVars
<1>10. ASSUME NEW t \in Owners PROVE OwnerExact(t)'
  <2>1. OwnerExact(t) /\ t \in Tasks \ {c}
    BY <1>9 DEF IdeInv, Owners, Tasks
  <2>2. pc'[t] = pc[t] /\ req'[t] = req[t]
    BY <1>1, <1>4, <2>1
  <2> QED
    BY <2>1, <2>2, <1>5 DEF OwnerExact, Quiet, Busy, Serves, ReadPhase, WritePhase, Signal,
                            driveVars, chanVars
<1>11. Quiet => Quiet'
  BY <1>5 DEF Quiet, Busy, driveVars, chanVars
<1> QED
  BY <1>6, <1>7, <1>8, <1>9, <1>10, <1>11 DEF IdeInv

(* lock_acquire makes the caller the owner of a quiet channel.              *)
LEMMA AcquireIde ==
  ASSUME IdeInv, NEW c \in Clients, Acquire(c)
  PROVE  IdeInv'
<1>1. pc' \in [Tasks -> Pcs] /\ pc'[c] = "select" /\ \A u \in Tasks \ {c} : pc'[u] = pc[u]
  BY DEF IdeInv, IdeTypes, Acquire, GoTo, Tasks, Pcs
<1>2. /\ UNCHANGED <<media, drive, intrq, expecting, diskDone, req, secsDone, secsOp>>
      /\ pc[c] = "lock" /\ holder = Null /\ holder' = c /\ reg' = [reg EXCEPT !.dev = req[c].hd]
  BY DEF Acquire
<1>3. pc[Main] = "gone"
  BY <1>2 DEF IdeInv, LockExact
<1>4. IdeTypes'
  BY <1>1, <1>2 DEF IdeInv, IdeTypes, RequestsExact, InBounds
<1>5. RequestsExact'
  BY <1>1, <1>2, IdeAssumption DEF IdeInv, RequestsExact, Tasks, InBounds, During
<1>6. LockExact'
  BY <1>1, <1>2, <1>3, IdeAssumption DEF IdeInv, LockExact, Tasks, Between, During
<1>7. Owners = {} /\ Owners' = {c}
  BY <1>1, <1>2, <1>3, IdeAssumption DEF Owners, Tasks
<1>8. Quiet'
  BY <1>2, <1>7 DEF IdeInv, Quiet, Busy
<1> QED
  BY <1>1, <1>4, <1>5, <1>6, <1>7, <1>8 DEF IdeInv, OwnerExact, Between, During

-----------------------------------------------------------------------------
(* The steps of the owner.                                                  *)
LEMMA SelectSectorIde ==
  ASSUME IdeInv, NEW c \in Clients, SelectSector(c)
  PROVE  IdeInv'
<1>1. pc[c] = "select" /\ c \in Tasks /\ c # Main
  BY IdeAssumption DEF SelectSector, Tasks
<1>2. LockExact' /\ Owners' = {c} /\ pc'[c] = "command" /\ pc' \in [Tasks -> Pcs]
  BY <1>1, OwnerStep DEF SelectSector, Pcs, During, chanVars
<1>3. /\ UNCHANGED <<media, drive, intrq, chanVars, req, secsDone>>
      /\ secsOp' = [secsOp EXCEPT ![c] = NextOp(c)]
      /\ reg' = [dev |-> req[c].hd, lba |-> req[c].lba + secsDone[c],
                 cnt |-> NextOp(c) % SecsPerOp]
  BY DEF SelectSector
<1>4. secsDone[c] \in Nat /\ InBounds(req[c]) /\ secsDone[c] < req[c].cnt
  BY <1>1 DEF IdeInv, IdeTypes, RequestsExact
<1>5. NextOp(c) \in 1 .. SecsPerOp /\ NextOp(c) % SecsPerOp \in Nat
  BY <1>4, NextOpInRange, IdeAssumption DEF InBounds
<1>6. IdeTypes'
  BY <1>1, <1>2, <1>3, <1>4, <1>5 DEF IdeInv, IdeTypes, InBounds, chanVars
<1>7. RequestsExact'
  <2>1. \A u \in Tasks \ {c} : pc'[u] = pc[u] /\ secsOp'[u] = secsOp[u]
    BY <1>3 DEF SelectSector, GoTo, IdeInv, IdeTypes
  <2>2. secsOp'[c] = NextOp(c)
    BY <1>1, <1>3 DEF IdeInv, IdeTypes
  <2> QED
    BY <1>1, <1>2, <1>3, <1>5, <2>1, <2>2 DEF IdeInv, RequestsExact, Tasks, InBounds, During
<1>8. Quiet
  BY <1>1, OnlyOwner DEF IdeInv, OwnerExact, Between
<1>9. OwnerExact(c)'
  BY <1>1, <1>2, <1>3, <1>8 DEF IdeInv, IdeTypes, OwnerExact, Quiet, Busy, During, chanVars
<1> QED
  BY <1>2, <1>6, <1>7, <1>9 DEF IdeInv

(* cmd_out: the owner's drive becomes busy, and no other one is.            *)
LEMMA CmdOutIde ==
  ASSUME IdeInv, NEW t \in Tasks, CmdOut(t)
  PROVE  IdeInv'
<1> DEFINE p == IF req[t].op = "write" THEN "poll" ELSE "sleep"
<1>1. pc[t] = "command"
  BY DEF CmdOut
<1>2. LockExact' /\ Owners' = {t} /\ pc'[t] = p /\ pc' \in [Tasks -> Pcs]
  BY <1>1, OwnerStep DEF CmdOut, Pcs, During
<1>3. /\ UNCHANGED <<media, reg, holder, diskDone, req, secsDone, secsOp>>
      /\ expecting' = TRUE /\ intrq' = FALSE /\ StartCommand(req[t].op)
  BY DEF CmdOut
<1>4. OwnerExact(t) /\ Quiet /\ reg.dev = req[t].hd /\ reg.dev \in Disks
  BY <1>1, OnlyOwner DEF IdeInv, IdeTypes, OwnerExact, Between
<1>5. /\ req[t].op \in {"identify", "read", "write"} /\ secsOp[t] \in 1 .. SecsPerOp
      /\ req[t].op = "identify" <=> t = Main
      /\ t = Main => req[t].lba = 0 /\ secsDone[t] = 0 /\ secsOp[t] = 1
  BY <1>1, IdeAssumption DEF IdeInv, RequestsExact, Identify, Tasks
<1>6. /\ drive' = [hd \in Disks |-> drive'[hd]]
      /\ \A hd \in Disks \ {reg.dev} : drive'[hd] = drive[hd]
      /\ drive'[reg.dev] =
           [state |-> IF req[t].op = "write" THEN "accepting" ELSE "reading",
            cmd |-> req[t].op,
            lba |-> IF req[t].op = "identify" THEN 0 ELSE reg.lba,
            cnt |-> IF req[t].op = "identify" THEN 1
                    ELSE IF reg.cnt = 0 THEN SecsPerOp ELSE reg.cnt,
            data |-> <<>>]
  BY <1>3, <1>4 DEF IdeInv, IdeTypes, StartCommand
<1>7. IdeTypes'
  <2>1. \A hd \in Disks \ {reg.dev} : IsDrive(drive'[hd])
    BY <1>6 DEF IdeInv, IdeTypes
  <2>2. IsDrive(drive'[reg.dev])
    <3>1. drive'[reg.dev].state \in {"accepting", "reading"}
      BY <1>6
    <3> QED
      BY <1>6, <3>1 DEF IsDrive
  <2> QED
    BY <1>2, <1>3, <1>6, <2>1, <2>2 DEF IdeInv, IdeTypes
<1>8. RequestsExact'
  <2>1. \A u \in Tasks \ {t} : pc'[u] = pc[u]
    BY DEF CmdOut, GoTo, IdeInv, IdeTypes
  <2> QED
    BY <1>1, <1>2, <1>3, <1>5, <2>1 DEF IdeInv, RequestsExact, Tasks, InBounds, During
<1>9. Serves(t)'
  <2>1. drive'[reg.dev].lba = req[t].lba + secsDone[t]
    BY <1>1, <1>4, <1>5, <1>6 DEF OwnerExact
  <2>2. drive'[reg.dev].cnt = secsOp[t]
    BY <1>1, <1>4, <1>5, <1>6, CountRegister DEF OwnerExact
  <2> QED
    BY <1>3, <1>4, <1>6, <2>1, <2>2 DEF Serves, Quiet, Busy
<1>10. OwnerExact(t)'
  BY <1>2, <1>3, <1>4, <1>6, <1>9
     DEF OwnerExact, ReadPhase, WritePhase, Signal, Quiet, Between, During
<1> QED
  BY <1>2, <1>7, <1>8, <1>10 DEF IdeInv

(* sema_down takes the one completion of the owner's command.               *)
LEMMA SemaDownIde ==
  ASSUME IdeInv, NEW t \in Tasks, SemaDown(t)
  PROVE  IdeInv'
<1>1. pc[t] = "sleep" /\ diskDone > 0 /\ diskDone \in Nat
  BY DEF SemaDown, IdeInv, IdeTypes
<1>2. OwnerExact(t) /\ Serves(t)
  BY <1>1, OnlyOwner DEF IdeInv, OwnerExact, During
<1>3. diskDone = 1 /\ ~expecting /\ ~intrq
  BY <1>1, <1>2 DEF OwnerExact, ReadPhase, WritePhase, Signal, During
<1>4. UNCHANGED <<driveVars, holder, expecting, req, secsOp>> /\ diskDone' = 0
  BY <1>1, <1>3 DEF SemaDown
<1>5. \A u \in Tasks \ {t} : pc'[u] = pc[u]
  BY DEF SemaDown, GoTo, IdeInv, IdeTypes
<1>6. CASE req[t].op # "write"
  <2>1. GoTo(t, "poll") /\ UNCHANGED secsDone
    BY <1>6 DEF SemaDown
  <2>2. LockExact' /\ Owners' = {t} /\ pc'[t] = "poll" /\ pc' \in [Tasks -> Pcs]
    BY <1>1, <1>4, <2>1, OwnerStep DEF Pcs, During
  <2>3. IdeTypes'
    BY <1>4, <2>1, <2>2 DEF IdeInv, IdeTypes, driveVars
  <2>4. RequestsExact'
    BY <1>1, <1>4, <1>5, <2>1, <2>2, IdeAssumption
       DEF IdeInv, RequestsExact, Tasks, InBounds, During
  <2>5. drive[reg.dev].state = "drq"
    BY <1>1, <1>2, <1>3, <1>6 DEF OwnerExact, ReadPhase, Signal, During
  <2>6. OwnerExact(t)'
    BY <1>2, <1>3, <1>4, <1>6, <2>1, <2>2, <2>5
       DEF OwnerExact, Serves, Busy, ReadPhase, Signal, driveVars, Between
  <2> QED
    BY <2>2, <2>3, <2>4, <2>6 DEF IdeInv
<1>7. CASE req[t].op = "write"
  <2> DEFINE p == IF secsDone'[t] < req[t].cnt THEN "select" ELSE "release"
  <2>1. GoTo(t, p) /\ secsDone' = [secsDone EXCEPT ![t] = @ + secsOp[t]]
    BY <1>7 DEF SemaDown
  <2>2. t # Main
    BY <1>1, <1>7 DEF IdeInv, RequestsExact, Identify
  <2>3. LockExact' /\ Owners' = {t} /\ pc'[t] = p /\ pc' \in [Tasks -> Pcs]
    BY <1>1, <1>4, <2>1, <2>2, OwnerStep DEF Pcs, During
  <2>4. IdeTypes'
    <3>1. secsDone' \in [Tasks -> Nat]
      BY <2>1 DEF IdeInv, IdeTypes
    <3> QED
      BY <1>4, <2>3, <3>1 DEF IdeInv, IdeTypes, driveVars
  <2>5. RequestsExact'
    <3>1. \A u \in Tasks \ {t} : secsDone'[u] = secsDone[u]
      BY <2>1 DEF IdeInv, IdeTypes
    <3> QED
      BY <1>1, <1>4, <1>5, <2>1, <2>2, <2>3, <3>1
         DEF IdeInv, RequestsExact, Tasks, InBounds, During
  <2>6. drive[reg.dev].state = "idle"
    BY <1>1, <1>2, <1>3, <1>7 DEF OwnerExact, WritePhase, Signal, During
  <2>7. Quiet'
    BY <1>2, <1>3, <1>4, <2>6 DEF Quiet, Busy, Serves, driveVars
  <2>8. OwnerExact(t)'
    BY <2>3, <2>7 DEF OwnerExact, During
  <2> QED
    BY <2>3, <2>4, <2>5, <2>8 DEF IdeInv
<1> QED
  BY <1>6, <1>7

(* busy_wait only looks.                                                    *)
LEMMA BusyWaitIde ==
  ASSUME IdeInv, NEW t \in Tasks, BusyWait(t)
  PROVE  IdeInv'
<1>1. pc[t] = "poll"
  BY DEF BusyWait
<1>2. OwnerExact(t) /\ Serves(t)
  BY <1>1, OnlyOwner DEF IdeInv, OwnerExact, During
<1>3. ~intrq
  BY <1>1, <1>2 DEF OwnerExact, ReadPhase, WritePhase, Signal, During
<1>4. /\ UNCHANGED <<media, drive, reg, chanVars, req, secsDone, secsOp>>
      /\ intrq' = FALSE
  BY <1>3 DEF BusyWait, IdeInv, IdeTypes
<1>5. PICK p \in {"transfer", "nap", "panic"} :
          GoTo(t, p) /\ (p = "transfer" => drive[reg.dev].state = "drq")
  BY DEF BusyWait
<1>6. LockExact' /\ Owners' = {t} /\ pc'[t] = p /\ pc' \in [Tasks -> Pcs]
  BY <1>1, <1>4, <1>5, OwnerStep DEF Pcs, During, chanVars
<1>7. IdeTypes'
  BY <1>4, <1>6 DEF IdeInv, IdeTypes, chanVars
<1>8. RequestsExact'
  <2>1. \A u \in Tasks \ {t} : pc'[u] = pc[u]
    BY <1>5 DEF GoTo, IdeInv, IdeTypes
  <2> QED
    BY <1>1, <1>4, <1>5, <1>6, <2>1, IdeAssumption DEF IdeInv, RequestsExact, Tasks, InBounds, During
<1>9. OwnerExact(t)'
  BY <1>1, <1>2, <1>3, <1>4, <1>5, <1>6
     DEF OwnerExact, Serves, Busy, ReadPhase, WritePhase, Signal, chanVars, Between, During
<1> QED
  BY <1>6, <1>7, <1>8, <1>9 DEF IdeInv

(* So does mtime_sleep.                                                     *)
LEMMA NapIde ==
  ASSUME IdeInv, NEW t \in Tasks, Nap(t)
  PROVE  IdeInv'
<1>1. pc[t] = "nap" /\ UNCHANGED <<driveVars, chanVars, req, secsDone, secsOp>>
  BY DEF Nap
<1>2. OwnerExact(t)
  BY <1>1, OnlyOwner DEF IdeInv
<1>3. LockExact' /\ Owners' = {t} /\ pc'[t] = "poll" /\ pc' \in [Tasks -> Pcs]
  BY <1>1, OwnerStep DEF Nap, Pcs, During, chanVars
<1>4. IdeTypes'
  BY <1>1, <1>3 DEF IdeInv, IdeTypes, driveVars, chanVars
<1>5. RequestsExact'
  <2>1. \A u \in Tasks \ {t} : pc'[u] = pc[u]
    BY DEF Nap, GoTo, IdeInv, IdeTypes
  <2> QED
    BY <1>1, <1>3, <2>1, IdeAssumption DEF IdeInv, RequestsExact, Tasks, InBounds, During
<1>6. OwnerExact(t)'
  BY <1>1, <1>2, <1>3 DEF OwnerExact, Serves, Busy, ReadPhase, WritePhase, Signal,
                          driveVars, chanVars, Between, During
<1> QED
  BY <1>3, <1>4, <1>5, <1>6 DEF IdeInv

(* read_from_sector empties the drive and ends a read command.              *)
LEMMA ReadTransferIde ==
  ASSUME IdeInv, NEW c \in Clients, ReadTransfer(c)
  PROVE  IdeInv'
<1> DEFINE p == IF secsDone'[c] < req[c].cnt THEN "select" ELSE "release"
<1>1. pc[c] = "transfer" /\ req[c].op = "read" /\ c \in Tasks /\ c # Main
  BY IdeAssumption DEF ReadTransfer, Tasks
<1>2. /\ UNCHANGED <<media, reg, intrq, chanVars, req, secsOp>>
      /\ drive' = [drive EXCEPT ![reg.dev] = IdleDrive] /\ GoTo(c, p)
      /\ secsDone' = [secsDone EXCEPT ![c] = @ + secsOp[c]]
  BY DEF ReadTransfer
<1>3. LockExact' /\ Owners' = {c} /\ pc'[c] = p /\ pc' \in [Tasks -> Pcs]
  BY <1>1, <1>2, OwnerStep DEF Pcs, During, chanVars
<1>4. OwnerExact(c) /\ Serves(c) /\ reg.dev \in Disks
  BY <1>1, OnlyOwner DEF IdeInv, IdeTypes, OwnerExact, During
<1>5. ~expecting /\ ~intrq /\ diskDone = 0
  BY <1>1, <1>4 DEF OwnerExact, ReadPhase, Signal, During
<1>6. /\ drive' = [hd \in Disks |-> drive'[hd]] /\ drive'[reg.dev] = IdleDrive
      /\ \A hd \in Disks \ {reg.dev} : drive'[hd] = drive[hd]
  BY <1>2, <1>4 DEF IdeInv, IdeTypes
<1>7. IdeTypes'
  <2>1. IsDrive(IdleDrive)
    BY DEF IsDrive, IdleDrive
  <2>2. \A hd \in Disks : IsDrive(drive'[hd])
    BY <1>6, <2>1 DEF IdeInv, IdeTypes
  <2>3. secsDone' \in [Tasks -> Nat]
    BY <1>1, <1>2 DEF IdeInv, IdeTypes
  <2> QED
    BY <1>2, <1>3, <1>6, <2>2, <2>3 DEF IdeInv, IdeTypes, chanVars
<1>8. RequestsExact'
  <2>1. \A u \in Tasks \ {c} : pc'[u] = pc[u] /\ secsDone'[u] = secsDone[u]
    BY <1>2 DEF GoTo, IdeInv, IdeTypes
  <2> QED
    BY <1>1, <1>2, <1>3, <2>1 DEF IdeInv, RequestsExact, Tasks, InBounds, During
<1>9. Quiet'
  BY <1>2, <1>4, <1>5, <1>6 DEF Quiet, Busy, Serves, chanVars, IdleDrive
<1>10. OwnerExact(c)'
  BY <1>3, <1>9 DEF OwnerExact, During
<1> QED
  BY <1>3, <1>7, <1>8, <1>10 DEF IdeInv

(* write2sector hands the drive its data; the completion comes later.       *)
LEMMA WriteTransferIde ==
  ASSUME IdeInv, NEW c \in Clients, WriteTransfer(c)
  PROVE  IdeInv'
<1>1. pc[c] = "transfer" /\ req[c].op = "write" /\ c \in Tasks /\ c # Main
  BY IdeAssumption DEF WriteTransfer, Tasks
<1>2. UNCHANGED <<media, reg, intrq, chanVars, req, secsDone, secsOp>> /\ GoTo(c, "sleep")
  BY DEF WriteTransfer
<1>3. LockExact' /\ Owners' = {c} /\ pc'[c] = "sleep" /\ pc' \in [Tasks -> Pcs]
  BY <1>1, <1>2, OwnerStep DEF Pcs, During, chanVars
<1>4. OwnerExact(c) /\ Serves(c) /\ reg.dev \in Disks
  BY <1>1, OnlyOwner DEF IdeInv, IdeTypes, OwnerExact, During
<1>5. Signal("drq", TRUE, FALSE, 0)
  BY <1>1, <1>4 DEF OwnerExact, WritePhase, During
<1>6. /\ drive' = [hd \in Disks |-> drive'[hd]]
      /\ \A hd \in Disks \ {reg.dev} : drive'[hd] = drive[hd]
      /\ \E x : drive'[reg.dev] = [drive[reg.dev] EXCEPT !.state = "writing", !.data = x]
  BY <1>4 DEF WriteTransfer, IdeInv, IdeTypes
<1>7. /\ IsDrive(drive'[reg.dev]) /\ drive'[reg.dev].state = "writing"
      /\ drive'[reg.dev].cmd = drive[reg.dev].cmd /\ drive'[reg.dev].lba = drive[reg.dev].lba
      /\ drive'[reg.dev].cnt = drive[reg.dev].cnt
  <2>1. IsDrive(drive[reg.dev])
    BY <1>4 DEF IdeInv, IdeTypes
  <2> QED
    BY <1>6, <2>1 DEF IsDrive
<1>8. IdeTypes'
  BY <1>2, <1>3, <1>6, <1>7 DEF IdeInv, IdeTypes, chanVars
<1>9. RequestsExact'
  <2>1. \A u \in Tasks \ {c} : pc'[u] = pc[u]
    BY <1>2 DEF GoTo, IdeInv, IdeTypes
  <2> QED
    BY <1>1, <1>2, <1>3, <2>1 DEF IdeInv, RequestsExact, Tasks, InBounds, During
<1>10. Serves(c)'
  BY <1>2, <1>4, <1>5, <1>6, <1>7 DEF Serves, Busy, Signal
<1>11. OwnerExact(c)'
  BY <1>1, <1>2, <1>3, <1>5, <1>7, <1>10 DEF OwnerExact, WritePhase, Signal, chanVars, Between
<1> QED
  BY <1>3, <1>8, <1>9, <1>11 DEF IdeInv

(* lock_release leaves the channel quiet.                                   *)
LEMMA ReleaseIde ==
  ASSUME IdeInv, NEW c \in Clients, Release(c)
  PROVE  IdeInv'
<1>1. pc[c] = "release" /\ c \in Tasks /\ c # Main /\ pc[Main] = "gone"
  BY IdeAssumption DEF Release, Tasks, IdeInv, LockExact
<1>2. /\ UNCHANGED <<driveVars, expecting, diskDone>> /\ holder' = Null
      /\ req' = [req EXCEPT ![c] = NoRequest] /\ secsDone' = [secsDone EXCEPT ![c] = 0]
      /\ secsOp' = [secsOp EXCEPT ![c] = 0]
  BY DEF Release
<1>3. /\ pc' \in [Tasks -> Pcs] /\ pc'[c] = "user"
      /\ \A u \in Tasks \ {c} : pc'[u] = pc[u] /\ req'[u] = req[u] /\ secsDone'[u] = secsDone[u]
                                  /\ secsOp'[u] = secsOp[u]
      /\ secsDone' \in [Tasks -> Nat] /\ secsOp' \in [Tasks -> Nat]
      /\ req' = [t \in Tasks |-> req'[t]] /\ secsDone'[c] = 0
  <2>1. pc' \in [Tasks -> Pcs] /\ pc'[c] = "user" /\ \A u \in Tasks \ {c} : pc'[u] = pc[u]
    BY <1>1 DEF IdeInv, IdeTypes, Release, GoTo, Pcs
  <2>2. req' = [t \in Tasks |-> req'[t]] /\ \A u \in Tasks \ {c} : req'[u] = req[u]
    BY <1>1, <1>2 DEF IdeInv, IdeTypes
  <2>3. /\ secsDone' \in [Tasks -> Nat] /\ secsOp' \in [Tasks -> Nat] /\ secsDone'[c] = 0
        /\ \A u \in Tasks \ {c} : secsDone'[u] = secsDone[u] /\ secsOp'[u] = secsOp[u]
    BY <1>1, <1>2 DEF IdeInv, IdeTypes
  <2> QED
    BY <2>1, <2>2, <2>3
<1>4. IdeTypes'
  BY <1>2, <1>3 DEF IdeInv, IdeTypes, driveVars
<1>5. RequestsExact'
  BY <1>1, <1>3 DEF IdeInv, RequestsExact, Tasks, InBounds, During
<1>6. LockExact'
  BY <1>1, <1>2, <1>3, IdeAssumption DEF IdeInv, LockExact, Tasks
<1>7. Owners' = {}
  BY <1>1, <1>2, <1>3, IdeAssumption DEF Owners, Tasks
<1>8. Quiet
  BY <1>1, OnlyOwner DEF IdeInv, OwnerExact, Between
<1>9. Quiet'
  BY <1>2, <1>8 DEF Quiet, Busy, driveVars
<1> QED
  BY <1>4, <1>5, <1>6, <1>7, <1>9 DEF IdeInv

-----------------------------------------------------------------------------
(* ide_init, which works without the lock while no client runs.             *)
LEMMA IdentifyDiskIde ==
  ASSUME IdeInv, IdentifyDisk
  PROVE  IdeInv'
<1>1. pc[Main] = "identify" /\ Main \in Tasks /\ req[Main].hd \in Disks
  BY DEF IdentifyDisk, Tasks, IdeInv, RequestsExact
<1>2. /\ UNCHANGED <<media, drive, intrq, chanVars, req, secsDone, secsOp>>
      /\ GoTo(Main, "command") /\ reg' = [reg EXCEPT !.dev = req[Main].hd]
  BY DEF IdentifyDisk
<1>3. LockExact' /\ Owners' = {Main} /\ pc'[Main] = "command" /\ pc' \in [Tasks -> Pcs]
  BY <1>1, <1>2, OwnerStep DEF Pcs, chanVars
<1>4. IdeTypes' /\ reg'.dev = req[Main].hd
  BY <1>1, <1>2, <1>3 DEF IdeInv, IdeTypes, chanVars
<1>5. RequestsExact'
  <2>1. \A u \in Tasks \ {Main} : pc'[u] = pc[u]
    BY <1>2 DEF GoTo, IdeInv, IdeTypes
  <2> QED
    BY <1>1, <1>2, <1>3, <2>1, IdeAssumption DEF IdeInv, RequestsExact, Tasks, InBounds, During
<1>6. Quiet
  BY <1>1, OnlyOwner DEF IdeInv, OwnerExact, Between
<1>7. OwnerExact(Main)'
  BY <1>2, <1>3, <1>4, <1>6 DEF OwnerExact, Quiet, Busy, During, chanVars
<1> QED
  BY <1>3, <1>4, <1>5, <1>7 DEF IdeInv

(* The data of IDENTIFY is taken; the next disk, or the end of ide_init.    *)
LEMMA IdentifyTransferIde ==
  ASSUME IdeInv, IdentifyTransfer
  PROVE  IdeInv'
<1>1. /\ pc[Main] = "transfer" /\ Main \in Tasks /\ req[Main] = Identify(req[Main].hd)
      /\ \A c \in Clients : pc[c] = "user"
  BY DEF IdentifyTransfer, Tasks, IdeInv, RequestsExact, LockExact
<1>2. /\ UNCHANGED <<media, reg, intrq, chanVars, secsDone, secsOp>>
      /\ drive' = [drive EXCEPT ![reg.dev] = IdleDrive]
  BY DEF IdentifyTransfer
<1>3. OwnerExact(Main) /\ Serves(Main) /\ reg.dev \in Disks
  BY <1>1, OnlyOwner DEF IdeInv, IdeTypes, OwnerExact, During
<1>4. Signal("drq", FALSE, FALSE, 0)
  <2>1. req[Main].op = "identify"
    BY <1>1 DEF Identify
  <2> QED
    BY <1>1, <1>3, <2>1 DEF OwnerExact, ReadPhase, During
<1>5. /\ drive' = [hd \in Disks |-> drive'[hd]] /\ drive'[reg.dev] = IdleDrive
      /\ \A hd \in Disks \ {reg.dev} : drive'[hd] = drive[hd]
  BY <1>2, <1>3 DEF IdeInv, IdeTypes
<1>6. \A hd \in Disks : IsDrive(drive'[hd])
  <2>1. IsDrive(IdleDrive)
    BY DEF IsDrive, IdleDrive
  <2> QED
    BY <1>5, <2>1 DEF IdeInv, IdeTypes
<1>7. Quiet'
  BY <1>2, <1>3, <1>4, <1>5 DEF Quiet, Busy, Serves, Signal, chanVars, IdleDrive
<1>8. CASE req[Main].hd + 1 \in Disks
  <2>1. req' = [req EXCEPT ![Main] = Identify(req[Main].hd + 1)] /\ GoTo(Main, "identify")
    BY <1>8 DEF IdentifyTransfer
  <2>2. LockExact' /\ Owners' = {Main} /\ pc'[Main] = "identify" /\ pc' \in [Tasks -> Pcs]
    BY <1>1, <1>2, <2>1, OwnerStep DEF Pcs, chanVars
  <2>3. /\ req' = [t \in Tasks |-> req'[t]] /\ req'[Main] = Identify(req[Main].hd + 1)
        /\ \A u \in Tasks \ {Main} : pc'[u] = pc[u] /\ req'[u] = req[u]
    BY <1>1, <2>1 DEF GoTo, IdeInv, IdeTypes
  <2>4. IdeTypes'
    BY <1>2, <1>5, <1>6, <2>2, <2>3 DEF IdeInv, IdeTypes, chanVars
  <2>5. RequestsExact'
    <3>1. Identify(req[Main].hd + 1).hd = req[Main].hd + 1
      BY DEF Identify
    <3> QED
      BY <1>1, <1>2, <1>8, <2>2, <2>3, <3>1, IdeAssumption
         DEF IdeInv, RequestsExact, Tasks, InBounds, During
  <2>6. OwnerExact(Main)'
    BY <1>7, <2>2 DEF OwnerExact, During
  <2> QED
    BY <2>2, <2>4, <2>5, <2>6 DEF IdeInv
<1>9. CASE req[Main].hd + 1 \notin Disks
  <2>1. UNCHANGED req /\ GoTo(Main, "gone")
    BY <1>9 DEF IdentifyTransfer
  <2>2. pc' \in [Tasks -> Pcs] /\ pc'[Main] = "gone" /\ \A u \in Tasks \ {Main} : pc'[u] = pc[u]
    BY <1>1, <2>1 DEF GoTo, IdeInv, IdeTypes, Pcs
  <2>3. IdeTypes'
    BY <1>2, <1>5, <1>6, <2>1, <2>2 DEF IdeInv, IdeTypes, chanVars
  <2>4. RequestsExact'
    BY <1>1, <1>2, <2>1, <2>2, IdeAssumption DEF IdeInv, RequestsExact, Tasks, InBounds, During
  <2>5. LockExact'
    BY <1>1, <1>2, <2>2, IdeAssumption DEF IdeInv, LockExact, Tasks, chanVars
  <2>6. Owners' = {}
    BY <1>1, <2>2, <2>5, IdeAssumption DEF Owners, LockExact, Tasks
  <2> QED
    BY <1>7, <2>3, <2>4, <2>5, <2>6 DEF IdeInv
<1> QED
  BY <1>8, <1>9

-----------------------------------------------------------------------------
(* A busy drive or a pending interrupt belongs to the one owner, which waits *)
(* for it or moves its data; the busy drive is the selected one.            *)
LEMMA ActiveOwner ==
  ASSUME IdeInv, NEW hd \in Disks, Busy(hd) \/ intrq
  PROVE  \E t \in Tasks : /\ Owners = {t} /\ pc[t] \in During /\ OwnerExact(t) /\ Serves(t)
                          /\ Busy(hd) => hd = reg.dev
<1>1. PICK t \in Owners : TRUE
  BY DEF IdeInv, Quiet
<1>2. t \in Tasks /\ pc[t] \notin {"user", "lock", "gone"} /\ OwnerExact(t)
  BY <1>1, IdeAssumption DEF IdeInv, Owners, LockExact, Tasks, Between, During
<1>3. pc[t] \in During
  BY <1>2 DEF IdeInv, IdeTypes, OwnerExact, Quiet, Between, During, Pcs
<1>4. Serves(t) /\ (Busy(hd) => hd = reg.dev)
  BY <1>2, <1>3 DEF OwnerExact, Serves
<1> QED
  BY <1>2, <1>3, <1>4, OnlyOwner DEF IdeInv

(* What a step of the hardware or of the handler leaves alone.              *)
LEMMA HardwareStep ==
  ASSUME IdeInv, UNCHANGED <<reg, holder, pc, req, secsDone, secsOp>>, IdeTypes',
         NEW t \in Tasks, Owners = {t}, OwnerExact(t)'
  PROVE  IdeInv'
<1>1. RequestsExact'
  BY DEF IdeInv, RequestsExact
<1>2. LockExact' /\ Owners' = {t}
  BY DEF IdeInv, LockExact, Owners
<1> QED
  BY <1>1, <1>2 DEF IdeInv

(* The data of a read is there: the command's one interrupt.                *)
LEMMA DriveReadyIde ==
  ASSUME IdeInv, NEW hd \in Disks, DriveReady(hd)
  PROVE  IdeInv'
<1>1. Busy(hd) /\ drive[hd].state = "reading"
  BY DEF DriveReady, Busy
<1>2. PICK t \in Tasks : /\ Owners = {t} /\ pc[t] \in During /\ OwnerExact(t) /\ Serves(t)
                         /\ hd = reg.dev
  BY <1>1, ActiveOwner
<1>3. UNCHANGED <<reg, chanVars, pc, req, secsDone, secsOp>> /\ intrq' = TRUE
  BY DEF DriveReady, taskVars
<1>4. /\ drive' = [h \in Disks |-> drive'[h]] /\ \A h \in Disks \ {hd} : drive'[h] = drive[h]
      /\ \E x : drive'[hd] = [drive[hd] EXCEPT !.state = "drq", !.data = x]
  BY DEF DriveReady, IdeInv, IdeTypes
<1>5. /\ IsDrive(drive'[hd]) /\ drive'[hd].state = "drq" /\ drive'[hd].cmd = drive[hd].cmd
      /\ drive'[hd].lba = drive[hd].lba /\ drive'[hd].cnt = drive[hd].cnt
  <2>1. IsDrive(drive[hd])
    BY DEF IdeInv, IdeTypes
  <2> QED
    BY <1>4, <2>1 DEF IsDrive
<1>6. IdeTypes'
  BY <1>3, <1>4, <1>5 DEF IdeInv, IdeTypes, chanVars
<1>7. Serves(t)'
  <2>1. \A h \in Disks \ {hd} : ~Busy(h)'
    BY <1>2, <1>4 DEF Serves, Busy
  <2>2. /\ drive'[hd].cmd = req[t].op /\ drive'[hd].lba = req[t].lba + secsDone[t]
        /\ drive'[hd].cnt = secsOp[t]
    BY <1>1, <1>2, <1>5 DEF Serves
  <2> QED
    BY <1>2, <1>3, <2>1, <2>2 DEF Serves
<1>8. OwnerExact(t)'
  <2>1. pc[t] = "sleep" /\ req[t].op # "write" /\ Signal("reading", TRUE, FALSE, 0)
    BY <1>1, <1>2 DEF OwnerExact, ReadPhase, WritePhase, Signal
  <2> QED
    BY <1>2, <1>3, <1>5, <1>7, <2>1 DEF OwnerExact, ReadPhase, Signal, chanVars, Between
<1> QED
  BY <1>2, <1>3, <1>6, <1>8, HardwareStep DEF chanVars

(* A drive that accepts a write does not interrupt.                         *)
LEMMA DriveAcceptsIde ==
  ASSUME IdeInv, NEW hd \in Disks, DriveAccepts(hd)
  PROVE  IdeInv'
<1>1. Busy(hd) /\ drive[hd].state = "accepting"
  BY DEF DriveAccepts, Busy
<1>2. PICK t \in Tasks : /\ Owners = {t} /\ pc[t] \in During /\ OwnerExact(t) /\ Serves(t)
                         /\ hd = reg.dev
  BY <1>1, ActiveOwner
<1>3. UNCHANGED <<reg, chanVars, intrq, pc, req, secsDone, secsOp>>
  BY DEF DriveAccepts, taskVars
<1>4. /\ drive' = [h \in Disks |-> drive'[h]] /\ \A h \in Disks \ {hd} : drive'[h] = drive[h]
      /\ drive'[hd] = [drive[hd] EXCEPT !.state = "drq"]
  BY DEF DriveAccepts, IdeInv, IdeTypes
<1>5. /\ IsDrive(drive'[hd]) /\ drive'[hd].state = "drq" /\ drive'[hd].cmd = drive[hd].cmd
      /\ drive'[hd].lba = drive[hd].lba /\ drive'[hd].cnt = drive[hd].cnt
  <2>1. IsDrive(drive[hd])
    BY DEF IdeInv, IdeTypes
  <2> QED
    BY <1>4, <2>1 DEF IsDrive
<1>6. IdeTypes'
  BY <1>3, <1>4, <1>5 DEF IdeInv, IdeTypes, chanVars
<1>7. Serves(t)'
  <2>1. \A h \in Disks \ {hd} : ~Busy(h)'
    BY <1>2, <1>4 DEF Serves, Busy
  <2>2. /\ drive'[hd].cmd = req[t].op /\ drive'[hd].lba = req[t].lba + secsDone[t]
        /\ drive'[hd].cnt = secsOp[t]
    BY <1>1, <1>2, <1>5 DEF Serves
  <2> QED
    BY <1>2, <1>3, <2>1, <2>2 DEF Serves
<1>8. OwnerExact(t)'
  <2>1. pc[t] # "sleep" /\ req[t].op = "write" /\ Signal("accepting", TRUE, FALSE, 0)
    BY <1>1, <1>2 DEF OwnerExact, ReadPhase, WritePhase, Signal
  <2> QED
    BY <1>2, <1>3, <1>5, <1>7, <2>1 DEF OwnerExact, WritePhase, Signal, chanVars, Between, During
<1> QED
  BY <1>2, <1>3, <1>6, <1>8, HardwareStep DEF chanVars

(* The data of a write is on the medium: the command's one interrupt.       *)
LEMMA DriveWrittenIde ==
  ASSUME IdeInv, NEW hd \in Disks, DriveWritten(hd)
  PROVE  IdeInv'
<1>1. Busy(hd) /\ drive[hd].state = "writing"
  BY DEF DriveWritten, Busy
<1>2. PICK t \in Tasks : /\ Owners = {t} /\ pc[t] \in During /\ OwnerExact(t) /\ Serves(t)
                         /\ hd = reg.dev
  BY <1>1, ActiveOwner
<1>3. UNCHANGED <<reg, chanVars, pc, req, secsDone, secsOp>> /\ intrq' = TRUE
  BY DEF DriveWritten, taskVars
<1>4. /\ drive' = [h \in Disks |-> drive'[h]] /\ \A h \in Disks \ {hd} : drive'[h] = drive[h]
      /\ drive'[hd] = IdleDrive /\ drive'[hd].state = "idle" /\ IsDrive(drive'[hd])
  BY DEF DriveWritten, IdeInv, IdeTypes, IdleDrive, IsDrive
<1>5. IdeTypes'
  BY <1>3, <1>4 DEF IdeInv, IdeTypes, chanVars
<1>6. Serves(t)'
  BY <1>2, <1>3, <1>4 DEF Serves, Busy
<1>7. OwnerExact(t)'
  <2>1. pc[t] = "sleep" /\ req[t].op = "write" /\ Signal("writing", TRUE, FALSE, 0)
    BY <1>1, <1>2 DEF OwnerExact, ReadPhase, WritePhase, Signal
  <2> QED
    BY <1>2, <1>3, <1>4, <1>6, <2>1 DEF OwnerExact, WritePhase, Signal, chanVars, Between
<1> QED
  BY <1>2, <1>3, <1>5, <1>7, HardwareStep DEF chanVars

(* intr_hd_handler: the interrupt was expected, and nothing is counted yet. *)
LEMMA IntrHdHandlerIde ==
  ASSUME IdeInv, IntrHdHandler
  PROVE  IdeInv'
<1>1. intrq
  BY DEF IntrHdHandler
<1>2. PICK t \in Tasks : Owners = {t} /\ pc[t] \in During /\ OwnerExact(t) /\ Serves(t)
  BY <1>1, ActiveOwner, IdeAssumption
<1>3. UNCHANGED <<drive, reg, holder, pc, req, secsDone, secsOp>>
  BY DEF IntrHdHandler, taskVars
<1>4. /\ pc[t] = "sleep"
      /\ Signal(IF req[t].op = "write" THEN "idle" ELSE "drq", TRUE, TRUE, 0)
  BY <1>1, <1>2 DEF OwnerExact, ReadPhase, WritePhase, Signal
<1>5. diskDone' = 1 /\ expecting' = FALSE /\ intrq' = FALSE
  BY <1>4 DEF IntrHdHandler, Signal
<1>6. IdeTypes'
  BY <1>3, <1>5 DEF IdeInv, IdeTypes
<1>7. Serves(t)'
  BY <1>2, <1>3 DEF Serves, Busy
<1>8. OwnerExact(t)'
  BY <1>3, <1>4, <1>5, <1>7 DEF OwnerExact, ReadPhase, WritePhase, Signal, Between
<1> QED
  BY <1>2, <1>3, <1>6, <1>8, HardwareStep

-----------------------------------------------------------------------------
(* Every step keeps the invariant.                                          *)
LEMMA NextIde == IdeInv /\ [Next]_vars => IdeInv'
<1> SUFFICES ASSUME IdeInv, [Next]_vars PROVE IdeInv'
  OBVIOUS
<1>1. CASE Step
  <2>1. ASSUME NEW c \in Clients, Call(c) \/ ClientStep(c) PROVE IdeInv'
    BY <2>1, CallIde, AcquireIde, SelectSectorIde, ReadTransferIde, WriteTransferIde, ReleaseIde
       DEF ClientStep
  <2>2. ASSUME NEW t \in Tasks, TaskStep(t) PROVE IdeInv'
    BY <2>2, CmdOutIde, SemaDownIde, BusyWaitIde, NapIde DEF TaskStep, CommandStep
  <2>3. ASSUME NEW hd \in Disks, DriveStep(hd) \/ DriveAccepts(hd) PROVE IdeInv'
    BY <2>3, DriveReadyIde, DriveWrittenIde, DriveAcceptsIde DEF DriveStep
  <2> QED
    BY <1>1, <2>1, <2>2, <2>3, IdentifyDiskIde, IdentifyTransferIde, IntrHdHandlerIde DEF Step
<1>2. CASE UNCHANGED vars
  <2>1. UNCHANGED <<drive, reg, intrq, holder, expecting, diskDone, pc, req, secsDone, secsOp>>
    BY <1>2 DEF vars, driveVars, chanVars, taskVars
  <2>2. Owners' = Owners /\ (Quiet => Quiet')
    BY <2>1 DEF Owners, Quiet, Busy
  <2>3. \A t \in Owners : OwnerExact(t)'
    BY <2>1 DEF IdeInv, OwnerExact, Quiet, Busy, Serves, ReadPhase, WritePhase, Signal
  <2>4. IdeTypes' /\ RequestsExact' /\ LockExact'
    BY <2>1 DEF IdeInv, IdeTypes, RequestsExact, LockExact
  <2> QED
    BY <2>2, <2>3, <2>4 DEF IdeInv
<1> QED
  BY <1>1, <1>2 DEF Next, PanicSpin

(* So it holds in every reachable state.                                    *)
LEMMA SpecIde == Spec => []IdeInv
BY InitIde, NextIde, PTL DEF Spec

(* A drive works only for the owner of the channel, on the sectors it asked *)
(* for and while it waits: the two disks never mix their commands, whatever *)
(* the number of clients and the sizes of disks, requests and commands.     *)
THEOREM DrivesServe == Spec => []DriveServesOwner
<1>1. IdeInv => DriveServesOwner
  <2> SUFFICES ASSUME IdeInv, NEW hd \in Disks, Busy(hd)
               PROVE  \E t \in Owners :
                        /\ req[t].hd = hd /\ reg.dev = hd /\ drive[hd].cmd = req[t].op
                        /\ drive[hd].lba = req[t].lba + secsDone[t] /\ drive[hd].cnt = secsOp[t]
                        /\ pc[t] \in {"sleep", "poll", "nap", "transfer", "panic"}
                        /\ \A h \in Disks \ {hd} : ~Busy(h)
    BY DEF DriveServesOwner
  <2>1. PICK t \in Tasks : Owners = {t} /\ pc[t] \in During /\ Serves(t) /\ hd = reg.dev
    BY ActiveOwner
  <2> QED
    BY <2>1 DEF Serves, During
<1> QED
  BY <1>1, SpecIde, PTL

(* The interrupt matches the command it is waited for: expecting_intr and   *)
(* disk_done are clear between two commands, and at most one completion is  *)
(* counted during one, so no ide_write returns on an older interrupt.       *)
THEOREM CompletionsMatch == Spec => []CompletionMatches
<1>1. IdeInv => CompletionMatches
  <2> SUFFICES ASSUME IdeInv PROVE CompletionMatches
    OBVIOUS
  <2>1. CASE Owners = {}
    BY <2>1 DEF IdeInv, Quiet, CompletionMatches
  <2>2. ASSUME NEW t \in Owners PROVE CompletionMatches
    <3>1. t \in Tasks /\ pc[t] \notin {"user", "lock", "gone"} /\ OwnerExact(t)
      BY <2>2, IdeAssumption DEF IdeInv, Owners, LockExact, Tasks, Between, During
    <3>2. Owners = {t}
      BY <3>1, OnlyOwner DEF IdeInv
    <3>3. pc[t] \in Between => Quiet
      BY <3>1 DEF OwnerExact
    <3>4. diskDone \in {0, 1}
      BY <3>1, <3>3 DEF IdeInv, IdeTypes, Pcs, Between, During, OwnerExact, Quiet,
                        ReadPhase, WritePhase, Signal
    <3> QED
      BY <3>2, <3>3, <3>4 DEF CompletionMatches, Quiet, Between
  <2> QED
    BY <2>1, <2>2
<1> QED
  BY <1>1, SpecIde, PTL

-----------------------------------------------------------------------------
(* The array of sectors: what is on the media, in the drives and in the     *)
(* buffers of the clients                                                   *)

(* What a sector can hold.                                                  *)
Contents == {Blank} \cup UNION {{Payload[c][i] : i \in DOMAIN Payload[c]} : c \in Clients}
Medium == [Disks -> [0 .. NSectors - 1 -> Contents]]

(* Sectors of c's request that are on the medium.                           *)
Written(c) == secsDone[c] + IF pc[c] = "sleep" /\ ~Busy(req[c].hd) THEN secsOp[c] ELSE 0

(* n sectors of s are the sectors of disk hd from lba on.                   *)
Holds(s, hd, lba, n) == Len(s) = n /\ \A i \in 1 .. n : s[i] = media[hd][lba + i - 1]

(* The buffer of the drive that works for c.                                *)
DriveData(c) ==
    LET d == drive[req[c].hd] IN
    /\ req[c].op = "read" /\ d.state = "drq" =>
          d.data \in Seq(Contents) /\ Holds(d.data, req[c].hd, req[c].lba + secsDone[c], secsOp[c])
    /\ req[c].op = "write" /\ d.state = "writing" =>
          /\ d.data \in Seq(Contents) /\ Len(d.data) = secsOp[c]
          /\ \A i \in 1 .. secsOp[c] : d.data[i] = req[c].data[secsDone[c] + i]

(* What the call of c has done so far: its commands join without gap or     *)
(* overlap, a read has the sectors it passed, a write has left its own.     *)
ClientData(c) ==
    /\ pc[c] = "user" => req[c] = NoRequest /\ buf[c] = <<>>
    /\ pc[c] # "user" => req[c] \in RequestsOf(c)
    /\ pc[c] \in {"user", "lock"} => secsDone[c] = 0
    /\ pc[c] \in {"command"} \cup During => secsDone[c] + secsOp[c] <= req[c].cnt
    /\ pc[c] = "release" => secsDone[c] = req[c].cnt
    /\ req[c].op = "read" => Holds(buf[c], req[c].hd, req[c].lba, secsDone[c])
    /\ req[c].op = "write" =>
          /\ buf[c] = <<>>
          /\ \A i \in 1 .. Written(c) : media[req[c].hd][req[c].lba + i - 1] = req[c].data[i]
    /\ pc[c] \in During => DriveData(c)

(* The inductive invariant of the refinement, together with IdeInv.         *)
DataInv ==
    /\ media \in Medium /\ buf \in [Clients -> Seq(Contents)]
    /\ \A c \in Clients : ClientData(c)

-----------------------------------------------------------------------------
(* Writing sectors onto a medium                                            *)

(* What is where after a write.                                             *)
LEMMA StoredIs ==
  ASSUME NEW m \in Medium, NEW hd \in Disks, NEW lba \in Nat, NEW s \in Seq(Contents)
  PROVE  \E f \in [0 .. NSectors - 1 -> Contents] :
            /\ Stored(m, hd, lba, s) = [m EXCEPT ![hd] = f]
            /\ \A l \in 0 .. NSectors - 1 :
                  f[l] = IF l \in lba .. lba + Len(s) - 1 THEN s[l - lba + 1] ELSE m[hd][l]
<1> DEFINE f == [l \in 0 .. NSectors - 1 |->
                   IF l \in lba .. lba + Len(s) - 1 THEN s[l - lba + 1] ELSE m[hd][l]]
<1>1. Stored(m, hd, lba, s) = [m EXCEPT ![hd] = f]
  BY DEF Stored, Medium
<1>2. ASSUME NEW l \in 0 .. NSectors - 1 PROVE f[l] \in Contents
  <2>1. NSectors \in Nat /\ Len(s) \in Nat /\ m[hd][l] \in Contents
    BY IdeAssumption DEF Medium
  <2>2. l \in lba .. lba + Len(s) - 1 => l - lba + 1 \in 1 .. Len(s)
    BY <2>1
  <2> QED
    BY <2>1, <2>2
<1>3. f \in [0 .. NSectors - 1 -> Contents]
  BY <1>2
<1>4. \A l \in 0 .. NSectors - 1 :
        f[l] = IF l \in lba .. lba + Len(s) - 1 THEN s[l - lba + 1] ELSE m[hd][l]
  OBVIOUS
<1> HIDE DEF f
<1> QED
  BY <1>1, <1>3, <1>4

(* It is a medium, and the other disks are as before.                       *)
LEMMA StoredMedium ==
  ASSUME NEW m \in Medium, NEW hd \in Disks, NEW lba \in Nat, NEW s \in Seq(Contents)
  PROVE  /\ Stored(m, hd, lba, s) \in Medium
         /\ \A h \in Disks \ {hd} : Stored(m, hd, lba, s)[h] = m[h]
<1>1. PICK f \in [0 .. NSectors - 1 -> Contents] : Stored(m, hd, lba, s) = [m EXCEPT ![hd] = f]
  BY StoredIs
<1> QED
  BY <1>1 DEF Medium

(* The sectors of the disk that is written.                                 *)
LEMMA StoredAt ==
  ASSUME NEW m \in Medium, NEW hd \in Disks, NEW lba \in Nat, NEW s \in Seq(Contents),
         NEW l \in 0 .. NSectors - 1
  PROVE  /\ l \in lba .. lba + Len(s) - 1 => Stored(m, hd, lba, s)[hd][l] = s[l - lba + 1]
         /\ l \notin lba .. lba + Len(s) - 1 => Stored(m, hd, lba, s)[hd][l] = m[hd][l]
<1>1. PICK f \in [0 .. NSectors - 1 -> Contents] :
        /\ Stored(m, hd, lba, s) = [m EXCEPT ![hd] = f]
        /\ \A i \in 0 .. NSectors - 1 :
              f[i] = IF i \in lba .. lba + Len(s) - 1 THEN s[i - lba + 1] ELSE m[hd][i]
  BY StoredIs
<1>2. Stored(m, hd, lba, s)[hd] = f
  BY <1>1 DEF Medium
<1>3. f[l] = IF l \in lba .. lba + Len(s) - 1 THEN s[l - lba + 1] ELSE m[hd][l]
  BY <1>1
<1> QED
  BY <1>2, <1>3

(* Two media that agree sector by sector are the same.                      *)
LEMMA SameMedium ==
  ASSUME NEW m \in Medium, NEW k \in Medium,
         \A h \in Disks : \A l \in 0 .. NSectors - 1 : m[h][l] = k[h][l]
  PROVE  m = k
<1>1. ASSUME NEW h \in Disks PROVE m[h] = k[h]
  <2>1. m[h] \in [0 .. NSectors - 1 -> Contents] /\ k[h] \in [0 .. NSectors - 1 -> Contents]
    BY DEF Medium
  <2>2. /\ m[h] = [l \in 0 .. NSectors - 1 |-> m[h][l]]
        /\ k[h] = [l \in 0 .. NSectors - 1 |-> k[h][l]]
    BY <2>1
  <2> QED
    BY <2>2
<1>2. m = [h \in Disks |-> m[h]] /\ k = [h \in Disks |-> k[h]]
  BY DEF Medium
<1> QED
  BY <1>1, <1>2

(* What is there already can be written again.                              *)
LEMMA StoredAgain ==
  ASSUME NEW m \in Medium, NEW hd \in Disks, NEW lba \in Nat, NEW s \in Seq(Contents),
         \A i \in 1 .. Len(s) : m[hd][lba + i - 1] = s[i]
  PROVE  Stored(m, hd, lba, s) = m
<1> DEFINE k == Stored(m, hd, lba, s)
<1>1. k \in Medium /\ \A h \in Disks \ {hd} : k[h] = m[h]
  BY StoredMedium
<1>2. ASSUME NEW l \in 0 .. NSectors - 1
      PROVE  k[hd][l] = m[hd][l]
  <2>1. /\ l \in lba .. lba + Len(s) - 1 => k[hd][l] = s[l - lba + 1]
        /\ l \notin lba .. lba + Len(s) - 1 => k[hd][l] = m[hd][l]
    BY StoredAt
  <2> HIDE DEF k
  <2>2. CASE l \in lba .. lba + Len(s) - 1
    <3>1. l - lba + 1 \in 1 .. Len(s) /\ lba + (l - lba + 1) - 1 = l
      BY <2>2, IdeAssumption
    <3>2. m[hd][l] = s[l - lba + 1]
      BY <3>1
    <3> QED
      BY <2>1, <2>2, <3>2
  <2> QED
    BY <2>1, <2>2
<1> HIDE DEF k
<1>3. \A h \in Disks : \A l \in 0 .. NSectors - 1 : k[h][l] = m[h][l]
  BY <1>1, <1>2
<1>4. k = m
  BY <1>1, <1>3, SameMedium
<1> QED
  BY <1>4 DEF k

(* A piece of s, written where it belongs before all of s, does not show.   *)
LEMMA StoredPiece ==
  ASSUME NEW m \in Medium, NEW hd \in Disks, NEW lba \in Nat, NEW s \in Seq(Contents),
         NEW f \in Nat, NEW d \in Seq(Contents), lba <= f, f + Len(d) <= lba + Len(s)
  PROVE  Stored(Stored(m, hd, f, d), hd, lba, s) = Stored(m, hd, lba, s)
<1> DEFINE k == Stored(m, hd, f, d)
           a == Stored(k, hd, lba, s)
           b == Stored(m, hd, lba, s)
<1>1. /\ k \in Medium /\ \A h \in Disks \ {hd} : k[h] = m[h]
      /\ b \in Medium /\ \A h \in Disks \ {hd} : b[h] = m[h]
  BY StoredMedium
<1>2. \A l \in 0 .. NSectors - 1 : l \notin f .. f + Len(d) - 1 => k[hd][l] = m[hd][l]
  BY StoredAt
<1> HIDE DEF k
<1>3. a \in Medium /\ \A h \in Disks \ {hd} : a[h] = k[h]
  BY <1>1, StoredMedium
<1>4. ASSUME NEW l \in 0 .. NSectors - 1
      PROVE  a[hd][l] = b[hd][l]
  <2>1. /\ l \in lba .. lba + Len(s) - 1 => a[hd][l] = s[l - lba + 1]
        /\ l \notin lba .. lba + Len(s) - 1 => a[hd][l] = k[hd][l]
    BY <1>1, StoredAt
  <2>2. /\ l \in lba .. lba + Len(s) - 1 => b[hd][l] = s[l - lba + 1]
        /\ l \notin lba .. lba + Len(s) - 1 => b[hd][l] = m[hd][l]
    BY StoredAt
  <2>3. l \in f .. f + Len(d) - 1 => l \in lba .. lba + Len(s) - 1
    <3>1. Len(d) \in Nat /\ Len(s) \in Nat /\ l \in Int
      OBVIOUS
    <3> QED
      BY <3>1
  <2> HIDE DEF a, b
  <2> QED
    BY <1>2, <2>1, <2>2, <2>3
<1> HIDE DEF a, b
<1>5. \A h \in Disks : \A l \in 0 .. NSectors - 1 : a[h][l] = b[h][l]
  BY <1>1, <1>3, <1>4
<1>6. a = b
  BY <1>1, <1>3, <1>5, SameMedium
<1> QED
  BY <1>6 DEF a, b, k

(* Sectors that continue others.                                            *)
LEMMA Joined ==
  ASSUME NEW s \in Seq(Contents), NEW d \in Seq(Contents), NEW hd, NEW lba \in Nat,
         NEW n \in Nat, NEW k \in Nat, Holds(s, hd, lba, n), Holds(d, hd, lba + n, k)
  PROVE  s \o d \in Seq(Contents) /\ Holds(s \o d, hd, lba, n + k) /\ SubSeq(d, 1, k) = d
<1>1. Len(s) = n /\ Len(d) = k
  BY DEF Holds
<1>2. s \o d \in Seq(Contents) /\ Len(s \o d) = n + k
  BY <1>1
<1>3. ASSUME NEW i \in 1 .. n + k PROVE (s \o d)[i] = media[hd][lba + i - 1]
  <2>1. CASE i <= n
    <3>1. i \in 1 .. n /\ (s \o d)[i] = s[i]
      BY <1>1, <2>1
    <3> QED
      BY <3>1 DEF Holds
  <2>2. CASE i > n
    <3>1. i - n \in 1 .. k /\ (s \o d)[i] = d[i - n] /\ lba + n + (i - n) - 1 = lba + i - 1
      BY <1>1, <2>2
    <3>2. d[i - n] = media[hd][lba + n + (i - n) - 1]
      BY <3>1 DEF Holds
    <3> QED
      BY <3>1, <3>2
  <2>3. i <= n \/ i > n
    OBVIOUS
  <2> QED
    BY <2>1, <2>2, <2>3
<1>4. SubSeq(d, 1, k) = d
  BY <1>1
<1> QED
  BY <1>2, <1>3, <1>4 DEF Holds

(* The k elements of a sequence behind the first n.                         *)
LEMMA Slice ==
  ASSUME NEW s \in Seq(Contents), NEW n \in Nat, NEW k \in Nat, n + k <= Len(s)
  PROVE  LET d == SubSeq(s, n + 1, n + k) IN
         d \in Seq(Contents) /\ Len(d) = k /\ \A i \in 1 .. k : d[i] = s[n + i]
<1> DEFINE a == n + 1
           b == n + k
<1>1. a \in Int /\ b \in Int /\ \A i \in a .. b : s[i] \in Contents
  OBVIOUS
<1>2. (IF a <= b THEN b - a + 1 ELSE 0) = k /\ b - a + 1 = k /\ \A i \in 1 .. k : a + i - 1 = n + i
  OBVIOUS
<1> HIDE DEF a, b
<1>3. /\ SubSeq(s, a, b) \in Seq(Contents)
      /\ Len(SubSeq(s, a, b)) = IF a <= b THEN b - a + 1 ELSE 0
      /\ \A i \in 1 .. b - a + 1 : SubSeq(s, a, b)[i] = s[a + i - 1]
  BY <1>1, SubSeqProperties
<1>4. /\ SubSeq(s, a, b) \in Seq(Contents) /\ Len(SubSeq(s, a, b)) = k
      /\ \A i \in 1 .. k : SubSeq(s, a, b)[i] = s[n + i]
  BY <1>2, <1>3
<1> QED
  BY <1>4 DEF a, b

(* Sectors of a medium.                                                     *)
LEMMA SectorsOfMedium ==
  ASSUME NEW m \in Medium, NEW hd \in Disks, NEW lba \in Nat, NEW n \in Nat,
         lba + n <= NSectors
  PROVE  LET s == SectorsAt(m, hd, lba, n) IN
         s \in Seq(Contents) /\ Len(s) = n /\ \A i \in 1 .. n : s[i] = m[hd][lba + i - 1]
<1> DEFINE s == [i \in 1 .. n |-> m[hd][lba + i - 1]]
<1>1. ASSUME NEW i \in 1 .. n PROVE m[hd][lba + i - 1] \in Contents
  <2>1. lba + i - 1 \in 0 .. NSectors - 1
    BY IdeAssumption
  <2> QED
    BY <2>1 DEF Medium
<1>2. s \in [1 .. n -> Contents]
  BY <1>1
<1>3. s \in Seq(Contents) /\ Len(s) = n
  BY <1>2
<1> QED
  BY <1>3 DEF SectorsAt

(* What ide_read and ide_write are called with.                             *)
LEMMA RequestShape ==
  ASSUME NEW c \in Clients, NEW r \in RequestsOf(c)
  PROVE  /\ r.hd \in Disks /\ r.lba \in Nat /\ r.cnt \in Nat \ {0} /\ r.lba + r.cnt <= NSectors
         /\ r.op \in {"read", "write"}
         /\ r.op = "write" => r.data \in Seq(Contents) /\ Len(r.data) = r.cnt
<1>1. PICK h \in Disks, g \in Ranges :
        \/ r = [op |-> "read", hd |-> h, lba |-> g[1], cnt |-> g[2], data |-> <<>>]
        \/ r = [op |-> "write", hd |-> h, lba |-> g[1], cnt |-> g[2],
                data |-> SubSeq(Payload[c], 1, g[2])]
  BY DEF RequestsOf
<1>2. g[1] \in Nat /\ g[2] \in Nat \ {0} /\ g[1] + g[2] <= NSectors /\ g[2] <= Len(Payload[c])
  BY IdeAssumption
<1>3. SubSeq(Payload[c], 1, g[2]) \in Seq(Contents) /\ Len(SubSeq(Payload[c], 1, g[2])) = g[2]
  <2>1. Payload[c] \in Seq({Payload[c][i] : i \in DOMAIN Payload[c]})
    BY IdeAssumption
  <2>2. {Payload[c][i] : i \in DOMAIN Payload[c]} \subseteq Contents
    BY DEF Contents
  <2>3. Payload[c] \in Seq(Contents)
    BY <2>1, <2>2
  <2> QED
    BY <1>2, <2>3
<1>4. CASE r = [op |-> "read", hd |-> h, lba |-> g[1], cnt |-> g[2], data |-> <<>>]
  BY <1>2, <1>4
<1>5. CASE r = [op |-> "write", hd |-> h, lba |-> g[1], cnt |-> g[2],
                data |-> SubSeq(Payload[c], 1, g[2])]
  BY <1>2, <1>3, <1>5
<1> QED
  BY <1>1, <1>4, <1>5

-----------------------------------------------------------------------------
(* The invariant                                                            *)

(* A client that is in no call, or waits for the lock, does not depend on   *)
(* the drives and the media; one whose part of the state is left alone      *)
(* keeps its data.                                                          *)
LEMMA FrameData ==
  ASSUME NEW c \in Clients, ClientData(c), pc'[c] = pc[c], req'[c] = req[c],
         secsDone'[c] = secsDone[c], secsOp'[c] = secsOp[c], buf'[c] = buf[c],
         pc[c] \in {"user", "lock"} \/ UNCHANGED <<media, drive>>
  PROVE  ClientData(c)'
<1>1. CASE UNCHANGED <<media, drive>>
  BY <1>1 DEF ClientData, DriveData, Written, Holds, Busy
<1>2. CASE pc[c] \in {"user", "lock"}
  <2>1. secsDone[c] = 0 /\ pc[c] \notin During \cup {"sleep", "command", "release"}
    BY <1>2 DEF ClientData, During
  <2>2. Written(c)' = 0
    BY <2>1 DEF Written
  <2>3. Holds(buf[c], req[c].hd, req[c].lba, 0) <=> Len(buf[c]) = 0
    BY DEF Holds
  <2>4. Holds(buf[c], req[c].hd, req[c].lba, 0)' <=> Len(buf[c])' = 0
    BY DEF Holds
  <2> QED
    BY <2>1, <2>2, <2>3, <2>4 DEF ClientData
<1> QED
  BY <1>1, <1>2

(* A step of the client that owns the channel, or of its drive: the others  *)
(* are in no call or wait for the lock.                                     *)
LEMMA OwnerData ==
  ASSUME IdeInv, DataInv, NEW c \in Clients, pc[c] \notin {"user", "lock"},
         media' \in Medium, buf' \in [Clients -> Seq(Contents)],
         \A u \in Clients \ {c} : /\ pc'[u] = pc[u] /\ req'[u] = req[u] /\ buf'[u] = buf[u]
                                  /\ secsDone'[u] = secsDone[u] /\ secsOp'[u] = secsOp[u],
         ClientData(c)'
  PROVE  DataInv'
<1>1. ASSUME NEW u \in Clients \ {c} PROVE ClientData(u)'
  <2>1. pc[u] \in {"user", "lock"}
    BY DEF IdeInv, LockExact
  <2> QED
    BY <2>1, FrameData DEF DataInv
<1> QED
  BY <1>1 DEF DataInv

(* A step that changes nothing of any client, while ide_init runs.          *)
LEMMA MainData ==
  ASSUME IdeInv, DataInv, pc[Main] # "gone", UNCHANGED <<media, buf>>,
         \A c \in Clients : /\ pc'[c] = pc[c] /\ req'[c] = req[c]
                            /\ secsDone'[c] = secsDone[c] /\ secsOp'[c] = secsOp[c]
  PROVE  DataInv'
<1>1. ASSUME NEW c \in Clients PROVE ClientData(c)'
  <2>1. pc[c] = "user"
    BY DEF IdeInv, LockExact
  <2> QED
    BY <2>1, FrameData DEF DataInv
<1> QED
  BY <1>1 DEF DataInv

(* Blank media and no requests.                                             *)
LEMMA InitData == Init => DataInv
<1> SUFFICES ASSUME Init PROVE DataInv
  OBVIOUS
<1>1. media \in Medium /\ buf \in [Clients -> Seq(Contents)]
  BY DEF Init, Medium, Contents
<1>2. ASSUME NEW c \in Clients PROVE ClientData(c)
  <2>1. c \in Tasks /\ c # Main
    BY IdeAssumption DEF Tasks
  <2>2. pc[c] = "user" /\ req[c] = NoRequest /\ buf[c] = <<>> /\ secsDone[c] = 0
    BY <2>1 DEF Init
  <2> QED
    BY <2>2 DEF ClientData, NoRequest, During
<1> QED
  BY <1>1, <1>2 DEF DataInv

(* What is known of a client and its request.                               *)
LEMMA ClientFacts ==
  ASSUME IdeInv, DataInv, NEW c \in Clients
  PROVE  /\ c \in Tasks /\ c # Main /\ secsDone[c] \in Nat /\ secsOp[c] \in Nat
         /\ ClientData(c) /\ buf[c] \in Seq(Contents)
         /\ pc[c] # "user" =>
              LET r == req[c] IN
              /\ r.hd \in Disks /\ r.lba \in Nat /\ r.cnt \in Nat \ {0} /\ r.lba + r.cnt <= NSectors
              /\ r.op \in {"read", "write"}
              /\ r.op = "write" => r.data \in Seq(Contents) /\ Len(r.data) = r.cnt
<1>1. c \in Tasks /\ c # Main /\ ClientData(c) /\ buf[c] \in Seq(Contents)
  BY IdeAssumption DEF Tasks, DataInv
<1>2. secsDone[c] \in Nat /\ secsOp[c] \in Nat
  BY <1>1 DEF IdeInv, IdeTypes
<1>3. pc[c] # "user" => req[c] \in RequestsOf(c)
  BY <1>1 DEF ClientData
<1> QED
  BY <1>1, <1>2, <1>3, RequestShape

(* A client calls.                                                          *)
LEMMA CallData ==
  ASSUME IdeInv, DataInv, NEW c \in Clients, Call(c)
  PROVE  DataInv'
<1>1. c \in Tasks /\ ClientData(c) /\ pc[c] = "user"
  BY ClientFacts DEF Call
<1>2. PICK r \in RequestsOf(c) : req' = [req EXCEPT ![c] = r]
  BY DEF Call
<1>3. /\ pc'[c] = "lock" /\ req'[c] = r /\ UNCHANGED <<media, drive, secsDone, secsOp, buf>>
      /\ \A u \in Clients \ {c} : pc'[u] = pc[u] /\ req'[u] = req[u]
  BY <1>1, <1>2 DEF Call, GoTo, IdeInv, IdeTypes, Tasks, driveVars
<1>4. secsDone[c] = 0 /\ buf[c] = <<>>
  BY <1>1 DEF ClientData
<1>5. ClientData(c)'
  <2>1. Written(c)' = 0
    BY <1>3, <1>4 DEF Written
  <2>2. Holds(<<>>, r.hd, r.lba, 0)'
    BY DEF Holds
  <2> QED
    BY <1>3, <1>4, <2>1, <2>2 DEF ClientData, During
<1>6. ASSUME NEW u \in Clients \ {c} PROVE ClientData(u)'
  BY <1>3, FrameData DEF DataInv
<1> QED
  BY <1>3, <1>5, <1>6 DEF DataInv

(* A client that goes on with the same request, sectors and buffer, and     *)
(* neither waits for the drive to write nor has waited for it.              *)
LEMMA GoOnData ==
  ASSUME IdeInv, DataInv, NEW c \in Clients, pc[c] \notin {"user", "release"},
         UNCHANGED <<media, req, buf, secsDone>>, req[c].op = "write" => pc[c] # "sleep",
         pc'[c] \notin {"user", "lock", "release"}, req[c].op = "write" => pc'[c] # "sleep",
         \A u \in Clients \ {c} : pc'[u] = pc[u] /\ secsOp'[u] = secsOp[u],
         pc[c] = "lock" => UNCHANGED drive,
         pc'[c] \in {"command"} \cup During => secsDone[c] + secsOp'[c] <= req[c].cnt,
         pc'[c] \in During => DriveData(c)'
  PROVE  DataInv'
<1>1. ClientData(c)
  BY ClientFacts
<1>2. ClientData(c)'
  <2>1. req[c].op = "write" => Written(c)' = Written(c)
    BY DEF Written
  <2>2. Holds(buf[c], req[c].hd, req[c].lba, secsDone[c]) =>
            Holds(buf[c], req[c].hd, req[c].lba, secsDone[c])'
    BY DEF Holds
  <2> QED
    BY <1>1, <2>1, <2>2 DEF ClientData
<1>3. ASSUME NEW u \in Clients \ {c} PROVE ClientData(u)'
  <2>1. pc[u] \in {"user", "lock"} \/ UNCHANGED drive
    BY DEF IdeInv, LockExact
  <2> QED
    BY <2>1, FrameData DEF DataInv
<1> QED
  BY <1>2, <1>3 DEF DataInv

(* The steps that move no data: lock_acquire, select_sector, cmd_out, and   *)
(* busy_wait with its naps.                                                 *)
LEMMA QuietData ==
  ASSUME IdeInv, DataInv, NEW c \in Clients,
         Acquire(c) \/ SelectSector(c) \/ CmdOut(c) \/ BusyWait(c) \/ Nap(c)
  PROVE  DataInv'
<1>0. /\ c \in Tasks /\ c # Main /\ secsDone[c] \in Nat /\ secsOp[c] \in Nat /\ ClientData(c)
      /\ pc[c] # "user" => req[c].hd \in Disks /\ req[c].cnt \in Nat \ {0}
  BY ClientFacts
<1>1. CASE Acquire(c)
  <2>1. pc[c] = "lock" /\ UNCHANGED <<media, drive, req, buf, secsDone, secsOp>>
    BY <1>1 DEF Acquire
  <2>2. pc'[c] = "select" /\ \A u \in Clients \ {c} : pc'[u] = pc[u]
    BY <1>0, <1>1 DEF Acquire, GoTo, IdeInv, IdeTypes, Tasks
  <2> QED
    BY <2>1, <2>2, GoOnData DEF During
<1>2. CASE SelectSector(c)
  <2>1. pc[c] = "select" /\ UNCHANGED <<media, req, buf, secsDone>>
    BY <1>2 DEF SelectSector
  <2>2. /\ pc'[c] = "command" /\ secsOp'[c] = NextOp(c)
        /\ \A u \in Clients \ {c} : pc'[u] = pc[u] /\ secsOp'[u] = secsOp[u]
    BY <1>0, <1>2 DEF SelectSector, GoTo, IdeInv, IdeTypes, Tasks
  <2>3. secsDone[c] < req[c].cnt
    BY <2>1 DEF IdeInv, RequestsExact
  <2>4. secsDone[c] + NextOp(c) <= req[c].cnt
    BY <1>0, <2>1, <2>3, IdeAssumption DEF NextOp
  <2> QED
    BY <2>1, <2>2, <2>4, GoOnData DEF During
<1>3. CASE CmdOut(c)
  <2>1. pc[c] = "command" /\ UNCHANGED <<media, req, buf, secsDone, secsOp>>
    BY <1>3 DEF CmdOut
  <2>2. /\ pc'[c] = (IF req[c].op = "write" THEN "poll" ELSE "sleep")
        /\ \A u \in Clients \ {c} : pc'[u] = pc[u]
    BY <1>0, <1>3 DEF CmdOut, GoTo, IdeInv, IdeTypes, Tasks
  <2>3. secsDone[c] + secsOp[c] <= req[c].cnt
    BY <1>0, <2>1 DEF ClientData
  <2>4. reg.dev = req[c].hd
    <3>1. OwnerExact(c)
      BY <1>0, <2>1, OnlyOwner DEF IdeInv
    <3> QED
      BY <2>1, <3>1 DEF OwnerExact
  <2>5. drive'[req[c].hd].state \in {"accepting", "reading"}
    BY <1>0, <1>3, <2>1, <2>4 DEF CmdOut, StartCommand, IdeInv, IdeTypes
  <2>6. DriveData(c)'
    BY <2>1, <2>5 DEF DriveData
  <2> QED
    BY <2>1, <2>2, <2>3, <2>6, GoOnData
<1>4. CASE BusyWait(c) \/ Nap(c)
  <2>1. pc[c] \in {"poll", "nap"} /\ UNCHANGED <<media, drive, req, buf, secsDone, secsOp>>
    BY <1>4 DEF BusyWait, Nap, driveVars
  <2>2. PICK p \in {"transfer", "nap", "panic", "poll"} : GoTo(c, p)
    BY <1>4 DEF BusyWait, Nap
  <2>3. pc'[c] = p /\ \A u \in Clients \ {c} : pc'[u] = pc[u]
    BY <1>0, <2>2 DEF GoTo, IdeInv, IdeTypes, Tasks
  <2>4. DriveData(c) /\ secsDone[c] + secsOp[c] <= req[c].cnt
    BY <1>0, <2>1 DEF ClientData, During
  <2>5. DriveData(c)'
    BY <2>1, <2>4 DEF DriveData, Holds
  <2> QED
    BY <2>1, <2>3, <2>4, <2>5, GoOnData
<1> QED
  BY <1>1, <1>2, <1>3, <1>4

(* sema_down: the sectors of a write count as done.                         *)
LEMMA SemaDownData ==
  ASSUME IdeInv, DataInv, NEW c \in Clients, SemaDown(c)
  PROVE  DataInv'
<1>0. /\ c \in Tasks /\ c # Main /\ secsDone[c] \in Nat /\ secsOp[c] \in Nat /\ ClientData(c)
      /\ pc[c] # "user" => req[c].hd \in Disks /\ req[c].cnt \in Nat \ {0}
  BY ClientFacts
<1>1. /\ pc[c] = "sleep" /\ UNCHANGED <<media, drive, reg, req, buf, secsOp>>
      /\ diskDone > 0 /\ diskDone \in Nat
  BY DEF SemaDown, driveVars, IdeInv, IdeTypes
<1>2. DriveData(c) /\ secsDone[c] + secsOp[c] <= req[c].cnt
  BY <1>0, <1>1 DEF ClientData, During
<1>3. CASE req[c].op # "write"
  <2>1. GoTo(c, "poll") /\ UNCHANGED secsDone
    BY <1>3 DEF SemaDown
  <2>2. pc'[c] = "poll" /\ \A u \in Clients \ {c} : pc'[u] = pc[u]
    BY <1>0, <2>1 DEF GoTo, IdeInv, IdeTypes, Tasks
  <2>3. DriveData(c)'
    BY <1>1, <1>2, <2>1 DEF DriveData, Holds
  <2> QED
    BY <1>1, <1>2, <1>3, <2>1, <2>2, <2>3, GoOnData
<1>4. CASE req[c].op = "write"
  <2> DEFINE p == IF secsDone'[c] < req[c].cnt THEN "select" ELSE "release"
  <2>1. GoTo(c, p) /\ secsDone' = [secsDone EXCEPT ![c] = @ + secsOp[c]]
    BY <1>4 DEF SemaDown
  <2>2. /\ pc'[c] = p /\ secsDone'[c] = secsDone[c] + secsOp[c]
        /\ \A u \in Clients \ {c} : pc'[u] = pc[u] /\ secsDone'[u] = secsDone[u]
    BY <1>0, <2>1 DEF GoTo, IdeInv, IdeTypes, Tasks
  <2>3. drive[req[c].hd].state = "idle"
    <3>1. OwnerExact(c)
      BY <1>0, <1>1, OnlyOwner DEF IdeInv
    <3> QED
      BY <1>1, <1>4, <3>1 DEF OwnerExact, Serves, WritePhase, Signal, During
  <2>4. Written(c) = secsDone[c] + secsOp[c] /\ Written(c)' = secsDone'[c]
    BY <1>0, <1>1, <2>2, <2>3 DEF Written, Busy
  <2>5. p = "release" => secsDone'[c] = req[c].cnt
    BY <1>0, <1>1, <1>2, <2>2
  <2>6. p \notin {"user", "lock", "command"} \cup During
    BY DEF During
  <2>7. ClientData(c)'
    BY <1>0, <1>1, <1>4, <2>2, <2>4, <2>5, <2>6 DEF ClientData
  <2> QED
    BY <1>1, <2>2, <2>7, OwnerData DEF DataInv
<1> QED
  BY <1>3, <1>4

(* read_from_sector: the next sectors of the medium.                        *)
LEMMA ReadTransferData ==
  ASSUME IdeInv, DataInv, NEW c \in Clients, ReadTransfer(c)
  PROVE  DataInv'
<1> DEFINE r == req[c]
           d == drive[r.hd].data
           p == IF secsDone'[c] < r.cnt THEN "select" ELSE "release"
<1>0. /\ c \in Tasks /\ c # Main /\ secsDone[c] \in Nat /\ secsOp[c] \in Nat /\ ClientData(c)
      /\ buf[c] \in Seq(Contents)
      /\ pc[c] # "user" => r.hd \in Disks /\ r.cnt \in Nat \ {0} /\ r.lba \in Nat
  BY ClientFacts
<1>1. pc[c] = "transfer" /\ r.op = "read" /\ UNCHANGED <<media, req, secsOp>>
  BY DEF ReadTransfer
<1>2. OwnerExact(c) /\ reg.dev = r.hd /\ drive[r.hd].state = "drq"
  BY <1>0, <1>1, OnlyOwner DEF IdeInv, OwnerExact, Serves, ReadPhase, Signal, During
<1>3. /\ d \in Seq(Contents) /\ Holds(d, r.hd, r.lba + secsDone[c], secsOp[c])
      /\ secsDone[c] + secsOp[c] <= r.cnt /\ Holds(buf[c], r.hd, r.lba, secsDone[c])
  BY <1>0, <1>1, <1>2 DEF ClientData, DriveData, During
<1>4. /\ buf' = [buf EXCEPT ![c] = @ \o SubSeq(d, 1, secsOp[c])]
      /\ secsDone' = [secsDone EXCEPT ![c] = @ + secsOp[c]] /\ GoTo(c, p)
  BY <1>1, <1>2 DEF ReadTransfer
<1>5. /\ pc'[c] = p /\ secsDone'[c] = secsDone[c] + secsOp[c]
      /\ \A u \in Clients \ {c} : pc'[u] = pc[u] /\ secsDone'[u] = secsDone[u]
  BY <1>0, <1>4 DEF GoTo, IdeInv, IdeTypes, Tasks
<1>6. /\ buf[c] \o d \in Seq(Contents) /\ SubSeq(d, 1, secsOp[c]) = d
      /\ Holds(buf[c] \o d, r.hd, r.lba, secsDone[c] + secsOp[c])
  <2> HIDE DEF r, d, p
  <2>1. r.lba \in Nat /\ buf[c] \in Seq(Contents) /\ secsDone[c] \in Nat /\ secsOp[c] \in Nat
    BY <1>0, <1>1
  <2> QED
    BY <1>3, <2>1, Joined
<1>7. /\ buf'[c] = buf[c] \o d /\ buf' \in [Clients -> Seq(Contents)]
      /\ \A u \in Clients \ {c} : buf'[u] = buf[u]
  <2> HIDE DEF d
  <2>1. buf' = [buf EXCEPT ![c] = buf[c] \o d]
    BY <1>4, <1>6
  <2> QED
    BY <1>6, <2>1 DEF DataInv
<1>8. p \notin {"user", "lock", "command"} \cup During /\ (p = "release" => secsDone'[c] = r.cnt)
  <2>1. p \notin {"user", "lock", "command"} \cup During
    BY DEF During
  <2>2. r.cnt \in Nat /\ secsDone'[c] \in Nat /\ secsDone'[c] <= r.cnt
    BY <1>0, <1>1, <1>3, <1>5
  <2> QED
    BY <2>1, <2>2
<1> HIDE DEF p, d
<1>9. ClientData(c)'
  <2>1. Holds(buf[c], r.hd, r.lba, secsDone[c])' <=> Holds(buf'[c], r.hd, r.lba, secsDone'[c])
    BY <1>1 DEF Holds
  <2>2. Holds(buf[c], r.hd, r.lba, secsDone[c])'
    BY <1>5, <1>6, <1>7, <2>1
  <2> QED
    BY <1>0, <1>1, <1>5, <1>8, <2>2 DEF ClientData
<1> QED
  BY <1>1, <1>5, <1>7, <1>9, OwnerData DEF DataInv

(* write2sector: the next sectors of the request.                           *)
LEMMA WriteTransferData ==
  ASSUME IdeInv, DataInv, NEW c \in Clients, WriteTransfer(c)
  PROVE  DataInv'
<1> DEFINE r == req[c]
           d == SubSeq(r.data, secsDone[c] + 1, secsDone[c] + secsOp[c])
<1>0. /\ c \in Tasks /\ c # Main /\ secsDone[c] \in Nat /\ secsOp[c] \in Nat /\ ClientData(c)
      /\ pc[c] # "user" => /\ r.hd \in Disks /\ r.cnt \in Nat \ {0} /\ r.lba \in Nat
                           /\ r.op = "write" => r.data \in Seq(Contents) /\ Len(r.data) = r.cnt
  BY ClientFacts
<1>1. /\ pc[c] = "transfer" /\ r.op = "write" /\ GoTo(c, "sleep")
      /\ UNCHANGED <<media, req, secsDone, secsOp, buf>>
  BY DEF WriteTransfer
<1>2. OwnerExact(c) /\ reg.dev = r.hd
  BY <1>0, <1>1, OnlyOwner DEF IdeInv, OwnerExact, Serves, During
<1>3. secsDone[c] + secsOp[c] <= r.cnt
  BY <1>0, <1>1 DEF ClientData, During
<1>4. pc'[c] = "sleep" /\ \A u \in Clients \ {c} : pc'[u] = pc[u]
  BY <1>0, <1>1 DEF GoTo, IdeInv, IdeTypes, Tasks
<1>5. drive'[r.hd].state = "writing" /\ drive'[r.hd].data = d
  <2>1. IsDrive(drive[r.hd])
    BY <1>0, <1>1 DEF IdeInv, IdeTypes
  <2>2. drive' = [drive EXCEPT ![r.hd].state = "writing", ![r.hd].data = d]
    BY <1>2 DEF WriteTransfer
  <2> HIDE DEF d
  <2>3. drive'[r.hd] = [drive[r.hd] EXCEPT !.state = "writing", !.data = d]
    BY <1>0, <1>1, <2>2 DEF IdeInv, IdeTypes
  <2> QED
    BY <2>1, <2>3 DEF IsDrive
<1>6. /\ d \in Seq(Contents) /\ Len(d) = secsOp[c]
      /\ \A i \in 1 .. secsOp[c] : d[i] = r.data[secsDone[c] + i]
  <2>1. /\ r.data \in Seq(Contents) /\ secsDone[c] + secsOp[c] <= Len(r.data)
        /\ secsDone[c] \in Nat /\ secsOp[c] \in Nat
    BY <1>0, <1>1, <1>3
  <2> HIDE DEF r
  <2> QED
    BY <2>1, Slice
<1> HIDE DEF d
<1>7. DriveData(c)'
  BY <1>1, <1>5, <1>6 DEF DriveData
<1>8. Written(c)' = secsDone[c] /\ Written(c) = secsDone[c]
  BY <1>0, <1>1, <1>4, <1>5 DEF Written, Busy
<1>9. ClientData(c)'
  BY <1>0, <1>1, <1>3, <1>4, <1>7, <1>8 DEF ClientData
<1> QED
  BY <1>1, <1>4, <1>9, OwnerData DEF DataInv

(* lock_release and return.                                                 *)
LEMMA ReleaseData ==
  ASSUME IdeInv, DataInv, NEW c \in Clients, Release(c)
  PROVE  DataInv'
<1>0. c \in Tasks /\ pc[c] = "release"
  BY ClientFacts DEF Release
<1>1. /\ pc'[c] = "user" /\ req'[c] = NoRequest /\ secsDone'[c] = 0 /\ secsOp'[c] = 0
      /\ \A u \in Clients \ {c} : /\ pc'[u] = pc[u] /\ req'[u] = req[u]
                                  /\ secsDone'[u] = secsDone[u] /\ secsOp'[u] = secsOp[u]
  BY <1>0 DEF Release, GoTo, IdeInv, IdeTypes, Tasks
<1>2. /\ buf' \in [Clients -> Seq(Contents)] /\ buf'[c] = <<>> /\ media' = media
      /\ \A u \in Clients \ {c} : buf'[u] = buf[u]
  BY DEF Release, DataInv, driveVars
<1>3. ClientData(c)'
  BY <1>1, <1>2 DEF ClientData, During, NoRequest
<1> QED
  BY <1>0, <1>1, <1>2, <1>3, OwnerData DEF DataInv

(* The client that a busy drive works for, or ide_init.                     *)
LEMMA ServedClient ==
  ASSUME IdeInv, DataInv, NEW hd \in Disks, Busy(hd)
  PROVE  \/ pc[Main] # "gone"
         \/ \E c \in Clients : /\ pc[c] \in During /\ OwnerExact(c) /\ Serves(c)
                               /\ hd = reg.dev /\ hd = req[c].hd
<1>1. PICK t \in Tasks : /\ Owners = {t} /\ pc[t] \in During /\ OwnerExact(t) /\ Serves(t)
                         /\ hd = reg.dev
  BY ActiveOwner
<1>2. hd = req[t].hd
  BY <1>1 DEF Serves
<1> QED
  BY <1>1, <1>2 DEF Tasks, During

(* The drive has read the sectors.                                          *)
LEMMA DriveReadyData ==
  ASSUME IdeInv, DataInv, NEW hd \in Disks, DriveReady(hd)
  PROVE  DataInv'
<1>1. /\ Busy(hd) /\ drive[hd].state = "reading"
      /\ UNCHANGED <<media, pc, req, secsDone, secsOp, buf>>
  BY DEF DriveReady, Busy, taskVars
<1>2. CASE pc[Main] # "gone"
  BY <1>1, <1>2, MainData
<1>3. ASSUME NEW c \in Clients, pc[c] \in During, OwnerExact(c), Serves(c),
             hd = reg.dev, hd = req[c].hd
      PROVE  DataInv'
  <2> DEFINE s == SectorsAt(media, hd, req[c].lba + secsDone[c], secsOp[c])
  <2>1. /\ ClientData(c) /\ secsDone[c] \in Nat /\ secsOp[c] \in Nat /\ pc[c] # "user"
        /\ req[c].lba \in Nat /\ req[c].cnt \in Nat /\ req[c].op \in {"read", "write"}
        /\ req[c].lba + req[c].cnt <= NSectors
    BY <1>3, ClientFacts DEF During
  <2>2. pc[c] = "sleep" /\ req[c].op = "read"
    BY <1>1, <1>3, <2>1 DEF OwnerExact, ReadPhase, WritePhase, Signal
  <2>3. secsDone[c] + secsOp[c] <= req[c].cnt
    BY <2>1, <2>2 DEF ClientData, During
  <2>4. s \in Seq(Contents) /\ Holds(s, hd, req[c].lba + secsDone[c], secsOp[c])
    <3>1. req[c].lba + secsDone[c] \in Nat /\ req[c].lba + secsDone[c] + secsOp[c] <= NSectors
      BY <2>1, <2>3, IdeAssumption
    <3> QED
      BY <2>1, <3>1, SectorsOfMedium DEF Holds, DataInv
  <2>5. drive'[hd].state = "drq" /\ drive'[hd].data = s
    <3>1. drive[hd].cmd = "read" /\ s = SectorsAt(media, hd, drive[hd].lba, drive[hd].cnt)
      BY <1>1, <1>3, <2>2 DEF Serves
    <3> HIDE DEF s
    <3>2. drive' = [drive EXCEPT ![hd].state = "drq", ![hd].data = s]
      BY <3>1 DEF DriveReady
    <3>3. drive'[hd] = [drive[hd] EXCEPT !.state = "drq", !.data = s] /\ IsDrive(drive[hd])
      BY <3>2 DEF IdeInv, IdeTypes
    <3> QED
      BY <3>3 DEF IsDrive
  <2> HIDE DEF s
  <2>6. Holds(s, hd, req[c].lba + secsDone[c], secsOp[c])'
    <3>1. Holds(s, hd, req[c].lba + secsDone[c], secsOp[c])' <=>
              Holds(s', hd, req[c].lba + secsDone[c], secsOp[c])
      BY <1>1 DEF Holds
    <3>2. s' = s
      BY <1>1 DEF s
    <3> QED
      BY <2>4, <3>1, <3>2
  <2>7. DriveData(c)'
    <3>1. s' = s
      BY <1>1 DEF s
    <3> QED
      BY <1>1, <1>3, <2>2, <2>4, <2>5, <2>6, <3>1 DEF DriveData
  <2> QED
    BY <1>1, <2>2, <2>3, <2>7, GoOnData
<1> QED
  BY <1>1, <1>2, <1>3, ServedClient

(* The drive is ready for the data of a write.                              *)
LEMMA DriveAcceptsData ==
  ASSUME IdeInv, DataInv, NEW hd \in Disks, DriveAccepts(hd)
  PROVE  DataInv'
<1>1. /\ Busy(hd) /\ drive[hd].state = "accepting"
      /\ UNCHANGED <<media, pc, req, secsDone, secsOp, buf>>
  BY DEF DriveAccepts, Busy, taskVars
<1>2. CASE pc[Main] # "gone"
  BY <1>1, <1>2, MainData
<1>3. ASSUME NEW c \in Clients, pc[c] \in During, OwnerExact(c), Serves(c),
             hd = reg.dev, hd = req[c].hd
      PROVE  DataInv'
  <2>1. ClientData(c) /\ pc[c] \notin {"user", "lock", "release"}
    BY <1>3, ClientFacts DEF During
  <2>2. pc[c] # "sleep" /\ req[c].op = "write"
    BY <1>1, <1>3 DEF OwnerExact, ReadPhase, WritePhase, Signal
  <2>3. secsDone[c] + secsOp[c] <= req[c].cnt
    BY <1>3, <2>1 DEF ClientData
  <2>4. drive'[hd].state = "drq"
    <3>1. drive'[hd] = [drive[hd] EXCEPT !.state = "drq"] /\ IsDrive(drive[hd])
      BY DEF DriveAccepts, IdeInv, IdeTypes
    <3> QED
      BY <3>1 DEF IsDrive
  <2>5. DriveData(c)'
    BY <1>1, <1>3, <2>2, <2>4 DEF DriveData
  <2> QED
    BY <1>1, <2>1, <2>2, <2>3, <2>5, GoOnData
<1> QED
  BY <1>1, <1>2, <1>3, ServedClient

(* What the writer that a drive works for, the drive and the medium are     *)
(* like when the drive writes.                                              *)
LEMMA WritingClient ==
  ASSUME IdeInv, DataInv, NEW hd \in Disks, DriveWritten(hd)
  PROVE  \E c \in Clients :
            /\ pc[c] = "sleep" /\ req[c].op = "write" /\ hd = req[c].hd
            /\ secsDone[c] + secsOp[c] <= req[c].cnt /\ secsOp[c] > 0
            /\ drive[hd].lba = req[c].lba + secsDone[c]
            /\ drive[hd].data \in Seq(Contents) /\ Len(drive[hd].data) = secsOp[c]
            /\ \A i \in 1 .. secsOp[c] : drive[hd].data[i] = req[c].data[secsDone[c] + i]
<1>1. Busy(hd) /\ drive[hd].state = "writing"
  BY DEF DriveWritten, Busy
<1>2. PICK t \in Tasks : /\ Owners = {t} /\ pc[t] \in During /\ OwnerExact(t) /\ Serves(t)
                         /\ hd = reg.dev
  BY <1>1, ActiveOwner
<1>3. pc[t] = "sleep" /\ req[t].op = "write" /\ hd = req[t].hd
  BY <1>1, <1>2 DEF OwnerExact, ReadPhase, WritePhase, Signal, Serves
<1>4. t \in Clients
  BY <1>2, <1>3 DEF IdeInv, RequestsExact, Tasks, Identify
<1>5. drive[hd].lba = req[t].lba + secsDone[t]
  BY <1>1, <1>2 DEF Serves
<1>6. ClientData(t) /\ secsOp[t] > 0
  BY <1>3, <1>4, IdeAssumption DEF DataInv, IdeInv, RequestsExact, During
<1>7. secsDone[t] + secsOp[t] <= req[t].cnt /\ DriveData(t)
  BY <1>2, <1>6 DEF ClientData
<1> QED
  BY <1>1, <1>3, <1>4, <1>5, <1>6, <1>7 DEF DriveData

(* The drive has written the sectors.                                       *)
LEMMA DriveWrittenData ==
  ASSUME IdeInv, DataInv, NEW hd \in Disks, DriveWritten(hd)
  PROVE  DataInv'
<1>1. /\ UNCHANGED <<pc, req, secsDone, secsOp, buf>>
      /\ media' = Stored(media, hd, drive[hd].lba, drive[hd].data)
      /\ drive'[hd].state = "idle" /\ drive[hd].state = "writing"
  BY DEF DriveWritten, taskVars, IdleDrive, IdeInv, IdeTypes
<1>2. PICK c \in Clients :
            /\ pc[c] = "sleep" /\ req[c].op = "write" /\ hd = req[c].hd
            /\ secsDone[c] + secsOp[c] <= req[c].cnt /\ secsOp[c] > 0
            /\ drive[hd].lba = req[c].lba + secsDone[c]
            /\ drive[hd].data \in Seq(Contents) /\ Len(drive[hd].data) = secsOp[c]
            /\ \A i \in 1 .. secsOp[c] : drive[hd].data[i] = req[c].data[secsDone[c] + i]
  BY WritingClient
<1> DEFINE n == secsDone[c]
           k == secsOp[c]
           lba == req[c].lba
           d == drive[hd].data
           s == req[c].data
<1>3. /\ n \in Nat /\ k \in Nat /\ lba \in Nat /\ lba + req[c].cnt <= NSectors
      /\ req[c].cnt \in Nat /\ ClientData(c)
  BY <1>2, ClientFacts
<1>4. Written(c) = n /\ Written(c)' = n + k
  BY <1>1, <1>2, <1>3 DEF Written, Busy
<1>5. \A i \in 1 .. n : media[hd][lba + i - 1] = s[i]
  BY <1>2, <1>3, <1>4 DEF ClientData
<1> HIDE DEF n, k, lba, d, s
<1>6. /\ lba + n \in Nat /\ media' = Stored(media, hd, lba + n, d) /\ d \in Seq(Contents)
      /\ Len(d) = k /\ media \in Medium /\ n + k <= req[c].cnt
      /\ \A i \in 1 .. k : d[i] = s[n + i]
  BY <1>1, <1>2, <1>3 DEF n, k, lba, d, s, DataInv
<1>7. /\ media' \in Medium
      /\ \A l \in 0 .. NSectors - 1 : media'[hd][l] =
            IF l \in lba + n .. lba + n + k - 1 THEN d[l - (lba + n) + 1] ELSE media[hd][l]
  <2> DEFINE f == lba + n
             m == Stored(media, hd, f, d)
  <2>1. f \in Nat /\ media \in Medium /\ d \in Seq(Contents) /\ media' = m /\ Len(d) = k
    BY <1>6
  <2> HIDE DEF f
  <2>2. m \in Medium
    BY <2>1, StoredMedium
  <2>3. ASSUME NEW l \in 0 .. NSectors - 1
        PROVE  /\ l \in f .. f + Len(d) - 1 => m[hd][l] = d[l - f + 1]
               /\ l \notin f .. f + Len(d) - 1 => m[hd][l] = media[hd][l]
    BY <2>1, StoredAt
  <2> HIDE DEF m
  <2> QED
    BY <2>1, <2>2, <2>3 DEF f
<1>8. ASSUME NEW i \in 1 .. n + k PROVE media'[hd][lba + i - 1] = s[i]
  <2>1. lba + i - 1 \in 0 .. NSectors - 1
    BY <1>3, <1>6, IdeAssumption
  <2>2. CASE i <= n
    <3>1. i \in 1 .. n /\ lba + i - 1 \notin lba + n .. lba + n + k - 1
      BY <1>3, <2>2
    <3> QED
      BY <1>5, <1>7, <2>1, <3>1
  <2>3. CASE i > n
    <3>1. /\ i - n \in 1 .. k /\ lba + i - 1 \in lba + n .. lba + n + k - 1
          /\ (lba + i - 1) - (lba + n) + 1 = i - n /\ n + (i - n) = i
      BY <1>3, <2>3
    <3> QED
      BY <1>6, <1>7, <2>1, <3>1
  <2>4. i <= n \/ i > n
    BY <1>3
  <2> QED
    BY <2>2, <2>3, <2>4
<1>9. ClientData(c)'
  <2>1. \A i \in 1 .. Written(c)' : media'[hd][req[c].lba + i - 1] = req[c].data[i]
    BY <1>4, <1>8 DEF lba, s
  <2>2. DriveData(c)'
    BY <1>1, <1>2 DEF DriveData
  <2> QED
    BY <1>1, <1>2, <1>3, <2>1, <2>2 DEF ClientData, During
<1> QED
  BY <1>1, <1>2, <1>7, <1>9, OwnerData DEF DataInv

(* A step of ide_init leaves the clients and the media alone.               *)
LEMMA IdentifyFrame ==
  ASSUME IdeInv, TaskStep(Main) \/ IdentifyDisk \/ IdentifyTransfer
  PROVE  /\ pc[Main] # "gone" /\ UNCHANGED <<media, buf>>
         /\ \A c \in Clients : /\ pc'[c] = pc[c] /\ req'[c] = req[c]
                               /\ secsDone'[c] = secsDone[c] /\ secsOp'[c] = secsOp[c]
<1>1. pc[Main] # "gone" /\ UNCHANGED <<media, buf>>
  BY DEF TaskStep, CommandStep, CmdOut, SemaDown, BusyWait, Nap, IdentifyDisk, IdentifyTransfer, driveVars
<1>2. ASSUME NEW c \in Clients
      PROVE  /\ pc'[c] = pc[c] /\ req'[c] = req[c]
             /\ secsDone'[c] = secsDone[c] /\ secsOp'[c] = secsOp[c]
  <2>1. c \in Tasks /\ c # Main /\ Main \in Tasks
    BY IdeAssumption DEF Tasks
  <2>2. PICK p : GoTo(Main, p)
    BY DEF TaskStep, CommandStep, CmdOut, SemaDown, BusyWait, Nap, IdentifyDisk, IdentifyTransfer
  <2>3. pc'[c] = pc[c]
    BY <2>1, <2>2 DEF GoTo, IdeInv, IdeTypes
  <2>4. CASE TaskStep(Main)
    BY <2>1, <2>3, <2>4 DEF TaskStep, CommandStep, CmdOut, SemaDown, BusyWait, Nap, IdeInv, IdeTypes
  <2>5. CASE IdentifyDisk \/ IdentifyTransfer
    BY <2>1, <2>3, <2>5 DEF IdentifyDisk, IdentifyTransfer, IdeInv, IdeTypes
  <2> QED
    BY <2>4, <2>5
<1> QED
  BY <1>1, <1>2

(* So it keeps the invariant.                                               *)
LEMMA IdentifyData ==
  ASSUME IdeInv, DataInv, TaskStep(Main) \/ IdentifyDisk \/ IdentifyTransfer
  PROVE  DataInv'
BY IdentifyFrame, MainData

(* Every step keeps the invariant.                                          *)
LEMMA NextData == IdeInv /\ DataInv /\ [Next]_vars => DataInv'
<1> SUFFICES ASSUME IdeInv, DataInv, [Next]_vars PROVE DataInv'
  OBVIOUS
<1>1. CASE Step
  <2>1. ASSUME NEW c \in Clients, Call(c) \/ ClientStep(c) PROVE DataInv'
    BY <2>1, CallData, QuietData, ReadTransferData, WriteTransferData, ReleaseData DEF ClientStep
  <2>2. ASSUME NEW t \in Tasks, TaskStep(t) PROVE DataInv'
    BY <2>2, QuietData, SemaDownData, IdentifyData DEF TaskStep, CommandStep, Tasks
  <2>3. ASSUME NEW hd \in Disks, DriveStep(hd) \/ DriveAccepts(hd) PROVE DataInv'
    BY <2>3, DriveReadyData, DriveWrittenData, DriveAcceptsData DEF DriveStep
  <2>4. ASSUME IntrHdHandler PROVE DataInv'
    <3>1. UNCHANGED <<media, drive, pc, req, secsDone, secsOp, buf>>
      BY <2>4 DEF IntrHdHandler, taskVars
    <3> QED
      BY <3>1, FrameData DEF DataInv
  <2> QED
    BY <1>1, <2>1, <2>2, <2>3, <2>4, IdentifyData DEF Step
<1>2. CASE UNCHANGED vars
  <2>1. UNCHANGED <<media, drive, pc, req, secsDone, secsOp, buf>>
    BY <1>2 DEF vars, driveVars, taskVars
  <2> QED
    BY <2>1, FrameData DEF DataInv
<1> QED
  BY <1>1, <1>2 DEF Next, PanicSpin

(* So it holds in every reachable state.                                    *)
LEMMA SpecData == Spec => [](IdeInv /\ DataInv)
BY InitIde, NextIde, InitData, NextData, PTL DEF Spec

-----------------------------------------------------------------------------
(* The array of sectors                                                     *)

(* The first sectors of c's write are on the medium; c's call has taken     *)
(* place on the array.                                                      *)
Begun(c) == pc[c] \notin {"user", "lock"} /\ WriteBegun(c)
Performed(c) == pc[c] = "release" \/ Begun(c)

AbsFacts ==
    /\ AbsSt  = [c \in Clients |-> AbsSt[c]]
    /\ AbsReq = [c \in Clients |-> AbsReq[c]]
    /\ AbsRes = [c \in Clients |-> AbsRes[c]]
    /\ \A c \in Clients :
          /\ AbsSt[c] = IF pc[c] = "user" THEN "idle"
                        ELSE IF Performed(c) THEN "performed" ELSE "pending"
          /\ AbsReq[c] = req[c]
          /\ AbsRes[c] = IF AbsSt[c] = "pending" THEN <<>> ELSE buf[c]
          /\ Begun(c) => LogicalMedia = Stored(media, req[c].hd, req[c].lba, req[c].data)
    /\ (\A c \in Clients : ~Begun(c)) => LogicalMedia = media

(* The abstract state in terms of the driver's.                             *)
LEMMA AbsState == IdeInv => AbsFacts
<1> SUFFICES ASSUME IdeInv PROVE AbsFacts
  OBVIOUS
<1>1. \A c \in Clients : holder = c <=> pc[c] \notin {"user", "lock"}
  BY DEF IdeInv, LockExact
<1>2. ASSUME NEW c \in Clients
      PROVE  PerformState(c) = IF pc[c] = "user" THEN "idle"
                               ELSE IF Performed(c) THEN "performed" ELSE "pending"
  <2>1. CASE pc[c] = "user"
    BY <2>1 DEF PerformState
  <2>2. CASE pc[c] = "release"
    BY <2>2 DEF PerformState, Performed
  <2>3. CASE pc[c] \notin {"user", "release"} /\ holder = c /\ WriteBegun(c)
    BY <1>1, <2>3 DEF PerformState, Performed, Begun
  <2>4. CASE pc[c] \notin {"user", "release"} /\ ~(holder = c /\ WriteBegun(c))
    BY <1>1, <2>4 DEF PerformState, Performed, Begun
  <2> QED
    BY <2>1, <2>2, <2>3, <2>4
<1>3. \A c \in Clients : Begun(c) <=> holder = c /\ WriteBegun(c)
  BY <1>1 DEF Begun
<1>4. /\ \A c \in Clients :
            Begun(c) => LogicalMedia = Stored(media, req[c].hd, req[c].lba, req[c].data)
      /\ (\A c \in Clients : ~Begun(c)) => LogicalMedia = media
  BY <1>3 DEF LogicalMedia
<1> QED
  BY <1>2, <1>4 DEF AbsFacts, AbsSt, AbsReq, AbsRes

(* The same in the next state.                                              *)
LEMMA AbsStateNext == IdeInv' => AbsFacts'
BY AbsState, PTL

(* At most one call is begun.                                               *)
LEMMA OneBegun ==
  ASSUME IdeInv, NEW c \in Clients, NEW u \in Clients, Begun(c), u # c
  PROVE  ~Begun(u) /\ pc[u] \in {"user", "lock"}
BY DEF Begun, IdeInv, LockExact

(* What cannot be seen of the array when nothing is written.                *)
LEMMA SameArray ==
  ASSUME IdeInv, IdeInv', UNCHANGED media,
         \A c \in Clients : Begun(c)' <=> Begun(c),
         \A c \in Clients : Begun(c) => req'[c] = req[c]
  PROVE  LogicalMedia' = LogicalMedia
<1>1. CASE \E c \in Clients : Begun(c)
  BY <1>1, AbsState, AbsStateNext DEF AbsFacts
<1>2. CASE \A c \in Clients : ~Begun(c)
  BY <1>2, AbsState, AbsStateNext DEF AbsFacts
<1> QED
  BY <1>1, <1>2

(* A step that cannot be seen at all.                                       *)
LEMMA Unseen ==
  ASSUME IdeInv, IdeInv', LogicalMedia' = LogicalMedia,
         \A c \in Clients : /\ req'[c] = req[c] /\ (pc[c] = "user" <=> pc'[c] = "user")
                            /\ Performed(c)' <=> Performed(c)
                            /\ pc[c] = "user" \/ Performed(c) => buf'[c] = buf[c]
  PROVE  UNCHANGED Atomic!vars
<1>1. AbsFacts /\ AbsFacts'
  BY AbsState, AbsStateNext
<1> HIDE DEF AbsSt, AbsReq, AbsRes
<1>2. ASSUME NEW c \in Clients
      PROVE  AbsSt'[c] = AbsSt[c] /\ AbsReq'[c] = AbsReq[c] /\ AbsRes'[c] = AbsRes[c]
  <2>1. AbsSt'[c] = AbsSt[c] /\ AbsReq'[c] = AbsReq[c]
    BY <1>1 DEF AbsFacts
  <2> QED
    BY <1>1, <2>1 DEF AbsFacts
<1>3. AbsSt' = AbsSt /\ AbsReq' = AbsReq /\ AbsRes' = AbsRes
  BY <1>1, <1>2 DEF AbsFacts
<1> QED
  BY <1>3 DEF Atomic!vars

(* A step of client c that cannot be seen, while no other uses the channel. *)
LEMMA OwnerUnseen ==
  ASSUME IdeInv, IdeInv', UNCHANGED <<media, req>>, NEW c \in Clients,
         pc[c] # "user", pc'[c] # "user", Begun(c)' <=> Begun(c),
         Performed(c)' <=> Performed(c), Performed(c) => buf'[c] = buf[c],
         \A u \in Clients \ {c} :
            pc'[u] = pc[u] /\ pc[u] \in {"user", "lock"} /\ buf'[u] = buf[u]
  PROVE  UNCHANGED Atomic!vars
<1>1. \A u \in Clients \ {c} : ~Begun(u) /\ ~Begun(u)' /\ ~Performed(u) /\ ~Performed(u)'
  BY DEF Begun, Performed
<1>2. LogicalMedia' = LogicalMedia
  BY <1>1, SameArray
<1> QED
  BY <1>1, <1>2, Unseen

(* A step of the drives, of the interrupt or of ide_init that writes        *)
(* nothing cannot be seen.                                                  *)
LEMMA HardwareUnseen ==
  ASSUME IdeInv, IdeInv', UNCHANGED <<media, buf>>,
         \A c \in Clients : /\ pc'[c] = pc[c] /\ req'[c] = req[c] /\ secsDone'[c] = secsDone[c]
                            /\ pc[c] = "user" \/ (Busy(req[c].hd)' <=> Busy(req[c].hd))
  PROVE  UNCHANGED Atomic!vars
<1>1. ASSUME NEW c \in Clients
      PROVE  (Begun(c)' <=> Begun(c)) /\ (Performed(c)' <=> Performed(c))
  <2>1. pc[c] # "user" => (WriteBegun(c)' <=> WriteBegun(c))
    BY DEF WriteBegun
  <2> QED
    BY <2>1 DEF Begun, Performed
<1>2. LogicalMedia' = LogicalMedia
  BY <1>1, SameArray
<1> QED
  BY <1>1, <1>2, Unseen

(* The steps between the calls' effects: lock_acquire, select_sector,       *)
(* cmd_out, busy_wait and its naps, write2sector.                           *)
LEMMA QuietUnseen ==
  ASSUME IdeInv, IdeInv', DataInv, NEW c \in Clients,
         \/ Acquire(c) \/ SelectSector(c) \/ CmdOut(c) \/ BusyWait(c) \/ Nap(c)
         \/ WriteTransfer(c)
  PROVE  UNCHANGED Atomic!vars
<1>0. c \in Tasks /\ c # Main /\ secsDone[c] \in Nat /\ ClientData(c)
  BY ClientFacts
<1>1. UNCHANGED <<media, req, secsDone, buf>>
  BY DEF Acquire, SelectSector, CmdOut, BusyWait, Nap, WriteTransfer, driveVars
<1>2. PICK p : GoTo(c, p)
  BY DEF Acquire, SelectSector, CmdOut, BusyWait, Nap, WriteTransfer
<1>3. pc'[c] = p /\ \A u \in Clients \ {c} : pc'[u] = pc[u]
  BY <1>0, <1>2 DEF GoTo, IdeInv, IdeTypes, Tasks
<1>4. \A u \in Clients \ {c} : pc[u] \in {"user", "lock"}
  <2>1. Acquire(c) => holder = Null
    BY DEF Acquire
  <2>2. ~Acquire(c) => pc[c] \notin {"user", "lock"}
    BY DEF SelectSector, CmdOut, BusyWait, Nap, WriteTransfer
  <2> QED
    BY <2>1, <2>2, IdeAssumption DEF IdeInv, LockExact
<1>5. pc[c] \notin {"user", "sleep", "release"} /\ pc'[c] \notin {"user", "lock", "release"}
  <2>1. /\ pc[c] \notin {"user", "sleep", "release"}
        /\ pc'[c] \in {"select", "command", "poll", "sleep", "transfer", "nap", "panic"}
    BY <1>0, <1>3 DEF Acquire, SelectSector, CmdOut, BusyWait, Nap, WriteTransfer, GoTo,
                      IdeInv, IdeTypes
  <2> QED
    BY <2>1
<1>6. req[c].op = "write" /\ pc'[c] = "sleep" => Busy(req[c].hd)'
  <2> SUFFICES ASSUME req[c].op = "write", pc'[c] = "sleep" PROVE Busy(req[c].hd)'
    OBVIOUS
  <2>1. WriteTransfer(c)
    BY <1>0, <1>3 DEF Acquire, SelectSector, CmdOut, BusyWait, Nap, GoTo, IdeInv, IdeTypes
  <2>2. reg.dev = req[c].hd /\ req[c].hd \in Disks
    <3>1. pc[c] = "transfer"
      BY <2>1 DEF WriteTransfer
    <3> QED
      BY <1>0, <3>1, OnlyOwner DEF IdeInv, OwnerExact, Serves, During, RequestsExact, InBounds
  <2>3. drive'[req[c].hd].state = "writing"
    <3> DEFINE d == SubSeq(req[c].data, secsDone[c] + 1, secsDone[c] + secsOp[c])
    <3>1. drive' = [drive EXCEPT ![req[c].hd].state = "writing", ![req[c].hd].data = d]
      BY <2>1, <2>2 DEF WriteTransfer
    <3> HIDE DEF d
    <3>2. /\ drive'[req[c].hd] = [drive[req[c].hd] EXCEPT !.state = "writing", !.data = d]
          /\ IsDrive(drive[req[c].hd])
      BY <2>2, <3>1 DEF IdeInv, IdeTypes
    <3> QED
      BY <3>2 DEF IsDrive
  <2> QED
    BY <1>1, <2>3 DEF Busy
<1>7. (Begun(c)' <=> Begun(c)) /\ (Performed(c)' <=> Performed(c))
  <2>1. pc[c] = "lock" => secsDone[c] = 0
    BY <1>0 DEF ClientData
  <2>2. WriteBegun(c) <=> req[c].op = "write" /\ secsDone[c] > 0
    BY <1>5 DEF WriteBegun
  <2>3. WriteBegun(c)' <=> req[c].op = "write" /\ secsDone[c] > 0
    BY <1>1, <1>6 DEF WriteBegun
  <2> QED
    BY <1>0, <1>5, <2>1, <2>2, <2>3 DEF Begun, Performed
<1> QED
  BY <1>1, <1>3, <1>4, <1>5, <1>7, OwnerUnseen

(* sema_down: a write that is over has taken place before.                  *)
LEMMA SemaDownUnseen ==
  ASSUME IdeInv, IdeInv', DataInv, NEW c \in Clients, SemaDown(c)
  PROVE  UNCHANGED Atomic!vars
<1>0. c \in Tasks /\ c # Main /\ secsDone[c] \in Nat /\ secsOp[c] \in Nat
  BY ClientFacts
<1>1. /\ pc[c] = "sleep" /\ UNCHANGED <<media, drive, req, buf>>
      /\ diskDone > 0 /\ diskDone \in Nat
  BY DEF SemaDown, driveVars, IdeInv, IdeTypes
<1>2. \A u \in Clients \ {c} : pc[u] \in {"user", "lock"}
  BY <1>1 DEF IdeInv, LockExact
<1>3. CASE req[c].op # "write"
  <2>1. pc'[c] = "poll" /\ \A u \in Clients \ {c} : pc'[u] = pc[u]
    BY <1>0, <1>3 DEF SemaDown, GoTo, IdeInv, IdeTypes, Tasks
  <2>2. ~Begun(c) /\ ~Begun(c)' /\ ~Performed(c) /\ ~Performed(c)'
    BY <1>1, <1>3, <2>1 DEF Begun, Performed, WriteBegun
  <2> QED
    BY <1>1, <1>2, <2>1, <2>2, OwnerUnseen
<1>4. CASE req[c].op = "write"
  <2> DEFINE p == IF secsDone'[c] < req[c].cnt THEN "select" ELSE "release"
  <2>1. GoTo(c, p) /\ secsDone' = [secsDone EXCEPT ![c] = @ + secsOp[c]]
    BY <1>4 DEF SemaDown
  <2>2. /\ pc'[c] = p /\ secsDone'[c] = secsDone[c] + secsOp[c]
        /\ \A u \in Clients \ {c} : pc'[u] = pc[u]
    BY <1>0, <2>1 DEF GoTo, IdeInv, IdeTypes, Tasks
  <2>3. drive[req[c].hd].state = "idle" /\ secsOp[c] > 0
    <3>1. OwnerExact(c)
      BY <1>0, <1>1, OnlyOwner DEF IdeInv
    <3> QED
      BY <1>1, <1>4, <3>1, IdeAssumption
         DEF OwnerExact, Serves, WritePhase, Signal, During, IdeInv, RequestsExact
  <2>4. WriteBegun(c) /\ WriteBegun(c)'
    BY <1>0, <1>1, <1>4, <2>2, <2>3 DEF WriteBegun, Busy
  <2>5. pc'[c] \notin {"user", "lock"}
    BY <2>2
  <2>6. Begun(c) /\ Begun(c)' /\ Performed(c) /\ Performed(c)'
    BY <1>1, <2>4, <2>5 DEF Begun, Performed
  <2> QED
    BY <1>1, <1>2, <2>2, <2>5, <2>6, OwnerUnseen
<1> QED
  BY <1>3, <1>4

(* A step that can only be seen of client c.                                *)
LEMMA SeenOf ==
  ASSUME IdeInv, IdeInv', NEW c \in Clients,
         \A u \in Clients \ {c} : /\ pc'[u] = pc[u] /\ req'[u] = req[u] /\ buf'[u] = buf[u]
                                  /\ Performed(u)' <=> Performed(u)
  PROVE  /\ AbsSt'  = [AbsSt EXCEPT ![c] = AbsSt'[c]]
         /\ AbsReq' = [AbsReq EXCEPT ![c] = AbsReq'[c]]
         /\ AbsRes' = [AbsRes EXCEPT ![c] = AbsRes'[c]]
<1>1. AbsFacts /\ AbsFacts'
  BY AbsState, AbsStateNext
<1> HIDE DEF AbsSt, AbsReq, AbsRes
<1>2. ASSUME NEW u \in Clients \ {c}
      PROVE  AbsSt'[u] = AbsSt[u] /\ AbsReq'[u] = AbsReq[u] /\ AbsRes'[u] = AbsRes[u]
  <2>1. AbsSt'[u] = AbsSt[u] /\ AbsReq'[u] = AbsReq[u]
    BY <1>1 DEF AbsFacts
  <2> QED
    BY <1>1, <2>1 DEF AbsFacts
<1> QED
  BY <1>1, <1>2 DEF AbsFacts

(* A call begins.                                                           *)
LEMMA CallSeen ==
  ASSUME IdeInv, IdeInv', DataInv, NEW c \in Clients, Call(c)
  PROVE  Atomic!Call(c)
<1>1. c \in Tasks /\ ClientData(c) /\ pc[c] = "user"
  BY ClientFacts DEF Call
<1>2. PICK r \in RequestsOf(c) : req' = [req EXCEPT ![c] = r]
  BY DEF Call
<1>3. /\ pc'[c] = "lock" /\ req'[c] = r /\ UNCHANGED <<media, drive, secsDone, buf>>
      /\ \A u \in Clients \ {c} : pc'[u] = pc[u] /\ req'[u] = req[u]
  BY <1>1, <1>2 DEF Call, GoTo, IdeInv, IdeTypes, Tasks, driveVars
<1>4. ~Begun(c) /\ ~Begun(c)' /\ ~Performed(c)'
  BY <1>1, <1>3 DEF Begun, Performed
<1>5. ASSUME NEW u \in Clients \ {c}
      PROVE  (Begun(u)' <=> Begun(u)) /\ (Performed(u)' <=> Performed(u))
  BY <1>3 DEF Begun, Performed, WriteBegun, Busy
<1>6. LogicalMedia' = LogicalMedia
  BY <1>3, <1>4, <1>5, SameArray
<1>7. AbsFacts /\ AbsFacts'
  BY AbsState, AbsStateNext
<1> HIDE DEF AbsSt, AbsReq, AbsRes
<1>8. /\ AbsSt[c] = "idle" /\ AbsSt'[c] = "pending" /\ AbsReq'[c] = r
      /\ AbsRes[c] = <<>> /\ AbsRes'[c] = <<>>
  <2>1. buf[c] = <<>>
    BY <1>1 DEF ClientData
  <2> QED
    BY <1>1, <1>3, <1>4, <1>7, <2>1 DEF AbsFacts
<1>9. /\ AbsSt' = [AbsSt EXCEPT ![c] = "pending"] /\ AbsReq' = [AbsReq EXCEPT ![c] = r]
      /\ AbsRes' = AbsRes
  BY <1>3, <1>5, <1>7, <1>8, SeenOf DEF AbsFacts
<1> QED
  BY <1>6, <1>8, <1>9 DEF Atomic!Call

(* read_from_sector takes place on the array when it is the last one.       *)
LEMMA ReadTransferSeen ==
  ASSUME IdeInv, IdeInv', DataInv, DataInv', NEW c \in Clients, ReadTransfer(c)
  PROVE  Atomic!Perform(c) \/ UNCHANGED Atomic!vars
<1> DEFINE p == IF secsDone'[c] < req[c].cnt THEN "select" ELSE "release"
<1>0. /\ c \in Tasks /\ c # Main /\ ClientData(c)' /\ req[c].lba \in Nat /\ req[c].hd \in Disks
      /\ req[c].cnt \in Nat /\ buf'[c] \in Seq(Contents)
  BY ClientFacts DEF ReadTransfer, DataInv
<1>1. pc[c] = "transfer" /\ req[c].op = "read" /\ UNCHANGED <<media, req>> /\ GoTo(c, p)
  BY DEF ReadTransfer
<1>2. /\ pc'[c] = p /\ \A u \in Clients \ {c} : pc'[u] = pc[u] /\ buf'[u] = buf[u]
      /\ \A u \in Clients \ {c} : pc[u] \in {"user", "lock"}
  BY <1>0, <1>1 DEF ReadTransfer, GoTo, IdeInv, IdeTypes, Tasks, LockExact, DataInv
<1>3. ~Begun(c) /\ ~Begun(c)' /\ ~Performed(c)
  BY <1>1 DEF Begun, Performed, WriteBegun
<1>4. CASE p = "select"
  <2>1. ~Performed(c)'
    BY <1>2, <1>3, <1>4 DEF Performed
  <2> QED
    BY <1>1, <1>2, <1>3, <1>4, <2>1, OwnerUnseen
<1>5. CASE p = "release"
  <2>1. \A u \in Clients \ {c} : ~Begun(u) /\ ~Begun(u)' /\ ~Performed(u) /\ ~Performed(u)'
    BY <1>2 DEF Begun, Performed
  <2>2. LogicalMedia' = LogicalMedia /\ LogicalMedia = media
    BY <1>1, <1>3, <2>1, AbsState, SameArray DEF AbsFacts
  <2>3. buf'[c] = SectorsAt(media, req[c].hd, req[c].lba, req[c].cnt)
    <3>1. Holds(buf[c], req[c].hd, req[c].lba, secsDone[c])' /\ secsDone'[c] = req[c].cnt
      BY <1>0, <1>1, <1>2, <1>5 DEF ClientData
    <3>2. /\ Len(buf'[c]) = req[c].cnt
          /\ \A i \in 1 .. req[c].cnt : buf'[c][i] = media[req[c].hd][req[c].lba + i - 1]
      BY <1>1, <3>1 DEF Holds
    <3>3. buf'[c] = [i \in 1 .. req[c].cnt |-> buf'[c][i]]
      BY <1>0, <3>2
    <3> QED
      BY <3>2, <3>3 DEF SectorsAt
  <2>4. AbsFacts /\ AbsFacts' /\ Performed(c)'
    BY <1>2, <1>5, AbsState, AbsStateNext DEF Performed
  <2> HIDE DEF AbsSt, AbsReq, AbsRes
  <2>5. /\ AbsSt[c] = "pending" /\ AbsSt'[c] = "performed" /\ AbsReq[c] = req[c]
        /\ AbsReq'[c] = AbsReq[c] /\ AbsRes'[c] = buf'[c]
    BY <1>1, <1>2, <1>3, <1>5, <2>4 DEF AbsFacts
  <2>6. /\ AbsSt' = [AbsSt EXCEPT ![c] = "performed"] /\ AbsReq' = AbsReq
        /\ AbsRes' = [AbsRes EXCEPT ![c] = SectorsAt(media, req[c].hd, req[c].lba, req[c].cnt)]
    <3>1. /\ AbsSt'  = [AbsSt EXCEPT ![c] = AbsSt'[c]]
          /\ AbsReq' = [AbsReq EXCEPT ![c] = AbsReq'[c]]
          /\ AbsRes' = [AbsRes EXCEPT ![c] = AbsRes'[c]]
      BY <1>1, <1>2, <2>1, SeenOf
    <3> QED
      BY <2>3, <2>4, <2>5, <3>1 DEF AbsFacts
  <2>7. SectorsAt(media, req[c].hd, req[c].lba, req[c].cnt) =
            Atomic!SectorsAt(media, req[c].hd, req[c].lba, req[c].cnt)
    BY DEF SectorsAt, Atomic!SectorsAt
  <2> QED
    BY <1>1, <2>2, <2>5, <2>6, <2>7 DEF Atomic!Perform
<1> QED
  BY <1>4, <1>5

(* A call returns: all of a write is on the medium.                         *)
LEMMA ReleaseSeen ==
  ASSUME IdeInv, IdeInv', DataInv, DataInv', NEW c \in Clients, Release(c)
  PROVE  Atomic!Return(c)
<1> DEFINE r == req[c]
<1>0. /\ c \in Tasks /\ c # Main /\ ClientData(c) /\ ClientData(c)' /\ pc[c] = "release"
      /\ r.lba \in Nat /\ r.hd \in Disks /\ r.cnt \in Nat \ {0} /\ secsDone[c] = r.cnt
      /\ r.op = "write" => r.data \in Seq(Contents) /\ Len(r.data) = r.cnt
      /\ media \in Medium
  BY ClientFacts DEF Release, DataInv, ClientData
<1>1. /\ pc'[c] = "user" /\ req'[c] = NoRequest /\ UNCHANGED <<media, drive>> /\ buf'[c] = <<>>
      /\ \A u \in Clients \ {c} : pc'[u] = pc[u] /\ req'[u] = req[u] /\ buf'[u] = buf[u]
  BY <1>0 DEF Release, GoTo, IdeInv, IdeTypes, Tasks, driveVars, DataInv
<1>2. \A u \in Clients \ {c} : ~Begun(u) /\ ~Begun(u)' /\ ~Performed(u) /\ ~Performed(u)'
  BY <1>0, <1>1 DEF Begun, Performed, IdeInv, LockExact
<1>3. ~Begun(c)' /\ Performed(c)
  BY <1>0, <1>1 DEF Begun, Performed
<1>4. AbsFacts /\ AbsFacts'
  BY AbsState, AbsStateNext
<1> HIDE DEF AbsSt, AbsReq, AbsRes
<1>5. LogicalMedia' = media
  BY <1>1, <1>2, <1>3, <1>4 DEF AbsFacts
<1>6. LogicalMedia = media
  <2>1. CASE ~Begun(c)
    BY <1>2, <1>4, <2>1 DEF AbsFacts
  <2>2. CASE Begun(c)
    <3>1. r.op = "write" /\ LogicalMedia = Stored(media, r.hd, r.lba, r.data)
      BY <1>4, <2>2 DEF AbsFacts, Begun, WriteBegun
    <3>2. Written(c) = r.cnt
      BY <1>0 DEF Written
    <3>3. \A i \in 1 .. Len(r.data) : media[r.hd][r.lba + i - 1] = r.data[i]
      BY <1>0, <3>1, <3>2 DEF ClientData
    <3>4. r.data \in Seq(Contents) /\ r.lba \in Nat /\ r.hd \in Disks /\ media \in Medium
      BY <1>0, <3>1
    <3> HIDE DEF r
    <3> QED
      BY <3>1, <3>3, <3>4, StoredAgain
  <2> QED
    BY <2>1, <2>2
<1>7. /\ AbsSt[c] = "performed" /\ AbsSt'[c] = "idle" /\ AbsReq'[c] = NoRequest
      /\ AbsRes'[c] = <<>>
  BY <1>0, <1>1, <1>3, <1>4 DEF AbsFacts
<1>8. /\ AbsSt' = [AbsSt EXCEPT ![c] = "idle"] /\ AbsReq' = [AbsReq EXCEPT ![c] = NoRequest]
      /\ AbsRes' = [AbsRes EXCEPT ![c] = <<>>]
  BY <1>1, <1>2, <1>7, SeenOf
<1> QED
  BY <1>5, <1>6, <1>7, <1>8 DEF Atomic!Return

(* A drive writes: the first command of a write makes all of it take place  *)
(* on the array, the others cannot be seen.                                 *)
LEMMA DriveWrittenSeen ==
  ASSUME IdeInv, IdeInv', DataInv, DataInv', NEW hd \in Disks, DriveWritten(hd)
  PROVE  (\E c \in Clients : Atomic!Perform(c)) \/ UNCHANGED Atomic!vars
<1>1. /\ UNCHANGED <<pc, req, secsDone, secsOp, buf>>
      /\ media' = Stored(media, hd, drive[hd].lba, drive[hd].data)
      /\ drive'[hd].state = "idle" /\ drive[hd].state = "writing"
  BY DEF DriveWritten, taskVars, IdleDrive, IdeInv, IdeTypes
<1>2. PICK c \in Clients :
            /\ pc[c] = "sleep" /\ req[c].op = "write" /\ hd = req[c].hd
            /\ secsDone[c] + secsOp[c] <= req[c].cnt /\ secsOp[c] > 0
            /\ drive[hd].lba = req[c].lba + secsDone[c]
            /\ drive[hd].data \in Seq(Contents) /\ Len(drive[hd].data) = secsOp[c]
            /\ \A i \in 1 .. secsOp[c] : drive[hd].data[i] = req[c].data[secsDone[c] + i]
  BY WritingClient
<1>3. /\ secsDone[c] \in Nat /\ req[c].lba \in Nat /\ req[c].data \in Seq(Contents)
      /\ Len(req[c].data) = req[c].cnt /\ media \in Medium /\ ClientData(c)
  BY <1>2, ClientFacts DEF DataInv
<1>4. Stored(media', hd, req[c].lba, req[c].data) = Stored(media, hd, req[c].lba, req[c].data)
  <2> DEFINE f == drive[hd].lba
             lba == req[c].lba
             d == drive[hd].data
             s == req[c].data
  <2>1. /\ f \in Nat /\ lba \in Nat /\ d \in Seq(Contents) /\ s \in Seq(Contents)
        /\ lba <= f /\ f + Len(d) <= lba + Len(s)
        /\ media' = Stored(media, hd, f, d) /\ media \in Medium
    <3>1. /\ media' = Stored(media, hd, f, d) /\ media \in Medium
          /\ lba \in Nat /\ d \in Seq(Contents) /\ s \in Seq(Contents)
      BY <1>1, <1>2, <1>3
    <3>2. /\ f = lba + secsDone[c] /\ Len(d) = secsOp[c] /\ Len(s) = req[c].cnt
          /\ secsDone[c] \in Nat /\ secsDone[c] + secsOp[c] <= req[c].cnt
      BY <1>2, <1>3
    <3> HIDE DEF f, lba, d, s
    <3>3. Len(d) \in Nat /\ Len(s) \in Nat /\ lba \in Nat
      BY <3>1
    <3>4. f \in Nat /\ lba <= f /\ f + Len(d) <= lba + Len(s)
      BY <3>2, <3>3
    <3> QED
      BY <3>1, <3>4
  <2> HIDE DEF f, lba, d, s
  <2>2. Stored(Stored(media, hd, f, d), hd, lba, s) = Stored(media, hd, lba, s)
    BY <2>1, StoredPiece
  <2> QED
    BY <2>1, <2>2 DEF lba, s
<1>5. \A u \in Clients \ {c} : ~Begun(u) /\ ~Begun(u)' /\ ~Performed(u) /\ ~Performed(u)'
  BY <1>1, <1>2 DEF Begun, Performed, IdeInv, LockExact
<1>6. Begun(c)' /\ Performed(c)' /\ (Begun(c) <=> secsDone[c] > 0) /\ (Performed(c) <=> Begun(c))
  BY <1>1, <1>2 DEF Begun, Performed, WriteBegun, Busy
<1>7. AbsFacts /\ AbsFacts'
  BY AbsState, AbsStateNext
<1> HIDE DEF AbsSt, AbsReq, AbsRes
<1>8. LogicalMedia' = Stored(media, hd, req[c].lba, req[c].data)
  BY <1>1, <1>2, <1>4, <1>6, <1>7 DEF AbsFacts
<1>9. CASE Begun(c)
  <2>1. LogicalMedia' = LogicalMedia
    BY <1>2, <1>7, <1>8, <1>9 DEF AbsFacts
  <2> QED
    BY <1>1, <1>5, <1>6, <1>9, <2>1, Unseen
<1>10. CASE ~Begun(c)
  <2>1. LogicalMedia = media
    BY <1>5, <1>7, <1>10 DEF AbsFacts
  <2>2. buf[c] = <<>>
    BY <1>2, <1>3 DEF ClientData
  <2>3. /\ AbsSt[c] = "pending" /\ AbsSt'[c] = "performed" /\ AbsReq[c] = req[c]
        /\ AbsReq'[c] = req[c] /\ AbsRes[c] = <<>> /\ AbsRes'[c] = <<>>
    BY <1>1, <1>2, <1>6, <1>7, <1>10, <2>2 DEF AbsFacts
  <2>4. /\ AbsSt' = [AbsSt EXCEPT ![c] = "performed"] /\ AbsReq' = AbsReq /\ AbsRes' = AbsRes
    <3>1. /\ AbsSt'  = [AbsSt EXCEPT ![c] = AbsSt'[c]]
          /\ AbsReq' = [AbsReq EXCEPT ![c] = AbsReq'[c]]
          /\ AbsRes' = [AbsRes EXCEPT ![c] = AbsRes'[c]]
      BY <1>1, <1>5, SeenOf
    <3> QED
      BY <1>7, <2>3, <3>1 DEF AbsFacts
  <2>5. LogicalMedia' = Atomic!Stored(media, req[c].hd, req[c].lba, req[c].data)
    BY <1>2, <1>8 DEF Stored, Atomic!Stored
  <2>6. Atomic!Perform(c)
    BY <1>2, <2>1, <2>3, <2>4, <2>5 DEF Atomic!Perform
  <2> QED
    BY <2>6
<1> QED
  BY <1>9, <1>10

(* Each step of the driver is a step of the array or cannot be seen there.  *)
LEMMA StepDisk ==
  ASSUME IdeInv, DataInv, [Next]_vars
  PROVE  [Atomic!Next]_(Atomic!vars)
<1>0. IdeInv' /\ DataInv'
  BY NextIde, NextData
<1>1. ASSUME NEW c \in Clients, Call(c) \/ ClientStep(c) PROVE [Atomic!Next]_(Atomic!vars)
  <2>1. CASE Call(c)
    BY <1>0, <2>1, CallSeen DEF Atomic!Next
  <2>2. CASE ReadTransfer(c)
    BY <1>0, <2>2, ReadTransferSeen DEF Atomic!Next
  <2>3. CASE Release(c)
    BY <1>0, <2>3, ReleaseSeen DEF Atomic!Next
  <2>4. CASE Acquire(c) \/ SelectSector(c) \/ WriteTransfer(c)
    BY <1>0, <2>4, QuietUnseen
  <2> QED
    BY <1>1, <2>1, <2>2, <2>3, <2>4 DEF ClientStep
<1>2. ASSUME NEW c \in Clients, TaskStep(c) PROVE [Atomic!Next]_(Atomic!vars)
  BY <1>0, <1>2, QuietUnseen, SemaDownUnseen DEF TaskStep, CommandStep
<1>3. CASE TaskStep(Main) \/ IdentifyDisk \/ IdentifyTransfer
  <2>1. pc[Main] # "gone" /\ UNCHANGED <<media, buf>>
    BY <1>3, IdentifyFrame
  <2>2. \A c \in Clients : /\ pc[c] = "user" /\ pc'[c] = pc[c] /\ req'[c] = req[c]
                           /\ secsDone'[c] = secsDone[c]
    BY <1>3, <2>1, IdentifyFrame DEF IdeInv, LockExact
  <2> QED
    BY <1>0, <2>1, <2>2, HardwareUnseen
<1>4. ASSUME NEW hd \in Disks, DriveWritten(hd) PROVE [Atomic!Next]_(Atomic!vars)
  BY <1>0, <1>4, DriveWrittenSeen DEF Atomic!Next
<1>5. ASSUME NEW hd \in Disks, DriveReady(hd) \/ DriveAccepts(hd)
      PROVE  [Atomic!Next]_(Atomic!vars)
  <2>1. UNCHANGED <<media, pc, req, secsDone, buf>>
    BY <1>5 DEF DriveReady, DriveAccepts, taskVars
  <2>2. \A h \in Disks : Busy(h)' <=> Busy(h)
    <3>1. IsDrive(drive[hd]) /\ drive = [h \in Disks |-> drive[h]]
      BY DEF IdeInv, IdeTypes
    <3>2. PICK x : drive' = [drive EXCEPT ![hd].state = "drq", ![hd].data = x]
      <4>1. CASE DriveReady(hd)
        BY <4>1 DEF DriveReady
      <4>2. CASE DriveAccepts(hd)
        BY <3>1, <4>2 DEF DriveAccepts, IsDrive
      <4> QED
        BY <1>5, <4>1, <4>2
    <3>3. drive'[hd].state = "drq" /\ \A h \in Disks \ {hd} : drive'[h] = drive[h]
      BY <3>1, <3>2 DEF IsDrive
    <3>4. drive[hd].state # "idle"
      BY <1>5 DEF DriveReady, DriveAccepts
    <3> QED
      BY <3>3, <3>4 DEF Busy
  <2>3. \A c \in Clients : pc[c] # "user" => req[c].hd \in Disks
    BY DEF IdeInv, RequestsExact, InBounds
  <2>4. \A c \in Clients : pc[c] = "user" \/ (Busy(req[c].hd)' <=> Busy(req[c].hd))
    BY <2>1, <2>2, <2>3 DEF Busy
  <2> QED
    BY <1>0, <2>1, <2>4, HardwareUnseen
<1>6. CASE IntrHdHandler \/ UNCHANGED vars
  <2>1. UNCHANGED <<media, drive, pc, req, secsDone, buf>>
    BY <1>6 DEF IntrHdHandler, vars, driveVars, taskVars
  <2>2. \A c \in Clients : Busy(req[c].hd)' <=> Busy(req[c].hd)
    BY <2>1 DEF Busy
  <2> QED
    BY <1>0, <2>1, <2>2, HardwareUnseen
<1>7. CASE Step
  BY <1>1, <1>2, <1>3, <1>4, <1>5, <1>6, <1>7 DEF Step, DriveStep, Tasks
<1> QED
  BY <1>6, <1>7 DEF Next, PanicSpin

(* ide_read and ide_write act as single steps on an array of sectors,       *)
(* whatever commands a request is cut into, however many clients share the  *)
(* channel and wherever the drives and the interrupt come between.          *)
THEOREM ImplementsDisk == Spec => DiskSpec
<1>1. Init => Atomic!Init
  <2> SUFFICES ASSUME Init PROVE Atomic!Init
    OBVIOUS
  <2>1. AbsFacts
    BY InitIde, AbsState
  <2> HIDE DEF AbsSt, AbsReq, AbsRes
  <2>2. ASSUME NEW c \in Clients
        PROVE  ~Begun(c) /\ AbsSt[c] = "idle" /\ AbsReq[c] = NoRequest /\ AbsRes[c] = <<>>
    <3>1. pc[c] = "user" /\ req[c] = NoRequest /\ buf[c] = <<>>
      BY IdeAssumption DEF Init, Tasks
    <3> QED
      BY <2>1, <3>1 DEF AbsFacts, Begun
  <2>3. LogicalMedia = [hd \in Disks |-> [l \in 0 .. NSectors - 1 |-> Blank]]
    BY <2>1, <2>2 DEF AbsFacts, Init
  <2>4. /\ AbsSt = [c \in Clients |-> "idle"] /\ AbsReq = [c \in Clients |-> NoRequest]
        /\ AbsRes = [c \in Clients |-> <<>>]
    BY <2>1, <2>2 DEF AbsFacts
  <2> QED
    BY <2>3, <2>4 DEF Atomic!Init
<1>2. IdeInv /\ DataInv /\ [Next]_vars => [Atomic!Next]_(Atomic!vars)
  BY StepDisk
<1> QED
  BY <1>1, <1>2, SpecData, PTL DEF Spec, DiskSpec, Atomic!Spec

=============================================================================
