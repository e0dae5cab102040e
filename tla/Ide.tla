-------------------------------- MODULE Ide ---------------------------------
(***************************************************************************)
(* The disk driver: device/ide.c, for the two disks of one ATA channel.    *)
(* They share the registers, the interrupt line, the channel's lock, its   *)
(* flag expecting_intr and its semaphore disk_done.                        *)
(*                                                                         *)
(* The lock and the semaphore are used through what Sync shows of them.    *)
(* The drives are hardware, modelled from how the driver uses them: a      *)
(* command makes a drive busy; it interrupts once when the data of a read  *)
(* is ready and once when the data of a write is on the medium, and not    *)
(* when it is ready to accept the data of a write; a read of the status    *)
(* register or a new command withdraws the interrupt.  A drive may never   *)
(* become ready to accept a write.                                         *)
(***************************************************************************)
EXTENDS SectorOps

CONSTANTS
    Main,        \* the task that runs ide_init
    Clients,     \* the tasks that call ide_read and ide_write
    Null,
    Disks,       \* dev_no of the disks: 0 and 1
    NSectors,    \* sectors of a disk (max_lba + 1)
    Blank,
    Ranges,      \* the ranges <<lba, sec_cnt>> asked for
    Payload,     \* what a client writes: Payload[c][i] in its i-th sector
    SecsPerOp,   \* sectors one command can move (256)
    TimeLimit    \* time_limit of busy_wait (30000)

ASSUME IdeAssumption ==
    /\ SecsPerOp \in Nat \ {0} /\ TimeLimit \in Nat \ {0} /\ NSectors \in Nat \ {0}
    /\ \A g \in Ranges : g[1] \in Nat /\ g[2] \in Nat \ {0} /\ g[1] + g[2] <= NSectors
    /\ \A c \in Clients : /\ Payload[c] \in Seq({Payload[c][i] : i \in DOMAIN Payload[c]})
                          /\ \A g \in Ranges : g[2] <= Len(Payload[c])
    /\ Main \notin Clients /\ Null \notin Clients \cup {Main}
    /\ 0 \in Disks

VARIABLES
    media,       \* the sectors of the disks
    drive,       \* drive[hd]: state, command, first sector, count and buffer
    reg,         \* the device, sector-count and lba registers
    intrq,       \* the channel's interrupt line
    holder,      \* channel->lock.holder
    expecting,   \* channel->expecting_intr
    diskDone,    \* channel->disk_done.value
    pc, req,     \* where each task is in its call, and the call's arguments
    secsDone,    \* secs_done of each task
    secsOp,      \* secs_op of each task
    buf,         \* buf of a read
    timeLimit    \* time_limit of each task

driveVars == <<media, drive, reg, intrq>>
chanVars  == <<holder, expecting, diskDone>>
taskVars  == <<pc, req, secsDone, secsOp, buf, timeLimit>>
vars      == <<driveVars, chanVars, taskVars>>

Tasks == Clients \cup {Main}

(* The calls client c makes: it reads or writes its data in any range.      *)
RequestsOf(c) ==
    UNION {{[op |-> "read", hd |-> h, lba |-> g[1], cnt |-> g[2], data |-> <<>>],
            [op |-> "write", hd |-> h, lba |-> g[1], cnt |-> g[2],
             data |-> SubSeq(Payload[c], 1, g[2])]} : h \in Disks, g \in Ranges}

(* The locals of a task that is in no call.                                 *)
NoRequest == [op |-> "none", hd |-> 0, lba |-> 0, cnt |-> 0, data |-> <<>>]

IdleDrive == [state |-> "idle", cmd |-> "none", lba |-> 0, cnt |-> 0, data |-> <<>>]
Identify(hd) == [op |-> "identify", hd |-> hd, lba |-> 0, cnt |-> 1, data |-> <<>>]

(* ide_init has set up the channel and is about to identify disk 0.         *)
Init ==
    /\ media = [hd \in Disks |-> [l \in 0 .. NSectors - 1 |-> Blank]]
    /\ drive = [hd \in Disks |-> IdleDrive]
    /\ reg = [dev |-> 0, lba |-> 0, cnt |-> 0]
    /\ intrq = FALSE /\ holder = Null /\ expecting = FALSE /\ diskDone = 0
    /\ pc  = [t \in Tasks |-> IF t = Main THEN "identify" ELSE "user"]
    /\ req = [t \in Tasks |-> IF t = Main THEN Identify(0) ELSE NoRequest]
    /\ secsDone = [t \in Tasks |-> 0]
    /\ secsOp   = [t \in Tasks |-> IF t = Main THEN 1 ELSE 0]
    /\ buf = [t \in Clients |-> <<>>]
    /\ timeLimit = [t \in Tasks |-> TimeLimit]

GoTo(t, p) == pc' = [pc EXCEPT ![t] = p]

-----------------------------------------------------------------------------
(* ide_read and ide_write.                                                  *)

(* A client calls; the two ASSERTs are the range of the requests.           *)
Call(c) ==
    /\ pc[c] = "user" /\ pc[Main] = "gone"
    /\ \E r \in RequestsOf(c) : req' = [req EXCEPT ![c] = r]
    /\ GoTo(c, "lock")
    /\ UNCHANGED <<driveVars, chanVars, secsDone, secsOp, buf, timeLimit>>

(* lock_acquire and select_disk.                                            *)
(* Mutant: without lock_acquire.                                            *)
AcquireUnlocked(c) ==
    /\ pc[c] = "lock"
    /\ holder' = c
    /\ reg' = [reg EXCEPT !.dev = req[c].hd]
    /\ GoTo(c, "select")
    /\ UNCHANGED <<media, drive, intrq, expecting, diskDone,
                   req, secsDone, secsOp, buf, timeLimit>>

Acquire(c) ==
    /\ pc[c] = "lock" /\ holder = Null
    /\ holder' = c
    /\ reg' = [reg EXCEPT !.dev = req[c].hd]
    /\ GoTo(c, "select")
    /\ UNCHANGED <<media, drive, intrq, expecting, diskDone,
                   req, secsDone, secsOp, buf, timeLimit>>

(* The size of the next command: a full one while more than that is left.   *)
NextOp(t) ==
    IF secsDone[t] + SecsPerOp <= req[t].cnt THEN SecsPerOp ELSE req[t].cnt - secsDone[t]

(* select_sector: the count goes into an 8-bit register, where 256 is 0.    *)
(* Mutant: every command starts at lba, not at lba + secs_done.             *)
SelectSectorSameLba(c) ==
    /\ pc[c] = "select"
    /\ secsOp' = [secsOp EXCEPT ![c] = NextOp(c)]
    /\ reg' = [dev |-> req[c].hd, lba |-> req[c].lba, cnt |-> NextOp(c) % SecsPerOp]
    /\ GoTo(c, "command")
    /\ UNCHANGED <<media, drive, intrq, chanVars, req, secsDone, buf, timeLimit>>

SelectSector(c) ==
    /\ pc[c] = "select"
    /\ secsOp' = [secsOp EXCEPT ![c] = NextOp(c)]
    /\ reg' = [dev |-> req[c].hd, lba |-> req[c].lba + secsDone[c],
               cnt |-> NextOp(c) % SecsPerOp]
    /\ GoTo(c, "command")
    /\ UNCHANGED <<media, drive, intrq, chanVars, req, secsDone, buf, timeLimit>>

(* What the selected drive does with a command: it is busy with it.  The    *)
(* data of IDENTIFY is one sector.                                          *)
StartCommand(cmd) ==
    drive' = [drive EXCEPT ![reg.dev] =
        [state |-> IF cmd = "write" THEN "accepting" ELSE "reading", cmd |-> cmd,
         lba |-> IF cmd = "identify" THEN 0 ELSE reg.lba,
         cnt |-> IF cmd = "identify" THEN 1
                 ELSE IF reg.cnt = 0 THEN SecsPerOp ELSE reg.cnt,
         data |-> <<>>]]

(* cmd_out.  The drive has no command, so nothing comes between the flag    *)
(* and the register.  A reader sleeps next, a writer waits for the drive.   *)
CmdOut(t) ==
    /\ pc[t] = "command"
    /\ expecting' = TRUE
    /\ StartCommand(req[t].op) /\ intrq' = FALSE
    /\ GoTo(t, IF req[t].op = "write" THEN "poll" ELSE "sleep")
    /\ timeLimit' = [timeLimit EXCEPT ![t] = TimeLimit]
    /\ UNCHANGED <<media, reg, holder, diskDone, req, secsDone, secsOp, buf>>

(* sema_down(&disk_done): a reader goes on to poll; a writer is done with   *)
(* the command, and loops or releases the lock.                             *)
SemaDown(t) ==
    /\ pc[t] = "sleep" /\ diskDone > 0
    /\ diskDone' = diskDone - 1
    /\ timeLimit' = [timeLimit EXCEPT ![t] = TimeLimit]
    /\ \/ /\ req[t].op # "write"
          /\ GoTo(t, "poll")
          /\ UNCHANGED secsDone
       \/ /\ req[t].op = "write"
          /\ secsDone' = [secsDone EXCEPT ![t] = @ + secsOp[t]]
          /\ GoTo(t, IF secsDone'[t] < req[t].cnt THEN "select" ELSE "release")
    /\ UNCHANGED <<driveVars, holder, expecting, req, secsOp, buf>>

(* busy_wait: `time_limit -= 10 >= 0` takes 1 off and stops at 0.  Both     *)
(* reads of the status register are one look at the selected drive.         *)
(* Mutant: no time limit.                                                   *)
BusyWaitForever(t) ==
    /\ pc[t] = "poll"
    /\ \/ drive[reg.dev].state = "drq" /\ GoTo(t, "transfer")
       \/ drive[reg.dev].state \notin {"idle", "drq"} /\ GoTo(t, "nap")
    /\ intrq' = FALSE
    /\ UNCHANGED <<media, drive, reg, chanVars, req, secsDone, secsOp, buf,
                   timeLimit>>

BusyWait(t) ==
    /\ pc[t] = "poll"
    /\ timeLimit' = [timeLimit EXCEPT ![t] = @ - 1]
    /\ \/ /\ timeLimit'[t] > 0 /\ drive[reg.dev].state = "drq"
          /\ GoTo(t, "transfer") /\ intrq' = FALSE
       \/ /\ timeLimit'[t] > 0 /\ drive[reg.dev].state \notin {"idle", "drq"}
          /\ GoTo(t, "nap") /\ intrq' = FALSE
       \/ /\ timeLimit'[t] = 0 \/ drive[reg.dev].state = "idle"
          /\ GoTo(t, "panic") /\ UNCHANGED intrq
    /\ UNCHANGED <<media, drive, reg, chanVars, req, secsDone, secsOp, buf>>

(* mtime_sleep(10).  The caller is in a system call, with interrupts off,   *)
(* and thread_yield chooses it again while no other task is ready: the      *)
(* clock advances only while another task runs with interrupts on.  There   *)
(* may be one, in a program or in a call, so the sleep can always end; that *)
(* it does is not promised (Fairness).                                      *)
Nap(t) ==
    /\ pc[t] = "nap"
    /\ GoTo(t, "poll")
    /\ UNCHANGED <<driveVars, chanVars, req, secsDone, secsOp, buf, timeLimit>>

(* read_from_sector: the drive's buffer, as many sectors as the command.    *)
ReadTransfer(c) ==
    /\ pc[c] = "transfer" /\ req[c].op = "read"
    /\ buf' = [buf EXCEPT ![c] = @ \o SubSeq(drive[reg.dev].data, 1, secsOp[c])]
    /\ drive' = [drive EXCEPT ![reg.dev] = IdleDrive]
    /\ secsDone' = [secsDone EXCEPT ![c] = @ + secsOp[c]]
    /\ GoTo(c, IF secsDone'[c] < req[c].cnt THEN "select" ELSE "release")
    /\ UNCHANGED <<media, reg, intrq, chanVars, req, secsOp, timeLimit>>

(* write2sector: the next secs_op sectors of buf.                           *)
WriteTransfer(c) ==
    /\ pc[c] = "transfer" /\ req[c].op = "write"
    /\ drive' = [drive EXCEPT ![reg.dev].state = "writing",
                              ![reg.dev].data = SubSeq(req[c].data, secsDone[c] + 1,
                                                       secsDone[c] + secsOp[c])]
    /\ GoTo(c, "sleep")
    /\ UNCHANGED <<media, reg, intrq, chanVars, req, secsDone, secsOp, buf, timeLimit>>

(* lock_release and return: the locals are gone.                            *)
Release(c) ==
    /\ pc[c] = "release"
    /\ holder' = Null
    /\ GoTo(c, "user")
    /\ req'       = [req EXCEPT ![c] = NoRequest]
    /\ secsDone'  = [secsDone EXCEPT ![c] = 0]
    /\ secsOp'    = [secsOp EXCEPT ![c] = 0]
    /\ buf'       = [buf EXCEPT ![c] = <<>>]
    /\ timeLimit' = [timeLimit EXCEPT ![c] = TimeLimit]
    /\ UNCHANGED <<driveVars, expecting, diskDone>>

-----------------------------------------------------------------------------
(* ide_init: identify_disk for each disk, without the lock.                 *)
IdentifyDisk ==
    /\ pc[Main] = "identify"
    /\ reg' = [reg EXCEPT !.dev = req[Main].hd]
    /\ GoTo(Main, "command")
    /\ UNCHANGED <<media, drive, intrq, chanVars, req, secsDone, secsOp, buf, timeLimit>>

(* read_from_sector(hd, id_info, 1), then the next disk.                    *)
IdentifyTransfer ==
    /\ pc[Main] = "transfer"
    /\ drive' = [drive EXCEPT ![reg.dev] = IdleDrive]
    /\ \/ /\ req[Main].hd + 1 \in Disks
          /\ req' = [req EXCEPT ![Main] = Identify(req[Main].hd + 1)]
          /\ GoTo(Main, "identify")
       \/ /\ req[Main].hd + 1 \notin Disks
          /\ GoTo(Main, "gone")
          /\ UNCHANGED req
    /\ UNCHANGED <<media, reg, intrq, chanVars, secsDone, secsOp, buf, timeLimit>>

-----------------------------------------------------------------------------
(* The drives.                                                              *)
DriveReady(hd) ==
    LET d == drive[hd] IN
    /\ d.state = "reading"
    /\ drive' = [drive EXCEPT ![hd].state = "drq",
                              ![hd].data = IF d.cmd = "read"
                                           THEN SectorsAt(media, hd, d.lba, d.cnt) ELSE <<>>]
    /\ intrq' = TRUE
    /\ UNCHANGED <<media, reg, chanVars, taskVars>>

DriveAccepts(hd) ==
    /\ drive[hd].state = "accepting"
    /\ drive' = [drive EXCEPT ![hd].state = "drq"]
    /\ UNCHANGED <<media, reg, intrq, chanVars, taskVars>>

DriveWritten(hd) ==
    LET d == drive[hd] IN
    /\ d.state = "writing"
    /\ media' = Stored(media, hd, d.lba, d.data)
    /\ drive' = [drive EXCEPT ![hd] = IdleDrive]
    /\ intrq' = TRUE
    /\ UNCHANGED <<reg, chanVars, taskVars>>

(* intr_hd_handler.  The read of the status register withdraws intrq.       *)
(* Mutant: expecting_intr is not cleared.                                   *)
IntrHdHandlerFlagKept ==
    /\ intrq
    /\ diskDone' = IF expecting THEN diskDone + 1 ELSE diskDone
    /\ intrq' = FALSE
    /\ UNCHANGED <<media, drive, reg, holder, expecting, taskVars>>

IntrHdHandler ==
    /\ intrq
    /\ diskDone' = IF expecting THEN diskDone + 1 ELSE diskDone
    /\ expecting' = FALSE
    /\ intrq' = FALSE
    /\ UNCHANGED <<media, drive, reg, holder, taskVars>>

CommandStep(t) == CmdOut(t) \/ SemaDown(t) \/ BusyWait(t)

TaskStep(t) == CommandStep(t) \/ Nap(t)

ClientStep(c) ==
    Acquire(c) \/ SelectSector(c) \/ ReadTransfer(c) \/ WriteTransfer(c) \/ Release(c)

DriveStep(hd) == DriveReady(hd) \/ DriveWritten(hd)

(* PANIC: panic_spin turns interrupts off and loops.                        *)
Panicked == \E t \in Tasks : pc[t] = "panic"
PanicSpin == Panicked /\ UNCHANGED vars

Step ==
    \/ \E c \in Clients : Call(c) \/ ClientStep(c)
    \/ \E t \in Tasks : TaskStep(t)
    \/ IdentifyDisk \/ IdentifyTransfer
    \/ \E hd \in Disks : DriveStep(hd) \/ DriveAccepts(hd)
    \/ IntrHdHandler

Next == (~Panicked /\ Step) \/ PanicSpin

Spec == Init /\ [][Next]_vars

(* The scheduler runs every ready task (NoStarvation of Thread) and a task  *)
(* that wants the free lock gets a turn; a drive finishes reading and       *)
(* writing; the interrupt is taken once the tasks sleep, since idle runs    *)
(* with interrupts on.  A drive need not accept a write, nor a client call; *)
(* and nothing makes mtime_sleep end: the shell alone in a system call      *)
(* yields to itself with interrupts off, and ticks stands still.            *)
Fairness ==
    /\ \A t \in Tasks : WF_vars(~Panicked /\ CommandStep(t))
    /\ \A c \in Clients : WF_vars(~Panicked /\ ClientStep(c))
    /\ WF_vars(~Panicked /\ (IdentifyDisk \/ IdentifyTransfer))
    /\ \A hd \in Disks : WF_vars(~Panicked /\ DriveStep(hd))
    /\ WF_vars(~Panicked /\ IntrHdHandler)

FairSpec == Spec /\ Fairness

-----------------------------------------------------------------------------
(* The task whose command the channel works on: the holder of the lock, or  *)
(* Main while ide_init runs.                                                *)
Owners == {c \in Clients : holder = c} \cup {t \in {Main} : pc[t] # "gone"}
Busy(hd) == drive[hd].state # "idle"

(* A drive only ever works for the owner of the channel, on the disk and    *)
(* the sectors it asked for, and only while the owner waits for it or moves *)
(* its data; so no command reaches a drive that has one, although the two   *)
(* disks share the registers (lock_acquire in ide_read and ide_write).      *)
DriveServesOwner ==
    \A hd \in Disks : Busy(hd) =>
        \E t \in Owners :
            /\ req[t].hd = hd /\ reg.dev = hd /\ drive[hd].cmd = req[t].op
            /\ drive[hd].lba = req[t].lba + secsDone[t] /\ drive[hd].cnt = secsOp[t]
            /\ pc[t] \in {"sleep", "poll", "nap", "transfer", "panic"}
            /\ \A h \in Disks \ {hd} : ~Busy(h)

(* The interrupt matches the command it is waited for: between two commands *)
(* there is no interrupt left, none expected and no completion counted, and *)
(* during one there is at most one (the comment of intr_hd_handler: the     *)
(* lock keeps them together).  A second completion would let the next       *)
(* ide_write return before its data is on the disk.                         *)
CompletionMatches ==
    /\ diskDone <= 1
    /\ \A t \in Owners :
          pc[t] \in {"identify", "select", "command", "release"} =>
              diskDone = 0 /\ ~expecting /\ ~intrq
    /\ Owners = {} => diskDone = 0 /\ ~expecting /\ ~intrq

(* Every ide_read and ide_write acts as one step on an array of sectors,    *)
(* whatever commands it is cut into and whoever else uses the channel.  A   *)
(* write takes place when its first command is on the medium (the lock      *)
(* hides the rest until it is there too), a read at its last transfer.      *)
WriteBegun(c) ==
    /\ req[c].op = "write"
    /\ secsDone[c] > 0 \/ (pc[c] = "sleep" /\ ~Busy(req[c].hd))
PerformState(c) ==
    CASE pc[c] = "user" -> "idle"
      [] pc[c] = "release" -> "performed"
      [] pc[c] \notin {"user", "release"} /\ holder = c /\ WriteBegun(c) -> "performed"
      [] OTHER -> "pending"
LogicalMedia ==
    IF \E c \in Clients : holder = c /\ WriteBegun(c)
    THEN Stored(media, req[holder].hd, req[holder].lba, req[holder].data)
    ELSE media
AbsSt  == [c \in Clients |-> PerformState(c)]
AbsReq == [c \in Clients |-> req[c]]
AbsRes == [c \in Clients |-> IF PerformState(c) = "pending" THEN <<>> ELSE buf[c]]

Atomic == INSTANCE Disk WITH
    Requests <- [c \in Clients |-> RequestsOf(c)],
    media <- LogicalMedia, st <- AbsSt, req <- AbsReq, res <- AbsRes
DiskSpec == Atomic!Spec

(* What busy_wait says of itself (ide.c:131 and 143: it waits 30 s, and     *)
(* returns false if the drive is busy still): a request that has the        *)
(* channel returns, or the machine panics.  It does not where no other task *)
(* is ready: mtime_sleep never returns, so time_limit never runs out.       *)
RequestEnds ==
    \A c \in Clients : (holder = c) ~> (holder # c \/ Panicked)

(* That sleep is the only place where a request can stay for ever: it       *)
(* returns, or panics, or is in one mtime_sleep that never ends.  No        *)
(* interrupt is lost between cmd_out and sema_down, and a drive that never  *)
(* accepts a write ends in PANIC after time_limit rounds of busy_wait.      *)
RequestEndsOrSleeps ==
    \A c \in Clients : (holder = c) ~> (holder # c \/ Panicked \/ [](pc[c] = "nap"))
=============================================================================
