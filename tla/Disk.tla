-------------------------------- MODULE Disk --------------------------------
(***************************************************************************)
(* What ide_read and ide_write promise the file system: each disk is an    *)
(* array of sectors, and a request of any length is carried out in one     *)
(* step between its call and its return.                                   *)
(***************************************************************************)
EXTENDS SectorOps

CONSTANTS
    Clients,    \* the tasks that call ide_read and ide_write
    Disks,      \* dev_no of the disks of the channel
    NSectors,   \* sectors of a disk
    Blank,      \* what a sector holds at first
    Requests,   \* a client's calls: [op, hd, lba, cnt, data], data = <<>> to read
    NoRequest

VARIABLES
    media,      \* media[hd][lba]: the sectors
    st,         \* "idle", "pending" or "performed" for each client
    req,        \* its request
    res         \* what its read returns

vars == <<media, st, req, res>>

Init ==
    /\ media = [hd \in Disks |-> [l \in 0 .. NSectors - 1 |-> Blank]]
    /\ st    = [c \in Clients |-> "idle"]
    /\ req   = [c \in Clients |-> NoRequest]
    /\ res   = [c \in Clients |-> <<>>]

Call(c) ==
    /\ st[c] = "idle"
    /\ \E r \in Requests[c] : req' = [req EXCEPT ![c] = r]
    /\ st' = [st EXCEPT ![c] = "pending"]
    /\ UNCHANGED <<media, res>>

Perform(c) ==
    LET r == req[c] IN
    /\ st[c] = "pending"
    /\ st' = [st EXCEPT ![c] = "performed"]
    /\ \/ /\ r.op = "read"
          /\ res' = [res EXCEPT ![c] = SectorsAt(media, r.hd, r.lba, r.cnt)]
          /\ UNCHANGED media
       \/ /\ r.op = "write"
          /\ media' = Stored(media, r.hd, r.lba, r.data)
          /\ UNCHANGED res
    /\ UNCHANGED req

Return(c) ==
    /\ st[c] = "performed"
    /\ st'  = [st EXCEPT ![c] = "idle"]
    /\ req' = [req EXCEPT ![c] = NoRequest]
    /\ res' = [res EXCEPT ![c] = <<>>]
    /\ UNCHANGED media

Next == \E c \in Clients : Call(c) \/ Perform(c) \/ Return(c)

Spec == Init /\ [][Next]_vars
=============================================================================
