-------------------------------- MODULE Files -------------------------------
(***************************************************************************)
(* Open files: file_table, the descriptor tables of the tasks, the cache   *)
(* of in-memory inodes (open_inodes), the directory and the inode bitmap,  *)
(* under sys_open, sys_close, sys_unlink, sys_mkdir, sys_rmdir, sys_pipe,  *)
(* fork and exit.                                                          *)
(*                                                                         *)
(* System calls run with interrupts off, but ide_read and ide_write block, *)
(* and other tasks run meanwhile.  A call is therefore one step from one   *)
(* disk operation to the next; call[t] is what its stack holds across it.  *)
(* Its first step is what it does when it has read the directory: ide_read *)
(* holds the channel until the data is in memory, so nothing changes the   *)
(* directory in between.  A call that is refused there changes nothing (no *)
(* such name, or of the other type, or there is one already; a file in     *)
(* file_table; no free slot, for which file_create gives its inode back).  *)
(* All paths are names in the root directory, whose entries fit into one   *)
(* block; the contents of files and of subdirectories are left out.        *)
(*                                                                         *)
(* The kernel does not keep such calls apart.  raced records that one of   *)
(* the steps was taken that the code leaves unprotected; until then the    *)
(* properties hold, and what the tables hold afterwards is not followed.   *)
(***************************************************************************)
EXTENDS Integers, Sequences, FiniteSets, SequencesExt, FiniteSetsExt

CONSTANTS
    Tasks,      \* the main thread and the processes
    Main,       \* main(), the kernel thread that creates files
    InitProc,
    Null,
    Names,      \* names in the root directory
    NInodes,    \* bits of the inode bitmap
    MaxEntries, \* entries that fit into the directory
    NSlots,     \* file_table entries after the three standard ones
    NFds        \* fd_table entries after the three standard ones

Slots  == 1 .. NSlots
Fds    == 1 .. NFds
Inodes == 1 .. NInodes
Objs   == 1 .. NSlots + Cardinality(Tasks)   \* places for an inode in the kernel's heap
Ring   == 0                                  \* fd_inode of a pipe

(* An inode in memory (struct inode), and what a call has on its stack.     *)
InodeRecord == [no : Nat, cnts : Nat, deny : BOOLEAN]
CallRecord ==
    [pc : {"inode", "entry", "sync", "release"},
     op : {"open", "create", "mkdir", "unlink", "rmdir"},
     name : Names, flag : {"r", "w"}, no : Nat, slot : Nat, obj : Nat \union {Null}]

ASSUME FilesAssumption == Main \in Tasks /\ InitProc \in Tasks /\ IsFiniteSet(Tasks)
ASSUME NullAssumption == Null \notin Tasks \union Nat \union InodeRecord \union CallRecord
ASSUME FilesBounds == NInodes \in Nat /\ NSlots \in Nat /\ NFds \in Nat /\ MaxEntries \in Nat

VARIABLES
    slot,    \* file_table: [obj, flag, pos], obj is Null when the slot is free
    node,    \* in-memory inodes: [no, cnts, deny] or Null
    cache,   \* open_inodes, front first
    dir,     \* root directory on disk: set of <<name, inode number, type>>
    ibits,   \* inode_bitmap
    fd,      \* per task: descriptor -> slot or Null
    call,    \* per task: the call that waits for the disk, or Null
    alive,   \* tasks
    halted,  \* a failed ASSERT has stopped the machine
    raced    \* history: one of the unprotected steps below was taken

vars == <<slot, node, cache, dir, ibits, fd, call, alive, halted, raced>>
FreeSlot == [obj |-> Null, flag |-> "r", pos |-> 0]

Init ==
    /\ slot  = [g \in Slots |-> FreeSlot]
    /\ node  = [o \in Objs |-> Null]
    /\ cache = <<>> /\ dir = {} /\ ibits = {}
    /\ fd    = [t \in Tasks |-> [f \in Fds |-> Null]]
    /\ call  = [t \in Tasks |-> Null]
    /\ alive = {Main, InitProc}
    /\ halted = FALSE /\ raced = FALSE

-----------------------------------------------------------------------------
(* Helpers, on the state as it is                                           *)

Ready(t) == t \in alive /\ call[t] = Null
Return(t) == call' = [call EXCEPT ![t] = Null]

FreeSlots == {g \in Slots : slot[g].obj = Null}
FreeFds(t) == {f \in Fds : fd[t][f] = Null}
(* The inode a name leads to, if any, and as what: search_file.             *)
Found(name) == {e[2] : e \in {e \in dir : e[1] = name}}
FoundAs(name, type) == {e[2] : e \in {e \in dir : e[1] = name /\ e[3] = type}}
(* The inode inode_open finds in open_inodes, if any: the first.            *)
Cached(no) == LET I == {i \in 1 .. Len(cache) : node[cache[i]].no = no}
              IN  IF I = {} THEN {} ELSE {cache[Min(I)]}
NewObj == Min({o \in Objs : node[o] = Null /\ \A t \in Tasks : call[t] = Null \/ call[t].obj # o})

(* pcb_fd_install: the lowest free descriptor, or none.                     *)
Install(t, g) ==
    fd' = IF FreeFds(t) = {} THEN fd ELSE [fd EXCEPT ![t][Min(FreeFds(t))] = g]

(* The end of file_open, once inode_open has returned o, whose contents are *)
(* n: a write open of a file that is denied leaves the slot and the count.  *)
FinishOpen(t, g, o, n, flag) ==
    /\ slot' = [slot EXCEPT ![g] = [obj |-> o, flag |-> flag, pos |-> 0]]
    /\ \/ /\ flag = "w" /\ n.deny
          /\ node' = [node EXCEPT ![o] = n]
          /\ UNCHANGED fd
       \/ /\ flag = "w" /\ ~n.deny
          /\ node' = [node EXCEPT ![o] = [n EXCEPT !.deny = TRUE]]
          /\ Install(t, g)
       \/ /\ flag = "r"
          /\ node' = [node EXCEPT ![o] = n]
          /\ Install(t, g)
    /\ Return(t)

(* The unprotected steps.  A call acts on the directory it has read while   *)
(* another one has read it and is not done, unless both open a file; an     *)
(* open fills a slot that was taken, or adds an inode that is in            *)
(* open_inodes, while it read the disk; and a close frees the slot of a     *)
(* file that the descriptor of another process leads to.                    *)
Overlaps(t, op) == \E u \in Tasks \ {t} : call[u] # Null /\ {op, call[u].op} # {"open"}
Overtaken(t) == slot[call[t].slot].obj # Null \/ Cached(call[t].no) # {}
Shared(t, F) ==
    \E f \in F, x \in (Tasks \X Fds) \ ({t} \X F) :
       fd[x[1]][x[2]] = fd[t][f] /\ slot[fd[t][f]].flag # "pipe"

-----------------------------------------------------------------------------
(* t has read the directory and waits for the disk again.                   *)
Waits(t, pc, op, name, flag, no, g, o) ==
    call' = [call EXCEPT ![t] = [pc |-> pc, op |-> op, name |-> name, flag |-> flag,
                                 no |-> no, slot |-> g, obj |-> o]]
At(t, pc, op) == call[t] # Null /\ call[t].pc = pc /\ call[t].op = op

(* sys_open and file_open up to the read of the inode.                      *)
OpenFound(t, name, flag, no) ==
    /\ Ready(t) /\ no \in FoundAs(name, "file") /\ FreeSlots # {}
    /\ raced' = (raced \/ Overlaps(t, "open"))
    /\ \/ \E o \in Cached(no) :
            /\ FinishOpen(t, Min(FreeSlots), o, [node[o] EXCEPT !.cnts = @ + 1], flag)
            /\ UNCHANGED <<cache, dir, ibits, alive, halted>>
       \/ /\ Cached(no) = {}
          /\ Waits(t, "inode", "open", name, flag, no, Min(FreeSlots), NewObj)
          /\ UNCHANGED <<slot, node, cache, dir, ibits, fd, alive, halted>>

(* Mutant: the inode that was read is not put into open_inodes.             *)
OpenReadUncached(t) ==
    LET c == call[t] IN
    /\ At(t, "inode", "open")
    /\ FinishOpen(t, c.slot, c.obj, [no |-> c.no, cnts |-> 1, deny |-> FALSE], c.flag)
    /\ raced' = (raced \/ Overtaken(t))
    /\ UNCHANGED <<cache, dir, ibits, alive, halted>>

(* inode_open after the read: the inode enters the cache unconditionally.   *)
OpenRead(t) ==
    LET c == call[t] IN
    /\ At(t, "inode", "open")
    /\ cache' = <<c.obj>> \o cache
    /\ FinishOpen(t, c.slot, c.obj, [no |-> c.no, cnts |-> 1, deny |-> FALSE], c.flag)
    /\ raced' = (raced \/ Overtaken(t))
    /\ UNCHANGED <<dir, ibits, alive, halted>>

(* sys_open O_CREATE and file_create up to the write of the directory entry.  *)
Create(t, name) ==
    LET no == Min(Inodes \ ibits)  g == Min(FreeSlots)  o == NewObj IN
    /\ Ready(t) /\ Found(name) = {} /\ Inodes \ ibits # {} /\ FreeSlots # {}
    /\ raced' = (raced \/ Overlaps(t, "create"))
    /\ ibits' = ibits \union {no}
    /\ node' = [node EXCEPT ![o] = [no |-> no, cnts |-> 0, deny |-> FALSE]]
    /\ slot' = [slot EXCEPT ![g] = [obj |-> o, flag |-> "w", pos |-> 0]]
    /\ Waits(t, "entry", "create", name, "w", no, g, o)
    /\ UNCHANGED <<cache, dir, fd, alive, halted>>

(* sys_mkdir up to the write of its entry in the root directory.            *)
Mkdir(t, name) ==
    LET no == Min(Inodes \ ibits) IN
    /\ Ready(t) /\ Found(name) = {} /\ Inodes \ ibits # {}
    /\ raced' = (raced \/ Overlaps(t, "mkdir"))
    /\ ibits' = ibits \union {no}
    /\ Waits(t, "entry", "mkdir", name, "r", no, 0, Null)
    /\ UNCHANGED <<slot, node, cache, dir, fd, alive, halted>>

(* inode_bitmap_alloc of file_create or sys_mkdir with no bit free: the     *)
(* ASSERT of bitmap_scan.                                                   *)
NoInode(t, name) ==
    /\ Ready(t) /\ Found(name) = {} /\ Inodes \ ibits = {}
    /\ halted' = TRUE
    /\ UNCHANGED <<slot, node, cache, dir, ibits, fd, call, alive, raced>>

(* sync_dir_entry has written the entry; inode_sync and bitmap_sync follow. *)
EntryWritten(t, op) ==
    /\ At(t, "entry", op) /\ Cardinality(dir) < MaxEntries
    /\ dir' = dir \union {<<call[t].name, call[t].no, IF op = "create" THEN "file" ELSE "dir">>}
    /\ call' = [call EXCEPT ![t].pc = "sync"]
    /\ UNCHANGED <<slot, node, cache, ibits, fd, alive, halted, raced>>
(* sync_dir_entry has found no room: file_create and sys_mkdir roll back.   *)
CreateFailed(t) ==
    LET c == call[t] IN
    /\ At(t, "entry", "create") /\ Cardinality(dir) >= MaxEntries
    /\ slot'  = [slot EXCEPT ![c.slot] = FreeSlot]
    /\ node'  = [node EXCEPT ![c.obj] = Null]
    /\ ibits' = ibits \ {c.no}
    /\ Return(t)
    /\ UNCHANGED <<cache, dir, fd, alive, halted, raced>>
MkdirFailed(t) ==
    /\ At(t, "entry", "mkdir") /\ Cardinality(dir) >= MaxEntries
    /\ ibits' = ibits \ {call[t].no}
    /\ Return(t)
    /\ UNCHANGED <<slot, node, cache, dir, fd, alive, halted, raced>>
MkdirDone(t) ==
    /\ At(t, "sync", "mkdir")
    /\ Return(t)
    /\ UNCHANGED <<slot, node, cache, dir, ibits, fd, alive, halted, raced>>
Created(t) ==
    /\ At(t, "sync", "create")
    /\ cache' = <<call[t].obj>> \o cache
    /\ node' = [node EXCEPT ![call[t].obj].cnts = 1]
    /\ Install(t, call[t].slot)
    /\ Return(t)
    /\ UNCHANGED <<slot, dir, ibits, alive, halted, raced>>

(* sys_unlink looks for the file in file_table.                             *)
InUse(no) == \E g \in Slots : slot[g].obj \in Objs /\ node[slot[g].obj].no = no

(* The directory without the entry of an inode.                             *)
delete_dir_entry(no) == {e \in dir : e[2] # no}

(* Mutant: the file table is not consulted.                                 *)
UnlinkOpen(t, name, no) ==
    /\ Ready(t) /\ no \in FoundAs(name, "file")
    /\ raced' = (raced \/ Overlaps(t, "unlink"))
    /\ dir' = delete_dir_entry(no)
    /\ Waits(t, "release", "unlink", name, "r", no, 0, Null)
    /\ UNCHANGED <<slot, node, cache, ibits, fd, alive, halted>>

(* sys_unlink of a file that is not open: delete_dir_entry, then            *)
(* inode_realse, which opens and closes the inode itself.                   *)
Unlink(t, name, no) ==
    /\ Ready(t) /\ no \in FoundAs(name, "file") /\ ~InUse(no)
    /\ raced' = (raced \/ Overlaps(t, "unlink"))
    /\ dir' = delete_dir_entry(no)
    /\ Waits(t, "release", "unlink", name, "r", no, 0, Null)
    /\ UNCHANGED <<slot, node, cache, ibits, fd, alive, halted>>
(* sys_rmdir of a directory that has only . and ..: dir_remove              *)
Rmdir(t, name, no) ==
    /\ Ready(t) /\ no \in FoundAs(name, "dir")
    /\ raced' = (raced \/ Overlaps(t, "rmdir"))
    /\ dir' = delete_dir_entry(no)
    /\ Waits(t, "release", "rmdir", name, "r", no, 0, Null)
    /\ UNCHANGED <<slot, node, cache, ibits, fd, alive, halted>>
Released(t, op) ==
    /\ At(t, "release", op)
    /\ ibits' = ibits \ {call[t].no}
    /\ Return(t)
    /\ UNCHANGED <<slot, node, cache, dir, fd, alive, halted, raced>>

-----------------------------------------------------------------------------
(* list_remove of the inodes in S; the others keep their order.            *)
RemoveAll(list, S) ==
    LET keep == {i \in DOMAIN list : list[i] \notin S}
        Nth(k) == CHOOSE i \in keep : Cardinality({j \in keep : j < i}) = k
    IN  [i \in 1 .. Cardinality(keep) |-> list[Nth(i - 1)]]

(* file_close and the pipe's branch of sys_close, for the descriptors in F: *)
(* a file's slot is freed with the first close, its inode with the last; a  *)
(* pipe's slot when its count reaches 0.                                    *)
CloseSlots(t, F) ==
    LET times(g) == Cardinality({f \in F : fd[t][f] = g})
        uses(o)  == Cardinality({f \in F : slot[fd[t][f]].obj = o})
        gone     == {o \in Objs : uses(o) > 0 /\ node[o].cnts = uses(o)}
        left(g)  == IF slot[g].flag = "pipe" THEN slot[g].pos - times(g) ELSE slot[g].pos
        closed(g) == [slot[g] EXCEPT !.pos = left(g),
                                     !.obj = IF slot[g].flag = "pipe" /\ left(g) # 0 THEN @ ELSE Null]
    IN
    /\ slot' = [g \in Slots |-> IF times(g) > 0 THEN closed(g) ELSE slot[g]]
    /\ node' = [o \in Objs |->
                  IF o \in gone THEN Null
                  ELSE IF uses(o) > 0 THEN [node[o] EXCEPT !.cnts = @ - uses(o), !.deny = FALSE]
                  ELSE node[o]]
    /\ cache' = RemoveAll(cache, gone)
    /\ fd' = [fd EXCEPT ![t] = [f \in Fds |-> IF f \in F THEN Null ELSE fd[t][f]]]

(* sys_close                                                                *)
Close(t, f) ==
    /\ Ready(t) /\ fd[t][f] # Null
    /\ CloseSlots(t, {f})
    /\ raced' = (raced \/ Shared(t, {f}))
    /\ UNCHANGED <<dir, ibits, call, alive, halted>>

(* sys_pipe: both ends are one slot with a count of 2.                      *)
Pipe(t) ==
    /\ Ready(t) /\ t # Main /\ FreeSlots # {}
    /\ slot' = [slot EXCEPT ![Min(FreeSlots)] = [obj |-> Ring, flag |-> "pipe", pos |-> 2]]
    /\ LET first == Min(FreeFds(t))
           ends  == IF Cardinality(FreeFds(t)) < 2 THEN FreeFds(t)
                    ELSE {first, Min(FreeFds(t) \ {first})}
       IN  fd' = [fd EXCEPT ![t] = [f \in Fds |-> IF f \in ends THEN Min(FreeSlots) ELSE @[f]]]
    /\ UNCHANGED <<node, cache, dir, ibits, call, alive, halted, raced>>

(* Mutant: update_inode_open_cnts does not count pipes.                     *)
CountPipesKept(t) == UNCHANGED slot

(* update_inode_open_cnts: once per descriptor.                             *)
CountPipes(t) ==
    slot' = [g \in Slots |->
               IF slot[g].flag = "pipe"
               THEN [slot[g] EXCEPT !.pos = @ + Cardinality({f \in Fds : fd[t][f] = g})]
               ELSE slot[g]]
CountFiles(t) ==
    node' = [o \in Objs |->
               IF node[o] = Null THEN Null
               ELSE [node[o] EXCEPT !.cnts = @ + Cardinality(
                       {f \in Fds : fd[t][f] # Null /\ slot[fd[t][f]].obj = o})]]

Fork(t, c) ==
    /\ Ready(t) /\ t # Main /\ c \notin alive
    /\ CountPipes(t) /\ CountFiles(t)
    /\ fd' = [fd EXCEPT ![c] = fd[t]]
    /\ alive' = alive \union {c}
    /\ UNCHANGED <<cache, dir, ibits, call, halted, raced>>

(* release_prog_resource closes every descriptor.                           *)
Exit(t) ==
    /\ Ready(t) /\ t \notin {Main, InitProc}
    /\ CloseSlots(t, {f \in Fds : fd[t][f] # Null})
    /\ alive' = alive \ {t}
    /\ raced' = (raced \/ Shared(t, {f \in Fds : fd[t][f] # Null}))
    /\ UNCHANGED <<dir, ibits, call, halted>>

(* panic_spin: interrupts off, and a loop without end.                      *)
PanicSpin == halted /\ UNCHANGED vars

Step(t) ==
    \/ t # Main /\ \E name \in Names, flag \in {"r", "w"}, no \in Inodes : OpenFound(t, name, flag, no)
    \/ OpenRead(t)
    \/ t = Main /\ \E name \in Names : Create(t, name)
    \/ t # Main /\ \E name \in Names : Mkdir(t, name)
    \/ \E name \in Names : NoInode(t, name)
    \/ \E op \in {"create", "mkdir"} : EntryWritten(t, op)
    \/ CreateFailed(t)
    \/ MkdirFailed(t)
    \/ Created(t)
    \/ MkdirDone(t)
    \/ t # Main /\ \E name \in Names, no \in Inodes : Unlink(t, name, no)
    \/ t # Main /\ \E name \in Names, no \in Inodes : Rmdir(t, name, no)
    \/ \E op \in {"unlink", "rmdir"} : Released(t, op)
    \/ \E f \in Fds : Close(t, f)
    \/ Pipe(t)
    \/ \E c \in Tasks : Fork(t, c)
    \/ Exit(t)

Next == (~halted /\ \E t \in Tasks : Step(t)) \/ PanicSpin

Spec == Init /\ [][Next]_vars

-----------------------------------------------------------------------------
(* All of the following hold until the first unprotected step.               *)

(* sys_read and sys_write use file_table[fd_table[fd]].fd_inode without a    *)
(* test: a descriptor of a task leads to a slot in use, and a file's slot   *)
(* to an inode in open_inodes.                                              *)
FdBacked ==
    ~raced => \A t \in Tasks, f \in Fds :
      fd[t][f] # Null =>
        LET o == slot[fd[t][f]].obj IN
        /\ o # Null
        /\ slot[fd[t][f]].flag = "pipe" <=> o = Ring
        /\ o \in Objs => node[o] # Null /\ o \in ToSet(cache)

(* inode_open, inode_close and update_inode_open_cnts: open_inodes has one  *)
(* inode per number, and i_open_cnts counts the descriptors that lead to it *)
(* and the slots a failed open has left without one; a pipe's ring outlives *)
(* its descriptors.                                                         *)
Refs(g) == {x \in Tasks \X Fds : fd[x[1]][x[2]] = g}
Users(o) == {x \in Tasks \X Fds : \E g \in Slots : fd[x[1]][x[2]] = g /\ slot[g].obj = o}
Unused(o) == {g \in Slots : slot[g].obj = o /\ Refs(g) = {}}
CountsExact ==
    ~raced =>
    /\ \A i, j \in 1 .. Len(cache) : i # j => node[cache[i]].no # node[cache[j]].no
    /\ \A o \in ToSet(cache) : node[o].cnts = Cardinality(Users(o)) + Cardinality(Unused(o))
    /\ \A g \in Slots : slot[g].obj = Ring => slot[g].pos >= Cardinality(Refs(g))

(* file_create, sys_mkdir, sys_unlink and sys_rmdir: a name has one entry,  *)
(* an inode number has one entry and is marked in the bitmap, and an open   *)
(* file's name and number are not given away while it is open; between      *)
(* calls no number is marked without an entry.                              *)
DirectoryExact ==
    ~raced =>
    /\ \A e1, e2 \in dir : e1 # e2 => e1[1] # e2[1] /\ e1[2] # e2[2]
    /\ \A e \in dir : e[2] \in ibits
    /\ \A o \in ToSet(cache) : node[o].no \in ibits /\ \E e \in dir : e[2] = node[o].no
    /\ (\A t \in Tasks : call[t] = Null) => \A no \in ibits : \E e \in dir : e[2] = no
=============================================================================
