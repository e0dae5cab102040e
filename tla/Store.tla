------------------------------- MODULE Store --------------------------------
(***************************************************************************)
(* The contents of files: create, append, read, seek and unlink            *)
(* (fs/file.c, fs/inode.c, fs/fs.c), the order in which they write to the  *)
(* disk, and a loss of power between any two of these writes, after which  *)
(* filesys_init mounts what the disk has.                                  *)
(*                                                                         *)
(* One process uses files of the root directory.  A call changes memory    *)
(* and leaves the sector writes it makes in `pending`, in their order; the *)
(* next call comes after the last of them.  The byte a program writes is   *)
(* the name it opened the file by (the ink) and the byte's position.       *)
(***************************************************************************)
EXTENDS Integers, Sequences, FiniteSets, SequencesExt, FiniteSetsExt

CONSTANTS
    Names,      \* names in the root directory
    Null,
    NFiles,     \* inodes but the root's
    NBlocks,    \* data blocks but the root's
    NDirect,    \* direct blocks of an inode (12)
    NIndirect,  \* addresses in an index block (128)
    BlockSize,  \* bytes in a block (512)
    MaxCount,   \* bound: bytes of a write or read
    MaxCrashes  \* bound: losses of power

ASSUME StoreAssumption ==
    /\ {NFiles, NBlocks, MaxCrashes} \subseteq Nat
    /\ {NDirect, NIndirect, BlockSize, MaxCount} \subseteq Nat \ {0}

MaxBlocks == NDirect + NIndirect    \* 140
IndexPos  == NDirect + 1            \* i_sectors[12]
Inos   == 1 .. NFiles
Blocks == 1 .. NBlocks              \* address 0 is none
Cells  == 1 .. BlockSize
Blank  == [c \in Cells |-> Null]

NoSecs  == [i \in 1 .. IndexPos |-> 0]
NoIndex == [i \in 1 .. NIndirect |-> 0]
Zeroed  == [size |-> 0, sec |-> NoSecs]

(* struct inode, as far as it matters here, and struct file.                *)
InodeType == [size : Nat, sec : [1 .. IndexPos -> 0 .. NBlocks]]
ASSUME NullAssumption ==
    Null \notin [no : Inos, inode : InodeType, pos : Int, ink : Names]

VARIABLES
    disk,       \* entry, rootSize, table, ibits, bbits, data (cells or index)
    mem,        \* rootSize, ibits, bbits: the mounted partition in memory
    file,       \* the open file, [no, inode, pos, ink], or Null
    pending,    \* sector writes of the call under way
    halted,     \* an ASSERT stops the machine
    crashes,
    written     \* history: what was written to the inode

vars == <<disk, mem, file, pending, halted, crashes, written>>

(* partition_format, and mount_partition for what memory has of the disk.   *)
Mounted(d) == [rootSize |-> d.rootSize, ibits |-> d.ibits, bbits |-> d.bbits]
Formatted ==
    [entry |-> [n \in Names |-> 0], rootSize |-> 2, table |-> [i \in Inos |-> Zeroed],
     ibits |-> {}, bbits |-> {},
     data |-> [b \in Blocks |-> [cells |-> Blank, index |-> NoIndex]]]
Init ==
    /\ disk = Formatted /\ mem = Mounted(Formatted)
    /\ file = Null /\ pending = <<>> /\ halted = FALSE
    /\ crashes = 0 /\ written = [i \in Inos |-> <<>>]

-----------------------------------------------------------------------------
(* The sector writes: one directory entry, the inode of the root or of a    *)
(* file (inode_sync, inode_delete), a bitmap (bitmap_sync), a data block or *)
(* an index.                                                                *)
EntryWrite(name, no)   == [to |-> "entry", at |-> name, val |-> no]
RootWrite(size)        == [to |-> "root", at |-> 0, val |-> size]
InodeWrite(no, inode)  == [to |-> "inode", at |-> no, val |-> inode]
InodeBits(bits)        == [to |-> "ibits", at |-> 0, val |-> bits]
BlockBits(bits)        == [to |-> "bbits", at |-> 0, val |-> bits]
CellsWrite(b, cells)   == [to |-> "cells", at |-> b, val |-> cells]
IndexWrite(b, index)   == [to |-> "index", at |-> b, val |-> index]

Apply(d, w) ==
    CASE w.to = "entry" -> [d EXCEPT !.entry[w.at] = w.val]
      [] w.to = "root"  -> [d EXCEPT !.rootSize = w.val]
      [] w.to = "inode" -> [d EXCEPT !.table[w.at] = w.val]
      [] w.to = "ibits" -> [d EXCEPT !.ibits = w.val]
      [] w.to = "bbits" -> [d EXCEPT !.bbits = w.val]
      [] w.to = "cells" -> [d EXCEPT !.data[w.at] = [cells |-> w.val, index |-> NoIndex]]
      [] w.to = "index" -> [d EXCEPT !.data[w.at] = [cells |-> Blank, index |-> w.val]]

IndexOf(o) == IF o.sec[IndexPos] = 0 THEN NoIndex ELSE disk.data[o.sec[IndexPos]].index

-----------------------------------------------------------------------------
(* file_write: append n bytes.                                              *)

(* What it allocates, in this order: the first block of an empty file, the  *)
(* index (0 here), and the blocks from file_has_used_blocks on.             *)
UsedBlocks(size) == size \div BlockSize + 1
NewSlots(o, n) ==
    LET has  == UsedBlocks(o.size)
        will == UsedBlocks(o.size + n)
    IN  (IF o.sec[1] = 0 THEN <<1>> ELSE <<>>) \o
        (IF has <= NDirect /\ will > NDirect THEN <<0>> ELSE <<>>) \o
        [k \in 1 .. will - has |-> has + k]

(* block_bitmap_alloc, over and over: the lowest free bits.                 *)
Nth(S, k) == CHOOSE x \in S : Cardinality({y \in S : y < x}) = k - 1
FreeList ==
    LET free == Blocks \ mem.bbits
    IN  [k \in 1 .. Cardinality(free) |-> Nth(free, k)]

(* Each allocation is followed by its bitmap_sync.                          *)
AllocBits(m) ==
    [k \in 1 .. m |-> BlockBits(mem.bbits \cup {FreeList[j] : j \in 1 .. k})]

(* The address for slot i after the allocation, or the one it had.          *)
NewAddress(o, slots, i, old) ==
    IF \E k \in DOMAIN slots : slots[k] = i
    THEN FreeList[CHOOSE k \in DOMAIN slots : slots[k] = i] ELSE old

(* The inode and its index after the write.                                 *)
Grown(o, n) ==
    LET slots == NewSlots(o, n) IN
    [inode |-> [size |-> o.size + n,
                sec |-> [i \in 1 .. IndexPos |->
                            IF i = IndexPos THEN NewAddress(o, slots, 0, o.sec[i])
                            ELSE NewAddress(o, slots, i, o.sec[i])]],
     index |-> [i \in 1 .. NIndirect |-> NewAddress(o, slots, NDirect + i, IndexOf(o)[i])]]

(* The blocks are written one after the other; only the first one is read   *)
(* before, and keeps what it had.                                           *)
DataWrites(o, n, ink, g) ==
    LET first == o.size \div BlockSize
        last  == (o.size + n - 1) \div BlockSize
        Addr(k) == IF k < NDirect THEN g.inode.sec[k + 1] ELSE g.index[k - NDirect + 1]
        Cell(k, c) ==
            LET p == k * BlockSize + c - 1 IN
            CASE p >= o.size /\ p < o.size + n -> <<ink, p>>
              [] k = first /\ (p < o.size \/ p >= o.size + n) -> disk.data[Addr(k)].cells[c]
              [] OTHER -> Null
    IN  [j \in 1 .. last - first + 1 |->
            CellsWrite(Addr(first + j - 1), [c \in Cells |-> Cell(first + j - 1, c)])]

(* The index, when there is a new block behind it.                          *)
IndexSync(o, n, g) ==
    IF UsedBlocks(o.size + n) > NDirect /\ UsedBlocks(o.size + n) > UsedBlocks(o.size)
    THEN <<IndexWrite(g.inode.sec[IndexPos], g.index)>> ELSE <<>>

WriteSyncs(o, no, n, ink) ==
    LET g == Grown(o, n) IN
    AllocBits(Len(NewSlots(o, n))) \o IndexSync(o, n, g) \o DataWrites(o, n, ink, g)
        \o <<InodeWrite(no, g.inode)>>

-----------------------------------------------------------------------------
(* file_read: n bytes from pos.  all_blocks has the direct blocks from the  *)
(* first to the last, and the index if the last is behind it.               *)
EndBlock(pos, n) == (pos + n) \div BlockSize
(* Mutant: the index is not read when the bytes begin before it.            *)
CollectedNoSpan(o, pos, n) ==
    [k \in 0 .. MaxBlocks - 1 |->
        IF k < NDirect
        THEN IF k \in pos \div BlockSize .. EndBlock(pos, n) THEN o.sec[k + 1] ELSE 0
        ELSE IF pos \div BlockSize >= NDirect THEN IndexOf(o)[k - NDirect + 1] ELSE 0]
Collected(o, pos, n) ==
    [k \in 0 .. MaxBlocks - 1 |->
        IF k < NDirect
        THEN IF k \in pos \div BlockSize .. EndBlock(pos, n) THEN o.sec[k + 1] ELSE 0
        ELSE IF EndBlock(pos, n) >= NDirect THEN IndexOf(o)[k - NDirect + 1] ELSE 0]
FileRead(o, pos, n) ==
    LET blocks == Collected(o, pos, n) IN
    [i \in 1 .. n |->
        LET p == pos + i - 1
            b == blocks[p \div BlockSize]
        IN  IF b = 0 THEN Null ELSE disk.data[b].cells[(p % BlockSize) + 1]]

(* ASSERT(block_read_start_idx < 139 && block_read_end_idx < 139).          *)
ReadAsserts(pos, n) == EndBlock(pos, n) < MaxBlocks - 1

-----------------------------------------------------------------------------
(* The calls                                                                *)

IsOpen(no) == file # Null /\ file.no = no
Ready == ~halted /\ pending = <<>>
HaltAfter(ws) ==
    /\ halted' = TRUE /\ pending' = ws
    /\ UNCHANGED <<disk, mem, file, crashes, written>>

(* sys_open with O_CREATE, file_create: entry, parent, inode, inode bitmap. *)
(* The history of the inode begins.                                         *)
Create(name) ==
    LET no == Min(Inos \ mem.ibits) IN
    /\ Ready /\ file = Null /\ disk.entry[name] = 0 /\ mem.ibits # Inos
    /\ file' = [no |-> no, inode |-> Zeroed, pos |-> 0, ink |-> name]
    /\ mem' = [mem EXCEPT !.ibits = @ \cup {no}, !.rootSize = @ + 1]
    /\ pending' = <<EntryWrite(name, no), RootWrite(mem.rootSize + 1),
                    InodeWrite(no, Zeroed), InodeBits(mem.ibits \cup {no})>>
    /\ written' = [written EXCEPT ![no] = <<>>]
    /\ UNCHANGED <<disk, halted, crashes>>

(* inode_bitmap_alloc without a free bit: the ASSERT of bitmap_scan.        *)
CreateHalts(name) ==
    /\ Ready /\ file = Null /\ disk.entry[name] = 0 /\ mem.ibits = Inos
    /\ HaltAfter(<<>>)

(* file_open and file_close.                                                *)
Open(name) ==
    /\ Ready /\ file = Null /\ disk.entry[name] # 0
    /\ file' = [no |-> disk.entry[name], inode |-> disk.table[disk.entry[name]],
                pos |-> 0, ink |-> name]
    /\ UNCHANGED <<disk, mem, pending, halted, crashes, written>>
Close ==
    /\ Ready /\ file # Null /\ file' = Null
    /\ UNCHANGED <<disk, mem, pending, halted, crashes, written>>

(* file_write; it leaves fd_pos one before the end.                         *)
Write(n) ==
    /\ Ready /\ file # Null
    /\ LET o == file.inode
           m == Len(NewSlots(o, n))
       IN  /\ UsedBlocks(o.size + n) <= MaxBlocks /\ m <= Len(FreeList)
           /\ pending' = WriteSyncs(o, file.no, n, file.ink)
           /\ file' = [file EXCEPT !.inode = Grown(o, n).inode, !.pos = o.size + n - 1]
           /\ mem' = [mem EXCEPT !.bbits = @ \cup {FreeList[k] : k \in 1 .. m}]
           /\ written' = [written EXCEPT ![file.no] =
                             @ \o [k \in 1 .. n |-> <<file.ink, o.size + k - 1>>]]
    /\ UNCHANGED <<disk, halted, crashes>>

(* A file of the largest size passes the first test and not the ASSERT; the *)
(* block bitmap may be full before the last block is found.                 *)
WriteHalts(n) ==
    /\ Ready /\ file # Null
    /\ LET o == file.inode IN
       /\ o.size + n <= MaxBlocks * BlockSize
       /\ \/ /\ UsedBlocks(o.size + n) > MaxBlocks
             /\ HaltAfter(AllocBits(IF o.sec[1] = 0 /\ FreeList # <<>> THEN 1 ELSE 0))
          \/ /\ UsedBlocks(o.size + n) <= MaxBlocks /\ Len(NewSlots(o, n)) > Len(FreeList)
             /\ HaltAfter(AllocBits(Len(FreeList)))

(* file_read up to the end of the file.                                     *)
Read(n) ==
    /\ Ready /\ file # Null
    /\ LET got == Min({n, file.inode.size - file.pos}) IN
       /\ got > 0
       /\ IF ReadAsserts(file.pos, got)
          THEN /\ file' = [file EXCEPT !.pos = @ + got]
               /\ UNCHANGED <<disk, mem, pending, halted, crashes, written>>
          ELSE HaltAfter(<<>>)

(* sys_lseek, from the start, from fd_pos or from the end.                  *)
Seek(pos) ==
    /\ Ready /\ file # Null /\ pos < file.inode.size
    /\ file' = [file EXCEPT !.pos = pos]
    /\ UNCHANGED <<disk, mem, pending, halted, crashes, written>>

(* inode_realse: the index block, then the blocks, one bitmap_sync each;    *)
(* the inode's bit; the inode.                                              *)
Addresses(o) ==
    [k \in 1 .. IndexPos + NIndirect |->
        IF k = 1 THEN o.sec[IndexPos]
        ELSE IF k <= IndexPos THEN o.sec[k - 1] ELSE IndexOf(o)[k - IndexPos]]
FreedBlocks(o) ==
    LET a    == Addresses(o)
        used == {k \in DOMAIN a : a[k] # 0}
    IN  [k \in 1 .. Cardinality(used) |-> a[Nth(used, k)]]

(* Mutant: the index block is not given back.                               *)
InodeRealseNoIndex(no) ==
    LET o == disk.table[no]
        all == IF o.sec[IndexPos] = 0 THEN FreedBlocks(o) ELSE Tail(FreedBlocks(o))
    IN  [k \in DOMAIN all |-> BlockBits(mem.bbits \ {all[j] : j \in 1 .. k})]
            \o <<InodeBits(mem.ibits \ {no}), InodeWrite(no, Zeroed)>>
(* Mutant: without inode_delete, which its comment calls unnecessary.       *)
InodeRealseKept(no) ==
    LET all == FreedBlocks(disk.table[no])
    IN  [k \in DOMAIN all |-> BlockBits(mem.bbits \ {all[j] : j \in 1 .. k})]
            \o <<InodeBits(mem.ibits \ {no})>>
InodeRealse(no) ==
    LET all == FreedBlocks(disk.table[no])
    IN  [k \in DOMAIN all |-> BlockBits(mem.bbits \ {all[j] : j \in 1 .. k})]
            \o <<InodeBits(mem.ibits \ {no}), InodeWrite(no, Zeroed)>>

(* sys_unlink of a file that is not open: delete_dir_entry (the entry, the  *)
(* parent), then inode_realse.                                              *)
Unlink(name) ==
    LET no == disk.entry[name] IN
    /\ Ready /\ no # 0 /\ ~IsOpen(no)
    /\ mem' = [rootSize |-> mem.rootSize - 1, ibits |-> mem.ibits \ {no},
               bbits |-> mem.bbits \ ToSet(FreedBlocks(disk.table[no]))]
    /\ pending' = <<EntryWrite(name, 0), RootWrite(mem.rootSize - 1)>>
                  \o InodeRealse(no)
    /\ UNCHANGED <<disk, file, halted, crashes, written>>

-----------------------------------------------------------------------------
(* ide_write of the next sector of the call under way.                      *)
Flush ==
    /\ pending # <<>>
    /\ disk' = Apply(disk, Head(pending)) /\ pending' = Tail(pending)
    /\ UNCHANGED <<mem, file, halted, crashes, written>>

(* The power fails, and filesys_init mounts the partition again.  What was  *)
(* written counts as far as the inode on the disk goes.                     *)
Crash ==
    /\ crashes < MaxCrashes /\ crashes' = crashes + 1
    /\ mem' = Mounted(disk)
    /\ file' = Null /\ pending' = <<>> /\ halted' = FALSE
    /\ written' = [i \in Inos |->
                      SubSeq(written[i], 1, Min({Len(written[i]), disk.table[i].size}))]
    /\ UNCHANGED disk

Next ==
    \/ \E name \in Names : Create(name) \/ CreateHalts(name) \/ Open(name) \/ Unlink(name)
    \/ \E n \in 1 .. MaxCount : Write(n) \/ WriteHalts(n) \/ Read(n)
    \/ \E pos \in 0 .. MaxBlocks * BlockSize : Seek(pos)
    \/ Close \/ Flush \/ Crash

Spec == Init /\ [][Next]_vars

-----------------------------------------------------------------------------
(* Properties                                                               *)

NamedInos == {disk.entry[n] : n \in Names} \ {0}
Owned(no) == ToSet(FreedBlocks(disk.table[no]))

(* The file system survives a loss of power between any two sector writes   *)
(* in this: no block belongs to two named files, and every block of a named *)
(* file is taken in the bitmap that block_bitmap_alloc uses.  It does not   *)
(* survive a second one: the first may leave an entry whose inode is free,  *)
(* the next file_create gives that inode a second name, and an unlink of    *)
(* one name that is cut short leaves the other with blocks that are free.   *)
BlocksOwnedOnce ==
    pending = <<>> /\ crashes <= 1 =>
        /\ \A i, j \in NamedInos : i # j => Owned(i) \cap Owned(j) = {}
        /\ \A i \in NamedInos : Owned(i) \subseteq mem.bbits
        /\ mem.bbits = disk.bbits \/ halted

(* file_read gives back what file_write wrote, from any position and across *)
(* blocks and the index, in memory and after a loss of power: on the disk   *)
(* is a beginning of it, and all of it once the call is over.               *)
ReadBack ==
    pending = <<>> /\ crashes <= 1 => \A i \in NamedInos \cap disk.ibits :
        LET o == disk.table[i] IN
        /\ o.size = Len(written[i])
        /\ \A pos \in 0 .. o.size : \A n \in 1 .. o.size - pos :
              ReadAsserts(pos, n) => FileRead(o, pos, n) = SubSeq(written[i], pos + 1, pos + n)

(* Nothing leaks and nothing is forgotten in any sequence of calls that no  *)
(* loss of power or ASSERT cuts short: the bitmaps are the named files and  *)
(* their blocks, the directory's size counts its entries, an open file is   *)
(* the inode on the disk.                                                   *)
NothingLeaks ==
    pending = <<>> /\ crashes = 0 /\ ~halted =>
        /\ disk.ibits = NamedInos /\ disk.bbits = UNION {Owned(i) : i \in NamedInos}
        /\ Mounted(disk) = mem
        /\ disk.rootSize = 2 + Cardinality({n \in Names : disk.entry[n] # 0})
        /\ Cardinality(NamedInos) = Cardinality({n \in Names : disk.entry[n] # 0})
        /\ file # Null => disk.table[file.no] = file.inode
=============================================================================
