-------------------------------- MODULE Dirs --------------------------------
(***************************************************************************)
(* The directory tree: the shell's commands on paths (shell/shell.c,       *)
(* shell/buildin_cmd.c), the system calls behind them (fs/fs.c) and the    *)
(* blocks of the directories (fs/dir.c), with the list open_inodes.        *)
(*                                                                         *)
(* One shell runs one command at a time, so a command is one step (Files   *)
(* has the interleavings of the calls inside).  A path is the sequence of  *)
(* its names, and what is in a file is not shown.  Inodes that a command   *)
(* opens and closes again are not in memory between commands; the ones it  *)
(* forgets to close stay for ever.                                         *)
(***************************************************************************)
EXTENDS Integers, Sequences, FiniteSets, SequencesExt, FiniteSetsExt

CONSTANTS
    Names,      \* names of files and directories that are typed
    Programs,   \* the names of the programs in the root, which stay
    Dot, DotDot,
    Null,
    NInodes,    \* bits of the inode bitmap
    NBlocks,    \* bits of the block bitmap, without the one of the root
    NDirect,    \* direct blocks of an inode (12)
    NIndirect,  \* addresses in an index block (128)
    PerBlock,   \* directory entries in a block (21)
    MaxPath     \* longest path typed

(* The root: a formatted partition to which main has copied the programs.   *)
Entry(name, no, type) == [name |-> name, no |-> no, type |-> type]
RootEntries ==
    <<Entry(Dot, 0, "dir"), Entry(DotDot, 0, "dir")>> \o
    [i \in 1 .. Len(Programs) |-> Entry(Programs[i], i, "file")]
RootBlocks == 1 .. (Len(RootEntries) + PerBlock - 1) \div PerBlock

ASSUME DirsAssumption ==
    /\ NDirect \in Nat \ {0} /\ NIndirect \in Nat \ {0} /\ MaxPath \in Nat
    /\ PerBlock \in Nat /\ PerBlock >= 2
    /\ Dot # DotDot /\ Dot \notin Names /\ DotDot \notin Names
    /\ Programs \in Seq(ToSet(Programs)) /\ Len(Programs) < NInodes
    /\ RootBlocks \subseteq 1 .. NDirect

Inos   == 0 .. NInodes - 1
Blocks == 1 .. NBlocks + Cardinality(RootBlocks)    \* address 0 is no block
IndexPos == NDirect + 1         \* i_sectors[12]
Typed  == UNION {[1 .. n -> Names \cup {Dot, DotDot}] : n \in 0 .. MaxPath}

VARIABLES
    ibits, bbits,  \* inode and block bitmap
    table,         \* the inode table on the disk: [size, sec]
    content,       \* the blocks: directory entries, or addresses in an index
    mem,           \* open_inodes: the in-memory inode with that number, or Null
    cwd,           \* cwd_inode_nr of the shell
    prompt,        \* cwd_cache, the path the shell's prompt shows
    halted,        \* an ASSERT has stopped the shell or the kernel
    gone,          \* history: the directory of the last cd has been removed
    stale,         \* history: an in-memory inode has differed from the table
    forgot         \* history: an index block has been replaced by a new one

vars == <<ibits, bbits, table, content, mem, cwd, prompt, halted, gone, stale, forgot>>

NoEntry == [name |-> Null, no |-> 0, type |-> "unknown"]
NoSecs == [i \in 1 .. IndexPos |-> 0]
NoIndex == [i \in 1 .. NIndirect |-> 0]
FreeInode == [size |-> 0, sec |-> NoSecs]       \* zeroed by inode_delete
NoEntries == [i \in 1 .. PerBlock |-> NoEntry]
DirBlock(es) == [ents |-> es, idx |-> NoIndex]
IdxBlock(xs) == [ents |-> NoEntries, idx |-> xs]
DotsBlock(no, up) ==
    DirBlock([NoEntries EXCEPT ![1] = Entry(Dot, no, "dir"), ![2] = Entry(DotDot, up, "dir")])

(* partition_format and mount_partition.                                    *)
RootInode == [size |-> Len(RootEntries),
              sec |-> [i \in 1 .. IndexPos |-> IF i \in RootBlocks THEN i ELSE 0]]
RootBlock(b) ==
    DirBlock([j \in 1 .. PerBlock |->
        LET k == (b - 1) * PerBlock + j
        IN  IF k <= Len(RootEntries) THEN RootEntries[k] ELSE NoEntry])
Init ==
    /\ ibits = 0 .. Len(Programs) /\ bbits = RootBlocks
    /\ table = [n \in Inos |-> IF n = 0 THEN RootInode ELSE FreeInode]
    /\ content = [b \in Blocks |-> RootBlock(b)]
    /\ mem = [n \in Inos |-> IF n = 0 THEN RootInode ELSE Null]
    /\ cwd = 0 /\ prompt = <<>>
    /\ halted = FALSE /\ gone = FALSE /\ stale = FALSE /\ forgot = FALSE

-----------------------------------------------------------------------------
(* Reading directories                                                      *)

(* inode_open: the inode in open_inodes, or the one on the disk.            *)
InodeOpen(no) == IF mem[no] # Null THEN mem[no] ELSE table[no]

(* all_blocks of an inode: its direct blocks, and those of its index.       *)
AllBlocks(o) ==
    SubSeq(o.sec, 1, NDirect) \o
    (IF o.sec[IndexPos] # 0 THEN content[o.sec[IndexPos]].idx ELSE NoIndex)

(* The entries of a directory, in the order of its blocks.                  *)
Used(e) == e.type # "unknown"
SlotsOf(o) ==
    LET blocks == SelectSeq(AllBlocks(o), LAMBDA b : b # 0)
    IN  FlattenSeq([i \in DOMAIN blocks |-> content[blocks[i]].ents])
EntriesOf(o) == SelectSeq(SlotsOf(o), Used)

(* search_dir_entry: the first entry with the name.                         *)
Lookup(no, name) ==
    LET es == SelectSeq(EntriesOf(InodeOpen(no)), LAMBDA e : e.name = name)
    IN  IF es = <<>> THEN NoEntry ELSE es[1]

(* dir_read, until it returns NULL: the entries within the directory's size.*)
(* Mutant: an empty slot counts as a position.                              *)
ReaddirSlots(no) ==
    LET o == InodeOpen(no)
    IN  SelectSeq(SubSeq(SlotsOf(o), 1, Min({o.size, Len(SlotsOf(o))})), Used)
Readdir(no) ==
    LET o == InodeOpen(no) IN SubSeq(EntriesOf(o), 1, Min({o.size, Len(EntriesOf(o))}))

(* search_file, as its searched_record: dir is parent_dir; own says that it *)
(* is not root_dir but an open the caller must close; name and depth are    *)
(* the last name in searched_path and the number of them, len those in the  *)
(* path.  A regular file ends the search wherever it is in the path.        *)
SearchFrom(s, name) ==
    IF s.found # "dir" THEN s
    ELSE LET e == Lookup(s.no, name)
             deeper == [s EXCEPT !.dir = s.no, !.name = name, !.depth = @ + 1]
         IN  CASE e.type = "dir"  -> [deeper EXCEPT !.no = e.no, !.own = TRUE]
               [] e.type = "file" ->
                    [deeper EXCEPT !.found = "file", !.no = e.no, !.own = s.depth > 0]
               [] OTHER -> [deeper EXCEPT !.found = "none", !.no = 0, !.own = s.depth > 0]
AtRoot(len) ==
    [found |-> "dir", no |-> 0, dir |-> 0, own |-> FALSE, name |-> Null, depth |-> 0, len |-> len]
SearchFile(path) ==
    IF path \in {<<>>, <<Dot>>, <<DotDot>>} THEN AtRoot(Len(path))
    ELSE FoldLeft(SearchFrom, AtRoot(Len(path)), path)

(* sys_getcwd: from the working directory up to the root, the number of the *)
(* parent from the entry "..", the name from the entry with the number.     *)
(* "assert" is the ASSERT of get_parent_dir_inode_no, "null" a NULL result. *)
NameIn(up, no) ==
    LET es == SelectSeq(EntriesOf(InodeOpen(up)), LAMBDA e : e.no = no)
    IN  IF es = <<>> THEN Null ELSE es[1].name
GetcwdStep(s) ==
    LET block == InodeOpen(s.no).sec[1]
        up    == content[block].ents[2]
    IN  IF block = 0 THEN [s EXCEPT !.st = "assert"]
        ELSE IF up.type # "dir" THEN [s EXCEPT !.st = "assert"]
        ELSE IF NameIn(up.no, s.no) = Null THEN [s EXCEPT !.st = "null"]
        ELSE [s EXCEPT !.no = up.no, !.path = <<NameIn(up.no, s.no)>> \o @]
Getcwd ==
    LET Climb(s, i) == IF s.st # "ok" \/ s.no = 0 THEN s ELSE GetcwdStep(s)
    IN  FoldLeft(Climb, [st |-> "ok", no |-> cwd, path |-> <<>>], [i \in 1 .. NInodes |-> i])

(* wash_path: "." says nothing and ".." takes the last name away, if any.   *)
(* Mutant: ".." is skipped like ".".                                        *)
WashNameSkip(path, name) == IF name \in {Dot, DotDot} THEN path ELSE Append(path, name)
WashName(path, name) ==
    CASE name = Dot    -> path
      [] name = DotDot -> IF path = <<>> THEN path ELSE Front(path)
      [] OTHER         -> Append(path, name)
WashPath(path) == FoldLeft(WashName, <<>>, path)

(* make_clear_abs_path: names typed after '/', or after the result of       *)
(* getcwd, here.                                                            *)
MakeClearAbsPath(here, names) == WashPath(here \o names)

-----------------------------------------------------------------------------
(* Changing directories                                                     *)

FreeBlocks == Blocks \ bbits
FreeSlots(b) == {j \in 1 .. PerBlock : content[b].ents[j].type = "unknown"}

(* sync_dir_entry on the inode o, with the blocks of `free` to take from.   *)
(* It goes through the direct blocks and adds one where there is none; the  *)
(* addresses in the index block are not read, so past the direct blocks it  *)
(* always makes a new index with one block.                                 *)
SyncDirEntry(o, e, free) ==
    LET rooms == {i \in 1 .. NDirect : o.sec[i] = 0 \/ FreeSlots(o.sec[i]) # {}}
        i     == Min(rooms)
        b1    == Min(free)
        b2    == Min(free \ {b1})
        first == DirBlock([NoEntries EXCEPT ![1] = e])
        grown == [o EXCEPT !.size = @ + 1]
    IN  CASE rooms = {} ->
               [inode |-> [grown EXCEPT !.sec[IndexPos] = b1], taken |-> {b1, b2},
                content |-> [content EXCEPT ![b1] = IdxBlock([NoIndex EXCEPT ![1] = b2]),
                                            ![b2] = first]]
          [] rooms # {} /\ o.sec[i] = 0 ->
               [inode |-> [grown EXCEPT !.sec[i] = b1], taken |-> {b1},
                content |-> [content EXCEPT ![b1] = first]]
          [] OTHER ->
               [inode |-> grown, taken |-> {},
                content |-> [content EXCEPT ![o.sec[i]].ents[Min(FreeSlots(o.sec[i]))] = e]]

(* delete_dir_entry on the inode o.  A block that becomes empty is freed,   *)
(* but for the one with "." in it, and the index with its last block.       *)
Named(e) == Used(e) /\ e.name \notin {Dot, DotDot}
DeleteDirEntry(o, no) ==
    LET all   == AllBlocks(o)
        Ents(k) == {j \in 1 .. PerBlock : Named(content[all[k]].ents[j])}
        Hit(k)  == {j \in Ents(k) : content[all[k]].ents[j].no = no}
        hits  == {k \in DOMAIN all : all[k] # 0 /\ Hit(k) # {}}
        k     == Min(hits)
        index == o.sec[IndexPos]
        alone == Cardinality(Ents(k)) = 1 /\ content[all[k]].ents[1].name # Dot
        others == {m \in NDirect + 1 .. Len(all) : all[m] # 0} \ {k}
        less  == [o EXCEPT !.size = @ - 1]
    IN  CASE hits = {} -> [inode |-> o, freed |-> {}, content |-> content]
          [] hits # {} /\ ~alone ->
               [inode |-> less, freed |-> {},
                content |-> [content EXCEPT ![all[k]].ents[Min(Hit(k))] = NoEntry]]
          [] hits # {} /\ alone /\ k <= NDirect ->
               [inode |-> [less EXCEPT !.sec[k] = 0], freed |-> {all[k]}, content |-> content]
          [] OTHER ->
               [inode |-> IF others = {} THEN [less EXCEPT !.sec[IndexPos] = 0] ELSE less,
                freed |-> {all[k]} \cup (IF others = {} THEN {index} ELSE {}),
                content |-> [content EXCEPT ![index].idx[k - NDirect] = 0]]

(* inode_sync, of an inode that may also be in memory.                      *)
InMemory(no, o) == IF mem[no] = Null THEN mem ELSE [mem EXCEPT ![no] = o]

(* The blocks inode_realse gives back: all that the inode leads to.         *)
BlocksOf(o) == ({AllBlocks(o)[k] : k \in DOMAIN AllBlocks(o)} \cup {o.sec[IndexPos]}) \ {0}

(* The caller of search_file that does not close parent_dir.                *)
LeftOpen(s) == IF s.own THEN [mem EXCEPT ![s.dir] = InodeOpen(s.dir)] ELSE mem

-----------------------------------------------------------------------------
(* The system calls, from the searched_record of their path.                *)

(* sys_chdir never closes parent_dir.                                       *)
SysChdir(s) ==
    /\ cwd' = IF s.found = "dir" THEN s.no ELSE cwd
    /\ mem' = LeftOpen(s)
    /\ UNCHANGED <<ibits, bbits, table, content>>

(* sys_mkdir: a block with "." and "..", the entry in the parent, then the  *)
(* two inodes.  Bound: the bitmaps have room.                               *)
SysMkdir(s) ==
    LET no  == Min(Inos \ ibits)
        b   == Min(FreeBlocks)
        add == SyncDirEntry(InodeOpen(s.dir), Entry(s.name, no, "dir"), FreeBlocks \ {b})
    IN  /\ s.found = "none" /\ s.depth = s.len
        /\ ibits # Inos /\ Cardinality(FreeBlocks) >= 3
        /\ ibits' = ibits \cup {no}
        /\ bbits' = bbits \cup {b} \cup add.taken
        /\ content' = [add.content EXCEPT ![b] = DotsBlock(no, s.dir)]
        /\ table' = [table EXCEPT ![s.dir] = add.inode,
                                  ![no] = [size |-> 2, sec |-> [NoSecs EXCEPT ![1] = b]]]
        /\ mem' = InMemory(s.dir, add.inode)
        /\ UNCHANGED cwd

(* dir_remove and sys_unlink: delete_dir_entry, then inode_realse, which    *)
(* does not take an inode that someone left open out of memory.             *)
RemoveInode(s) ==
    LET del == DeleteDirEntry(InodeOpen(s.dir), s.no) IN
    /\ ibits' = ibits \ {s.no}
    /\ bbits' = bbits \ (del.freed \cup BlocksOf(InodeOpen(s.no)))
    /\ content' = del.content
    /\ table' = [table EXCEPT ![s.dir] = del.inode, ![s.no] = FreeInode]
    /\ mem' = InMemory(s.dir, del.inode)
    /\ UNCHANGED cwd

(* Mutant: without dir_is_empty.                                            *)
SysRmdirFull(s) ==
    s.found = "dir" /\ s.no # 0 /\ RemoveInode(s)

(* sys_rmdir of an empty directory, whoever works in it.                    *)
SysRmdir(s) ==
    /\ s.found = "dir" /\ s.no # 0
    /\ InodeOpen(s.no).size = 2
    /\ RemoveInode(s)

(* sys_unlink does not compare the depths, as sys_open does.                *)
SysUnlink(s) ==
    s.found = "file" /\ RemoveInode(s)

(* sys_open with O_CREATE, and the close.  The inode of the new file is in  *)
(* open_inodes in front of any other with its number, until the close.      *)
SysCreate(s) ==
    LET no  == Min(Inos \ ibits)
        add == SyncDirEntry(InodeOpen(s.dir), Entry(s.name, no, "file"), FreeBlocks)
    IN  /\ s.found = "none" /\ s.depth = s.len
        /\ ibits # Inos /\ Cardinality(FreeBlocks) >= 2
        /\ ibits' = ibits \cup {no}
        /\ bbits' = bbits \cup add.taken
        /\ content' = add.content
        /\ table' = [table EXCEPT ![s.dir] = add.inode, ![no] = FreeInode]
        /\ mem' = InMemory(s.dir, add.inode)
        /\ UNCHANGED cwd

(* sys_open of a file that exists, and the close: parent_dir stays open.    *)
SysOpen(s) ==
    /\ s.found = "file" /\ s.depth = s.len
    /\ mem' = LeftOpen(s)
    /\ UNCHANGED <<ibits, bbits, table, content, cwd>>

-----------------------------------------------------------------------------
(* The shell.  cmd_excute first makes a path of the name of the command,    *)
(* and needs getcwd for a name that does not start with '/': that of a      *)
(* built-in command, but not that of a program by its absolute path.        *)

Works == Getcwd.st = "ok"

(* getcwd failed: ASSERT in the kernel, or assert in wash_path.             *)
Halt ==
    /\ ~Works
    /\ halted' = TRUE
    /\ UNCHANGED <<ibits, bbits, table, content, mem, cwd, prompt, gone>>

(* The paths the shell can make of a typed argument.                        *)
CommandPaths ==
    LET here == Getcwd.path
    IN  {MakeClearAbsPath(<<>>, names) : names \in Typed} \cup
        {MakeClearAbsPath(here, names) : names \in Typed}

(* Mutant: the prompt follows cd even if it failed.                         *)
CdAlways(path) ==
    /\ SysChdir(SearchFile(path))
    /\ prompt' = path
    /\ gone' = (gone /\ SearchFile(path).found # "dir")
    /\ UNCHANGED halted

(* buildin_cd, and cwd_cache after it.                                      *)
Cd(path) ==
    /\ SysChdir(SearchFile(path))
    /\ prompt' = IF SearchFile(path).found = "dir" THEN path ELSE prompt
    /\ gone' = (gone /\ SearchFile(path).found # "dir")
    /\ UNCHANGED halted

(* buildin_mkdir, buildin_rmdir and buildin_rm: not on the root.            *)
Mkdir(s) == SysMkdir(s) /\ UNCHANGED <<prompt, halted, gone>>
Rmdir(s) ==
    /\ SysRmdir(s)
    /\ gone' = (gone \/ s.no = cwd)
    /\ UNCHANGED <<prompt, halted>>
Rm(s) == SysUnlink(s) /\ UNCHANGED <<prompt, halted, gone>>

(* Programs the shell runs, which create, make, read or remove a file or    *)
(* directory by a path that nobody has washed.                              *)
Run(s) ==
    /\ SysCreate(s) \/ SysMkdir(s) \/ SysOpen(s) \/ SysUnlink(s)
    /\ UNCHANGED <<prompt, halted, gone>>

(* In-memory inodes that no longer are what the disk has.                   *)
StaleInodes(m, t, bits) == {n \in Inos : m[n] # Null /\ (n \notin bits \/ m[n] # t[n])}

(* sync_dir_entry made a new index for a directory that had one.            *)
IndexReplaced ==
    \E n \in Inos : /\ table[n].sec[IndexPos] # 0
                    /\ table'[n].sec[IndexPos] \notin {0, table[n].sec[IndexPos]}

Searched(paths) == {SearchFile(path) : path \in paths \ {<<>>}}

BuiltIn ==
    \/ \E path \in CommandPaths : Cd(path)
    \/ \E s \in Searched(CommandPaths) : Mkdir(s) \/ Rmdir(s) \/ Rm(s)

Command ==
    \/ Halt
    \/ Works /\ BuiltIn
    \/ \E s \in Searched(Typed) : Run(s)

Next ==
    /\ ~halted /\ Command
    /\ stale' = (stale \/ StaleInodes(mem', table', ibits') # {})
    /\ forgot' = (forgot \/ IndexReplaced)

Spec == Init /\ [][Next]_vars

-----------------------------------------------------------------------------
(* Properties                                                               *)

DirInos == {0} \cup {e.no : e \in {f \in UNION {ToSet(EntriesOf(table[n])) : n \in ibits} :
                                   f.type = "dir" /\ f.no \in ibits}}
NamedEntries(n) == SelectSeq(EntriesOf(table[n]), Named)

(* The file system is a tree, on the disk and in its bitmaps: every inode   *)
(* in use but the root has one name in one directory, a directory names     *)
(* itself and its parent and its size counts its entries, and the blocks in *)
(* use are those of the directories, each of one.  It stays one through any *)
(* sequence of mkdir, rmdir, create, rm, open and cd, for as long as no     *)
(* in-memory inode is stale (inode_realse) and no index block is replaced   *)
(* (sync_dir_entry).                                                        *)
Sound == ~stale /\ ~forgot
TreeExact ==
    Sound =>
        /\ \A n \in ibits \ {0} :
              Cardinality({<<d, i>> \in DirInos \X (1 .. NInodes) :
                  i <= Len(NamedEntries(d)) /\ NamedEntries(d)[i].no = n}) = 1
        /\ \A d \in DirInos :
              /\ d \in ibits
              /\ table[d].size = Len(EntriesOf(table[d]))
              /\ Lookup(d, Dot).no = d
              /\ d # 0 => \E e \in ToSet(NamedEntries(Lookup(d, DotDot).no)) :
                              e.no = d /\ e.type = "dir"
              /\ \A e \in ToSet(NamedEntries(d)) : e.no \in ibits
        /\ bbits = UNION {BlocksOf(table[d]) : d \in DirInos}
        /\ \A d, e \in DirInos : d # e => BlocksOf(table[d]) \cap BlocksOf(table[e]) = {}

(* What the user sees is where the shell is: until the directory of the     *)
(* last cd is removed, the path of the prompt (cwd_cache) and the result of *)
(* getcwd both lead to the working directory.  After that they need not:    *)
(* the shell has the number of the directory only, and when a program makes *)
(* another one with that number the prompt keeps the old name.              *)
PromptExact ==
    Sound /\ ~gone =>
        /\ Getcwd.st = "ok" /\ Getcwd.path = prompt
        /\ SearchFile(prompt).found = "dir" /\ SearchFile(prompt).no = cwd

(* wash_path agrees with the directories: a path with "." and ".." that can *)
(* be walked entry by entry leads to the same inode once it is washed.      *)
WashSound ==
    Sound => \A path \in Typed :
        LET walked == SearchFile(path)
            washed == SearchFile(WashPath(path))
        IN  walked.found # "none" /\ walked.depth = Len(path) =>
                washed.found = walked.found /\ washed.no = walked.no

(* ls and open agree: the names readdir returns, which stop at the size of  *)
(* the directory, are those search_dir_entry finds.                         *)
ListedIsFound ==
    Sound => \A d \in DirInos : \A name \in Names :
        (\E e \in ToSet(Readdir(d)) : e.name = name) <=> Lookup(d, name) # NoEntry

(* inode_realse leaves no open inode of a removed file or directory behind  *)
(* (its comment: the open inode in memory is to be deleted too).            *)
NoStaleInode == StaleInodes(mem, table, ibits) = {}
=============================================================================
