---------------------------- MODULE FilesProofs -----------------------------
(***************************************************************************)
(* Open files, proved for any number of tasks, names, inodes, slots and    *)
(* descriptors: until one of the steps is taken that the code leaves       *)
(* unprotected (raced), descriptors lead to open inodes, counts are exact, *)
(* directory and inode bitmap agree.  Any number of calls may be under     *)
(* way, and descriptors are shared by fork.                                *)
(***************************************************************************)
EXTENDS Files, FiniteSetTheorems, TLAPS

-----------------------------------------------------------------------------
(* The inductive invariant                                                  *)

SlotRecord == [obj : Objs \union {Null, Ring}, flag : {"r", "w", "pipe"}, pos : Nat]
TypesOK ==
    /\ slot \in [Slots -> SlotRecord]
    /\ node \in [Objs -> InodeRecord \union {Null}]
    /\ cache \in Seq(Objs)
    /\ dir \in SUBSET (Names \X Inodes \X {"file", "dir"})
    /\ ibits \in SUBSET Inodes
    /\ fd \in [Tasks -> [Fds -> Slots \union {Null}]]
    /\ call \in [Tasks -> CallRecord \union {Null}]

Open == ToSet(cache)
In(t, pc) == call[t] # Null /\ call[t].pc = pc
TypeOf(op) == IF op = "create" THEN "file" ELSE "dir"

(* Calls that overlap open files; a call that changes the directory is      *)
(* alone.                                                                   *)
OneWriter ==
    \A t, u \in Tasks : t # u /\ call[t] # Null /\ call[u] # Null =>
      call[t].op = "open" /\ call[u].op = "open"

(* Directory and inode bitmap: what a call is about to add or has taken     *)
(* away is known to it alone.                                               *)
EntriesUnique == \A e1, e2 \in dir : e1 # e2 => e1[1] # e2[1] /\ e1[2] # e2[2]
EntriesMarked == \A e \in dir : e[2] \in ibits
MarksUsed ==
    \A no \in ibits : \/ \E e \in dir : e[2] = no
                      \/ \E t \in Tasks : (In(t, "entry") \/ In(t, "release")) /\ call[t].no = no
CallsOnDir ==
    \A t \in Tasks :
      /\ In(t, "inode") => call[t].op = "open" /\ \E e \in dir : e[2] = call[t].no /\ e[3] = "file"
      /\ In(t, "entry") => /\ call[t].op \in {"create", "mkdir"} /\ call[t].no \in ibits
                           /\ \A e \in dir : e[1] # call[t].name /\ e[2] # call[t].no
      /\ In(t, "sync") => /\ call[t].op \in {"create", "mkdir"}
                          /\ <<call[t].name, call[t].no, TypeOf(call[t].op)>> \in dir
      /\ In(t, "release") => /\ call[t].op \in {"unlink", "rmdir"}
                             /\ \A e \in dir : e[2] # call[t].no
DirInv == EntriesUnique /\ EntriesMarked /\ MarksUsed /\ CallsOnDir

(* file_table and the inodes in memory: each is in open_inodes or being     *)
(* created; counts are exact, and calls read into memory of their own.      *)
Making(t) == call[t] # Null /\ call[t].op = "create" /\ call[t].pc \in {"entry", "sync"}
Holders(o) == {g \in Slots : slot[g].obj = o}
Count(o) == Cardinality(Users(o)) + Cardinality(Unused(o))
SlotsBacked ==
    \A g \in Slots : slot[g].obj # Null =>
      /\ slot[g].flag = "pipe" <=> slot[g].obj = Ring
      /\ slot[g].obj \in Objs => node[slot[g].obj] # Null
NodesUsed ==
    \A o \in Objs : node[o] # Null =>
      Holders(o) # {} /\ (o \in Open \/ \E t \in Tasks : Making(t) /\ call[t].obj = o)
CacheDistinct ==
    /\ \A i, j \in DOMAIN cache : i # j => cache[i] # cache[j]
    /\ \A o, q \in Open : o # q => node[o].no # node[q].no
OpenExact ==
    \A o \in Open :
      /\ node[o] # Null /\ node[o].cnts = Count(o)
      /\ \E e \in dir : e[2] = node[o].no /\ e[3] = "file"
Reading(t) ==
    /\ call[t].slot \in Slots /\ call[t].obj \in Objs /\ node[call[t].obj] = Null
    /\ \A u \in Tasks : u # t /\ call[u] # Null => call[u].obj # call[t].obj
Reserved(t) ==
    /\ call[t].slot \in Slots /\ call[t].obj \in Objs \ Open
    /\ node[call[t].obj] = [no |-> call[t].no, cnts |-> 0, deny |-> FALSE]
    /\ Holders(call[t].obj) = {call[t].slot}
    /\ \A o \in Open : node[o].no # call[t].no
CallsOnNodes == \A t \in Tasks : (In(t, "inode") => Reading(t)) /\ (Making(t) => Reserved(t))
NodeInv == SlotsBacked /\ NodesUsed /\ CacheDistinct /\ OpenExact /\ CallsOnNodes

(* Descriptors: one task has one at most of a file's slot, and together     *)
(* they have no more of a pipe's than it counts.                            *)
FdsBacked ==
    \A t \in Tasks, f \in Fds :
      fd[t][f] # Null => slot[fd[t][f]].obj = Ring \/ slot[fd[t][f]].obj \in Open
FdsDistinct ==
    \A t \in Tasks, f, h \in Fds :
      fd[t][f] # Null /\ fd[t][f] = fd[t][h] /\ slot[fd[t][f]].obj # Ring => f = h
PipesCounted == \A g \in Slots : slot[g].obj = Ring => slot[g].pos >= Cardinality(Refs(g))
FdInv == FdsBacked /\ FdsDistinct /\ PipesCounted

Tables == TypesOK /\ OneWriter /\ DirInv /\ NodeInv /\ FdInv

(* What is not a task has neither a call nor descriptors.                   *)
AliveOnly == \A t \in Tasks : t \notin alive => call[t] = Null /\ \A f \in Fds : fd[t][f] = Null

FilesInv == ~raced => Tables /\ AliveOnly

-----------------------------------------------------------------------------
(* What kinds of values there are                                           *)

(* Null is none of the values it stands in for.                             *)
LEMMA Kinds ==
  /\ Ring \notin Objs /\ Ring # Null /\ Null \notin Objs /\ Null \notin Slots
  /\ Null \notin InodeRecord /\ Null \notin CallRecord
  /\ Objs \subseteq Nat /\ Slots \subseteq Nat /\ Fds \subseteq Nat /\ Inodes \subseteq Nat
<1>1. Objs \subseteq Nat /\ Slots \subseteq Nat /\ Fds \subseteq Nat /\ Inodes \subseteq Nat /\ Ring \notin Objs
  BY DEF Objs, Slots, Fds, Inodes, Ring
<1>2. Ring \in Nat
  BY DEF Ring
<1> QED
  BY <1>1, <1>2, NullAssumption

(* Tables are finite.                                                       *)
LEMMA Finite ==
  /\ IsFiniteSet(Slots) /\ Cardinality(Slots) = NSlots
  /\ IsFiniteSet(Fds) /\ IsFiniteSet(Objs) /\ IsFiniteSet(Tasks \X Fds)
  /\ Cardinality(Objs) = NSlots + Cardinality(Tasks)
  /\ Cardinality(Tasks) \in Nat /\ Cardinality(Tasks) >= 1
<1>1. Cardinality(Tasks) \in Nat /\ Cardinality(Tasks) # 0
  BY FilesAssumption, FS_CardinalityType, FS_EmptySet
<1>2. NSlots + Cardinality(Tasks) \in Nat /\ NSlots \in Nat /\ NFds \in Nat
  BY <1>1, FilesBounds
<1>3. IsFiniteSet(1 .. NSlots) /\ Cardinality(1 .. NSlots) = NSlots
  <2>1. 1 \in Int /\ NSlots \in Int
    BY <1>2
  <2>2. Cardinality(1 .. NSlots) = IF 1 > NSlots THEN 0 ELSE NSlots - 1 + 1
    BY <2>1, FS_Interval
  <2> QED
    BY <1>2, <2>1, <2>2, FS_Interval
<1>4. IsFiniteSet(1 .. NFds)
  BY <1>2, FS_Interval
<1>5. /\ IsFiniteSet(1 .. NSlots + Cardinality(Tasks))
      /\ Cardinality(1 .. NSlots + Cardinality(Tasks)) = NSlots + Cardinality(Tasks)
  <2> DEFINE n == NSlots + Cardinality(Tasks)
  <2>1. n \in Nat
    BY <1>2
  <2> HIDE DEF n
  <2>2. Cardinality(1 .. n) = IF 1 > n THEN 0 ELSE n - 1 + 1
    BY <2>1, FS_Interval
  <2>3. IsFiniteSet(1 .. n) /\ Cardinality(1 .. n) = n
    BY <2>1, <2>2, FS_Interval
  <2> QED
    BY <2>3 DEF n
<1>6. IsFiniteSet(Tasks \X Fds)
  BY <1>4, FilesAssumption, FS_Product DEF Fds
<1> QED
  BY <1>1, <1>3, <1>4, <1>5, <1>6 DEF Slots, Fds, Objs

(* A set of naturals has a least element.                                   *)
LEMMA LeastNumber ==
  ASSUME NEW T \in SUBSET Nat, T # {}
  PROVE  \E x \in T : \A y \in T : x <= y
<1>1. IsWellFoundedOn(OpToRel(<, Nat), Nat)
  BY NatLessThanWellFounded, Zenon
<1>2. PICK x \in T : \A y \in T : ~(<<y, x>> \in OpToRel(<, Nat))
  BY <1>1, WFMin, Zenon
<1>3. \A y \in T : ~(y < x)
  BY <1>2 DEF OpToRel
<1> QED
  BY <1>3

(* get_free_slot_in_global, pcb_fd_install and inode_bitmap_alloc take the  *)
(* lowest free place.                                                       *)
LEMMA MinIn ==
  ASSUME NEW T \in SUBSET Nat, T # {}
  PROVE  Min(T) \in T
BY LeastNumber DEF Min

-----------------------------------------------------------------------------
(* Calls                                                                    *)

(* Only t is inside a call with a path.                                     *)
Alone(t) == \A u \in Tasks : u # t => call[u] = Null

(* A call that does not open a file excludes any other.                     *)
LEMMA CallAlone ==
  ASSUME OneWriter, NEW t \in Tasks, call[t] # Null, call[t].op # "open"
  PROVE  Alone(t)
BY DEF OneWriter, Alone

(* Such a call starts when there is no other, unless it overlaps one.       *)
LEMMA StartAlone ==
  ASSUME NEW t \in Tasks, NEW op, op # "open", ~Overlaps(t, op)
  PROVE  Alone(t)
<1> SUFFICES ASSUME NEW u \in Tasks, u # t, call[u] # Null PROVE FALSE
  BY DEF Alone
<1>1. {op, call[u].op} # {"open"}
  OBVIOUS
<1> QED
  BY <1>1 DEF Overlaps

(* The other calls when t opens a file.                                     *)
OthersOpen(t) == \A u \in Tasks : u # t /\ call[u] # Null => call[u].op = "open"

(* sys_open starts when the other calls open files, unless it overlaps one. *)
LEMMA StartOpen ==
  ASSUME NEW t \in Tasks, ~Overlaps(t, "open")
  PROVE  OthersOpen(t)
<1> SUFFICES ASSUME NEW u \in Tasks, u # t, call[u] # Null PROVE call[u].op = "open"
  BY DEF OthersOpen
<1>1. {"open", call[u].op} = {"open"}
  BY DEF Overlaps
<1> QED
  BY <1>1

(* When the one call moves on, no second one appears.                       *)
LEMMA NextAlone ==
  ASSUME TypesOK, NEW t \in Tasks, Alone(t), NEW c, call' = [call EXCEPT ![t] = c]
  PROVE  /\ OneWriter' /\ call'[t] = c /\ \A u \in Tasks : u # t => call'[u] = Null
BY DEF TypesOK, OneWriter, Alone

(* An open goes on among other opens, or ends.                              *)
LEMMA NextOpen ==
  ASSUME TypesOK, OneWriter, NEW t \in Tasks, OthersOpen(t), NEW c, c = Null \/ c.op = "open",
         call' = [call EXCEPT ![t] = c]
  PROVE  /\ OneWriter' /\ call'[t] = c /\ \A u \in Tasks : u # t => call'[u] = call[u]
<1>1. call'[t] = c /\ \A u \in Tasks : u # t => call'[u] = call[u]
  BY DEF TypesOK
<1>2. \A u \in Tasks : call'[u] # Null /\ u # t => call'[u].op = "open"
  BY <1>1 DEF OthersOpen
<1> QED
  <2>1. ASSUME NEW u \in Tasks, NEW v \in Tasks, u # v, call'[u] # Null, call'[v] # Null
        PROVE  call'[u].op = "open" /\ call'[v].op = "open"
    BY <1>1, <1>2, <2>1
  <2> QED
    BY <1>1, <2>1 DEF OneWriter

(* Calls in other states than "inode" do not open files.                    *)
LEMMA CallOps ==
  ASSUME DirInv, TypesOK, NEW t \in Tasks, call[t] # Null
  PROVE  /\ call[t] \in CallRecord
         /\ call[t].op = "open" <=> call[t].pc = "inode"
         /\ call[t].pc = "entry" => call[t].op \in {"create", "mkdir"}
<1>1. call[t] \in CallRecord /\ call[t].pc \in {"inode", "entry", "sync", "release"}
  BY DEF TypesOK, CallRecord
<1> QED
  BY <1>1 DEF DirInv, CallsOnDir, In

(* What a descriptor count depends on.                                      *)
LEMMA CountKept ==
  ASSUME UNCHANGED <<slot, fd>>, NEW o
  PROVE  Count(o)' = Count(o)
BY DEF Count, Users, Unused, Refs

(* Nothing is open and no call is under way in the beginning.               *)
LEMMA InitInv == Init => FilesInv
<1> SUFFICES ASSUME Init PROVE Tables /\ AliveOnly
  BY DEF FilesInv
<1> USE DEF Init
<1>0. Open = {} /\ \A o \in Objs : node[o] = Null
  BY DEF Open, ToSet
<1>1. TypesOK
  BY Kinds DEF TypesOK, FreeSlot, SlotRecord
<1>2. OneWriter /\ AliveOnly
  BY DEF OneWriter, AliveOnly
<1>3. DirInv
  BY DEF DirInv, EntriesUnique, EntriesMarked, MarksUsed, CallsOnDir, In
<1>4. NodeInv
  BY <1>0, Kinds DEF NodeInv, SlotsBacked, NodesUsed, CacheDistinct, OpenExact, CallsOnNodes, In, Making,
     FreeSlot
<1>5. FdInv
  BY Kinds DEF FdInv, FdsBacked, FdsDistinct, PipesCounted, FreeSlot
<1> QED
  BY <1>1, <1>2, <1>3, <1>4, <1>5 DEF Tables

-----------------------------------------------------------------------------
(* Calls that change the directory and the inode bitmap                     *)

(* Inodes in memory do not change with a call that is alone and creates     *)
(* none.                                                                    *)
LEMMA NodesKept ==
  ASSUME Tables, UNCHANGED <<slot, node, cache, dir, fd>>,
         \A u \in Tasks : ~In(u, "inode")' /\ ~Making(u)' /\ ~Making(u)
  PROVE  NodeInv'
<1> USE DEF Tables, NodeInv
<1>1. SlotsBacked' /\ CacheDistinct'
  BY DEF SlotsBacked, CacheDistinct, Open
<1>2. OpenExact'
  BY CountKept DEF OpenExact, Open
<1>3. NodesUsed' /\ CallsOnNodes'
  BY DEF NodesUsed, CallsOnNodes, Open, Holders
<1> QED
  BY <1>1, <1>2, <1>3

(* Descriptors do not depend on calls, directory and bitmap.                *)
LEMMA FdsKept ==
  ASSUME FdInv, UNCHANGED <<slot, cache, fd>>
  PROVE  FdInv'
BY DEF FdInv, FdsBacked, FdsDistinct, PipesCounted, Open, Refs

(* sys_mkdir returns.                                                       *)
LEMMA MkdirDoneInv ==
  ASSUME Tables, NEW t \in Tasks, MkdirDone(t)
  PROVE  Tables'
<1> USE DEF Tables
<1>0. /\ call[t] # Null /\ call[t].pc = "sync" /\ call[t].op = "mkdir"
      /\ call' = [call EXCEPT ![t] = Null] /\ UNCHANGED <<slot, node, cache, dir, ibits, fd>>
  BY DEF MkdirDone, At, Return
<1>1. Alone(t)
  BY <1>0, CallAlone
<1>2. OneWriter' /\ \A u \in Tasks : call'[u] = Null
  BY <1>0, <1>1, NextAlone
<1>3. TypesOK'
  BY <1>0 DEF TypesOK
<1>4. DirInv'
  BY <1>0, <1>1, <1>2 DEF DirInv, EntriesUnique, EntriesMarked, MarksUsed, CallsOnDir, In, Alone
<1>5. NodeInv'
  <2>1. \A u \in Tasks : ~In(u, "inode")' /\ ~Making(u)' /\ ~Making(u)
    BY <1>0, <1>1, <1>2 DEF In, Making, Alone
  <2> QED
    BY <1>0, <2>1, NodesKept
<1>6. FdInv'
  BY <1>0, FdsKept
<1> QED
  BY <1>2, <1>3, <1>4, <1>5, <1>6

(* What search_file returns.                                                *)
LEMMA Search ==
  ASSUME NEW name
  PROVE  /\ Found(name) = {} => \A e \in dir : e[1] # name
         /\ \A type : \A no \in FoundAs(name, type) : \E e \in dir : e[1] = name /\ e[2] = no /\ e[3] = type
<1>1. ASSUME NEW e \in dir, e[1] = name PROVE e[2] \in Found(name)
  BY <1>1 DEF Found
<1>2. ASSUME NEW type, NEW no \in FoundAs(name, type)
      PROVE  \E e \in dir : e[1] = name /\ e[2] = no /\ e[3] = type
  BY DEF FoundAs
<1> QED
  BY <1>1, <1>2


(* sys_mkdir takes the lowest free inode.                                   *)
LEMMA MkdirInv ==
  ASSUME Tables, NEW t \in Tasks, NEW name \in Names, Mkdir(t, name), ~raced'
  PROVE  Tables'
<1> DEFINE no == Min(Inodes \ ibits)
           c == [pc |-> "entry", op |-> "mkdir", name |-> name, flag |-> "r", no |-> no, slot |-> 0, obj |-> Null]
<1> USE DEF Tables
<1>1. no \in Inodes \ ibits /\ no \in Nat
  BY Kinds, MinIn DEF Mkdir
<1>2. /\ \A e \in dir : e[1] # name
      /\ ibits' = ibits \union {no} /\ call' = [call EXCEPT ![t] = c]
      /\ UNCHANGED <<slot, node, cache, dir, fd>>
  BY Search DEF Mkdir, Waits
<1>3. call[t] = Null /\ Alone(t)
  BY StartAlone DEF Mkdir, Ready
<1> HIDE DEF no
<1>4. c \in CallRecord /\ c.pc = "entry" /\ c.op = "mkdir" /\ c.no = no /\ c.name = name
  BY <1>1 DEF CallRecord
<1> HIDE DEF c
<1>5. OneWriter' /\ call'[t] = c /\ \A u \in Tasks : u # t => call'[u] = Null
  BY <1>2, <1>3, NextAlone
<1>6. TypesOK'
  BY <1>1, <1>2, <1>4 DEF TypesOK
<1>7. DirInv'
  <2>1. \A e \in dir : e[2] \in ibits
    BY DEF DirInv, EntriesMarked
  <2>2. EntriesUnique' /\ EntriesMarked'
    BY <1>2 DEF DirInv, EntriesUnique, EntriesMarked
  <2>3. \A u \in Tasks : call[u] = Null
    BY <1>3 DEF Alone
  <2>4. In(t, "entry")' /\ c # Null
    BY <1>4, <1>5, Kinds DEF In
  <2>5. MarksUsed'
    BY <1>2, <1>4, <1>5, <2>3, <2>4 DEF DirInv, MarksUsed, In
  <2>6. CallsOnDir'
    BY <1>1, <1>2, <1>4, <1>5, <2>1 DEF CallsOnDir, In
  <2> QED
    BY <2>2, <2>5, <2>6 DEF DirInv
<1>8. NodeInv'
  <2>1. \A u \in Tasks : ~In(u, "inode")' /\ ~Making(u)' /\ ~Making(u)
    BY <1>3, <1>4, <1>5 DEF In, Making, Alone
  <2> QED
    BY <1>2, <2>1, NodesKept
<1>9. FdInv'
  BY <1>2, FdsKept
<1> QED
  BY <1>5, <1>6, <1>7, <1>8, <1>9

(* sys_mkdir rolls back, or inode_realse has cleared the bit: the number    *)
(* is in no entry.                                                          *)
LEMMA BitCleared ==
  ASSUME Tables, NEW t \in Tasks, call[t] # Null, call[t].pc \in {"entry", "release"}, call[t].op # "open",
         ~Making(t), ibits' = ibits \ {call[t].no}, call' = [call EXCEPT ![t] = Null],
         UNCHANGED <<slot, node, cache, dir, fd>>
  PROVE  Tables'
<1> USE DEF Tables
<1>4. Alone(t)
  BY CallAlone
<1>5. OneWriter' /\ \A u \in Tasks : call'[u] = Null
  BY <1>4, NextAlone
<1>6. TypesOK'
  BY DEF TypesOK
<1>7. DirInv'
  <2>1. \A e \in dir : e[2] # call[t].no
    BY DEF DirInv, CallsOnDir, In
  <2>2. \A u \in Tasks : In(u, "entry") \/ In(u, "release") => u = t
    BY <1>4 DEF Alone, In
  <2> QED
    BY <1>5, <2>1, <2>2 DEF DirInv, EntriesUnique, EntriesMarked, MarksUsed, CallsOnDir, In
<1>8. NodeInv'
  <2>1. \A u \in Tasks : ~In(u, "inode")' /\ ~Making(u)' /\ ~Making(u)
    BY <1>4, <1>5 DEF In, Making, Alone
  <2> QED
    BY <2>1, NodesKept
<1>9. FdInv'
  BY FdsKept
<1> QED
  BY <1>5, <1>6, <1>7, <1>8, <1>9

(* sys_mkdir rolls back.                                                    *)
LEMMA MkdirFailedInv ==
  ASSUME Tables, NEW t \in Tasks, MkdirFailed(t)
  PROVE  Tables'
<1>1. /\ call[t] # Null /\ call[t].pc = "entry" /\ call[t].op = "mkdir"
      /\ ibits' = ibits \ {call[t].no} /\ call' = [call EXCEPT ![t] = Null]
      /\ UNCHANGED <<slot, node, cache, dir, fd>>
  BY DEF MkdirFailed, At, Return
<1> QED
  BY <1>1, BitCleared DEF Making

(* inode_realse has cleared the bit of the inode.                           *)
LEMMA ReleasedInv ==
  ASSUME Tables, NEW t \in Tasks, NEW op \in {"unlink", "rmdir"}, Released(t, op)
  PROVE  Tables'
<1>1. /\ call[t] # Null /\ call[t].pc = "release" /\ call[t].op = op
      /\ ibits' = ibits \ {call[t].no} /\ call' = [call EXCEPT ![t] = Null]
      /\ UNCHANGED <<slot, node, cache, dir, fd>>
  BY DEF Released, At, Return
<1> QED
  BY <1>1, BitCleared DEF Making

(* sync_dir_entry: the name and the inode of the new entry are new.         *)
LEMMA EntryWrittenInv ==
  ASSUME Tables, NEW t \in Tasks, NEW op \in {"create", "mkdir"}, EntryWritten(t, op)
  PROVE  Tables'
<1> DEFINE c == [call[t] EXCEPT !.pc = "sync"]
           new == <<call[t].name, call[t].no, TypeOf(op)>>
<1> USE DEF Tables
<1>1. /\ call[t] # Null /\ call[t] \in CallRecord /\ call[t].pc = "entry" /\ call[t].op = op
      /\ dir' = dir \union {new} /\ call' = [call EXCEPT ![t] = c]
      /\ UNCHANGED <<slot, node, cache, ibits, fd>>
  BY DEF EntryWritten, At, TypesOK, TypeOf
<1>2. c \in CallRecord /\ c.pc = "sync" /\ c.op = op /\ c.no = call[t].no /\ c.name = call[t].name
      /\ c.slot = call[t].slot /\ c.obj = call[t].obj
  BY <1>1 DEF CallRecord
<1>3. /\ call[t].no \in ibits /\ call[t].name \in Names
      /\ \A e \in dir : e[1] # call[t].name /\ e[2] # call[t].no
  BY <1>1 DEF DirInv, CallsOnDir, In, CallRecord
<1>4. Alone(t)
  BY <1>1, CallAlone
<1> HIDE DEF c
<1>5. OneWriter' /\ call'[t] = c /\ c # Null /\ \A u \in Tasks : u # t => call'[u] = Null /\ call[u] = Null
  BY <1>1, <1>2, <1>4, NextAlone, Kinds DEF Alone
<1>6. new[1] = call[t].name /\ new[2] = call[t].no /\ new[3] = TypeOf(op) /\ new \in Names \X Inodes \X {"file", "dir"}
  BY <1>3 DEF TypesOK, TypeOf
<1> HIDE DEF new
<1>7. TypesOK'
  BY <1>1, <1>2, <1>6 DEF TypesOK
<1>8. DirInv'
  <2>1. EntriesUnique'
    BY <1>1, <1>3, <1>6 DEF DirInv, EntriesUnique
  <2>2. EntriesMarked'
    BY <1>1, <1>3, <1>6 DEF DirInv, EntriesMarked
  <2>3. MarksUsed'
    BY <1>1, <1>5, <1>6 DEF DirInv, MarksUsed, In
  <2>4. CallsOnDir'
    BY <1>1, <1>2, <1>5, <1>6 DEF CallsOnDir, In, new
  <2> QED
    BY <2>1, <2>2, <2>3, <2>4 DEF DirInv
<1>9. NodeInv'
  <2>1. SlotsBacked' /\ CacheDistinct'
    BY <1>1 DEF NodeInv, SlotsBacked, CacheDistinct, Open
  <2>2. OpenExact'
    BY <1>1, CountKept DEF NodeInv, OpenExact, Open
  <2>3. \A u \in Tasks : ~In(u, "inode")' /\ (Making(u)' <=> Making(u)) /\ (Making(u) => u = t)
    BY <1>1, <1>2, <1>5 DEF In, Making
  <2>4. NodesUsed'
    BY <1>1, <1>2, <1>5, <2>3 DEF NodeInv, NodesUsed, Open, Holders
  <2>5. CallsOnNodes'
    <3> SUFFICES ASSUME Making(t) PROVE Reserved(t)'
      BY <2>3 DEF CallsOnNodes
    <3>1. Reserved(t)
      BY DEF NodeInv, CallsOnNodes
    <3>2. call'[t].slot = call[t].slot /\ call'[t].obj = call[t].obj /\ call'[t].no = call[t].no
      BY <1>2, <1>5
    <3> QED
      BY <1>1, <3>1, <3>2 DEF Reserved, Open, Holders
  <2> QED
    BY <2>1, <2>2, <2>4, <2>5 DEF NodeInv
<1>10. FdInv'
  BY <1>1, FdsKept
<1> QED
  BY <1>5, <1>7, <1>8, <1>9, <1>10

(* sys_unlink and sys_rmdir: the entry of an inode that is not open goes.   *)
LEMMA RemovedInv ==
  ASSUME Tables, NEW t \in Tasks, NEW no \in Inodes, Alone(t), call[t] = Null,
         \E e \in dir : e[2] = no,
         \A o \in Open : node[o].no # no,
         dir' = delete_dir_entry(no),
         NEW op \in {"unlink", "rmdir"}, NEW name \in Names,
         Waits(t, "release", op, name, "r", no, 0, Null),
         UNCHANGED <<slot, node, cache, ibits, fd>>
  PROVE  Tables'
<1> DEFINE c == [pc |-> "release", op |-> op, name |-> name, flag |-> "r", no |-> no, slot |-> 0, obj |-> Null]
<1> USE DEF Tables
<1>1. no \in Nat /\ call' = [call EXCEPT ![t] = c]
  BY Kinds DEF Waits
<1>2. c \in CallRecord /\ c.pc = "release" /\ c.no = no /\ c.op = op
  BY <1>1 DEF CallRecord
<1>3. \A e : e \in dir' <=> e \in dir /\ e[2] # no
  BY DEF delete_dir_entry
<1> HIDE DEF c
<1>5. OneWriter' /\ call'[t] = c /\ c # Null /\ \A u \in Tasks : call[u] = Null /\ (u # t => call'[u] = Null)
  BY <1>1, <1>2, NextAlone, Kinds DEF Alone
<1>6. TypesOK'
  BY <1>1, <1>2, <1>3 DEF TypesOK
<1>7. DirInv'
  <2>1. EntriesUnique' /\ EntriesMarked'
    BY <1>3 DEF DirInv, EntriesUnique, EntriesMarked
  <2>2. MarksUsed'
    <3>1. In(t, "release")' /\ call'[t].no = no
      BY <1>2, <1>5 DEF In
    <3>2. \A u \in Tasks : ~In(u, "entry") /\ ~In(u, "release")
      BY <1>5 DEF In
    <3> QED
      BY <1>3, <3>1, <3>2 DEF DirInv, MarksUsed
  <2>3. CallsOnDir'
    BY <1>2, <1>3, <1>5 DEF CallsOnDir, In
  <2> QED
    BY <2>1, <2>2, <2>3 DEF DirInv
<1>8. NodeInv'
  <2>1. SlotsBacked' /\ CacheDistinct'
    BY DEF NodeInv, SlotsBacked, CacheDistinct, Open
  <2>2. OpenExact'
    BY <1>3, CountKept DEF NodeInv, OpenExact, Open
  <2>3. \A u \in Tasks : ~In(u, "inode")' /\ ~Making(u)' /\ ~Making(u)
    BY <1>2, <1>5 DEF In, Making
  <2>4. NodesUsed' /\ CallsOnNodes'
    BY <2>3 DEF NodeInv, NodesUsed, CallsOnNodes, Open, Holders
  <2> QED
    BY <2>1, <2>2, <2>4 DEF NodeInv
<1>9. FdInv'
  BY FdsKept
<1> QED
  BY <1>5, <1>6, <1>7, <1>8, <1>9

(* sys_unlink: an inode in open_inodes is in file_table.                    *)
LEMMA UnlinkInv ==
  ASSUME Tables, NEW t \in Tasks, NEW name \in Names, NEW no \in Inodes, Unlink(t, name, no), ~raced'
  PROVE  Tables'
<1>1. /\ call[t] = Null /\ Alone(t) /\ ~InUse(no)
      /\ dir' = delete_dir_entry(no)
      /\ Waits(t, "release", "unlink", name, "r", no, 0, Null)
      /\ UNCHANGED <<slot, node, cache, ibits, fd>>
  BY StartAlone DEF Unlink, Ready
<1>2. \E e \in dir : e[2] = no
  BY Search DEF Unlink
<1>3. ASSUME NEW o \in Open PROVE node[o].no # no
  <2>1. o \in Objs /\ node[o] # Null
    BY DEF Tables, TypesOK, NodeInv, OpenExact, Open, ToSet
  <2>2. \E g \in Slots : slot[g].obj = o
    BY <2>1 DEF Tables, NodeInv, NodesUsed, Holders
  <2> QED
    BY <1>1, <2>1, <2>2 DEF InUse
<1> QED
  BY <1>1, <1>2, <1>3, RemovedInv

(* sys_rmdir: no directory is in open_inodes.                               *)
LEMMA RmdirInv ==
  ASSUME Tables, NEW t \in Tasks, NEW name \in Names, NEW no \in Inodes, Rmdir(t, name, no), ~raced'
  PROVE  Tables'
<1>1. /\ call[t] = Null /\ Alone(t)
      /\ dir' = delete_dir_entry(no)
      /\ Waits(t, "release", "rmdir", name, "r", no, 0, Null)
      /\ UNCHANGED <<slot, node, cache, ibits, fd>>
  BY StartAlone DEF Rmdir, Ready
<1>2. PICK e \in dir : e[2] = no /\ e[3] = "dir"
  BY Search DEF Rmdir
<1>3. ASSUME NEW o \in Open PROVE node[o].no # no
  <2>1. PICK d \in dir : d[2] = node[o].no /\ d[3] = "file"
    BY DEF Tables, NodeInv, OpenExact
  <2> QED
    BY <1>2, <2>1 DEF Tables, DirInv, EntriesUnique
<1> QED
  BY <1>1, <1>2, <1>3, RemovedInv

-----------------------------------------------------------------------------
(* Calls that open files                                                    *)

(* open_inodes holds inodes in memory.                                      *)
LEMMA OpenObjs ==
  ASSUME Tables
  PROVE  Open \subseteq Objs /\ \A o \in Open : node[o] # Null /\ node[o] \in InodeRecord
<1>1. Open \subseteq Objs
  BY DEF Tables, TypesOK, Open, ToSet
<1> QED
  BY <1>1 DEF Tables, TypesOK, NodeInv, OpenExact

(* No descriptor leads to a free slot.                                      *)
LEMMA FreeUnused ==
  ASSUME Tables, NEW g \in Slots, slot[g].obj = Null
  PROVE  \A t \in Tasks, f \in Fds : fd[t][f] # g
<1>1. Null \notin Open /\ Null # Ring /\ Null \notin Slots
  BY OpenObjs, Kinds
<1> QED
  BY <1>1 DEF Tables, FdInv, FdsBacked

(* inode_open: what it finds in open_inodes.                                *)
LEMMA CachedFacts ==
  ASSUME Tables, NEW no
  PROVE  /\ Cached(no) = {} => \A o \in Open : node[o].no # no
         /\ \A o \in Cached(no) : o \in Open /\ node[o].no = no
<1> DEFINE I == {i \in 1 .. Len(cache) : node[cache[i]].no = no}
<1>1. \A o \in Open : \E i \in 1 .. Len(cache) : o = cache[i]
  BY DEF Tables, TypesOK, Open, ToSet
<1>2. \A i \in 1 .. Len(cache) : cache[i] \in Open
  BY DEF Tables, TypesOK, Open, ToSet
<1>3. Cached(no) = IF I = {} THEN {} ELSE {cache[Min(I)]}
  BY DEF Cached
<1>4. I # {} => Min(I) \in I
  <2>1. I \in SUBSET Nat
    OBVIOUS
  <2> HIDE DEF I
  <2> QED
    BY <2>1, MinIn
<1> QED
  BY <1>1, <1>2, <1>3, <1>4

(* sys_malloc has room for one more inode while a slot is free: the others  *)
(* are in a slot or on the stack of another call.                           *)
LEMMA RoomForInode ==
  ASSUME Tables, NEW t \in Tasks, call[t] = Null, FreeSlots # {}
  PROVE  /\ NewObj \in Objs /\ node[NewObj] = Null
         /\ \A u \in Tasks : call[u] # Null => call[u].obj # NewObj
<1> DEFINE S == {o \in Objs : node[o] = Null /\ \A u \in Tasks : call[u] = Null \/ call[u].obj # o}
<1>1. ASSUME S = {} PROVE FALSE
  <2>1. PICK h \in Slots : slot[h].obj = Null
    BY DEF FreeSlots
  <2> DEFINE G == Slots \ {h}
             U == Tasks \ {t}
             A == {slot[g].obj : g \in G}
             B == {call[u].obj : u \in U}
             fA == [g \in G |-> slot[g].obj]
             fB == [u \in U |-> call[u].obj]
  <2>2. Objs \in SUBSET (A \union B)
    <3> SUFFICES ASSUME NEW o \in Objs PROVE o \in A \union B
      OBVIOUS
    <3>1. CASE node[o] # Null
      <4>1. PICK g \in Slots : slot[g].obj = o
        BY <3>1 DEF Tables, NodeInv, NodesUsed, Holders
      <4>2. g # h
        BY <2>1, <4>1, Kinds
      <4> QED
        BY <4>1, <4>2
    <3>2. CASE node[o] = Null
      <4>1. PICK u \in Tasks : call[u] # Null /\ call[u].obj = o
        BY <1>1, <3>2
      <4> QED
        BY <4>1
    <3> QED
      BY <3>1, <3>2
  <2>3. fA \in Surjection(G, A) /\ fB \in Surjection(U, B)
    BY DEF Surjection
  <2>4. /\ IsFiniteSet(G) /\ Cardinality(G) = NSlots - 1
        /\ IsFiniteSet(U) /\ Cardinality(U) = Cardinality(Tasks) - 1
    BY Finite, FilesAssumption, FS_RemoveElement
  <2> HIDE DEF fA, fB, A, B, G, U, S
  <2>5. /\ IsFiniteSet(A) /\ Cardinality(A) <= NSlots - 1
        /\ IsFiniteSet(B) /\ Cardinality(B) <= Cardinality(Tasks) - 1
    BY <2>3, <2>4, FS_Surjection
  <2>6. /\ IsFiniteSet(A \union B)
        /\ Cardinality(A \union B) = Cardinality(A) + Cardinality(B) - Cardinality(A \cap B)
    BY <2>5, FS_Union
  <2>7. Cardinality(A) \in Nat /\ Cardinality(B) \in Nat /\ Cardinality(A \cap B) \in Nat
        /\ Cardinality(A \union B) \in Nat
    BY <2>5, <2>6, FS_CardinalityType, FS_Intersection
  <2>8. Cardinality(Objs) <= Cardinality(A \union B)
    BY <2>2, <2>6, FS_Subset
  <2> QED
    BY <2>5, <2>6, <2>7, <2>8, Finite, FilesBounds
<1>2. S \in SUBSET Nat
  BY Kinds
<1>3. NewObj = Min(S)
  BY DEF NewObj
<1>4. Min(S) \in S
  <2> HIDE DEF S
  <2> QED
    BY <1>1, <1>2, MinIn
<1> QED
  BY <1>3, <1>4

(* pcb_fd_install changes one free descriptor or none.                      *)
Installed(t, g) ==
    /\ fd' \in [Tasks -> [Fds -> Slots \union {Null}]]
    /\ \/ fd' = fd
       \/ \E f \in Fds : /\ fd[t][f] = Null
                         /\ \A u \in Tasks, h \in Fds :
                               fd'[u][h] = IF u = t /\ h = f THEN g ELSE fd[u][h]

(* pcb_fd_install                                                           *)
LEMMA InstallFacts ==
  ASSUME TypesOK, NEW t \in Tasks, NEW g \in Slots, Install(t, g) \/ UNCHANGED fd
  PROVE  Installed(t, g)
<1>1. CASE fd' = fd
  BY <1>1 DEF Installed, TypesOK
<1>2. CASE fd' # fd
  <2> DEFINE f == Min(FreeFds(t))
  <2>1. f \in Fds /\ fd[t][f] = Null /\ fd' = [fd EXCEPT ![t][f] = g]
    <3>1. FreeFds(t) \in SUBSET Nat
      BY Kinds DEF FreeFds
    <3>2. FreeFds(t) # {} /\ fd' = [fd EXCEPT ![t][f] = g]
      BY <1>2 DEF Install
    <3>3. f \in FreeFds(t)
      BY <3>1, <3>2, MinIn
    <3> QED
      BY <3>2, <3>3 DEF FreeFds
  <2> HIDE DEF f
  <2>2. \A u \in Tasks, h \in Fds : fd'[u][h] = IF u = t /\ h = f THEN g ELSE fd[u][h]
    BY <2>1 DEF TypesOK
  <2>3. fd' \in [Tasks -> [Fds -> Slots \union {Null}]]
    <3>1. [fd[t] EXCEPT ![f] = g] \in [Fds -> Slots \union {Null}]
      BY DEF TypesOK
    <3> QED
      BY <2>1, <3>1 DEF TypesOK
  <2> QED
    BY <2>1, <2>2, <2>3 DEF Installed
<1> QED
  BY <1>1, <1>2

(* A slot that no descriptor had is installed or not.                       *)
LEMMA InstalledRefs ==
  ASSUME NEW t \in Tasks, NEW g \in Slots, Installed(t, g), NEW h \in Slots, h # g
  PROVE  Refs(h)' = Refs(h)
<1>1. \A u \in Tasks, f \in Fds : fd'[u][f] = h <=> fd[u][f] = h
  BY Kinds DEF Installed
<1>2. \A x \in Tasks \X Fds : fd'[x[1]][x[2]] = h <=> fd[x[1]][x[2]] = h
  BY <1>1
<1> QED
  BY <1>2 DEF Refs

(* The sets a count is the size of are finite.                              *)
LEMMA CountFinite ==
  ASSUME NEW o
  PROVE  /\ IsFiniteSet(Users(o)) /\ IsFiniteSet(Unused(o))
         /\ Cardinality(Users(o)) \in Nat /\ Cardinality(Unused(o)) \in Nat
<1>1. Users(o) \in SUBSET (Tasks \X Fds) /\ Unused(o) \in SUBSET Slots
  BY DEF Users, Unused
<1> QED
  BY <1>1, Finite, FS_Subset, FS_CardinalityType

(* A slot that no descriptor had, now of inode o, counts once, with or      *)
(* without the descriptor.                                                  *)
LEMMA InstallCount ==
  ASSUME TypesOK, NEW t \in Tasks, NEW g \in Slots, Installed(t, g),
         \A u \in Tasks, f \in Fds : fd[u][f] # g,
         \A h \in Slots : h # g => slot'[h] = slot[h],
         NEW o \in Objs, slot'[g].obj = o, slot[g].obj \in {Null, o}
  PROVE  /\ \A q \in Objs : q # o => Count(q)' = Count(q)
         /\ Count(o)' = Cardinality(Users(o)) + Cardinality(Unused(o) \ {g}) + 1
<1>0. Null \notin Slots /\ Null \notin Objs
  BY Kinds
<1>1. \A h \in Slots : h # g => Refs(h)' = Refs(h)
  BY InstalledRefs
<1>2. \A q \in Objs : q # o => Unused(q)' = Unused(q)
  BY <1>0, <1>1 DEF Unused
<1>3. \A q : Users(q) = {x \in Tasks \X Fds : fd[x[1]][x[2]] \in Slots /\ slot[fd[x[1]][x[2]]].obj = q}
  BY DEF Users
<1>4. \A q : Users(q)' = {x \in Tasks \X Fds : fd'[x[1]][x[2]] \in Slots /\ slot'[fd'[x[1]][x[2]]].obj = q}
  BY DEF Users
<1>5. \A x \in Tasks \X Fds : x[1] \in Tasks /\ x[2] \in Fds /\ x = <<x[1], x[2]>>
  OBVIOUS
<1>8. IsFiniteSet(Unused(o) \ {g}) /\ Cardinality(Unused(o) \ {g}) \in Nat /\ Cardinality(Users(o)) \in Nat
  <2>1. IsFiniteSet(Unused(o)) /\ Cardinality(Users(o)) \in Nat
    BY CountFinite
  <2>2. IsFiniteSet(Unused(o) \ {g})
    BY <2>1, FS_Difference
  <2> QED
    BY <2>1, <2>2, FS_CardinalityType
<1>6. CASE fd' = fd
  <2>1. \A x \in Tasks \X Fds : fd[x[1]][x[2]] \in Slots => slot'[fd[x[1]][x[2]]] = slot[fd[x[1]][x[2]]]
    BY <1>5
  <2>3. \A q : Users(q)' = Users(q)
    BY <1>3, <1>4, <1>6, <2>1
  <2>4. Unused(o)' = (Unused(o) \ {g}) \union {g}
    <3>1. Refs(g)' = {}
      BY <1>6 DEF Refs
    <3> QED
      BY <1>1, <3>1 DEF Unused
  <2>5. Cardinality(Unused(o)') = Cardinality(Unused(o) \ {g}) + 1
    BY <1>8, <2>4, FS_AddElement
  <2>6. Cardinality(Unused(o) \ {g}) \in Nat /\ Cardinality(Users(o)) \in Nat
    BY <1>8
  <2> QED
    BY <1>2, <2>3, <2>5, <2>6 DEF Count
<1>7. CASE fd' # fd
  <2>1. PICK f \in Fds : fd[t][f] = Null /\ \A u \in Tasks, h \in Fds :
                            fd'[u][h] = IF u = t /\ h = f THEN g ELSE fd[u][h]
    BY <1>7 DEF Installed
  <2>2. \A x \in Tasks \X Fds :
           IF x = <<t, f>> THEN fd[x[1]][x[2]] = Null /\ fd'[x[1]][x[2]] = g
           ELSE /\ fd'[x[1]][x[2]] = fd[x[1]][x[2]]
                /\ fd[x[1]][x[2]] \in Slots => slot'[fd[x[1]][x[2]]] = slot[fd[x[1]][x[2]]]
    BY <1>5, <2>1
  <2>4. ASSUME NEW q \in Objs, q # o PROVE Users(q)' = Users(q)
    <3>1. \A x \in Tasks \X Fds : x \in Users(q)' <=> x \in Users(q)
      BY <1>0, <1>3, <1>4, <2>2, <2>4
    <3> QED
      BY <1>3, <1>4, <3>1
  <2>5. <<t, f>> \notin Users(o)
    BY <1>0, <1>3, <2>1
  <2>7. Users(o)' = Users(o) \union {<<t, f>>}
    <3>1. \A x \in Tasks \X Fds : x \in Users(o)' <=> x \in Users(o) \/ x = <<t, f>>
      BY <1>0, <1>3, <1>4, <2>2
    <3> QED
      BY <1>3, <1>4, <3>1
  <2>8. Cardinality(Users(o)') = Cardinality(Users(o)) + 1
    BY <2>5, <2>7, CountFinite, FS_AddElement
  <2>9. Unused(o)' = Unused(o) \ {g}
    <3>1. <<t, f>> \in Refs(g)'
      BY <2>1 DEF Refs
    <3> QED
      BY <1>1, <3>1 DEF Unused
  <2>10. Cardinality(Unused(o) \ {g}) \in Nat /\ Cardinality(Users(o)) \in Nat
    BY <1>8
  <2> QED
    BY <1>2, <2>4, <2>8, <2>9, <2>10 DEF Count
<1> QED
  BY <1>6, <1>7

(* The descriptors when slot g, which no descriptor had, is given to an     *)
(* inode that is open now.                                                  *)
LEMMA InstalledInv ==
  ASSUME Tables, NEW t \in Tasks, NEW g \in Slots, \A u \in Tasks, f \in Fds : fd[u][f] # g,
         Installed(t, g), \A h \in Slots : h # g => slot'[h] = slot[h],
         slot'[g].obj \in Open', slot'[g].obj # Ring, Open \subseteq Open'
  PROVE  FdInv'
<1> USE DEF Tables
<1>1. \A u \in Tasks, f \in Fds : fd'[u][f] = fd[u][f] \/ fd'[u][f] = g
  BY DEF Installed
<1>2. FdsBacked'
  <2> SUFFICES ASSUME NEW u \in Tasks, NEW f \in Fds, fd'[u][f] # Null
               PROVE  slot'[fd'[u][f]].obj = Ring \/ slot'[fd'[u][f]].obj \in Open'
    BY DEF FdsBacked
  <2>1. CASE fd'[u][f] = g
    BY <2>1
  <2>2. CASE fd'[u][f] # g
    <3>1. fd'[u][f] = fd[u][f] /\ fd[u][f] \in Slots
      BY <1>1, <2>2 DEF TypesOK
    <3>2. slot[fd[u][f]].obj = Ring \/ slot[fd[u][f]].obj \in Open
      BY <3>1 DEF FdInv, FdsBacked
    <3> QED
      BY <2>2, <3>1, <3>2
  <2> QED
    BY <2>1, <2>2
<1>3. FdsDistinct'
  <2> SUFFICES ASSUME NEW u \in Tasks, NEW f \in Fds, NEW h \in Fds,
                      fd'[u][f] # Null, fd'[u][f] = fd'[u][h], slot'[fd'[u][f]].obj # Ring
               PROVE  f = h
    BY DEF FdsDistinct
  <2>1. CASE fd'[u][f] = g
    <3>1. PICK k \in Fds : \A w \in Tasks, d \in Fds : fd'[w][d] = IF w = t /\ d = k THEN g ELSE fd[w][d]
      BY <2>1 DEF Installed
    <3>2. f = k
      <4>1. fd[u][f] # g
        OBVIOUS
      <4> QED
        BY <2>1, <3>1, <4>1
    <3>3. h = k
      <4>1. fd'[u][h] = g
        BY <2>1
      <4> QED
        BY <3>1, <4>1
    <3> QED
      BY <3>2, <3>3
  <2>2. CASE fd'[u][f] # g
    <3>1. fd'[u][f] = fd[u][f] /\ fd'[u][h] = fd[u][h] /\ fd[u][f] \in Slots
      BY <1>1, <2>2 DEF TypesOK
    <3>2. slot'[fd[u][f]] = slot[fd[u][f]]
      BY <2>2, <3>1
    <3>3. fd[u][f] # Null /\ fd[u][f] = fd[u][h] /\ slot[fd[u][f]].obj # Ring
      BY <3>1, <3>2
    <3>4. FdsDistinct
      BY DEF FdInv
    <3> QED
      BY <3>3, <3>4 DEF FdsDistinct
  <2> QED
    BY <2>1, <2>2
<1>4. PipesCounted'
  BY InstalledRefs DEF FdInv, PipesCounted
<1> QED
  BY <1>2, <1>3, <1>4 DEF FdInv

(* The end of file_open: slot g is given to inode o, which is new or was    *)
(* open already.                                                            *)
LEMMA FinishInv ==
  ASSUME Tables, NEW t \in Tasks, OthersOpen(t), call[t] # Null => call[t].op = "open",
         NEW g \in Slots, slot[g].obj = Null, NEW o \in Objs, NEW n \in InodeRecord,
         NEW flag \in {"r", "w"}, FinishOpen(t, g, o, n, flag), UNCHANGED <<dir, ibits>>,
         \A u \in Tasks : u # t /\ call[u] # Null => call[u].obj # o,
         cache' \in Seq(Objs), Open' = Open \union {o},
         \A i, j \in DOMAIN cache' : i # j => cache'[i] # cache'[j],
         n.cnts = Count(o) + 1,
         \E e \in dir : e[2] = n.no /\ e[3] = "file",
         \A q \in Open : q # o => node[q].no # n.no
  PROVE  Tables'
<1> USE DEF Tables
<1>1. /\ slot' = [slot EXCEPT ![g] = [obj |-> o, flag |-> flag, pos |-> 0]]
      /\ call' = [call EXCEPT ![t] = Null]
  BY DEF FinishOpen, Return
<1>2. PICK m \in InodeRecord : node' = [node EXCEPT ![o] = m] /\ m.no = n.no /\ m.cnts = n.cnts
  <2>1. [n EXCEPT !.deny = TRUE] \in InodeRecord
    BY DEF InodeRecord
  <2>2. /\ [n EXCEPT !.deny = TRUE].no = n.no /\ [n EXCEPT !.deny = TRUE].cnts = n.cnts
    BY DEF InodeRecord
  <2> QED
    BY <2>1, <2>2 DEF FinishOpen
<1>3. Installed(t, g)
  BY InstallFacts DEF FinishOpen
<1>4. OneWriter' /\ call'[t] = Null /\ \A u \in Tasks : u # t => call'[u] = call[u]
  BY <1>1, NextOpen
<1>5. [obj |-> o, flag |-> flag, pos |-> 0] \in SlotRecord
  BY DEF SlotRecord
<1>6. TypesOK'
  <2>1. slot' \in [Slots -> SlotRecord]
    BY <1>1, <1>5 DEF TypesOK
  <2>2. node' \in [Objs -> InodeRecord \union {Null}]
    BY <1>2 DEF TypesOK
  <2>3. fd' \in [Tasks -> [Fds -> Slots \union {Null}]]
    BY <1>3 DEF Installed
  <2> QED
    BY <1>1, <2>1, <2>2, <2>3 DEF TypesOK
<1>7. /\ \A h \in Slots : h # g => slot'[h] = slot[h]
      /\ slot'[g].obj = o /\ slot'[g].flag = flag
      /\ \A q \in Objs : q # o => node'[q] = node[q]
      /\ node'[o] = m /\ m # Null
  BY <1>1, <1>2, Kinds DEF TypesOK
<1>8. Ring \notin Objs /\ Null \notin Objs /\ Ring # Null /\ Null \notin Slots /\ Open \subseteq Objs /\ Open' \subseteq Objs
  BY Kinds, OpenObjs
<1>9. \A u \in Tasks : /\ ~In(u, "entry") /\ ~In(u, "release") /\ ~In(u, "sync") /\ ~Making(u)
                       /\ ~In(u, "entry")' /\ ~In(u, "release")' /\ ~In(u, "sync")' /\ ~Making(u)'
                       /\ In(u, "inode")' => In(u, "inode") /\ call'[u] = call[u]
  <2>1. \A u \in Tasks : call[u] # Null => call[u].pc = "inode" /\ call[u].op = "open"
    BY CallOps DEF OthersOpen
  <2> QED
    BY <1>4, <2>1 DEF In, Making
<1>10. DirInv'
  BY <1>9 DEF DirInv, EntriesUnique, EntriesMarked, MarksUsed, CallsOnDir
<1>11. \A u \in Tasks, f \in Fds : fd[u][f] # g
  BY FreeUnused
<1>12. NodeInv'
  <2>1. (\A q \in Objs : q # o => Count(q)' = Count(q)) /\ Count(o)' = n.cnts
    <3>1. /\ \A q \in Objs : q # o => Count(q)' = Count(q)
          /\ Count(o)' = Cardinality(Users(o)) + Cardinality(Unused(o) \ {g}) + 1
      BY <1>3, <1>7, <1>11, InstallCount
    <3>2. Unused(o) \ {g} = Unused(o)
      BY <1>8 DEF Unused
    <3> QED
      BY <3>1, <3>2 DEF Count
  <2>2. \A q \in Objs : q # o => Holders(q)' = Holders(q)
    BY <1>7, <1>8 DEF Holders
  <2>3. Holders(o)' # {}
    BY <1>7 DEF Holders
  <2>5. SlotsBacked'
    BY <1>7, <1>8 DEF NodeInv, SlotsBacked
  <2>6. NodesUsed'
    BY <1>7, <1>9, <2>2, <2>3 DEF NodeInv, NodesUsed
  <2>7. CacheDistinct'
    BY <1>2, <1>7, <1>8 DEF NodeInv, CacheDistinct
  <2>8. OpenExact'
    BY <1>2, <1>7, <1>8, <2>1 DEF NodeInv, OpenExact
  <2>9. CallsOnNodes'
    <3> SUFFICES ASSUME NEW u \in Tasks, In(u, "inode")' PROVE Reading(u)'
      BY <1>9 DEF CallsOnNodes
    <3>1. u # t /\ call'[u] = call[u] /\ In(u, "inode")
      BY <1>4, <1>9 DEF In
    <3>2. Reading(u) /\ call[u].obj # o
      BY <3>1 DEF NodeInv, CallsOnNodes, In
    <3>3. \A v \in Tasks : call'[v] # Null => call'[v] = call[v]
      BY <1>4
    <3> HIDE DEF Tables
    <3> QED
      BY <1>7, <3>1, <3>2, <3>3 DEF Reading
  <2> QED
    BY <2>5, <2>6, <2>7, <2>8, <2>9 DEF NodeInv
<1>13. FdInv'
  <2>1. slot'[g].obj \in Open' /\ slot'[g].obj # Ring /\ Open \subseteq Open'
    BY <1>7, <1>8
  <2> HIDE DEF Tables
  <2> QED
    BY <1>3, <1>7, <1>11, <2>1, InstalledInv
<1> QED
  BY <1>4, <1>6, <1>10, <1>12, <1>13

(* inode_open and file_create put an inode in front of open_inodes.         *)
LEMMA ConsFacts ==
  ASSUME NEW list \in Seq(Objs), NEW o \in Objs
  PROVE  /\ <<o>> \o list \in Seq(Objs)
         /\ ToSet(<<o>> \o list) = ToSet(list) \union {o}
         /\ o \notin ToSet(list) /\ (\A i, j \in DOMAIN list : i # j => list[i] # list[j]) =>
              \A i, j \in DOMAIN (<<o>> \o list) : i # j => (<<o>> \o list)[i] # (<<o>> \o list)[j]
<1> DEFINE new == <<o>> \o list
<1>1. new \in Seq(Objs) /\ Len(new) = Len(list) + 1 /\ Len(list) \in Nat
      /\ DOMAIN new = 1 .. Len(list) + 1 /\ DOMAIN list = 1 .. Len(list)
  OBVIOUS
<1>2. new[1] = o /\ \A i \in 1 .. Len(list) : new[i + 1] = list[i]
  OBVIOUS
<1>3. \A i \in DOMAIN new : i = 1 \/ (i - 1 \in DOMAIN list /\ new[i] = list[i - 1])
  <2> SUFFICES ASSUME NEW i \in DOMAIN new, i # 1 PROVE i - 1 \in DOMAIN list /\ new[i] = list[i - 1]
    OBVIOUS
  <2>1. i - 1 \in 1 .. Len(list) /\ (i - 1) + 1 = i
    BY <1>1
  <2> QED
    BY <1>1, <1>2, <2>1
<1>4. \A i \in DOMAIN list : i + 1 \in DOMAIN new /\ new[i + 1] = list[i]
  BY <1>1, <1>2
<1>5. 1 \in DOMAIN new
  BY <1>1
<1> HIDE DEF new
<1>6. ToSet(new) = ToSet(list) \union {o}
  <2>1. \A x \in ToSet(new) : x \in ToSet(list) \union {o}
    BY <1>2, <1>3 DEF ToSet
  <2>2. \A x \in ToSet(list) : x \in ToSet(new)
    BY <1>4 DEF ToSet
  <2>3. o \in ToSet(new)
    BY <1>2, <1>5 DEF ToSet
  <2> QED
    BY <2>1, <2>2, <2>3
<1>7. ASSUME o \notin ToSet(list), \A i, j \in DOMAIN list : i # j => list[i] # list[j],
             NEW i \in DOMAIN new, NEW j \in DOMAIN new, i # j
      PROVE  new[i] # new[j]
  <2>1. \A k \in DOMAIN list : list[k] # o
    BY <1>7 DEF ToSet
  <2>2. i \in Int /\ j \in Int
    BY <1>1
  <2>3. i - 1 # j - 1
    BY <1>7, <2>2
  <2> QED
    BY <1>2, <1>3, <1>7, <2>1, <2>3
<1> QED
  BY <1>1, <1>6, <1>7 DEF new


(* get_free_slot_in_global                                                  *)
LEMMA LowestSlot ==
  ASSUME FreeSlots # {}
  PROVE  Min(FreeSlots) \in Slots /\ slot[Min(FreeSlots)].obj = Null
<1>1. FreeSlots \in SUBSET Nat
  BY Kinds DEF FreeSlots
<1>2. Min(FreeSlots) \in FreeSlots
  BY <1>1, MinIn
<1> QED
  BY <1>2 DEF FreeSlots

(* sys_open finds the inode in open_inodes, or goes to read it.             *)
LEMMA OpenFoundInv ==
  ASSUME Tables, NEW t \in Tasks, NEW name \in Names, NEW flag \in {"r", "w"}, NEW no \in Inodes,
         OpenFound(t, name, flag, no), ~raced'
  PROVE  Tables'
<1> DEFINE g == Min(FreeSlots)
<1> USE DEF Tables
<1>1. call[t] = Null /\ no \in FoundAs(name, "file") /\ FreeSlots # {} /\ ~Overlaps(t, "open")
  BY DEF OpenFound, Ready
<1>2. g \in Slots /\ slot[g].obj = Null
  BY <1>1, LowestSlot
<1>3. OthersOpen(t)
  BY <1>1, StartOpen
<1>4. \E e \in dir : e[2] = no /\ e[3] = "file"
  BY <1>1, Search
<1>0. \A u \in Tasks : call[u] # Null => u # t /\ In(u, "inode") /\ Reading(u)
  BY <1>1, <1>3, CallOps DEF In, OthersOpen, NodeInv, CallsOnNodes
<1>5. ASSUME NEW o \in Cached(no),
             FinishOpen(t, g, o, [node[o] EXCEPT !.cnts = @ + 1], flag),
             UNCHANGED <<cache, dir, ibits>>
      PROVE  Tables'
  <2> DEFINE n == [node[o] EXCEPT !.cnts = @ + 1]
  <2>1. o \in Open /\ node[o].no = no /\ o \in Objs /\ node[o] \in InodeRecord /\ node[o] # Null
    BY CachedFacts, OpenObjs
  <2>2. n \in InodeRecord /\ n.no = no /\ n.cnts = Count(o) + 1
    BY <2>1 DEF InodeRecord, NodeInv, OpenExact
  <2>3. /\ cache' \in Seq(Objs) /\ Open' = Open \union {o}
        /\ \A i, j \in DOMAIN cache' : i # j => cache'[i] # cache'[j]
    BY <1>5, <2>1 DEF TypesOK, Open, NodeInv, CacheDistinct
  <2>4. \A q \in Open : q # o => node[q].no # n.no
    BY <2>1, <2>2 DEF NodeInv, CacheDistinct
  <2>5. FinishOpen(t, g, o, n, flag)
    BY <1>5
  <2>6. \A u \in Tasks : u # t /\ call[u] # Null => call[u].obj # o
    BY <1>0, <2>1 DEF Reading
  <2> HIDE DEF n, g, Tables
  <2> QED
    BY <1>1, <1>2, <1>3, <1>4, <1>5, <2>1, <2>2, <2>3, <2>4, <2>5, <2>6, FinishInv
<1>6. CASE /\ Cached(no) = {}
           /\ Waits(t, "inode", "open", name, flag, no, g, NewObj)
           /\ UNCHANGED <<slot, node, cache, dir, ibits, fd>>
  <2> DEFINE c == [pc |-> "inode", op |-> "open", name |-> name, flag |-> flag, no |-> no, slot |-> g, obj |-> NewObj]
  <2>1. NewObj \in Objs /\ node[NewObj] = Null /\ \A u \in Tasks : call[u] # Null => call[u].obj # NewObj
    BY <1>1, RoomForInode
  <2>2. c \in CallRecord /\ c.pc = "inode" /\ c.op = "open" /\ c.no = no /\ c.slot = g /\ c.obj = NewObj
    BY <1>2, <2>1, Kinds DEF CallRecord
  <2>3. call' = [call EXCEPT ![t] = c] /\ UNCHANGED <<slot, node, cache, dir, ibits, fd>>
    BY <1>6 DEF Waits
  <2> HIDE DEF c
  <2>4. OneWriter' /\ call'[t] = c /\ c # Null /\ \A u \in Tasks : u # t => call'[u] = call[u]
    BY <1>3, <2>2, <2>3, NextOpen, Kinds
  <2>5. TypesOK'
    BY <2>2, <2>3 DEF TypesOK
  <2>6. \A u \in Tasks : /\ ~In(u, "entry") /\ ~In(u, "release") /\ ~Making(u)
                         /\ ~In(u, "entry")' /\ ~In(u, "release")' /\ ~In(u, "sync")' /\ ~Making(u)'
    <3>1. \A u \in Tasks : call[u] # Null => call[u].pc = "inode" /\ call[u].op = "open"
      BY <1>0, CallOps DEF In
    <3> QED
      BY <2>2, <2>4, <3>1 DEF In, Making
  <2>7. DirInv'
    <3>1. EntriesUnique' /\ EntriesMarked' /\ MarksUsed'
      BY <2>3, <2>6 DEF DirInv, EntriesUnique, EntriesMarked, MarksUsed
    <3>2. ASSUME NEW u \in Tasks, In(u, "inode")'
          PROVE  call'[u].op = "open" /\ \E e \in dir : e[2] = call'[u].no /\ e[3] = "file"
      BY <1>4, <2>2, <2>4, <3>2 DEF DirInv, CallsOnDir, In
    <3>3. CallsOnDir'
      BY <2>3, <2>6, <3>2 DEF CallsOnDir
    <3> QED
      BY <3>1, <3>3 DEF DirInv
  <2>8. NodeInv'
    <3>1. SlotsBacked' /\ CacheDistinct' /\ NodesUsed'
      BY <2>3, <2>6 DEF NodeInv, SlotsBacked, CacheDistinct, NodesUsed, Open, Holders
    <3>2. OpenExact'
      BY <2>3, CountKept DEF NodeInv, OpenExact, Open
    <3>3. Reading(t)'
      BY <1>2, <2>1, <2>2, <2>3, <2>4 DEF Reading
    <3>4. ASSUME NEW u \in Tasks, u # t, In(u, "inode")' PROVE Reading(u)'
      <4>1. call'[u] = call[u] /\ call[u] # Null /\ Reading(u) /\ call[u].obj # NewObj
        BY <1>0, <2>1, <2>4, <3>4 DEF In
      <4> QED
        BY <2>2, <2>3, <2>4, <4>1 DEF Reading
    <3>5. CallsOnNodes'
      BY <2>6, <3>3, <3>4 DEF CallsOnNodes
    <3> QED
      BY <3>1, <3>2, <3>5 DEF NodeInv
  <2>9. FdInv'
    BY <2>3, FdsKept
  <2> QED
    BY <2>4, <2>5, <2>7, <2>8, <2>9
<1> QED
  BY <1>5, <1>6 DEF OpenFound

(* inode_open has read the inode: nobody has read it or taken the slot      *)
(* meanwhile, unless the open was overtaken.                                *)
LEMMA OpenReadInv ==
  ASSUME Tables, NEW t \in Tasks, OpenRead(t), ~raced'
  PROVE  Tables'
<1> DEFINE o == call[t].obj
           g == call[t].slot
           n == [no |-> call[t].no, cnts |-> 1, deny |-> FALSE]
<1> USE DEF Tables
<1>1. /\ call[t] # Null /\ call[t] \in CallRecord /\ call[t].pc = "inode" /\ call[t].op = "open"
      /\ cache' = <<o>> \o cache /\ FinishOpen(t, g, o, n, call[t].flag) /\ UNCHANGED <<dir, ibits>>
      /\ slot[g].obj = Null /\ Cached(call[t].no) = {}
  BY DEF OpenRead, At, TypesOK, Overtaken
<1>2. OthersOpen(t)
  BY <1>1 DEF OneWriter, OthersOpen
<1>3. In(t, "inode")
  BY <1>1 DEF In
<1>4. /\ g \in Slots /\ o \in Objs /\ node[o] = Null
      /\ \A u \in Tasks : u # t /\ call[u] # Null => call[u].obj # o
      /\ \A q \in Open : node[q].no # call[t].no
      /\ \E e \in dir : e[2] = call[t].no /\ e[3] = "file"
  BY <1>1, <1>3, CachedFacts DEF DirInv, CallsOnDir, NodeInv, CallsOnNodes, Reading
<1>5. n \in InodeRecord /\ n.no = call[t].no /\ n.cnts = 1 /\ call[t].flag \in {"r", "w"}
  BY <1>1 DEF CallRecord, InodeRecord
<1>6. o \notin Open
  BY <1>4, OpenObjs
<1>7. /\ cache' \in Seq(Objs) /\ Open' = Open \union {o}
      /\ \A i, j \in DOMAIN cache' : i # j => cache'[i] # cache'[j]
  <2>1. cache \in Seq(Objs) /\ \A i, j \in DOMAIN cache : i # j => cache[i] # cache[j]
    BY DEF TypesOK, NodeInv, CacheDistinct
  <2> HIDE DEF o, Tables
  <2> QED
    BY <1>1, <1>4, <1>6, <2>1, ConsFacts DEF Open
<1>8. n.cnts = Count(o) + 1
  <2>1. \A h \in Slots : slot[h].obj # o
    BY <1>4, Kinds DEF NodeInv, SlotsBacked
  <2>2. Users(o) = {} /\ Unused(o) = {}
    BY <2>1 DEF Users, Unused
  <2> QED
    BY <1>5, <2>2, FS_EmptySet DEF Count
<1>9. (\E e \in dir : e[2] = n.no /\ e[3] = "file") /\ \A q \in Open : q # o => node[q].no # n.no
  BY <1>4, <1>5
<1>10. PICK flag \in {"r", "w"} : flag = call[t].flag
  BY <1>5
<1>11. FinishOpen(t, g, o, n, flag) /\ UNCHANGED <<dir, ibits>> /\ slot[g].obj = Null
       /\ (call[t] # Null => call[t].op = "open")
  BY <1>1, <1>10
<1> HIDE DEF o, g, n, Tables
<1> QED
  BY <1>2, <1>4, <1>5, <1>7, <1>8, <1>9, <1>11, FinishInv

(* file_create takes inode number no, slot g and the memory o.              *)
LEMMA CreateStep ==
  ASSUME Tables, NEW t \in Tasks, Alone(t), call[t] = Null, NEW g \in Slots, slot[g].obj = Null,
         NEW o \in Objs, node[o] = Null, NEW no \in Inodes \ ibits,
         NEW name \in Names, Found(name) = {},
         NEW c \in CallRecord, c.pc = "entry", c.op = "create", c.no = no, c.slot = g, c.obj = o, c.name = name,
         NEW n \in InodeRecord, n = [no |-> no, cnts |-> 0, deny |-> FALSE],
         NEW s \in SlotRecord, s.obj = o, s.flag # "pipe",
         ibits' = ibits \union {no}, node' = [node EXCEPT ![o] = n],
         slot' = [slot EXCEPT ![g] = s], call' = [call EXCEPT ![t] = c],
         UNCHANGED <<cache, dir, fd>>
  PROVE  Tables'
<1> USE DEF Tables
<1>1. \A u \in Tasks : call[u] = Null
  BY DEF Alone
<1>9. OneWriter' /\ call'[t] = c /\ c # Null /\ \A u \in Tasks : u # t => call'[u] = Null
  <2>1. TypesOK /\ c # Null
    BY Kinds
  <2> HIDE DEF Tables
  <2> QED
    BY <2>1, NextAlone
<1>10. TypesOK'
  <2>1. slot' \in [Slots -> SlotRecord]
    BY DEF TypesOK
  <2>2. node' \in [Objs -> InodeRecord \union {Null}]
    BY DEF TypesOK
  <2>3. call' \in [Tasks -> CallRecord \union {Null}]
    BY DEF TypesOK
  <2> QED
    BY <2>1, <2>2, <2>3 DEF TypesOK
<1>11. /\ \A h \in Slots : h # g => slot'[h] = slot[h]
       /\ slot'[g] = s /\ node'[o] = n /\ n # Null /\ n.no = no
       /\ \A q \in Objs : q # o => node'[q] = node[q]
  BY Kinds DEF TypesOK
<1>12. Ring \notin Objs /\ Null \notin Objs /\ Ring # Null /\ Open \subseteq Objs /\ Open' = Open /\ o \notin Open
  BY Kinds, OpenObjs DEF Open
<1>13. DirInv'
  <2>1. \A e \in dir : e[2] \in ibits
    BY DEF DirInv, EntriesMarked
  <2>2. EntriesUnique' /\ EntriesMarked'
    BY DEF DirInv, EntriesUnique, EntriesMarked
  <2>4. In(t, "entry")'
    BY <1>9 DEF In
  <2>5. MarksUsed'
    BY <1>1, <1>9, <2>4 DEF DirInv, MarksUsed, In
  <2>6. \A e \in dir : e[1] # name
    BY Search
  <2>7. CallsOnDir'
    BY <1>9, <2>1, <2>6 DEF CallsOnDir, In
  <2> QED
    BY <2>2, <2>5, <2>7 DEF DirInv
<1>0. \A u \in Tasks, f \in Fds : fd[u][f] # g /\ (fd[u][f] # Null => fd[u][f] \in Slots /\ slot'[fd[u][f]] = slot[fd[u][f]])
  BY <1>11, FreeUnused DEF TypesOK
<1>14. NodeInv'
  <2>1. \A u \in Tasks : ~In(u, "inode")' /\ ~Making(u) /\ (Making(u)' <=> u = t)
    BY <1>1, <1>9 DEF In, Making
  <2>2. \A q \in Objs : q # o => Holders(q)' = Holders(q) /\ Count(q)' = Count(q)
    <3> SUFFICES ASSUME NEW q \in Objs, q # o PROVE Holders(q)' = Holders(q) /\ Count(q)' = Count(q)
      OBVIOUS
    <3>1. \A h \in Slots : slot'[h].obj = q <=> slot[h].obj = q
      BY <1>11, <1>12
    <3> QED
      BY <3>1 DEF Holders, Count, Users, Unused, Refs
  <2>3. \A h \in Slots : slot[h].obj # o
    BY <1>12 DEF NodeInv, SlotsBacked
  <2>4. Holders(o)' = {g}
    BY <1>11, <2>3 DEF Holders
  <2>5. SlotsBacked'
    BY <1>11, <1>12 DEF NodeInv, SlotsBacked
  <2>6. NodesUsed'
    BY <1>9, <1>11, <1>12, <2>1, <2>2, <2>4 DEF NodeInv, NodesUsed
  <2>7. CacheDistinct'
    BY <1>11, <1>12 DEF NodeInv, CacheDistinct
  <2>8. OpenExact'
    BY <1>11, <1>12, <2>2 DEF NodeInv, OpenExact
  <2>9. \A q \in Open : node'[q].no # no
    BY <1>11, <1>12 DEF NodeInv, OpenExact, DirInv, EntriesMarked
  <2>10. Reserved(t)'
    <3>1. call'[t].slot = g /\ call'[t].obj = o /\ call'[t].no = no
      BY <1>9
    <3>2. node'[call'[t].obj] = [no |-> call'[t].no, cnts |-> 0, deny |-> FALSE]
      <4>1. node'[call'[t].obj] = n
        BY <1>11, <3>1
      <4> QED
        BY <3>1, <4>1, Zenon
    <3>3. Holders(call[t].obj)' = {call'[t].slot}
      BY <2>4, <3>1 DEF Holders
    <3>4. call'[t].slot \in Slots /\ call'[t].obj \in Objs \ Open' /\ \A q \in Open' : node'[q].no # call'[t].no
      BY <1>12, <2>9, <3>1
    <3> QED
      BY <3>2, <3>3, <3>4, Zenon DEF Reserved
  <2>11. CallsOnNodes'
    BY <2>1, <2>10 DEF CallsOnNodes
  <2> QED
    BY <2>5, <2>6, <2>7, <2>8, <2>11 DEF NodeInv
<1>15. FdInv'
  <2>3. FdsBacked' /\ FdsDistinct'
    BY <1>0, <1>12 DEF FdInv, FdsBacked, FdsDistinct
  <2>4. PipesCounted'
    BY <1>11, <1>12 DEF FdInv, PipesCounted, Refs
  <2> QED
    BY <2>3, <2>4 DEF FdInv
<1> QED
  BY <1>9, <1>10, <1>13, <1>14, <1>15

(* file_create finds room for them.                                         *)
LEMMA CreateInv ==
  ASSUME Tables, NEW t \in Tasks, NEW name \in Names, Create(t, name), ~raced'
  PROVE  Tables'
<1>1. call[t] = Null /\ Alone(t) /\ Found(name) = {} /\ FreeSlots # {} /\ Inodes \ ibits # {}
  BY StartAlone DEF Create, Ready
<1>5. NewObj \in Objs /\ node[NewObj] = Null
  BY <1>1, RoomForInode
<1>6. PICK g \in Slots : g = Min(FreeSlots) /\ slot[g].obj = Null
  BY <1>1, LowestSlot
<1>7. PICK o \in Objs : o = NewObj
  BY <1>5
<1>8. PICK no \in Inodes \ ibits : no = Min(Inodes \ ibits)
  BY <1>1, Kinds, MinIn
<1> DEFINE c == [pc |-> "entry", op |-> "create", name |-> name, flag |-> "w", no |-> no, slot |-> g, obj |-> o]
           n == [no |-> no, cnts |-> 0, deny |-> FALSE]
           s == [obj |-> o, flag |-> "w", pos |-> 0]
<1>9. /\ ibits' = ibits \union {no} /\ node' = [node EXCEPT ![o] = n]
      /\ slot' = [slot EXCEPT ![g] = s] /\ call' = [call EXCEPT ![t] = c]
      /\ UNCHANGED <<cache, dir, fd>>
  BY <1>6, <1>7, <1>8 DEF Create, Waits
<1>10. slot[g].obj = Null /\ node[o] = Null
  BY <1>5, <1>6, <1>7
<1>11. no \in Nat
  BY Kinds
<1>12. /\ c \in CallRecord /\ c.pc = "entry" /\ c.op = "create" /\ c.no = no /\ c.slot = g /\ c.obj = o
       /\ c.name = name
  BY <1>11, Kinds DEF CallRecord
<1>13. n \in InodeRecord /\ s \in SlotRecord /\ s.obj = o /\ s.flag # "pipe"
  BY <1>11 DEF InodeRecord, SlotRecord
<1>14. n = [no |-> no, cnts |-> 0, deny |-> FALSE]
  OBVIOUS
<1> HIDE DEF c, n, s
<1> QED
  BY <1>1, <1>9, <1>10, <1>12, <1>13, <1>14, CreateStep

(* What is known of the inode a call creates.                               *)
LEMMA MakingFacts ==
  ASSUME Tables, NEW t \in Tasks, call[t] # Null, call[t].op = "create", call[t].pc \in {"entry", "sync"}
  PROVE  /\ call[t].slot \in Slots /\ call[t].obj \in Objs \ Open /\ call[t] \in CallRecord
         /\ node[call[t].obj] = [no |-> call[t].no, cnts |-> 0, deny |-> FALSE]
         /\ Holders(call[t].obj) = {call[t].slot}
         /\ \A o \in Open : node[o].no # call[t].no
         /\ Alone(t)
BY CallAlone DEF Tables, NodeInv, CallsOnNodes, Making, Reserved, TypesOK

(* file_create rolls back.                                                  *)
LEMMA CreateFailedInv ==
  ASSUME Tables, NEW t \in Tasks, CreateFailed(t)
  PROVE  Tables'
<1> DEFINE g == call[t].slot
           o == call[t].obj
<1> USE DEF Tables
<1>1. /\ call[t] # Null /\ call[t].op = "create" /\ call[t].pc = "entry"
      /\ slot' = [slot EXCEPT ![g] = FreeSlot] /\ node' = [node EXCEPT ![o] = Null]
      /\ ibits' = ibits \ {call[t].no} /\ call' = [call EXCEPT ![t] = Null]
      /\ UNCHANGED <<cache, dir, fd>>
  BY DEF CreateFailed, At, Return
<1>2. g \in Slots /\ o \in Objs \ Open /\ Holders(o) = {g} /\ Alone(t)
  BY <1>1, MakingFacts
<1>3. OneWriter' /\ \A u \in Tasks : call'[u] = Null
  BY <1>1, <1>2, NextAlone
<1> HIDE DEF g, o
<1>4. FreeSlot \in SlotRecord /\ FreeSlot.obj = Null
  BY DEF FreeSlot, SlotRecord
<1>5. TypesOK'
  BY <1>1, <1>4 DEF TypesOK
<1>6. /\ \A h \in Slots : h # g => slot'[h] = slot[h]
      /\ slot'[g].obj = Null
      /\ \A q \in Objs : q # o => node'[q] = node[q]
      /\ node'[o] = Null
  BY <1>1, <1>2, <1>4 DEF TypesOK
<1>7. Ring \notin Objs /\ Null \notin Objs /\ Ring # Null /\ Open \subseteq Objs /\ Open' = Open
  BY <1>1, Kinds, OpenObjs DEF Open
<1>8. slot[g].obj = o /\ \A h \in Slots : slot[h].obj = o => h = g
  BY <1>2 DEF Holders
<1>9. DirInv'
  <2>1. \A e \in dir : e[2] # call[t].no
    BY <1>1 DEF DirInv, CallsOnDir, In
  <2>2. \A u \in Tasks : In(u, "entry") \/ In(u, "release") => u = t
    BY <1>2 DEF Alone, In
  <2> QED
    BY <1>1, <1>3, <2>1, <2>2 DEF DirInv, EntriesUnique, EntriesMarked, MarksUsed, CallsOnDir, In
<1>0. \A u \in Tasks, f \in Fds : fd[u][f] # g /\ (fd[u][f] # Null => fd[u][f] \in Slots /\ slot'[fd[u][f]] = slot[fd[u][f]])
  <2>1. \A u \in Tasks, f \in Fds : fd[u][f] # g
    BY <1>2, <1>7, <1>8, Kinds DEF FdInv, FdsBacked
  <2> QED
    BY <1>6, <2>1 DEF TypesOK
<1>10. NodeInv'
  <2>1. \A u \in Tasks : ~In(u, "inode")' /\ ~Making(u)' /\ (Making(u) => u = t)
    BY <1>2, <1>3 DEF In, Making, Alone
  <2>2. \A q \in Objs : q # o => Holders(q)' = Holders(q) /\ Count(q)' = Count(q)
    <3> SUFFICES ASSUME NEW q \in Objs, q # o PROVE Holders(q)' = Holders(q) /\ Count(q)' = Count(q)
      OBVIOUS
    <3>1. \A h \in Slots : slot'[h].obj = q <=> slot[h].obj = q
      BY <1>6, <1>7, <1>8
    <3> QED
      BY <1>1, <3>1 DEF Holders, Count, Users, Unused, Refs
  <2>3. SlotsBacked'
    BY <1>6, <1>7, <1>8 DEF NodeInv, SlotsBacked
  <2>4. NodesUsed'
    BY <1>6, <1>7, <2>1, <2>2 DEF NodeInv, NodesUsed, o
  <2>5. CacheDistinct'
    BY <1>1, <1>2, <1>6, <1>7 DEF NodeInv, CacheDistinct
  <2>6. OpenExact'
    BY <1>1, <1>2, <1>6, <1>7, <2>2 DEF NodeInv, OpenExact
  <2>7. CallsOnNodes'
    BY <2>1 DEF CallsOnNodes
  <2> QED
    BY <2>3, <2>4, <2>5, <2>6, <2>7 DEF NodeInv
<1>11. FdInv'
  <2>3. FdsBacked' /\ FdsDistinct'
    BY <1>0, <1>1, <1>7 DEF FdInv, FdsBacked, FdsDistinct
  <2>4. PipesCounted'
    BY <1>1, <1>6, <1>7 DEF FdInv, PipesCounted, Refs
  <2> QED
    BY <2>3, <2>4 DEF FdInv
<1> QED
  BY <1>3, <1>5, <1>9, <1>10, <1>11

(* file_create ends: the inode enters open_inodes.                          *)
LEMMA CreatedInv ==
  ASSUME Tables, NEW t \in Tasks, Created(t)
  PROVE  Tables'
<1> DEFINE g == call[t].slot
           o == call[t].obj
           n == [node[o] EXCEPT !.cnts = 1]
<1> USE DEF Tables
<1>1. /\ call[t] # Null /\ call[t].op = "create" /\ call[t].pc = "sync"
      /\ cache' = <<o>> \o cache /\ node' = [node EXCEPT ![o] = n] /\ Install(t, g)
      /\ call' = [call EXCEPT ![t] = Null]
      /\ UNCHANGED <<slot, dir, ibits>>
  BY DEF Created, At, Return
<1>2. /\ g \in Slots /\ o \in Objs \ Open /\ Holders(o) = {g} /\ Alone(t) /\ call[t].no \in Nat
      /\ node[o] = [no |-> call[t].no, cnts |-> 0, deny |-> FALSE]
      /\ \A q \in Open : node[q].no # call[t].no
  BY <1>1, MakingFacts DEF CallRecord
<1>3. OneWriter' /\ \A u \in Tasks : call'[u] = Null
  BY <1>1, <1>2, NextAlone
<1>4. Installed(t, g)
  BY <1>1, <1>2, InstallFacts
<1>5. n \in InodeRecord /\ n.no = call[t].no /\ n.cnts = 1 /\ n # Null
  <2>1. node[o] \in InodeRecord /\ node[o].no = call[t].no
    BY <1>2 DEF InodeRecord
  <2>2. n \in InodeRecord /\ n.no = call[t].no /\ n.cnts = 1
    BY <2>1 DEF InodeRecord
  <2> HIDE DEF n
  <2> QED
    BY <2>2, Kinds
<1> HIDE DEF g, n
<1>6. /\ cache' \in Seq(Objs) /\ Open' = Open \union {o}
      /\ \A i, j \in DOMAIN cache' : i # j => cache'[i] # cache'[j]
  <2>1. cache \in Seq(Objs) /\ \A i, j \in DOMAIN cache : i # j => cache[i] # cache[j]
    BY DEF TypesOK, NodeInv, CacheDistinct
  <2> HIDE DEF o, Tables
  <2> QED
    BY <1>1, <1>2, <2>1, ConsFacts DEF Open
<1> HIDE DEF o
<1>7. TypesOK'
  BY <1>1, <1>4, <1>5, <1>6 DEF TypesOK, Installed
<1>8. /\ \A q \in Objs : q # o => node'[q] = node[q]
      /\ node'[o] = n
  BY <1>1, <1>2 DEF TypesOK
<1>9. Ring \notin Objs /\ Null \notin Objs /\ Ring # Null /\ Open \subseteq Objs /\ Open' \subseteq Objs
  BY <1>2, <1>6, Kinds, OpenObjs
<1>10. slot[g].obj = o /\ \A h \in Slots : slot[h].obj = o => h = g
  BY <1>2 DEF Holders
<1>11. DirInv'
  <2>1. \A u \in Tasks : ~In(u, "entry") /\ ~In(u, "release")
    BY <1>1, <1>2 DEF In, Alone
  <2>2. \A u \in Tasks : ~In(u, "inode")' /\ ~In(u, "entry")' /\ ~In(u, "release")' /\ ~In(u, "sync")'
    BY <1>3 DEF In
  <2> QED
    BY <1>1, <2>1, <2>2 DEF DirInv, EntriesUnique, EntriesMarked, MarksUsed, CallsOnDir
<1>12. \A u \in Tasks, f \in Fds : fd[u][f] # g
  BY <1>2, <1>9, <1>10, Kinds DEF FdInv, FdsBacked
<1>13. NodeInv'
  <2>1. \A u \in Tasks : ~In(u, "inode")' /\ ~Making(u)' /\ (Making(u) => u = t)
    BY <1>2, <1>3 DEF In, Making, Alone
  <2>2. \A q \in Objs : Holders(q)' = Holders(q)
    BY <1>1 DEF Holders
  <2>3. SlotsBacked'
    BY <1>1, <1>5, <1>8 DEF NodeInv, SlotsBacked
  <2>4. NodesUsed'
    BY <1>2, <1>6, <1>8, <2>1, <2>2 DEF NodeInv, NodesUsed, o
  <2>5. CacheDistinct'
    BY <1>2, <1>5, <1>6, <1>8, <1>9 DEF NodeInv, CacheDistinct
  <2>6. \E e \in dir : e[2] = call[t].no /\ e[3] = "file"
    <3>1. <<call[t].name, call[t].no, "file">> \in dir
      BY <1>1 DEF DirInv, CallsOnDir, In, TypeOf
    <3> QED
      BY <3>1
  <2>7. \A q \in Objs : Count(q)' = IF q = o THEN 1 ELSE Count(q)
    <3>0. PICK p \in Objs : p = o
      BY <1>2
    <3>1. /\ \A q \in Objs : q # p => Count(q)' = Count(q)
          /\ Count(p)' = Cardinality(Users(p)) + Cardinality(Unused(p) \ {g}) + 1
      <4>1. TypesOK /\ slot'[g].obj = p /\ slot[g].obj \in {Null, p}
            /\ \A h \in Slots : h # g => slot'[h] = slot[h]
        BY <1>1, <1>10, <3>0
      <4> HIDE DEF Tables
      <4> QED
        BY <1>2, <1>4, <1>12, <4>1, InstallCount
    <3>2. Users(p) = {} /\ Unused(p) \ {g} = {}
      BY <1>10, <1>12, <3>0 DEF Users, Unused
    <3> QED
      BY <3>0, <3>1, <3>2, FS_EmptySet
  <2>8. OpenExact'
    BY <1>1, <1>2, <1>5, <1>6, <1>8, <1>9, <2>6, <2>7 DEF NodeInv, OpenExact
  <2>9. CallsOnNodes'
    BY <2>1 DEF CallsOnNodes
  <2> QED
    BY <2>3, <2>4, <2>5, <2>8, <2>9 DEF NodeInv
<1>14. FdInv'
  <2>2. slot' = slot /\ slot'[g].obj \in Open' /\ slot'[g].obj # Ring /\ Open \subseteq Open'
    BY <1>1, <1>2, <1>6, <1>9, <1>10
  <2> QED
    BY <1>2, <1>4, <1>12, <2>2, InstalledInv
<1> QED
  BY <1>3, <1>7, <1>11, <1>13, <1>14

-----------------------------------------------------------------------------
(* list_remove                                                              *)
Below(S, x) == {y \in S : y < x}
Bounded(S) == S \in SUBSET Nat /\ IsFiniteSet(S)

(* The number of smaller elements tells the elements of a set apart.        *)
LEMMA RankGrows ==
  ASSUME NEW S, Bounded(S), NEW x \in S, NEW z \in S, x < z
  PROVE  /\ Cardinality(Below(S, x)) \in Nat
         /\ Cardinality(Below(S, x)) < Cardinality(Below(S, z))
         /\ Cardinality(Below(S, z)) < Cardinality(S)
<1>1. /\ IsFiniteSet(Below(S, x)) /\ IsFiniteSet(Below(S, z)) /\ IsFiniteSet(S)
      /\ Below(S, x) \in SUBSET Below(S, z) /\ Below(S, z) \in SUBSET S
  <2>1. \A y \in S : y \in Nat
    BY DEF Bounded
  <2>2. Below(S, x) \in SUBSET Below(S, z)
    BY <2>1 DEF Below
  <2>3. Below(S, x) \in SUBSET S /\ Below(S, z) \in SUBSET S
    BY DEF Below
  <2> QED
    BY <2>2, <2>3, FS_Subset DEF Bounded
<1>2. /\ Cardinality(Below(S, x)) \in Nat /\ Cardinality(Below(S, z)) \in Nat
      /\ Cardinality(S) \in Nat
  BY <1>1, FS_CardinalityType
<1>3. Below(S, x) # Below(S, z) /\ Below(S, z) # S
  BY DEF Below, Bounded
<1>4. Cardinality(Below(S, x)) <= Cardinality(Below(S, z))
      /\ Cardinality(Below(S, z)) # Cardinality(Below(S, x))
  BY <1>1, <1>3, FS_Subset
<1>5. Cardinality(Below(S, z)) <= Cardinality(S) /\ Cardinality(S) # Cardinality(Below(S, z))
  BY <1>1, <1>3, FS_Subset
<1> QED
  BY <1>2, <1>4, <1>5

(* An element has fewer elements below it than there are.                   *)
LEMMA RankBound ==
  ASSUME NEW S, Bounded(S), NEW x \in S
  PROVE  Cardinality(Below(S, x)) \in 0 .. Cardinality(S) - 1
<1>1. IsFiniteSet(Below(S, x)) /\ IsFiniteSet(S) /\ Below(S, x) \in SUBSET S
  BY FS_Subset DEF Bounded, Below
<1>2. Cardinality(Below(S, x)) \in Nat /\ Cardinality(S) \in Nat
  BY <1>1, FS_CardinalityType
<1>3. Below(S, x) # S
  BY DEF Below, Bounded
<1>4. Cardinality(Below(S, x)) <= Cardinality(S) /\ Cardinality(S) # Cardinality(Below(S, x))
  BY <1>1, <1>3, FS_Subset
<1> QED
  BY <1>2, <1>4

(* Every rank below the number of elements is the rank of one.              *)
LEMMA RankExists ==
  ASSUME NEW S, Bounded(S), NEW k \in Nat, k < Cardinality(S)
  PROVE  \E x \in S : Cardinality(Below(S, x)) = k
<1> DEFINE Missing == {n \in Nat : n < Cardinality(S) /\ \A x \in S : Cardinality(Below(S, x)) # n}
<1>0. Cardinality(S) \in Nat
  BY FS_CardinalityType DEF Bounded
<1> SUFFICES ASSUME Missing # {} PROVE FALSE
  OBVIOUS
<1>1. PICK n \in Missing : \A j \in Missing : n <= j
  <2>1. Missing \in SUBSET Nat
    OBVIOUS
  <2> QED
    BY <2>1, LeastNumber
<1>2. CASE n = 0
  <2>1. S # {}
    BY <1>0, <1>1, <1>2, FS_EmptySet DEF Bounded
  <2>2. PICK x \in S : \A y \in S : x <= y
    BY <2>1, LeastNumber DEF Bounded
  <2>3. Below(S, x) = {}
    <3>1. \A y \in S : y \in Nat
      BY DEF Bounded
    <3>2. \A y \in S : ~(y < x)
      BY <2>2, <3>1
    <3> QED
      BY <3>2 DEF Below
  <2>4. Cardinality(Below(S, x)) = 0
    BY <2>3, FS_EmptySet
  <2> QED
    BY <1>1, <1>2, <2>2, <2>4
<1>3. CASE n # 0
  <2>1. n - 1 \in Nat /\ n - 1 < Cardinality(S) /\ n - 1 \notin Missing
    BY <1>0, <1>1, <1>3
  <2>2. PICK x \in S : Cardinality(Below(S, x)) = n - 1
    BY <2>1
  <2> DEFINE Above == {y \in S : y > x}
             upTo == Below(S, x) \cup {x}
  <2>3. IsFiniteSet(Below(S, x))
    BY FS_Subset DEF Bounded, Below
  <2>4. Cardinality(upTo) = n
    <3>1. x \notin Below(S, x)
      BY DEF Below, Bounded
    <3>2. Cardinality(upTo) = Cardinality(Below(S, x)) + 1
      BY <2>3, <3>1, FS_AddElement
    <3> QED
      BY <1>1, <2>2, <3>2
  <2>5. Above # {}
    <3> SUFFICES ASSUME Above = {} PROVE FALSE
      OBVIOUS
    <3>1. S = upTo
      <4>1. \A y \in S : y \in Nat
        BY DEF Bounded
      <4>2. \A y \in S : y < x \/ y = x
        BY <4>1
      <4> QED
        BY <4>2 DEF Below
    <3> QED
      BY <1>0, <1>1, <2>4, <3>1
  <2>6. Above \in SUBSET Nat
    BY DEF Bounded
  <2>7. PICK z \in Above : \A y \in Above : z <= y
    BY <2>5, <2>6, LeastNumber
  <2>8. Below(S, z) = upTo
    <3>1. \A y \in S : y \in Nat
      BY DEF Bounded
    <3>2. \A y \in S : y < z <=> y < x \/ y = x
      BY <2>7, <3>1
    <3> QED
      BY <3>2 DEF Below
  <2> QED
    BY <1>1, <2>4, <2>7, <2>8
<1> QED
  BY <1>2, <1>3

(* inode_close takes the inodes in S out of open_inodes and no others.      *)
LEMMA RemoveAllFacts ==
  ASSUME NEW list \in Seq(Objs), NEW S, \A i, j \in DOMAIN list : i # j => list[i] # list[j]
  PROVE  /\ RemoveAll(list, S) \in Seq(Objs)
         /\ ToSet(RemoveAll(list, S)) = ToSet(list) \ S
         /\ \A i, j \in DOMAIN RemoveAll(list, S) : i # j => RemoveAll(list, S)[i] # RemoveAll(list, S)[j]
<1> DEFINE keep == {i \in DOMAIN list : list[i] \notin S}
           k == Cardinality(keep)
           Nth(r) == CHOOSE i \in keep : Cardinality({j \in keep : j < i}) = r
           from == [i \in 1 .. k |-> Nth(i - 1)]
           new == [i \in 1 .. k |-> list[Nth(i - 1)]]
<1>1. Len(list) \in Nat /\ DOMAIN list = 1 .. Len(list) /\ \A i \in 1 .. Len(list) : list[i] \in Objs
  OBVIOUS
<1>2. Bounded(keep) /\ IsFiniteSet(keep) /\ k \in Nat
  <2>1. IsFiniteSet(1 .. Len(list)) /\ keep \in SUBSET (1 .. Len(list))
    BY <1>1, FS_Interval
  <2>2. IsFiniteSet(keep)
    BY <2>1, FS_Subset
  <2>3. keep \in SUBSET Nat
    BY <1>1, <2>1
  <2> HIDE DEF keep
  <2> QED
    BY <2>2, <2>3, FS_CardinalityType DEF Bounded
<1>3. RemoveAll(list, S) = new
  BY DEF RemoveAll
<1>4. \A i : i \in keep <=> i \in 1 .. Len(list) /\ list[i] \notin S
  BY <1>1
<1> HIDE DEF keep
<1>5. ASSUME NEW r \in Nat, r < k PROVE Nth(r) \in keep /\ Cardinality(Below(keep, Nth(r))) = r
  <2>1. \E i \in keep : Cardinality(Below(keep, i)) = r
    BY <1>2, <1>5, RankExists
  <2>2. \E i \in keep : Cardinality({j \in keep : j < i}) = r
    BY <2>1 DEF Below
  <2> QED
    BY <2>2 DEF Below
<1> HIDE DEF k, Nth
<1>6. \A i \in 1 .. k : i - 1 \in Nat /\ i - 1 < k
  BY <1>2
<1>7. \A i \in 1 .. k : from[i] = Nth(i - 1) /\ from[i] \in keep /\ new[i] = list[from[i]]
  BY <1>5, <1>6
<1>8. \A i, j \in 1 .. k : from[i] = from[j] => i = j
  <2> SUFFICES ASSUME NEW i \in 1 .. k, NEW j \in 1 .. k, from[i] = from[j] PROVE i = j
    OBVIOUS
  <2>1. Nth(i - 1) = Nth(j - 1)
    BY <1>7
  <2>2. i - 1 = j - 1
    BY <1>5, <1>6, <2>1
  <2> QED
    BY <2>2
<1>9. from \in [1 .. k -> keep] /\ DOMAIN new = 1 .. k
  BY <1>7
<1> HIDE DEF from
<1>10. \A i \in keep : \E j \in 1 .. k : from[j] = i
  <2>1. from \in Injection(1 .. k, keep)
    BY <1>8, <1>9 DEF Injection, IsInjective
  <2>2. IsFiniteSet(1 .. k) /\ Cardinality(1 .. k) = k
    BY <1>2, FS_Interval
  <2>3. Cardinality(1 .. k) = Cardinality(keep)
    BY <2>2 DEF k
  <2>4. from \in Surjection(1 .. k, keep)
    BY <1>2, <2>1, <2>2, <2>3, FS_Injection
  <2> QED
    BY <2>4 DEF Surjection
<1> HIDE DEF new
<1>11. new \in Seq(Objs)
  <2>1. \A i \in 1 .. k : new[i] \in Objs
    BY <1>1, <1>4, <1>7
  <2>2. new = [i \in 1 .. k |-> new[i]]
    BY DEF new
  <2>3. new \in [1 .. k -> Objs]
    BY <2>1, <2>2
  <2> QED
    BY <1>2, <2>3
<1>12. \A i, j \in DOMAIN new : i # j => new[i] # new[j]
  BY <1>1, <1>4, <1>7, <1>8, <1>9
<1>13. ASSUME NEW x PROVE x \in ToSet(new) <=> x \in ToSet(list) /\ x \notin S
  <2>1. x \in ToSet(new) <=> \E i \in 1 .. k : x = list[from[i]]
    BY <1>7, <1>9 DEF ToSet
  <2>2. x \in ToSet(list) <=> \E i \in 1 .. Len(list) : x = list[i]
    BY <1>1 DEF ToSet
  <2> QED
    BY <1>4, <1>7, <1>10, <2>1, <2>2
<1> QED
  BY <1>3, <1>11, <1>12, <1>13

-----------------------------------------------------------------------------
(* Closing the descriptors in F of task t                                   *)

Hit(t, F) == {fd[t][f] : f \in F}
With(t, F, o) == {f \in F : slot[fd[t][f]].obj = o}
Onto(t, F, g) == {f \in F : fd[t][f] = g}
Dropped(t, F, g) == {<<t, f>> : f \in Onto(t, F, g)}
Given(t) == {f \in Fds : fd[t][f] # Null}
Closed(t, F, o) == {<<t, f>> : f \in With(t, F, o)}

(* What a descriptor leads to.                                              *)
LEMMA GivenFacts ==
  ASSUME Tables, NEW u \in Tasks, NEW f \in Given(u)
  PROVE  /\ f \in Fds /\ fd[u][f] \in Slots
         /\ \/ slot[fd[u][f]].obj = Ring /\ slot[fd[u][f]].flag = "pipe"
            \/ slot[fd[u][f]].obj \in Open /\ slot[fd[u][f]].flag # "pipe"
<1>1. f \in Fds /\ fd[u][f] \in Slots /\ fd[u][f] # Null
  BY DEF Tables, TypesOK, Given
<1>2. slot[fd[u][f]].obj = Ring \/ slot[fd[u][f]].obj \in Open
  BY <1>1 DEF Tables, FdInv, FdsBacked
<1>3. Ring # Null /\ Ring \notin Open /\ Null \notin Open
  BY Kinds, OpenObjs
<1> QED
  BY <1>1, <1>2, <1>3 DEF Tables, NodeInv, SlotsBacked

(* The descriptors of a file are as many as its slots that are closed.      *)
(* A file's slot has no other descriptor than the one that is closed,       *)
(* unless the close frees the slot of another process.                      *)
LEMMA NotShared ==
  ASSUME Tables, NEW t \in Tasks, NEW F \in SUBSET Given(t), ~Shared(t, F),
         NEW f \in F, slot[fd[t][f]].obj # Ring, NEW x \in Tasks \X Fds, fd[x[1]][x[2]] = fd[t][f]
  PROVE  x = <<t, f>>
<1>1. f \in Given(t) /\ f \in Fds /\ fd[t][f] # Null /\ slot[fd[t][f]].flag # "pipe"
  BY GivenFacts DEF Given
<1>2. x \in {t} \X F
  <2> SUFFICES ASSUME x \notin {t} \X F PROVE FALSE
    OBVIOUS
  <2>1. x \in (Tasks \X Fds) \ ({t} \X F)
    OBVIOUS
  <2> QED
    BY <1>1, <2>1 DEF Shared
<1>3. x[1] = t /\ x[2] \in Fds /\ x = <<x[1], x[2]>>
  BY <1>2
<1>4. FdsDistinct
  BY DEF Tables, FdInv
<1>5. x[2] = f
  BY <1>1, <1>3, <1>4 DEF FdsDistinct
<1> QED
  BY <1>3, <1>5

(* The descriptors of a file that are closed, and what is left of it.       *)
LEMMA FileUses ==
  ASSUME Tables, NEW t \in Tasks, NEW F \in SUBSET Given(t), ~Shared(t, F), NEW o \in Objs
  PROVE  /\ Cardinality(With(t, F, o)) \in Nat
         /\ IsFiniteSet(Users(o) \ Closed(t, F, o)) /\ Cardinality(Users(o) \ Closed(t, F, o)) \in Nat
         /\ Cardinality(Users(o) \ Closed(t, F, o)) = Cardinality(Users(o)) - Cardinality(With(t, F, o))
         /\ Cardinality(With(t, F, o)) > 0 => o \in Open
         /\ Cardinality(With(t, F, o)) = 0 => Holders(o) \ Hit(t, F) = Holders(o)
         /\ Holders(o) \ Hit(t, F) = {} <=> Users(o) \ Closed(t, F, o) = {} /\ Unused(o) = {}
<1> DEFINE W == With(t, F, o)
           D == Closed(t, F, o)
           m == [f \in W |-> <<t, f>>]
<1>0. o # Ring
  BY Kinds
<1>1. \A f \in F : f \in Fds /\ fd[t][f] \in Slots /\ (slot[fd[t][f]].obj = o => o \in Open)
  <2>1. \A f \in F : f \in Given(t)
    OBVIOUS
  <2> QED
    BY <1>0, <2>1, GivenFacts
<1>2. \A f \in W : f \in F /\ slot[fd[t][f]].obj = o
  BY DEF With
<1>3. D \in SUBSET Users(o) /\ Users(o) \cap D = D
  BY <1>1, <1>2 DEF Closed, Users
<1>4. m \in Bijection(W, D)
  <2>1. \A f \in W : m[f] \in D
    BY DEF Closed
  <2>2. \A f, h \in W : m[f] = m[h] => f = h
    OBVIOUS
  <2>3. \A x \in D : \E f \in W : m[f] = x
    BY DEF Closed
  <2>4. m \in [W -> D]
    BY <2>1
  <2> HIDE DEF m, W, D
  <2> QED
    BY <2>2, <2>3, <2>4 DEF Bijection, Injection, Surjection, IsInjective
<1>5. IsFiniteSet(W)
  <2>1. W \in SUBSET Fds
    BY <1>1, <1>2
  <2> HIDE DEF W
  <2> QED
    BY <2>1, Finite, FS_Subset
<1>6. \A x \in Users(o) : x \in Tasks \X Fds /\ fd[x[1]][x[2]] \in Holders(o) /\ x \in Refs(fd[x[1]][x[2]])
  BY DEF Users, Holders, Refs
<1>7. \A x \in Users(o) : fd[x[1]][x[2]] \in Hit(t, F) => x \in D
  <2> SUFFICES ASSUME NEW x \in Users(o), NEW f \in F, fd[x[1]][x[2]] = fd[t][f] PROVE x \in D
    BY DEF Hit
  <2>1. slot[fd[t][f]].obj = o /\ x \in Tasks \X Fds
    BY <1>6 DEF Holders
  <2>2. x = <<t, f>>
    BY <1>0, <2>1, NotShared
  <2> QED
    BY <2>1, <2>2 DEF Closed, With
<1>8. \A g \in Holders(o) : g \in Hit(t, F) \/ g \in Unused(o) \/ \E x \in Users(o) \ D : fd[x[1]][x[2]] = g
  <2> SUFFICES ASSUME NEW g \in Holders(o), g \notin Hit(t, F), g \notin Unused(o)
               PROVE  \E x \in Users(o) \ D : fd[x[1]][x[2]] = g
    OBVIOUS
  <2>1. g \in Slots /\ slot[g].obj = o /\ Refs(g) # {}
    BY DEF Holders, Unused
  <2>2. PICK x \in Tasks \X Fds : fd[x[1]][x[2]] = g
    BY <2>1 DEF Refs
  <2>3. x \in Users(o)
    BY <2>1, <2>2 DEF Users
  <2>4. x \notin D
    <3> SUFFICES ASSUME NEW f \in W, x = <<t, f>> PROVE FALSE
      BY DEF Closed
    <3>1. fd[t][f] = g
      BY <2>2
    <3> QED
      BY <1>2, <3>1 DEF Hit
  <2> QED
    BY <2>2, <2>3, <2>4
<1>9. \A g \in Unused(o) : g \in Holders(o) /\ g \notin Hit(t, F)
  <2> SUFFICES ASSUME NEW f \in F, fd[t][f] \in Unused(o) PROVE FALSE
    BY DEF Unused, Holders, Hit
  <2>1. <<t, f>> \in Refs(fd[t][f])
    BY <1>1 DEF Refs
  <2> QED
    BY <2>1 DEF Unused
<1>10. Holders(o) \ Hit(t, F) = {} <=> Users(o) \ D = {} /\ Unused(o) = {}
  BY <1>6, <1>7, <1>8, <1>9
<1>11. W = {} => Holders(o) \ Hit(t, F) = Holders(o)
  BY <1>1 DEF With, Hit, Holders
<1>12. W # {} => o \in Open
  BY <1>1, <1>2
<1> HIDE DEF W, D, m
<1>13. Cardinality(D) = Cardinality(W) /\ Cardinality(W) \in Nat /\ (Cardinality(W) = 0 <=> W = {})
  <2>1. ExistsBijection(W, D)
    BY <1>4 DEF ExistsBijection
  <2> QED
    BY <1>5, <2>1, FS_Bijection, FS_CardinalityType, FS_EmptySet
<1>14. /\ IsFiniteSet(Users(o) \ D) /\ Cardinality(Users(o) \ D) \in Nat
       /\ Cardinality(Users(o) \ D) = Cardinality(Users(o)) - Cardinality(D)
  BY <1>3, CountFinite, FS_Difference, FS_CardinalityType
<1> QED
  BY <1>10, <1>11, <1>12, <1>13, <1>14 DEF W, D

(* The descriptors of a slot that are closed, and those that stay.          *)
LEMMA SlotUses ==
  ASSUME Tables, NEW t \in Tasks, NEW F \in SUBSET Given(t), NEW g \in Slots
  PROVE  /\ Cardinality(Onto(t, F, g)) \in Nat
         /\ Cardinality(Onto(t, F, g)) > 0 <=> g \in Hit(t, F)
         /\ Cardinality(Refs(g)) \in Nat
         /\ Cardinality(Refs(g) \ Dropped(t, F, g)) = Cardinality(Refs(g)) - Cardinality(Onto(t, F, g))
         /\ IsFiniteSet(Refs(g) \ Dropped(t, F, g)) /\ Cardinality(Refs(g) \ Dropped(t, F, g)) \in Nat
<1> DEFINE W == Onto(t, F, g)
           D == Dropped(t, F, g)
           m == [f \in W |-> <<t, f>>]
<1>1. W \in SUBSET Fds /\ IsFiniteSet(Refs(g))
  <2>1. Refs(g) \in SUBSET (Tasks \X Fds)
    BY DEF Refs
  <2> QED
    BY <2>1, Finite, FS_Subset DEF Onto, Given
<1>2. D \in SUBSET Refs(g) /\ Refs(g) \cap D = D
  BY <1>1 DEF Dropped, Refs, Onto
<1>3. m \in Bijection(W, D)
  <2>1. \A f \in W : m[f] \in D
    BY DEF Dropped
  <2>2. \A f, h \in W : m[f] = m[h] => f = h
    OBVIOUS
  <2>3. \A x \in D : \E f \in W : m[f] = x
    BY DEF Dropped
  <2>4. m \in [W -> D]
    BY <2>1
  <2> HIDE DEF m, W, D
  <2> QED
    BY <2>2, <2>3, <2>4 DEF Bijection, Injection, Surjection, IsInjective
<1>4. W # {} <=> g \in Hit(t, F)
  BY DEF Onto, Hit
<1> HIDE DEF m, W, D
<1>5. IsFiniteSet(W) /\ Cardinality(D) = Cardinality(W) /\ Cardinality(W) \in Nat /\ (Cardinality(W) = 0 <=> W = {})
  <2>1. ExistsBijection(W, D)
    BY <1>3 DEF ExistsBijection
  <2>2. IsFiniteSet(W)
    BY <1>1, Finite, FS_Subset
  <2> QED
    BY <2>1, <2>2, FS_Bijection, FS_CardinalityType, FS_EmptySet
<1>6. Cardinality(Refs(g) \ D) = Cardinality(Refs(g)) - Cardinality(D)
  BY <1>1, <1>2, FS_Difference
<1>7. Cardinality(Refs(g)) \in Nat /\ IsFiniteSet(Refs(g) \ D) /\ Cardinality(Refs(g) \ D) \in Nat
  BY <1>1, FS_CardinalityType, FS_Difference
<1> QED
  BY <1>4, <1>5, <1>6, <1>7 DEF W, D

(* file_table: a file's slot is freed, a pipe's when its count reaches 0.   *)
LEMMA CloseSlot ==
  ASSUME Tables, NEW t \in Tasks, NEW F \in SUBSET Given(t), CloseSlots(t, F), NEW g \in Slots
  PROVE  /\ slot'[g] \in SlotRecord
         /\ g \notin Hit(t, F) => slot'[g] = slot[g]
         /\ g \in Hit(t, F) /\ slot[g].flag # "pipe" => slot'[g].obj = Null
         /\ g \in Hit(t, F) /\ slot[g].flag = "pipe" =>
              /\ slot[g].obj = Ring /\ slot'[g].flag = "pipe"
              /\ slot'[g].pos >= Cardinality(Refs(g) \ Dropped(t, F, g))
              /\ slot'[g].obj = IF slot'[g].pos # 0 THEN Ring ELSE Null
<1> DEFINE n == Cardinality(Onto(t, F, g))
           left == IF slot[g].flag = "pipe" THEN slot[g].pos - n ELSE slot[g].pos
           obj == IF slot[g].flag = "pipe" /\ left # 0 THEN slot[g].obj ELSE Null
           r == [slot[g] EXCEPT !.pos = left, !.obj = obj]
<1>1. slot'[g] = IF n > 0 THEN r ELSE slot[g]
  BY DEF CloseSlots, Onto
<1>2. slot[g] \in SlotRecord
  BY DEF Tables, TypesOK
<1>3. n \in Nat /\ (n > 0 <=> g \in Hit(t, F))
  BY SlotUses
<1>4. g \in Hit(t, F) /\ slot[g].flag = "pipe" => slot[g].obj = Ring
  <2> SUFFICES ASSUME g \in Hit(t, F), slot[g].flag = "pipe" PROVE slot[g].obj = Ring
    OBVIOUS
  <2>1. PICK f \in F : fd[t][f] = g
    BY DEF Hit
  <2>2. f \in Given(t)
    OBVIOUS
  <2> QED
    BY <2>1, <2>2, GivenFacts
<1>5. g \in Hit(t, F) /\ slot[g].flag = "pipe" =>
        left \in Nat /\ left >= Cardinality(Refs(g) \ Dropped(t, F, g))
  <2> SUFFICES ASSUME g \in Hit(t, F), slot[g].flag = "pipe"
               PROVE  left \in Nat /\ left >= Cardinality(Refs(g) \ Dropped(t, F, g))
    OBVIOUS
  <2>1. slot[g].pos >= Cardinality(Refs(g)) /\ slot[g].pos \in Nat
    BY <1>2, <1>4 DEF Tables, FdInv, PipesCounted, SlotRecord
  <2>2. left = slot[g].pos - n
    OBVIOUS
  <2>3. /\ Cardinality(Refs(g)) \in Nat /\ Cardinality(Refs(g) \ Dropped(t, F, g)) \in Nat
        /\ Cardinality(Refs(g) \ Dropped(t, F, g)) = Cardinality(Refs(g)) - n
    BY SlotUses
  <2> HIDE DEF n, left
  <2> QED
    BY <1>3, <2>1, <2>2, <2>3
<1>6. g \in Hit(t, F) => left \in Nat
  BY <1>2, <1>5 DEF SlotRecord
<1>7. obj \in Objs \union {Null, Ring}
  BY <1>2 DEF SlotRecord
<1>8. slot[g].flag = "pipe" => obj = IF left # 0 THEN slot[g].obj ELSE Null
  OBVIOUS
<1>9. slot[g].flag # "pipe" => obj = Null
  OBVIOUS
<1> HIDE DEF left, obj, n
<1>10. g \in Hit(t, F) => r \in SlotRecord /\ r.pos = left /\ r.obj = obj /\ r.flag = slot[g].flag
  BY <1>2, <1>6, <1>7 DEF SlotRecord
<1> HIDE DEF r
<1>11. CASE g \notin Hit(t, F)
  BY <1>1, <1>2, <1>3, <1>11
<1>12. CASE g \in Hit(t, F)
  <2>1. slot'[g] = r
    BY <1>1, <1>3, <1>12
  <2> QED
    BY <1>4, <1>5, <1>8, <1>9, <1>10, <1>12, <2>1
<1> QED
  BY <1>11, <1>12

(* inode_close: the count goes down by the descriptors closed, and the      *)
(* inode goes with the last slot.                                           *)
LEMMA CloseNode ==
  ASSUME Tables, NEW t \in Tasks, NEW F \in SUBSET Given(t), ~Shared(t, F), CloseSlots(t, F)
  PROVE  /\ node' \in [Objs -> InodeRecord \union {Null}]
         /\ cache' \in Seq(Objs)
         /\ \A i, j \in DOMAIN cache' : i # j => cache'[i] # cache'[j]
         /\ Open' = {o \in Open : Holders(o) \ Hit(t, F) # {}}
         /\ \A o \in Objs : o \notin Open => node'[o] = node[o]
         /\ \A o \in Open : Holders(o) \ Hit(t, F) = {} => node'[o] = Null
         /\ \A o \in Open' :
              /\ node'[o] # Null /\ node'[o].no = node[o].no
              /\ node'[o].cnts = Cardinality(Users(o) \ Closed(t, F, o)) + Cardinality(Unused(o))
<1> DEFINE n(o) == Cardinality(With(t, F, o))
           rest(o) == Cardinality(Users(o) \ Closed(t, F, o)) + Cardinality(Unused(o))
           gone == {o \in Objs : n(o) > 0 /\ node[o].cnts = n(o)}
           less(o) == [node[o] EXCEPT !.cnts = @ - n(o), !.deny = FALSE]
<1>1. /\ node' = [o \in Objs |-> IF o \in gone THEN Null ELSE IF n(o) > 0 THEN less(o) ELSE node[o]]
      /\ cache' = RemoveAll(cache, gone)
  BY DEF CloseSlots, With
<1>2. \A o \in Objs : /\ n(o) \in Nat /\ rest(o) \in Nat
                      /\ Count(o) = rest(o) + n(o)
                      /\ n(o) > 0 => o \in Open
                      /\ n(o) = 0 => Holders(o) \ Hit(t, F) = Holders(o)
                      /\ Holders(o) \ Hit(t, F) = {} <=> rest(o) = 0
  <2> SUFFICES ASSUME NEW o \in Objs
               PROVE  /\ n(o) \in Nat /\ rest(o) \in Nat
                      /\ Count(o) = rest(o) + n(o)
                      /\ n(o) > 0 => o \in Open
                      /\ n(o) = 0 => Holders(o) \ Hit(t, F) = Holders(o)
                      /\ Holders(o) \ Hit(t, F) = {} <=> rest(o) = 0
    OBVIOUS
  <2> DEFINE U == Users(o) \ Closed(t, F, o)
  <2>1. /\ n(o) \in Nat /\ IsFiniteSet(U) /\ Cardinality(U) \in Nat
        /\ Cardinality(U) = Cardinality(Users(o)) - n(o)
        /\ n(o) > 0 => o \in Open
        /\ n(o) = 0 => Holders(o) \ Hit(t, F) = Holders(o)
        /\ Holders(o) \ Hit(t, F) = {} <=> U = {} /\ Unused(o) = {}
    BY FileUses
  <2>2. /\ IsFiniteSet(Unused(o)) /\ Cardinality(Unused(o)) \in Nat /\ Cardinality(Users(o)) \in Nat
    BY CountFinite
  <2>3. rest(o) = Cardinality(U) + Cardinality(Unused(o))
    OBVIOUS
  <2> HIDE DEF U, n, rest
  <2>4. (U = {} <=> Cardinality(U) = 0) /\ (Unused(o) = {} <=> Cardinality(Unused(o)) = 0)
    BY <2>1, <2>2, FS_EmptySet
  <2>5. Count(o) = rest(o) + n(o) /\ rest(o) \in Nat
    BY <2>1, <2>2, <2>3 DEF Count
  <2>6. rest(o) = 0 <=> Cardinality(U) = 0 /\ Cardinality(Unused(o)) = 0
    BY <2>1, <2>2, <2>3
  <2> QED
    BY <2>1, <2>4, <2>5, <2>6
<1>3. \A o \in Open : o \in Objs /\ node[o] # Null /\ node[o] \in InodeRecord /\ node[o].cnts = Count(o)
                      /\ Holders(o) # {}
  BY OpenObjs DEF Tables, NodeInv, OpenExact, NodesUsed
<1> HIDE DEF n, rest
<1>5. \A o \in Objs : o \in gone <=> o \in Open /\ Holders(o) \ Hit(t, F) = {}
  <2> SUFFICES ASSUME NEW o \in Objs PROVE o \in gone <=> o \in Open /\ Holders(o) \ Hit(t, F) = {}
    OBVIOUS
  <2>1. o \in gone => o \in Open /\ Holders(o) \ Hit(t, F) = {}
    BY <1>2, <1>3
  <2>2. ASSUME o \in Open, Holders(o) \ Hit(t, F) = {} PROVE o \in gone
    <3>1. n(o) \in Nat /\ n(o) # 0
      BY <1>2, <1>3, <2>2
    <3>2. node[o].cnts = n(o)
      BY <1>2, <1>3, <2>2
    <3> QED
      BY <3>1, <3>2
  <2> QED
    BY <2>1, <2>2
<1>6. \A o \in Open : less(o) \in InodeRecord /\ less(o).no = node[o].no /\ less(o).cnts = rest(o)
  <2> SUFFICES ASSUME NEW o \in Open
               PROVE  less(o) \in InodeRecord /\ less(o).no = node[o].no /\ less(o).cnts = rest(o)
    OBVIOUS
  <2>1. node[o].cnts - n(o) \in Nat /\ node[o].cnts - n(o) = rest(o) /\ node[o] \in InodeRecord
    BY <1>2, <1>3
  <2> QED
    BY <2>1 DEF InodeRecord
<1>7. /\ cache' \in Seq(Objs) /\ Open' = Open \ gone
      /\ \A i, j \in DOMAIN cache' : i # j => cache'[i] # cache'[j]
  <2> HIDE DEF gone
  <2>1. cache \in Seq(Objs) /\ \A i, j \in DOMAIN cache : i # j => cache[i] # cache[j]
    BY DEF Tables, TypesOK, NodeInv, CacheDistinct
  <2>2. /\ RemoveAll(cache, gone) \in Seq(Objs) /\ ToSet(RemoveAll(cache, gone)) = ToSet(cache) \ gone
        /\ \A i, j \in DOMAIN RemoveAll(cache, gone) :
             i # j => RemoveAll(cache, gone)[i] # RemoveAll(cache, gone)[j]
    BY <2>1, RemoveAllFacts
  <2>3. cache' = RemoveAll(cache, gone)
    BY <1>1
  <2>4. Open' = ToSet(cache')
    BY DEF Open
  <2> QED
    BY <2>2, <2>3, <2>4 DEF Open
<1> HIDE DEF gone, less
<1>8. \A o \in Objs : node'[o] = IF o \in gone THEN Null ELSE IF n(o) > 0 THEN less(o) ELSE node[o]
  BY <1>1
<1>9. \A o \in Objs : node[o] \in InodeRecord \union {Null}
  BY DEF Tables, TypesOK
<1>10. node' \in [Objs -> InodeRecord \union {Null}]
  <2>1. \A o \in Objs : node'[o] \in InodeRecord \union {Null}
    BY <1>2, <1>6, <1>8, <1>9
  <2> QED
    BY <1>1, <2>1
<1>11. Open' = {o \in Open : Holders(o) \ Hit(t, F) # {}}
  BY <1>3, <1>5, <1>7
<1>12. \A o \in Objs : o \notin Open => node'[o] = node[o]
  BY <1>2, <1>5, <1>8
<1>13. \A o \in Open : Holders(o) \ Hit(t, F) = {} => node'[o] = Null
  BY <1>3, <1>5, <1>8
<1>14. ASSUME NEW o \in Open'
       PROVE  node'[o] # Null /\ node'[o].no = node[o].no /\ node'[o].cnts = rest(o)
  <2>1. o \in Open /\ o \in Objs /\ o \notin gone
    BY <1>3, <1>5, <1>11, <1>14
  <2>2. CASE n(o) > 0
    BY <1>6, <1>8, <2>1, <2>2, Kinds
  <2>3. CASE ~(n(o) > 0)
    <3>1. n(o) = 0 /\ rest(o) \in Nat /\ Count(o) = rest(o) + n(o)
      BY <1>2, <2>1, <2>3
    <3>2. node'[o] = node[o]
      BY <1>8, <2>1, <2>3
    <3> QED
      BY <1>3, <2>1, <3>1, <3>2
  <2> QED
    BY <2>2, <2>3
<1> QED
  BY <1>7, <1>10, <1>11, <1>12, <1>13, <1>14 DEF rest

(* The slots and descriptors of an inode and the descriptors of a slot      *)
(* afterwards.                                                              *)
LEMMA CloseRest ==
  ASSUME Tables, NEW t \in Tasks, NEW F \in SUBSET Given(t), ~Shared(t, F), CloseSlots(t, F)
  PROVE  /\ fd' \in [Tasks -> [Fds -> Slots \union {Null}]]
         /\ \A u \in Tasks, f \in Fds : fd'[u][f] = IF u = t /\ f \in F THEN Null ELSE fd[u][f]
         /\ \A o \in Objs : Holders(o)' = Holders(o) \ Hit(t, F)
         /\ \A g \in Slots : Refs(g)' = Refs(g) \ Dropped(t, F, g)
         /\ \A o \in Objs : Users(o)' = Users(o) \ Closed(t, F, o) /\ Unused(o)' = Unused(o)
<1>1. fd' = [fd EXCEPT ![t] = [f \in Fds |-> IF f \in F THEN Null ELSE fd[t][f]]]
  BY DEF CloseSlots
<1>2. fd \in [Tasks -> [Fds -> Slots \union {Null}]]
  BY DEF Tables, TypesOK
<1>3. [f \in Fds |-> IF f \in F THEN Null ELSE fd[t][f]] \in [Fds -> Slots \union {Null}]
  BY <1>2
<1>4. fd' \in [Tasks -> [Fds -> Slots \union {Null}]]
  BY <1>1, <1>2, <1>3
<1>5. \A u \in Tasks, f \in Fds : fd'[u][f] = IF u = t /\ f \in F THEN Null ELSE fd[u][f]
  BY <1>1, <1>2
<1>6. \A o \in Objs, g \in Slots : slot'[g].obj = o <=> slot[g].obj = o /\ g \notin Hit(t, F)
  <2> SUFFICES ASSUME NEW o \in Objs, NEW g \in Slots
               PROVE  slot'[g].obj = o <=> slot[g].obj = o /\ g \notin Hit(t, F)
    OBVIOUS
  <2>1. o # Ring /\ o # Null
    BY Kinds
  <2>2. CASE g \notin Hit(t, F)
    BY <2>2, CloseSlot
  <2>3. CASE g \in Hit(t, F)
    <3>1. slot'[g].obj \in {Ring, Null}
      BY <2>3, CloseSlot
    <3> QED
      BY <2>1, <2>3, <3>1
  <2> QED
    BY <2>2, <2>3
<1>7. ASSUME NEW g \in Slots PROVE Refs(g)' = Refs(g) \ Dropped(t, F, g)
  <2>1. ASSUME NEW u \in Tasks, NEW f \in Fds
        PROVE  fd'[u][f] = g <=> fd[u][f] = g /\ <<u, f>> \notin Dropped(t, F, g)
    <3>1. <<u, f>> \in Dropped(t, F, g) <=> u = t /\ f \in F /\ fd[t][f] = g
      BY DEF Dropped, Onto
    <3>2. g # Null
      BY Kinds
    <3> QED
      BY <1>5, <3>1, <3>2
  <2>2. \A x \in Tasks \X Fds :
          fd'[x[1]][x[2]] = g <=> fd[x[1]][x[2]] = g /\ x \notin Dropped(t, F, g)
    BY <2>1
  <2> QED
    BY <2>2 DEF Refs
<1>8. ASSUME NEW o \in Objs PROVE Users(o)' = Users(o) \ Closed(t, F, o)
  <2>0. Null \notin Slots /\ o # Ring
    BY Kinds
  <2>1. ASSUME NEW x \in Tasks \X Fds PROVE x \in Users(o)' <=> x \in Users(o) /\ x \notin Closed(t, F, o)
    <3>1. x \in Users(o)' <=> fd'[x[1]][x[2]] \in Slots /\ slot'[fd'[x[1]][x[2]]].obj = o
      BY DEF Users
    <3>2. x \in Users(o) <=> fd[x[1]][x[2]] \in Slots /\ slot[fd[x[1]][x[2]]].obj = o
      BY DEF Users
    <3>3. x \in Closed(t, F, o) <=> x[1] = t /\ x[2] \in F /\ slot[fd[t][x[2]]].obj = o
      <4>1. x[1] \in Tasks /\ x[2] \in Fds /\ x = <<x[1], x[2]>>
        OBVIOUS
      <4>2. x \in Closed(t, F, o) <=> \E f \in F : slot[fd[t][f]].obj = o /\ x = <<t, f>>
        BY DEF Closed, With
      <4>3. \A f \in F : x = <<t, f>> <=> x[1] = t /\ x[2] = f
        BY <4>1
      <4> QED
        BY <4>2, <4>3
    <3>4. fd'[x[1]][x[2]] = IF x[1] = t /\ x[2] \in F THEN Null ELSE fd[x[1]][x[2]]
      BY <1>5
    <3>5. ASSUME x \in Users(o), fd[x[1]][x[2]] \in Hit(t, F) PROVE x \in Closed(t, F, o)
      <4>1. PICK f \in F : fd[x[1]][x[2]] = fd[t][f]
        BY <3>5 DEF Hit
      <4>2. slot[fd[t][f]].obj = o
        BY <3>2, <3>5, <4>1
      <4>3. x = <<t, f>>
        BY <2>0, <4>1, <4>2, NotShared
      <4> QED
        BY <3>3, <4>2, <4>3
    <3> QED
      BY <1>6, <2>0, <3>1, <3>2, <3>3, <3>4, <3>5
  <2>2. Users(o) \in SUBSET (Tasks \X Fds) /\ Users(o)' \in SUBSET (Tasks \X Fds)
    BY DEF Users
  <2> QED
    BY <2>1, <2>2
<1>9. ASSUME NEW o \in Objs PROVE Unused(o)' = Unused(o)
  <2>1. ASSUME NEW g \in Slots PROVE g \in Unused(o)' <=> g \in Unused(o)
    <3>1. g \in Unused(o)' <=> slot'[g].obj = o /\ Refs(g)' = {}
      BY DEF Unused
    <3>2. g \in Unused(o) <=> slot[g].obj = o /\ Refs(g) = {}
      BY DEF Unused
    <3>3. g \notin Hit(t, F) => Dropped(t, F, g) = {}
      BY DEF Dropped, Onto, Hit
    <3>4. Refs(g) = {} => g \notin Hit(t, F)
      <4> SUFFICES ASSUME NEW f \in F, fd[t][f] = g PROVE Refs(g) # {}
        BY DEF Hit
      <4>1. <<t, f>> \in Refs(g)
        BY DEF Refs, Given
      <4> QED
        BY <4>1
    <3> QED
      BY <1>6, <1>7, <3>1, <3>2, <3>3, <3>4
  <2>2. Unused(o) \in SUBSET Slots /\ Unused(o)' \in SUBSET Slots
    BY DEF Unused
  <2> QED
    BY <2>1, <2>2
<1>10. \A o \in Objs : Holders(o)' = Holders(o) \ Hit(t, F)
  BY <1>6 DEF Holders
<1> QED
  BY <1>4, <1>5, <1>7, <1>8, <1>9, <1>10

(* sys_close and release_prog_resource.                                     *)
LEMMA CloseInv ==
  ASSUME Tables, NEW t \in Tasks, NEW F \in SUBSET Given(t), ~Shared(t, F), CloseSlots(t, F),
         UNCHANGED <<dir, ibits, call>>
  PROVE  Tables'
<1> DEFINE H == Hit(t, F)
<1>1. /\ fd' \in [Tasks -> [Fds -> Slots \union {Null}]]
      /\ \A u \in Tasks, f \in Fds : fd'[u][f] = IF u = t /\ f \in F THEN Null ELSE fd[u][f]
      /\ \A o \in Objs : Holders(o)' = Holders(o) \ H
      /\ \A g \in Slots : Refs(g)' = Refs(g) \ Dropped(t, F, g)
      /\ \A o \in Objs : Users(o)' = Users(o) \ Closed(t, F, o) /\ Unused(o)' = Unused(o)
  BY CloseRest
<1>2. /\ node' \in [Objs -> InodeRecord \union {Null}]
      /\ cache' \in Seq(Objs)
      /\ \A i, j \in DOMAIN cache' : i # j => cache'[i] # cache'[j]
      /\ Open' = {o \in Open : Holders(o) \ H # {}}
      /\ \A o \in Objs : o \notin Open => node'[o] = node[o]
      /\ \A o \in Open : Holders(o) \ H = {} => node'[o] = Null
      /\ \A o \in Open' : /\ node'[o] # Null /\ node'[o].no = node[o].no
                          /\ node'[o].cnts = Cardinality(Users(o) \ Closed(t, F, o)) + Cardinality(Unused(o))
  BY CloseNode
<1>3. \A g \in Slots :
         /\ slot'[g] \in SlotRecord
         /\ g \notin H => slot'[g] = slot[g]
         /\ g \in H /\ slot[g].flag # "pipe" => slot'[g].obj = Null
         /\ g \in H /\ slot[g].flag = "pipe" =>
              /\ slot[g].obj = Ring /\ slot'[g].flag = "pipe"
              /\ slot'[g].pos >= Cardinality(Refs(g) \ Dropped(t, F, g))
              /\ slot'[g].obj = IF slot'[g].pos # 0 THEN Ring ELSE Null
  BY CloseSlot
<1>4. Ring \notin Objs /\ Null \notin Objs /\ Ring # Null /\ Null \notin Slots /\ Open \subseteq Objs
  BY Kinds, OpenObjs
<1>5. Open' \subseteq Open
  BY <1>2
<1>6. \A f \in F : f \in Fds /\ fd[t][f] \in Slots /\ (slot[fd[t][f]].obj = Ring \/ slot[fd[t][f]].obj \in Open)
  BY GivenFacts
<1>7. \A g \in H : g \in Slots /\ (slot[g].obj = Ring \/ slot[g].obj \in Open)
  BY <1>6 DEF Hit
<1> HIDE DEF H
<1> USE DEF Tables
<1>8. TypesOK'
  <2>1. slot' = [g \in Slots |-> slot'[g]]
    BY DEF CloseSlots
  <2>2. slot' \in [Slots -> SlotRecord]
    BY <1>3, <2>1
  <2> QED
    BY <1>1, <1>2, <2>2 DEF TypesOK
<1>9. OneWriter' /\ DirInv'
  BY DEF OneWriter, DirInv, EntriesUnique, EntriesMarked, MarksUsed, CallsOnDir, In
<1>10. NodeInv'
  <2>1. SlotsBacked'
    <3> SUFFICES ASSUME NEW g \in Slots, slot'[g].obj # Null
                 PROVE  /\ slot'[g].flag = "pipe" <=> slot'[g].obj = Ring
                        /\ slot'[g].obj \in Objs => node'[slot'[g].obj] # Null
      BY DEF SlotsBacked
    <3>1. CASE g \in H
      BY <1>3, <1>4, <3>1
    <3>2. CASE g \notin H
      <4>1. slot'[g] = slot[g]
        BY <1>3, <3>2
      <4>2. /\ slot[g].flag = "pipe" <=> slot[g].obj = Ring
            /\ slot[g].obj \in Objs => node[slot[g].obj] # Null
        BY <4>1 DEF NodeInv, SlotsBacked
      <4>3. ASSUME slot[g].obj \in Objs PROVE node'[slot[g].obj] # Null
        <5>1. CASE slot[g].obj \in Open
          <6>1. g \in Holders(slot[g].obj) \ H
            BY <3>2 DEF Holders
          <6>2. slot[g].obj \in Open'
            BY <1>2, <5>1, <6>1
          <6> QED
            BY <1>2, <6>2
        <5>2. CASE slot[g].obj \notin Open
          BY <1>2, <4>2, <4>3, <5>2
        <5> QED
          BY <5>1, <5>2
      <4> QED
        BY <4>1, <4>2, <4>3
    <3> QED
      BY <3>1, <3>2
  <2>2. \A o \in Objs : o \notin Open => Holders(o)' = Holders(o)
    BY <1>1, <1>4, <1>7 DEF Holders
  <2>3. NodesUsed'
    <3> SUFFICES ASSUME NEW o \in Objs, node'[o] # Null
                 PROVE  Holders(o)' # {} /\ (o \in Open' \/ \E u \in Tasks : Making(u)' /\ call'[u].obj = o)
      BY DEF NodesUsed
    <3>1. CASE o \in Open
      BY <1>1, <1>2, <3>1
    <3>2. CASE o \notin Open
      <4>1. node[o] # Null /\ Holders(o)' = Holders(o)
        BY <1>2, <2>2, <3>2
      <4>2. Holders(o) # {} /\ \E u \in Tasks : Making(u) /\ call[u].obj = o
        BY <3>2, <4>1 DEF NodeInv, NodesUsed
      <4> QED
        BY <4>1, <4>2 DEF Making
    <3> QED
      BY <3>1, <3>2
  <2>4. CacheDistinct'
    <3>1. ASSUME NEW o \in Open', NEW q \in Open', o # q PROVE node'[o].no # node'[q].no
      <4>1. o \in Open /\ q \in Open /\ node'[o].no = node[o].no /\ node'[q].no = node[q].no
        BY <1>2, <1>5, <3>1
      <4> QED
        BY <3>1, <4>1 DEF NodeInv, CacheDistinct
    <3>2. \A i, j \in DOMAIN cache' : i # j => cache'[i] # cache'[j]
      BY <1>2
    <3> QED
      BY <3>1, <3>2 DEF CacheDistinct
  <2>5. OpenExact'
    BY <1>1, <1>2, <1>4, <1>5 DEF NodeInv, OpenExact, Count
  <2>6. CallsOnNodes'
    <3>0. CallsOnNodes
      BY DEF NodeInv
    <3>1. ASSUME NEW u \in Tasks, In(u, "inode") PROVE Reading(u)'
      <4>1. Reading(u)
        BY <3>0, <3>1 DEF CallsOnNodes
      <4>2. call[u].obj \notin Open
        BY <4>1, OpenObjs DEF Reading
      <4> QED
        BY <1>2, <4>1, <4>2 DEF Reading
    <3>2. ASSUME NEW u \in Tasks, Making(u) PROVE Reserved(u)'
      <4>1. Reserved(u)
        BY <3>0, <3>2 DEF CallsOnNodes
      <4>2. PICK o \in Objs : o = call[u].obj
        BY <4>1 DEF Reserved
      <4>3. Holders(o)' = {call[u].slot} /\ node'[o] = node[o] /\ o \notin Open'
        BY <1>2, <1>5, <2>2, <4>1, <4>2 DEF Reserved
      <4>4. Holders(call[u].obj)' = {call[u].slot}
        BY <4>2, <4>3 DEF Holders
      <4>5. \A q \in Open' : node'[q].no # call[u].no
        BY <1>2, <1>5, <4>1 DEF Reserved
      <4>6. node'[call[u].obj] = [no |-> call[u].no, cnts |-> 0, deny |-> FALSE]
        BY <4>1, <4>2, <4>3 DEF Reserved
      <4>7. call[u].slot \in Slots /\ call[u].obj \in Objs \ Open'
        BY <4>1, <4>2, <4>3 DEF Reserved
      <4>8. call' = call
        OBVIOUS
      <4> HIDE DEF Tables
      <4> QED
        BY <4>4, <4>5, <4>6, <4>7, <4>8 DEF Reserved
    <3> QED
      BY <3>1, <3>2 DEF CallsOnNodes, In, Making
  <2> QED
    BY <2>1, <2>3, <2>4, <2>5, <2>6 DEF NodeInv
<1>11. ASSUME NEW u \in Tasks, NEW f \in Fds, fd'[u][f] # Null
       PROVE  /\ fd'[u][f] = fd[u][f] /\ fd[u][f] \in Slots /\ ~(u = t /\ f \in F)
              /\ slot'[fd[u][f]].obj = slot[fd[u][f]].obj
              /\ slot[fd[u][f]].obj = Ring \/ slot[fd[u][f]].obj \in Open'
  <2>1. fd'[u][f] = fd[u][f] /\ fd[u][f] \in Slots /\ ~(u = t /\ f \in F)
    BY <1>1, <1>11 DEF TypesOK
  <2>2. PICK g \in Slots : g = fd[u][f]
    BY <2>1
  <2>3. slot[g].obj = Ring \/ slot[g].obj \in Open
    BY <1>4, <2>2 DEF FdInv, FdsBacked
  <2>4. CASE g \notin H
    <3>1. slot'[g] = slot[g]
      BY <1>3, <2>4
    <3>2. ASSUME slot[g].obj \in Open PROVE slot[g].obj \in Open'
      <4>1. g \in Holders(slot[g].obj) \ H
        BY <2>4 DEF Holders
      <4> QED
        BY <1>2, <3>2, <4>1
    <3> QED
      BY <2>1, <2>2, <2>3, <3>1, <3>2
  <2>5. CASE g \in H
    <3>1. PICK h \in F : fd[t][h] = g
      BY <2>5 DEF H, Hit
    <3>2. slot[g].obj = Ring
      <4> SUFFICES ASSUME slot[g].obj # Ring PROVE FALSE
        OBVIOUS
      <4>1. ASSUME NEW x \in Tasks \X Fds, fd[x[1]][x[2]] = fd[t][h] PROVE x = <<t, h>>
        <5> HIDE DEF Tables
        <5> QED
          BY <2>2, <3>1, <4>1, NotShared
      <4>2. PICK x \in Tasks \X Fds : x = <<u, f>>
        OBVIOUS
      <4>3. fd[x[1]][x[2]] = fd[t][h] /\ x[1] = u /\ x[2] = f
        BY <2>2, <3>1, <4>2
      <4>4. x = <<t, h>>
        BY <4>1, <4>3
      <4>5. u = t /\ f = h
        BY <4>2, <4>4
      <4> QED
        BY <2>1, <4>5
    <3>3. slot[g].flag = "pipe"
      BY <1>4, <3>2 DEF NodeInv, SlotsBacked
    <3>4. <<u, f>> \in Refs(g) \ Dropped(t, F, g)
      BY <2>1, <2>2 DEF Refs, Dropped, Onto
    <3>5. Cardinality(Refs(g) \ Dropped(t, F, g)) \in Nat /\ Cardinality(Refs(g) \ Dropped(t, F, g)) # 0
      <4>1. IsFiniteSet(Refs(g) \ Dropped(t, F, g)) /\ Cardinality(Refs(g) \ Dropped(t, F, g)) \in Nat
        BY SlotUses
      <4> QED
        BY <3>4, <4>1, FS_EmptySet
    <3>6. slot'[g].pos # 0
      BY <1>3, <2>5, <3>3, <3>5
    <3>7. slot'[g].obj = Ring
      BY <1>3, <2>5, <3>3, <3>6
    <3> QED
      BY <2>1, <2>2, <3>2, <3>7
  <2> QED
    BY <2>4, <2>5
<1>12. FdsBacked'
  BY <1>11 DEF FdsBacked
<1>13. FdsDistinct'
  <2> SUFFICES ASSUME NEW u \in Tasks, NEW f \in Fds, NEW h \in Fds,
                      fd'[u][f] # Null, fd'[u][f] = fd'[u][h], slot'[fd'[u][f]].obj # Ring
               PROVE  f = h
    BY DEF FdsDistinct
  <2>1. fd[u][f] # Null /\ fd[u][f] = fd[u][h] /\ slot[fd[u][f]].obj # Ring
    BY <1>11
  <2> QED
    BY <2>1 DEF FdInv, FdsDistinct
<1>14. PipesCounted'
  <2> SUFFICES ASSUME NEW g \in Slots, slot'[g].obj = Ring PROVE slot'[g].pos >= Cardinality(Refs(g)')
    BY DEF PipesCounted
  <2>1. Refs(g)' = Refs(g) \ Dropped(t, F, g)
    BY <1>1
  <2>2. CASE g \in H
    BY <1>3, <1>4, <2>1, <2>2
  <2>3. CASE g \notin H
    <3>1. slot'[g] = slot[g] /\ Dropped(t, F, g) = {}
      BY <1>3, <2>3 DEF Dropped, Onto, H, Hit
    <3>2. Refs(g)' = Refs(g)
      BY <2>1, <3>1
    <3> QED
      BY <3>1, <3>2 DEF FdInv, PipesCounted
  <2> QED
    BY <2>2, <2>3
<1> QED
  BY <1>8, <1>9, <1>10, <1>12, <1>13, <1>14 DEF FdInv

(* sys_close                                                                *)
LEMMA CloseOne ==
  ASSUME Tables, NEW t \in Tasks, NEW f \in Fds, Close(t, f), ~raced'
  PROVE  Tables'
<1>1. {f} \in SUBSET Given(t) /\ ~Shared(t, {f}) /\ CloseSlots(t, {f}) /\ UNCHANGED <<dir, ibits, call>>
  BY DEF Close, Given
<1> QED
  BY <1>1, CloseInv

(* release_prog_resource                                                    *)
LEMMA ExitInv ==
  ASSUME Tables, NEW t \in Tasks, Exit(t), ~raced'
  PROVE  Tables'
<1>1. Given(t) \in SUBSET Given(t) /\ ~Shared(t, Given(t)) /\ CloseSlots(t, Given(t)) /\ UNCHANGED <<dir, ibits, call>>
  BY DEF Exit, Given
<1> QED
  BY <1>1, CloseInv

-----------------------------------------------------------------------------
(* Pipes                                                                    *)

(* Files are as they were when slots, inodes and calls differ in pipes only. *)
LEMMA PipesOnly ==
  ASSUME Tables, UNCHANGED <<node, cache, dir, ibits, call>>,
         slot' \in [Slots -> SlotRecord],
         \A g \in Slots : slot'[g] = slot[g] \/
            (slot'[g].obj = Ring /\ slot'[g].flag = "pipe" /\ slot[g].obj \in {Ring, Null}),
         fd' \in [Tasks -> [Fds -> Slots \union {Null}]],
         \A x \in Tasks \X Fds, g \in Slots :
            slot[g].obj \in Objs => (fd'[x[1]][x[2]] = g <=> fd[x[1]][x[2]] = g)
  PROVE  TypesOK' /\ OneWriter' /\ DirInv' /\ NodeInv'
<1> USE DEF Tables
<1>1. TypesOK' /\ OneWriter' /\ DirInv'
  BY DEF TypesOK, OneWriter, DirInv, EntriesUnique, EntriesMarked, MarksUsed, CallsOnDir, In
<1>2. Ring \notin Objs /\ Null \notin Objs /\ Ring # Null /\ Open' = Open /\ Open \subseteq Objs
  BY Kinds, OpenObjs DEF Open
<1>3. \A o \in Objs, g \in Slots : slot'[g].obj = o <=> slot[g].obj = o
  BY <1>2
<1>4. ASSUME NEW o \in Objs
      PROVE  Holders(o)' = Holders(o) /\ Count(o)' = Count(o)
  <2>1. Holders(o)' = Holders(o)
    BY <1>3 DEF Holders
  <2>2. Users(o)' = Users(o)
    <3>1. \A x \in Tasks \X Fds, g \in Slots :
            (fd'[x[1]][x[2]] = g /\ slot'[g].obj = o) <=> (fd[x[1]][x[2]] = g /\ slot[g].obj = o)
      BY <1>3
    <3> QED
      BY <3>1 DEF Users
  <2>3. Unused(o)' = Unused(o)
    <3>1. \A g \in Slots : slot[g].obj = o => Refs(g)' = Refs(g)
      BY DEF Refs
    <3> QED
      BY <1>3, <3>1 DEF Unused
  <2> QED
    BY <2>1, <2>2, <2>3 DEF Count
<1>5. SlotsBacked'
  BY <1>2 DEF NodeInv, SlotsBacked
<1>6. NodesUsed' /\ CacheDistinct' /\ OpenExact'
  <2>1. NodesUsed' /\ CacheDistinct'
    BY <1>2, <1>4 DEF NodeInv, NodesUsed, CacheDistinct, Making
  <2>2. OpenExact'
    BY <1>2, <1>4 DEF NodeInv, OpenExact
  <2> QED
    BY <2>1, <2>2
<1>7. CallsOnNodes'
  <2>0. CallsOnNodes
    BY DEF NodeInv
  <2>1. ASSUME NEW u \in Tasks, In(u, "inode") PROVE Reading(u)'
    BY <2>0, <2>1 DEF CallsOnNodes, Reading
  <2>2. ASSUME NEW u \in Tasks, Making(u) PROVE Reserved(u)'
    <3>1. Reserved(u) /\ call' = call /\ node' = node
      BY <2>0, <2>2 DEF CallsOnNodes
    <3>2. PICK o \in Objs : o = call[u].obj
      BY <3>1 DEF Reserved
    <3>3. Holders(o)' = {call[u].slot}
      BY <1>4, <3>1, <3>2 DEF Reserved
    <3>4. Holders(call[u].obj)' = {call[u].slot}
      BY <3>1, <3>2, <3>3 DEF Holders
    <3> HIDE DEF Tables
    <3> QED
      BY <1>2, <3>1, <3>4 DEF Reserved
  <2> QED
    BY <2>1, <2>2 DEF CallsOnNodes, In, Making
<1> QED
  BY <1>1, <1>5, <1>6, <1>7 DEF NodeInv

(* sys_pipe: two descriptors at most, and a count of 2.                     *)
LEMMA PipeInv ==
  ASSUME Tables, NEW t \in Tasks, Pipe(t)
  PROVE  Tables'
<1> DEFINE first == Min(FreeFds(t))
           ends == IF Cardinality(FreeFds(t)) < 2 THEN FreeFds(t) ELSE {first, Min(FreeFds(t) \ {first})}
           s == [obj |-> Ring, flag |-> "pipe", pos |-> 2]
<1>1. PICK g \in Slots : g = Min(FreeSlots) /\ slot[g].obj = Null
  <2>1. FreeSlots \in SUBSET Nat /\ FreeSlots # {}
    BY Kinds DEF FreeSlots, Pipe
  <2>2. Min(FreeSlots) \in FreeSlots
    BY <2>1, MinIn
  <2> QED
    BY <2>2 DEF FreeSlots
<1>2. /\ slot' = [slot EXCEPT ![g] = s]
      /\ fd' = [fd EXCEPT ![t] = [f \in Fds |-> IF f \in ends THEN g ELSE fd[t][f]]]
      /\ UNCHANGED <<node, cache, dir, ibits, call, alive>>
  BY <1>1 DEF Pipe
<1>4. ends \in SUBSET FreeFds(t) /\ IsFiniteSet(ends) /\ Cardinality(ends) <= 2 /\ Cardinality(ends) \in Nat
  <2>1. FreeFds(t) \in SUBSET Nat /\ FreeFds(t) \in SUBSET Fds
    BY Kinds DEF FreeFds
  <2>2. IsFiniteSet(FreeFds(t)) /\ Cardinality(FreeFds(t)) \in Nat
    BY <2>1, Finite, FS_Subset, FS_CardinalityType
  <2>3. CASE Cardinality(FreeFds(t)) < 2
    BY <2>2, <2>3
  <2>4. CASE ~(Cardinality(FreeFds(t)) < 2)
    <3>1. FreeFds(t) # {}
      BY <2>2, <2>4, FS_EmptySet
    <3>2. first \in FreeFds(t)
      BY <2>1, <3>1, MinIn
    <3> HIDE DEF first
    <3>3. FreeFds(t) \ {first} # {} /\ FreeFds(t) \ {first} \in SUBSET Nat
      <4>1. Cardinality(FreeFds(t) \ {first}) = Cardinality(FreeFds(t)) - 1
        BY <2>2, <3>2, FS_RemoveElement
      <4>2. Cardinality(FreeFds(t) \ {first}) # 0
        BY <2>2, <2>4, <4>1
      <4>3. FreeFds(t) \ {first} # {}
        <5> SUFFICES ASSUME FreeFds(t) \ {first} = {} PROVE FALSE
          OBVIOUS
        <5> QED
          BY <4>2, FS_EmptySet
      <4> QED
        BY <2>1, <4>3
    <3>4. Min(FreeFds(t) \ {first}) \in FreeFds(t) \ {first}
      BY <3>3, MinIn
    <3> DEFINE second == Min(FreeFds(t) \ {first})
    <3>5. ends = {first, second} /\ second \in FreeFds(t)
      BY <2>4, <3>4
    <3> HIDE DEF second, ends
    <3>6. IsFiniteSet({first}) /\ Cardinality({first}) = 1
      BY FS_Singleton
    <3>7. {first, second} = {first} \union {second}
      OBVIOUS
    <3>8. IsFiniteSet({first} \union {second}) /\ Cardinality({first} \union {second}) \in {1, 2}
      BY <3>6, FS_AddElement
    <3> QED
      BY <3>2, <3>5, <3>7, <3>8
  <2> QED
    BY <2>3, <2>4
<1> HIDE DEF ends
<1> USE DEF Tables
<1>5. s \in SlotRecord /\ s.obj = Ring /\ s.flag = "pipe" /\ s.pos = 2
  BY DEF SlotRecord
<1> HIDE DEF s
<1>6. /\ slot' \in [Slots -> SlotRecord] /\ slot'[g] = s
      /\ \A h \in Slots : h # g => slot'[h] = slot[h]
  BY <1>2, <1>5 DEF TypesOK
<1>7. \A f \in ends : f \in Fds /\ fd[t][f] = Null
  BY <1>4 DEF FreeFds
<1>8. fd' \in [Tasks -> [Fds -> Slots \union {Null}]]
  <2>1. [f \in Fds |-> IF f \in ends THEN g ELSE fd[t][f]] \in [Fds -> Slots \union {Null}]
    BY DEF TypesOK
  <2> QED
    BY <1>2, <2>1 DEF TypesOK
<1>9. \A u \in Tasks, f \in Fds : fd'[u][f] = IF u = t /\ f \in ends THEN g ELSE fd[u][f]
  BY <1>2 DEF TypesOK
<1>10. \A u \in Tasks, f \in Fds : fd[u][f] # g
  BY <1>1, FreeUnused
<1>11. TypesOK' /\ OneWriter' /\ DirInv' /\ NodeInv'
  <2>1. \A x \in Tasks \X Fds, h \in Slots :
          slot[h].obj \in Objs => (fd'[x[1]][x[2]] = h <=> fd[x[1]][x[2]] = h)
    <3>1. \A u \in Tasks, f \in Fds, h \in Slots : h # g => (fd'[u][f] = h <=> fd[u][f] = h)
      BY <1>7, <1>9, Kinds
    <3> QED
      BY <1>1, <3>1, Kinds
  <2>2. \A h \in Slots : slot'[h] = slot[h] \/
            (slot'[h].obj = Ring /\ slot'[h].flag = "pipe" /\ slot[h].obj \in {Ring, Null})
    BY <1>1, <1>5, <1>6
  <2> HIDE DEF Tables
  <2> QED
    BY <1>2, <1>6, <1>8, <2>1, <2>2, PipesOnly
<1>12. g # Null /\ Open' = Open
  BY <1>2, Kinds DEF Open
<1>13. FdsBacked'
  <2>1. \A u \in Tasks, f \in Fds : fd'[u][f] \in Slots \union {Null}
    BY <1>8
  <2>2. \A h \in Slots : h # g => slot'[h] = slot[h]
    BY <1>6
  <2> QED
    BY <1>5, <1>6, <1>9, <1>12, <2>1, <2>2 DEF FdInv, FdsBacked
<1>14. FdsDistinct'
  <2> SUFFICES ASSUME NEW u \in Tasks, NEW f \in Fds, NEW h \in Fds,
                      fd'[u][f] # Null, fd'[u][f] = fd'[u][h], slot'[fd'[u][f]].obj # Ring
               PROVE  f = h
    BY DEF FdsDistinct
  <2>1. fd'[u][f] # g
    BY <1>5, <1>6
  <2>2. fd'[u][f] = fd[u][f] /\ fd'[u][h] = fd[u][h]
    BY <1>9, <2>1
  <2>3. fd[u][f] \in Slots
    BY <2>2 DEF TypesOK
  <2>4. slot[fd[u][f]].obj # Ring
    BY <1>6, <2>1, <2>2, <2>3
  <2>5. FdsDistinct
    BY DEF FdInv
  <2> QED
    BY <2>2, <2>4, <2>5 DEF FdsDistinct
<1>15. PipesCounted'
  <2> SUFFICES ASSUME NEW h \in Slots, slot'[h].obj = Ring PROVE slot'[h].pos >= Cardinality(Refs(h)')
    BY DEF PipesCounted
  <2>1. CASE h = g
    <3> DEFINE m == [x \in Refs(g)' |-> x[2]]
    <3>1. \A x \in Refs(g)' : x = <<t, x[2]>> /\ x[2] \in ends
      <4> SUFFICES ASSUME NEW u \in Tasks, NEW f \in Fds, fd'[u][f] = g PROVE u = t /\ f \in ends
        BY DEF Refs
      <4> QED
        BY <1>9, <1>10
    <3>2. m \in Injection(Refs(g)', ends)
      <4>1. m \in [Refs(g)' -> ends]
        BY <3>1
      <4>2. \A x, y \in Refs(g)' : m[x] = m[y] => x = y
        BY <3>1
      <4> QED
        BY <4>1, <4>2 DEF Injection, IsInjective
    <3> HIDE DEF m
    <3>3. Cardinality(Refs(g)') <= Cardinality(ends) /\ IsFiniteSet(Refs(g)')
      BY <1>4, <3>2, FS_Injection
    <3>4. Cardinality(Refs(g)') \in Nat
      BY <3>3, FS_CardinalityType
    <3> QED
      BY <1>4, <1>5, <1>6, <2>1, <3>3, <3>4
  <2>2. CASE h # g
    <3>1. \A u \in Tasks, f \in Fds : fd'[u][f] = h <=> fd[u][f] = h
      BY <1>7, <1>9, <2>2, Kinds
    <3>2. \A x \in Tasks \X Fds : fd'[x[1]][x[2]] = h <=> fd[x[1]][x[2]] = h
      BY <3>1
    <3>3. Refs(h)' = Refs(h)
      BY <3>2 DEF Refs
    <3> QED
      BY <1>6, <2>2, <3>3 DEF FdInv, PipesCounted
  <2> QED
    BY <2>1, <2>2
<1> QED
  BY <1>11, <1>13, <1>14, <1>15 DEF FdInv

-----------------------------------------------------------------------------
(* fork                                                                     *)

Copies(t, c, o) == {<<c, f>> : f \in With(t, Given(t), o)}

(* What the child's descriptors lead to is counted once for each.           *)
LEMMA CopiesCounted ==
  ASSUME Tables, NEW t \in Tasks, NEW c \in Tasks, NEW o
  PROVE  /\ IsFiniteSet(With(t, Given(t), o)) /\ Cardinality(With(t, Given(t), o)) \in Nat
         /\ IsFiniteSet(Copies(t, c, o))
         /\ Cardinality(Copies(t, c, o)) = Cardinality(With(t, Given(t), o))
<1> DEFINE W == With(t, Given(t), o)
           D == Copies(t, c, o)
           m == [f \in W |-> <<c, f>>]
<1>1. IsFiniteSet(W) /\ Cardinality(W) \in Nat
  <2>1. W \in SUBSET Fds
    BY DEF With, Given
  <2> QED
    BY <2>1, Finite, FS_Subset, FS_CardinalityType
<1>2. m \in Bijection(W, D)
  <2>1. \A f \in W : m[f] \in D
    BY DEF Copies
  <2>2. \A f, h \in W : m[f] = m[h] => f = h
    OBVIOUS
  <2>3. \A x \in D : \E f \in W : m[f] = x
    BY DEF Copies
  <2>4. m \in [W -> D]
    BY <2>1
  <2> HIDE DEF m, W, D
  <2> QED
    BY <2>2, <2>3, <2>4 DEF Bijection, Injection, Surjection, IsInjective
<1> HIDE DEF m, W, D
<1>3. ExistsBijection(W, D)
  BY <1>2 DEF ExistsBijection
<1>4. IsFiniteSet(D) /\ Cardinality(D) = Cardinality(W)
  BY <1>1, <1>3, FS_Bijection
<1> QED
  BY <1>1, <1>4 DEF W, D

(* The slots keep what they hold; a pipe counts the child's descriptors.    *)
LEMMA ForkSlots ==
  ASSUME Tables, NEW t \in Tasks, CountPipes(t)
  PROVE  /\ slot' \in [Slots -> SlotRecord]
         /\ \A g \in Slots : /\ slot'[g].obj = slot[g].obj /\ slot'[g].flag = slot[g].flag
                             /\ IsFiniteSet(Onto(t, Given(t), g)) /\ Cardinality(Onto(t, Given(t), g)) \in Nat
                             /\ slot[g].flag = "pipe" =>
                                  slot'[g].pos = slot[g].pos + Cardinality(Onto(t, Given(t), g))
<1> DEFINE n(g) == Cardinality({f \in Fds : fd[t][f] = g})
           r(g) == [slot[g] EXCEPT !.pos = @ + n(g)]
<1>1. slot' = [g \in Slots |-> IF slot[g].flag = "pipe" THEN r(g) ELSE slot[g]]
  BY DEF CountPipes
<1>2. \A g \in Slots : Onto(t, Given(t), g) = {f \in Fds : fd[t][f] = g}
  BY Kinds DEF Onto, Given
<1>3. \A g \in Slots : IsFiniteSet(Onto(t, Given(t), g)) /\ n(g) = Cardinality(Onto(t, Given(t), g)) /\ n(g) \in Nat
  <2>1. \A g \in Slots : {f \in Fds : fd[t][f] = g} \in SUBSET Fds
    OBVIOUS
  <2> QED
    BY <1>2, <2>1, Finite, FS_Subset, FS_CardinalityType
<1>4. \A g \in Slots : /\ slot[g] \in SlotRecord /\ r(g) \in SlotRecord
                       /\ r(g).obj = slot[g].obj /\ r(g).flag = slot[g].flag /\ r(g).pos = slot[g].pos + n(g)
  <2> SUFFICES ASSUME NEW g \in Slots
               PROVE  /\ slot[g] \in SlotRecord /\ r(g) \in SlotRecord
                      /\ r(g).obj = slot[g].obj /\ r(g).flag = slot[g].flag /\ r(g).pos = slot[g].pos + n(g)
    OBVIOUS
  <2>1. slot[g] \in SlotRecord /\ n(g) \in Nat
    BY <1>3 DEF Tables, TypesOK
  <2> HIDE DEF n
  <2>2. slot[g].pos + n(g) \in Nat
    BY <2>1 DEF SlotRecord
  <2> QED
    BY <2>1, <2>2 DEF SlotRecord
<1> HIDE DEF r, n
<1> QED
  BY <1>1, <1>3, <1>4

(* The inodes count the child's descriptors; those that are not open stay.  *)
LEMMA ForkNodes ==
  ASSUME Tables, NEW t \in Tasks, CountFiles(t)
  PROVE  /\ node' \in [Objs -> InodeRecord \union {Null}]
         /\ \A o \in Objs :
              /\ o \notin Open => node'[o] = node[o]
              /\ node'[o] = Null <=> node[o] = Null
              /\ o \in Open => /\ node'[o].no = node[o].no
                               /\ node'[o].cnts = node[o].cnts + Cardinality(With(t, Given(t), o))
<1> DEFINE n(o) == Cardinality({f \in Fds : fd[t][f] # Null /\ slot[fd[t][f]].obj = o})
           r(o) == [node[o] EXCEPT !.cnts = @ + n(o)]
<1>1. node' = [o \in Objs |-> IF node[o] = Null THEN Null ELSE r(o)]
  BY DEF CountFiles
<1>2. \A o \in Objs : {f \in Fds : fd[t][f] # Null /\ slot[fd[t][f]].obj = o} = With(t, Given(t), o)
  BY DEF With, Given
<1>3. \A o \in Objs : n(o) \in Nat /\ n(o) = Cardinality(With(t, Given(t), o))
  BY <1>2, CopiesCounted
<1>4. \A o \in Objs : o \notin Open => n(o) = 0
  <2> SUFFICES ASSUME NEW o \in Objs, o \notin Open PROVE n(o) = 0
    OBVIOUS
  <2>1. With(t, Given(t), o) = {}
    BY GivenFacts, Kinds DEF With
  <2>2. n(o) = Cardinality(With(t, Given(t), o))
    BY <1>3
  <2> HIDE DEF n
  <2> QED
    BY <2>1, <2>2, FS_EmptySet
<1> HIDE DEF n
<1>5. ASSUME NEW o \in Objs, node[o] # Null
      PROVE  /\ node[o] \in InodeRecord /\ r(o) \in InodeRecord /\ r(o).no = node[o].no
             /\ r(o).cnts = node[o].cnts + n(o) /\ (n(o) = 0 => r(o) = node[o])
  <2>1. node[o] \in InodeRecord /\ n(o) \in Nat
    BY <1>3, <1>5 DEF Tables, TypesOK
  <2>2. node[o].cnts + n(o) \in Nat
    BY <2>1 DEF InodeRecord
  <2>3. n(o) = 0 => node[o].cnts + n(o) = node[o].cnts
    BY <2>1 DEF InodeRecord
  <2> QED
    BY <2>1, <2>2, <2>3 DEF InodeRecord
<1>6. \A o \in Open : o \in Objs /\ node[o] # Null
  BY OpenObjs
<1> HIDE DEF r
<1>7. node' \in [Objs -> InodeRecord \union {Null}]
  BY <1>1, <1>5
<1>8. \A o \in Objs : node'[o] = IF node[o] = Null THEN Null ELSE r(o)
  BY <1>1
<1>9. \A o \in Objs : r(o) # Null \/ node[o] = Null
  BY <1>5, Kinds
<1> QED
  BY <1>3, <1>4, <1>5, <1>6, <1>7, <1>8, <1>9

(* fork: the child gets every descriptor of its parent, and each counts.    *)
LEMMA ForkInv ==
  ASSUME Tables, AliveOnly, NEW t \in Tasks, NEW c \in Tasks, Fork(t, c)
  PROVE  Tables'
<1>1. /\ fd' = [fd EXCEPT ![c] = fd[t]] /\ UNCHANGED <<cache, dir, ibits, call>>
      /\ CountPipes(t) /\ CountFiles(t) /\ c \notin alive
  BY DEF Fork
<1>2. /\ slot' \in [Slots -> SlotRecord]
      /\ \A g \in Slots : /\ slot'[g].obj = slot[g].obj /\ slot'[g].flag = slot[g].flag
                          /\ IsFiniteSet(Onto(t, Given(t), g)) /\ Cardinality(Onto(t, Given(t), g)) \in Nat
                          /\ slot[g].flag = "pipe" =>
                               slot'[g].pos = slot[g].pos + Cardinality(Onto(t, Given(t), g))
  BY <1>1, ForkSlots
<1>3. /\ node' \in [Objs -> InodeRecord \union {Null}]
      /\ \A o \in Objs :
           /\ o \notin Open => node'[o] = node[o]
           /\ node'[o] = Null <=> node[o] = Null
           /\ o \in Open => /\ node'[o].no = node[o].no
                            /\ node'[o].cnts = node[o].cnts + Cardinality(With(t, Given(t), o))
  BY <1>1, ForkNodes
<1>4. Open \subseteq Objs /\ Open' = Open /\ Null \notin Slots /\ Null \notin Objs /\ Ring \notin Objs
  BY <1>1, OpenObjs, Kinds DEF Open
<1> USE DEF Tables
<1>5. /\ fd' \in [Tasks -> [Fds -> Slots \union {Null}]]
      /\ \A u \in Tasks, f \in Fds : fd'[u][f] = IF u = c THEN fd[t][f] ELSE fd[u][f]
      /\ \A f \in Fds : fd[c][f] = Null
  BY <1>1 DEF TypesOK, AliveOnly
<1>6. TypesOK' /\ OneWriter' /\ DirInv'
  BY <1>1, <1>2, <1>3, <1>5
     DEF TypesOK, OneWriter, DirInv, EntriesUnique, EntriesMarked, MarksUsed, CallsOnDir, In
<1>7. ASSUME NEW o \in Objs
      PROVE  /\ Holders(o)' = Holders(o) /\ Unused(o)' = Unused(o)
             /\ Cardinality(Users(o)') = Cardinality(Users(o)) + Cardinality(With(t, Given(t), o))
  <2>1. Holders(o)' = Holders(o)
    BY <1>2 DEF Holders
  <2>2. \A g \in Slots : Refs(g)' = {} <=> Refs(g) = {}
    <3> SUFFICES ASSUME NEW g \in Slots PROVE Refs(g)' = {} <=> Refs(g) = {}
      OBVIOUS
    <3>1. ASSUME NEW u \in Tasks, NEW f \in Fds, fd[u][f] = g PROVE <<u, f>> \in Refs(g)'
      <4>1. fd'[u][f] = g
        BY <1>4, <1>5, <3>1
      <4> QED
        BY <4>1 DEF Refs
    <3>2. ASSUME NEW u \in Tasks, NEW f \in Fds, fd'[u][f] = g PROVE Refs(g) # {}
      <4>1. PICK v \in Tasks : fd[v][f] = g
        BY <1>5, <3>2
      <4>2. <<v, f>> \in Refs(g)
        BY <4>1 DEF Refs
      <4> QED
        BY <4>2
    <3> QED
      BY <3>1, <3>2 DEF Refs
  <2>3. Unused(o)' = Unused(o)
    BY <1>2, <2>2 DEF Unused
  <2> DEFINE D == Copies(t, c, o)
  <2>4. Users(o)' = Users(o) \union D
    <3>1. \A u \in Tasks, f \in Fds : <<u, f>> \in Users(o)' <=> (<<u, f>> \in Users(o) \/ <<u, f>> \in D)
      <4> SUFFICES ASSUME NEW u \in Tasks, NEW f \in Fds
                   PROVE  <<u, f>> \in Users(o)' <=> (<<u, f>> \in Users(o) \/ <<u, f>> \in D)
        OBVIOUS
      <4>1. <<u, f>> \in Users(o)' <=> \E g \in Slots : fd'[u][f] = g /\ slot[g].obj = o
        BY <1>2 DEF Users
      <4>2. <<u, f>> \in Users(o) <=> \E g \in Slots : fd[u][f] = g /\ slot[g].obj = o
        BY DEF Users
      <4>3. <<u, f>> \in D <=> u = c /\ \E g \in Slots : fd[t][f] = g /\ slot[g].obj = o
        <5>1. \A h \in Fds : h \in With(t, Given(t), o) <=> \E g \in Slots : fd[t][h] = g /\ slot[g].obj = o
          BY <1>4 DEF With, Given, TypesOK
        <5>2. <<u, f>> \in D <=> u = c /\ f \in With(t, Given(t), o)
          BY DEF Copies
        <5> QED
          BY <5>1, <5>2
      <4> QED
        BY <1>4, <1>5, <4>1, <4>2, <4>3
    <3>2. D \in SUBSET (Tasks \X Fds)
      BY DEF Copies, With, Given
    <3> HIDE DEF D
    <3>3. Users(o)' \in SUBSET (Tasks \X Fds) /\ Users(o) \in SUBSET (Tasks \X Fds)
      BY DEF Users
    <3> QED
      BY <3>1, <3>2, <3>3
  <2>5. Users(o) \cap D = {}
    <3>1. \A f \in Fds : <<c, f>> \notin Users(o)
      BY <1>4, <1>5 DEF Users
    <3> QED
      BY <3>1 DEF Copies, With, Given
  <2>6. IsFiniteSet(Users(o)) /\ Cardinality(Users(o)) \in Nat
    <3>1. Users(o) \in SUBSET (Tasks \X Fds)
      BY DEF Users
    <3> QED
      BY <3>1, Finite, FS_Subset, FS_CardinalityType
  <2> HIDE DEF D, Tables
  <2>7. /\ IsFiniteSet(D) /\ Cardinality(D) = Cardinality(With(t, Given(t), o)) /\ Cardinality(D) \in Nat
    BY CopiesCounted DEF D
  <2>8. Cardinality(Users(o) \union D) = Cardinality(Users(o)) + Cardinality(D) - Cardinality(Users(o) \cap D)
    BY <2>6, <2>7, FS_Union
  <2>9. Cardinality(Users(o) \cap D) = 0
    BY <2>5, FS_EmptySet
  <2> QED
    BY <2>1, <2>3, <2>4, <2>6, <2>7, <2>8, <2>9
<1>8. SlotsBacked'
  BY <1>2, <1>3 DEF NodeInv, SlotsBacked
<1>9. NodesUsed'
  BY <1>1, <1>3, <1>4, <1>7 DEF NodeInv, NodesUsed, Making
<1>10. CacheDistinct'
  <2>1. \A o \in Open : node'[o].no = node[o].no
    BY <1>3, <1>4
  <2> QED
    BY <1>1, <1>4, <2>1 DEF NodeInv, CacheDistinct
<1>11. OpenExact'
  <2> SUFFICES ASSUME NEW o \in Open
               PROVE  /\ node'[o] # Null /\ node'[o].cnts = Count(o)'
                      /\ \E e \in dir : e[2] = node'[o].no /\ e[3] = "file"
    BY <1>1, <1>4 DEF OpenExact
  <2>1. o \in Objs /\ node[o] # Null /\ node[o].cnts = Count(o) /\ \E e \in dir : e[2] = node[o].no /\ e[3] = "file"
    BY <1>4 DEF NodeInv, OpenExact
  <2>2. Cardinality(Users(o)) \in Nat /\ Cardinality(Unused(o)) \in Nat /\ Cardinality(With(t, Given(t), o)) \in Nat
    <3>1. Users(o) \in SUBSET (Tasks \X Fds) /\ Unused(o) \in SUBSET Slots
      BY DEF Users, Unused
    <3> HIDE DEF Tables
    <3> QED
      BY <3>1, Finite, CopiesCounted, FS_Subset, FS_CardinalityType
  <2>3. Count(o)' = Cardinality(Users(o)') + Cardinality(Unused(o)')
    BY DEF Count
  <2>4. Cardinality(Users(o)') = Cardinality(Users(o)) + Cardinality(With(t, Given(t), o)) /\ Unused(o)' = Unused(o)
    BY <1>7, <2>1
  <2>5. node'[o].cnts = Count(o)'
    BY <1>3, <2>1, <2>2, <2>3, <2>4 DEF Count
  <2> QED
    BY <1>3, <2>1, <2>5
<1>12. CallsOnNodes'
  <2>0. CallsOnNodes
    BY DEF NodeInv
  <2>1. ASSUME NEW u \in Tasks, In(u, "inode") PROVE Reading(u)'
    BY <1>1, <1>3, <2>0, <2>1 DEF CallsOnNodes, Reading
  <2>2. ASSUME NEW u \in Tasks, Making(u) PROVE Reserved(u)'
    <3>1. Reserved(u) /\ call' = call
      BY <1>1, <2>0, <2>2 DEF CallsOnNodes
    <3>2. PICK o \in Objs : o = call[u].obj
      BY <3>1 DEF Reserved
    <3>3. Holders(o)' = {call[u].slot} /\ node'[o] = node[o]
      BY <1>3, <1>7, <3>1, <3>2 DEF Reserved
    <3>4. Holders(call[u].obj)' = {call[u].slot}
      BY <3>1, <3>2, <3>3 DEF Holders
    <3>5. \A q \in Open : node'[q].no = node[q].no
      BY <1>3, <1>4
    <3> HIDE DEF Tables
    <3> QED
      BY <1>4, <3>1, <3>2, <3>3, <3>4, <3>5 DEF Reserved
  <2> QED
    BY <1>1, <2>1, <2>2 DEF CallsOnNodes, In, Making
<1>13. FdsBacked'
  <2> SUFFICES ASSUME NEW u \in Tasks, NEW f \in Fds, fd'[u][f] # Null
               PROVE  slot'[fd'[u][f]].obj = Ring \/ slot'[fd'[u][f]].obj \in Open'
    BY DEF FdsBacked
  <2>1. PICK v \in Tasks : fd'[u][f] = fd[v][f] /\ fd[v][f] \in Slots
    BY <1>5
  <2>2. slot[fd[v][f]].obj = Ring \/ slot[fd[v][f]].obj \in Open
    BY <2>1 DEF FdInv, FdsBacked
  <2> QED
    BY <1>2, <1>4, <2>1, <2>2
<1>14. FdsDistinct'
  <2> SUFFICES ASSUME NEW u \in Tasks, NEW f \in Fds, NEW h \in Fds,
                      fd'[u][f] # Null, fd'[u][f] = fd'[u][h], slot'[fd'[u][f]].obj # Ring
               PROVE  f = h
    BY DEF FdsDistinct
  <2>1. PICK v \in Tasks : fd'[u][f] = fd[v][f] /\ fd'[u][h] = fd[v][h] /\ fd[v][f] \in Slots
    BY <1>5
  <2>2. slot[fd[v][f]].obj # Ring /\ fd[v][f] # Null /\ fd[v][f] = fd[v][h]
    BY <1>2, <2>1
  <2> QED
    BY <2>2 DEF FdInv, FdsDistinct
<1>15. PipesCounted'
  <2> SUFFICES ASSUME NEW g \in Slots, slot'[g].obj = Ring PROVE slot'[g].pos >= Cardinality(Refs(g)')
    BY DEF PipesCounted
  <2> DEFINE W == Onto(t, Given(t), g)
             D == {<<c, f>> : f \in W}
             m == [f \in W |-> <<c, f>>]
  <2>1. Refs(g)' \in SUBSET (Refs(g) \union D)
    <3>1. \A u \in Tasks, f \in Fds : fd'[u][f] = g => fd[u][f] = g \/ (u = c /\ f \in W)
      BY <1>4, <1>5 DEF Onto, Given
    <3> QED
      BY <3>1 DEF Refs
  <2>2. IsFiniteSet(W) /\ Cardinality(W) \in Nat
    BY <1>2
  <2>3. IsFiniteSet(D) /\ Cardinality(D) = Cardinality(W)
    <3>1. m \in Bijection(W, D)
      <4>1. \A f \in W : m[f] \in D
        OBVIOUS
      <4>2. \A f, h \in W : m[f] = m[h] => f = h
        OBVIOUS
      <4>3. \A x \in D : \E f \in W : m[f] = x
        OBVIOUS
      <4>4. m \in [W -> D]
        BY <4>1
      <4> HIDE DEF m, W, D
      <4> QED
        BY <4>2, <4>3, <4>4 DEF Bijection, Injection, Surjection, IsInjective
    <3> HIDE DEF m, W, D
    <3>2. ExistsBijection(W, D)
      BY <3>1 DEF ExistsBijection
    <3> QED
      BY <2>2, <3>2, FS_Bijection
  <2>4. IsFiniteSet(Refs(g))
    <3>1. Refs(g) \in SUBSET (Tasks \X Fds)
      BY DEF Refs
    <3> QED
      BY <3>1, Finite, FS_Subset
  <2>5. slot[g].obj = Ring /\ slot[g].pos >= Cardinality(Refs(g)) /\ slot[g].pos \in Nat
    <3>1. slot[g].obj = Ring /\ slot[g].pos >= Cardinality(Refs(g))
      BY <1>2 DEF FdInv, PipesCounted
    <3>2. slot[g] \in SlotRecord
      BY DEF TypesOK
    <3> QED
      BY <3>1, <3>2 DEF SlotRecord
  <2>6. slot'[g].pos = slot[g].pos + Cardinality(W)
    <3>1. slot[g].flag = "pipe"
      BY <2>5, Kinds DEF NodeInv, SlotsBacked
    <3> QED
      BY <1>2, <3>1
  <2> HIDE DEF W, D, Tables
  <2>7. /\ IsFiniteSet(Refs(g) \union D)
        /\ Cardinality(Refs(g) \union D) = Cardinality(Refs(g)) + Cardinality(D) - Cardinality(Refs(g) \cap D)
    BY <2>3, <2>4, FS_Union
  <2>8. Cardinality(Refs(g)) \in Nat /\ Cardinality(Refs(g) \cap D) \in Nat
    BY <2>3, <2>4, FS_CardinalityType, FS_Intersection
  <2>9. /\ IsFiniteSet(Refs(g)') /\ Cardinality(Refs(g)') <= Cardinality(Refs(g) \union D)
    BY <2>1, <2>7, FS_Subset
  <2>10. Cardinality(Refs(g)') \in Nat
    BY <2>9, FS_CardinalityType
  <2> QED
    BY <2>2, <2>3, <2>5, <2>6, <2>7, <2>8, <2>9, <2>10
<1> QED
  BY <1>6, <1>8, <1>9, <1>10, <1>11, <1>12, <1>13, <1>14, <1>15 DEF NodeInv, FdInv

-----------------------------------------------------------------------------
(* Every step                                                               *)

Only(t) == \A u \in Tasks : u # t => call'[u] = call[u] /\ fd'[u] = fd[u]

(* A step changes the call and the descriptors of one task.                 *)
LEMMA OnlyOne ==
  ASSUME TypesOK, NEW t \in Tasks, Step(t), \A c \in Tasks : ~Fork(t, c), ~Exit(t)
  PROVE  call[t] # Null \/ (t \in alive /\ Only(t) /\ alive' = alive)
<1>1. \A g : Install(t, g) => \A u \in Tasks : u # t => fd'[u] = fd[u]
  BY DEF Install, TypesOK
<1>2. Return(t) => \A u \in Tasks : u # t => call'[u] = call[u]
  BY DEF Return, TypesOK
<1>3. ASSUME NEW pc, NEW op, NEW name, NEW flag, NEW no, NEW g, NEW o, Waits(t, pc, op, name, flag, no, g, o)
      PROVE  \A u \in Tasks : u # t => call'[u] = call[u]
  BY <1>3 DEF Waits, TypesOK
<1>4. ASSUME NEW g, NEW o, NEW n, NEW flag, FinishOpen(t, g, o, n, flag)
      PROVE  Only(t)
  BY <1>1, <1>2, <1>4 DEF FinishOpen, Only
<1>5. ASSUME NEW F \in SUBSET Fds, CloseSlots(t, F)
      PROVE  \A u \in Tasks : u # t => fd'[u] = fd[u]
  BY <1>5 DEF CloseSlots, TypesOK
<1>6. ASSUME NEW name \in Names, NEW flag \in {"r", "w"}, NEW no \in Inodes, OpenFound(t, name, flag, no)
      PROVE  t \in alive /\ Only(t) /\ alive' = alive
  BY <1>3, <1>4, <1>6 DEF OpenFound, Ready, Only
<1>7. ASSUME OpenRead(t) \/ CreateFailed(t) \/ MkdirFailed(t) \/ Created(t) \/ MkdirDone(t)
             \/ (\E op \in {"create", "mkdir"} : EntryWritten(t, op))
             \/ (\E op \in {"unlink", "rmdir"} : Released(t, op))
      PROVE  call[t] # Null
  BY <1>7 DEF OpenRead, CreateFailed, MkdirFailed, Created, MkdirDone, EntryWritten, Released, At
<1>8. ASSUME NEW name \in Names, Create(t, name) \/ Mkdir(t, name)
      PROVE  t \in alive /\ Only(t) /\ alive' = alive
  BY <1>3, <1>8 DEF Create, Mkdir, Ready, Only
<1>9. ASSUME NEW name \in Names, NoInode(t, name)
      PROVE  t \in alive /\ Only(t) /\ alive' = alive
  BY <1>9 DEF NoInode, Ready, Only
<1>10. ASSUME NEW name \in Names, NEW no \in Inodes, Unlink(t, name, no) \/ Rmdir(t, name, no)
       PROVE  t \in alive /\ Only(t) /\ alive' = alive
  BY <1>3, <1>10 DEF Unlink, Rmdir, Ready, Only
<1>11. ASSUME NEW f \in Fds, Close(t, f)
       PROVE  t \in alive /\ Only(t) /\ alive' = alive
  BY <1>5, <1>11 DEF Close, Ready, Only
<1>12. ASSUME Pipe(t)
       PROVE  t \in alive /\ Only(t) /\ alive' = alive
  BY <1>12 DEF Pipe, Ready, Only, TypesOK
<1> DEFINE P == call[t] # Null \/ (t \in alive /\ Only(t) /\ alive' = alive)
<1>13. \A name \in Names, flag \in {"r", "w"}, no \in Inodes : OpenFound(t, name, flag, no) => P
  BY <1>6
<1>14. \A name \in Names : Create(t, name) \/ Mkdir(t, name) \/ NoInode(t, name) => P
  BY <1>8, <1>9
<1>15. \A name \in Names, no \in Inodes : Unlink(t, name, no) \/ Rmdir(t, name, no) => P
  BY <1>10
<1>16. (\E f \in Fds : Close(t, f)) \/ Pipe(t) => P
  BY <1>11, <1>12
<1> HIDE DEF P
<1>17. P
  BY <1>13, <1>14, <1>15, <1>16, <1>7 DEF Step, P
<1> QED
  BY <1>17 DEF P

(* A call that waits for the disk changes what is its own, too.             *)
LEMMA OnlyWaiting ==
  ASSUME TypesOK, NEW t \in Tasks, Step(t), call[t] # Null
  PROVE  Only(t) /\ alive' = alive
<1>1. \A g : Install(t, g) => \A u \in Tasks : u # t => fd'[u] = fd[u]
  BY DEF Install, TypesOK
<1>2. Return(t) => \A u \in Tasks : u # t => call'[u] = call[u]
  BY DEF Return, TypesOK
<1>3. ASSUME NEW g, NEW o, NEW n, NEW flag, FinishOpen(t, g, o, n, flag)
      PROVE  Only(t)
  BY <1>1, <1>2, <1>3 DEF FinishOpen, Only
<1>4. CASE OpenRead(t)
  BY <1>3, <1>4 DEF OpenRead
<1>5. CASE CreateFailed(t) \/ MkdirFailed(t) \/ MkdirDone(t)
  BY <1>2, <1>5 DEF CreateFailed, MkdirFailed, MkdirDone, Only
<1>6. CASE Created(t)
  BY <1>1, <1>2, <1>6 DEF Created, Only
<1>7. ASSUME NEW op \in {"create", "mkdir"}, EntryWritten(t, op)
      PROVE  Only(t) /\ alive' = alive
  BY <1>7 DEF EntryWritten, Only, TypesOK
<1>8. ASSUME NEW op \in {"unlink", "rmdir"}, Released(t, op)
      PROVE  Only(t) /\ alive' = alive
  BY <1>2, <1>8 DEF Released, Only
<1> QED
  BY <1>4, <1>5, <1>6, <1>7, <1>8
     DEF Step, Ready, OpenFound, Create, Mkdir, NoInode, Unlink, Rmdir, Close, Pipe, Fork, Exit

(* What is not a task has no call and no descriptors after a step, either.  *)
LEMMA AliveInv ==
  ASSUME Tables, AliveOnly, NEW t \in Tasks, Step(t)
  PROVE  AliveOnly'
<1>0. TypesOK
  BY DEF Tables
<1>1. CASE \E c \in Tasks : Fork(t, c)
  <2>1. PICK c \in Tasks : Fork(t, c)
    BY <1>1
  <2>2. alive' = alive \union {c} /\ call' = call /\ \A u \in Tasks : u # c => fd'[u] = fd[u]
    BY <1>0, <2>1 DEF Fork, TypesOK
  <2> QED
    BY <2>2 DEF AliveOnly
<1>2. CASE Exit(t)
  <2> DEFINE F == {f \in Fds : fd[t][f] # Null}
  <2>1. /\ alive' = alive \ {t} /\ call' = call /\ call[t] = Null
        /\ fd' = [fd EXCEPT ![t] = [f \in Fds |-> IF f \in F THEN Null ELSE fd[t][f]]]
    BY <1>2 DEF Exit, Ready, CloseSlots
  <2>2. \A u \in Tasks : u # t => fd'[u] = fd[u]
    BY <1>0, <2>1 DEF TypesOK
  <2>3. \A f \in Fds : fd'[t][f] = Null
    BY <1>0, <2>1 DEF TypesOK
  <2> QED
    BY <2>1, <2>2, <2>3 DEF AliveOnly
<1>3. CASE ~Exit(t) /\ \A c \in Tasks : ~Fork(t, c)
  <2>1. t \in alive /\ Only(t) /\ alive' = alive
    BY <1>0, <1>3, OnlyOne, OnlyWaiting DEF AliveOnly
  <2> QED
    BY <2>1 DEF AliveOnly, Only
<1> QED
  BY <1>1, <1>2, <1>3

(* Nothing depends on halted.                                               *)
LEMMA TablesKept ==
  ASSUME Tables, UNCHANGED <<slot, node, cache, dir, ibits, fd, call>>
  PROVE  Tables'
<1> USE DEF Tables
<1>1. TypesOK' /\ OneWriter' /\ DirInv'
  BY DEF TypesOK, OneWriter, DirInv, EntriesUnique, EntriesMarked, MarksUsed, CallsOnDir, In
<1>2. SlotsBacked' /\ CacheDistinct'
  BY DEF NodeInv, SlotsBacked, CacheDistinct, Open
<1>3. OpenExact'
  BY CountKept DEF NodeInv, OpenExact, Open
<1>4. NodesUsed' /\ CallsOnNodes'
  BY DEF NodeInv, NodesUsed, CallsOnNodes, Open, Holders, In, Making, Reading, Reserved
<1>5. FdInv'
  BY FdsKept
<1> QED
  BY <1>1, <1>2, <1>3, <1>4, <1>5 DEF NodeInv

(* No step takes back that one was unprotected.                             *)
LEMMA RacedStays ==
  ASSUME NEW t \in Tasks, Step(t), ~raced'
  PROVE  ~raced
<1> SUFFICES ASSUME raced PROVE raced'
  OBVIOUS
<1>1. ASSUME NEW name \in Names, NEW flag \in {"r", "w"}, NEW no \in Inodes, OpenFound(t, name, flag, no)
      PROVE  raced'
  BY <1>1 DEF OpenFound
<1>2. ASSUME NEW name \in Names, Create(t, name) \/ Mkdir(t, name) \/ NoInode(t, name)
      PROVE  raced'
  BY <1>2 DEF Create, Mkdir, NoInode
<1>3. ASSUME NEW name \in Names, NEW no \in Inodes, Unlink(t, name, no) \/ Rmdir(t, name, no)
      PROVE  raced'
  BY <1>3 DEF Unlink, Rmdir
<1>4. ASSUME \/ OpenRead(t) \/ CreateFailed(t) \/ MkdirFailed(t) \/ Created(t) \/ MkdirDone(t)
             \/ \E op \in {"create", "mkdir"} : EntryWritten(t, op)
             \/ \E op \in {"unlink", "rmdir"} : Released(t, op)
      PROVE  raced'
  BY <1>4 DEF OpenRead, CreateFailed, MkdirFailed, Created, MkdirDone, EntryWritten, Released
<1>5. ASSUME \/ \E f \in Fds : Close(t, f)
             \/ Pipe(t) \/ Exit(t)
             \/ \E c \in Tasks : Fork(t, c)
      PROVE  raced'
  BY <1>5 DEF Close, Pipe, Exit, Fork
<1> QED
  BY <1>1, <1>2, <1>3, <1>4, <1>5 DEF Step

(* A protected step keeps the tables.                                       *)
LEMMA StepTables ==
  ASSUME Tables, AliveOnly, NEW t \in Tasks, Step(t), ~raced'
  PROVE  Tables'
<1>1. ASSUME NEW name \in Names, NEW flag \in {"r", "w"}, NEW no \in Inodes, OpenFound(t, name, flag, no)
      PROVE  Tables'
  BY <1>1, OpenFoundInv
<1>2. ASSUME OpenRead(t) \/ (\E name \in Names : Create(t, name)) \/ CreateFailed(t) \/ Created(t)
      PROVE  Tables'
  BY <1>2, OpenReadInv, CreateInv, CreateFailedInv, CreatedInv
<1>3. ASSUME (\E name \in Names : Mkdir(t, name)) \/ MkdirFailed(t) \/ MkdirDone(t)
      PROVE  Tables'
  BY <1>3, MkdirInv, MkdirFailedInv, MkdirDoneInv
<1>4. ASSUME NEW name \in Names, NoInode(t, name)
      PROVE  Tables'
  BY <1>4, TablesKept DEF NoInode
<1>5. ASSUME NEW op \in {"create", "mkdir"}, EntryWritten(t, op)
      PROVE  Tables'
  BY <1>5, EntryWrittenInv
<1>6. ASSUME NEW op \in {"unlink", "rmdir"}, Released(t, op)
      PROVE  Tables'
  BY <1>6, ReleasedInv
<1>7. ASSUME NEW name \in Names, NEW no \in Inodes, Unlink(t, name, no) \/ Rmdir(t, name, no)
      PROVE  Tables'
  BY <1>7, UnlinkInv, RmdirInv
<1>8. ASSUME (\E f \in Fds : Close(t, f)) \/ Pipe(t) \/ (\E c \in Tasks : Fork(t, c)) \/ Exit(t)
      PROVE  Tables'
  BY <1>8, CloseOne, PipeInv, ForkInv, ExitInv
<1> QED
  BY <1>1, <1>2, <1>3, <1>4, <1>5, <1>6, <1>7, <1>8 DEF Step

(* The invariant is inductive.                                              *)
LEMMA StepInv ==
  ASSUME FilesInv, [Next]_vars
  PROVE  FilesInv'
<1> SUFFICES ASSUME ~raced' PROVE Tables' /\ AliveOnly'
  BY DEF FilesInv
<1>1. CASE UNCHANGED vars
  <2>1. UNCHANGED <<slot, node, cache, dir, ibits, fd, call, alive>> /\ Tables /\ AliveOnly
    BY <1>1 DEF vars, FilesInv
  <2>2. Tables'
    BY <2>1, TablesKept
  <2>3. AliveOnly'
    BY <2>1 DEF AliveOnly
  <2> QED
    BY <2>2, <2>3
<1>2. ASSUME NEW t \in Tasks, Step(t) PROVE Tables' /\ AliveOnly'
  <2>1. Tables /\ AliveOnly
    BY <1>2, RacedStays DEF FilesInv
  <2> QED
    BY <1>2, <2>1, StepTables, AliveInv
<1> QED
  BY <1>1, <1>2 DEF Next, PanicSpin

-----------------------------------------------------------------------------
(* The theorems                                                             *)

(* Until an unprotected step, file_table, open_inodes, the directory, the   *)
(* inode bitmap, the descriptors and the calls that wait for the disk agree. *)
THEOREM FilesConsistent == Spec => []FilesInv
<1>1. Init => FilesInv
  BY InitInv
<1>2. FilesInv /\ [Next]_vars => FilesInv'
  BY StepInv
<1> QED
  BY <1>1, <1>2, PTL DEF Spec

(* sys_read and sys_write: what a descriptor leads to is open.              *)
THEOREM DescriptorsBacked == Spec => []FdBacked
<1>1. FilesInv => FdBacked
  <2> SUFFICES ASSUME Tables, NEW t \in Tasks, NEW f \in Fds, fd[t][f] # Null
               PROVE  /\ slot[fd[t][f]].obj # Null
                      /\ slot[fd[t][f]].flag = "pipe" <=> slot[fd[t][f]].obj = Ring
                      /\ slot[fd[t][f]].obj \in Objs =>
                           node[slot[fd[t][f]].obj] # Null /\ slot[fd[t][f]].obj \in ToSet(cache)
    BY DEF FdBacked, FilesInv
  <2>1. f \in Given(t)
    BY DEF Given
  <2>2. Ring \notin Objs /\ Null \notin Objs /\ Ring # Null
    BY Kinds
  <2> QED
    BY <2>1, <2>2, GivenFacts, OpenObjs DEF Open
<1> QED
  BY <1>1, FilesConsistent, PTL

(* inode_open, inode_close and update_inode_open_cnts: one inode per        *)
(* number, counted exactly, and a pipe counts all its descriptors.          *)
THEOREM CountsAreExact == Spec => []CountsExact
<1>1. FilesInv => CountsExact
  <2> SUFFICES ASSUME Tables
               PROVE  /\ \A i, j \in 1 .. Len(cache) : i # j => node[cache[i]].no # node[cache[j]].no
                      /\ \A o \in ToSet(cache) : node[o].cnts = Cardinality(Users(o)) + Cardinality(Unused(o))
                      /\ \A g \in Slots : slot[g].obj = Ring => slot[g].pos >= Cardinality(Refs(g))
    BY DEF CountsExact, FilesInv
  <2>1. cache \in Seq(Objs) /\ DOMAIN cache = 1 .. Len(cache)
    BY DEF Tables, TypesOK
  <2>2. ASSUME NEW i \in 1 .. Len(cache), NEW j \in 1 .. Len(cache), i # j
        PROVE  node[cache[i]].no # node[cache[j]].no
    <3>1. cache[i] # cache[j] /\ cache[i] \in Open /\ cache[j] \in Open
      BY <2>1, <2>2 DEF Tables, NodeInv, CacheDistinct, Open, ToSet
    <3> QED
      BY <3>1 DEF Tables, NodeInv, CacheDistinct
  <2>3. \A o \in ToSet(cache) : node[o].cnts = Cardinality(Users(o)) + Cardinality(Unused(o))
    BY DEF Tables, NodeInv, OpenExact, Open, Count
  <2>4. \A g \in Slots : slot[g].obj = Ring => slot[g].pos >= Cardinality(Refs(g))
    BY DEF Tables, FdInv, PipesCounted
  <2> QED
    BY <2>2, <2>3, <2>4
<1> QED
  BY <1>1, FilesConsistent, PTL

(* file_create, sys_mkdir, sys_unlink and sys_rmdir: names and numbers have *)
(* one entry, open files keep theirs, and between calls no number is lost.  *)
THEOREM DirectoryIsExact == Spec => []DirectoryExact
<1>1. FilesInv => DirectoryExact
  <2> SUFFICES ASSUME Tables
               PROVE  /\ \A e1, e2 \in dir : e1 # e2 => e1[1] # e2[1] /\ e1[2] # e2[2]
                      /\ \A e \in dir : e[2] \in ibits
                      /\ \A o \in ToSet(cache) : node[o].no \in ibits /\ \E e \in dir : e[2] = node[o].no
                      /\ (\A t \in Tasks : call[t] = Null) => \A no \in ibits : \E e \in dir : e[2] = no
    BY DEF DirectoryExact, FilesInv
  <2>1. EntriesUnique /\ EntriesMarked /\ MarksUsed
    BY DEF Tables, DirInv
  <2>2. \A o \in ToSet(cache) : node[o].no \in ibits /\ \E e \in dir : e[2] = node[o].no
    BY <2>1 DEF Tables, NodeInv, OpenExact, Open, EntriesMarked
  <2>3. (\A t \in Tasks : call[t] = Null) => \A no \in ibits : \E e \in dir : e[2] = no
    BY <2>1 DEF MarksUsed, In
  <2> QED
    BY <2>1, <2>2, <2>3 DEF EntriesUnique, EntriesMarked
<1> QED
  BY <1>1, FilesConsistent, PTL

=============================================================================
