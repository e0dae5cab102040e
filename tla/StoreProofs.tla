----------------------------- MODULE StoreProofs ----------------------------
(***************************************************************************)
(* The files of Store keep their blocks to themselves through a loss of    *)
(* power between any two sector writes, for any number of names, inodes    *)
(* and blocks and any sizes, and nothing leaks without one.  The           *)
(* invariants speak of a call that is under way: what is on the disk       *)
(* already and what is still to be written.                                *)
(***************************************************************************)
EXTENDS Store, FiniteSetTheorems, SequenceTheorems, TLAPS

IndexType == [1 .. NIndirect -> 0 .. NBlocks]

(* What is on the disk, what is in memory, a file, a sector write.          *)
DiskType(d) ==
    /\ d = [entry |-> d.entry, rootSize |-> d.rootSize, table |-> d.table,
            ibits |-> d.ibits, bbits |-> d.bbits, data |-> d.data]
    /\ d.entry \in [Names -> 0 .. NFiles] /\ d.rootSize \in Int
    /\ d.table \in [Inos -> InodeType]
    /\ d.ibits \in SUBSET Inos /\ d.bbits \in SUBSET Blocks
    /\ d.data = [b \in Blocks |-> d.data[b]]
    /\ \A b \in Blocks : d.data[b].index \in IndexType
MemType(m) ==
    /\ m = [rootSize |-> m.rootSize, ibits |-> m.ibits, bbits |-> m.bbits]
    /\ m.rootSize \in Int /\ m.ibits \in SUBSET Inos /\ m.bbits \in SUBSET Blocks
FileType(f) ==
    /\ f = [no |-> f.no, inode |-> f.inode, pos |-> f.pos, ink |-> f.ink]
    /\ f.no \in Inos /\ f.inode \in InodeType /\ f.ink \in Names
WriteType(w) ==
    \/ w.to = "entry" /\ w.at \in Names /\ w.val \in 0 .. NFiles
    \/ w.to = "root" /\ w.val \in Int
    \/ w.to = "inode" /\ w.at \in Inos /\ w.val \in InodeType
    \/ w.to = "ibits" /\ w.val \in SUBSET Inos
    \/ w.to = "bbits" /\ w.val \in SUBSET Blocks
    \/ w.to = "cells" /\ w.at \in 0 .. NBlocks
    \/ w.to = "index" /\ w.at \in 0 .. NBlocks /\ w.val \in IndexType
IsSeq(s) == s \in Seq({s[k] : k \in DOMAIN s})
(* The sector writes still to come.                                         *)
Steps == 1 .. Len(pending)
Types ==
    /\ DiskType(disk) /\ MemType(mem) /\ crashes \in Nat /\ halted \in BOOLEAN
    /\ file # Null => FileType(file)
    /\ IsSeq(pending) /\ \A k \in Steps : WriteType(pending[k])

(* The inodes that have a name, and the blocks of one: its addresses and    *)
(* those of its index.                                                      *)
Named(d) == {d.entry[n] : n \in Names} \ {0}
IndexIn(d, o) == IF o.sec[IndexPos] = 0 THEN NoIndex ELSE d.data[o.sec[IndexPos]].index
Holds(o, x) == ({o.sec[k] : k \in 1 .. IndexPos} \union {x[k] : k \in 1 .. NIndirect}) \ {0}
BlocksOf(d, i) == Holds(d.table[i], IndexIn(d, d.table[i]))

(* The inodes still to be cleared; the entry still to be changed, which is  *)
(* always the first write; the entries as they will be.                     *)
Is(k, to) == pending[k].to = to
Zeroing(i) == \E k \in Steps : Is(k, "inode") /\ pending[k].at = i /\ pending[k].val = Zeroed
Renaming(n) == pending # <<>> /\ Is(1, "entry") /\ pending[1].at = n
NextEntry(n) == IF Renaming(n) THEN pending[1].val ELSE disk.entry[n]

(* In every call the entry is written first and the bitmaps before what     *)
(* they cover; where an ASSERT stopped the machine only bitmaps are to      *)
(* come.                                                                    *)
Order ==
    /\ \A k \in Steps : Is(k, "entry") => k = 1
    /\ \A j, k \in Steps : j < k /\ pending[j].to \in {"index", "cells", "inode"} => ~Is(k, "bbits")
    /\ halted => \A k \in Steps : Is(k, "bbits")
(* When the call is over the bitmap on the disk is the one in memory.       *)
BitsEnd ==
    ~halted =>
    /\ \A k \in Steps : Is(k, "bbits") /\ (\A j \in Steps : j > k => ~Is(j, "bbits")) =>
          pending[k].val = mem.bbits
    /\ (\A k \in Steps : ~Is(k, "bbits")) => disk.bbits = mem.bbits
(* The open file is the one its entry will name, with the inode it will     *)
(* have.                                                                    *)
FileOK ==
    file # Null =>
    /\ NextEntry(file.ink) = file.no
    /\ \A k \in Steps : Is(k, "inode") /\ pending[k].at = file.no => pending[k].val = file.inode
    /\ (\A k \in Steps : Is(k, "inode") => pending[k].at # file.no) => disk.table[file.no] = file.inode

(* A block the open file may use: taken, and of no other file.              *)
MineOf(d, bits, no, b) ==
    b = 0 \/ (b \in bits /\ \A i \in Named(d) : i # no => b \notin BlocksOf(d, i))
Mine(b) == MineOf(disk, mem.bbits, file.no, b)

(* During file_create and sys_unlink, and between calls: apart from an      *)
(* inode that is going to be cleared, files have blocks of their own, all   *)
(* taken.                                                                   *)
Linking ==
    /\ \A k \in Steps : pending[k].to \in {"entry", "root", "ibits", "bbits", "inode"}
                        /\ (Is(k, "inode") => pending[k].val = Zeroed)
                        /\ (Is(k, "entry") => pending[k].val = 0 \/ Zeroing(pending[k].val))
    /\ \A i, j \in Named(disk) : i # j /\ ~Zeroing(i) /\ ~Zeroing(j) =>
          BlocksOf(disk, i) \intersect BlocksOf(disk, j) = {}
    /\ \A i \in Named(disk) : ~Zeroing(i) => BlocksOf(disk, i) \subseteq mem.bbits
(* During file_write: the inode comes last; the data, the index and the     *)
(* inode's addresses are the open file's own; files have blocks of their    *)
(* own.                                                                     *)
Appending ==
    /\ file # Null /\ pending # <<>> /\ file.inode # Zeroed
    /\ Is(Len(pending), "inode")
    /\ \A k \in Steps :
          /\ pending[k].to \in {"bbits", "index", "cells", "inode"}
          /\ Is(k, "inode") => k = Len(pending) /\ pending[k].at = file.no /\ pending[k].val = file.inode
          /\ Is(k, "index") \/ Is(k, "cells") => Mine(pending[k].at)
          /\ Is(k, "index") => \A x \in 1 .. NIndirect : Mine(pending[k].val[x])
    /\ \A x \in 1 .. IndexPos : Mine(file.inode.sec[x])
    /\ \/ file.inode.sec[IndexPos] = 0
       \/ \E k \in Steps : Is(k, "index") /\ pending[k].at = file.inode.sec[IndexPos]
       \/ \A x \in 1 .. NIndirect : Mine(disk.data[file.inode.sec[IndexPos]].index[x])
    /\ \A i, j \in Named(disk) : i # j => BlocksOf(disk, i) \intersect BlocksOf(disk, j) = {}
    /\ \A i \in Named(disk) : BlocksOf(disk, i) \subseteq mem.bbits

(* What a loss of power needs, before the first: the bitmap on the disk,    *)
(* and every one still to come, has the blocks of every file.               *)
Recoverable ==
    /\ \A i, j \in Named(disk) : i # j => BlocksOf(disk, i) \intersect BlocksOf(disk, j) = {}
    /\ \A i \in Named(disk) : BlocksOf(disk, i) \subseteq disk.bbits
    /\ \A k \in Steps : Is(k, "bbits") =>
          \A n \in Names : ~Renaming(n) /\ disk.entry[n] # 0 => BlocksOf(disk, disk.entry[n]) \subseteq pending[k].val
(* An inode has one name, and is taken; a free one is cleared or will be.   *)
NamesOK ==
    /\ \A n, p \in Names : n # p /\ NextEntry(n) = NextEntry(p) => NextEntry(n) = 0
    /\ \A n, p \in Names : n # p /\ disk.entry[n] = disk.entry[p] => disk.entry[n] = 0
    /\ \A n \in Names : NextEntry(n) # 0 => NextEntry(n) \in mem.ibits
    /\ \A n \in Names : Renaming(n) /\ NextEntry(n) # 0 => disk.table[NextEntry(n)] = Zeroed
    /\ \A i \in Inos : i \notin mem.ibits => disk.table[i] = Zeroed \/ Zeroing(i)

-----------------------------------------------------------------------------
(* Ranks                                                                    *)

(* A set of naturals has a least element.                                   *)
LEMMA LeastNumber ==
  ASSUME NEW T \in SUBSET Nat, T # {}
  PROVE  \E x \in T : \A y \in T : x <= y
<1>1. IsWellFoundedOn(OpToRel(<, Nat), Nat)
  BY NatLessThanWellFounded, Zenon
<1>2. PICK x \in T : \A y \in T : ~(<<y, x>> \in OpToRel(<, Nat))
  BY <1>1, WFMin, Zenon
<1>3. \A y \in T : ~(y < x)
  BY <1>2 DEF OpToRel
<1> QED
  BY <1>3

(* inode_bitmap_alloc takes the lowest free bit.                            *)
LEMMA MinIn ==
  ASSUME NEW T \in SUBSET Nat, T # {}
  PROVE  Min(T) \in T
BY LeastNumber DEF Min

(* The rank of an element.                                                  *)
Below(S, x) == {y \in S : y < x}
Bounded(S) == S \in SUBSET Nat /\ IsFiniteSet(S)

(* The number of smaller elements tells the elements of a set apart.        *)
LEMMA RankGrows ==
  ASSUME NEW S, Bounded(S), NEW x \in S, NEW z \in S, x < z
  PROVE  /\ Cardinality(Below(S, x)) \in Nat
         /\ Cardinality(Below(S, x)) < Cardinality(Below(S, z))
         /\ Cardinality(Below(S, z)) < Cardinality(S)
<1>1. /\ IsFiniteSet(Below(S, x)) /\ IsFiniteSet(Below(S, z)) /\ IsFiniteSet(S)
      /\ Below(S, x) \in SUBSET Below(S, z) /\ Below(S, z) \in SUBSET S
  <2>1. \A y \in S : y \in Nat
    BY DEF Bounded
  <2>2. Below(S, x) \in SUBSET Below(S, z)
    BY <2>1 DEF Below
  <2>3. Below(S, x) \in SUBSET S /\ Below(S, z) \in SUBSET S
    BY DEF Below
  <2> QED
    BY <2>2, <2>3, FS_Subset DEF Bounded
<1>2. /\ Cardinality(Below(S, x)) \in Nat /\ Cardinality(Below(S, z)) \in Nat
      /\ Cardinality(S) \in Nat
  BY <1>1, FS_CardinalityType
<1>3. Below(S, x) # Below(S, z) /\ Below(S, z) # S
  BY DEF Below, Bounded
<1>4. Cardinality(Below(S, x)) <= Cardinality(Below(S, z))
      /\ Cardinality(Below(S, z)) # Cardinality(Below(S, x))
  BY <1>1, <1>3, FS_Subset
<1>5. Cardinality(Below(S, z)) <= Cardinality(S) /\ Cardinality(S) # Cardinality(Below(S, z))
  BY <1>1, <1>3, FS_Subset
<1> QED
  BY <1>2, <1>4, <1>5

(* An element has fewer elements below it than there are.                   *)
LEMMA RankBound ==
  ASSUME NEW S, Bounded(S), NEW x \in S
  PROVE  Cardinality(Below(S, x)) \in 0 .. Cardinality(S) - 1
<1>1. IsFiniteSet(Below(S, x)) /\ IsFiniteSet(S) /\ Below(S, x) \in SUBSET S
  BY FS_Subset DEF Bounded, Below
<1>2. Cardinality(Below(S, x)) \in Nat /\ Cardinality(S) \in Nat
  BY <1>1, FS_CardinalityType
<1>3. Below(S, x) # S
  BY DEF Below, Bounded
<1>4. Cardinality(Below(S, x)) <= Cardinality(S) /\ Cardinality(S) # Cardinality(Below(S, x))
  BY <1>1, <1>3, FS_Subset
<1> QED
  BY <1>2, <1>4

(* Every rank below the number of elements is the rank of one.              *)
LEMMA RankExists ==
  ASSUME NEW S, Bounded(S), NEW k \in Nat, k < Cardinality(S)
  PROVE  \E x \in S : Cardinality(Below(S, x)) = k
<1> DEFINE Missing == {n \in Nat : n < Cardinality(S) /\ \A x \in S : Cardinality(Below(S, x)) # n}
<1>0. Cardinality(S) \in Nat
  BY FS_CardinalityType DEF Bounded
<1> SUFFICES ASSUME Missing # {} PROVE FALSE
  OBVIOUS
<1>1. PICK n \in Missing : \A j \in Missing : n <= j
  <2>1. Missing \in SUBSET Nat
    OBVIOUS
  <2> QED
    BY <2>1, LeastNumber
<1>2. CASE n = 0
  <2>1. S # {}
    BY <1>0, <1>1, <1>2, FS_EmptySet DEF Bounded
  <2>2. PICK x \in S : \A y \in S : x <= y
    BY <2>1, LeastNumber DEF Bounded
  <2>3. Below(S, x) = {}
    <3>1. \A y \in S : y \in Nat
      BY DEF Bounded
    <3>2. \A y \in S : ~(y < x)
      BY <2>2, <3>1
    <3> QED
      BY <3>2 DEF Below
  <2>4. Cardinality(Below(S, x)) = 0
    BY <2>3, FS_EmptySet
  <2> QED
    BY <1>1, <1>2, <2>2, <2>4
<1>3. CASE n # 0
  <2>1. n - 1 \in Nat /\ n - 1 < Cardinality(S) /\ n - 1 \notin Missing
    BY <1>0, <1>1, <1>3
  <2>2. PICK x \in S : Cardinality(Below(S, x)) = n - 1
    BY <2>1
  <2> DEFINE Above == {y \in S : y > x}
             upTo == Below(S, x) \cup {x}
  <2>3. IsFiniteSet(Below(S, x))
    BY FS_Subset DEF Bounded, Below
  <2>4. Cardinality(upTo) = n
    <3>1. x \notin Below(S, x)
      BY DEF Below, Bounded
    <3>2. Cardinality(upTo) = Cardinality(Below(S, x)) + 1
      BY <2>3, <3>1, FS_AddElement
    <3> QED
      BY <1>1, <2>2, <3>2
  <2>5. Above # {}
    <3> SUFFICES ASSUME Above = {} PROVE FALSE
      OBVIOUS
    <3>1. S = upTo
      <4>1. \A y \in S : y \in Nat
        BY DEF Bounded
      <4>2. \A y \in S : y < x \/ y = x
        BY <4>1
      <4> QED
        BY <4>2 DEF Below
    <3> QED
      BY <1>0, <1>1, <2>4, <3>1
  <2>6. Above \in SUBSET Nat
    BY DEF Bounded
  <2>7. PICK z \in Above : \A y \in Above : z <= y
    BY <2>5, <2>6, LeastNumber
  <2>8. Below(S, z) = upTo
    <3>1. \A y \in S : y \in Nat
      BY DEF Bounded
    <3>2. \A y \in S : y < z <=> y < x \/ y = x
      BY <2>7, <3>1
    <3> QED
      BY <3>2 DEF Below
  <2> QED
    BY <1>1, <2>4, <2>7, <2>8
<1> QED
  BY <1>2, <1>3


(* The k-th lowest element of a set of numbers is one of it, and another    *)
(* for every k.                                                             *)
LEMMA NthFacts ==
  ASSUME NEW S, Bounded(S)
  PROVE  /\ Cardinality(S) \in Nat
         /\ \A k \in 1 .. Cardinality(S) : Nth(S, k) \in S
         /\ \A j, k \in 1 .. Cardinality(S) : j # k => Nth(S, j) # Nth(S, k)
         /\ \A x \in S : \E k \in 1 .. Cardinality(S) : Nth(S, k) = x
<1>1. Cardinality(S) \in Nat
  BY FS_CardinalityType DEF Bounded
<1>2. \A k \in 1 .. Cardinality(S) : Nth(S, k) \in S /\ Cardinality(Below(S, Nth(S, k))) = k - 1
  <2> SUFFICES ASSUME NEW k \in 1 .. Cardinality(S)
               PROVE  Nth(S, k) \in S /\ Cardinality(Below(S, Nth(S, k))) = k - 1
    OBVIOUS
  <2>1. k - 1 \in Nat /\ k - 1 < Cardinality(S)
    BY <1>1
  <2>2. \E x \in S : Cardinality(Below(S, x)) = k - 1
    BY <2>1, RankExists
  <2> QED
    BY <2>2 DEF Nth, Below
<1>3. \A x \in S : \E k \in 1 .. Cardinality(S) : Nth(S, k) = x
  <2> SUFFICES ASSUME NEW x \in S PROVE \E k \in 1 .. Cardinality(S) : Nth(S, k) = x
    OBVIOUS
  <2> DEFINE k == Cardinality(Below(S, x)) + 1
  <2>1. k \in 1 .. Cardinality(S) /\ Cardinality(Below(S, x)) = k - 1
    BY <1>1, RankBound
  <2>2. Nth(S, k) \in S /\ Cardinality(Below(S, Nth(S, k))) = k - 1
    BY <1>2, <2>1
  <2>3. x \in Nat /\ Nth(S, k) \in Nat
    BY <2>2 DEF Bounded
  <2>4. ~(x < Nth(S, k)) /\ ~(Nth(S, k) < x)
    <3> HIDE DEF k
    <3>1. ASSUME NEW y \in S, NEW z \in S, y < z, Cardinality(Below(S, y)) = k - 1,
                 Cardinality(Below(S, z)) = k - 1
          PROVE  FALSE
      <4>1. Cardinality(Below(S, y)) \in Nat /\ Cardinality(Below(S, y)) < Cardinality(Below(S, z))
        BY <3>1, RankGrows
      <4> QED
        BY <3>1, <4>1
    <3> QED
      BY <2>1, <2>2, <3>1
  <2>5. Nth(S, k) = x
    <3> HIDE DEF k
    <3> QED
      BY <2>3, <2>4
  <2> QED
    BY <2>1, <2>5
<1>4. \A j, k \in 1 .. Cardinality(S) : j # k => Nth(S, j) # Nth(S, k)
  BY <1>1, <1>2
<1> QED
  BY <1>1, <1>2, <1>3, <1>4

-----------------------------------------------------------------------------
(* Sequences                                                                *)

(* What is a sequence over some set is one over its elements.               *)
LEMMA SeqIsSeq ==
  ASSUME NEW S, NEW s \in Seq(S)
  PROVE  IsSeq(s) /\ Len(s) \in Nat /\ DOMAIN s = 1 .. Len(s)
BY DEF IsSeq

(* A function on 1 .. n is a sequence.                                      *)
LEMMA FunIsSeq ==
  ASSUME NEW n \in Nat, NEW s, s = [k \in 1 .. n |-> s[k]]
  PROVE  IsSeq(s) /\ Len(s) = n
BY DEF IsSeq

(* The four writes of file_create.                                          *)
LEMMA FourIsSeq ==
  ASSUME NEW a, NEW b, NEW c, NEW d, NEW s, s = <<a, b, c, d>>
  PROVE  IsSeq(s) /\ Len(s) = 4 /\ s # <<>> /\ s[1] = a /\ s[2] = b /\ s[3] = c /\ s[4] = d
<1>1. s \in Seq({a, b, c, d})
  OBVIOUS
<1> QED
  BY <1>1, SeqIsSeq

(* A sequence of two.                                                       *)
LEMMA TwoIsSeq ==
  ASSUME NEW a, NEW b
  PROVE  IsSeq(<<a, b>>) /\ Len(<<a, b>>) = 2 /\ <<a, b>>[1] = a /\ <<a, b>>[2] = b
<1>1. <<a, b>> \in Seq({a, b})
  OBVIOUS
<1> QED
  BY <1>1, SeqIsSeq

(* The writes of a call are put together from parts.                        *)
LEMMA ConcatIsSeq ==
  ASSUME NEW s, NEW t, IsSeq(s), IsSeq(t)
  PROVE  /\ IsSeq(s \o t) /\ Len(s) \in Nat /\ Len(t) \in Nat /\ Len(s \o t) = Len(s) + Len(t)
         /\ \A i \in 1 .. Len(s) + Len(t) : (s \o t)[i] = IF i <= Len(s) THEN s[i] ELSE t[i - Len(s)]
<1> DEFINE S == {s[k] : k \in DOMAIN s} \cup {t[k] : k \in DOMAIN t}
<1>1. s \in Seq(S) /\ t \in Seq(S)
  BY DEF IsSeq
<1> HIDE DEF S
<1>2. s \o t \in Seq(S)
  BY <1>1, ConcatProperties
<1> QED
  BY <1>1, <1>2, SeqIsSeq, ConcatProperties

(* The elements of a concatenation, with the lengths given.                 *)
LEMMA ConcatParts ==
  ASSUME NEW s, NEW t, IsSeq(s), IsSeq(t), NEW m, NEW n, Len(s) = m, Len(t) = n, NEW p, p = s \o t
  PROVE  /\ IsSeq(p) /\ m \in Nat /\ n \in Nat /\ Len(p) = m + n
         /\ \A i \in 1 .. m : p[i] = s[i]
         /\ \A i \in 1 .. n : p[m + i] = t[i]
         /\ \A i \in 1 .. m + n : i \in 1 .. m \/ i - m \in 1 .. n
<1>1. /\ IsSeq(p) /\ m \in Nat /\ n \in Nat /\ Len(p) = m + n
      /\ \A i \in 1 .. Len(s) + Len(t) : p[i] = IF i <= Len(s) THEN s[i] ELSE t[i - Len(s)]
  BY ConcatIsSeq
<1>2. \A i \in 1 .. m + n : p[i] = IF i <= m THEN s[i] ELSE t[i - m]
  BY <1>1
<1>3. ASSUME NEW i \in 1 .. m PROVE p[i] = s[i]
  BY <1>1, <1>2
<1>4. ASSUME NEW i \in 1 .. n PROVE p[m + i] = t[i]
  <2>1. m + i \in 1 .. m + n /\ ~(m + i <= m) /\ (m + i) - m = i
    BY <1>1
  <2> QED
    BY <1>2, <2>1
<1> QED
  BY <1>1, <1>3, <1>4

(* The writes left after the first.                                         *)
LEMMA TailSteps ==
  ASSUME IsSeq(pending), pending # <<>>, pending' = Tail(pending)
  PROVE  /\ IsSeq(pending') /\ Len(pending) \in Nat \ {0} /\ Len(pending') = Len(pending) - 1
         /\ 1 \in Steps /\ Head(pending) = pending[1]
         /\ \A k \in Steps' : k \in Nat /\ k + 1 \in Steps /\ pending'[k] = pending[k + 1]
         /\ \A k \in Steps : k # 1 => k - 1 \in Steps' /\ pending'[k - 1] = pending[k]
<1> DEFINE S == {pending[k] : k \in DOMAIN pending}
<1>1. pending \in Seq(S)
  BY DEF IsSeq
<1> HIDE DEF S
<1>2. /\ Tail(pending) \in Seq(S) /\ Len(Tail(pending)) = Len(pending) - 1
      /\ \A i \in 1 .. Len(Tail(pending)) : Tail(pending)[i] = pending[i + 1]
  BY <1>1, HeadTailProperties
<1>3. Len(pending) \in Nat \ {0}
  BY <1>1, EmptySeq
<1>4. IsSeq(pending')
  BY <1>2, SeqIsSeq
<1> QED
  BY <1>1, <1>2, <1>3, <1>4 DEF Steps

-----------------------------------------------------------------------------
(* A sector write                                                           *)

(* The sizes of an inode, a block, the disk.                                *)
LEMMA Sizes == /\ NFiles \in Nat /\ NBlocks \in Nat /\ MaxCrashes \in Nat
               /\ NDirect \in Nat /\ NDirect > 0 /\ NIndirect \in Nat /\ NIndirect > 0
               /\ BlockSize \in Nat /\ BlockSize > 0 /\ MaxCount \in Nat /\ MaxCount > 0
               /\ IndexPos \in Nat /\ IndexPos = NDirect + 1
BY StoreAssumption DEF IndexPos

(* What partition_format writes.                                            *)
LEMMA ZeroedType == Zeroed \in InodeType /\ NoIndex \in IndexType
BY Sizes DEF Zeroed, NoSecs, NoIndex, InodeType, IndexType

(* An entry of the root directory.                                          *)
LEMMA ApplyEntry ==
  ASSUME NEW d, DiskType(d), NEW w, WriteType(w), w.to = "entry"
  PROVE  LET e == Apply(d, w) IN
         /\ DiskType(e) /\ e.entry = [d.entry EXCEPT ![w.at] = w.val]
         /\ e.table = d.table /\ e.data = d.data /\ e.bbits = d.bbits
         /\ e.ibits = d.ibits /\ e.rootSize = d.rootSize
<1>1. w.at \in Names /\ w.val \in 0 .. NFiles
  BY DEF WriteType
<1>2. Apply(d, w) = [d EXCEPT !.entry[w.at] = w.val]
  BY DEF Apply
<1> QED
  BY <1>1, <1>2 DEF DiskType

(* The root's inode.                                                        *)
LEMMA ApplyRoot ==
  ASSUME NEW d, DiskType(d), NEW w, WriteType(w), w.to = "root"
  PROVE  LET e == Apply(d, w) IN
         /\ DiskType(e) /\ e.rootSize = w.val
         /\ e.entry = d.entry /\ e.table = d.table /\ e.data = d.data /\ e.bbits = d.bbits
         /\ e.ibits = d.ibits
<1>1. w.val \in Int
  BY DEF WriteType
<1>2. Apply(d, w) = [d EXCEPT !.rootSize = w.val]
  BY DEF Apply
<1> QED
  BY <1>1, <1>2 DEF DiskType

(* An inode.                                                                *)
LEMMA ApplyInode ==
  ASSUME NEW d, DiskType(d), NEW w, WriteType(w), w.to = "inode"
  PROVE  LET e == Apply(d, w) IN
         /\ DiskType(e) /\ e.table = [d.table EXCEPT ![w.at] = w.val]
         /\ e.entry = d.entry /\ e.data = d.data /\ e.bbits = d.bbits
         /\ e.ibits = d.ibits /\ e.rootSize = d.rootSize
<1>1. w.at \in Inos /\ w.val \in InodeType
  BY DEF WriteType
<1>2. Apply(d, w) = [d EXCEPT !.table[w.at] = w.val]
  BY DEF Apply
<1> QED
  BY <1>1, <1>2 DEF DiskType

(* The bitmap of the inodes.                                                *)
LEMMA ApplyInodeBits ==
  ASSUME NEW d, DiskType(d), NEW w, WriteType(w), w.to = "ibits"
  PROVE  LET e == Apply(d, w) IN
         /\ DiskType(e) /\ e.ibits = w.val
         /\ e.entry = d.entry /\ e.table = d.table /\ e.data = d.data /\ e.bbits = d.bbits
         /\ e.rootSize = d.rootSize
<1>1. w.val \in SUBSET Inos
  BY DEF WriteType
<1>2. Apply(d, w) = [d EXCEPT !.ibits = w.val]
  BY DEF Apply
<1> QED
  BY <1>1, <1>2 DEF DiskType

(* The bitmap of the blocks.                                                *)
LEMMA ApplyBlockBits ==
  ASSUME NEW d, DiskType(d), NEW w, WriteType(w), w.to = "bbits"
  PROVE  LET e == Apply(d, w) IN
         /\ DiskType(e) /\ e.bbits = w.val
         /\ e.entry = d.entry /\ e.table = d.table /\ e.data = d.data /\ e.ibits = d.ibits
         /\ e.rootSize = d.rootSize
<1>1. w.val \in SUBSET Blocks
  BY DEF WriteType
<1>2. Apply(d, w) = [d EXCEPT !.bbits = w.val]
  BY DEF Apply
<1> QED
  BY <1>1, <1>2 DEF DiskType

(* A data block has no addresses any more.                                  *)
LEMMA ApplyCells ==
  ASSUME NEW d, DiskType(d), NEW w, WriteType(w), w.to = "cells"
  PROVE  LET e == Apply(d, w) IN
         /\ DiskType(e)
         /\ \A b \in Blocks : e.data[b].index = IF b = w.at THEN NoIndex ELSE d.data[b].index
         /\ e.entry = d.entry /\ e.table = d.table /\ e.bbits = d.bbits
         /\ e.ibits = d.ibits /\ e.rootSize = d.rootSize
<1> DEFINE r == [cells |-> w.val, index |-> NoIndex]
<1>1. Apply(d, w) = [d EXCEPT !.data[w.at] = r]
  BY DEF Apply
<1>2. r.index = NoIndex /\ NoIndex \in IndexType
  BY ZeroedType
<1> HIDE DEF r
<1> QED
  BY <1>1, <1>2 DEF DiskType

(* An index.                                                                *)
LEMMA ApplyIndex ==
  ASSUME NEW d, DiskType(d), NEW w, WriteType(w), w.to = "index"
  PROVE  LET e == Apply(d, w) IN
         /\ DiskType(e)
         /\ \A b \in Blocks : e.data[b].index = IF b = w.at THEN w.val ELSE d.data[b].index
         /\ e.entry = d.entry /\ e.table = d.table /\ e.bbits = d.bbits
         /\ e.ibits = d.ibits /\ e.rootSize = d.rootSize
<1> DEFINE r == [cells |-> Blank, index |-> w.val]
<1>1. Apply(d, w) = [d EXCEPT !.data[w.at] = r]
  BY DEF Apply
<1>2. r.index = w.val /\ w.val \in IndexType
  BY DEF WriteType
<1> HIDE DEF r
<1> QED
  BY <1>1, <1>2 DEF DiskType

-----------------------------------------------------------------------------
(* The blocks of a file                                                     *)

(* The index of an inode.                                                   *)
LEMMA IndexInType ==
  ASSUME NEW d, DiskType(d), NEW o \in InodeType
  PROVE  IndexIn(d, o) \in IndexType
<1>1. o.sec[IndexPos] \in 0 .. NBlocks
  BY Sizes DEF InodeType
<1>2. o.sec[IndexPos] = 0 \/ o.sec[IndexPos] \in Blocks
  BY <1>1, Sizes DEF Blocks
<1> QED
  BY <1>2, ZeroedType DEF IndexIn, DiskType

(* The addresses of an inode and its index are blocks of the partition.     *)
LEMMA HoldsType ==
  ASSUME NEW o \in InodeType, NEW x \in IndexType
  PROVE  Holds(o, x) \subseteq Blocks
<1>1. \A k \in 1 .. IndexPos : o.sec[k] \in 0 .. NBlocks
  BY DEF InodeType
<1>2. \A k \in 1 .. NIndirect : x[k] \in 0 .. NBlocks
  BY DEF IndexType
<1> QED
  BY <1>1, <1>2, Sizes DEF Holds, Blocks

(* So are those of an inode of the disk.                                    *)
LEMMA BlocksOfType ==
  ASSUME NEW d, DiskType(d), NEW i \in Inos
  PROVE  BlocksOf(d, i) \subseteq Blocks
<1>1. d.table[i] \in InodeType
  BY DEF DiskType
<1> QED
  BY <1>1, IndexInType, HoldsType DEF BlocksOf

(* The inodes the entries name.                                             *)
LEMMA NamedType ==
  ASSUME NEW d, DiskType(d)
  PROVE  /\ Named(d) \subseteq Inos
         /\ \A n \in Names : d.entry[n] \in 0 .. NFiles /\ (d.entry[n] # 0 => d.entry[n] \in Named(d))
         /\ \A i \in Named(d) : \E n \in Names : d.entry[n] = i /\ i # 0
<1>1. \A n \in Names : d.entry[n] \in 0 .. NFiles
  BY DEF DiskType
<1> QED
  BY <1>1, Sizes DEF Named, Inos

(* An inode of zeros has none.                                              *)
LEMMA BlocksOfZeroed ==
  ASSUME NEW d, NEW i, d.table[i] = Zeroed
  PROVE  BlocksOf(d, i) = {} /\ IndexIn(d, d.table[i]) = NoIndex
<1>1. \A k \in 1 .. IndexPos : Zeroed.sec[k] = 0
  BY DEF Zeroed, NoSecs
<1>2. Zeroed.sec[IndexPos] = 0
  BY <1>1, Sizes
<1>3. \A k \in 1 .. NIndirect : NoIndex[k] = 0
  BY DEF NoIndex
<1> QED
  BY <1>1, <1>2, <1>3 DEF BlocksOf, Holds, IndexIn

(* The blocks of a file depend on its inode and its index alone.            *)
LEMMA BlocksOfSame ==
  ASSUME NEW d, NEW e, DiskType(d), NEW i \in Inos, e.table[i] = d.table[i],
         \A b \in Blocks : b \in BlocksOf(d, i) => e.data[b].index = d.data[b].index
  PROVE  BlocksOf(e, i) = BlocksOf(d, i) /\ IndexIn(e, d.table[i]) = IndexIn(d, d.table[i])
<1> DEFINE o == d.table[i]
           b == o.sec[IndexPos]
<1>1. o \in InodeType
  BY DEF DiskType
<1>2. b \in 0 .. NBlocks
  BY <1>1, Sizes DEF InodeType
<1>3. b # 0 => b \in Blocks /\ b \in BlocksOf(d, i)
  BY <1>2, Sizes DEF Blocks, BlocksOf, Holds
<1>4. IndexIn(e, o) = IndexIn(d, o)
  BY <1>3 DEF IndexIn
<1> QED
  BY <1>4 DEF BlocksOf

(* A file whose index may have new addresses has only these in addition.    *)
LEMMA BlocksOfMore ==
  ASSUME NEW d, NEW e, DiskType(d), DiskType(e), NEW i \in Inos, e.table[i] = d.table[i], NEW X,
         \A b \in Blocks : \A k \in 1 .. NIndirect :
            \/ e.data[b].index[k] = d.data[b].index[k]
            \/ e.data[b].index[k] \in X \cup {0}
  PROVE  BlocksOf(e, i) \subseteq BlocksOf(d, i) \cup X
<1> DEFINE o == d.table[i]
           b == o.sec[IndexPos]
<1>1. o \in InodeType
  BY DEF DiskType
<1>2. b \in 0 .. NBlocks
  BY <1>1, Sizes DEF InodeType
<1>3. CASE b = 0
  BY <1>3 DEF BlocksOf, IndexIn
<1>4. CASE b # 0
  <2>1. b \in Blocks
    BY <1>2, <1>4, Sizes DEF Blocks
  <2>2. IndexIn(e, o) = e.data[b].index /\ IndexIn(d, o) = d.data[b].index
    BY <1>4 DEF IndexIn
  <2>3. \A k \in 1 .. NIndirect : IndexIn(e, o)[k] = IndexIn(d, o)[k] \/ IndexIn(e, o)[k] \in X \cup {0}
    BY <2>1, <2>2
  <2> HIDE DEF o, b
  <2>4. BlocksOf(e, i) = Holds(o, IndexIn(e, o)) /\ BlocksOf(d, i) = Holds(o, IndexIn(d, o))
    BY DEF BlocksOf, o
  <2> QED
    BY <2>3, <2>4 DEF Holds
<1> QED
  BY <1>3, <1>4

(* inode_realse collects them all.                                          *)
LEMMA FreedAll ==
  ASSUME DiskType(disk), NEW o \in InodeType
  PROVE  /\ IsSeq(FreedBlocks(o)) /\ Len(FreedBlocks(o)) \in Nat
         /\ ToSet(FreedBlocks(o)) = Holds(o, IndexIn(disk, o))
         /\ ToSet(FreedBlocks(o)) = {FreedBlocks(o)[k] : k \in 1 .. Len(FreedBlocks(o))}
<1> DEFINE a == Addresses(o)
           used == {k \in DOMAIN a : a[k] # 0}
           x == IndexIn(disk, o)
<1>1. IndexOf(o) = x
  BY DEF IndexOf, IndexIn
<1>2. DOMAIN a = 1 .. IndexPos + NIndirect
  BY DEF Addresses
<1>3. Bounded(used)
  <2>1. IsFiniteSet(1 .. IndexPos + NIndirect)
    BY Sizes, FS_Interval
  <2>2. used \subseteq 1 .. IndexPos + NIndirect
    BY <1>2
  <2>3. IsFiniteSet(used)
    BY <2>1, <2>2, FS_Subset
  <2>4. used \in SUBSET Nat
    BY <2>2, Sizes
  <2> QED
    BY <2>3, <2>4 DEF Bounded
<1>4. /\ a[1] = o.sec[IndexPos]
      /\ \A k \in 1 .. NDirect : k + 1 \in DOMAIN a /\ a[k + 1] = o.sec[k]
      /\ \A k \in 1 .. NIndirect : k + IndexPos \in DOMAIN a /\ a[k + IndexPos] = x[k]
  <2>1. \A k \in 1 .. IndexPos + NIndirect :
           a[k] = IF k = 1 THEN o.sec[IndexPos]
                  ELSE IF k <= IndexPos THEN o.sec[k - 1] ELSE IndexOf(o)[k - IndexPos]
    BY DEF Addresses
  <2> HIDE DEF a, x
  <2>2. a[1] = o.sec[IndexPos]
    BY <2>1, Sizes
  <2>3. ASSUME NEW k \in 1 .. NDirect PROVE k + 1 \in DOMAIN a /\ a[k + 1] = o.sec[k]
    <3>1. k + 1 \in 1 .. IndexPos + NIndirect /\ k + 1 # 1 /\ k + 1 <= IndexPos /\ (k + 1) - 1 = k
      BY Sizes
    <3> QED
      BY <1>2, <2>1, <3>1
  <2>4. ASSUME NEW k \in 1 .. NIndirect PROVE k + IndexPos \in DOMAIN a /\ a[k + IndexPos] = x[k]
    <3>1. /\ k + IndexPos \in 1 .. IndexPos + NIndirect /\ k + IndexPos # 1
          /\ ~(k + IndexPos <= IndexPos) /\ (k + IndexPos) - IndexPos = k
      BY Sizes
    <3> QED
      BY <1>1, <1>2, <2>1, <3>1
  <2> QED
    BY <2>2, <2>3, <2>4
<1>5. \A k \in DOMAIN a : \/ a[k] = o.sec[IndexPos]
                          \/ \E j \in 1 .. NDirect : a[k] = o.sec[j]
                          \/ \E j \in 1 .. NIndirect : a[k] = x[j]
  <2> SUFFICES ASSUME NEW k \in DOMAIN a
               PROVE  \/ a[k] = o.sec[IndexPos]
                      \/ \E j \in 1 .. NDirect : a[k] = o.sec[j]
                      \/ \E j \in 1 .. NIndirect : a[k] = x[j]
    OBVIOUS
  <2>1. CASE k = 1
    BY <1>4, <2>1
  <2>2. CASE k # 1 /\ k <= IndexPos
    <3>1. k - 1 \in 1 .. NDirect /\ a[k] = o.sec[k - 1]
      BY <1>2, <2>2, Sizes DEF Addresses
    <3> QED
      BY <3>1
  <2>3. CASE k > IndexPos
    <3>1. k - IndexPos \in 1 .. NIndirect /\ a[k] = x[k - IndexPos]
      BY <1>1, <1>2, <2>3, Sizes DEF Addresses
    <3> QED
      BY <3>1
  <2> QED
    BY <1>2, <2>1, <2>2, <2>3, Sizes
<1>6. {a[k] : k \in used} = Holds(o, x)
  <2>1. \A k \in used : a[k] \in Holds(o, x)
    BY <1>5, Sizes DEF Holds
  <2>2. \A b \in Holds(o, x) : \E k \in used : a[k] = b
    <3> SUFFICES ASSUME NEW b \in Holds(o, x) PROVE \E k \in DOMAIN a : a[k] = b /\ b # 0
      BY DEF Holds
    <3>1. CASE \E k \in 1 .. IndexPos : b = o.sec[k]
      <4>1. PICK k \in 1 .. IndexPos : b = o.sec[k]
        BY <3>1
      <4>2. k = IndexPos \/ k \in 1 .. NDirect
        BY Sizes
      <4>3. 1 \in DOMAIN a
        BY <1>2, Sizes
      <4> QED
        BY <1>4, <4>1, <4>2, <4>3 DEF Holds
    <3>2. CASE \E k \in 1 .. NIndirect : b = x[k]
      BY <1>4, <3>2 DEF Holds
    <3> QED
      BY <3>1, <3>2 DEF Holds
  <2> QED
    BY <2>1, <2>2
<1> DEFINE f == FreedBlocks(o)
<1>7. f = [k \in 1 .. Cardinality(used) |-> a[Nth(used, k)]]
  BY DEF FreedBlocks
<1> HIDE DEF a, used, x, f
<1>8. /\ Cardinality(used) \in Nat
      /\ \A k \in 1 .. Cardinality(used) : Nth(used, k) \in used
      /\ \A y \in used : \E k \in 1 .. Cardinality(used) : Nth(used, k) = y
  BY <1>3, NthFacts
<1>9. IsSeq(f) /\ Len(f) = Cardinality(used) /\ DOMAIN f = 1 .. Len(f)
  BY <1>7, <1>8, FunIsSeq
<1>10. {f[k] : k \in 1 .. Len(f)} = {a[k] : k \in used}
  BY <1>7, <1>8, <1>9
<1>11. ToSet(f) = {f[k] : k \in 1 .. Len(f)}
  BY <1>9 DEF ToSet
<1> QED
  BY <1>6, <1>8, <1>9, <1>10, <1>11 DEF f, x

-----------------------------------------------------------------------------
(* ide_write of the next sector                                             *)

(* The disk changes by the first write, which is then gone.                 *)
LEMMA FlushFacts ==
  ASSUME Types, Flush
  PROVE  /\ Len(pending) \in Nat \ {0} /\ Len(pending') = Len(pending) - 1
         /\ 1 \in Steps /\ WriteType(pending[1]) /\ disk' = Apply(disk, pending[1]) /\ DiskType(disk)
         /\ \A k \in Steps' : k \in Nat /\ k + 1 \in Steps /\ pending'[k] = pending[k + 1]
         /\ \A k \in Steps : k \in Nat /\ (k # 1 => k - 1 \in Steps' /\ pending'[k - 1] = pending[k])
         /\ UNCHANGED <<mem, file, halted, crashes>>
         /\ pending # <<>> /\ IsSeq(pending')
<1>1. IsSeq(pending) /\ pending # <<>> /\ pending' = Tail(pending) /\ \A k \in Steps : WriteType(pending[k])
  BY DEF Types, Flush
<1>2. Head(pending) = pending[1] /\ 1 \in Steps
  BY <1>1, TailSteps
<1>3. disk' = Apply(disk, pending[1]) /\ WriteType(pending[1])
  BY <1>1, <1>2 DEF Flush
<1>4. /\ IsSeq(pending') /\ Len(pending) \in Nat \ {0} /\ Len(pending') = Len(pending) - 1
      /\ \A k \in Steps' : k \in Nat /\ k + 1 \in Steps /\ pending'[k] = pending[k + 1]
      /\ \A k \in Steps : k # 1 => k - 1 \in Steps' /\ pending'[k - 1] = pending[k]
  BY <1>1, TailSteps
<1>5. \A k \in Steps : k \in Nat
  BY DEF Steps
<1> QED
  BY <1>1, <1>2, <1>3, <1>4, <1>5 DEF Types, Flush

(* The seven kinds of writes.                                               *)
LEMMA WriteKinds ==
  ASSUME NEW w, WriteType(w)
  PROVE  w.to \in {"entry", "root", "inode", "ibits", "bbits", "cells", "index"}
BY DEF WriteType

(* What a write changes.                                                    *)
LEMMA FlushEffect ==
  ASSUME Types, Flush
  PROVE  /\ DiskType(disk')
         /\ pending[1].to \in {"entry", "root", "inode", "ibits", "bbits", "cells", "index"}
         /\ disk'.entry = IF Is(1, "entry") THEN [disk.entry EXCEPT ![pending[1].at] = pending[1].val]
                          ELSE disk.entry
         /\ disk'.table = IF Is(1, "inode") THEN [disk.table EXCEPT ![pending[1].at] = pending[1].val]
                          ELSE disk.table
         /\ disk'.rootSize = IF Is(1, "root") THEN pending[1].val ELSE disk.rootSize
         /\ disk'.ibits = IF Is(1, "ibits") THEN pending[1].val ELSE disk.ibits
         /\ disk'.bbits = IF Is(1, "bbits") THEN pending[1].val ELSE disk.bbits
         /\ \A b \in Blocks :
               disk'.data[b].index = IF Is(1, "cells") /\ b = pending[1].at THEN NoIndex
                                     ELSE IF Is(1, "index") /\ b = pending[1].at THEN pending[1].val
                                     ELSE disk.data[b].index
<1>1. WriteType(pending[1]) /\ disk' = Apply(disk, pending[1]) /\ DiskType(disk)
  BY FlushFacts
<1>2. pending[1].to \in {"entry", "root", "inode", "ibits", "bbits", "cells", "index"}
  BY <1>1, WriteKinds
<1>3. CASE pending[1].to = "entry"
  BY <1>1, <1>3, ApplyEntry DEF Is
<1>4. CASE pending[1].to = "root"
  BY <1>1, <1>4, ApplyRoot DEF Is
<1>5. CASE pending[1].to = "inode"
  BY <1>1, <1>5, ApplyInode DEF Is
<1>6. CASE pending[1].to = "ibits"
  BY <1>1, <1>6, ApplyInodeBits DEF Is
<1>7. CASE pending[1].to = "bbits"
  BY <1>1, <1>7, ApplyBlockBits DEF Is
<1>8. CASE pending[1].to = "cells"
  BY <1>1, <1>8, ApplyCells DEF Is
<1>9. CASE pending[1].to = "index"
  BY <1>1, <1>9, ApplyIndex DEF Is
<1> QED
  BY <1>2, <1>3, <1>4, <1>5, <1>6, <1>7, <1>8, <1>9

(* A sector write keeps the types.                                          *)
LEMMA FlushTypes ==
  ASSUME Types, Flush
  PROVE  Types'
<1>1. DiskType(disk')
  BY FlushEffect
<1>2. IsSeq(pending') /\ \A k \in Steps' : WriteType(pending'[k])
  BY FlushFacts DEF Types
<1>3. UNCHANGED <<mem, file, halted, crashes>>
  BY FlushFacts
<1> QED
  BY <1>1, <1>2, <1>3 DEF Types, DiskType, MemType, FileType, WriteType

(* The entry is written first, the bitmap before what it covers.            *)
LEMMA FlushOrder ==
  ASSUME Types, Order, Flush
  PROVE  Order' /\ \A k \in Steps' : pending'[k].to # "entry"
<1>1. /\ \A k \in Steps' : k \in Nat /\ k + 1 \in Steps /\ pending'[k] = pending[k + 1]
      /\ UNCHANGED <<file, halted>>
  BY FlushFacts
<1>2. \A k \in Steps' : k \in 1 .. Len(pending')
  BY DEF Steps
<1>3. \A k \in Steps' : pending'[k].to # "entry"
  BY <1>1, <1>2, FlushFacts DEF Order, Is
<1>4. \A j, k \in Steps' : j < k /\ pending'[j].to \in {"index", "cells", "inode"} => pending'[k].to # "bbits"
  BY <1>1 DEF Order, Is
<1>5. halted' => \A k \in Steps' : pending'[k].to = "bbits"
  BY <1>1 DEF Order, Is
<1> QED
  BY <1>3, <1>4, <1>5 DEF Order, Is

(* The last bitmap written is the one in memory.                            *)
LEMMA FlushBits ==
  ASSUME Types, BitsEnd, Flush
  PROVE  BitsEnd'
<1>0. SUFFICES ASSUME ~halted' PROVE BitsEnd'
  BY DEF BitsEnd
<1>1. /\ \A k \in Steps' : k \in Nat /\ k + 1 \in Steps /\ pending'[k] = pending[k + 1]
      /\ \A k \in Steps : k \in Nat /\ (k # 1 => k - 1 \in Steps' /\ pending'[k - 1] = pending[k])
      /\ UNCHANGED <<mem, halted>> /\ 1 \in Steps
  BY FlushFacts
<1>2. ~halted
  BY <1>0, <1>1
<1>3. ASSUME NEW k \in Steps', pending'[k].to = "bbits", \A j \in Steps' : j > k => pending'[j].to # "bbits"
      PROVE  pending'[k].val = mem'.bbits
  <2>1. k + 1 \in Steps /\ pending[k + 1].to = "bbits" /\ k \in Nat
    BY <1>1, <1>3
  <2>2. ASSUME NEW j \in Steps, j > k + 1 PROVE pending[j].to # "bbits"
    <3>1. j - 1 \in Steps' /\ pending'[j - 1] = pending[j] /\ j - 1 > k
      BY <1>1, <2>1, <2>2
    <3> QED
      BY <1>3, <3>1
  <2>3. pending[k + 1].val = mem.bbits
    BY <1>2, <2>1, <2>2 DEF BitsEnd, Is
  <2> QED
    BY <1>1, <2>3
<1>4. ASSUME \A k \in Steps' : pending'[k].to # "bbits" PROVE disk'.bbits = mem'.bbits
  <2>1. \A j \in Steps : j # 1 => pending[j].to # "bbits"
    BY <1>1, <1>4
  <2>2. CASE pending[1].to = "bbits"
    <3>1. \A j \in Steps : j > 1 => pending[j].to # "bbits"
      BY <1>1, <2>1
    <3>2. pending[1].val = mem.bbits
      BY <1>1, <1>2, <2>2, <3>1 DEF BitsEnd, Is
    <3> QED
      BY <1>1, <2>2, <3>2, FlushEffect DEF Is
  <2>3. CASE pending[1].to # "bbits"
    BY <1>1, <1>2, <2>1, <2>3, FlushEffect DEF BitsEnd, Is
  <2> QED
    BY <2>2, <2>3
<1> QED
  BY <1>3, <1>4 DEF BitsEnd, Is

(* What the entries will be is what they are once the first write is done.  *)
LEMMA FlushNext ==
  ASSUME Types, Order, Flush
  PROVE  /\ \A n \in Names : ~Renaming(n)' /\ NextEntry(n)' = NextEntry(n) /\ disk'.entry[n] = NextEntry(n)
         /\ \A n \in Names : ~Renaming(n) => disk'.entry[n] = disk.entry[n]
<1>1. \A n \in Names : ~Renaming(n)'
  <2>1. pending' # <<>> => 1 \in Steps'
    <3>1. IsSeq(pending')
      BY FlushFacts
    <3> QED
      BY <3>1 DEF IsSeq, Steps
  <2>2. \A k \in Steps' : pending'[k].to # "entry"
    BY FlushOrder
  <2> QED
    BY <2>1, <2>2 DEF Renaming, Is
<1>2. /\ pending # <<>> /\ DiskType(disk) /\ WriteType(pending[1])
      /\ disk'.entry = IF Is(1, "entry") THEN [disk.entry EXCEPT ![pending[1].at] = pending[1].val]
                       ELSE disk.entry
  BY FlushFacts, FlushEffect
<1>3. \A n \in Names : disk'.entry[n] = NextEntry(n)
  BY <1>2 DEF NextEntry, Renaming, DiskType, Is
<1>4. \A n \in Names : NextEntry(n)' = disk'.entry[n]
  BY <1>1 DEF NextEntry
<1> QED
  BY <1>1, <1>3, <1>4 DEF NextEntry

(* Which inodes are still to be cleared.                                    *)
LEMMA FlushZeroing ==
  ASSUME Types, Flush, NEW i
  PROVE  /\ Zeroing(i)' => Zeroing(i)
         /\ Zeroing(i) => Zeroing(i)' \/ (Is(1, "inode") /\ pending[1].at = i /\ pending[1].val = Zeroed)
<1>1. /\ \A k \in Steps' : k \in Nat /\ k + 1 \in Steps /\ pending'[k] = pending[k + 1]
      /\ \A k \in Steps : k \in Nat /\ (k # 1 => k - 1 \in Steps' /\ pending'[k - 1] = pending[k])
  BY FlushFacts
<1>2. ASSUME Zeroing(i)' PROVE Zeroing(i)
  BY <1>1, <1>2 DEF Zeroing, Is
<1>3. ASSUME Zeroing(i) PROVE Zeroing(i)' \/ (Is(1, "inode") /\ pending[1].at = i /\ pending[1].val = Zeroed)
  <2>1. PICK k \in Steps : pending[k].to = "inode" /\ pending[k].at = i /\ pending[k].val = Zeroed
    BY <1>3 DEF Zeroing, Is
  <2>2. CASE k # 1
    <3>1. k - 1 \in Steps' /\ pending'[k - 1] = pending[k]
      BY <1>1, <2>2
    <3> QED
      BY <2>1, <3>1 DEF Zeroing, Is
  <2> QED
    BY <2>1, <2>2 DEF Is
<1> QED
  BY <1>2, <1>3

(* The open file is the one the entry will name, with the inode it will     *)
(* have.                                                                    *)
LEMMA FlushFile ==
  ASSUME Types, Order, FileOK, Flush
  PROVE  FileOK'
<1> SUFFICES ASSUME file' # Null PROVE FileOK'
  BY DEF FileOK
<1>1. /\ \A k \in Steps' : k \in Nat /\ k + 1 \in Steps /\ pending'[k] = pending[k + 1]
      /\ \A k \in Steps : k \in Nat /\ (k # 1 => k - 1 \in Steps' /\ pending'[k - 1] = pending[k])
      /\ file' = file /\ 1 \in Steps /\ WriteType(pending[1]) /\ DiskType(disk)
  BY FlushFacts
<1>2. file # Null /\ FileType(file)
  BY <1>1 DEF Types
<1>3. NextEntry(file.ink)' = file'.no
  <2>1. NextEntry(file.ink)' = NextEntry(file.ink)
    <3>1. file.ink \in Names /\ \A n \in Names : NextEntry(n)' = NextEntry(n)
      BY <1>2, FlushNext DEF FileType
    <3> QED
      BY <1>1, <3>1 DEF NextEntry, Renaming
  <2> QED
    BY <1>1, <1>2, <2>1 DEF FileOK
<1>4. \A k \in Steps' : pending'[k].to = "inode" /\ pending'[k].at = file'.no => pending'[k].val = file'.inode
  BY <1>1, <1>2 DEF FileOK, Is
<1>5. ASSUME \A k \in Steps' : pending'[k].to = "inode" => pending'[k].at # file'.no
      PROVE  disk'.table[file'.no] = file'.inode
  <2>1. disk'.table = IF Is(1, "inode") THEN [disk.table EXCEPT ![pending[1].at] = pending[1].val] ELSE disk.table
    BY FlushEffect
  <2>2. CASE Is(1, "inode") /\ pending[1].at = file.no
    <3>1. pending[1].val = file.inode
      BY <1>1, <1>2, <2>2 DEF FileOK
    <3>2. disk.table \in [Inos -> InodeType] /\ file.no \in Inos
      BY <1>1, <1>2 DEF DiskType, FileType
    <3> QED
      BY <1>1, <2>1, <2>2, <3>1, <3>2
  <2>3. CASE ~(Is(1, "inode") /\ pending[1].at = file.no)
    <3>1. \A k \in Steps : Is(k, "inode") => pending[k].at # file.no
      BY <1>1, <1>5, <2>3 DEF Is
    <3>2. disk.table[file.no] = file.inode
      BY <1>2, <3>1 DEF FileOK
    <3>3. disk.table \in [Inos -> InodeType] /\ file.no \in Inos
      BY <1>1, <1>2 DEF DiskType, FileType
    <3> QED
      BY <1>1, <2>1, <2>3, <3>2, <3>3
  <2> QED
    BY <2>2, <2>3
<1> QED
  BY <1>3, <1>4, <1>5 DEF FileOK, Is, NextEntry, Renaming

(* Creating or removing a file: a file keeps its blocks or has none.        *)
LEMMA LinkBlocks ==
  ASSUME Types, Linking, Flush, NEW i \in Inos
  PROVE  \/ BlocksOf(disk', i) = BlocksOf(disk, i) /\ ~(Is(1, "inode") /\ pending[1].at = i)
         \/ BlocksOf(disk', i) = {} /\ Is(1, "inode") /\ pending[1].at = i /\ disk'.table[i] = Zeroed
<1>1. DiskType(disk) /\ 1 \in Steps /\ WriteType(pending[1])
  BY FlushFacts
<1>2. /\ pending[1].to \in {"entry", "root", "ibits", "bbits", "inode"}
      /\ Is(1, "inode") => pending[1].val = Zeroed
  BY <1>1 DEF Linking
<1>3. /\ disk'.table = IF Is(1, "inode") THEN [disk.table EXCEPT ![pending[1].at] = pending[1].val] ELSE disk.table
      /\ \A b \in Blocks : disk'.data[b].index = disk.data[b].index
  BY <1>2, FlushEffect DEF Is
<1>4. CASE Is(1, "inode") /\ pending[1].at = i
  <2>1. disk'.table[i] = Zeroed
    BY <1>1, <1>2, <1>3, <1>4 DEF DiskType
  <2> QED
    BY <1>4, <2>1, BlocksOfZeroed
<1>5. CASE ~(Is(1, "inode") /\ pending[1].at = i)
  <2>1. disk'.table[i] = disk.table[i]
    BY <1>1, <1>3, <1>5 DEF DiskType
  <2> QED
    BY <1>1, <1>3, <1>5, <2>1, BlocksOfSame
<1> QED
  BY <1>4, <1>5

(* A sector write of file_create or sys_unlink.                             *)
LEMMA FlushLinking ==
  ASSUME Types, Order, Linking, Flush
  PROVE  Linking'
<1>1. /\ \A k \in Steps' : k \in Nat /\ k + 1 \in Steps /\ pending'[k] = pending[k + 1]
      /\ mem' = mem /\ 1 \in Steps /\ WriteType(pending[1]) /\ DiskType(disk) /\ pending # <<>>
  BY FlushFacts
<1>2. \A k \in Steps' : /\ pending'[k].to \in {"entry", "root", "ibits", "bbits", "inode"}
                        /\ (pending'[k].to = "inode" => pending'[k].val = Zeroed)
                        /\ pending'[k].to # "entry"
  BY <1>1, FlushOrder DEF Linking, Is
<1>3. ASSUME NEW i \in Named(disk'), ~Zeroing(i)'
      PROVE  \/ BlocksOf(disk', i) = {}
             \/ i \in Named(disk) /\ ~Zeroing(i) /\ BlocksOf(disk', i) = BlocksOf(disk, i)
  <2>1. DiskType(disk')
    BY FlushEffect
  <2>2. i \in Inos /\ \E n \in Names : disk'.entry[n] = i /\ i # 0
    BY <1>3, <2>1, NamedType
  <2>3. PICK n \in Names : disk'.entry[n] = i /\ i # 0
    BY <2>2
  <2>4. CASE BlocksOf(disk', i) = {}
    BY <2>4
  <2>5. CASE BlocksOf(disk', i) = BlocksOf(disk, i) /\ ~(Is(1, "inode") /\ pending[1].at = i)
    <3>1. ~Zeroing(i)
      BY <1>3, <2>5, FlushZeroing
    <3>2. ~Renaming(n)
      <4> SUFFICES ASSUME Renaming(n) PROVE FALSE
        OBVIOUS
      <4>1. Is(1, "entry") /\ pending[1].val = i
        BY <2>3, FlushNext DEF Renaming, NextEntry
      <4> QED
        BY <1>1, <2>3, <3>1, <4>1 DEF Linking
    <3>3. disk.entry[n] = i
      BY <2>3, <3>2, FlushNext
    <3> QED
      BY <1>1, <2>3, <2>5, <3>1, <3>3, NamedType
  <2> QED
    BY <2>2, <2>4, <2>5, LinkBlocks
<1>4. \A i, j \in Named(disk') : i # j /\ ~Zeroing(i)' /\ ~Zeroing(j)' =>
         BlocksOf(disk', i) \intersect BlocksOf(disk', j) = {}
  BY <1>3 DEF Linking
<1>5. \A i \in Named(disk') : ~Zeroing(i)' => BlocksOf(disk', i) \subseteq mem'.bbits
  BY <1>1, <1>3 DEF Linking
<1> QED
  BY <1>2, <1>4, <1>5 DEF Linking, Is, Zeroing

(* file_write changes its own file and takes from no other.                 *)
LEMMA AppendBlocks ==
  ASSUME Types, Appending, Flush
  PROVE  /\ disk'.entry = disk.entry /\ Named(disk') = Named(disk) /\ file.no \in Inos
         /\ \A i \in Named(disk) : i # file.no => BlocksOf(disk', i) \subseteq BlocksOf(disk, i)
         /\ \A b \in BlocksOf(disk', file.no) : b \in BlocksOf(disk, file.no) \/ Mine(b)
         /\ Is(1, "bbits") => \A i \in Inos : BlocksOf(disk', i) = BlocksOf(disk, i)
<1> DEFINE w == pending[1]
<1>1. DiskType(disk) /\ 1 \in Steps /\ WriteType(w) /\ DiskType(disk') /\ Len(pending) \in Nat
  BY FlushFacts, FlushEffect
<1>2. file.no \in Inos /\ file.inode \in InodeType /\ Named(disk) \subseteq Inos
  BY <1>1, NamedType DEF Appending, Types, FileType
<1>3. w.to \in {"bbits", "index", "cells", "inode"}
  BY <1>1 DEF Appending
<1>4. /\ disk'.entry = disk.entry
      /\ disk'.table = IF Is(1, "inode") THEN [disk.table EXCEPT ![w.at] = w.val] ELSE disk.table
      /\ \A b \in Blocks :
            disk'.data[b].index = IF Is(1, "cells") /\ b = w.at THEN NoIndex
                                  ELSE IF Is(1, "index") /\ b = w.at THEN w.val ELSE disk.data[b].index
  BY <1>3, FlushEffect DEF Is
<1>5. Named(disk') = Named(disk)
  BY <1>4 DEF Named
<1>6. \A k \in 1 .. NIndirect : NoIndex[k] = 0
  BY DEF NoIndex
<1>7. CASE w.to = "bbits"
  <2>1. disk'.table = disk.table /\ \A b \in Blocks : disk'.data[b].index = disk.data[b].index
    BY <1>4, <1>7 DEF Is
  <2>2. \A i \in Inos : BlocksOf(disk', i) = BlocksOf(disk, i)
    BY <1>1, <2>1, BlocksOfSame
  <2> QED
    BY <1>2, <1>4, <1>5, <2>2
<1>8. CASE w.to = "cells"
  <2>1. disk'.table = disk.table
    BY <1>4, <1>8 DEF Is
  <2>2. \A b \in Blocks : \A k \in 1 .. NIndirect :
           disk'.data[b].index[k] = disk.data[b].index[k] \/ disk'.data[b].index[k] \in {} \cup {0}
    BY <1>4, <1>6, <1>8 DEF Is
  <2>3. \A i \in Inos : BlocksOf(disk', i) \subseteq BlocksOf(disk, i) \cup {}
    BY <1>1, <2>1, <2>2, BlocksOfMore
  <2> QED
    BY <1>2, <1>4, <1>5, <1>8, <2>3 DEF Is
<1>9. CASE w.to = "index"
  <2> DEFINE X == {b \in Blocks : Mine(b)}
  <2>1. disk'.table = disk.table
    BY <1>4, <1>9 DEF Is
  <2>2. Mine(w.at) /\ \A x \in 1 .. NIndirect : Mine(w.val[x]) /\ w.val[x] \in 0 .. NBlocks
    BY <1>1, <1>9 DEF Appending, Is, WriteType, IndexType
  <2>3. \A x \in 1 .. NIndirect : w.val[x] \in X \cup {0}
    BY <2>2, Sizes DEF Blocks
  <2>4. \A b \in Blocks : \A k \in 1 .. NIndirect :
           disk'.data[b].index[k] = disk.data[b].index[k] \/ disk'.data[b].index[k] \in X \cup {0}
    BY <1>4, <1>9, <2>3 DEF Is
  <2>5. BlocksOf(disk', file.no) \subseteq BlocksOf(disk, file.no) \cup X
    <3> HIDE DEF X
    <3> QED
      BY <1>1, <1>2, <2>1, <2>4, BlocksOfMore
  <2>6. ASSUME NEW i \in Named(disk), i # file.no PROVE BlocksOf(disk', i) = BlocksOf(disk, i)
    <3>1. \A b \in Blocks : b \in BlocksOf(disk, i) => b # w.at
      <4>1. w.at = 0 \/ w.at \notin BlocksOf(disk, i)
        BY <2>2, <2>6 DEF Mine, MineOf
      <4> QED
        BY <4>1, Sizes DEF Blocks
    <3>2. \A b \in Blocks : b \in BlocksOf(disk, i) => disk'.data[b].index = disk.data[b].index
      BY <1>4, <1>9, <3>1 DEF Is
    <3> QED
      BY <1>1, <1>2, <2>1, <3>2, BlocksOfSame
  <2> QED
    BY <1>2, <1>4, <1>5, <1>9, <2>5, <2>6 DEF Is
<1>10. CASE w.to = "inode"
  <2>1. Len(pending) = 1 /\ w.at = file.no /\ w.val = file.inode
    BY <1>1, <1>10 DEF Appending, Is
  <2>2. \A b \in Blocks : disk'.data[b].index = disk.data[b].index
    BY <1>4, <1>10 DEF Is
  <2>3. disk'.table = [disk.table EXCEPT ![file.no] = file.inode]
    BY <1>4, <1>10, <2>1 DEF Is
  <2>4. \A i \in Inos : i # file.no => disk'.table[i] = disk.table[i]
    BY <1>1, <2>3 DEF DiskType
  <2>5. \A i \in Named(disk) : i # file.no => BlocksOf(disk', i) = BlocksOf(disk, i)
    BY <1>1, <1>2, <2>2, <2>4, BlocksOfSame
  <2>6. disk'.table[file.no] = file.inode
    BY <1>1, <1>2, <2>3 DEF DiskType
  <2>7. \A x \in 1 .. IndexPos : Mine(file.inode.sec[x])
    BY DEF Appending
  <2>8. \A x \in 1 .. NIndirect : Mine(IndexIn(disk', file.inode)[x])
    <3> DEFINE b == file.inode.sec[IndexPos]
    <3>1. CASE b = 0
      BY <1>6, <3>1 DEF IndexIn, Mine, MineOf
    <3>2. CASE b # 0
      <4>1. b \in Blocks
        <5>1. b \in 0 .. NBlocks
          BY <1>2, Sizes DEF InodeType
        <5> QED
          BY <3>2, <5>1, Sizes DEF Blocks
      <4>2. ~(\E k \in Steps : Is(k, "index") /\ pending[k].at = b)
        BY <1>10, <2>1 DEF Steps, Is
      <4>3. \A x \in 1 .. NIndirect : Mine(disk.data[b].index[x])
        BY <3>2, <4>2 DEF Appending
      <4>4. IndexIn(disk', file.inode) = disk.data[b].index
        BY <2>2, <3>2, <4>1 DEF IndexIn
      <4> QED
        BY <4>3, <4>4
    <3> QED
      BY <3>1, <3>2
  <2>9. \A b \in BlocksOf(disk', file.no) : Mine(b)
    BY <2>6, <2>7, <2>8 DEF BlocksOf, Holds
  <2> QED
    BY <1>2, <1>4, <1>5, <1>10, <2>5, <2>9 DEF Is
<1> QED
  BY <1>3, <1>7, <1>8, <1>9, <1>10

(* What is free of other files stays so.                                    *)
LEMMA FlushMine ==
  ASSUME Types, Appending, Flush, NEW b, Mine(b)
  PROVE  MineOf(disk', mem'.bbits, file'.no, b)
<1>1. mem' = mem /\ file' = file
  BY FlushFacts
<1>2. Named(disk') = Named(disk) /\ \A i \in Named(disk) : i # file.no => BlocksOf(disk', i) \subseteq BlocksOf(disk, i)
  BY AppendBlocks
<1> QED
  BY <1>1, <1>2 DEF Mine, MineOf

(* A sector write of file_write.                                            *)
LEMMA FlushAppending ==
  ASSUME Types, Order, Appending, Flush
  PROVE  /\ Appending' \/ Linking'
         /\ \A i, j \in Named(disk') : i # j => BlocksOf(disk', i) \intersect BlocksOf(disk', j) = {}
         /\ \A i \in Named(disk') : BlocksOf(disk', i) \subseteq mem'.bbits
<1>1. /\ \A k \in Steps' : k \in Nat /\ k + 1 \in Steps /\ pending'[k] = pending[k + 1]
      /\ \A k \in Steps : k \in Nat /\ (k # 1 => k - 1 \in Steps' /\ pending'[k - 1] = pending[k])
      /\ mem' = mem /\ file' = file /\ 1 \in Steps /\ WriteType(pending[1]) /\ DiskType(disk) /\ pending # <<>>
      /\ Len(pending) \in Nat \ {0} /\ Len(pending') = Len(pending) - 1 /\ IsSeq(pending')
  BY FlushFacts
<1>2. /\ Named(disk') = Named(disk)
      /\ \A i \in Named(disk) : i # file.no => BlocksOf(disk', i) \subseteq BlocksOf(disk, i)
      /\ \A b \in BlocksOf(disk', file.no) : b \in BlocksOf(disk, file.no) \/ Mine(b)
  BY AppendBlocks
<1>3. /\ \A i, j \in Named(disk) : i # j => BlocksOf(disk, i) \intersect BlocksOf(disk, j) = {}
      /\ \A i \in Named(disk) : BlocksOf(disk, i) \subseteq mem.bbits
  BY DEF Appending
<1>4. \A i \in Named(disk') : 0 \notin BlocksOf(disk', i)
  BY DEF BlocksOf, Holds
<1>5. \A b \in BlocksOf(disk', file.no) : file.no \in Named(disk) =>
         b \in mem.bbits /\ \A i \in Named(disk) : i # file.no => b \notin BlocksOf(disk, i)
  BY <1>2, <1>3, <1>4 DEF Mine, MineOf
<1>6. \A i, j \in Named(disk') : i # j => BlocksOf(disk', i) \intersect BlocksOf(disk', j) = {}
  BY <1>2, <1>3, <1>5
<1>7. \A i \in Named(disk') : BlocksOf(disk', i) \subseteq mem'.bbits
  BY <1>1, <1>2, <1>3, <1>5
<1>8. CASE pending' = <<>>
  <2>1. Steps' = {}
    BY <1>8 DEF Steps
  <2> QED
    BY <1>6, <1>7, <2>1 DEF Linking
<1>9. CASE pending' # <<>>
  <2>1. Len(pending') \in Nat /\ Len(pending') # 0
    BY <1>1, <1>9 DEF IsSeq
  <2>2. Len(pending') \in Steps' /\ Len(pending') + 1 = Len(pending)
    BY <1>1, <2>1 DEF Steps
  <2>3. pending'[Len(pending')].to = "inode"
    BY <1>1, <2>2 DEF Appending, Is
  <2> DEFINE M(b) == MineOf(disk', mem'.bbits, file'.no, b)
  <2>4. ASSUME NEW k \in Steps'
        PROVE  /\ pending'[k].to \in {"bbits", "index", "cells", "inode"}
               /\ pending'[k].to = "inode" => k = Len(pending') /\ pending'[k].at = file'.no /\ pending'[k].val = file'.inode
               /\ pending'[k].to = "index" \/ pending'[k].to = "cells" => M(pending'[k].at)
               /\ pending'[k].to = "index" => \A x \in 1 .. NIndirect : M(pending'[k].val[x])
    <3>1. k \in Nat /\ k + 1 \in Steps /\ pending'[k] = pending[k + 1]
      BY <1>1
    <3> DEFINE w == pending[k + 1]
    <3>2. /\ w.to \in {"bbits", "index", "cells", "inode"}
          /\ w.to = "inode" => k + 1 = Len(pending) /\ w.at = file.no /\ w.val = file.inode
          /\ w.to = "index" \/ w.to = "cells" => Mine(w.at)
          /\ w.to = "index" => \A x \in 1 .. NIndirect : Mine(w.val[x])
      BY <3>1 DEF Appending, Is
    <3> HIDE DEF w, M
    <3>3. w.to = "index" \/ w.to = "cells" => M(w.at)
      BY <3>2, FlushMine DEF M
    <3>4. w.to = "index" => \A x \in 1 .. NIndirect : M(w.val[x])
      BY <3>2, FlushMine DEF M
    <3>5. w.to = "inode" => k = Len(pending')
      BY <1>1, <3>1, <3>2
    <3>6. pending'[k] = w
      BY <3>1 DEF w
    <3> QED
      BY <1>1, <3>2, <3>3, <3>4, <3>5, <3>6
  <2>5. \A x \in 1 .. IndexPos : M(file'.inode.sec[x])
    <3>1. \A x \in 1 .. IndexPos : Mine(file.inode.sec[x])
      BY DEF Appending
    <3> QED
      BY <1>1, <3>1, FlushMine
  <2>6. \/ file'.inode.sec[IndexPos] = 0
        \/ \E k \in Steps' : pending'[k].to = "index" /\ pending'[k].at = file'.inode.sec[IndexPos]
        \/ \A x \in 1 .. NIndirect : M(disk'.data[file'.inode.sec[IndexPos]].index[x])
    <3> DEFINE b == file.inode.sec[IndexPos]
    <3> SUFFICES ASSUME b # 0, ~(\E k \in Steps' : pending'[k].to = "index" /\ pending'[k].at = b)
                 PROVE  \A x \in 1 .. NIndirect : M(disk'.data[b].index[x])
      BY <1>1
    <3>1. b \in Blocks
      <4>1. file.inode \in InodeType
        BY DEF Appending, Types, FileType
      <4>2. b \in 0 .. NBlocks
        BY <4>1, Sizes DEF InodeType
      <4> QED
        BY <4>2, Sizes DEF Blocks
    <3>2. disk'.data[b].index = IF Is(1, "cells") /\ b = pending[1].at THEN NoIndex
                                ELSE IF Is(1, "index") /\ b = pending[1].at THEN pending[1].val
                                ELSE disk.data[b].index
      BY <3>1, FlushEffect
    <3>3. CASE Is(1, "cells") /\ b = pending[1].at
      <4>1. \A x \in 1 .. NIndirect : disk'.data[b].index[x] = 0
        BY <3>2, <3>3 DEF NoIndex
      <4> QED
        BY <4>1 DEF MineOf
    <3>4. CASE Is(1, "index") /\ b = pending[1].at
      <4>1. disk'.data[b].index = pending[1].val
        BY <3>2, <3>4 DEF Is
      <4>2. \A x \in 1 .. NIndirect : Mine(pending[1].val[x])
        BY <1>1, <3>4 DEF Appending
      <4> QED
        BY <4>1, <4>2, FlushMine
    <3>5. CASE ~(Is(1, "cells") /\ b = pending[1].at) /\ ~(Is(1, "index") /\ b = pending[1].at)
      <4>1. disk'.data[b].index = disk.data[b].index
        BY <3>2, <3>5
      <4>2. ~(\E k \in Steps : Is(k, "index") /\ pending[k].at = b)
        <5> SUFFICES ASSUME NEW k \in Steps, Is(k, "index"), pending[k].at = b PROVE FALSE
          OBVIOUS
        <5>1. k # 1
          BY <3>5
        <5>2. k - 1 \in Steps' /\ pending'[k - 1] = pending[k]
          BY <1>1, <5>1
        <5> QED
          BY <5>2 DEF Is
      <4>3. \A x \in 1 .. NIndirect : Mine(disk.data[b].index[x])
        BY <4>2 DEF Appending
      <4> QED
        BY <4>1, <4>3, FlushMine
    <3> QED
      BY <3>3, <3>4, <3>5
  <2>7. file' # Null /\ pending' # <<>> /\ file'.inode # Zeroed
    BY <1>1, <1>9 DEF Appending
  <2> HIDE DEF M
  <2>8. Appending'
    BY <1>6, <1>7, <2>3, <2>4, <2>5, <2>6, <2>7 DEF Appending, Is, Mine, M
  <2> QED
    BY <1>6, <1>7, <2>8
<1> QED
  BY <1>6, <1>7, <1>8, <1>9

(* The inductive invariant: it holds up to the first loss of power and from *)
(* there to the second; what makes a loss of power harmless holds before    *)
(* it.                                                                      *)
Core == Types /\ Order /\ BitsEnd /\ FileOK /\ (Linking \/ Appending)
StoreInv ==
    /\ crashes \in Nat
    /\ crashes <= 1 => Core
    /\ crashes = 0 => Recoverable /\ NamesOK

(* A sector write keeps the names apart.                                    *)
LEMMA FlushNames ==
  ASSUME Core, NamesOK, Flush
  PROVE  NamesOK'
<1> USE DEF Core
<1>1. /\ mem' = mem /\ file' = file /\ 1 \in Steps /\ WriteType(pending[1]) /\ DiskType(disk)
  BY FlushFacts
<1>2. \A n \in Names : ~Renaming(n)' /\ NextEntry(n)' = NextEntry(n) /\ disk'.entry[n] = NextEntry(n)
  BY FlushNext
<1>3. ASSUME NEW i \in Inos, i \notin mem'.ibits PROVE disk'.table[i] = Zeroed \/ Zeroing(i)'
  <2>1. disk'.table = IF Is(1, "inode") THEN [disk.table EXCEPT ![pending[1].at] = pending[1].val] ELSE disk.table
    BY FlushEffect
  <2>2. CASE Is(1, "inode") /\ pending[1].at = i
    <3>1. pending[1].val = Zeroed
      <4>1. CASE Linking
        BY <1>1, <2>2, <4>1 DEF Linking
      <4>2. CASE Appending
        <5>1. file # Null /\ i = file.no
          BY <1>1, <2>2, <4>2 DEF Appending
        <5>2. NextEntry(file.ink) = i /\ file.ink \in Names /\ i # 0
          BY <5>1, Sizes DEF FileOK, Types, FileType, Inos
        <5>3. i \in mem.ibits
          BY <5>2 DEF NamesOK
        <5> QED
          BY <1>1, <1>3, <5>3
      <4> QED
        BY <4>1, <4>2
    <3> QED
      BY <1>1, <2>1, <2>2, <3>1 DEF DiskType
  <2>3. CASE ~(Is(1, "inode") /\ pending[1].at = i)
    <3>1. disk'.table[i] = disk.table[i]
      BY <1>1, <2>1, <2>3 DEF DiskType
    <3>2. Zeroing(i) => Zeroing(i)'
      BY <2>3, FlushZeroing
    <3> QED
      BY <1>1, <1>3, <3>1, <3>2 DEF NamesOK
  <2> QED
    BY <2>2, <2>3
<1>4. \A n, p \in Names : n # p /\ NextEntry(n)' = NextEntry(p)' => NextEntry(n)' = 0
  BY <1>2 DEF NamesOK
<1>5. \A n, p \in Names : n # p /\ disk'.entry[n] = disk'.entry[p] => disk'.entry[n] = 0
  BY <1>2 DEF NamesOK
<1>6. \A n \in Names : NextEntry(n)' # 0 => NextEntry(n)' \in mem'.ibits
  BY <1>1, <1>2 DEF NamesOK
<1>7. \A n \in Names : ~Renaming(n)'
  BY <1>2
<1> QED
  BY <1>3, <1>4, <1>5, <1>6, <1>7 DEF NamesOK

(* A sector write of file_create or sys_unlink leaves a disk that can be    *)
(* mounted.                                                                 *)
LEMMA LinkRecoverable ==
  ASSUME Core, Linking, Recoverable, NamesOK, Flush
  PROVE  Recoverable'
<1> USE DEF Core
<1>1. /\ \A k \in Steps' : k \in Nat /\ k + 1 \in Steps /\ pending'[k] = pending[k + 1]
      /\ mem' = mem /\ 1 \in Steps /\ WriteType(pending[1]) /\ DiskType(disk) /\ pending # <<>>
  BY FlushFacts
<1>2. DiskType(disk') /\ disk'.bbits = IF Is(1, "bbits") THEN pending[1].val ELSE disk.bbits
  BY FlushEffect
<1>3. ASSUME NEW n \in Names, disk'.entry[n] # 0
      PROVE  \/ BlocksOf(disk', disk'.entry[n]) = {}
             \/ /\ ~Renaming(n) /\ disk'.entry[n] = disk.entry[n] /\ disk.entry[n] \in Named(disk)
                /\ BlocksOf(disk', disk'.entry[n]) = BlocksOf(disk, disk.entry[n])
  <2>1. disk'.entry[n] \in Inos
    BY <1>2, <1>3, NamedType
  <2>2. CASE Renaming(n)
    <3>1. disk'.entry[n] = NextEntry(n)
      BY FlushNext
    <3>2. disk.table[disk'.entry[n]] = Zeroed
      BY <1>3, <2>2, <3>1 DEF NamesOK
    <3>3. BlocksOf(disk, disk'.entry[n]) = {}
      BY <3>2, BlocksOfZeroed
    <3> QED
      BY <2>1, <3>3, LinkBlocks
  <2>3. CASE ~Renaming(n)
    <3>1. disk'.entry[n] = disk.entry[n]
      BY <2>3, FlushNext
    <3>2. disk.entry[n] \in Named(disk)
      BY <1>1, <1>3, <3>1, NamedType
    <3> QED
      BY <2>1, <2>3, <3>1, <3>2, LinkBlocks
  <2> QED
    BY <2>2, <2>3
<1>4. ASSUME NEW i \in Named(disk')
      PROVE  BlocksOf(disk', i) = {} \/ (i \in Named(disk) /\ BlocksOf(disk', i) = BlocksOf(disk, i))
  <2>1. PICK n \in Names : disk'.entry[n] = i /\ i # 0
    BY <1>2, NamedType
  <2> QED
    BY <1>3, <2>1
<1>5. \A i, j \in Named(disk') : i # j => BlocksOf(disk', i) \intersect BlocksOf(disk', j) = {}
  BY <1>4 DEF Recoverable
<1>6. ASSUME NEW i \in Named(disk') PROVE BlocksOf(disk', i) \subseteq disk'.bbits
  <2>1. PICK n \in Names : disk'.entry[n] = i /\ i # 0
    BY <1>2, NamedType
  <2>2. CASE Is(1, "bbits")
    <3>1. ~Renaming(n)
      BY <2>2 DEF Renaming, Is
    <3>2. CASE BlocksOf(disk', i) # {}
      <4>1. disk.entry[n] # 0 /\ BlocksOf(disk', i) = BlocksOf(disk, disk.entry[n])
        BY <1>3, <2>1, <3>2
      <4> QED
        BY <1>1, <1>2, <2>2, <3>1, <4>1 DEF Recoverable
    <3> QED
      BY <3>2
  <2>3. CASE ~Is(1, "bbits")
    BY <1>2, <1>4, <2>3 DEF Recoverable
  <2> QED
    BY <2>2, <2>3
<1>7. ASSUME NEW k \in Steps', pending'[k].to = "bbits", NEW n \in Names, disk'.entry[n] # 0
      PROVE  BlocksOf(disk', disk'.entry[n]) \subseteq pending'[k].val
  <2>1. k + 1 \in Steps /\ pending[k + 1].to = "bbits" /\ pending'[k].val = pending[k + 1].val
    BY <1>1, <1>7
  <2>2. CASE BlocksOf(disk', disk'.entry[n]) # {}
    <3>1. /\ ~Renaming(n) /\ disk.entry[n] # 0
          /\ BlocksOf(disk', disk'.entry[n]) = BlocksOf(disk, disk.entry[n])
      BY <1>3, <1>7, <2>2
    <3> QED
      BY <2>1, <3>1 DEF Recoverable, Is
  <2> QED
    BY <2>2
<1> QED
  BY <1>5, <1>6, <1>7 DEF Recoverable, Is

(* A sector write of file_write leaves a disk that can be mounted.          *)
LEMMA AppendRecoverable ==
  ASSUME Core, Appending, Recoverable, Flush
  PROVE  Recoverable'
<1> USE DEF Core
<1>1. /\ \A k \in Steps' : k \in Nat /\ k + 1 \in Steps /\ pending'[k] = pending[k + 1]
      /\ mem' = mem /\ 1 \in Steps /\ DiskType(disk) /\ pending # <<>> /\ halted' = halted
      /\ \A k \in Steps : k \in Nat
  BY FlushFacts
<1>2. DiskType(disk') /\ disk'.bbits = IF Is(1, "bbits") THEN pending[1].val ELSE disk.bbits
  BY FlushEffect
<1>3. /\ \A i, j \in Named(disk') : i # j => BlocksOf(disk', i) \intersect BlocksOf(disk', j) = {}
      /\ \A i \in Named(disk') : BlocksOf(disk', i) \subseteq mem'.bbits
  BY FlushAppending
<1>4. /\ disk'.entry = disk.entry /\ Named(disk') = Named(disk)
      /\ Is(1, "bbits") => \A i \in Inos : BlocksOf(disk', i) = BlocksOf(disk, i)
  BY AppendBlocks
<1>5. pending[1].to \in {"bbits", "index", "cells", "inode"}
  BY <1>1 DEF Appending
<1>6. CASE Is(1, "bbits")
  <2>1. ASSUME NEW k \in Steps, Is(k, "bbits"), NEW n \in Names, disk'.entry[n] # 0
        PROVE  BlocksOf(disk', disk'.entry[n]) \subseteq pending[k].val
    <3>1. ~Renaming(n)
      BY <1>6 DEF Renaming, Is
    <3>2. disk.entry[n] # 0 /\ disk'.entry[n] = disk.entry[n] /\ disk.entry[n] \in Inos
      BY <1>1, <1>4, <2>1, NamedType
    <3>3. BlocksOf(disk', disk'.entry[n]) = BlocksOf(disk, disk.entry[n])
      BY <1>4, <1>6, <3>2
    <3> QED
      BY <2>1, <3>1, <3>2, <3>3 DEF Recoverable
  <2>2. ASSUME NEW i \in Named(disk') PROVE BlocksOf(disk', i) \subseteq disk'.bbits
    <3>1. PICK n \in Names : disk'.entry[n] = i /\ i # 0
      BY <1>2, NamedType
    <3> QED
      BY <1>1, <1>2, <1>6, <2>1, <3>1
  <2>3. ASSUME NEW k \in Steps', pending'[k].to = "bbits", NEW n \in Names, disk'.entry[n] # 0
        PROVE  BlocksOf(disk', disk'.entry[n]) \subseteq pending'[k].val
    BY <1>1, <2>1, <2>3 DEF Is
  <2> QED
    BY <1>3, <2>2, <2>3 DEF Recoverable, Is
<1>7. CASE ~Is(1, "bbits")
  <2>1. \A k \in Steps : ~Is(k, "bbits")
    <3>1. \A k \in Steps : k = 1 \/ 1 < k
      BY DEF Steps
    <3> QED
      BY <1>1, <1>5, <1>7, <3>1 DEF Order, Is
  <2>2. ~halted
    BY <1>1, <1>7 DEF Order
  <2>3. disk'.bbits = mem'.bbits
    BY <1>1, <1>2, <1>7, <2>1, <2>2 DEF BitsEnd
  <2>4. \A k \in Steps' : pending'[k].to # "bbits"
    BY <1>1, <2>1 DEF Is
  <2> QED
    BY <1>3, <2>3, <2>4 DEF Recoverable, Is
<1> QED
  BY <1>6, <1>7

(* A sector write keeps the invariant.                                      *)
LEMMA FlushInv ==
  ASSUME StoreInv, Flush
  PROVE  StoreInv'
<1>1. crashes' = crashes
  BY DEF Flush
<1>2. ASSUME crashes <= 1 PROVE Core'
  <2>1. Core
    BY <1>2 DEF StoreInv
  <2> QED
    BY <2>1, FlushTypes, FlushOrder, FlushBits, FlushFile, FlushLinking, FlushAppending DEF Core
<1>3. ASSUME crashes = 0 PROVE Recoverable' /\ NamesOK'
  <2>1. Core /\ Recoverable /\ NamesOK
    BY <1>3 DEF StoreInv
  <2> QED
    BY <2>1, FlushNames, LinkRecoverable, AppendRecoverable DEF Core
<1> QED
  BY <1>1, <1>2, <1>3 DEF StoreInv

-----------------------------------------------------------------------------
(* Calls                                                                    *)

(* Between two calls.                                                       *)
LEMMA AtRest ==
  ASSUME Core, pending = <<>>
  PROVE  /\ Steps = {} /\ \A i : ~Zeroing(i)
         /\ \A n \in Names : ~Renaming(n) /\ NextEntry(n) = disk.entry[n]
         /\ \A i, j \in Named(disk) : i # j => BlocksOf(disk, i) \intersect BlocksOf(disk, j) = {}
         /\ \A i \in Named(disk) : BlocksOf(disk, i) \subseteq mem.bbits
         /\ ~halted => disk.bbits = mem.bbits
         /\ file # Null => FileType(file) /\ disk.entry[file.ink] = file.no /\ disk.table[file.no] = file.inode
         /\ DiskType(disk) /\ MemType(mem) /\ halted \in BOOLEAN
<1>1. Steps = {}
  BY DEF Steps
<1>2. \A i : ~Zeroing(i)
  BY <1>1 DEF Zeroing
<1>3. \A n \in Names : ~Renaming(n) /\ NextEntry(n) = disk.entry[n]
  BY DEF Renaming, NextEntry
<1>4. Linking
  BY DEF Core, Appending
<1>5. file # Null => FileType(file) /\ disk.entry[file.ink] = file.no /\ disk.table[file.no] = file.inode
  BY <1>1, <1>3 DEF Core, FileOK, Types, FileType
<1>6. ~halted => disk.bbits = mem.bbits
  BY <1>1 DEF Core, BitsEnd
<1> QED
  BY <1>1, <1>2, <1>3, <1>4, <1>5, <1>6 DEF Linking, Core, Types

(* What the directory and the inodes are between two calls.                 *)
LEMMA NamesAtRest ==
  ASSUME Core, NamesOK, pending = <<>>
  PROVE  /\ \A n, p \in Names : n # p /\ disk.entry[n] = disk.entry[p] => disk.entry[n] = 0
         /\ Named(disk) \subseteq mem.ibits
         /\ \A i \in Inos : i \notin mem.ibits => disk.table[i] = Zeroed
<1>1. /\ \A i : ~Zeroing(i)
      /\ \A n \in Names : ~Renaming(n) /\ NextEntry(n) = disk.entry[n]
      /\ DiskType(disk)
  BY AtRest
<1>2. \A i \in Named(disk) : \E n \in Names : disk.entry[n] = i /\ i # 0
  BY <1>1, NamedType
<1> QED
  BY <1>1, <1>2 DEF NamesOK

(* A sound disk and nothing to write.                                       *)
LEMMA RestCore ==
  ASSUME pending' = <<>>, DiskType(disk'), MemType(mem'), crashes' \in Nat, halted' \in BOOLEAN,
         file' # Null => /\ FileType(file') /\ disk'.entry[file'.ink] = file'.no
                         /\ disk'.table[file'.no] = file'.inode,
         ~halted' => disk'.bbits = mem'.bbits,
         \A i, j \in Named(disk') : i # j => BlocksOf(disk', i) \intersect BlocksOf(disk', j) = {},
         \A i \in Named(disk') : BlocksOf(disk', i) \subseteq mem'.bbits
  PROVE  Core'
<1>1. Steps' = {} /\ IsSeq(pending')
  BY DEF Steps, IsSeq
<1>2. Types'
  BY <1>1 DEF Types
<1>3. Order' /\ BitsEnd'
  BY <1>1 DEF Order, BitsEnd
<1>4. \A n \in Names : NextEntry(n)' = disk'.entry[n]
  BY DEF NextEntry, Renaming
<1>5. file' # Null => NextEntry(file.ink)' = file'.no
  BY DEF FileType, NextEntry, Renaming
<1>6. FileOK'
  BY <1>1, <1>5 DEF FileOK
<1>7. Linking'
  BY <1>1 DEF Linking
<1> QED
  BY <1>2, <1>3, <1>6, <1>7 DEF Core

(* Calls that only look, open or close a file, or stop the machine.         *)
LEMMA QuietInv ==
  ASSUME StoreInv, pending = <<>>, UNCHANGED <<disk, mem, pending, crashes>>,
         halted' = halted \/ halted' = TRUE,
         crashes <= 1 => (file' # Null => /\ FileType(file') /\ disk.entry[file'.ink] = file'.no
                                          /\ disk.table[file'.no] = file'.inode)
  PROVE  StoreInv'
<1>1. ASSUME crashes <= 1 PROVE Core'
  <2>1. Core
    BY <1>1 DEF StoreInv
  <2>2. crashes' \in Nat /\ (~halted' => ~halted)
    BY DEF StoreInv
  <2>3. /\ DiskType(disk) /\ MemType(mem) /\ halted \in BOOLEAN /\ (~halted => disk.bbits = mem.bbits)
        /\ \A i, j \in Named(disk) : i # j => BlocksOf(disk, i) \intersect BlocksOf(disk, j) = {}
        /\ \A i \in Named(disk) : BlocksOf(disk, i) \subseteq mem.bbits
    BY <2>1, AtRest
  <2>4. disk' = disk /\ mem' = mem /\ halted' \in BOOLEAN /\ pending' = <<>>
    BY <2>3
  <2>5. file' # Null => /\ FileType(file') /\ disk'.entry[file'.ink] = file'.no
                        /\ disk'.table[file'.no] = file'.inode
    BY <1>1, <2>4
  <2> QED
    BY <2>2, <2>3, <2>4, <2>5, RestCore
<1>2. ASSUME crashes = 0 PROVE Recoverable' /\ NamesOK'
  <2>1. Recoverable /\ NamesOK
    BY <1>2 DEF StoreInv
  <2>2. Recoverable'
    BY <2>1 DEF Recoverable, Steps, Is, Renaming
  <2>3. NamesOK'
    BY <2>1 DEF NamesOK, NextEntry, Renaming, Zeroing, Steps, Is
  <2> QED
    BY <2>2, <2>3
<1> QED
  BY <1>1, <1>2 DEF StoreInv

(* file_open.                                                               *)
LEMMA OpenInv ==
  ASSUME StoreInv, NEW name \in Names, Open(name)
  PROVE  StoreInv'
<1>1. /\ pending = <<>> /\ UNCHANGED <<disk, mem, pending, crashes>> /\ halted' = halted
      /\ disk.entry[name] # 0
      /\ file' = [no |-> disk.entry[name], inode |-> disk.table[disk.entry[name]], pos |-> 0, ink |-> name]
  BY DEF Open, Ready
<1>2. ASSUME crashes <= 1
      PROVE  FileType(file') /\ disk.entry[file'.ink] = file'.no /\ disk.table[file'.no] = file'.inode
  <2>1. DiskType(disk)
    BY <1>2 DEF StoreInv, Core, Types
  <2>2. disk.entry[name] \in Inos
    BY <1>1, <2>1, NamedType
  <2>3. disk.table[disk.entry[name]] \in InodeType
    BY <2>1, <2>2 DEF DiskType
  <2> QED
    BY <1>1, <2>2, <2>3 DEF FileType
<1> QED
  BY <1>1, <1>2, QuietInv

(* file_close.                                                              *)
LEMMA CloseInv ==
  ASSUME StoreInv, Close
  PROVE  StoreInv'
<1>1. /\ pending = <<>> /\ UNCHANGED <<disk, mem, pending, crashes>> /\ halted' = halted /\ file' = Null
  BY DEF Close, Ready
<1> QED
  BY <1>1, QuietInv

(* file_read and sys_lseek move fd_pos and nothing else.                    *)
LEMMA MoveInv ==
  ASSUME StoreInv, pending = <<>>, file # Null, NEW p, file' = [file EXCEPT !.pos = p],
         UNCHANGED <<disk, mem, pending, halted, crashes>>
  PROVE  StoreInv'
<1>1. ASSUME crashes <= 1
      PROVE  FileType(file') /\ disk.entry[file'.ink] = file'.no /\ disk.table[file'.no] = file'.inode
  <2>1. FileType(file) /\ disk.entry[file.ink] = file.no /\ disk.table[file.no] = file.inode
    BY <1>1, AtRest DEF StoreInv
  <2>2. /\ file'.no = file.no /\ file'.inode = file.inode /\ file'.ink = file.ink
        /\ file' = [no |-> file'.no, inode |-> file'.inode, pos |-> file'.pos, ink |-> file'.ink]
    BY <2>1 DEF FileType
  <2> QED
    BY <2>1, <2>2 DEF FileType
<1> QED
  BY <1>1, QuietInv

(* An ASSERT before anything is written.                                    *)
LEMMA HaltInv ==
  ASSUME StoreInv, pending = <<>>, HaltAfter(<<>>)
  PROVE  StoreInv'
<1>1. UNCHANGED <<disk, mem, pending, crashes>> /\ halted' = TRUE /\ file' = file
  BY DEF HaltAfter
<1>2. crashes <= 1 => (file # Null => /\ FileType(file) /\ disk.entry[file.ink] = file.no
                                      /\ disk.table[file.no] = file.inode)
  BY AtRest DEF StoreInv
<1> QED
  BY <1>1, <1>2, QuietInv

(* partition_format and mount_partition establish the invariant.            *)
LEMMA InitInv == Init => StoreInv
<1> SUFFICES ASSUME Init PROVE StoreInv
  OBVIOUS
<1>1. /\ disk = Formatted /\ mem = Mounted(Formatted) /\ file = Null /\ pending = <<>> /\ halted = FALSE /\ crashes = 0
  BY DEF Init
<1>2. DiskType(disk) /\ \A n \in Names : disk.entry[n] = 0
  <2>1. \A b \in Blocks : disk.data[b] = [cells |-> Blank, index |-> NoIndex]
    BY <1>1 DEF Formatted
  <2>2. \A b \in Blocks : disk.data[b].index \in IndexType
    BY <2>1, ZeroedType
  <2>3. /\ disk = [entry |-> disk.entry, rootSize |-> disk.rootSize, table |-> disk.table,
                   ibits |-> disk.ibits, bbits |-> disk.bbits, data |-> disk.data]
        /\ disk.data = [b \in Blocks |-> disk.data[b]]
    BY <1>1 DEF Formatted
  <2>4. /\ disk.entry \in [Names -> 0 .. NFiles] /\ disk.rootSize \in Int
        /\ disk.table \in [Inos -> InodeType] /\ disk.ibits = {} /\ disk.bbits = {}
        /\ \A n \in Names : disk.entry[n] = 0
    BY <1>1, ZeroedType, Sizes DEF Formatted
  <2> QED
    BY <2>2, <2>3, <2>4 DEF DiskType
<1>3. MemType(mem) /\ mem.bbits = disk.bbits
  BY <1>1, <1>2 DEF Mounted, MemType, DiskType
<1>4. Named(disk) = {}
  BY <1>2 DEF Named
<1>5. Steps = {} /\ IsSeq(pending)
  BY <1>1 DEF Steps, IsSeq
<1>6. Types
  BY <1>1, <1>2, <1>3, <1>5 DEF Types
<1>7. Order /\ BitsEnd /\ FileOK /\ Linking
  BY <1>1, <1>3, <1>4, <1>5 DEF Order, BitsEnd, FileOK, Linking
<1>8. Recoverable
  BY <1>4, <1>5 DEF Recoverable
<1>9. \A i \in Inos : disk.table[i] = Zeroed
  BY <1>1 DEF Formatted
<1>10. NamesOK
  BY <1>1, <1>2, <1>9 DEF NamesOK, NextEntry, Renaming
<1> QED
  BY <1>1, <1>6, <1>7, <1>8, <1>10 DEF StoreInv, Core

(* After the first loss of power the disk is sound.                         *)
LEMMA CrashInv ==
  ASSUME StoreInv, Crash
  PROVE  StoreInv'
<1>1. /\ crashes' = crashes + 1 /\ disk' = disk /\ mem' = Mounted(disk) /\ file' = Null
      /\ pending' = <<>> /\ halted' = FALSE /\ crashes \in Nat
  BY DEF Crash, StoreInv
<1>2. ASSUME crashes' <= 1 PROVE Core'
  <2>1. crashes = 0
    BY <1>1, <1>2
  <2>2. Recoverable /\ DiskType(disk)
    BY <2>1 DEF StoreInv, Core, Types
  <2>3. MemType(mem') /\ mem'.bbits = disk.bbits
    BY <1>1, <2>2 DEF Mounted, MemType, DiskType
  <2>4. /\ \A i, j \in Named(disk') : i # j => BlocksOf(disk', i) \intersect BlocksOf(disk', j) = {}
        /\ \A i \in Named(disk') : BlocksOf(disk', i) \subseteq mem'.bbits
    BY <1>1, <2>2, <2>3 DEF Recoverable
  <2>5. DiskType(disk') /\ crashes' \in Nat /\ disk'.bbits = mem'.bbits
    BY <1>1, <2>2, <2>3
  <2>6. halted' \in BOOLEAN
    BY <1>1
  <2> QED
    BY <1>1, <2>3, <2>4, <2>5, <2>6, RestCore
<1> QED
  BY <1>1, <1>2 DEF StoreInv

(* file_create                                                              *)
LEMMA CreateInv ==
  ASSUME StoreInv, NEW name \in Names, Create(name)
  PROVE  StoreInv'
<1> DEFINE no == Min(Inos \ mem.ibits)
<1>1. /\ pending = <<>> /\ ~halted /\ disk.entry[name] = 0 /\ mem.ibits # Inos
      /\ file' = [no |-> no, inode |-> Zeroed, pos |-> 0, ink |-> name]
      /\ mem' = [mem EXCEPT !.ibits = @ \cup {no}, !.rootSize = @ + 1]
      /\ pending' = <<EntryWrite(name, no), RootWrite(mem.rootSize + 1),
                      InodeWrite(no, Zeroed), InodeBits(mem.ibits \cup {no})>>
      /\ UNCHANGED <<disk, halted, crashes>>
  BY DEF Create, Ready
<1>0. SUFFICES ASSUME crashes <= 1 PROVE StoreInv'
  BY <1>1 DEF StoreInv
<1>2. Core
  BY <1>0 DEF StoreInv
<1>3. /\ \A i, j \in Named(disk) : i # j => BlocksOf(disk, i) \intersect BlocksOf(disk, j) = {}
      /\ \A i \in Named(disk) : BlocksOf(disk, i) \subseteq mem.bbits
      /\ disk.bbits = mem.bbits /\ DiskType(disk) /\ MemType(mem)
      /\ \A n \in Names : NextEntry(n) = disk.entry[n]
  BY <1>1, <1>2, AtRest
<1>4. no \in Inos \ mem.ibits /\ no # 0 /\ no \in 0 .. NFiles
  <2> HIDE DEF no
  <2>0. mem.ibits \in SUBSET Inos /\ mem.ibits # Inos
    BY <1>1, <1>3 DEF MemType
  <2>1. Inos \ mem.ibits \in SUBSET Nat /\ Inos \ mem.ibits # {}
    <3>1. Inos \in SUBSET Nat
      BY Sizes DEF Inos
    <3>2. \E i \in Inos : i \notin mem.ibits
      BY <2>0
    <3> QED
      BY <3>1, <3>2
  <2>2. no \in Inos \ mem.ibits
    BY <2>1, MinIn DEF no
  <2> QED
    BY <2>2, Sizes DEF Inos
<1>5. /\ Len(pending') = 4 /\ IsSeq(pending') /\ pending' # <<>>
      /\ pending'[1] = EntryWrite(name, no) /\ pending'[2] = RootWrite(mem.rootSize + 1)
      /\ pending'[3] = InodeWrite(no, Zeroed) /\ pending'[4] = InodeBits(mem.ibits \cup {no})
  BY <1>1, FourIsSeq
<1> HIDE DEF no
<1>6. /\ pending'[1].to = "entry" /\ pending'[1].at = name /\ pending'[1].val = no
      /\ pending'[2].to = "root" /\ pending'[2].val = mem.rootSize + 1
      /\ pending'[3].to = "inode" /\ pending'[3].at = no /\ pending'[3].val = Zeroed
      /\ pending'[4].to = "ibits" /\ pending'[4].val = mem.ibits \cup {no}
  BY <1>5 DEF EntryWrite, RootWrite, InodeWrite, InodeBits
<1>7. Steps' = {1, 2, 3, 4}
  BY <1>5 DEF Steps
<1>8. /\ mem'.bbits = mem.bbits /\ mem'.ibits = mem.ibits \cup {no} /\ mem'.rootSize = mem.rootSize + 1
      /\ MemType(mem')
  <2>1. mem.ibits \cup {no} \in SUBSET Inos /\ mem.rootSize + 1 \in Int
    BY <1>3, <1>4 DEF MemType
  <2>2. mem' = [mem EXCEPT !.ibits = mem.ibits \cup {no}, !.rootSize = mem.rootSize + 1]
    BY <1>1 DEF no
  <2> QED
    BY <1>3, <2>1, <2>2 DEF MemType
<1>9. FileType(file') /\ file'.no = no /\ file'.inode = Zeroed /\ file'.ink = name
  BY <1>1, <1>4, ZeroedType DEF FileType
<1>10. Types'
  <2>1. \A k \in Steps' : WriteType(pending'[k])
    <3>1. WriteType(pending'[1])
      BY <1>4, <1>6 DEF WriteType
    <3>2. WriteType(pending'[2])
      BY <1>3, <1>6 DEF WriteType, MemType
    <3>3. WriteType(pending'[3])
      BY <1>4, <1>6, ZeroedType DEF WriteType
    <3>4. WriteType(pending'[4])
      BY <1>3, <1>4, <1>6 DEF WriteType, MemType
    <3> QED
      BY <1>7, <3>1, <3>2, <3>3, <3>4
  <2>2. crashes' \in Nat /\ halted' \in BOOLEAN
    BY <1>1, <1>2 DEF Core, Types
  <2> QED
    BY <1>1, <1>3, <1>5, <1>8, <1>9, <2>1, <2>2 DEF Types
<1>11. Order'
  BY <1>1, <1>6, <1>7 DEF Order, Is
<1>12. BitsEnd'
  BY <1>1, <1>3, <1>6, <1>7, <1>8 DEF BitsEnd, Is
<1>13. \A n \in Names : /\ Renaming(n)' <=> n = name
                        /\ NextEntry(n)' = IF n = name THEN no ELSE disk.entry[n]
  BY <1>1, <1>5, <1>6 DEF Renaming, NextEntry, Is
<1>14. FileOK'
  <2>1. NextEntry(file.ink)' = file'.no
    BY <1>5, <1>6, <1>9 DEF NextEntry, Renaming, Is
  <2>2. \A k \in Steps' : pending'[k].to = "inode" /\ pending'[k].at = file'.no => pending'[k].val = file'.inode
    BY <1>6, <1>7, <1>9
  <2>3. \E k \in Steps' : pending'[k].to = "inode" /\ pending'[k].at = file'.no
    BY <1>6, <1>7, <1>9
  <2> QED
    BY <2>1, <2>2, <2>3 DEF FileOK, Is
<1>15. \A i : Zeroing(i)' <=> i = no
  BY <1>6, <1>7 DEF Zeroing, Is
<1>16. Linking'
  <2>1. \A k \in Steps' : /\ pending'[k].to \in {"entry", "root", "ibits", "bbits", "inode"}
                          /\ (pending'[k].to = "inode" => pending'[k].val = Zeroed)
                          /\ (pending'[k].to = "entry" => pending'[k].val = no)
    BY <1>6, <1>7
  <2>2. \E k \in Steps' : pending'[k].to = "inode" /\ pending'[k].at = no /\ pending'[k].val = Zeroed
    BY <1>6, <1>7
  <2>3. \A k \in Steps' : pending'[k].to = "entry" =>
           \E j \in Steps' : pending'[j].to = "inode" /\ pending'[j].at = pending'[k].val /\ pending'[j].val = Zeroed
    BY <2>1, <2>2
  <2>4. /\ \A i, j \in Named(disk') : i # j => BlocksOf(disk', i) \intersect BlocksOf(disk', j) = {}
        /\ \A i \in Named(disk') : BlocksOf(disk', i) \subseteq mem'.bbits
    BY <1>1, <1>3, <1>8
  <2> QED
    BY <2>1, <2>3, <2>4 DEF Linking, Is, Zeroing
<1>17. ASSUME crashes = 0 PROVE Recoverable' /\ NamesOK'
  <2>1. NamesOK /\ Recoverable
    BY <1>17 DEF StoreInv
  <2>2. /\ \A n, p \in Names : n # p /\ disk.entry[n] = disk.entry[p] => disk.entry[n] = 0
        /\ Named(disk) \subseteq mem.ibits
        /\ \A i \in Inos : i \notin mem.ibits => disk.table[i] = Zeroed
    BY <1>1, <1>2, <2>1, NamesAtRest
  <2>3. Recoverable'
    BY <1>1, <1>6, <1>7, <2>1 DEF Recoverable, Is
  <2>4. \A n \in Names : disk.entry[n] # 0 => disk.entry[n] \in mem.ibits /\ disk.entry[n] # no
    BY <1>3, <1>4, <2>2, NamedType
  <2>5. \A n, p \in Names : n # p /\ NextEntry(n)' = NextEntry(p)' => NextEntry(n)' = 0
    BY <1>4, <1>13, <2>2, <2>4
  <2>6. \A n \in Names : NextEntry(n)' # 0 => NextEntry(n)' \in mem'.ibits
    BY <1>8, <1>13, <2>4
  <2>7. \A n \in Names : Renaming(n)' /\ NextEntry(n)' # 0 => disk'.table[NextEntry(n)'] = Zeroed
    BY <1>1, <1>4, <1>13, <2>2
  <2>8. \A i \in Inos : i \notin mem'.ibits => disk'.table[i] = Zeroed
    BY <1>1, <1>8, <2>2
  <2>9. \A n, p \in Names : n # p /\ disk'.entry[n] = disk'.entry[p] => disk'.entry[n] = 0
    BY <1>1, <2>2
  <2> QED
    BY <2>3, <2>5, <2>6, <2>7, <2>8, <2>9 DEF NamesOK
<1> QED
  BY <1>1, <1>10, <1>11, <1>12, <1>14, <1>16, <1>17 DEF StoreInv, Core

(* sys_unlink: the writes.                                                  *)
UnlinkWrites(name, no) ==
    <<EntryWrite(name, 0), RootWrite(mem.rootSize - 1)>> \o InodeRealse(no)

UnlinkShape(p, all, m, name, no) ==
    /\ m \in Nat /\ IsSeq(p) /\ Len(p) = m + 4
    /\ p[1].to = "entry" /\ p[1].at = name /\ p[1].val = 0
    /\ p[2].to = "root" /\ p[2].val = mem.rootSize - 1
    /\ \A k \in 3 .. m + 2 : p[k].to = "bbits" /\ p[k].val = mem.bbits \ {all[j] : j \in 1 .. k - 2}
    /\ p[m + 3].to = "ibits" /\ p[m + 3].val = mem.ibits \ {no}
    /\ p[m + 4].to = "inode" /\ p[m + 4].at = no /\ p[m + 4].val = Zeroed

(* The entry, the parent, a bitmap for each block, the inode.               *)
LEMMA UnlinkSteps ==
  ASSUME DiskType(disk), NEW name, NEW no \in Inos, NEW p, p = UnlinkWrites(name, no),
         NEW all, all = FreedBlocks(disk.table[no]), NEW m, m = Len(all)
  PROVE  UnlinkShape(p, all, m, name, no)
<1> DEFINE Bits(k) == BlockBits(mem.bbits \ {all[j] : j \in 1 .. k})
           bits == [k \in DOMAIN all |-> Bits(k)]
           first == <<EntryWrite(name, 0), RootWrite(mem.rootSize - 1)>>
           last == <<InodeBits(mem.ibits \ {no}), InodeWrite(no, Zeroed)>>
           rest == bits \o last
<1>1. disk.table[no] \in InodeType
  BY DEF DiskType
<1>2. IsSeq(all) /\ m \in Nat /\ DOMAIN all = 1 .. m
  BY <1>1, FreedAll DEF IsSeq
<1>3. IsSeq(bits) /\ Len(bits) = m /\ \A k \in 1 .. m : bits[k] = Bits(k)
  <2> HIDE DEF Bits
  <2>1. bits = [k \in 1 .. m |-> Bits(k)]
    BY <1>2
  <2>2. bits = [k \in 1 .. m |-> bits[k]]
    BY <2>1
  <2> HIDE DEF bits
  <2> QED
    BY <1>2, <2>1, <2>2, FunIsSeq
<1>4. /\ IsSeq(first) /\ Len(first) = 2 /\ first[1] = EntryWrite(name, 0) /\ first[2] = RootWrite(mem.rootSize - 1)
      /\ IsSeq(last) /\ Len(last) = 2 /\ last[1] = InodeBits(mem.ibits \ {no}) /\ last[2] = InodeWrite(no, Zeroed)
  BY TwoIsSeq
<1>5. p = first \o rest
  BY DEF InodeRealse, UnlinkWrites
<1> HIDE DEF Bits, bits, first, last
<1>6. /\ IsSeq(rest) /\ Len(rest) = m + 2
      /\ \A i \in 1 .. m : rest[i] = Bits(i)
      /\ \A i \in 1 .. 2 : rest[m + i] = last[i]
  <2>1. rest = bits \o last
    OBVIOUS
  <2> HIDE DEF rest
  <2>2. /\ IsSeq(rest) /\ Len(rest) = m + 2
        /\ \A i \in 1 .. m : rest[i] = bits[i]
        /\ \A i \in 1 .. 2 : rest[m + i] = last[i]
    <3>1. IsSeq(bits) /\ IsSeq(last) /\ Len(bits) = m /\ Len(last) = 2
      BY <1>3, <1>4
    <3> HIDE DEF bits, last
    <3>2. /\ IsSeq(bits \o last) /\ Len(bits \o last) = Len(bits) + Len(last)
          /\ \A i \in 1 .. Len(bits) + Len(last) :
                (bits \o last)[i] = IF i <= Len(bits) THEN bits[i] ELSE last[i - Len(bits)]
      BY <3>1, ConcatIsSeq
    <3>3. \A i \in 1 .. m + 2 : rest[i] = IF i <= m THEN bits[i] ELSE last[i - m]
      BY <2>1, <3>1, <3>2
    <3>4. \A i \in 1 .. 2 : m + i \in 1 .. m + 2 /\ ~(m + i <= m) /\ (m + i) - m = i
      BY <1>2
    <3>5. \A i \in 1 .. m : i \in 1 .. m + 2 /\ i <= m
      BY <1>2
    <3> QED
      BY <2>1, <3>1, <3>2, <3>3, <3>4, <3>5
  <2> QED
    BY <1>3, <2>2
<1> HIDE DEF rest
<1>7. /\ IsSeq(p) /\ Len(p) = 2 + (m + 2)
      /\ \A i \in 1 .. 2 : p[i] = first[i]
      /\ \A i \in 1 .. m + 2 : p[2 + i] = rest[i]
  <2>1. IsSeq(first) /\ IsSeq(rest) /\ Len(first) = 2 /\ Len(rest) = m + 2
    BY <1>4, <1>6
  <2>2. /\ IsSeq(first \o rest) /\ Len(first \o rest) = Len(first) + Len(rest)
        /\ \A i \in 1 .. Len(first) + Len(rest) :
              (first \o rest)[i] = IF i <= Len(first) THEN first[i] ELSE rest[i - Len(first)]
    BY <2>1, ConcatIsSeq
  <2>3. \A i \in 1 .. 2 + (m + 2) : p[i] = IF i <= 2 THEN first[i] ELSE rest[i - 2]
    BY <1>5, <2>1, <2>2
  <2>4. \A i \in 1 .. m + 2 : 2 + i \in 1 .. 2 + (m + 2) /\ ~(2 + i <= 2) /\ (2 + i) - 2 = i
    BY <1>2
  <2>5. \A i \in 1 .. 2 : i \in 1 .. 2 + (m + 2) /\ i <= 2
    BY <1>2
  <2> QED
    BY <1>5, <2>1, <2>2, <2>3, <2>4, <2>5
<1>8. p[1] = EntryWrite(name, 0) /\ p[2] = RootWrite(mem.rootSize - 1)
  BY <1>4, <1>7
<1>9. \A k \in 3 .. m + 2 : p[k] = Bits(k - 2)
  <2> SUFFICES ASSUME NEW k \in 3 .. m + 2 PROVE p[k] = Bits(k - 2)
    OBVIOUS
  <2>1. k - 2 \in 1 .. m /\ k - 2 \in 1 .. m + 2 /\ 2 + (k - 2) = k
    BY <1>2
  <2> QED
    BY <1>6, <1>7, <2>1
<1>10. p[m + 3] = InodeBits(mem.ibits \ {no}) /\ p[m + 4] = InodeWrite(no, Zeroed)
  <2>1. m + 1 \in 1 .. m + 2 /\ m + 2 \in 1 .. m + 2 /\ 2 + (m + 1) = m + 3 /\ 2 + (m + 2) = m + 4
    BY <1>2
  <2>2. rest[m + 1] = last[1] /\ rest[m + 2] = last[2]
    BY <1>6
  <2> QED
    BY <1>4, <1>7, <2>1, <2>2
<1>11. \A k \in 3 .. m + 2 : p[k].to = "bbits" /\ p[k].val = mem.bbits \ {all[j] : j \in 1 .. k - 2}
  <2> SUFFICES ASSUME NEW k \in 3 .. m + 2
               PROVE  p[k].to = "bbits" /\ p[k].val = mem.bbits \ {all[j] : j \in 1 .. k - 2}
    OBVIOUS
  <2> DEFINE left == mem.bbits \ {all[j] : j \in 1 .. k - 2}
  <2>1. p[k] = BlockBits(left)
    BY <1>9 DEF Bits
  <2> HIDE DEF left
  <2>2. p[k].to = "bbits" /\ p[k].val = left
    BY <2>1 DEF BlockBits
  <2> QED
    BY <2>2 DEF left
<1>12. /\ p[1].to = "entry" /\ p[1].at = name /\ p[1].val = 0
       /\ p[2].to = "root" /\ p[2].val = mem.rootSize - 1
       /\ p[m + 3].to = "ibits" /\ p[m + 3].val = mem.ibits \ {no}
       /\ p[m + 4].to = "inode" /\ p[m + 4].at = no /\ p[m + 4].val = Zeroed
  BY <1>8, <1>10 DEF EntryWrite, RootWrite, InodeBits, InodeWrite
<1> QED
  BY <1>2, <1>7, <1>11, <1>12 DEF UnlinkShape

(* sys_unlink gives back the blocks of the one file.                        *)
LEMMA UnlinkInv ==
  ASSUME StoreInv, NEW name \in Names, Unlink(name)
  PROVE  StoreInv'
<1> DEFINE no == disk.entry[name]
           all == FreedBlocks(disk.table[no])
           m == Len(all)
<1>1. /\ pending = <<>> /\ ~halted /\ no # 0 /\ (file # Null => file.no # no)
      /\ mem' = [rootSize |-> mem.rootSize - 1, ibits |-> mem.ibits \ {no}, bbits |-> mem.bbits \ ToSet(all)]
      /\ pending' = UnlinkWrites(name, no)
      /\ UNCHANGED <<disk, file, halted, crashes>>
  BY DEF Unlink, Ready, IsOpen, UnlinkWrites
<1>0. SUFFICES ASSUME crashes <= 1 PROVE StoreInv'
  BY <1>1 DEF StoreInv
<1>2. Core
  BY <1>0 DEF StoreInv
<1>3. /\ \A i, j \in Named(disk) : i # j => BlocksOf(disk, i) \intersect BlocksOf(disk, j) = {}
      /\ \A i \in Named(disk) : BlocksOf(disk, i) \subseteq mem.bbits
      /\ disk.bbits = mem.bbits /\ DiskType(disk) /\ MemType(mem)
      /\ \A n \in Names : NextEntry(n) = disk.entry[n]
      /\ file # Null => FileType(file) /\ disk.entry[file.ink] = file.no /\ disk.table[file.no] = file.inode
  BY <1>1, <1>2, AtRest
<1>4. no \in Named(disk) /\ no \in Inos
  BY <1>1, <1>3, NamedType
<1>5. /\ m \in Nat /\ ToSet(all) = BlocksOf(disk, no) /\ ToSet(all) = {all[j] : j \in 1 .. m}
  <2>1. disk.table[no] \in InodeType
    BY <1>3, <1>4 DEF DiskType
  <2> QED
    BY <1>3, <2>1, FreedAll DEF BlocksOf
<1>6. /\ IsSeq(pending') /\ pending' # <<>> /\ Len(pending') = m + 4 /\ Steps' = 1 .. m + 4
      /\ pending'[1].to = "entry" /\ pending'[1].at = name /\ pending'[1].val = 0
      /\ pending'[2].to = "root" /\ pending'[2].val = mem.rootSize - 1
      /\ \A k \in 3 .. m + 2 : pending'[k].to = "bbits" /\ pending'[k].val = mem.bbits \ {all[j] : j \in 1 .. k - 2}
      /\ pending'[m + 3].to = "ibits" /\ pending'[m + 3].val = mem.ibits \ {no}
      /\ pending'[m + 4].to = "inode" /\ pending'[m + 4].at = no /\ pending'[m + 4].val = Zeroed
  <2> HIDE DEF no
  <2>1. /\ IsSeq(pending') /\ Len(pending') = m + 4
        /\ pending'[1].to = "entry" /\ pending'[1].at = name /\ pending'[1].val = 0
        /\ pending'[2].to = "root" /\ pending'[2].val = mem.rootSize - 1
        /\ \A k \in 3 .. m + 2 : pending'[k].to = "bbits" /\ pending'[k].val = mem.bbits \ {all[j] : j \in 1 .. k - 2}
        /\ pending'[m + 3].to = "ibits" /\ pending'[m + 3].val = mem.ibits \ {no}
        /\ pending'[m + 4].to = "inode" /\ pending'[m + 4].at = no /\ pending'[m + 4].val = Zeroed
    <3>1. DiskType(disk) /\ no \in Inos /\ pending' = UnlinkWrites(name, no)
      BY <1>1, <1>3, <1>4
    <3>2. all = FreedBlocks(disk.table[no]) /\ m = Len(all)
      OBVIOUS
    <3> HIDE DEF all, m
    <3>3. UnlinkShape(pending', all, m, name, no)
      BY <3>1, <3>2, UnlinkSteps
    <3> QED
      BY <3>3 DEF UnlinkShape
  <2> HIDE DEF all, m
  <2> QED
    BY <1>5, <2>1 DEF Steps
<1> HIDE DEF no, all, m
<1>7. \A k \in Steps' : k = 1 \/ k = 2 \/ k \in 3 .. m + 2 \/ k = m + 3 \/ k = m + 4
  BY <1>5, <1>6
<1>8. /\ mem'.bbits = mem.bbits \ BlocksOf(disk, no) /\ mem'.ibits = mem.ibits \ {no}
      /\ mem'.rootSize = mem.rootSize - 1 /\ MemType(mem')
  BY <1>1, <1>3, <1>5 DEF MemType
<1>9. Types'
  <2>1. \A k \in Steps' : WriteType(pending'[k])
    <3>1. WriteType(pending'[1])
      BY <1>6, Sizes DEF WriteType
    <3>2. WriteType(pending'[2])
      BY <1>3, <1>6 DEF WriteType, MemType
    <3>3. \A k \in 3 .. m + 2 : WriteType(pending'[k])
      BY <1>3, <1>6 DEF WriteType, MemType
    <3>4. WriteType(pending'[m + 3])
      BY <1>3, <1>6 DEF WriteType, MemType
    <3>5. WriteType(pending'[m + 4])
      BY <1>4, <1>6, ZeroedType DEF WriteType
    <3> QED
      BY <1>7, <3>1, <3>2, <3>3, <3>4, <3>5
  <2>2. crashes' \in Nat /\ halted' \in BOOLEAN /\ (file' # Null => FileType(file'))
    BY <1>1, <1>2 DEF Core, Types
  <2> QED
    BY <1>1, <1>3, <1>6, <1>8, <2>1, <2>2 DEF Types
<1>10. \A k \in Steps' : /\ pending'[k].to = "entry" <=> k = 1
                         /\ pending'[k].to = "bbits" <=> k \in 3 .. m + 2
                         /\ pending'[k].to = "inode" <=> k = m + 4
                         /\ pending'[k].to = "ibits" <=> k = m + 3
                         /\ pending'[k].to = "root" <=> k = 2
                         /\ pending'[k].to \in {"entry", "root", "ibits", "bbits", "inode"}
  BY <1>5, <1>6, <1>7
<1>11. Order'
  <2>1. \A j, k \in Steps' : j < k /\ pending'[j].to \in {"index", "cells", "inode"} => pending'[k].to # "bbits"
    BY <1>5, <1>10
  <2> QED
    BY <1>1, <1>10, <2>1 DEF Order, Is
<1>12. BitsEnd'
  <2>1. ASSUME NEW k \in Steps', pending'[k].to = "bbits", \A j \in Steps' : j > k => pending'[j].to # "bbits"
        PROVE  pending'[k].val = mem'.bbits
    <3>1. k \in 3 .. m + 2
      BY <1>10, <2>1
    <3>2. k = m + 2
      <4> SUFFICES ASSUME k < m + 2 PROVE FALSE
        BY <1>5, <3>1
      <4>1. k + 1 \in 3 .. m + 2 /\ k + 1 \in Steps' /\ k + 1 > k
        BY <1>5, <1>6, <3>1
      <4> QED
        BY <1>10, <2>1, <4>1
    <3>3. k - 2 = m
      BY <1>5, <3>2
    <3>4. pending'[k].val = mem.bbits \ {all[j] : j \in 1 .. k - 2}
      BY <1>6, <3>1
    <3>5. pending'[k].val = mem.bbits \ {all[j] : j \in 1 .. m}
      BY <3>3, <3>4
    <3> QED
      BY <1>5, <1>8, <3>5
  <2>2. ASSUME \A k \in Steps' : pending'[k].to # "bbits" PROVE disk'.bbits = mem'.bbits
    <3>1. m = 0
      <4> SUFFICES ASSUME m > 0 PROVE FALSE
        BY <1>5
      <4>1. 3 \in 3 .. m + 2 /\ 3 \in Steps'
        BY <1>5, <1>6
      <4> QED
        BY <1>10, <2>2, <4>1
    <3>2. BlocksOf(disk, no) = {}
      BY <1>5, <3>1
    <3> QED
      BY <1>1, <1>3, <1>8, <3>2
  <2> QED
    BY <2>1, <2>2 DEF BitsEnd, Is
<1>13. \A n \in Names : /\ Renaming(n)' <=> n = name
                        /\ NextEntry(n)' = IF n = name THEN 0 ELSE disk.entry[n]
  BY <1>1, <1>6 DEF Renaming, NextEntry, Is
<1>14. FileOK'
  <2> SUFFICES ASSUME file # Null PROVE FileOK'
    BY <1>1 DEF FileOK
  <2>1. file.ink \in Names /\ file.ink # name /\ file.no # no
    BY <1>1, <1>3 DEF FileType, no
  <2>2. NextEntry(file.ink)' = file'.no
    BY <1>1, <1>3, <1>6, <2>1 DEF NextEntry, Renaming, Is
  <2>3. \A k \in Steps' : pending'[k].to = "inode" => pending'[k].at # file'.no
    BY <1>1, <1>6, <1>10, <2>1
  <2> QED
    BY <1>1, <1>3, <2>2, <2>3 DEF FileOK, Is
<1>15. \A i : Zeroing(i)' <=> i = no
  <2>1. m + 4 \in Steps'
    BY <1>5, <1>6
  <2> QED
    BY <1>6, <1>10, <2>1 DEF Zeroing, Is
<1>16. Linking'
  <2>1. \A k \in Steps' : /\ pending'[k].to \in {"entry", "root", "ibits", "bbits", "inode"}
                          /\ (pending'[k].to = "inode" => pending'[k].val = Zeroed)
                          /\ (pending'[k].to = "entry" => pending'[k].val = 0)
    BY <1>6, <1>10
  <2>2. \A i, j \in Named(disk') : i # j => BlocksOf(disk', i) \intersect BlocksOf(disk', j) = {}
    BY <1>1, <1>3
  <2>3. \A i \in Named(disk') : ~Zeroing(i)' => BlocksOf(disk', i) \subseteq mem'.bbits
    BY <1>1, <1>3, <1>4, <1>8, <1>15
  <2> QED
    BY <2>1, <2>2, <2>3 DEF Linking, Is
<1>17. ASSUME crashes = 0 PROVE Recoverable' /\ NamesOK'
  <2>1. NamesOK /\ Recoverable
    BY <1>17 DEF StoreInv
  <2>2. /\ \A n, p \in Names : n # p /\ disk.entry[n] = disk.entry[p] => disk.entry[n] = 0
        /\ Named(disk) \subseteq mem.ibits
        /\ \A i \in Inos : i \notin mem.ibits => disk.table[i] = Zeroed
    BY <1>1, <1>2, <2>1, NamesAtRest
  <2>3. \A n \in Names : n # name /\ disk.entry[n] # 0 => disk.entry[n] # no /\ disk.entry[n] \in Named(disk)
    BY <1>1, <1>3, <2>2, NamedType DEF no
  <2>4. \A k \in 3 .. m + 2 : {all[j] : j \in 1 .. k - 2} \subseteq BlocksOf(disk, no)
    BY <1>5
  <2>5. ASSUME NEW k \in Steps', pending'[k].to = "bbits", NEW n \in Names, n # name, disk.entry[n] # 0
        PROVE  BlocksOf(disk, disk.entry[n]) \subseteq pending'[k].val
    <3>1. k \in 3 .. m + 2
      BY <1>10, <2>5
    <3>2. /\ BlocksOf(disk, disk.entry[n]) \intersect BlocksOf(disk, no) = {}
          /\ BlocksOf(disk, disk.entry[n]) \subseteq mem.bbits
      BY <1>3, <1>4, <2>3, <2>5
    <3> QED
      BY <1>6, <2>4, <3>1, <3>2
  <2>6. Recoverable'
    BY <1>1, <1>13, <2>1, <2>5 DEF Recoverable, Is
  <2>7. \A n, p \in Names : n # p /\ NextEntry(n)' = NextEntry(p)' => NextEntry(n)' = 0
    BY <1>13, <2>2
  <2>8. \A n \in Names : NextEntry(n)' # 0 => NextEntry(n)' \in mem'.ibits
    BY <1>8, <1>13, <2>2, <2>3
  <2>9. \A n \in Names : Renaming(n)' => NextEntry(n)' = 0
    BY <1>13
  <2>10. \A i \in Inos : i \notin mem'.ibits => disk'.table[i] = Zeroed \/ Zeroing(i)'
    BY <1>1, <1>8, <1>15, <2>2
  <2>11. \A n, p \in Names : n # p /\ disk'.entry[n] = disk'.entry[p] => disk'.entry[n] = 0
    BY <1>1, <2>2
  <2> QED
    BY <2>6, <2>7, <2>8, <2>9, <2>10, <2>11 DEF NamesOK
<1> QED
  BY <1>1, <1>9, <1>11, <1>12, <1>14, <1>16, <1>17 DEF StoreInv, Core

-----------------------------------------------------------------------------
(* file_write                                                               *)

(* A larger number has no smaller quotient.                                 *)
LEMMA Quotient ==
  ASSUME NEW a \in Nat, NEW b \in Nat, a <= b
  PROVE  /\ a \div BlockSize \in Nat /\ b \div BlockSize \in Nat
         /\ a \div BlockSize <= b \div BlockSize
<1> DEFINE q == a \div BlockSize
           r == b \div BlockSize
<1>1. BlockSize \in Nat /\ BlockSize > 0
  BY Sizes
<1>2. q \in Int /\ r \in Int
  BY <1>1
<1>3. /\ BlockSize * q <= a /\ a < BlockSize * q + BlockSize
      /\ BlockSize * r <= b /\ b < BlockSize * r + BlockSize
  BY <1>1
<1> HIDE DEF q, r
<1>4. q <= r
  <2> SUFFICES ASSUME q >= r + 1 PROVE FALSE
    BY <1>2
  <2>1. BlockSize * q >= BlockSize * (r + 1)
    BY <1>1, <1>2
  <2>2. BlockSize * (r + 1) = BlockSize * r + BlockSize
    BY <1>1, <1>2
  <2> QED
    BY <1>1, <1>2, <1>3, <2>1, <2>2
<1>5. q >= 0
  <2> SUFFICES ASSUME q <= -1 PROVE FALSE
    BY <1>2
  <2>1. BlockSize * q <= BlockSize * (-1)
    BY <1>1, <1>2
  <2> QED
    BY <1>1, <1>2, <1>3, <2>1
<1> QED
  BY <1>2, <1>4, <1>5 DEF q, r

(* The free blocks are free, each of them once.                             *)
LEMMA FreeFacts ==
  ASSUME MemType(mem)
  PROVE  /\ IsSeq(FreeList) /\ Len(FreeList) \in Nat
         /\ \A k \in 1 .. Len(FreeList) : FreeList[k] \in Blocks /\ FreeList[k] \notin mem.bbits
         /\ \A j, k \in 1 .. Len(FreeList) : j # k => FreeList[j] # FreeList[k]
<1> DEFINE free == Blocks \ mem.bbits
           c == Cardinality(free)
<1>1. Bounded(free)
  <2>1. IsFiniteSet(Blocks) /\ Blocks \in SUBSET Nat
    BY Sizes, FS_Interval DEF Blocks
  <2>2. free \subseteq Blocks
    OBVIOUS
  <2>3. IsFiniteSet(free)
    BY <2>1, <2>2, FS_Subset
  <2> QED
    BY <2>1, <2>2, <2>3 DEF Bounded
<1>2. FreeList = [k \in 1 .. c |-> Nth(free, k)]
  BY DEF FreeList
<1> HIDE DEF free
<1>3. /\ c \in Nat
      /\ \A k \in 1 .. c : Nth(free, k) \in free
      /\ \A j, k \in 1 .. c : j # k => Nth(free, j) # Nth(free, k)
  BY <1>1, NthFacts
<1> HIDE DEF c
<1>4. FreeList = [k \in 1 .. c |-> FreeList[k]] /\ \A k \in 1 .. c : FreeList[k] = Nth(free, k)
  BY <1>2
<1>5. IsSeq(FreeList) /\ Len(FreeList) = c
  BY <1>3, <1>4, FunIsSeq
<1>6. \A k \in 1 .. c : FreeList[k] \in Blocks /\ FreeList[k] \notin mem.bbits
  BY <1>3, <1>4 DEF free
<1>7. \A j, k \in 1 .. c : j # k => FreeList[j] # FreeList[k]
  BY <1>3, <1>4
<1> QED
  BY <1>3, <1>5, <1>6, <1>7

(* The bitmap after each allocation.                                        *)
LEMMA AllocFacts ==
  ASSUME MemType(mem), NEW m \in Nat, m <= Len(FreeList)
  PROVE  /\ IsSeq(AllocBits(m)) /\ Len(AllocBits(m)) = m
         /\ \A k \in 1 .. m : /\ AllocBits(m)[k].to = "bbits"
                              /\ AllocBits(m)[k].val = mem.bbits \cup {FreeList[j] : j \in 1 .. k}
                              /\ AllocBits(m)[k].val \in SUBSET Blocks
<1>1. Len(FreeList) \in Nat /\ \A k \in 1 .. Len(FreeList) : FreeList[k] \in Blocks
  BY FreeFacts
<1> DEFINE Taken(k) == mem.bbits \cup {FreeList[j] : j \in 1 .. k}
<1>2. \A k \in 1 .. m : Taken(k) \in SUBSET Blocks
  BY <1>1 DEF MemType
<1>3. AllocBits(m) = [k \in 1 .. m |-> BlockBits(Taken(k))]
  BY DEF AllocBits
<1>4. AllocBits(m) = [k \in 1 .. m |-> AllocBits(m)[k]] /\ \A k \in 1 .. m : AllocBits(m)[k] = BlockBits(Taken(k))
  <2> HIDE DEF Taken
  <2> QED
    BY <1>3
<1>5. IsSeq(AllocBits(m)) /\ Len(AllocBits(m)) = m
  BY <1>4, FunIsSeq
<1>6. \A k \in 1 .. m : AllocBits(m)[k].to = "bbits" /\ AllocBits(m)[k].val = Taken(k)
  <2> HIDE DEF Taken
  <2> QED
    BY <1>4 DEF BlockBits
<1> QED
  BY <1>2, <1>5, <1>6

(* A write that runs into an ASSERT leaves bits that no file has.           *)
LEMMA WriteHaltsInv ==
  ASSUME StoreInv, NEW n \in 1 .. MaxCount, WriteHalts(n)
  PROVE  StoreInv'
<1>0. SUFFICES ASSUME crashes <= 1 PROVE StoreInv'
  BY DEF StoreInv, WriteHalts, HaltAfter
<1>1. pending = <<>> /\ ~halted /\ file # Null
  BY DEF WriteHalts, Ready
<1>2. Core
  BY <1>0 DEF StoreInv
<1>3. /\ \A i, j \in Named(disk) : i # j => BlocksOf(disk, i) \intersect BlocksOf(disk, j) = {}
      /\ \A i \in Named(disk) : BlocksOf(disk, i) \subseteq mem.bbits
      /\ disk.bbits = mem.bbits /\ DiskType(disk) /\ MemType(mem)
      /\ \A i : ~Zeroing(i)
      /\ \A k \in Names : ~Renaming(k) /\ NextEntry(k) = disk.entry[k]
      /\ FileType(file) /\ disk.entry[file.ink] = file.no /\ disk.table[file.no] = file.inode
  BY <1>1, <1>2, AtRest
<1>4. PICK m \in Nat : m <= Len(FreeList) /\ HaltAfter(AllocBits(m))
  <2>1. Len(FreeList) \in Nat /\ (FreeList # <<>> => 1 <= Len(FreeList))
    <3>1. IsSeq(FreeList) /\ Len(FreeList) \in Nat
      BY <1>3, FreeFacts
    <3> QED
      BY <3>1 DEF IsSeq
  <2>2. CASE UsedBlocks(file.inode.size + n) > MaxBlocks
             /\ HaltAfter(AllocBits(IF file.inode.sec[1] = 0 /\ FreeList # <<>> THEN 1 ELSE 0))
    <3> DEFINE m == IF file.inode.sec[1] = 0 /\ FreeList # <<>> THEN 1 ELSE 0
    <3>1. m \in Nat /\ m <= Len(FreeList)
      BY <2>1
    <3>2. HaltAfter(AllocBits(m))
      BY <2>2
    <3> HIDE DEF m
    <3> QED
      BY <3>1, <3>2
  <2>3. CASE HaltAfter(AllocBits(Len(FreeList)))
    BY <2>1, <2>3
  <2> QED
    BY <2>2, <2>3 DEF WriteHalts
<1>5. /\ halted' = TRUE /\ pending' = AllocBits(m)
      /\ UNCHANGED <<disk, mem, file, crashes>>
  BY <1>4 DEF HaltAfter
<1>6. /\ IsSeq(pending') /\ Len(pending') = m /\ Steps' = 1 .. m
      /\ \A k \in Steps' : /\ pending'[k].to = "bbits" /\ mem.bbits \subseteq pending'[k].val
                           /\ pending'[k].val \in SUBSET Blocks
  <2>1. /\ IsSeq(AllocBits(m)) /\ Len(AllocBits(m)) = m
        /\ \A k \in 1 .. m : /\ AllocBits(m)[k].to = "bbits"
                             /\ AllocBits(m)[k].val = mem.bbits \cup {FreeList[j] : j \in 1 .. k}
                             /\ AllocBits(m)[k].val \in SUBSET Blocks
    BY <1>3, <1>4, AllocFacts
  <2>2. \A k \in 1 .. m : mem.bbits \subseteq AllocBits(m)[k].val
    BY <2>1
  <2> QED
    BY <1>5, <2>1, <2>2 DEF Steps
<1>7. Types'
  <2>1. \A k \in Steps' : WriteType(pending'[k])
    BY <1>6 DEF WriteType
  <2> QED
    BY <1>2, <1>3, <1>5, <1>6, <2>1 DEF Types, Core
<1>8. Order' /\ BitsEnd'
  BY <1>4, <1>5, <1>6 DEF Order, BitsEnd, Is
<1>9. pending' # <<>> => 1 \in Steps'
  BY <1>4, <1>6 DEF IsSeq
<1>10. \A k : ~Renaming(k)'
  BY <1>6, <1>9 DEF Renaming, Is
<1>11. \A k : NextEntry(k)' = disk'.entry[k]
  BY <1>10 DEF NextEntry
<1>12. \A i : ~Zeroing(i)'
  BY <1>6 DEF Zeroing, Is
<1>13. FileOK'
  <2>1. NextEntry(file.ink)' = disk'.entry[file'.ink]
    BY <1>6, <1>9 DEF NextEntry, Renaming, Is
  <2> QED
    BY <1>3, <1>5, <1>6, <2>1 DEF FileOK, Is
<1>14. Linking'
  BY <1>3, <1>5, <1>6, <1>12 DEF Linking, Is
<1>15. ASSUME crashes = 0 PROVE Recoverable' /\ NamesOK'
  <2>1. NamesOK /\ Recoverable
    BY <1>15 DEF StoreInv
  <2>2. \A k \in Names : disk.entry[k] # 0 => disk.entry[k] \in Named(disk)
    BY <1>3, NamedType
  <2>3. \A k \in Steps' : \A p \in Names : disk'.entry[p] # 0 => BlocksOf(disk', disk'.entry[p]) \subseteq pending'[k].val
    BY <1>3, <1>5, <1>6, <2>2
  <2>4. Recoverable'
    BY <1>5, <2>1, <2>3 DEF Recoverable
  <2>5. NamesOK'
    BY <1>3, <1>5, <1>10, <1>11, <2>1 DEF NamesOK
  <2> QED
    BY <2>4, <2>5
<1> QED
  BY <1>5, <1>7, <1>8, <1>13, <1>14, <1>15 DEF StoreInv, Core

(* The parts of the writes of file_write.                                   *)
PartsOf(p, a, b, c, d) ==
    /\ IsSeq(p) /\ Len(a) \in Nat /\ Len(p) \in Nat /\ Len(a) < Len(p) /\ p[Len(p)] = d
    /\ \A k \in 1 .. Len(a) : p[k] = a[k]
    /\ \A k \in 1 .. Len(p) : \/ k \in 1 .. Len(a) \/ k = Len(p)
                              \/ Len(a) < k /\ \E j \in 1 .. Len(b) : p[k] = b[j]
                              \/ Len(a) < k /\ \E j \in 1 .. Len(c) : p[k] = c[j]
    /\ \A j \in 1 .. Len(b) : \E k \in 1 .. Len(p) : p[k] = b[j]
(* Where its parts are in a sequence.                                       *)
LEMMA FourParts ==
  ASSUME NEW a, NEW b, NEW c, NEW d, IsSeq(a), IsSeq(b), IsSeq(c), NEW p, p = a \o b \o c \o <<d>>
  PROVE  PartsOf(p, a, b, c, d)
<1> DEFINE s == a \o b
           t == s \o c
           e == <<d>>
<1>1. /\ IsSeq(s) /\ Len(a) \in Nat /\ Len(b) \in Nat /\ Len(s) = Len(a) + Len(b)
      /\ \A i \in 1 .. Len(a) + Len(b) : s[i] = IF i <= Len(a) THEN a[i] ELSE b[i - Len(a)]
  BY ConcatIsSeq
<1> HIDE DEF s
<1>2. /\ IsSeq(t) /\ Len(s) \in Nat /\ Len(c) \in Nat /\ Len(t) = Len(s) + Len(c)
      /\ \A i \in 1 .. Len(s) + Len(c) : t[i] = IF i <= Len(s) THEN s[i] ELSE c[i - Len(s)]
  BY <1>1, ConcatIsSeq
<1> HIDE DEF t
<1>3. IsSeq(e) /\ Len(e) = 1 /\ e[1] = d
  <2>1. e \in Seq({d})
    OBVIOUS
  <2> QED
    BY <2>1, SeqIsSeq
<1>4. p = t \o e
  BY DEF s, t
<1> HIDE DEF e
<1>5. /\ IsSeq(t \o e) /\ Len(t) \in Nat /\ Len(t \o e) = Len(t) + Len(e)
      /\ \A i \in 1 .. Len(t) + Len(e) : (t \o e)[i] = IF i <= Len(t) THEN t[i] ELSE e[i - Len(t)]
  BY <1>2, <1>3, ConcatIsSeq
<1> DEFINE la == Len(a)
           lb == Len(b)
           lc == Len(c)
           ls == la + lb
           lt == ls + lc
           lp == lt + 1
<1>6. /\ la \in Nat /\ lb \in Nat /\ lc \in Nat /\ ls \in Nat /\ lt \in Nat /\ lp \in Nat
      /\ Len(p) = lp /\ Len(t) = lt /\ Len(s) = ls
  BY <1>1, <1>2, <1>3, <1>4, <1>5
<1>7. /\ \A i \in 1 .. lp : p[i] = IF i <= lt THEN t[i] ELSE e[i - lt]
      /\ \A i \in 1 .. lt : t[i] = IF i <= ls THEN s[i] ELSE c[i - ls]
      /\ \A i \in 1 .. ls : s[i] = IF i <= la THEN a[i] ELSE b[i - la]
      /\ IsSeq(p)
  BY <1>1, <1>2, <1>3, <1>4, <1>5, <1>6
<1>8. ls = la + lb /\ lt = ls + lc /\ lp = lt + 1 /\ la = Len(a) /\ lb = Len(b) /\ lc = Len(c)
  OBVIOUS
<1> HIDE DEF la, lb, lc, ls, lt, lp
<1>9. p[lp] = d
  <2>1. lp \in 1 .. lp /\ ~(lp <= lt) /\ lp - lt = 1
    BY <1>6, <1>8
  <2> QED
    BY <1>3, <1>7, <2>1
<1>10. \A k \in 1 .. la : p[k] = a[k]
  <2> SUFFICES ASSUME NEW k \in 1 .. la PROVE p[k] = a[k]
    OBVIOUS
  <2>1. k \in 1 .. lp /\ k \in 1 .. lt /\ k \in 1 .. ls /\ k <= lt /\ k <= ls /\ k <= la
    BY <1>6, <1>8
  <2> QED
    BY <1>7, <2>1
<1>11. \A j \in 1 .. lb : la + j \in 1 .. lp /\ p[la + j] = b[j]
  <2> SUFFICES ASSUME NEW j \in 1 .. lb PROVE la + j \in 1 .. lp /\ p[la + j] = b[j]
    OBVIOUS
  <2>1. /\ la + j \in 1 .. lp /\ la + j \in 1 .. lt /\ la + j \in 1 .. ls /\ la + j <= lt
        /\ la + j <= ls /\ ~(la + j <= la) /\ (la + j) - la = j
    BY <1>6, <1>8
  <2> QED
    BY <1>7, <2>1
<1>12. \A j \in 1 .. lc : ls + j \in 1 .. lp /\ p[ls + j] = c[j]
  <2> SUFFICES ASSUME NEW j \in 1 .. lc PROVE ls + j \in 1 .. lp /\ p[ls + j] = c[j]
    OBVIOUS
  <2>1. /\ ls + j \in 1 .. lp /\ ls + j \in 1 .. lt /\ ls + j <= lt
        /\ ~(ls + j <= ls) /\ (ls + j) - ls = j
    BY <1>6, <1>8
  <2> QED
    BY <1>7, <2>1
<1>13. ASSUME NEW k \in 1 .. lp, k \notin 1 .. la, k # lp
       PROVE  la < k /\ ((\E j \in 1 .. lb : p[k] = b[j]) \/ (\E j \in 1 .. lc : p[k] = c[j]))
  <2>0. la < k
    BY <1>6, <1>13
  <2>1. CASE k <= ls
    <3>1. k - la \in 1 .. lb /\ la + (k - la) = k
      BY <1>6, <1>8, <2>0, <2>1
    <3> QED
      BY <1>11, <2>0, <3>1
  <2>2. CASE ls < k
    <3>1. k - ls \in 1 .. lc /\ ls + (k - ls) = k
      BY <1>6, <1>8, <1>13, <2>2
    <3> QED
      BY <1>12, <2>0, <3>1
  <2> QED
    BY <1>6, <2>1, <2>2
<1>14. la < lp
  BY <1>6, <1>8
<1>15. \A j \in 1 .. lb : \E k \in 1 .. lp : p[k] = b[j]
  BY <1>11
<1> QED
  BY <1>6, <1>7, <1>8, <1>9, <1>10, <1>13, <1>14, <1>15 DEF PartsOf

First(o) == IF o.sec[1] = 0 THEN 1 ELSE 0
Indexing(o, n) == IF UsedBlocks(o.size) <= NDirect /\ UsedBlocks(o.size + n) > NDirect THEN 1 ELSE 0
(* The blocks file_write allocates, one by one: for the first address, for  *)
(* the index, for the addresses from the end on.                            *)
LEMMA SlotsAt ==
  ASSUME NEW o \in InodeType, NEW n \in 1 .. MaxCount,
         NEW has, has = UsedBlocks(o.size), NEW will, will = UsedBlocks(o.size + n),
         NEW s, s = NewSlots(o, n), NEW f, f = First(o), NEW x, x = Indexing(o, n)
  PROVE  /\ IsSeq(s) /\ Len(s) \in Nat /\ DOMAIN s = 1 .. Len(s)
         /\ has \in Nat /\ will \in Nat /\ 1 <= has /\ has <= will /\ f \in {0, 1} /\ x \in {0, 1}
         /\ Len(s) = f + x + (will - has)
         /\ \A i \in 1 .. Len(s) : s[i] = IF i <= f THEN 1 ELSE IF i <= f + x THEN 0 ELSE has + (i - (f + x))
<1> DEFINE a == IF o.sec[1] = 0 THEN <<1>> ELSE <<>>
           b == IF has <= NDirect /\ will > NDirect THEN <<0>> ELSE <<>>
           c == [k \in 1 .. will - has |-> has + k]
<1>1. has \in Nat /\ will \in Nat /\ 1 <= has /\ has <= will /\ f \in {0, 1} /\ x \in {0, 1}
  <2>1. o.size \in Nat /\ o.size + n \in Nat /\ o.size <= o.size + n
    BY DEF InodeType
  <2> QED
    BY <2>1, Quotient DEF UsedBlocks, First, Indexing
<1>2. s = a \o b \o c
  BY DEF NewSlots
<1>3. IsSeq(<<>>) /\ Len(<<>>) = 0
  BY DEF IsSeq
<1>4. IsSeq(a) /\ Len(a) = f /\ \A k \in 1 .. f : a[k] = 1
  <2>1. CASE o.sec[1] = 0
    <3>1. a = <<1>> /\ f = 1
      BY <2>1 DEF First
    <3>2. <<1>> \in Seq({1})
      OBVIOUS
    <3>3. IsSeq(<<1>>) /\ Len(<<1>>) = 1 /\ <<1>>[1] = 1
      BY <3>2, SeqIsSeq
    <3>4. \A k \in 1 .. 1 : k = 1
      OBVIOUS
    <3> HIDE DEF a
    <3> QED
      BY <3>1, <3>3, <3>4
  <2>2. CASE o.sec[1] # 0
    <3>1. a = <<>> /\ f = 0
      BY <2>2, Zenon DEF First
    <3> HIDE DEF a
    <3> QED
      BY <1>3, <3>1
  <2> QED
    BY <2>1, <2>2
<1>5. IsSeq(b) /\ Len(b) = x /\ \A k \in 1 .. x : b[k] = 0
  <2>1. CASE has <= NDirect /\ will > NDirect
    <3>1. b = <<0>> /\ x = 1
      BY <2>1 DEF Indexing
    <3>2. <<0>> \in Seq({0})
      OBVIOUS
    <3>3. IsSeq(<<0>>) /\ Len(<<0>>) = 1 /\ <<0>>[1] = 0
      BY <3>2, SeqIsSeq
    <3>4. \A k \in 1 .. 1 : k = 1
      OBVIOUS
    <3> HIDE DEF b
    <3> QED
      BY <3>1, <3>3, <3>4
  <2>2. CASE ~(has <= NDirect /\ will > NDirect)
    <3>1. b = <<>> /\ x = 0
      BY <2>2, Zenon DEF Indexing
    <3> HIDE DEF b
    <3> QED
      BY <1>3, <3>1
  <2> QED
    BY <2>1, <2>2
<1>6. IsSeq(c) /\ Len(c) = will - has /\ \A k \in 1 .. will - has : c[k] = has + k
  <2>1. will - has \in Nat
    BY <1>1
  <2>2. c = [k \in 1 .. will - has |-> c[k]] /\ \A k \in 1 .. will - has : c[k] = has + k
    OBVIOUS
  <2> HIDE DEF c
  <2> QED
    BY <2>1, <2>2, FunIsSeq
<1> HIDE DEF a, b, c
<1> DEFINE ab == a \o b
<1>7. /\ IsSeq(ab) /\ Len(ab) = f + x
      /\ \A i \in 1 .. f + x : ab[i] = IF i <= f THEN a[i] ELSE b[i - f]
  BY <1>4, <1>5, ConcatIsSeq
<1>8. s = ab \o c
  BY <1>2
<1> HIDE DEF ab
<1>9. /\ IsSeq(s) /\ Len(s) = f + x + (will - has)
      /\ \A i \in 1 .. f + x + (will - has) : s[i] = IF i <= f + x THEN ab[i] ELSE c[i - (f + x)]
  <2>1. /\ IsSeq(ab \o c) /\ Len(ab \o c) = Len(ab) + Len(c)
        /\ \A i \in 1 .. Len(ab) + Len(c) : (ab \o c)[i] = IF i <= Len(ab) THEN ab[i] ELSE c[i - Len(ab)]
    BY <1>6, <1>7, ConcatIsSeq
  <2> QED
    BY <1>6, <1>7, <1>8, <2>1
<1>10. Len(s) \in Nat /\ DOMAIN s = 1 .. Len(s)
  BY <1>1, <1>9 DEF IsSeq
<1>11. ASSUME NEW i \in 1 .. Len(s)
       PROVE  s[i] = IF i <= f THEN 1 ELSE IF i <= f + x THEN 0 ELSE has + (i - (f + x))
  <2>1. CASE i <= f
    <3>1. i \in 1 .. f /\ i \in 1 .. f + x /\ i <= f + x /\ i \in 1 .. f + x + (will - has)
      BY <1>1, <2>1
    <3> QED
      BY <1>4, <1>7, <1>9, <2>1, <3>1
  <2>2. CASE ~(i <= f) /\ i <= f + x
    <3>1. i - f \in 1 .. x /\ i \in 1 .. f + x /\ i \in 1 .. f + x + (will - has)
      BY <1>1, <2>2
    <3> QED
      BY <1>5, <1>7, <1>9, <2>2, <3>1
  <2>3. CASE ~(i <= f + x)
    <3>1. i - (f + x) \in 1 .. will - has /\ ~(i <= f) /\ i \in 1 .. f + x + (will - has)
      BY <1>1, <1>9, <2>3
    <3> QED
      BY <1>6, <1>9, <2>3, <3>1
  <2> QED
    BY <2>1, <2>2, <2>3
<1> QED
  BY <1>1, <1>9, <1>10, <1>11

(* What it allocates: 0 is the index.                                       *)
LEMMA SlotsFacts ==
  ASSUME NEW o \in InodeType, NEW n \in 1 .. MaxCount
  PROVE  /\ IsSeq(NewSlots(o, n)) /\ Len(NewSlots(o, n)) \in Nat
         /\ DOMAIN NewSlots(o, n) = 1 .. Len(NewSlots(o, n))
         /\ UsedBlocks(o.size) \in Nat /\ UsedBlocks(o.size + n) \in Nat
         /\ \A k \in DOMAIN NewSlots(o, n) : NewSlots(o, n)[k] = 0 =>
               UsedBlocks(o.size + n) > NDirect /\ UsedBlocks(o.size + n) > UsedBlocks(o.size)
<1> DEFINE s == NewSlots(o, n)
           has == UsedBlocks(o.size)
           will == UsedBlocks(o.size + n)
           f == First(o)
           x == Indexing(o, n)
<1>1. /\ IsSeq(s) /\ Len(s) \in Nat /\ DOMAIN s = 1 .. Len(s)
      /\ has \in Nat /\ will \in Nat /\ 1 <= has /\ has <= will /\ f \in {0, 1} /\ x \in {0, 1}
      /\ \A i \in 1 .. Len(s) : s[i] = IF i <= f THEN 1 ELSE IF i <= f + x THEN 0 ELSE has + (i - (f + x))
  BY SlotsAt
<1>2. x = 1 => has <= NDirect /\ will > NDirect
  BY DEF Indexing
<1> HIDE DEF s, has, will, f, x
<1>3. ASSUME NEW k \in 1 .. Len(s), s[k] = 0 PROVE will > NDirect /\ will > has
  <2>1. x = 1
    BY <1>1, <1>3
  <2> QED
    BY <1>1, <1>2, <2>1, Sizes
<1> QED
  BY <1>1, <1>3 DEF s, has, will

(* An address is the one there was or a block that was free.                *)
Taken(m) == {FreeList[k] : k \in 1 .. m}

(* An address is the one there was or a block that was free.                *)
LEMMA AddressFacts ==
  ASSUME NEW o, NEW slots, NEW i, NEW old
  PROVE  \/ NewAddress(o, slots, i, old) = old /\ \A k \in DOMAIN slots : slots[k] # i
         \/ \E k \in DOMAIN slots : slots[k] = i /\ NewAddress(o, slots, i, old) = FreeList[k]
<1>1. CASE \E k \in DOMAIN slots : slots[k] = i
  <2> DEFINE c == CHOOSE k \in DOMAIN slots : slots[k] = i
  <2>1. c \in DOMAIN slots /\ slots[c] = i
    BY <1>1
  <2>2. NewAddress(o, slots, i, old) = FreeList[c]
    BY <1>1 DEF NewAddress
  <2> QED
    BY <2>1, <2>2
<1>2. CASE ~\E k \in DOMAIN slots : slots[k] = i
  <2>1. NewAddress(o, slots, i, old) = old
    BY <1>2 DEF NewAddress
  <2> QED
    BY <1>2, <2>1
<1> QED
  BY <1>1, <1>2

(* The inode and the index after a write: no address but the old ones and   *)
(* the new blocks; a new index is written.                                  *)
LEMMA GrownFacts ==
  ASSUME MemType(mem), DiskType(disk), NEW o \in InodeType, NEW n \in 1 .. MaxCount,
         Len(NewSlots(o, n)) <= Len(FreeList), NEW g, g = Grown(o, n),
         NEW m, m = Len(NewSlots(o, n))
  PROVE  /\ g.inode \in InodeType /\ g.index \in IndexType
         /\ \A x \in 1 .. IndexPos : g.inode.sec[x] = o.sec[x] \/ g.inode.sec[x] \in Taken(m)
         /\ \A x \in 1 .. NIndirect : g.index[x] = IndexIn(disk, o)[x] \/ g.index[x] \in Taken(m)
         /\ g.inode.size = o.size + n /\ g.inode # Zeroed
         /\ g.inode.sec[IndexPos] # o.sec[IndexPos] =>
               UsedBlocks(o.size + n) > NDirect /\ UsedBlocks(o.size + n) > UsedBlocks(o.size)
<1> DEFINE slots == NewSlots(o, n)
           sec == [i \in 1 .. IndexPos |->
                      IF i = IndexPos THEN NewAddress(o, slots, 0, o.sec[i])
                      ELSE NewAddress(o, slots, i, o.sec[i])]
           index == [i \in 1 .. NIndirect |-> NewAddress(o, slots, NDirect + i, IndexOf(o)[i])]
<1>1. g.inode.size = o.size + n /\ g.inode = [size |-> o.size + n, sec |-> sec] /\ g.index = index
  BY DEF Grown
<1>2. /\ m \in Nat /\ DOMAIN slots = 1 .. m /\ m <= Len(FreeList)
      /\ \A k \in DOMAIN slots : slots[k] = 0 =>
            UsedBlocks(o.size + n) > NDirect /\ UsedBlocks(o.size + n) > UsedBlocks(o.size)
  BY SlotsFacts
<1>3. IndexOf(o) = IndexIn(disk, o) /\ IndexIn(disk, o) \in IndexType
  BY IndexInType DEF IndexOf, IndexIn
<1>4. Taken(m) \subseteq Blocks
  <2>1. Len(FreeList) \in Nat /\ \A k \in 1 .. Len(FreeList) : FreeList[k] \in Blocks
    BY FreeFacts
  <2> QED
    BY <1>2, <2>1 DEF Taken
<1>5. Blocks \subseteq 0 .. NBlocks
  BY Sizes DEF Blocks
<1> HIDE DEF slots
<1>6. \A i, old : NewAddress(o, slots, i, old) = old \/ NewAddress(o, slots, i, old) \in Taken(m)
  BY <1>2, AddressFacts DEF Taken
<1>7. \A x \in 1 .. IndexPos : sec[x] = o.sec[x] \/ sec[x] \in Taken(m)
  BY <1>6
<1>8. \A x \in 1 .. NIndirect : index[x] = IndexIn(disk, o)[x] \/ index[x] \in Taken(m)
  BY <1>3, <1>6
<1>9. sec[IndexPos] # o.sec[IndexPos] => \E k \in DOMAIN slots : slots[k] = 0
  <2>1. sec[IndexPos] = NewAddress(o, slots, 0, o.sec[IndexPos])
    BY Sizes
  <2> HIDE DEF sec
  <2> QED
    BY <2>1, AddressFacts
<1>10. sec \in [1 .. IndexPos -> 0 .. NBlocks]
  <2>1. \A x \in 1 .. IndexPos : o.sec[x] \in 0 .. NBlocks
    BY DEF InodeType
  <2>2. \A x \in 1 .. IndexPos : sec[x] \in 0 .. NBlocks
    BY <1>4, <1>5, <1>7, <2>1
  <2>3. DOMAIN sec = 1 .. IndexPos /\ sec = [x \in 1 .. IndexPos |-> sec[x]]
    OBVIOUS
  <2> HIDE DEF sec
  <2> QED
    BY <2>2, <2>3
<1>11. index \in IndexType
  <2>1. \A x \in 1 .. NIndirect : index[x] \in 0 .. NBlocks
    BY <1>3, <1>4, <1>5, <1>8 DEF IndexType
  <2>2. index = [x \in 1 .. NIndirect |-> index[x]]
    OBVIOUS
  <2> HIDE DEF index
  <2> QED
    BY <2>1, <2>2 DEF IndexType
<1> HIDE DEF sec, index
<1>12. o.size + n \in Nat /\ o.size + n # 0
  BY DEF InodeType
<1>13. g.inode \in InodeType
  BY <1>1, <1>10, <1>12 DEF InodeType
<1>14. g.inode # Zeroed
  BY <1>1, <1>12 DEF Zeroed
<1>15. g.inode.sec = sec
  BY <1>1
<1> QED
  BY <1>1, <1>2, <1>7, <1>8, <1>9, <1>11, <1>13, <1>14, <1>15

(* The blocks it writes are the file's.                                     *)
LEMMA DataFacts ==
  ASSUME NEW o \in InodeType, NEW n \in 1 .. MaxCount, NEW ink, NEW g,
         UsedBlocks(o.size + n) <= MaxBlocks, NEW c, c = DataWrites(o, n, ink, g)
  PROVE  /\ IsSeq(c)
         /\ \A j \in 1 .. Len(c) : /\ c[j].to = "cells"
                                   /\ \/ \E x \in 1 .. NDirect : c[j].at = g.inode.sec[x]
                                      \/ \E x \in 1 .. NIndirect : c[j].at = g.index[x]
<1> DEFINE first == o.size \div BlockSize
           last  == (o.size + n - 1) \div BlockSize
           Addr(k) == IF k < NDirect THEN g.inode.sec[k + 1] ELSE g.index[k - NDirect + 1]
           Cell(k, i) ==
               LET p == k * BlockSize + i - 1 IN
               CASE p >= o.size /\ p < o.size + n -> <<ink, p>>
                 [] k = first /\ (p < o.size \/ p >= o.size + n) -> disk.data[Addr(k)].cells[i]
                 [] OTHER -> Null
           W(j) == CellsWrite(Addr(first + j - 1), [i \in Cells |-> Cell(first + j - 1, i)])
<1>1. c = [j \in 1 .. last - first + 1 |-> W(j)]
  BY DEF DataWrites
<1>2. first \in Nat /\ last \in Nat /\ first <= last /\ last < MaxBlocks
  <2>1. /\ o.size \in Nat /\ o.size + n - 1 \in Nat /\ o.size + n \in Nat
        /\ o.size <= o.size + n - 1 /\ o.size + n - 1 <= o.size + n
    BY DEF InodeType
  <2>2. first \in Nat /\ last \in Nat /\ first <= last
    BY <2>1, Quotient
  <2>3. last <= (o.size + n) \div BlockSize /\ (o.size + n) \div BlockSize \in Nat
    BY <2>1, Quotient
  <2>4. MaxBlocks \in Nat
    BY Sizes DEF MaxBlocks
  <2> QED
    BY <2>2, <2>3, <2>4 DEF UsedBlocks
<1>3. ASSUME NEW k \in Nat, k < MaxBlocks
      PROVE  \/ \E x \in 1 .. NDirect : Addr(k) = g.inode.sec[x]
             \/ \E x \in 1 .. NIndirect : Addr(k) = g.index[x]
  <2>1. CASE k < NDirect
    <3>1. k + 1 \in 1 .. NDirect /\ Addr(k) = g.inode.sec[k + 1]
      BY <2>1, Sizes
    <3> QED
      BY <3>1
  <2>2. CASE ~(k < NDirect)
    <3>1. k - NDirect + 1 \in 1 .. NIndirect /\ Addr(k) = g.index[k - NDirect + 1]
      BY <1>3, <2>2, Sizes DEF MaxBlocks
    <3> QED
      BY <3>1
  <2> QED
    BY <2>1, <2>2
<1> DEFINE l == last - first + 1
<1>4. l \in Nat /\ \A j \in 1 .. l : first + j - 1 \in Nat /\ first + j - 1 < MaxBlocks
  <2>1. MaxBlocks \in Nat
    BY Sizes DEF MaxBlocks
  <2> HIDE DEF first, last
  <2> QED
    BY <1>2, <2>1
<1>5. \A j : W(j).to = "cells" /\ W(j).at = Addr(first + j - 1)
  BY DEF CellsWrite
<1>6. c = [j \in 1 .. l |-> c[j]] /\ \A j \in 1 .. l : c[j] = W(j)
  <2> HIDE DEF W, first, last
  <2> QED
    BY <1>1
<1> HIDE DEF W, Addr, l, first
<1>7. IsSeq(c) /\ Len(c) = l
  BY <1>4, <1>6, FunIsSeq
<1> QED
  BY <1>3, <1>4, <1>5, <1>6, <1>7

(* The index is one write or none.                                          *)
LEMMA SyncFacts ==
  ASSUME NEW o, NEW n, NEW g, NEW b, b = IndexSync(o, n, g)
  PROVE  /\ IsSeq(b)
         /\ \A j \in 1 .. Len(b) : b[j] = IndexWrite(g.inode.sec[IndexPos], g.index)
         /\ UsedBlocks(o.size + n) > NDirect /\ UsedBlocks(o.size + n) > UsedBlocks(o.size) => 1 \in 1 .. Len(b)
         /\ \A j \in 1 .. Len(b) :
               UsedBlocks(o.size + n) > NDirect /\ UsedBlocks(o.size + n) > UsedBlocks(o.size)
<1> DEFINE w == IndexWrite(g.inode.sec[IndexPos], g.index)
<1>1. CASE UsedBlocks(o.size + n) > NDirect /\ UsedBlocks(o.size + n) > UsedBlocks(o.size)
  <2>1. b = <<w>>
    BY <1>1 DEF IndexSync
  <2> HIDE DEF w
  <2>2. b \in Seq({w}) /\ Len(b) = 1 /\ b[1] = w
    BY <2>1
  <2>3. IsSeq(b)
    BY <2>2, SeqIsSeq
  <2>4. \A j \in 1 .. 1 : j = 1
    OBVIOUS
  <2> QED
    BY <1>1, <2>2, <2>3, <2>4 DEF w
<1>2. CASE ~(UsedBlocks(o.size + n) > NDirect /\ UsedBlocks(o.size + n) > UsedBlocks(o.size))
  <2>1. b = <<>>
    BY <1>2, Zenon DEF IndexSync
  <2>2. IsSeq(<<>>) /\ Len(<<>>) = 0
    BY DEF IsSeq
  <2> QED
    BY <1>2, <2>1, <2>2
<1> QED
  BY <1>1, <1>2

(* The writes of a call that appends.                                       *)
WriteShape(p, m, no, g) ==
    /\ IsSeq(p) /\ Len(p) \in Nat /\ m \in Nat /\ m < Len(p)
    /\ p[Len(p)].to = "inode" /\ p[Len(p)].at = no /\ p[Len(p)].val = g.inode
    /\ \A k \in 1 .. m : /\ p[k].to = "bbits" /\ p[k].val = mem.bbits \cup Taken(k)
                         /\ p[k].val \in SUBSET Blocks
    /\ \A k \in 1 .. Len(p) :
          \/ k \in 1 .. m \/ k = Len(p)
          \/ m < k /\ p[k].to = "index" /\ p[k].at = g.inode.sec[IndexPos] /\ p[k].val = g.index
          \/ m < k /\ p[k].to = "cells" /\ \/ \E x \in 1 .. NDirect : p[k].at = g.inode.sec[x]
                                           \/ \E x \in 1 .. NIndirect : p[k].at = g.index[x]
SyncsIndex(o, n) == UsedBlocks(o.size + n) > NDirect /\ UsedBlocks(o.size + n) > UsedBlocks(o.size)

(* file_write writes the bitmaps, then the index and the data, then the     *)
(* inode.                                                                   *)
LEMMA WriteSteps ==
  ASSUME MemType(mem), NEW o \in InodeType, NEW n \in 1 .. MaxCount, NEW ink, NEW no,
         UsedBlocks(o.size + n) <= MaxBlocks,
         NEW m, m = Len(NewSlots(o, n)), m <= Len(FreeList), NEW g, g = Grown(o, n),
         NEW p, p = WriteSyncs(o, no, n, ink)
  PROVE  /\ WriteShape(p, m, no, g)
         /\ SyncsIndex(o, n) => \E k \in 1 .. Len(p) : p[k].to = "index" /\ p[k].at = g.inode.sec[IndexPos]
         /\ \A k \in 1 .. Len(p) : p[k].to = "index" => SyncsIndex(o, n)
<1> DEFINE a == AllocBits(m)
           b == IndexSync(o, n, g)
           c == DataWrites(o, n, ink, g)
           d == InodeWrite(no, g.inode)
<1>1. p = a \o b \o c \o <<d>>
  BY DEF WriteSyncs
<1>2. m \in Nat
  BY SlotsFacts
<1>3. /\ IsSeq(a) /\ Len(a) = m
      /\ \A k \in 1 .. m : a[k].to = "bbits" /\ a[k].val = mem.bbits \cup Taken(k) /\ a[k].val \in SUBSET Blocks
  BY <1>2, AllocFacts DEF Taken
<1>4. /\ IsSeq(b)
      /\ \A j \in 1 .. Len(b) : b[j] = IndexWrite(g.inode.sec[IndexPos], g.index)
      /\ SyncsIndex(o, n) => 1 \in 1 .. Len(b)
      /\ \A j \in 1 .. Len(b) : SyncsIndex(o, n)
  BY SyncFacts DEF SyncsIndex
<1>5. /\ IsSeq(c)
      /\ \A j \in 1 .. Len(c) : /\ c[j].to = "cells"
                                /\ \/ \E x \in 1 .. NDirect : c[j].at = g.inode.sec[x]
                                   \/ \E x \in 1 .. NIndirect : c[j].at = g.index[x]
  BY DataFacts
<1>6. d.to = "inode" /\ d.at = no /\ d.val = g.inode
  BY DEF InodeWrite
<1> HIDE DEF a, b, c, d
<1>7. /\ IsSeq(p) /\ Len(p) \in Nat /\ Len(a) < Len(p) /\ p[Len(p)] = d
      /\ \A k \in 1 .. Len(a) : p[k] = a[k]
      /\ \A k \in 1 .. Len(p) : \/ k \in 1 .. Len(a) \/ k = Len(p)
                                \/ Len(a) < k /\ \E j \in 1 .. Len(b) : p[k] = b[j]
                                \/ Len(a) < k /\ \E j \in 1 .. Len(c) : p[k] = c[j]
      /\ \A j \in 1 .. Len(b) : \E k \in 1 .. Len(p) : p[k] = b[j]
  <2>1. IsSeq(a) /\ IsSeq(b) /\ IsSeq(c)
    BY <1>3, <1>4, <1>5
  <2>2. PartsOf(p, a, b, c, d)
    BY <1>1, <2>1, FourParts
  <2> QED
    BY <2>2 DEF PartsOf
<1>8. \A j \in 1 .. Len(b) : b[j].to = "index" /\ b[j].at = g.inode.sec[IndexPos] /\ b[j].val = g.index
  BY <1>4 DEF IndexWrite
<1>9. ASSUME SyncsIndex(o, n)
      PROVE  \E k \in 1 .. Len(p) : p[k].to = "index" /\ p[k].at = g.inode.sec[IndexPos]
  <2>1. 1 \in 1 .. Len(b)
    BY <1>4, <1>9
  <2>2. PICK k \in 1 .. Len(p) : p[k] = b[1]
    BY <1>7, <2>1
  <2> QED
    BY <1>8, <2>1, <2>2
<1>10. ASSUME NEW k \in 1 .. Len(p)
       PROVE  \/ k \in 1 .. m \/ k = Len(p)
              \/ m < k /\ p[k].to = "index" /\ p[k].at = g.inode.sec[IndexPos] /\ p[k].val = g.index
              \/ m < k /\ p[k].to = "cells" /\ \/ \E x \in 1 .. NDirect : p[k].at = g.inode.sec[x]
                                               \/ \E x \in 1 .. NIndirect : p[k].at = g.index[x]
  <2>1. \A i : i \in 1 .. Len(a) <=> i \in 1 .. m
    BY <1>3
  <2>2. CASE k \in 1 .. m \/ k = Len(p)
    BY <2>2
  <2>3. CASE m < k /\ \E j \in 1 .. Len(b) : p[k] = b[j]
    BY <1>8, <2>3
  <2>4. CASE m < k /\ \E j \in 1 .. Len(c) : p[k] = c[j]
    <3>1. PICK j \in 1 .. Len(c) : p[k] = c[j]
      BY <2>4
    <3> QED
      BY <1>5, <2>4, <3>1
  <2> QED
    BY <1>3, <1>7, <2>2, <2>3, <2>4
<1>11. \A k \in 1 .. m : p[k].to = "bbits" /\ p[k].val = mem.bbits \cup Taken(k) /\ p[k].val \in SUBSET Blocks
  BY <1>3, <1>7
<1>12. IsSeq(p) /\ Len(p) \in Nat /\ m < Len(p) /\ p[Len(p)] = d
  BY <1>3, <1>7
<1>13. ASSUME NEW k \in 1 .. Len(p), p[k].to = "index" PROVE SyncsIndex(o, n)
  <2>1. k \notin 1 .. m /\ k # Len(p)
    BY <1>6, <1>11, <1>12, <1>13
  <2>2. ~\E j \in 1 .. Len(c) : p[k] = c[j]
    BY <1>5, <1>13
  <2> QED
    BY <1>3, <1>4, <1>7, <2>1, <2>2
<1> HIDE DEF Taken, SyncsIndex
<1> QED
  BY <1>2, <1>6, <1>9, <1>10, <1>11, <1>12, <1>13 DEF WriteShape

(* file_write takes blocks that no file has and writes nothing but the      *)
(* file's.                                                                  *)
LEMMA WriteInv ==
  ASSUME StoreInv, NEW n \in 1 .. MaxCount, Write(n)
  PROVE  StoreInv'
<1>0. SUFFICES ASSUME crashes <= 1 PROVE StoreInv'
  BY DEF StoreInv, Write
<1> DEFINE o == file.inode
           m == Len(NewSlots(o, n))
           g == Grown(o, n)
<1>1. /\ pending = <<>> /\ ~halted /\ file # Null
      /\ UsedBlocks(o.size + n) <= MaxBlocks /\ m <= Len(FreeList)
      /\ pending' = WriteSyncs(o, file.no, n, file.ink)
      /\ file' = [file EXCEPT !.inode = g.inode, !.pos = o.size + n - 1]
      /\ mem' = [mem EXCEPT !.bbits = @ \cup {FreeList[k] : k \in 1 .. m}]
      /\ UNCHANGED <<disk, halted, crashes>>
  BY DEF Write, Ready
<1>2. Core
  BY <1>0 DEF StoreInv
<1>3. /\ \A i, j \in Named(disk) : i # j => BlocksOf(disk, i) \intersect BlocksOf(disk, j) = {}
      /\ \A i \in Named(disk) : BlocksOf(disk, i) \subseteq mem.bbits
      /\ disk.bbits = mem.bbits /\ DiskType(disk) /\ MemType(mem)
      /\ \A i : ~Zeroing(i)
      /\ \A k \in Names : ~Renaming(k) /\ NextEntry(k) = disk.entry[k]
      /\ FileType(file) /\ disk.entry[file.ink] = file.no /\ disk.table[file.no] = file.inode
  BY <1>1, <1>2, AtRest
<1>4. o \in InodeType /\ file.no \in Inos /\ file.no # 0 /\ file.ink \in Names /\ file.no \in Named(disk)
  BY <1>3, NamedType, Sizes DEF FileType, Inos
<1> HIDE DEF m, g
<1>5. /\ g.inode \in InodeType /\ g.index \in IndexType
      /\ \A x \in 1 .. IndexPos : g.inode.sec[x] = o.sec[x] \/ g.inode.sec[x] \in Taken(m)
      /\ \A x \in 1 .. NIndirect : g.index[x] = IndexIn(disk, o)[x] \/ g.index[x] \in Taken(m)
      /\ g.inode # Zeroed
      /\ g.inode.sec[IndexPos] # o.sec[IndexPos] => SyncsIndex(o, n)
  BY <1>1, <1>3, <1>4, GrownFacts DEF m, g, SyncsIndex
<1>6. /\ WriteShape(pending', m, file.no, g)
      /\ SyncsIndex(o, n) => \E k \in Steps' : pending'[k].to = "index" /\ pending'[k].at = g.inode.sec[IndexPos]
  <2>1. m = Len(NewSlots(o, n)) /\ g = Grown(o, n)
    BY DEF m, g
  <2> HIDE DEF o
  <2> QED
    BY <1>1, <1>3, <1>4, <2>1, WriteSteps DEF Steps
<1>7. Taken(m) \subseteq Blocks /\ Taken(m) \intersect mem.bbits = {}
  <2>1. /\ Len(FreeList) \in Nat
        /\ \A k \in 1 .. Len(FreeList) : FreeList[k] \in Blocks /\ FreeList[k] \notin mem.bbits
    BY <1>3, FreeFacts
  <2>2. m \in Nat
    BY <1>6 DEF WriteShape
  <2> QED
    BY <1>1, <2>1, <2>2 DEF Taken
<1>8. /\ mem'.bbits = mem.bbits \cup Taken(m) /\ mem'.ibits = mem.ibits
      /\ mem'.rootSize = mem.rootSize /\ MemType(mem')
  <2>1. mem' = [mem EXCEPT !.bbits = @ \cup Taken(m)]
    BY <1>1 DEF Taken
  <2> QED
    BY <1>3, <1>7, <2>1 DEF MemType
<1>9. file'.no = file.no /\ file'.inode = g.inode /\ file'.ink = file.ink /\ FileType(file')
  <2>1. /\ file' = [no |-> file.no, inode |-> g.inode, pos |-> file'.pos, ink |-> file.ink]
        /\ file'.pos = o.size + n - 1
    BY <1>1, <1>3 DEF FileType
  <2> QED
    BY <1>3, <1>5, <2>1 DEF FileType
<1> DEFINE l == Len(pending')
<1>10. /\ IsSeq(pending') /\ l \in Nat /\ m \in Nat /\ m < l /\ Steps' = 1 .. l
       /\ pending'[l].to = "inode" /\ pending'[l].at = file.no /\ pending'[l].val = g.inode
       /\ \A k \in 1 .. m : /\ pending'[k].to = "bbits" /\ pending'[k].val = mem.bbits \cup Taken(k)
                            /\ pending'[k].val \in SUBSET Blocks
  BY <1>6 DEF WriteShape, Steps
<1>11. \A k \in Steps' :
          \/ k \in 1 .. m /\ k # l /\ pending'[k].to = "bbits"
          \/ k = l /\ m < k /\ pending'[k].to = "inode"
          \/ m < k /\ k # l /\ pending'[k].to = "index" /\ pending'[k].at = g.inode.sec[IndexPos] /\ pending'[k].val = g.index
          \/ /\ m < k /\ k # l /\ pending'[k].to = "cells"
             /\ \/ \E x \in 1 .. NDirect : pending'[k].at = g.inode.sec[x]
                \/ \E x \in 1 .. NIndirect : pending'[k].at = g.index[x]
  <2>1. \A k \in Steps' :
          \/ k \in 1 .. m \/ k = l
          \/ m < k /\ pending'[k].to = "index" /\ pending'[k].at = g.inode.sec[IndexPos] /\ pending'[k].val = g.index
          \/ m < k /\ pending'[k].to = "cells" /\ \/ \E x \in 1 .. NDirect : pending'[k].at = g.inode.sec[x]
                                                  \/ \E x \in 1 .. NIndirect : pending'[k].at = g.index[x]
    BY <1>6, <1>10 DEF WriteShape
  <2> HIDE DEF l
  <2>2. \A k \in 1 .. m : k # l
    BY <1>10
  <2> QED
    BY <1>10, <2>1, <2>2
<1> HIDE DEF l, o
<1> DEFINE Kind(k) == pending'[k].to
<1>27. \A k \in Steps' : /\ Kind(k) = "bbits" <=> k \in 1 .. m
                         /\ Kind(k) = "inode" <=> k = l
                         /\ Kind(k) \in {"bbits", "index", "cells", "inode"}
                         /\ (Kind(k) # "bbits" => m < k)
  <2> SUFFICES ASSUME NEW k \in Steps'
               PROVE  /\ Kind(k) = "bbits" <=> k \in 1 .. m
                      /\ Kind(k) = "inode" <=> k = l
                      /\ Kind(k) \in {"bbits", "index", "cells", "inode"}
                      /\ (Kind(k) # "bbits" => m < k)
    OBVIOUS
  <2>1. \/ k \in 1 .. m /\ k # l /\ Kind(k) = "bbits"
        \/ k = l /\ m < k /\ Kind(k) = "inode"
        \/ m < k /\ k # l /\ Kind(k) = "index"
        \/ m < k /\ k # l /\ Kind(k) = "cells"
    BY <1>11
  <2>2. m < k => k \notin 1 .. m
    BY <1>10
  <2> QED
    BY <2>1, <2>2
<1>28. \A k \in Steps' : Kind(k) = "index" => pending'[k].at = g.inode.sec[IndexPos] /\ pending'[k].val = g.index
  BY <1>11
<1>29. \A k \in Steps' : Kind(k) = "cells" => \/ \E x \in 1 .. NDirect : pending'[k].at = g.inode.sec[x]
                                              \/ \E x \in 1 .. NIndirect : pending'[k].at = g.index[x]
  BY <1>11
<1>12. l \in Steps' /\ pending' # <<>>
  BY <1>10 DEF l
<1> DEFINE Own(b) == MineOf(disk', mem'.bbits, file'.no, b)
<1>13. ASSUME NEW b, b = 0 \/ b \in Taken(m) \/ b \in BlocksOf(disk, file.no)
       PROVE  Own(b)
  BY <1>1, <1>3, <1>4, <1>7, <1>8, <1>9, <1>13 DEF MineOf
<1>14. /\ \A x \in 1 .. IndexPos : o.sec[x] = 0 \/ o.sec[x] \in BlocksOf(disk, file.no)
       /\ \A x \in 1 .. NIndirect : IndexIn(disk, o)[x] = 0 \/ IndexIn(disk, o)[x] \in BlocksOf(disk, file.no)
  BY <1>3 DEF BlocksOf, Holds, o
<1> HIDE DEF Own
<1>15. /\ \A x \in 1 .. IndexPos : Own(g.inode.sec[x])
       /\ \A x \in 1 .. NIndirect : Own(g.index[x]) /\ Own(IndexIn(disk, o)[x])
  <2>1. \A x \in 1 .. IndexPos : g.inode.sec[x] = 0 \/ g.inode.sec[x] \in Taken(m) \/ g.inode.sec[x] \in BlocksOf(disk, file.no)
    BY <1>5, <1>14
  <2>2. \A x \in 1 .. NIndirect : g.index[x] = 0 \/ g.index[x] \in Taken(m) \/ g.index[x] \in BlocksOf(disk, file.no)
    BY <1>5, <1>14
  <2> QED
    BY <1>13, <1>14, <2>1, <2>2
<1>16. \A b : Own(b) => Mine(b)'
  BY DEF Own, Mine
<1>17. Types'
  <2>1. \A k \in Steps' : WriteType(pending'[k])
    <3> SUFFICES ASSUME NEW k \in Steps' PROVE WriteType(pending'[k])
      OBVIOUS
    <3>1. CASE k \in 1 .. m
      BY <1>10, <3>1 DEF WriteType
    <3>2. CASE k = l
      BY <1>4, <1>5, <1>10, <3>2 DEF WriteType
    <3>3. CASE pending'[k].to = "index" /\ pending'[k].at = g.inode.sec[IndexPos] /\ pending'[k].val = g.index
      BY <1>5, <3>3, Sizes DEF WriteType, InodeType
    <3>4. CASE pending'[k].to = "cells" /\ \/ \E x \in 1 .. NDirect : pending'[k].at = g.inode.sec[x]
                                           \/ \E x \in 1 .. NIndirect : pending'[k].at = g.index[x]
      <4>1. \A x \in 1 .. NDirect : g.inode.sec[x] \in 0 .. NBlocks
        BY <1>5, Sizes DEF InodeType
      <4>2. \A x \in 1 .. NIndirect : g.index[x] \in 0 .. NBlocks
        BY <1>5 DEF IndexType
      <4>3. pending'[k].at \in 0 .. NBlocks
        BY <3>4, <4>1, <4>2
      <4> QED
        BY <3>4, <4>3 DEF WriteType
    <3> QED
      BY <1>27, <1>28, <1>29, <3>1, <3>2, <3>3, <3>4
  <2>2. crashes' \in Nat /\ halted' \in BOOLEAN
    BY <1>1, <1>2 DEF Core, Types
  <2> QED
    BY <1>1, <1>3, <1>8, <1>9, <1>10, <2>1, <2>2 DEF Types
<1>18. Order'
  <2>1. \A j, k \in Steps' : j < k /\ pending'[j].to \in {"index", "cells", "inode"} => pending'[k].to # "bbits"
    <3> SUFFICES ASSUME NEW j \in Steps', NEW k \in Steps', j < k, pending'[j].to \in {"index", "cells", "inode"},
                        pending'[k].to = "bbits"
                 PROVE  FALSE
      OBVIOUS
    <3>1. m < j /\ k \in 1 .. m
      BY <1>27
    <3> QED
      BY <1>10, <3>1
  <2> QED
    BY <1>1, <1>27, <2>1 DEF Order, Is
<1>19. BitsEnd'
  <2>1. ASSUME NEW k \in Steps', pending'[k].to = "bbits", \A j \in Steps' : j > k => pending'[j].to # "bbits"
        PROVE  pending'[k].val = mem'.bbits
    <3>1. k \in 1 .. m
      BY <1>27, <2>1
    <3>2. k = m
      <4> SUFFICES ASSUME k < m PROVE FALSE
        BY <1>10, <3>1
      <4>1. k + 1 \in 1 .. m /\ k + 1 \in Steps' /\ k + 1 > k
        BY <1>10, <3>1
      <4> QED
        BY <1>10, <2>1, <4>1
    <3> QED
      BY <1>8, <1>10, <3>1, <3>2
  <2>2. ASSUME \A k \in Steps' : pending'[k].to # "bbits" PROVE disk'.bbits = mem'.bbits
    <3>1. m = 0
      <4> SUFFICES ASSUME m > 0 PROVE FALSE
        BY <1>10
      <4>1. 1 \in 1 .. m /\ 1 \in Steps'
        BY <1>10
      <4> QED
        BY <1>10, <2>2, <4>1
    <3>2. Taken(m) = {}
      BY <3>1 DEF Taken
    <3> QED
      BY <1>1, <1>3, <1>8, <3>2
  <2> QED
    BY <2>1, <2>2 DEF BitsEnd, Is
<1>20. \A k \in Steps' : pending'[k].to # "entry"
  BY <1>27
<1>21. 1 \in Steps'
  BY <1>10
<1>22. \A k : ~Renaming(k)' /\ NextEntry(k)' = disk'.entry[k]
  BY <1>20, <1>21 DEF Renaming, NextEntry, Is
<1>23. FileOK'
  <2>1. NextEntry(file.ink)' = file'.no
    BY <1>1, <1>3, <1>9, <1>20, <1>21 DEF NextEntry, Renaming, Is
  <2>2. \A k \in Steps' : pending'[k].to = "inode" => pending'[k].val = file'.inode
    BY <1>9, <1>10, <1>27
  <2>3. \E k \in Steps' : pending'[k].to = "inode" /\ pending'[k].at = file'.no
    BY <1>9, <1>10, <1>12
  <2> QED
    BY <2>1, <2>2, <2>3 DEF FileOK, Is
<1>24. \A i : ~Zeroing(i)'
  BY <1>5, <1>10, <1>27 DEF Zeroing, Is
<1>25. Appending'
  <2>1. file' # Null
    <3>1. file' = [no |-> file.no, inode |-> g.inode, pos |-> o.size + n - 1, ink |-> file.ink]
      BY <1>1, <1>3 DEF FileType, o
    <3>2. o.size + n - 1 \in Int
      BY <1>4 DEF InodeType
    <3> QED
      BY <1>4, <1>5, <3>1, <3>2, NullAssumption
  <2>2. \A k \in Steps' :
          /\ pending'[k].to \in {"bbits", "index", "cells", "inode"}
          /\ pending'[k].to = "inode" => k = l /\ pending'[k].at = file'.no /\ pending'[k].val = file'.inode
          /\ pending'[k].to = "index" \/ pending'[k].to = "cells" => Own(pending'[k].at)
          /\ pending'[k].to = "index" => \A x \in 1 .. NIndirect : Own(pending'[k].val[x])
    <3> SUFFICES ASSUME NEW k \in Steps'
                 PROVE  /\ pending'[k].to \in {"bbits", "index", "cells", "inode"}
                        /\ pending'[k].to = "inode" => k = l /\ pending'[k].at = file'.no /\ pending'[k].val = file'.inode
                        /\ pending'[k].to = "index" \/ pending'[k].to = "cells" => Own(pending'[k].at)
                        /\ pending'[k].to = "index" => \A x \in 1 .. NIndirect : Own(pending'[k].val[x])
      OBVIOUS
    <3>1. CASE pending'[k].to = "bbits"
      BY <3>1
    <3>2. CASE k = l
      BY <1>9, <1>10, <3>2
    <3>3. CASE pending'[k].to = "index" /\ pending'[k].at = g.inode.sec[IndexPos] /\ pending'[k].val = g.index
      <4>1. Own(g.inode.sec[IndexPos])
        BY <1>15, Sizes
      <4> QED
        BY <1>15, <3>3, <4>1
    <3>4. CASE pending'[k].to = "cells" /\ \/ \E x \in 1 .. NDirect : pending'[k].at = g.inode.sec[x]
                                           \/ \E x \in 1 .. NIndirect : pending'[k].at = g.index[x]
      <4>1. \A x \in 1 .. NDirect : Own(g.inode.sec[x])
        BY <1>15, Sizes
      <4>2. Own(pending'[k].at)
        BY <1>15, <3>4, <4>1
      <4> QED
        BY <3>4, <4>2
    <3> QED
      BY <1>27, <1>28, <1>29, <3>1, <3>2, <3>3, <3>4
  <2>3. \A x \in 1 .. IndexPos : Own(file'.inode.sec[x])
    BY <1>9, <1>15
  <2>4. \/ file'.inode.sec[IndexPos] = 0
        \/ \E k \in Steps' : pending'[k].to = "index" /\ pending'[k].at = file'.inode.sec[IndexPos]
        \/ \A x \in 1 .. NIndirect : Own(disk'.data[file'.inode.sec[IndexPos]].index[x])
    <3>1. CASE SyncsIndex(o, n)
      BY <1>6, <1>9, <3>1
    <3>2. CASE ~SyncsIndex(o, n) /\ o.sec[IndexPos] # 0
      <4>1. file'.inode.sec[IndexPos] = o.sec[IndexPos]
        BY <1>5, <1>9, <3>2
      <4>2. IndexIn(disk, o) = disk'.data[o.sec[IndexPos]].index
        BY <1>1, <3>2 DEF IndexIn
      <4> QED
        BY <1>15, <4>1, <4>2
    <3> QED
      BY <1>5, <1>9, <3>1, <3>2
  <2>5. /\ \A i, j \in Named(disk') : i # j => BlocksOf(disk', i) \intersect BlocksOf(disk', j) = {}
        /\ \A i \in Named(disk') : BlocksOf(disk', i) \subseteq mem'.bbits
    BY <1>1, <1>3, <1>8
  <2>6. file'.inode # Zeroed /\ pending' # <<>> /\ pending'[l].to = "inode"
    BY <1>5, <1>9, <1>10, <1>12
  <2> QED
    BY <1>16, <2>1, <2>2, <2>3, <2>4, <2>5, <2>6 DEF Appending, Is, l, Own, Mine
<1>26. ASSUME crashes = 0 PROVE Recoverable' /\ NamesOK'
  <2>1. NamesOK /\ Recoverable
    BY <1>26 DEF StoreInv
  <2>2. \A k \in Names : disk.entry[k] # 0 => disk.entry[k] \in Named(disk)
    BY <1>3, NamedType
  <2>3. \A k \in Steps' : pending'[k].to = "bbits" => mem.bbits \subseteq pending'[k].val
    BY <1>10, <1>27
  <2>4. \A k \in Steps' : pending'[k].to = "bbits" =>
           \A p \in Names : disk'.entry[p] # 0 => BlocksOf(disk', disk'.entry[p]) \subseteq pending'[k].val
    BY <1>1, <1>3, <2>2, <2>3
  <2>5. Recoverable'
    BY <1>1, <2>1, <2>4 DEF Recoverable, Is
  <2>6. NamesOK'
    BY <1>1, <1>3, <1>8, <1>22, <2>1 DEF NamesOK
  <2> QED
    BY <2>5, <2>6
<1> QED
  BY <1>1, <1>17, <1>18, <1>19, <1>23, <1>25, <1>26 DEF StoreInv, Core

(* file_read and sys_lseek.                                                 *)
LEMMA ReadInv ==
  ASSUME StoreInv, NEW n \in 1 .. MaxCount, Read(n)
  PROVE  StoreInv'
<1> DEFINE got == Min({n, file.inode.size - file.pos})
<1>1. /\ pending = <<>> /\ file # Null
      /\ \/ /\ file' = [file EXCEPT !.pos = file.pos + got]
            /\ UNCHANGED <<disk, mem, pending, halted, crashes, written>>
         \/ HaltAfter(<<>>)
  BY DEF Read, Ready
<1> HIDE DEF got
<1> QED
  BY <1>1, MoveInv, HaltInv

(* Every step keeps the invariant.                                          *)
LEMMA NextInv == StoreInv /\ [Next]_vars => StoreInv'
<1> SUFFICES ASSUME StoreInv, [Next]_vars PROVE StoreInv'
  OBVIOUS
<1>1. ASSUME NEW name \in Names, Create(name) PROVE StoreInv'
  BY <1>1, CreateInv
<1>2. ASSUME NEW name \in Names, CreateHalts(name) PROVE StoreInv'
  BY <1>2, HaltInv DEF CreateHalts, Ready
<1>3. ASSUME NEW name \in Names, Open(name) PROVE StoreInv'
  BY <1>3, OpenInv
<1>4. ASSUME NEW name \in Names, Unlink(name) PROVE StoreInv'
  BY <1>4, UnlinkInv
<1>5. ASSUME NEW n \in 1 .. MaxCount, Write(n) PROVE StoreInv'
  BY <1>5, WriteInv
<1>6. ASSUME NEW n \in 1 .. MaxCount, WriteHalts(n) PROVE StoreInv'
  BY <1>6, WriteHaltsInv
<1>7. ASSUME NEW n \in 1 .. MaxCount, Read(n) PROVE StoreInv'
  BY <1>7, ReadInv
<1>8. ASSUME NEW pos \in 0 .. MaxBlocks * BlockSize, Seek(pos) PROVE StoreInv'
  BY <1>8, MoveInv DEF Seek, Ready
<1>9. ASSUME Close PROVE StoreInv'
  BY <1>9, CloseInv
<1>10. ASSUME Flush PROVE StoreInv'
  BY <1>10, FlushInv
<1>11. ASSUME Crash PROVE StoreInv'
  BY <1>11, CrashInv
<1>12. ASSUME UNCHANGED vars PROVE StoreInv'
  <2>1. UNCHANGED <<disk, mem, file, pending, halted, crashes>>
    BY <1>12 DEF vars
  <2> QED
    BY <2>1 DEF StoreInv, Core, Types, Order, BitsEnd, FileOK, Linking, Appending, Recoverable, NamesOK,
                Steps, Is, Zeroing, Renaming, NextEntry, Mine
<1> QED
  BY <1>1, <1>2, <1>3, <1>4, <1>5, <1>6, <1>7, <1>8, <1>9, <1>10, <1>11, <1>12 DEF Next

(* No block belongs to two named files and every block of a named file is   *)
(* taken, whatever is created, written and removed and wherever the power   *)
(* fails once, for any number of files and blocks and any layout of inodes. *)
THEOREM StoreSurvives == Spec => []BlocksOwnedOnce
<1>1. Init => StoreInv
  BY InitInv
<1>2. StoreInv /\ [Next]_vars => StoreInv'
  BY NextInv
<1>3. StoreInv => BlocksOwnedOnce
  <2> SUFFICES ASSUME StoreInv, pending = <<>>, crashes <= 1
               PROVE  /\ \A i, j \in NamedInos : i # j => Owned(i) \cap Owned(j) = {}
                      /\ \A i \in NamedInos : Owned(i) \subseteq mem.bbits
                      /\ mem.bbits = disk.bbits \/ halted
    BY DEF BlocksOwnedOnce
  <2>1. Core
    BY DEF StoreInv
  <2>2. /\ \A i, j \in Named(disk) : i # j => BlocksOf(disk, i) \intersect BlocksOf(disk, j) = {}
        /\ \A i \in Named(disk) : BlocksOf(disk, i) \subseteq mem.bbits
        /\ (~halted => disk.bbits = mem.bbits) /\ DiskType(disk)
    BY <2>1, AtRest
  <2>3. NamedInos = Named(disk) /\ Named(disk) \subseteq Inos
    BY <2>2, NamedType DEF NamedInos, Named
  <2>4. ASSUME NEW i \in Inos PROVE Owned(i) = BlocksOf(disk, i)
    <3>1. disk.table[i] \in InodeType
      BY <2>2 DEF DiskType
    <3> QED
      BY <2>2, <3>1, FreedAll DEF Owned, BlocksOf
  <2> QED
    BY <2>2, <2>3, <2>4
<1> QED
  BY <1>1, <1>2, <1>3, PTL DEF Spec

-----------------------------------------------------------------------------
(* Nothing leaks                                                            *)

(* The bitmap of the inodes and the size of the directory on the disk will  *)
(* be those in memory.                                                      *)
InodeBitsEnd ==
    /\ \A k \in Steps : Is(k, "ibits") => pending[k].val = mem.ibits
    /\ (\A k \in Steps : ~Is(k, "ibits")) => disk.ibits = mem.ibits
RootEnd ==
    /\ \A k \in Steps : Is(k, "root") => pending[k].val = mem.rootSize
    /\ (\A k \in Steps : ~Is(k, "root")) => disk.rootSize = mem.rootSize
NextNamed == {NextEntry(n) : n \in Names} \ {0}
NextNames == {n \in Names : NextEntry(n) # 0}
AllBlocks(d, S) == UNION {BlocksOf(d, i) : i \in S}
(* The address of the index (0) and of the blocks of a file in their order, *)
(* which are set as far as its size says; the index is none of the others.  *)
AddressAt(o, x, v) ==
    IF v = 0 THEN o.sec[IndexPos] ELSE IF v <= NDirect THEN o.sec[v] ELSE x[v - NDirect]
Fills(size, v) == size > 0 /\ IF v = 0 THEN UsedBlocks(size) > NDirect ELSE v <= UsedBlocks(size)
Shape(o, x) ==
    /\ \A v \in 0 .. MaxBlocks : AddressAt(o, x, v) # 0 <=> Fills(o.size, v)
    /\ AddressAt(o, x, 0) # 0 => \A v \in 1 .. MaxBlocks : AddressAt(o, x, v) # AddressAt(o, x, 0)
(* Between calls, in file_create and in sys_unlink: the taken blocks are    *)
(* those of the files that will have a name.                                *)
LinkExact ==
    /\ mem.bbits = AllBlocks(disk, NextNamed)
    /\ \A i \in NextNamed : Shape(disk.table[i], IndexIn(disk, disk.table[i]))
    /\ \A i \in NextNamed : Zeroing(i) => disk.table[i] = Zeroed
(* In file_write: those of the open file, with the index x it will have,    *)
(* and of the others.                                                       *)
GrowsTo(x) ==
    /\ \A k \in Steps : Is(k, "index") => pending[k].val = x
    /\ (\A k \in Steps : ~Is(k, "index")) => IndexIn(disk, file.inode) = x
    /\ mem.bbits = Holds(file.inode, x) \cup AllBlocks(disk, Named(disk) \ {file.no})
    /\ Shape(file.inode, x)
AppendExact ==
    /\ \E x \in IndexType : GrowsTo(x)
    /\ \A i \in Named(disk) \ {file.no} : Shape(disk.table[i], IndexIn(disk, disk.table[i]))
    /\ \A k \in Steps :
          /\ Is(k, "index") => pending[k].at = file.inode.sec[IndexPos] /\ pending[k].at # 0
          /\ Is(k, "cells") /\ file.inode.sec[IndexPos] # 0 => pending[k].at # file.inode.sec[IndexPos]
NamesExact ==
    /\ IsFiniteSet(NextNames)
    /\ mem.ibits = NextNamed /\ mem.rootSize = 2 + Cardinality(NextNames)
    /\ InodeBitsEnd /\ RootEnd
BlocksExact == (Linking /\ LinkExact) \/ (Appending /\ AppendExact)
ExactInv == crashes = 0 /\ ~halted => NamesExact /\ BlocksExact

(* The blocks of some files and of one more.                                *)
LEMMA AllBlocksWith ==
  ASSUME NEW d, NEW S, NEW i
  PROVE  AllBlocks(d, S \cup {i}) = BlocksOf(d, i) \cup AllBlocks(d, S)
BY DEF AllBlocks

(* The blocks of all files but one, when files have blocks of their own.    *)
LEMMA AllBlocksWithout ==
  ASSUME NEW d, NEW S, NEW i \in S, \A j \in S : j # i => BlocksOf(d, i) \cap BlocksOf(d, j) = {}
  PROVE  AllBlocks(d, S \ {i}) = AllBlocks(d, S) \ BlocksOf(d, i)
<1>1. ASSUME NEW b \in AllBlocks(d, S \ {i}) PROVE b \in AllBlocks(d, S) /\ b \notin BlocksOf(d, i)
  <2>1. PICK j \in S \ {i} : b \in BlocksOf(d, j)
    BY DEF AllBlocks
  <2> QED
    BY <2>1 DEF AllBlocks
<1>2. ASSUME NEW b \in AllBlocks(d, S), b \notin BlocksOf(d, i) PROVE b \in AllBlocks(d, S \ {i})
  <2>1. PICK j \in S : b \in BlocksOf(d, j)
    BY DEF AllBlocks
  <2> QED
    BY <1>2, <2>1 DEF AllBlocks
<1> QED
  BY <1>1, <1>2

(* Files with the same blocks on two disks.                                 *)
LEMMA AllBlocksSame ==
  ASSUME NEW d, NEW e, NEW S, \A i \in S : BlocksOf(e, i) = BlocksOf(d, i)
  PROVE  AllBlocks(e, S) = AllBlocks(d, S)
BY DEF AllBlocks

(* A sector write does not change which entries there will be.              *)
LEMMA FlushNamesExact ==
  ASSUME Core, NamesExact, Flush
  PROVE  NamesExact'
<1>1. Types /\ Order /\ UNCHANGED mem
  BY FlushFacts DEF Core
<1>2. NextNamed' = NextNamed /\ NextNames' = NextNames
  <2>1. \A n \in Names : NextEntry(n)' = NextEntry(n)
    BY <1>1, FlushNext
  <2> QED
    BY <2>1 DEF NextNamed, NextNames
<1>3. /\ \A k \in Steps' : k + 1 \in Steps /\ pending'[k] = pending[k + 1]
      /\ 1 \in Steps
      /\ \A k \in Steps : k # 1 => k - 1 \in Steps' /\ pending'[k - 1] = pending[k]
      /\ disk'.rootSize = IF Is(1, "root") THEN pending[1].val ELSE disk.rootSize
      /\ disk'.ibits = IF Is(1, "ibits") THEN pending[1].val ELSE disk.ibits
  BY <1>1, FlushFacts, FlushEffect
<1>4. InodeBitsEnd'
  <2>1. \A k \in Steps' : Is(k, "ibits")' => pending'[k].val = mem'.ibits
    BY <1>1, <1>3 DEF NamesExact, InodeBitsEnd, Is
  <2>2. ASSUME \A k \in Steps' : ~Is(k, "ibits")' PROVE disk'.ibits = mem'.ibits
    <3>1. \A k \in Steps : k # 1 => ~Is(k, "ibits")
      BY <1>3, <2>2 DEF Is
    <3> QED
      BY <1>1, <1>3, <3>1 DEF NamesExact, InodeBitsEnd
  <2> QED
    BY <2>1, <2>2 DEF InodeBitsEnd
<1>5. RootEnd'
  <2>1. \A k \in Steps' : Is(k, "root")' => pending'[k].val = mem'.rootSize
    BY <1>1, <1>3 DEF NamesExact, RootEnd, Is
  <2>2. ASSUME \A k \in Steps' : ~Is(k, "root")' PROVE disk'.rootSize = mem'.rootSize
    <3>1. \A k \in Steps : k # 1 => ~Is(k, "root")
      BY <1>3, <2>2 DEF Is
    <3> QED
      BY <1>1, <1>3, <3>1 DEF NamesExact, RootEnd
  <2> QED
    BY <2>1, <2>2 DEF RootEnd
<1> QED
  BY <1>1, <1>2, <1>4, <1>5 DEF NamesExact

(* Nor, in file_create and sys_unlink, the blocks of the files that will    *)
(* have a name.                                                             *)
LEMMA FlushLinkExact ==
  ASSUME Core, Linking, LinkExact, Flush
  PROVE  Linking' /\ LinkExact'
<1>1. Types /\ Order /\ UNCHANGED mem
  BY FlushFacts DEF Core
<1>2. Linking'
  BY <1>1, FlushLinking
<1>3. NextNamed' = NextNamed /\ NextNamed \subseteq Inos
  <2>1. \A n \in Names : NextEntry(n)' = NextEntry(n) /\ NextEntry(n) = disk'.entry[n]
    BY <1>1, FlushNext
  <2>2. DiskType(disk')
    BY <1>1, FlushEffect
  <2>3. NextNamed = Named(disk')
    BY <2>1 DEF NextNamed, Named
  <2> QED
    BY <2>1, <2>2, <2>3, NamedType DEF NextNamed
<1>4. /\ 1 \in Steps /\ pending[1].to \notin {"cells", "index"}
      /\ Is(1, "inode") => pending[1].val = Zeroed
  BY <1>1, FlushFacts DEF Linking, Is
<1>5. /\ DiskType(disk)
      /\ \A b \in Blocks : disk'.data[b].index = disk.data[b].index
      /\ disk'.table = IF Is(1, "inode") THEN [disk.table EXCEPT ![pending[1].at] = pending[1].val]
                       ELSE disk.table
  BY <1>1, <1>4, FlushEffect, FlushFacts DEF Is
<1>6. ASSUME NEW i \in NextNamed
      PROVE  /\ disk'.table[i] = disk.table[i] /\ BlocksOf(disk', i) = BlocksOf(disk, i)
             /\ IndexIn(disk', disk.table[i]) = IndexIn(disk, disk.table[i])
  <2>0. i \in Inos /\ disk.table \in [Inos -> InodeType]
    BY <1>3, <1>5 DEF DiskType
  <2>1. disk'.table[i] = disk.table[i]
    <3>1. CASE Is(1, "inode") /\ pending[1].at = i
      <4>1. Zeroing(i)
        BY <1>4, <3>1 DEF Zeroing
      <4> QED
        BY <1>4, <1>5, <2>0, <3>1, <4>1 DEF LinkExact
    <3>2. CASE ~(Is(1, "inode") /\ pending[1].at = i)
      BY <1>5, <2>0, <3>2
    <3> QED
      BY <3>1, <3>2
  <2> QED
    BY <1>5, <2>0, <2>1, BlocksOfSame
<1>7. \A i : Zeroing(i)' => Zeroing(i)
  BY <1>1, FlushZeroing
<1>8. mem'.bbits = AllBlocks(disk', NextNamed')
  BY <1>1, <1>3, <1>6, AllBlocksSame DEF LinkExact
<1>9. \A i \in NextNamed' : Shape(disk'.table[i], IndexIn(disk', disk'.table[i]))
  BY <1>3, <1>6 DEF LinkExact
<1>10. \A i \in NextNamed' : Zeroing(i)' => disk'.table[i] = Zeroed
  BY <1>3, <1>6, <1>7 DEF LinkExact
<1> QED
  BY <1>2, <1>8, <1>9, <1>10 DEF LinkExact

(* In file_write a sector write touches no other file, and the last one     *)
(* makes the inode what it is in memory.                                    *)
LEMMA FlushAppendExact ==
  ASSUME Core, Appending, AppendExact, Flush
  PROVE  BlocksExact'
<1> DEFINE others == Named(disk) \ {file.no}
<1>1. /\ Types /\ Order /\ FileOK /\ UNCHANGED <<mem, file>> /\ DiskType(disk) /\ DiskType(disk')
      /\ 1 \in Steps /\ WriteType(pending[1]) /\ Len(pending) \in Nat /\ Len(pending') = Len(pending) - 1
      /\ \A k \in Steps' : k + 1 \in Steps /\ pending'[k] = pending[k + 1]
      /\ \A k \in Steps : k # 1 => k - 1 \in Steps' /\ pending'[k - 1] = pending[k]
  BY FlushFacts, FlushEffect DEF Core
<1>2. /\ FileType(file) /\ Named(disk') = Named(disk) /\ others \subseteq Inos
      /\ pending[1].to \in {"bbits", "index", "cells", "inode"}
      /\ Is(1, "index") \/ Is(1, "cells") => Mine(pending[1].at)
      /\ Is(1, "inode") => 1 = Len(pending) /\ pending[1].at = file.no /\ pending[1].val = file.inode
  BY <1>1, AppendBlocks, NamedType DEF Appending, Types
<1>3. /\ disk'.table = IF Is(1, "inode") THEN [disk.table EXCEPT ![pending[1].at] = pending[1].val]
                       ELSE disk.table
      /\ \A b \in Blocks :
            disk'.data[b].index = IF Is(1, "cells") /\ b = pending[1].at THEN NoIndex
                                  ELSE IF Is(1, "index") /\ b = pending[1].at THEN pending[1].val
                                  ELSE disk.data[b].index
  BY <1>1, FlushEffect
<1>4. ASSUME NEW i \in others
      PROVE  /\ disk'.table[i] = disk.table[i] /\ BlocksOf(disk', i) = BlocksOf(disk, i)
             /\ IndexIn(disk', disk.table[i]) = IndexIn(disk, disk.table[i])
  <2>1. i \in Inos /\ i # file.no /\ i \in Named(disk) /\ disk.table \in [Inos -> InodeType]
    BY <1>1, <1>2 DEF DiskType
  <2>2. disk'.table[i] = disk.table[i]
    BY <1>2, <1>3, <2>1
  <2>3. \A b \in Blocks : b \in BlocksOf(disk, i) => disk'.data[b].index = disk.data[b].index
    <3> SUFFICES ASSUME NEW b \in Blocks, b \in BlocksOf(disk, i)
                 PROVE  ~((Is(1, "cells") \/ Is(1, "index")) /\ b = pending[1].at)
      BY <1>3
    <3>1. b # 0
      BY Sizes DEF Blocks
    <3> QED
      BY <1>2, <2>1, <3>1 DEF Mine, MineOf
  <2> QED
    BY <1>1, <2>1, <2>2, <2>3, BlocksOfSame
<1>5. PICK x \in IndexType : GrowsTo(x)
  BY DEF AppendExact
<1>6. /\ \A k \in Steps : Is(k, "index") => pending[k].val = x
      /\ (\A k \in Steps : ~Is(k, "index")) => IndexIn(disk, file.inode) = x
      /\ mem.bbits = Holds(file.inode, x) \cup AllBlocks(disk, others)
      /\ Shape(file.inode, x)
  BY <1>5 DEF GrowsTo
<1>7. /\ Is(1, "index") => pending[1].at = file.inode.sec[IndexPos] /\ pending[1].at # 0
      /\ Is(1, "cells") /\ file.inode.sec[IndexPos] # 0 => pending[1].at # file.inode.sec[IndexPos]
  BY <1>1 DEF AppendExact
<1>8. (\A k \in Steps' : ~Is(k, "index")') => IndexIn(disk', file.inode) = x
  <2> SUFFICES ASSUME \A k \in Steps' : ~Is(k, "index")' PROVE IndexIn(disk', file.inode) = x
    OBVIOUS
  <2>1. \A k \in Steps : k # 1 => ~Is(k, "index")
    BY <1>1 DEF Is
  <2> DEFINE b == file.inode.sec[IndexPos]
  <2>2. b \in 0 .. NBlocks
    BY <1>2, Sizes DEF FileType, InodeType
  <2>3. CASE b = 0
    <3>1. ~Is(1, "index")
      BY <1>7, <2>3
    <3> QED
      BY <1>6, <2>1, <2>3, <3>1 DEF IndexIn
  <2>4. CASE b # 0 /\ Is(1, "index")
    <3>1. b \in Blocks /\ pending[1].at = b /\ pending[1].val = x /\ ~Is(1, "cells")
      BY <1>1, <1>6, <1>7, <2>2, <2>4 DEF Blocks, Is
    <3>2. disk'.data[b].index = x
      BY <1>3, <2>4, <3>1
    <3> QED
      BY <2>4, <3>2 DEF IndexIn
  <2>5. CASE b # 0 /\ ~Is(1, "index")
    <3>1. b \in Blocks /\ ~(Is(1, "cells") /\ b = pending[1].at)
      BY <1>7, <2>2, <2>5 DEF Blocks
    <3>2. disk'.data[b].index = disk.data[b].index
      BY <1>3, <2>5, <3>1
    <3>3. IndexIn(disk, file.inode) = x
      BY <1>6, <2>1, <2>5
    <3> QED
      BY <2>5, <3>2, <3>3 DEF IndexIn
  <2> QED
    BY <2>3, <2>4, <2>5
<1>9. AllBlocks(disk', others) = AllBlocks(disk, others)
  BY <1>4, AllBlocksSame
<1>10. \A i \in others : Shape(disk'.table[i], IndexIn(disk', disk'.table[i]))
  BY <1>4 DEF AppendExact
<1>11. Appending' \/ Linking'
  BY <1>1, FlushAppending
<1>12. CASE Appending'
  <2>1. \A k \in Steps' : /\ Is(k, "index")' => pending'[k].val = x /\ pending'[k].at = file.inode.sec[IndexPos]
                                                /\ pending'[k].at # 0
                          /\ Is(k, "cells")' /\ file.inode.sec[IndexPos] # 0 =>
                                pending'[k].at # file.inode.sec[IndexPos]
    BY <1>1, <1>6 DEF AppendExact, Is
  <2>2. GrowsTo(x)'
    BY <1>1, <1>2, <1>6, <1>8, <1>9, <2>1 DEF GrowsTo
  <2>3. AppendExact'
    BY <1>1, <1>2, <1>10, <2>1, <2>2 DEF AppendExact
  <2> QED
    BY <1>12, <2>3 DEF BlocksExact
<1>13. CASE Linking' /\ ~Appending'
  <2>1. Len(pending) = 1
    <3> SUFFICES ASSUME Len(pending) # 1 PROVE FALSE
      OBVIOUS
    <3>1. Len(pending) \in Steps /\ Len(pending) # 1 /\ Is(Len(pending), "inode")
      BY <1>1 DEF Appending, Steps
    <3>2. Len(pending) - 1 \in Steps' /\ pending'[Len(pending) - 1] = pending[Len(pending)]
      BY <1>1, <3>1
    <3>3. \A k \in Steps' : pending'[k].to = "inode" => pending'[k].val = Zeroed
      BY <1>13 DEF Linking, Is
    <3> QED
      BY <3>1, <3>2, <3>3 DEF Appending, Is
  <2>2. Is(1, "inode") /\ Steps' = {}
    BY <1>1, <2>1 DEF Appending, Steps
  <2>3. disk'.table[file.no] = file.inode /\ IndexIn(disk', file.inode) = x
    BY <1>1, <1>2, <1>3, <1>8, <2>2 DEF DiskType, FileType
  <2>4. /\ \A n \in Names : NextEntry(n)' = disk'.entry[n]
        /\ \A n \in Names : disk'.entry[n] = NextEntry(n)
    BY <1>1, FlushNext
  <2>5. NextNamed' = Named(disk)
    BY <1>2, <2>4 DEF NextNamed, Named
  <2>6. file.no \in Named(disk) /\ Named(disk) = others \cup {file.no}
    <3>1. NextEntry(file.ink) = file.no /\ file.ink \in Names /\ file.no \in Inos /\ file.no # 0
      BY <1>1, <1>2, Sizes DEF FileOK, Appending, FileType, Inos
    <3>2. disk'.entry[file.ink] = file.no
      BY <2>4, <3>1
    <3> QED
      BY <1>1, <1>2, <3>1, <3>2, NamedType
  <2>7. BlocksOf(disk', file.no) = Holds(file.inode, x)
    BY <2>3 DEF BlocksOf
  <2>8. mem'.bbits = AllBlocks(disk', NextNamed')
    <3>1. AllBlocks(disk', others \cup {file.no}) =
             BlocksOf(disk', file.no) \cup AllBlocks(disk', others)
      BY AllBlocksWith
    <3> HIDE DEF others
    <3> QED
      BY <1>1, <1>6, <1>9, <2>5, <2>6, <2>7, <3>1
  <2>9. \A i \in NextNamed' : Shape(disk'.table[i], IndexIn(disk', disk'.table[i]))
    <3> HIDE DEF others
    <3> QED
      BY <1>6, <1>10, <2>3, <2>5, <2>6
  <2>10. \A i : ~Zeroing(i)'
    BY <2>2 DEF Zeroing
  <2>11. LinkExact'
    BY <2>8, <2>9, <2>10 DEF LinkExact
  <2> QED
    BY <1>13, <2>11 DEF BlocksExact
<1> QED
  BY <1>11, <1>12, <1>13

(* A cleared inode has no blocks.                                           *)
LEMMA ZeroedShape == Shape(Zeroed, NoIndex)
<1>1. Zeroed.size = 0 /\ Zeroed.sec = NoSecs
  BY DEF Zeroed
<1>2. /\ \A k \in 1 .. IndexPos : NoSecs[k] = 0
      /\ \A k \in 1 .. NIndirect : NoIndex[k] = 0
  BY DEF NoSecs, NoIndex
<1>3. \A v \in 0 .. MaxBlocks : AddressAt(Zeroed, NoIndex, v) = 0
  BY <1>1, <1>2, Sizes DEF AddressAt, MaxBlocks
<1> QED
  BY <1>1, <1>3, Sizes DEF Shape, Fills, MaxBlocks

(* Between calls the exact state is on the disk.                            *)
LEMMA ExactAtRest ==
  ASSUME Core, NamesExact, BlocksExact, pending = <<>>
  PROVE  /\ Linking /\ LinkExact /\ NextNamed = Named(disk)
         /\ NextNames = {n \in Names : disk.entry[n] # 0}
         /\ mem.ibits = Named(disk) /\ disk.ibits = mem.ibits /\ disk.rootSize = mem.rootSize
         /\ mem.bbits = AllBlocks(disk, Named(disk))
         /\ \A i \in Named(disk) : Shape(disk.table[i], IndexIn(disk, disk.table[i]))
<1>1. Steps = {} /\ \A n \in Names : NextEntry(n) = disk.entry[n]
  BY AtRest
<1>2. Linking /\ LinkExact
  BY DEF BlocksExact, Appending
<1>3. NextNamed = Named(disk) /\ NextNames = {n \in Names : disk.entry[n] # 0}
  BY <1>1 DEF NextNamed, NextNames, Named
<1> QED
  BY <1>1, <1>2, <1>3 DEF NamesExact, InodeBitsEnd, RootEnd, LinkExact

(* What file_open, file_close, file_read and sys_lseek leave alone.         *)
LEMMA QuietExact ==
  ASSUME Core, NamesExact, BlocksExact, pending = <<>>, UNCHANGED <<disk, mem, pending>>
  PROVE  NamesExact' /\ BlocksExact'
<1>1. Linking /\ LinkExact
  BY ExactAtRest
<1>2. Linking' /\ LinkExact'
  BY <1>1 DEF Linking, LinkExact, NextNamed, NextEntry, Renaming, Zeroing, Is, Steps
<1>3. NamesExact'
  BY DEF NamesExact, NextNamed, NextNames, NextEntry, Renaming, InodeBitsEnd, RootEnd, Is, Steps
<1> QED
  BY <1>2, <1>3 DEF BlocksExact

(* file_create names a free inode, which is clear.                          *)
LEMMA CreateExact ==
  ASSUME StoreInv, crashes = 0, NamesExact, BlocksExact, NEW name \in Names, Create(name)
  PROVE  NamesExact' /\ BlocksExact'
<1> DEFINE no == Min(Inos \ mem.ibits)
<1>1. /\ pending = <<>> /\ ~halted /\ disk.entry[name] = 0 /\ mem.ibits # Inos
      /\ mem' = [mem EXCEPT !.ibits = @ \cup {no}, !.rootSize = @ + 1]
      /\ pending' = <<EntryWrite(name, no), RootWrite(mem.rootSize + 1),
                      InodeWrite(no, Zeroed), InodeBits(mem.ibits \cup {no})>>
      /\ UNCHANGED <<disk, halted, crashes>>
  BY DEF Create, Ready
<1>2. Core /\ NamesOK /\ Core'
  BY <1>1, CreateInv DEF StoreInv
<1>3. /\ DiskType(disk) /\ MemType(mem) /\ \A i \in Inos : i \notin mem.ibits => disk.table[i] = Zeroed
  BY <1>1, <1>2, AtRest, NamesAtRest
<1>4. /\ NextNames = {n \in Names : disk.entry[n] # 0} /\ NextNamed = Named(disk)
      /\ mem.ibits = Named(disk) /\ disk.ibits = mem.ibits /\ disk.rootSize = mem.rootSize
      /\ mem.bbits = AllBlocks(disk, Named(disk))
      /\ \A i \in Named(disk) : Shape(disk.table[i], IndexIn(disk, disk.table[i]))
  BY <1>1, <1>2, ExactAtRest
<1>5. no \in Inos \ mem.ibits /\ no # 0
  <2> HIDE DEF no
  <2>1. Inos \ mem.ibits \in SUBSET Nat /\ Inos \ mem.ibits # {}
    <3>1. Inos \in SUBSET Nat /\ mem.ibits \in SUBSET Inos
      BY <1>3, Sizes DEF Inos, MemType
    <3>2. \E i \in Inos : i \notin mem.ibits
      BY <1>1, <3>1
    <3> QED
      BY <3>1, <3>2
  <2>2. no \in Inos \ mem.ibits
    BY <2>1, MinIn DEF no
  <2> QED
    BY <2>2, Sizes DEF Inos
<1> HIDE DEF no
<1>6. /\ Len(pending') = 4 /\ pending' # <<>> /\ Steps' = {1, 2, 3, 4}
      /\ pending'[1].to = "entry" /\ pending'[1].at = name /\ pending'[1].val = no
      /\ pending'[2].to = "root" /\ pending'[2].val = mem.rootSize + 1
      /\ pending'[3].to = "inode" /\ pending'[3].at = no
      /\ pending'[4].to = "ibits" /\ pending'[4].val = mem.ibits \cup {no}
  <2>1. /\ Len(pending') = 4 /\ pending' # <<>>
        /\ pending'[1] = EntryWrite(name, no) /\ pending'[2] = RootWrite(mem.rootSize + 1)
        /\ pending'[3] = InodeWrite(no, Zeroed) /\ pending'[4] = InodeBits(mem.ibits \cup {no})
    BY <1>1, FourIsSeq DEF no
  <2> QED
    BY <2>1 DEF EntryWrite, RootWrite, InodeWrite, InodeBits, Steps
<1>7. mem'.bbits = mem.bbits /\ mem'.ibits = mem.ibits \cup {no} /\ mem'.rootSize = mem.rootSize + 1
  <2>1. mem' = [mem EXCEPT !.ibits = mem.ibits \cup {no}, !.rootSize = mem.rootSize + 1]
    BY <1>1 DEF no
  <2> QED
    BY <1>3, <2>1 DEF MemType
<1>8. \A n \in Names : NextEntry(n)' = IF n = name THEN no ELSE disk.entry[n]
  BY <1>1, <1>6 DEF NextEntry, Renaming, Is
<1>9. NextNames' = NextNames \cup {name} /\ name \notin NextNames /\ NextNamed' = Named(disk) \cup {no}
  <2>1. NextNames' = NextNames \cup {name} /\ name \notin NextNames
    BY <1>1, <1>4, <1>5, <1>8 DEF NextNames
  <2>2. NextNamed' = Named(disk) \cup {no}
    BY <1>1, <1>5, <1>8 DEF NextNamed, Named
  <2> QED
    BY <2>1, <2>2
<1>10. NamesExact'
  <2>1. IsFiniteSet(NextNames') /\ mem'.rootSize = 2 + Cardinality(NextNames')
    <3>1. IsFiniteSet(NextNames) /\ mem.rootSize = 2 + Cardinality(NextNames)
      BY DEF NamesExact
    <3>2. Cardinality(NextNames) \in Nat
      BY <3>1, FS_CardinalityType
    <3>3. IsFiniteSet(NextNames') /\ Cardinality(NextNames') = Cardinality(NextNames) + 1
      BY <1>9, <3>1, FS_AddElement
    <3> QED
      BY <1>7, <3>1, <3>2, <3>3
  <2>2. InodeBitsEnd' /\ RootEnd'
    BY <1>6, <1>7 DEF InodeBitsEnd, RootEnd, Is
  <2> QED
    BY <1>4, <1>7, <1>9, <2>1, <2>2 DEF NamesExact
<1>11. Linking'
  <2>1. ~Appending'
    BY <1>6 DEF Appending, Is
  <2> QED
    BY <1>2, <2>1 DEF Core
<1>12. LinkExact'
  <2>1. disk.table[no] = Zeroed /\ BlocksOf(disk, no) = {} /\ IndexIn(disk, disk.table[no]) = NoIndex
    BY <1>3, <1>5, BlocksOfZeroed
  <2>2. mem'.bbits = AllBlocks(disk', NextNamed')
    <3>1. AllBlocks(disk, Named(disk) \cup {no}) =
            BlocksOf(disk, no) \cup AllBlocks(disk, Named(disk))
      BY AllBlocksWith
    <3> QED
      BY <1>1, <1>4, <1>7, <1>9, <2>1, <3>1
  <2>3. \A i \in NextNamed' : Shape(disk'.table[i], IndexIn(disk', disk'.table[i]))
    BY <1>1, <1>4, <1>9, <2>1, ZeroedShape
  <2>4. \A i : Zeroing(i)' => disk'.table[i] = Zeroed
    <3>1. \A k \in Steps' : pending'[k].to = "inode" => pending'[k].at = no
      BY <1>6
    <3>2. \A i : Zeroing(i)' => i = no
      BY <3>1 DEF Zeroing, Is
    <3> QED
      BY <1>1, <2>1, <3>2
  <2> QED
    BY <2>2, <2>3, <2>4 DEF LinkExact
<1> QED
  BY <1>10, <1>11, <1>12 DEF BlocksExact

(* sys_unlink frees the blocks of the file it removes, and no others.       *)
LEMMA UnlinkExact ==
  ASSUME StoreInv, crashes = 0, NamesExact, BlocksExact, NEW name \in Names, Unlink(name)
  PROVE  NamesExact' /\ BlocksExact'
<1> DEFINE no == disk.entry[name]
           all == FreedBlocks(disk.table[no])
           m == Len(all)
<1>1. /\ pending = <<>> /\ ~halted /\ no # 0
      /\ mem' = [rootSize |-> mem.rootSize - 1, ibits |-> mem.ibits \ {no}, bbits |-> mem.bbits \ ToSet(all)]
      /\ pending' = UnlinkWrites(name, no)
      /\ UNCHANGED <<disk, file, halted, crashes>>
  BY DEF Unlink, Ready, UnlinkWrites
<1>2. Core /\ NamesOK /\ Core'
  BY <1>1, UnlinkInv DEF StoreInv
<1>3. /\ DiskType(disk) /\ MemType(mem)
      /\ \A i, j \in Named(disk) : i # j => BlocksOf(disk, i) \intersect BlocksOf(disk, j) = {}
      /\ \A n, p \in Names : n # p /\ disk.entry[n] = disk.entry[p] => disk.entry[n] = 0
  BY <1>1, <1>2, AtRest, NamesAtRest
<1>4. /\ NextNames = {n \in Names : disk.entry[n] # 0} /\ mem.ibits = Named(disk)
      /\ mem.bbits = AllBlocks(disk, Named(disk))
      /\ \A i \in Named(disk) : Shape(disk.table[i], IndexIn(disk, disk.table[i]))
  BY <1>1, <1>2, ExactAtRest
<1>5. no \in Named(disk) /\ no \in Inos
  BY <1>1, <1>3, NamedType
<1>6. ToSet(all) = BlocksOf(disk, no)
  <2>1. disk.table[no] \in InodeType
    BY <1>3, <1>5 DEF DiskType
  <2> QED
    BY <1>3, <2>1, FreedAll DEF BlocksOf
<1>7. UnlinkShape(pending', all, m, name, no)
  <2> HIDE DEF no
  <2>1. DiskType(disk) /\ no \in Inos /\ pending' = UnlinkWrites(name, no)
    BY <1>1, <1>3, <1>5
  <2>2. all = FreedBlocks(disk.table[no]) /\ m = Len(all)
    OBVIOUS
  <2> HIDE DEF all, m
  <2> QED
    BY <2>1, <2>2, UnlinkSteps
<1> HIDE DEF m, all
<1>8. /\ pending' # <<>> /\ m \in Nat /\ Len(pending') = m + 4 /\ Steps' = 1 .. m + 4
      /\ pending'[1].to = "entry" /\ pending'[1].at = name /\ pending'[1].val = 0
      /\ pending'[2].to = "root" /\ pending'[2].val = mem.rootSize - 1
      /\ \A k \in 3 .. m + 2 : pending'[k].to = "bbits"
      /\ pending'[m + 3].to = "ibits" /\ pending'[m + 3].val = mem.ibits \ {no}
      /\ pending'[m + 4].to = "inode" /\ pending'[m + 4].at = no /\ pending'[m + 4].val = Zeroed
  <2>1. /\ m \in Nat /\ Len(pending') = m + 4
        /\ pending'[1].to = "entry" /\ pending'[1].at = name /\ pending'[1].val = 0
        /\ pending'[2].to = "root" /\ pending'[2].val = mem.rootSize - 1
        /\ \A k \in 3 .. m + 2 : pending'[k].to = "bbits"
        /\ pending'[m + 3].to = "ibits" /\ pending'[m + 3].val = mem.ibits \ {no}
        /\ pending'[m + 4].to = "inode" /\ pending'[m + 4].at = no /\ pending'[m + 4].val = Zeroed
    BY <1>7 DEF UnlinkShape
  <2>2. Len(<<>>) = 0
    OBVIOUS
  <2> QED
    BY <2>1, <2>2 DEF Steps
<1> HIDE DEF no
<1>9. \A n \in Names : NextEntry(n)' = IF n = name THEN 0 ELSE disk.entry[n]
  BY <1>1, <1>8 DEF NextEntry, Renaming, Is
<1>10. /\ name \in NextNames /\ NextNames' = NextNames \ {name}
       /\ NextNamed' = Named(disk) \ {no}
  <2>0. disk.entry[name] = no
    BY DEF no
  <2>1. name \in NextNames /\ NextNames' = NextNames \ {name}
    BY <1>1, <1>4, <1>9, <2>0 DEF NextNames
  <2>2. \A n \in Names : disk.entry[n] = no <=> n = name
    BY <1>1, <1>3, <2>0
  <2>3. NextNamed' = Named(disk) \ {no}
    <3>1. NextNamed' = {NextEntry(n)' : n \in Names} \ {0}
      BY DEF NextNamed
    <3> QED
      BY <1>1, <1>9, <2>2, <3>1 DEF Named
  <2> QED
    BY <2>1, <2>3
<1>11. \A k \in Steps' : /\ pending'[k].to = "ibits" => k = m + 3
                         /\ pending'[k].to = "root" => k = 2
                         /\ pending'[k].to = "inode" => k = m + 4
  <2>1. \A k \in 1 .. m + 4 : k = 1 \/ k = 2 \/ k \in 3 .. m + 2 \/ k = m + 3 \/ k = m + 4
    BY <1>8
  <2> QED
    BY <1>8, <2>1
<1>12. NamesExact'
  <2>1. IsFiniteSet(NextNames') /\ mem'.rootSize = 2 + Cardinality(NextNames')
    <3>1. IsFiniteSet(NextNames) /\ mem.rootSize = 2 + Cardinality(NextNames)
      BY DEF NamesExact
    <3>2. Cardinality(NextNames) \in Nat
      BY <3>1, FS_CardinalityType
    <3>3. IsFiniteSet(NextNames') /\ Cardinality(NextNames') = Cardinality(NextNames) - 1
      BY <1>10, <3>1, FS_RemoveElement
    <3> QED
      BY <1>1, <3>1, <3>2, <3>3
  <2>2. m + 3 \in Steps' /\ 2 \in Steps'
    BY <1>8
  <2>3. InodeBitsEnd'
    BY <1>1, <1>8, <1>11, <2>2 DEF InodeBitsEnd, Is
  <2>4. RootEnd'
    BY <1>1, <1>8, <1>11, <2>2 DEF RootEnd, Is
  <2>5. mem'.ibits = NextNamed'
    BY <1>1, <1>4, <1>10
  <2> QED
    BY <2>1, <2>3, <2>4, <2>5 DEF NamesExact
<1>13. Linking'
  <2>1. ~Appending'
    <3>1. m + 4 \in Steps' /\ pending'[m + 4].to = "inode" /\ pending'[m + 4].val = Zeroed
      BY <1>8
    <3>2. ASSUME Appending' PROVE FALSE
      <4>1. /\ file'.inode # Zeroed
            /\ \A k \in Steps' : pending'[k].to = "inode" => pending'[k].val = file'.inode
        BY <3>2 DEF Appending, Is
      <4> QED
        BY <3>1, <4>1
    <3> QED
      BY <3>2
  <2> QED
    BY <1>2, <2>1 DEF Core
<1>14. LinkExact'
  <2>1. mem'.bbits = AllBlocks(disk', NextNamed')
    <3>1. mem'.bbits = mem.bbits \ BlocksOf(disk, no)
      BY <1>1, <1>6
    <3>2. \A j \in Named(disk) : j # no => BlocksOf(disk, no) \cap BlocksOf(disk, j) = {}
      BY <1>3, <1>5
    <3>3. AllBlocks(disk, Named(disk) \ {no}) =
             AllBlocks(disk, Named(disk)) \ BlocksOf(disk, no)
      BY <1>5, <3>2, AllBlocksWithout
    <3>4. disk' = disk
      BY <1>1
    <3> QED
      BY <1>4, <1>10, <3>1, <3>3, <3>4
  <2>2. \A i \in NextNamed' : Shape(disk'.table[i], IndexIn(disk', disk'.table[i]))
    BY <1>1, <1>4, <1>10
  <2>3. \A i : Zeroing(i)' => i = no
    BY <1>8, <1>11 DEF Zeroing, Is
  <2> QED
    BY <1>10, <2>1, <2>2, <2>3 DEF LinkExact
<1> QED
  BY <1>12, <1>13, <1>14 DEF BlocksExact

(* An address v gets a block.                                              *)
Slotted(s, v) == \E k \in DOMAIN s : s[k] = v

(* The addresses of a run of slots: the first, the index block, the others. *)
Numbered(s, f, x, has, will) ==
  /\ DOMAIN s = 1 .. f + x + (will - has)
  /\ \A i \in DOMAIN s : s[i] = IF i <= f THEN 1 ELSE IF i <= f + x THEN 0 ELSE has + (i - (f + x))

(* No address twice, and exactly these.                                     *)
NumbersExact(s, f, x, has, will) ==
  /\ \A j, k \in DOMAIN s : s[j] = s[k] => j = k
  /\ \A k \in DOMAIN s : s[k] \in 0 .. will
  /\ Slotted(s, 1) <=> f = 1
  /\ Slotted(s, 0) <=> x = 1
  /\ \A v \in Nat : v > 1 => (Slotted(s, v) <=> has < v /\ v <= will)

(* In such a sequence no number is twice, and these are its numbers.        *)
LEMMA SlotNumbers ==
  ASSUME NEW f \in {0, 1}, NEW x \in {0, 1}, NEW has \in Nat, NEW will \in Nat, 1 <= has, has <= will,
         NEW s, Numbered(s, f, x, has, will)
  PROVE  NumbersExact(s, f, x, has, will)
<1> DEFINE l == f + x
<1>1. l \in Nat /\ f \in Nat /\ f <= l /\ l <= f + 1 /\ f <= 1 /\ (x = 1 <=> l = f + 1)
  OBVIOUS
<1>2. DOMAIN s = 1 .. l + (will - has)
  BY DEF Numbered
<1>3. \A i \in DOMAIN s : s[i] = IF i <= f THEN 1 ELSE IF i <= l THEN 0 ELSE has + (i - l)
  BY DEF Numbered
<1> HIDE DEF l
<1>4. ASSUME NEW i \in DOMAIN s
      PROVE  \/ i = 1 /\ f = 1 /\ s[i] = 1
             \/ i = f + 1 /\ x = 1 /\ s[i] = 0
             \/ s[i] = has + (i - l) /\ s[i] > has /\ s[i] <= will
  <2>1. i \in Nat /\ i >= 1 /\ i <= l + (will - has)
    BY <1>1, <1>2
  <2>2. CASE i <= f
    BY <1>1, <1>3, <2>1, <2>2
  <2>3. CASE ~(i <= f) /\ i <= l
    BY <1>1, <1>3, <2>1, <2>3
  <2>4. CASE ~(i <= f) /\ ~(i <= l)
    <3>1. s[i] = has + (i - l)
      BY <1>3, <2>4
    <3> QED
      BY <1>1, <2>1, <2>4, <3>1
  <2> QED
    BY <2>2, <2>3, <2>4
<1>5. ASSUME NEW j \in DOMAIN s, NEW k \in DOMAIN s, s[j] = s[k] PROVE j = k
  <2>1. j \in Nat /\ k \in Nat
    BY <1>1, <1>2
  <2> QED
    BY <1>1, <1>4, <1>5, <2>1
<1>6. ASSUME NEW k \in DOMAIN s PROVE s[k] \in 0 .. will
  <2>1. k \in Nat
    BY <1>1, <1>2
  <2> QED
    BY <1>1, <1>4, <2>1
<1>7. ASSUME f = 1 PROVE 1 \in DOMAIN s /\ s[1] = 1
  BY <1>1, <1>2, <1>3, <1>7
<1>8. ASSUME x = 1 PROVE f + 1 \in DOMAIN s /\ s[f + 1] = 0
  BY <1>1, <1>2, <1>3, <1>8
<1>9. ASSUME NEW v \in Nat, has < v, v <= will PROVE Slotted(s, v)
  <2>1. PICK k : k = l + (v - has)
    OBVIOUS
  <2>2. k \in 1 .. l + (will - has) /\ ~(k <= f) /\ ~(k <= l) /\ has + (k - l) = v
    BY <1>1, <1>9, <2>1
  <2>3. k \in DOMAIN s /\ s[k] = v
    BY <1>2, <1>3, <2>2
  <2> QED
    BY <2>3 DEF Slotted
<1>10. ASSUME NEW k \in DOMAIN s
       PROVE  /\ s[k] = 1 => f = 1
              /\ s[k] = 0 => x = 1
              /\ \A v \in Nat : s[k] = v /\ v > 1 => has < v /\ v <= will
  BY <1>4
<1>11. (Slotted(s, 1) <=> f = 1) /\ (Slotted(s, 0) <=> x = 1)
  BY <1>7, <1>8, <1>10 DEF Slotted
<1>12. ASSUME NEW v \in Nat, v > 1, Slotted(s, v) PROVE has < v /\ v <= will
  BY <1>10, <1>12 DEF Slotted
<1> QED
  BY <1>5, <1>6, <1>9, <1>11, <1>12 DEF NumbersExact

(* Which addresses get a block; none gets two.                              *)
LEMMA SlotsExact ==
  ASSUME NEW o \in InodeType, NEW n \in 1 .. MaxCount,
         NEW has, has = UsedBlocks(o.size), NEW will, will = UsedBlocks(o.size + n),
         NEW s, s = NewSlots(o, n)
  PROVE  /\ IsSeq(s) /\ Len(s) \in Nat /\ DOMAIN s = 1 .. Len(s)
         /\ has \in Nat /\ will \in Nat /\ 1 <= has /\ has <= will
         /\ \A j, k \in DOMAIN s : s[j] = s[k] => j = k
         /\ \A k \in DOMAIN s : s[k] \in 0 .. will
         /\ Slotted(s, 1) <=> o.sec[1] = 0
         /\ Slotted(s, 0) <=> has <= NDirect /\ will > NDirect
         /\ \A v \in Nat : v > 1 => (Slotted(s, v) <=> has < v /\ v <= will)
<1> DEFINE f == First(o)
           x == Indexing(o, n)
<1>1. /\ IsSeq(s) /\ Len(s) \in Nat /\ DOMAIN s = 1 .. Len(s)
      /\ has \in Nat /\ will \in Nat /\ 1 <= has /\ has <= will /\ f \in {0, 1} /\ x \in {0, 1}
      /\ Len(s) = f + x + (will - has)
      /\ \A i \in 1 .. Len(s) : s[i] = IF i <= f THEN 1 ELSE IF i <= f + x THEN 0 ELSE has + (i - (f + x))
  BY SlotsAt
<1>2. (f = 1 <=> o.sec[1] = 0) /\ (x = 1 <=> has <= NDirect /\ will > NDirect)
  BY DEF First, Indexing
<1> HIDE DEF f, x
<1>3. Numbered(s, f, x, has, will)
  BY <1>1 DEF Numbered
<1>4. NumbersExact(s, f, x, has, will)
  BY <1>1, <1>3, SlotNumbers
<1> QED
  BY <1>1, <1>2, <1>4 DEF NumbersExact

(* The blocks of a file are its addresses.                                  *)
LEMMA HoldsAt ==
  ASSUME NEW o, NEW x
  PROVE  Holds(o, x) = {AddressAt(o, x, v) : v \in 0 .. MaxBlocks} \ {0}
<1> DEFINE at == {AddressAt(o, x, v) : v \in 0 .. MaxBlocks}
<1>1. ASSUME NEW k \in 1 .. IndexPos PROVE o.sec[k] \in at
  <2>1. CASE k = IndexPos
    BY <2>1, Sizes DEF AddressAt, MaxBlocks
  <2>2. CASE k # IndexPos
    <3>1. k \in 0 .. MaxBlocks /\ AddressAt(o, x, k) = o.sec[k]
      BY <2>2, Sizes DEF AddressAt, MaxBlocks
    <3> QED
      BY <3>1
  <2> QED
    BY <2>1, <2>2
<1>2. ASSUME NEW k \in 1 .. NIndirect PROVE x[k] \in at
  <2>1. NDirect + k \in 0 .. MaxBlocks /\ AddressAt(o, x, NDirect + k) = x[k]
    BY Sizes DEF AddressAt, MaxBlocks
  <2> QED
    BY <2>1
<1>3. ASSUME NEW v \in 0 .. MaxBlocks
      PROVE  \/ \E k \in 1 .. IndexPos : AddressAt(o, x, v) = o.sec[k]
             \/ \E k \in 1 .. NIndirect : AddressAt(o, x, v) = x[k]
  <2>1. CASE v = 0
    BY <2>1, Sizes DEF AddressAt
  <2>2. CASE v # 0 /\ v <= NDirect
    BY <2>2, Sizes DEF AddressAt
  <2>3. CASE v # 0 /\ ~(v <= NDirect)
    <3>1. v - NDirect \in 1 .. NIndirect /\ AddressAt(o, x, v) = x[v - NDirect]
      BY <2>3, Sizes DEF AddressAt, MaxBlocks
    <3> QED
      BY <3>1
  <2> QED
    BY <2>1, <2>2, <2>3
<1>4. \A a : a \in at <=> \/ \E k \in 1 .. IndexPos : a = o.sec[k]
                          \/ \E k \in 1 .. NIndirect : a = x[k]
  BY <1>1, <1>2, <1>3
<1> HIDE DEF at
<1>5. Holds(o, x) = at \ {0}
  BY <1>4 DEF Holds
<1> QED
  BY <1>5 DEF at

(* The address file_write leaves at each place: a new block where it        *)
(* allocates one, the old one elsewhere.                                    *)
LEMMA GrownAt ==
  ASSUME DiskType(disk), NEW o \in InodeType, NEW n \in 1 .. MaxCount, NEW s, s = NewSlots(o, n),
         NEW g, g = Grown(o, n), NEW v \in 0 .. MaxBlocks
  PROVE  \/ /\ ~Slotted(s, v)
            /\ AddressAt(g.inode, g.index, v) = AddressAt(o, IndexIn(disk, o), v)
         \/ \E k \in DOMAIN s : s[k] = v /\ AddressAt(g.inode, g.index, v) = FreeList[k]
<1>1. IndexOf(o) = IndexIn(disk, o)
  BY DEF IndexOf, IndexIn
<1>2. /\ g.inode.sec = [i \in 1 .. IndexPos |->
                            IF i = IndexPos THEN NewAddress(o, s, 0, o.sec[i])
                            ELSE NewAddress(o, s, i, o.sec[i])]
      /\ g.index = [i \in 1 .. NIndirect |-> NewAddress(o, s, NDirect + i, IndexOf(o)[i])]
  BY DEF Grown
<1> DEFINE old == AddressAt(o, IndexIn(disk, o), v)
<1>3. AddressAt(g.inode, g.index, v) = NewAddress(o, s, v, old)
  <2>1. CASE v = 0
    BY <1>2, <2>1, Sizes DEF AddressAt
  <2>2. CASE v # 0 /\ v <= NDirect
    <3>1. v \in 1 .. IndexPos /\ v # IndexPos
      BY <2>2, Sizes
    <3> QED
      BY <1>2, <2>2, <3>1 DEF AddressAt
  <2>3. CASE v # 0 /\ ~(v <= NDirect)
    <3>1. v - NDirect \in 1 .. NIndirect /\ NDirect + (v - NDirect) = v
      BY <2>3, Sizes DEF MaxBlocks
    <3>2. g.index[v - NDirect] = NewAddress(o, s, v, IndexOf(o)[v - NDirect])
      BY <1>2, <3>1
    <3> QED
      BY <1>1, <2>3, <3>2 DEF AddressAt
  <2> QED
    BY <2>1, <2>2, <2>3
<1> HIDE DEF old
<1>4. \/ NewAddress(o, s, v, old) = old /\ \A k \in DOMAIN s : s[k] # v
      \/ \E k \in DOMAIN s : s[k] = v /\ NewAddress(o, s, v, old) = FreeList[k]
  BY AddressFacts
<1> QED
  BY <1>3, <1>4 DEF Slotted, old

(* After file_write the addresses fit the size, the file has its old blocks *)
(* and all the new ones, and the index on the disk is the old one where     *)
(* none is written.                                                         *)
LEMMA GrownShape ==
  ASSUME MemType(mem), DiskType(disk), NEW o \in InodeType, NEW n \in 1 .. MaxCount,
         UsedBlocks(o.size + n) <= MaxBlocks,
         NEW m, m = Len(NewSlots(o, n)), m <= Len(FreeList), NEW g, g = Grown(o, n),
         NEW x, x = IndexIn(disk, o), Shape(o, x), Holds(o, x) \subseteq mem.bbits
  PROVE  /\ Shape(g.inode, g.index)
         /\ Holds(g.inode, g.index) = Holds(o, x) \cup Taken(m)
         /\ ~SyncsIndex(o, n) => IndexIn(disk, g.inode) = g.index
         /\ SyncsIndex(o, n) => g.inode.sec[IndexPos] # 0
<1> DEFINE s == NewSlots(o, n)
           has == UsedBlocks(o.size)
           will == UsedBlocks(o.size + n)
           Old(v) == AddressAt(o, x, v)
           New(v) == AddressAt(g.inode, g.index, v)
<1>1. /\ m \in Nat /\ DOMAIN s = 1 .. m
      /\ has \in Nat /\ will \in Nat /\ 1 <= has /\ has <= will
      /\ \A j, k \in DOMAIN s : s[j] = s[k] => j = k
      /\ \A k \in DOMAIN s : s[k] \in 0 .. will
      /\ Slotted(s, 1) <=> o.sec[1] = 0
      /\ Slotted(s, 0) <=> has <= NDirect /\ will > NDirect
      /\ \A v \in Nat : v > 1 => (Slotted(s, v) <=> has < v /\ v <= will)
  BY SlotsExact
<1>2. /\ \A k \in 1 .. m : FreeList[k] \notin mem.bbits /\ FreeList[k] # 0
      /\ \A j, k \in 1 .. m : j # k => FreeList[j] # FreeList[k]
  <2>1. /\ Len(FreeList) \in Nat
        /\ \A k \in 1 .. Len(FreeList) : FreeList[k] \in Blocks /\ FreeList[k] \notin mem.bbits
        /\ \A j, k \in 1 .. Len(FreeList) : j # k => FreeList[j] # FreeList[k]
    BY FreeFacts
  <2>2. \A k \in 1 .. m : k \in 1 .. Len(FreeList)
    BY <1>1, <2>1
  <2>3. 0 \notin Blocks
    BY Sizes DEF Blocks
  <2> QED
    BY <2>1, <2>2, <2>3
<1>3. o.size \in Nat /\ n \in Nat /\ n > 0 /\ g.inode.size = o.size + n
  BY DEF InodeType, Grown
<1>4. ASSUME NEW v \in 0 .. MaxBlocks
      PROVE  \/ ~Slotted(s, v) /\ New(v) = Old(v)
             \/ \E k \in DOMAIN s : s[k] = v /\ New(v) = FreeList[k]
  BY GrownAt
<1>5. ASSUME NEW v \in 0 .. MaxBlocks
      PROVE  Old(v) # 0 <=> Fills(o.size, v)
  BY DEF Shape
<1>6. Old(0) # 0 => \A v \in 1 .. MaxBlocks : Old(v) # Old(0)
  BY DEF Shape
<1>7. /\ Holds(o, x) = {Old(v) : v \in 0 .. MaxBlocks} \ {0}
      /\ Holds(g.inode, g.index) = {New(v) : v \in 0 .. MaxBlocks} \ {0}
  BY HoldsAt
<1>8. Old(1) = o.sec[1] /\ Old(0) = o.sec[IndexPos] /\ New(0) = g.inode.sec[IndexPos] /\ 1 \in 0 .. MaxBlocks
  BY Sizes DEF AddressAt, MaxBlocks
<1>9. o.size = 0 => has = 1
  BY <1>1, Sizes DEF UsedBlocks
<1>10. MaxBlocks \in Nat /\ NDirect \in Nat /\ NDirect > 0 /\ NDirect < MaxBlocks
  BY Sizes DEF MaxBlocks
<1> HIDE DEF s, has, will, Old, New
<1>11. ASSUME NEW v \in 0 .. MaxBlocks, Slotted(s, v) PROVE Old(v) = 0
  <2>1. CASE v = 1
    BY <1>1, <1>8, <1>11, <2>1
  <2>2. CASE v = 0
    BY <1>1, <1>5, <1>10, <1>11, <2>2 DEF Fills, has
  <2>3. CASE v # 0 /\ v # 1
    BY <1>1, <1>5, <1>10, <1>11, <2>3 DEF Fills, has
  <2> QED
    BY <2>1, <2>2, <2>3
<1>12. ASSUME NEW v \in 0 .. MaxBlocks
       PROVE  Fills(o.size + n, v) <=> Fills(o.size, v) \/ Slotted(s, v)
  <2>1. CASE v = 1
    BY <1>1, <1>3, <1>5, <1>8, <1>10, <2>1 DEF Fills, has, will
  <2>2. CASE v = 0
    BY <1>1, <1>3, <1>9, <1>10, <2>2 DEF Fills, has, will
  <2>3. CASE v # 0 /\ v # 1
    <3>1. v \in Nat /\ v > 1
      BY <1>10, <2>3
    <3>2. Slotted(s, v) <=> has < v /\ v <= will
      BY <1>1, <3>1
    <3>3. (Fills(o.size, v) <=> o.size > 0 /\ v <= has) /\ (Fills(o.size + n, v) <=> v <= will)
      BY <1>3, <2>3 DEF Fills, has, will
    <3> QED
      BY <1>1, <1>3, <1>9, <3>1, <3>2, <3>3
  <2> QED
    BY <2>1, <2>2, <2>3
<1>13. ASSUME NEW v \in 0 .. MaxBlocks
       PROVE  \/ ~Slotted(s, v) /\ New(v) = Old(v)
              \/ Slotted(s, v) /\ Old(v) = 0 /\ \E k \in 1 .. m : s[k] = v /\ New(v) = FreeList[k]
  BY <1>1, <1>4, <1>11 DEF Slotted
<1>14. \A v \in 0 .. MaxBlocks : New(v) # 0 <=> Fills(g.inode.size, v)
  BY <1>2, <1>3, <1>5, <1>12, <1>13
<1>15. \A v \in 0 .. MaxBlocks : Old(v) # 0 => Old(v) \in mem.bbits
  BY <1>7
<1>16. ASSUME New(0) # 0, NEW v \in 1 .. MaxBlocks PROVE New(v) # New(0)
  <2>0. v \in 0 .. MaxBlocks /\ v # 0 /\ 0 \in 0 .. MaxBlocks
    BY <1>10
  <2>1. CASE New(v) = Old(v) /\ New(0) = Old(0)
    BY <1>6, <1>16, <2>1
  <2>2. CASE New(v) = Old(v) /\ \E k \in 1 .. m : New(0) = FreeList[k]
    BY <1>2, <1>15, <2>0, <2>2
  <2>3. CASE New(0) = Old(0) /\ \E k \in 1 .. m : New(v) = FreeList[k]
    BY <1>2, <1>15, <1>16, <2>0, <2>3
  <2>4. CASE \E j, k \in 1 .. m : s[j] = v /\ s[k] = 0 /\ New(v) = FreeList[j] /\ New(0) = FreeList[k]
    BY <1>2, <2>0, <2>4
  <2> QED
    BY <1>13, <2>0, <2>1, <2>2, <2>3, <2>4
<1>17. Shape(g.inode, g.index)
  BY <1>14, <1>16 DEF Shape, New
<1>18. Holds(g.inode, g.index) = Holds(o, x) \cup Taken(m)
  <2>1. ASSUME NEW v \in 0 .. MaxBlocks, New(v) # 0
        PROVE  New(v) \in Holds(o, x) \cup Taken(m)
    BY <1>7, <1>13, <2>1 DEF Taken
  <2>2. ASSUME NEW v \in 0 .. MaxBlocks, Old(v) # 0 PROVE New(v) = Old(v)
    BY <1>13, <2>2
  <2>3. ASSUME NEW k \in 1 .. m PROVE FreeList[k] # 0 /\ \E v \in 0 .. MaxBlocks : New(v) = FreeList[k]
    <3>1. s[k] \in 0 .. MaxBlocks /\ k \in DOMAIN s
      BY <1>1, <1>10 DEF will
    <3>2. Slotted(s, s[k])
      BY <3>1 DEF Slotted
    <3>3. PICK j \in 1 .. m : s[j] = s[k] /\ New(s[k]) = FreeList[j]
      BY <1>13, <3>1, <3>2
    <3>4. j = k
      BY <1>1, <3>3
    <3> QED
      BY <1>2, <3>1, <3>3, <3>4
  <2> QED
    BY <1>7, <2>1, <2>2, <2>3 DEF Taken
<1>19. ASSUME SyncsIndex(o, n) PROVE g.inode.sec[IndexPos] # 0
  <2>1. will > NDirect /\ 0 \in 0 .. MaxBlocks
    BY <1>10, <1>19 DEF SyncsIndex, will
  <2>2. Fills(g.inode.size, 0)
    BY <1>3, <2>1 DEF Fills, will
  <2> QED
    BY <1>8, <1>14, <2>1, <2>2
<1>20. ASSUME ~SyncsIndex(o, n) PROVE IndexIn(disk, g.inode) = g.index
  <2>1. ~(will > NDirect /\ will > has)
    BY <1>20 DEF SyncsIndex, will, has
  <2>2. New(0) = Old(0)
    BY <1>1, <1>10, <1>13, <2>1
  <2>3. ASSUME NEW k \in 1 .. NIndirect PROVE g.index[k] = x[k]
    <3>1. NDirect + k \in 0 .. MaxBlocks /\ NDirect + k > 1 /\ NDirect + k \in Nat
      BY Sizes DEF MaxBlocks
    <3>2. ~Slotted(s, NDirect + k)
      BY <1>1, <1>10, <2>1, <3>1
    <3>3. New(NDirect + k) = Old(NDirect + k)
      BY <1>13, <3>1, <3>2
    <3>4. New(NDirect + k) = g.index[k] /\ Old(NDirect + k) = x[k]
      BY <3>1, Sizes DEF New, Old, AddressAt
    <3> QED
      BY <3>3, <3>4
  <2>4. IndexIn(disk, g.inode) = x
    BY <1>8, <2>2 DEF IndexIn
  <2>5. x \in IndexType /\ g.index \in IndexType
    BY IndexInType, GrownFacts
  <2>6. /\ x = [k \in 1 .. NIndirect |-> x[k]]
        /\ g.index = [k \in 1 .. NIndirect |-> g.index[k]]
    BY <2>5 DEF IndexType
  <2>7. x = g.index
    BY <2>3, <2>6, Zenon
  <2> QED
    BY <2>4, <2>7
<1> QED
  BY <1>17, <1>18, <1>19, <1>20

(* file_write takes for the open file what it marks in the bitmap.          *)
LEMMA WriteExact ==
  ASSUME StoreInv, crashes = 0, NamesExact, BlocksExact, NEW n \in 1 .. MaxCount, Write(n)
  PROVE  NamesExact' /\ BlocksExact'
<1> DEFINE o == file.inode
           m == Len(NewSlots(o, n))
           g == Grown(o, n)
           x == IndexIn(disk, o)
           others == Named(disk) \ {file.no}
<1>1. /\ pending = <<>> /\ ~halted /\ file # Null
      /\ UsedBlocks(o.size + n) <= MaxBlocks /\ m <= Len(FreeList)
      /\ pending' = WriteSyncs(o, file.no, n, file.ink)
      /\ file' = [file EXCEPT !.inode = g.inode, !.pos = o.size + n - 1]
      /\ mem' = [mem EXCEPT !.bbits = @ \cup {FreeList[k] : k \in 1 .. m}]
      /\ UNCHANGED <<disk, halted, crashes>>
  BY DEF Write, Ready
<1>2. Core /\ Core'
  BY <1>1, WriteInv DEF StoreInv
<1>3. /\ DiskType(disk) /\ MemType(mem)
      /\ \A k \in Names : NextEntry(k) = disk.entry[k]
      /\ \A i \in Named(disk) : BlocksOf(disk, i) \subseteq mem.bbits
      /\ FileType(file) /\ disk.entry[file.ink] = file.no /\ disk.table[file.no] = file.inode
  BY <1>1, <1>2, AtRest
<1>4. o \in InodeType /\ file.no \in Inos /\ file.no \in Named(disk)
  BY <1>3, NamedType, Sizes DEF FileType, Inos
<1>5. /\ NextNamed = Named(disk) /\ disk.ibits = mem.ibits /\ disk.rootSize = mem.rootSize
      /\ mem.bbits = AllBlocks(disk, Named(disk))
      /\ \A i \in Named(disk) : Shape(disk.table[i], IndexIn(disk, disk.table[i]))
  BY <1>1, <1>2, ExactAtRest
<1>6. Shape(o, x) /\ Holds(o, x) = BlocksOf(disk, file.no) /\ Holds(o, x) \subseteq mem.bbits
  BY <1>3, <1>4, <1>5 DEF BlocksOf
<1> HIDE DEF m, g, x, others
<1>7. /\ Shape(g.inode, g.index)
      /\ Holds(g.inode, g.index) = Holds(o, x) \cup Taken(m)
      /\ ~SyncsIndex(o, n) => IndexIn(disk, g.inode) = g.index
      /\ SyncsIndex(o, n) => g.inode.sec[IndexPos] # 0
      /\ g.index \in IndexType
  <2>1. m = Len(NewSlots(o, n)) /\ g = Grown(o, n) /\ x = IndexIn(disk, o)
    BY DEF m, g, x
  <2> HIDE DEF o
  <2>2. g.index \in IndexType
    BY <1>1, <1>3, <1>4, <2>1, GrownFacts
  <2> QED
    BY <1>1, <1>3, <1>4, <1>6, <2>1, <2>2, GrownShape
<1>8. /\ WriteShape(pending', m, file.no, g)
      /\ SyncsIndex(o, n) => \E k \in Steps' : pending'[k].to = "index"
      /\ \A k \in Steps' : pending'[k].to = "index" => SyncsIndex(o, n)
  <2>1. m = Len(NewSlots(o, n)) /\ g = Grown(o, n)
    BY DEF m, g
  <2> HIDE DEF o
  <2> QED
    BY <1>1, <1>3, <1>4, <2>1, WriteSteps DEF Steps
<1>9. mem'.bbits = mem.bbits \cup Taken(m) /\ mem'.ibits = mem.ibits /\ mem'.rootSize = mem.rootSize
  BY <1>1, <1>3 DEF MemType, Taken
<1>10. file'.no = file.no /\ file'.inode = g.inode
  BY <1>1, <1>3 DEF FileType
<1>11. /\ Len(pending') \in Steps' /\ pending'[Len(pending')].to = "inode"
       /\ \A k \in Steps' : \/ pending'[k].to \in {"bbits", "inode"}
                            \/ /\ pending'[k].to = "index" /\ pending'[k].at = g.inode.sec[IndexPos]
                               /\ pending'[k].val = g.index
                            \/ /\ pending'[k].to = "cells"
                               /\ \/ \E i \in 1 .. NDirect : pending'[k].at = g.inode.sec[i]
                                  \/ \E i \in 1 .. NIndirect : pending'[k].at = g.index[i]
       /\ pending' # <<>>
  <2>1. Len(<<>>) = 0
    OBVIOUS
  <2> QED
    BY <1>8, <2>1 DEF WriteShape, Steps
<1>12. \A k \in Names : NextEntry(k)' = disk.entry[k]
  <2>1. 1 \in Steps' => pending'[1].to # "entry"
    BY <1>11
  <2>2. 1 \in Steps'
    BY <1>8 DEF WriteShape, Steps
  <2> QED
    BY <1>1, <2>1, <2>2 DEF NextEntry, Renaming, Is
<1>13. NamesExact'
  <2>1. NextNamed' = NextNamed /\ NextNames' = NextNames
    BY <1>3, <1>12 DEF NextNamed, NextNames
  <2>2. \A k \in Steps' : pending'[k].to \notin {"ibits", "root"}
    BY <1>11
  <2>3. InodeBitsEnd' /\ RootEnd'
    BY <1>1, <1>5, <1>9, <2>2 DEF InodeBitsEnd, RootEnd, Is
  <2> QED
    BY <1>9, <2>1, <2>3 DEF NamesExact
<1>14. Appending'
  <2>1. ~Linking'
    <3>1. pending'[Len(pending')].val = g.inode /\ g.inode # Zeroed
      <4>1. g = Grown(o, n) /\ m = Len(NewSlots(o, n))
        BY DEF g, m
      <4> HIDE DEF o
      <4>2. g.inode # Zeroed
        BY <1>1, <1>3, <1>4, <4>1, GrownFacts
      <4> QED
        BY <1>8, <4>2 DEF WriteShape
    <3>2. ASSUME Linking' PROVE FALSE
      <4>1. \A k \in Steps' : pending'[k].to = "inode" => pending'[k].val = Zeroed
        BY <3>2 DEF Linking, Is
      <4> QED
        BY <1>11, <3>1, <4>1
    <3> QED
      BY <3>2
  <2> QED
    BY <1>2, <2>1 DEF Core
<1>15. Named(disk) = others \cup {file.no}
  BY <1>4 DEF others
<1>0. PICK y : y = g.index
  OBVIOUS
<1>16. GrowsTo(y)'
  <2>1. \A k \in Steps' : pending'[k].to = "index" => pending'[k].val = g.index
    BY <1>11
  <2>2. ASSUME \A k \in Steps' : pending'[k].to # "index" PROVE IndexIn(disk, g.inode) = g.index
    BY <1>7, <1>8, <2>2
  <2>3. mem.bbits = BlocksOf(disk, file.no) \cup AllBlocks(disk, others)
    BY <1>5, <1>15, AllBlocksWith
  <2>4. mem'.bbits = Holds(g.inode, g.index) \cup AllBlocks(disk, others)
    BY <1>6, <1>7, <1>9, <2>3
  <2>5. disk' = disk
    BY <1>1
  <2>6. mem'.bbits = Holds(file'.inode, g.index) \cup AllBlocks(disk', Named(disk') \ {file'.no})
    BY <1>10, <2>4, <2>5 DEF others
  <2> QED
    BY <1>0, <1>7, <1>10, <2>1, <2>2, <2>5, <2>6 DEF GrowsTo, Is
<1>17. AppendExact'
  <2>1. \A i \in others : Shape(disk.table[i], IndexIn(disk, disk.table[i]))
    BY <1>5, <1>15
  <2>2. ASSUME NEW k \in Steps', pending'[k].to = "index"
        PROVE  pending'[k].at = g.inode.sec[IndexPos] /\ pending'[k].at # 0
    BY <1>7, <1>8, <1>11, <2>2
  <2>3. ASSUME NEW k \in Steps', pending'[k].to = "cells", g.inode.sec[IndexPos] # 0
        PROVE  pending'[k].at # g.inode.sec[IndexPos]
    <3>1. \A v \in 1 .. MaxBlocks : AddressAt(g.inode, g.index, v) # g.inode.sec[IndexPos]
      BY <1>7, <2>3 DEF Shape, AddressAt
    <3>2. ASSUME NEW i \in 1 .. NDirect PROVE g.inode.sec[i] # g.inode.sec[IndexPos]
      <4>1. i \in 1 .. MaxBlocks /\ AddressAt(g.inode, g.index, i) = g.inode.sec[i]
        BY Sizes DEF MaxBlocks, AddressAt
      <4> QED
        BY <3>1, <4>1
    <3>3. ASSUME NEW i \in 1 .. NIndirect PROVE g.index[i] # g.inode.sec[IndexPos]
      <4>1. NDirect + i \in 1 .. MaxBlocks /\ AddressAt(g.inode, g.index, NDirect + i) = g.index[i]
        BY Sizes DEF MaxBlocks, AddressAt
      <4> QED
        BY <3>1, <4>1
    <3> QED
      BY <1>11, <2>3, <3>2, <3>3
  <2>4. \E z \in IndexType : GrowsTo(z)'
    BY <1>0, <1>7, <1>16
  <2> QED
    BY <1>1, <1>10, <2>1, <2>2, <2>3, <2>4 DEF AppendExact, Is, others
<1> QED
  BY <1>13, <1>14, <1>17 DEF BlocksExact

(* A formatted partition is exact.                                          *)
LEMMA InitExact == Init => ExactInv
<1> SUFFICES ASSUME Init PROVE NamesExact /\ BlocksExact
  BY DEF ExactInv
<1>1. Core /\ pending = <<>> /\ crashes = 0 /\ ~halted
  BY InitInv DEF StoreInv, Init
<1>2. /\ disk.entry = [n \in Names |-> 0] /\ disk.rootSize = 2 /\ disk.ibits = {} /\ disk.bbits = {}
      /\ mem.rootSize = 2 /\ mem.ibits = {} /\ mem.bbits = {}
  BY DEF Init, Formatted, Mounted
<1>3. Steps = {} /\ \A n \in Names : NextEntry(n) = disk.entry[n]
  BY <1>1, AtRest
<1>4. NextNamed = {} /\ NextNames = {}
  BY <1>2, <1>3 DEF NextNamed, NextNames
<1>5. IsFiniteSet({}) /\ Cardinality({}) = 0
  BY FS_EmptySet
<1>6. NamesExact
  BY <1>2, <1>3, <1>4, <1>5 DEF NamesExact, InodeBitsEnd, RootEnd
<1>7. Linking
  BY <1>1 DEF Core, Appending
<1>8. LinkExact
  BY <1>2, <1>4 DEF LinkExact, AllBlocks
<1> QED
  BY <1>6, <1>7, <1>8 DEF BlocksExact

(* Every step keeps the bitmaps exact, as long as no loss of power and no   *)
(* ASSERT cuts a call short.                                                *)
LEMMA NextExact == StoreInv /\ ExactInv /\ [Next]_vars => ExactInv'
<1> SUFFICES ASSUME StoreInv, ExactInv, [Next]_vars, crashes' = 0, ~halted'
             PROVE  NamesExact' /\ BlocksExact'
  BY DEF ExactInv
<1> USE DEF Ready, HaltAfter
<1>0. ASSUME crashes = 0, ~halted PROVE Core /\ NamesExact /\ BlocksExact
  BY <1>0 DEF StoreInv, ExactInv
<1>1. ASSUME NEW name \in Names, Create(name) PROVE NamesExact' /\ BlocksExact'
  BY <1>0, <1>1, CreateExact DEF Create
<1>2. ASSUME NEW name \in Names, CreateHalts(name) PROVE NamesExact' /\ BlocksExact'
  BY <1>2 DEF CreateHalts
<1>3. ASSUME NEW name \in Names, Open(name) PROVE NamesExact' /\ BlocksExact'
  BY <1>0, <1>3, QuietExact DEF Open
<1>4. ASSUME NEW name \in Names, Unlink(name) PROVE NamesExact' /\ BlocksExact'
  BY <1>0, <1>4, UnlinkExact DEF Unlink
<1>5. ASSUME NEW n \in 1 .. MaxCount, Write(n) PROVE NamesExact' /\ BlocksExact'
  BY <1>0, <1>5, WriteExact DEF Write
<1>6. ASSUME NEW n \in 1 .. MaxCount, WriteHalts(n) PROVE NamesExact' /\ BlocksExact'
  BY <1>6 DEF WriteHalts
<1>7. ASSUME NEW n \in 1 .. MaxCount, Read(n) PROVE NamesExact' /\ BlocksExact'
  BY <1>0, <1>7, QuietExact DEF Read
<1>8. ASSUME NEW pos \in 0 .. MaxBlocks * BlockSize, Seek(pos) PROVE NamesExact' /\ BlocksExact'
  BY <1>0, <1>8, QuietExact DEF Seek
<1>9. ASSUME Close PROVE NamesExact' /\ BlocksExact'
  BY <1>0, <1>9, QuietExact DEF Close
<1>10. ASSUME Flush PROVE NamesExact' /\ BlocksExact'
  <2>0. crashes = 0 /\ ~halted
    BY <1>10 DEF Flush
  <2>1. Core /\ NamesExact /\ BlocksExact
    BY <1>0, <2>0
  <2>2. NamesExact'
    BY <1>10, <2>1, FlushNamesExact
  <2>3. BlocksExact'
    BY <1>10, <2>1, FlushLinkExact, FlushAppendExact DEF BlocksExact
  <2> QED
    BY <2>2, <2>3
<1>11. ASSUME Crash PROVE FALSE
  BY <1>11 DEF Crash, StoreInv
<1>12. ASSUME UNCHANGED vars PROVE NamesExact' /\ BlocksExact'
  <2>1. UNCHANGED <<disk, mem, file, pending, halted, crashes>>
    BY <1>12 DEF vars
  <2>0. crashes = 0 /\ ~halted
    BY <2>1
  <2>2. NamesExact /\ BlocksExact
    BY <1>0, <2>0
  <2>3. NamesExact'
    BY <2>1, <2>2 DEF NamesExact, InodeBitsEnd, RootEnd, NextNamed, NextNames, Steps, Is, Renaming, NextEntry
  <2>4. ASSUME Linking, LinkExact PROVE Linking' /\ LinkExact'
    BY <2>1, <2>4 DEF Linking, LinkExact, NextNamed, Steps, Is, Zeroing, Renaming, NextEntry
  <2>5. ASSUME Appending, AppendExact PROVE Appending' /\ AppendExact'
    <3>1. Appending'
      BY <2>1, <2>5 DEF Appending, Steps, Is, Mine
    <3>2. AppendExact'
      BY <2>1, <2>5 DEF AppendExact, GrowsTo, Steps, Is
    <3> QED
      BY <3>1, <3>2
  <2> QED
    BY <2>2, <2>3, <2>4, <2>5 DEF BlocksExact
<1> QED
  BY <1>1, <1>2, <1>3, <1>4, <1>5, <1>6, <1>7, <1>8, <1>9, <1>10, <1>11, <1>12 DEF Next

(* Between two calls the bitmaps are exactly the named files and their      *)
(* blocks, the directory counts its entries, memory has what is on the disk *)
(* and the open file is its inode there, whatever file_create, file_write   *)
(* and sys_unlink did before, unless a loss of power or an ASSERT cut one   *)
(* of them short.                                                           *)
THEOREM StoreLeaksNothing == Spec => []NothingLeaks
<1>1. Init => StoreInv /\ ExactInv
  BY InitInv, InitExact
<1>2. StoreInv /\ ExactInv /\ [Next]_vars => StoreInv' /\ ExactInv'
  BY NextInv, NextExact
<1>3. StoreInv /\ ExactInv => NothingLeaks
  <2> SUFFICES ASSUME StoreInv, ExactInv, pending = <<>>, crashes = 0, ~halted
               PROVE  /\ disk.ibits = NamedInos /\ disk.bbits = UNION {Owned(i) : i \in NamedInos}
                      /\ Mounted(disk) = mem
                      /\ disk.rootSize = 2 + Cardinality({n \in Names : disk.entry[n] # 0})
                      /\ Cardinality(NamedInos) = Cardinality({n \in Names : disk.entry[n] # 0})
                      /\ file # Null => disk.table[file.no] = file.inode
    BY DEF NothingLeaks
  <2> DEFINE names == {n \in Names : disk.entry[n] # 0}
  <2>1. Core /\ NamesOK /\ NamesExact /\ BlocksExact
    BY DEF StoreInv, ExactInv
  <2>2. /\ disk.bbits = mem.bbits /\ DiskType(disk) /\ MemType(mem)
        /\ file # Null => disk.table[file.no] = file.inode
        /\ \A n, p \in Names : n # p /\ disk.entry[n] = disk.entry[p] => disk.entry[n] = 0
    BY <2>1, AtRest, NamesAtRest
  <2>3. /\ NextNames = names /\ mem.ibits = Named(disk) /\ disk.ibits = mem.ibits
        /\ disk.rootSize = mem.rootSize /\ mem.bbits = AllBlocks(disk, Named(disk))
    BY <2>1, ExactAtRest
  <2>4. NamedInos = Named(disk) /\ Named(disk) \subseteq Inos
    BY <2>2, NamedType DEF NamedInos, Named
  <2>5. IsFiniteSet(names) /\ mem.rootSize = 2 + Cardinality(names)
    BY <2>1, <2>3 DEF NamesExact
  <2>6. \A i \in Inos : Owned(i) = BlocksOf(disk, i)
    <3> SUFFICES ASSUME NEW i \in Inos PROVE Owned(i) = BlocksOf(disk, i)
      OBVIOUS
    <3>1. disk.table[i] \in InodeType
      BY <2>2 DEF DiskType
    <3> QED
      BY <2>2, <3>1, FreedAll DEF Owned, BlocksOf
  <2>7. disk.bbits = UNION {Owned(i) : i \in NamedInos}
    BY <2>2, <2>3, <2>4, <2>6 DEF AllBlocks
  <2>8. Mounted(disk) = mem
    BY <2>2, <2>3 DEF Mounted, MemType
  <2>9. Cardinality(NamedInos) = Cardinality(names)
    <3> DEFINE F == [n \in names |-> disk.entry[n]]
    <3>1. F \in Bijection(names, NamedInos)
      <4>1. \A n \in names : disk.entry[n] \in NamedInos
        BY DEF NamedInos
      <4>2. \A i \in NamedInos : \E n \in names : disk.entry[n] = i
        BY DEF NamedInos
      <4>3. \A n, p \in names : disk.entry[n] = disk.entry[p] => n = p
        BY <2>2
      <4> QED
        BY <4>1, <4>2, <4>3 DEF Bijection, Injection, Surjection, IsInjective
    <3>2. ExistsBijection(names, NamedInos)
      BY <3>1 DEF ExistsBijection
    <3> HIDE DEF names
    <3> QED
      BY <2>5, <3>2, FS_Bijection
  <2> QED
    BY <2>2, <2>3, <2>4, <2>5, <2>7, <2>8, <2>9
<1> QED
  BY <1>1, <1>2, <1>3, PTL DEF Spec
=============================================================================
