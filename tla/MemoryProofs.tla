---------------------------- MODULE MemoryProofs ----------------------------
(***************************************************************************)
(* The memory manager, proved for any number of processes, any sizes of    *)
(* the pools and of the virtual address spaces and any number of blocks    *)
(* per arena: no frame has two users, bitmaps and page tables agree, every *)
(* kernel page has one owner or is a known leak, and the heap is exact.    *)
(***************************************************************************)
EXTENDS Memory, FiniteSetTheorems, TLAPS

-----------------------------------------------------------------------------
(* Numbers                                                                  *)

(* A set of naturals has a least element.                                   *)
LEMMA LeastNumber ==
  ASSUME NEW T \in SUBSET Nat, T # {}
  PROVE  \E x \in T : \A y \in T : x <= y
<1>1. IsWellFoundedOn(OpToRel(<, Nat), Nat)
  BY NatLessThanWellFounded, Zenon
<1>2. PICK x \in T : \A y \in T : ~(<<y, x>> \in OpToRel(<, Nat))
  BY <1>1, WFMin, Zenon
<1>3. \A y \in T : ~(y < x)
  BY <1>2 DEF OpToRel
<1> QED
  BY <1>3

(* bitmap_scan returns the least candidate.                                 *)
LEMMA MinIs ==
  ASSUME NEW T \in SUBSET Nat, T # {}
  PROVE  Min(T) \in T /\ \A y \in T : Min(T) <= y
BY LeastNumber DEF Min

(* DIV_ROUND_UP is at least the exact quotient.                             *)
LEMMA BitmapSizes ==
  /\ BitmapPages \in Nat \ {0} /\ BitmapFreed \in Nat /\ BitmapFreed <= BitmapPages
BY SizesAssumption DEF BitmapPages, BitmapFreed

(* The page directory index of a page is not above the page.                *)
LEMMA Quotient ==
  ASSUME NEW p \in Nat PROVE Pde(p) \in 0 .. p
BY SizesAssumption DEF Pde

-----------------------------------------------------------------------------
(* Assign: frames for pages, in order                                       *)

Below(S, x) == {y \in S : y < x}
Bounded(S) == S \in SUBSET Nat /\ IsFiniteSet(S)

(* The number of smaller elements tells the elements of a set apart.        *)
LEMMA RankGrows ==
  ASSUME NEW S, Bounded(S), NEW x \in S, NEW z \in S, x < z
  PROVE  /\ Cardinality(Below(S, x)) \in Nat
         /\ Cardinality(Below(S, x)) < Cardinality(Below(S, z))
         /\ Cardinality(Below(S, z)) < Cardinality(S)
<1>1. /\ IsFiniteSet(Below(S, x)) /\ IsFiniteSet(Below(S, z)) /\ IsFiniteSet(S)
      /\ Below(S, x) \in SUBSET Below(S, z) /\ Below(S, z) \in SUBSET S
  <2>1. \A y \in S : y \in Nat
    BY DEF Bounded
  <2>2. Below(S, x) \in SUBSET Below(S, z)
    BY <2>1 DEF Below
  <2>3. Below(S, x) \in SUBSET S /\ Below(S, z) \in SUBSET S
    BY DEF Below
  <2> QED
    BY <2>2, <2>3, FS_Subset DEF Bounded
<1>2. /\ Cardinality(Below(S, x)) \in Nat /\ Cardinality(Below(S, z)) \in Nat
      /\ Cardinality(S) \in Nat
  BY <1>1, FS_CardinalityType
<1>3. Below(S, x) # Below(S, z) /\ Below(S, z) # S
  BY DEF Below, Bounded
<1>4. Cardinality(Below(S, x)) <= Cardinality(Below(S, z))
      /\ Cardinality(Below(S, z)) # Cardinality(Below(S, x))
  BY <1>1, <1>3, FS_Subset
<1>5. Cardinality(Below(S, z)) <= Cardinality(S) /\ Cardinality(S) # Cardinality(Below(S, z))
  BY <1>1, <1>3, FS_Subset
<1> QED
  BY <1>2, <1>4, <1>5

(* An element has fewer elements below it than there are.                   *)
LEMMA RankBound ==
  ASSUME NEW S, Bounded(S), NEW x \in S
  PROVE  Cardinality(Below(S, x)) \in 0 .. Cardinality(S) - 1
<1>1. IsFiniteSet(Below(S, x)) /\ IsFiniteSet(S) /\ Below(S, x) \in SUBSET S
  BY FS_Subset DEF Bounded, Below
<1>2. Cardinality(Below(S, x)) \in Nat /\ Cardinality(S) \in Nat
  BY <1>1, FS_CardinalityType
<1>3. Below(S, x) # S
  BY DEF Below, Bounded
<1>4. Cardinality(Below(S, x)) <= Cardinality(S) /\ Cardinality(S) # Cardinality(Below(S, x))
  BY <1>1, <1>3, FS_Subset
<1> QED
  BY <1>2, <1>4

(* Every rank below the number of elements is the rank of one.              *)
LEMMA RankExists ==
  ASSUME NEW S, Bounded(S), NEW k \in Nat, k < Cardinality(S)
  PROVE  \E x \in S : Cardinality(Below(S, x)) = k
<1> DEFINE Missing == {n \in Nat : n < Cardinality(S) /\ \A x \in S : Cardinality(Below(S, x)) # n}
<1>0. Cardinality(S) \in Nat
  BY FS_CardinalityType DEF Bounded
<1> SUFFICES ASSUME Missing # {} PROVE FALSE
  OBVIOUS
<1>1. PICK n \in Missing : \A j \in Missing : n <= j
  <2>1. Missing \in SUBSET Nat
    OBVIOUS
  <2> QED
    BY <2>1, LeastNumber
<1>2. CASE n = 0
  <2>1. S # {}
    BY <1>0, <1>1, <1>2, FS_EmptySet DEF Bounded
  <2>2. PICK x \in S : \A y \in S : x <= y
    BY <2>1, LeastNumber DEF Bounded
  <2>3. Below(S, x) = {}
    <3>1. \A y \in S : y \in Nat
      BY DEF Bounded
    <3>2. \A y \in S : ~(y < x)
      BY <2>2, <3>1
    <3> QED
      BY <3>2 DEF Below
  <2>4. Cardinality(Below(S, x)) = 0
    BY <2>3, FS_EmptySet
  <2> QED
    BY <1>1, <1>2, <2>2, <2>4
<1>3. CASE n # 0
  <2>1. n - 1 \in Nat /\ n - 1 < Cardinality(S) /\ n - 1 \notin Missing
    BY <1>0, <1>1, <1>3
  <2>2. PICK x \in S : Cardinality(Below(S, x)) = n - 1
    BY <2>1
  <2> DEFINE Above == {y \in S : y > x}
             upTo == Below(S, x) \cup {x}
  <2>3. IsFiniteSet(Below(S, x))
    BY FS_Subset DEF Bounded, Below
  <2>4. Cardinality(upTo) = n
    <3>1. x \notin Below(S, x)
      BY DEF Below, Bounded
    <3>2. Cardinality(upTo) = Cardinality(Below(S, x)) + 1
      BY <2>3, <3>1, FS_AddElement
    <3> QED
      BY <1>1, <2>2, <3>2
  <2>5. Above # {}
    <3> SUFFICES ASSUME Above = {} PROVE FALSE
      OBVIOUS
    <3>1. S = upTo
      <4>1. \A y \in S : y \in Nat
        BY DEF Bounded
      <4>2. \A y \in S : y < x \/ y = x
        BY <4>1
      <4> QED
        BY <4>2 DEF Below
    <3> QED
      BY <1>0, <1>1, <2>4, <3>1
  <2>6. Above \in SUBSET Nat
    BY DEF Bounded
  <2>7. PICK z \in Above : \A y \in Above : z <= y
    BY <2>5, <2>6, LeastNumber
  <2>8. Below(S, z) = upTo
    <3>1. \A y \in S : y \in Nat
      BY DEF Bounded
    <3>2. \A y \in S : y < z <=> y < x \/ y = x
      BY <2>7, <3>1
    <3> QED
      BY <3>2 DEF Below
  <2> QED
    BY <1>1, <2>4, <2>7, <2>8
<1> QED
  BY <1>2, <1>3

(* palloc gives different frames of S to different pages.                   *)
LEMMA AssignFacts ==
  ASSUME NEW P, NEW S, Bounded(P), Bounded(S), Cardinality(P) <= Cardinality(S)
  PROVE  /\ Assign(P, S) \in [P -> S]
         /\ \A p, r \in P : Assign(P, S)[p] = Assign(P, S)[r] => p = r
<1>0. Cardinality(P) \in Nat /\ Cardinality(S) \in Nat
  BY FS_CardinalityType DEF Bounded
<1> DEFINE rank(p) == Cardinality({r \in P : r < p})
<1>1. \A p \in P : rank(p) = Cardinality(Below(P, p))
  BY DEF Below
<1>2. \A p \in P : rank(p) \in Nat /\ rank(p) < Cardinality(S)
  BY <1>0, <1>1, RankBound
<1>3. ASSUME NEW k \in Nat, k < Cardinality(S)
      PROVE  Nth(S, k) \in S /\ Cardinality(Below(S, Nth(S, k))) = k
  BY <1>3, RankExists DEF Nth, Below
<1>4. \A p \in P : Assign(P, S)[p] = Nth(S, rank(p))
  BY DEF Assign
<1>5. Assign(P, S) \in [P -> S]
  BY <1>2, <1>3 DEF Assign
<1>6. ASSUME NEW p \in P, NEW r \in P, Assign(P, S)[p] = Assign(P, S)[r]
      PROVE  p = r
  <2>1. rank(p) = rank(r)
    <3> HIDE DEF rank
    <3> QED
      BY <1>2, <1>3, <1>4, <1>6
  <2>2. Cardinality(Below(P, p)) = Cardinality(Below(P, r))
    BY <1>1, <2>1
  <2>3. p \in Nat /\ r \in Nat
    BY DEF Bounded
  <2>4. ~(p < r) /\ ~(r < p)
    BY <2>2, RankGrows, RankBound
  <2> QED
    BY <2>3, <2>4
<1> QED
  BY <1>5, <1>6

-----------------------------------------------------------------------------
(* Page tables as functions                                                 *)

Inj(f) == \A x, y \in DOMAIN f : f[x] = f[y] => x = y

(* Entries are added to a page table.                                       *)
LEMMA MergeFacts ==
  ASSUME NEW f, NEW g, DOMAIN f \intersect DOMAIN g = {}
  PROVE  /\ DOMAIN Merge(f, g) = DOMAIN f \union DOMAIN g
         /\ Image(Merge(f, g)) = Image(f) \union Image(g)
         /\ Inj(f) /\ Inj(g) /\ Image(f) \intersect Image(g) = {} => Inj(Merge(f, g))
<1>1. DOMAIN Merge(f, g) = DOMAIN f \union DOMAIN g
  BY DEF Merge
<1>2. \A x \in DOMAIN g : Merge(f, g)[x] = g[x]
  BY DEF Merge
<1>3. \A x \in DOMAIN f : Merge(f, g)[x] = f[x]
  BY DEF Merge
<1>4. Image(Merge(f, g)) = Image(f) \union Image(g)
  BY <1>1, <1>2, <1>3 DEF Image
<1>5. ASSUME Inj(f), Inj(g), Image(f) \intersect Image(g) = {},
             NEW x \in DOMAIN Merge(f, g), NEW y \in DOMAIN Merge(f, g),
             Merge(f, g)[x] = Merge(f, g)[y]
      PROVE  x = y
  <2>1. \A u \in DOMAIN f, v \in DOMAIN g : f[u] # g[v]
    BY <1>5 DEF Image
  <2> QED
    BY <1>1, <1>2, <1>3, <1>5, <2>1 DEF Inj
<1> QED
  BY <1>1, <1>4, <1>5 DEF Inj

(* Entries are removed from a page table.                                   *)
LEMMA WithoutFacts ==
  ASSUME NEW f, NEW S
  PROVE  /\ DOMAIN Without(f, S) = DOMAIN f \ S
         /\ \A x \in DOMAIN f \ S : Without(f, S)[x] = f[x]
         /\ Image(Without(f, S)) \subseteq Image(f)
         /\ Inj(f) => Inj(Without(f, S))
         /\ Inj(f) /\ S \subseteq DOMAIN f =>
               Image(Without(f, S)) = Image(f) \ {f[x] : x \in S}
<1>1. DOMAIN Without(f, S) = DOMAIN f \ S /\ \A x \in DOMAIN f \ S : Without(f, S)[x] = f[x]
  BY DEF Without
<1>2. Image(Without(f, S)) \subseteq Image(f) /\ (Inj(f) => Inj(Without(f, S)))
  BY <1>1 DEF Image, Inj
<1>3. Inj(f) /\ S \subseteq DOMAIN f => Image(Without(f, S)) = Image(f) \ {f[x] : x \in S}
  BY <1>1 DEF Image, Inj
<1> QED
  BY <1>1, <1>2, <1>3

(* A page table without entries.                                            *)
LEMMA EmptyTable == DOMAIN <<>> = {} /\ Image(<<>>) = {} /\ Inj(<<>>)
<1>1. DOMAIN <<>> = {}
  OBVIOUS
<1> QED
  BY <1>1 DEF Image, Inj

-----------------------------------------------------------------------------
(* The pools and the page tables                                            *)

(* The types of mem.                                                        *)
IsMem(m) ==
    /\ m = [used |-> m.used, frames |-> m.frames, pte |-> m.pte, pde |-> m.pde]
    /\ m.used = [s \in Spaces |-> m.used[s]] /\ m.pte = [s \in Spaces |-> m.pte[s]]
    /\ m.pde = [p \in Procs |-> m.pde[p]]
    /\ \A s \in Spaces : /\ m.used[s] \subseteq 0 .. Limit(s) - 1
                         /\ DOMAIN m.pte[s] \subseteq 0 .. Limit(s) - 1
                         /\ Image(m.pte[s]) \subseteq Pool(s)
    /\ \A p \in Procs : DOMAIN m.pde[p] \subseteq 0 .. UPages /\ Image(m.pde[p]) \subseteq KFrames

(* Each frame in use is in one entry of one table.                          *)
FramesOwned(m) ==
    /\ \A s \in Spaces : Inj(m.pte[s])
    /\ \A p \in Procs : Inj(m.pde[p])
    /\ \A s, t \in Spaces : s # t => Image(m.pte[s]) \intersect Image(m.pte[t]) = {}
    /\ \A p, r \in Procs : p # r => Image(m.pde[p]) \intersect Image(m.pde[r]) = {}
    /\ \A s \in Spaces, p \in Procs : Image(m.pte[s]) \intersect Image(m.pde[p]) = {}
    /\ \A f : f \in m.frames <=> \/ \E s \in Spaces : f \in Image(m.pte[s])
                                 \/ \E p \in Procs : f \in Image(m.pde[p])

(* Both, and the virtual address bitmaps agree with the tables.             *)
MemOK(m) == IsMem(m) /\ FramesOwned(m) /\ \A s \in Spaces : m.used[s] = DOMAIN m.pte[s]

(* Sizes and pools.                                                         *)
LEMMA Sizes ==
  /\ \A n \in {KPages, UFrames, UPages, PagesPerTable, PgSize, BmpBytes, BlocksPerArena} : n \in Nat \ {0}
  /\ \A s \in Spaces : Limit(s) \in Nat \ {0}
  /\ KFrames \intersect UserFrames = {} /\ Kernel \in Spaces /\ Pool(Kernel) = KFrames
  /\ \A p \in Procs : p \in Spaces /\ p # Kernel /\ Limit(p) = UPages /\ Pool(p) = UserFrames
BY SizesAssumption, SpacesAssumption DEF Limit, Pool, KFrames, UserFrames, Spaces

(* Sets of pages, frames and page tables are finite.                        *)
LEMMA FinitePages ==
  /\ \A S \in SUBSET KFrames : Bounded(S)
  /\ \A S \in SUBSET UserFrames : Bounded(S)
  /\ \A s \in Spaces : \A S \in SUBSET (0 .. Limit(s) - 1) : Bounded(S)
  /\ \A S \in SUBSET (0 .. UPages) : Bounded(S)
<1>1. ASSUME NEW a \in Nat, NEW b \in Int, NEW S \in SUBSET (a .. b) PROVE Bounded(S)
  <2>1. IsFiniteSet(a .. b)
    BY FS_Interval
  <2>2. IsFiniteSet(S)
    BY <2>1, FS_Subset
  <2>3. S \in SUBSET Nat
    OBVIOUS
  <2> QED
    BY <2>2, <2>3 DEF Bounded
<1>2. \A a \in Nat, b \in Int : \A S \in SUBSET (a .. b) : Bounded(S)
  BY <1>1
<1>3. KPages - 1 \in Int /\ KPages + UFrames - 1 \in Int /\ UPages \in Int
      /\ KPages \in Nat /\ 0 \in Nat /\ \A s \in Spaces : Limit(s) - 1 \in Int
  BY Sizes
<1>4. \A S \in SUBSET (0 .. KPages - 1) : Bounded(S)
  BY <1>2, <1>3, Zenon
<1>5. \A S \in SUBSET (KPages .. KPages + UFrames - 1) : Bounded(S)
  BY <1>2, <1>3, Zenon
<1>6. \A s \in Spaces : \A S \in SUBSET (0 .. Limit(s) - 1) : Bounded(S)
  BY <1>2, <1>3, Zenon
<1>7. \A S \in SUBSET (0 .. UPages) : Bounded(S)
  BY <1>2, <1>3, Zenon
<1> QED
  BY <1>4, <1>5, <1>6, <1>7 DEF KFrames, UserFrames

(* The tables page_table_add makes.                                         *)
LEMMA NewTablesFacts ==
  ASSUME NEW m, IsMem(m), NEW s \in Spaces, NEW pages \in SUBSET (0 .. Limit(s) - 1)
  PROVE  /\ NewTables(m, s, pages) \in SUBSET (0 .. UPages)
         /\ s = Kernel => NewTables(m, s, pages) = {}
         /\ s # Kernel => NewTables(m, s, pages) \intersect DOMAIN m.pde[s] = {}
<1>1. CASE s = Kernel
  BY <1>1 DEF NewTables
<1>2. CASE s # Kernel
  <2>1. Limit(s) = UPages /\ UPages \in Nat
    BY <1>2, Sizes DEF Limit
  <2>2. ASSUME NEW p \in pages PROVE Pde(p) \in 0 .. UPages
    <3>1. p \in Nat /\ p <= UPages
      BY <2>1
    <3>2. Pde(p) \in 0 .. p
      BY <3>1, Quotient
    <3> QED
      BY <2>1, <3>1, <3>2
  <2> QED
    BY <1>2, <2>2 DEF NewTables
<1> QED
  BY <1>1, <1>2

(* What Install does, with the frames fr of the pages and pt of the tables. *)
Installed(m, i, s, fr, pt) ==
    /\ i = [used |-> m.used, frames |-> m.frames \union Image(fr) \union Image(pt),
            pte |-> [m.pte EXCEPT ![s] = Merge(m.pte[s], fr)],
            pde |-> [p \in Procs |-> IF p = s THEN Merge(m.pde[p], pt) ELSE m.pde[p]]]
    /\ Inj(fr) /\ Image(fr) \subseteq Pool(s) \ m.frames
    /\ Inj(pt) /\ Image(pt) \subseteq KFrames \ m.frames /\ DOMAIN pt \subseteq 0 .. UPages
    /\ IF s = Kernel THEN Image(pt) = {} ELSE DOMAIN pt \intersect DOMAIN m.pde[s] = {}

(* palloc finds a frame for every page and every page table that is missing. *)
LEMMA InstallIs ==
  ASSUME NEW m, IsMem(m), NEW s \in Spaces, NEW pages \in SUBSET (0 .. Limit(s) - 1),
         FramesLeft(m, s, pages)
  PROVE  \E fr, pt : DOMAIN fr = pages /\ Installed(m, Install(m, s, pages), s, fr, pt)
<1> DEFINE tables == NewTables(m, s, pages)
           fr == Assign(pages, Pool(s) \ m.frames)
           pt == Assign(tables, KFrames \ m.frames)
<1>1. /\ tables \in SUBSET (0 .. UPages)
      /\ s = Kernel => tables = {}
      /\ s # Kernel => tables \intersect DOMAIN m.pde[s] = {}
  BY NewTablesFacts
<1>2. Bounded(pages) /\ Bounded(tables) /\ Bounded(Pool(s) \ m.frames) /\ Bounded(KFrames \ m.frames)
  <2>1. Bounded(pages) /\ Bounded(tables) /\ Bounded(KFrames \ m.frames)
    BY <1>1, FinitePages
  <2>2. Pool(s) \ m.frames \in SUBSET KFrames \/ Pool(s) \ m.frames \in SUBSET UserFrames
    BY DEF Pool
  <2> QED
    BY <2>1, <2>2, FinitePages
<1>3. /\ fr \in [pages -> Pool(s) \ m.frames] /\ \A p, r \in pages : fr[p] = fr[r] => p = r
      /\ pt \in [tables -> KFrames \ m.frames] /\ \A p, r \in tables : pt[p] = pt[r] => p = r
  <2>1. Cardinality(pages) <= Cardinality(Pool(s) \ m.frames)
        /\ Cardinality(tables) <= Cardinality(KFrames \ m.frames)
    BY DEF FramesLeft
  <2> QED
    BY <1>2, <2>1, AssignFacts
<1>4. Install(m, s, pages) =
        [m EXCEPT !.pte[s] = Merge(@, fr),
                  !.pde = [p \in Procs |-> IF p = s THEN Merge(@[p], pt) ELSE @[p]],
                  !.frames = @ \union Image(fr) \union Image(pt)]
  BY DEF Install
<1> HIDE DEF fr, pt, tables
<1>5. DOMAIN fr = pages /\ Inj(fr) /\ Image(fr) \subseteq Pool(s) \ m.frames
  BY <1>3 DEF Inj, Image
<1>6. DOMAIN pt = tables /\ Inj(pt) /\ Image(pt) \subseteq KFrames \ m.frames
  BY <1>3 DEF Inj, Image
<1>7. Install(m, s, pages) =
        [used |-> m.used, frames |-> m.frames \union Image(fr) \union Image(pt),
         pte |-> [m.pte EXCEPT ![s] = Merge(m.pte[s], fr)],
         pde |-> [p \in Procs |-> IF p = s THEN Merge(m.pde[p], pt) ELSE m.pde[p]]]
  <2>1. PICK u, g, t, d : m = [used |-> u, frames |-> g, pte |-> t, pde |-> d]
    BY DEF IsMem
  <2>2. m.used = u /\ m.frames = g /\ m.pte = t /\ m.pde = d
    BY <2>1
  <2> QED
    BY <1>4, <2>1, <2>2
<1>8. s = Kernel => Image(pt) = {}
  BY <1>1, <1>6 DEF Image
<1>9. Installed(m, Install(m, s, pages), s, fr, pt)
  BY <1>1, <1>5, <1>6, <1>7, <1>8 DEF Installed
<1> QED
  BY <1>5, <1>9

(* palloc and page_table_add for pages that are not mapped: no frame gets a *)
(* second user.                                                             *)
LEMMA InstallKeeps ==
  ASSUME NEW m, IsMem(m), FramesOwned(m), NEW s \in Spaces,
         NEW pages \in SUBSET (0 .. Limit(s) - 1), pages \intersect DOMAIN m.pte[s] = {},
         FramesLeft(m, s, pages), NEW i, i = Install(m, s, pages)
  PROVE  /\ IsMem(i) /\ FramesOwned(i) /\ i.used = m.used
         /\ \A t \in Spaces :
              DOMAIN i.pte[t] = IF t = s THEN DOMAIN m.pte[s] \union pages ELSE DOMAIN m.pte[t]
<1>1. PICK fr, pt : DOMAIN fr = pages /\ Installed(m, i, s, fr, pt)
  BY InstallIs
<1> DEFINE X == Merge(m.pte[s], fr)
           Y == Merge(m.pde[s], pt)
<1>2. /\ \A t \in Spaces : Image(m.pte[t]) \subseteq m.frames
      /\ \A p \in Procs : Image(m.pde[p]) \subseteq m.frames
  BY DEF FramesOwned
<1>3. DOMAIN X = DOMAIN m.pte[s] \union pages /\ Image(X) = Image(m.pte[s]) \union Image(fr) /\ Inj(X)
  <2>1. DOMAIN m.pte[s] \intersect DOMAIN fr = {}
    BY <1>1
  <2>2. Inj(m.pte[s]) /\ Inj(fr) /\ Image(m.pte[s]) \intersect Image(fr) = {}
    BY <1>1, <1>2 DEF FramesOwned, Installed
  <2> QED
    BY <1>1, <2>1, <2>2, MergeFacts
<1>4. s # Kernel => DOMAIN Y = DOMAIN m.pde[s] \union DOMAIN pt
                      /\ Image(Y) = Image(m.pde[s]) \union Image(pt) /\ Inj(Y)
  <2> SUFFICES ASSUME s # Kernel PROVE DOMAIN Y = DOMAIN m.pde[s] \union DOMAIN pt
                      /\ Image(Y) = Image(m.pde[s]) \union Image(pt) /\ Inj(Y)
    OBVIOUS
  <2>0. s \in Procs
    BY DEF Spaces
  <2>1. DOMAIN m.pde[s] \intersect DOMAIN pt = {}
    BY <1>1 DEF Installed
  <2>2. Inj(m.pde[s]) /\ Inj(pt) /\ Image(m.pde[s]) \intersect Image(pt) = {}
    BY <1>1, <1>2, <2>0 DEF FramesOwned, Installed
  <2> QED
    BY <2>1, <2>2, MergeFacts
<1>5. /\ i.used = m.used /\ i.frames = m.frames \union Image(fr) \union Image(pt)
      /\ i.pte = [m.pte EXCEPT ![s] = X]
      /\ i.pde = [p \in Procs |-> IF p = s THEN Merge(m.pde[p], pt) ELSE m.pde[p]]
      /\ i = [used |-> i.used, frames |-> i.frames, pte |-> i.pte, pde |-> i.pde]
  BY <1>1 DEF Installed
<1>6. \A t \in Spaces : i.pte[t] = IF t = s THEN X ELSE m.pte[t]
  BY <1>5 DEF IsMem
<1>7. \A p \in Procs : i.pde[p] = IF p = s THEN Y ELSE m.pde[p]
  BY <1>5
<1> HIDE DEF X, Y
<1>8. IsMem(i)
  <2>1. i.used = [t \in Spaces |-> i.used[t]] /\ i.pte = [t \in Spaces |-> i.pte[t]]
        /\ i.pde = [p \in Procs |-> i.pde[p]]
    BY <1>5, Sizes DEF IsMem
  <2>2. ASSUME NEW t \in Spaces
        PROVE  /\ i.used[t] \subseteq 0 .. Limit(t) - 1 /\ DOMAIN i.pte[t] \subseteq 0 .. Limit(t) - 1
               /\ Image(i.pte[t]) \subseteq Pool(t)
    BY <1>1, <1>3, <1>5, <1>6 DEF IsMem, Installed
  <2>3. ASSUME NEW p \in Procs
        PROVE  DOMAIN i.pde[p] \subseteq 0 .. UPages /\ Image(i.pde[p]) \subseteq KFrames
    BY <1>1, <1>4, <1>7, Sizes DEF IsMem, Installed
  <2> QED
    BY <1>5, <2>1, <2>2, <2>3 DEF IsMem
<1>9. FramesOwned(i)
  <2>0. /\ Image(fr) \intersect m.frames = {} /\ Image(pt) \intersect m.frames = {}
        /\ Image(fr) \intersect Image(pt) = {}
    <3>1. CASE s = Kernel
      BY <1>1, <3>1 DEF Installed
    <3>2. CASE s # Kernel
      <4>1. Pool(s) \intersect KFrames = {}
        BY <3>2, Sizes DEF Pool
      <4> QED
        BY <1>1, <4>1 DEF Installed
    <3> QED
      BY <3>1, <3>2
  <2>1. /\ \A t \in Spaces : Inj(i.pte[t]) /\ Image(m.pte[t]) \subseteq m.frames
        /\ \A p \in Procs : Inj(i.pde[p]) /\ Image(m.pde[p]) \subseteq m.frames
    BY <1>2, <1>3, <1>4, <1>6, <1>7, Sizes DEF FramesOwned
  <2>2. \A t \in Spaces : Image(i.pte[t]) = IF t = s THEN Image(m.pte[t]) \union Image(fr) ELSE Image(m.pte[t])
    BY <1>3, <1>6
  <2>3. \A p \in Procs : Image(i.pde[p]) = IF p = s THEN Image(m.pde[p]) \union Image(pt) ELSE Image(m.pde[p])
    BY <1>4, <1>7, Sizes
  <2>4. \A t, u \in Spaces : t # u => Image(i.pte[t]) \intersect Image(i.pte[u]) = {}
    BY <2>0, <2>1, <2>2 DEF FramesOwned
  <2>5. \A p, r \in Procs : p # r => Image(i.pde[p]) \intersect Image(i.pde[r]) = {}
    BY <2>0, <2>1, <2>3 DEF FramesOwned
  <2>6. \A t \in Spaces, p \in Procs : Image(i.pte[t]) \intersect Image(i.pde[p]) = {}
    BY <2>0, <2>1, <2>2, <2>3 DEF FramesOwned
  <2>7. ASSUME NEW f
        PROVE  f \in i.frames <=> \/ \E t \in Spaces : f \in Image(i.pte[t])
                                  \/ \E p \in Procs : f \in Image(i.pde[p])
    <3>1. f \in m.frames <=> \/ \E t \in Spaces : f \in Image(m.pte[t])
                             \/ \E p \in Procs : f \in Image(m.pde[p])
      BY DEF FramesOwned
    <3>2. s \notin Procs => Image(pt) = {}
      BY <1>1 DEF Installed, Spaces
    <3>3. f \in i.frames <=> f \in m.frames \/ f \in Image(fr) \/ f \in Image(pt)
      BY <1>5
    <3> QED
      BY <2>2, <2>3, <3>1, <3>2, <3>3
  <2> QED
    BY <2>1, <2>4, <2>5, <2>6, <2>7 DEF FramesOwned
<1> QED
  BY <1>3, <1>5, <1>6, <1>8, <1>9

(* The bitmap of s changes, and pages are marked in it and mapped.          *)
Marked(m, s, U) == [m EXCEPT !.used[s] = U]
Given(m, s, pages) == Install(Marked(m, s, m.used[s] \union pages), s, pages)
SameTables(m, i) == i.pte = m.pte /\ i.pde = m.pde /\ i.frames = m.frames
Changed(m, i, s, U) == \A t \in Spaces : i.used[t] = IF t = s THEN U ELSE m.used[t]

(* Changing a virtual address bitmap changes nothing else.                  *)
LEMMA UsedOnly ==
  ASSUME NEW m, IsMem(m), FramesOwned(m), NEW s \in Spaces, NEW U \in SUBSET (0 .. Limit(s) - 1),
         NEW i, i = Marked(m, s, U)
  PROVE  /\ IsMem(i) /\ FramesOwned(i) /\ SameTables(m, i) /\ Changed(m, i, s, U)
         /\ \A t \in Spaces : \A pages : FramesLeft(i, t, pages) <=> FramesLeft(m, t, pages)
<1>1. PICK u, g, t, d : m = [used |-> u, frames |-> g, pte |-> t, pde |-> d]
  BY DEF IsMem
<1>2. m.used = u /\ m.frames = g /\ m.pte = t /\ m.pde = d
  BY <1>1
<1>3. i = [used |-> [m.used EXCEPT ![s] = U], frames |-> g, pte |-> t, pde |-> d]
  BY <1>1, <1>2 DEF Marked
<1>4. i.used = [m.used EXCEPT ![s] = U] /\ i.pte = m.pte /\ i.pde = m.pde /\ i.frames = m.frames
  BY <1>2, <1>3
<1>5. \A r \in Spaces : i.used[r] = IF r = s THEN U ELSE m.used[r]
  BY <1>4 DEF IsMem
<1>6. IsMem(i)
  <2>1. i = [used |-> i.used, frames |-> i.frames, pte |-> i.pte, pde |-> i.pde]
    BY <1>2, <1>3, <1>4
  <2>2. i.used = [r \in Spaces |-> i.used[r]]
    BY <1>4 DEF IsMem
  <2> QED
    BY <1>4, <1>5, <2>1, <2>2 DEF IsMem
<1>7. FramesOwned(i)
  BY <1>4 DEF FramesOwned
<1>8. \A r \in Spaces : \A pages : FramesLeft(i, r, pages) <=> FramesLeft(m, r, pages)
  BY <1>4 DEF FramesLeft, NewTables
<1> QED
  BY <1>4, <1>5, <1>6, <1>7, <1>8 DEF SameTables, Changed

(* vaddr_get: the pages are free and inside the space.                      *)
LEMMA ScanFacts ==
  ASSUME NEW m, IsMem(m), NEW s \in Spaces, NEW n \in Nat \ {0},
         FreeRuns(m.used[s], n, Limit(s)) # {}
  PROVE  /\ Vaddr(m, s, n) \in Nat /\ Run(Vaddr(m, s, n), n) \subseteq 0 .. Limit(s) - 1
         /\ Run(Vaddr(m, s, n), n) \intersect m.used[s] = {}
<1>1. FreeRuns(m.used[s], n, Limit(s)) \in SUBSET Nat /\ Limit(s) \in Nat
  BY Sizes DEF FreeRuns
<1>2. Vaddr(m, s, n) \in FreeRuns(m.used[s], n, Limit(s))
  BY <1>1, MinIs DEF Vaddr, bitmap_scan
<1> QED
  BY <1>1, <1>2 DEF FreeRuns, Run

(* malloc_page and get_a_page: pages that are free are marked and mapped.   *)
LEMMA GetPagesKeeps ==
  ASSUME NEW m, MemOK(m), NEW s \in Spaces, NEW pages \in SUBSET (0 .. Limit(s) - 1),
         pages \intersect m.used[s] = {}, FramesLeft(m, s, pages),
         NEW i, i = Given(m, s, pages)
  PROVE  MemOK(i) /\ Changed(m, i, s, m.used[s] \union pages)
<1> DEFINE U == m.used[s] \union pages
           j == Marked(m, s, U)
<1>1. IsMem(m) /\ FramesOwned(m) /\ \A t \in Spaces : m.used[t] = DOMAIN m.pte[t]
  BY DEF MemOK
<1>2. U \in SUBSET (0 .. Limit(s) - 1)
  BY <1>1 DEF IsMem
<1>3. i = Install(j, s, pages) /\ j = Marked(m, s, U)
  BY DEF Given
<1> HIDE DEF U, j
<1>4. /\ IsMem(j) /\ FramesOwned(j) /\ j.pte = m.pte /\ FramesLeft(j, s, pages)
      /\ \A t \in Spaces : j.used[t] = IF t = s THEN U ELSE m.used[t]
  <2>1. IsMem(j) /\ FramesOwned(j) /\ SameTables(m, j) /\ Changed(m, j, s, U)
        /\ FramesLeft(j, s, pages)
    BY <1>1, <1>2, <1>3, UsedOnly
  <2> QED
    BY <2>1 DEF SameTables, Changed
<1>5. /\ IsMem(i) /\ FramesOwned(i) /\ i.used = j.used
      /\ \A t \in Spaces : DOMAIN i.pte[t] = IF t = s THEN DOMAIN j.pte[s] \union pages ELSE DOMAIN j.pte[t]
  <2>1. pages \intersect DOMAIN j.pte[s] = {}
    BY <1>1, <1>4
  <2> QED
    BY <1>3, <1>4, <2>1, InstallKeeps
<1>6. \A t \in Spaces : i.used[t] = DOMAIN i.pte[t]
  BY <1>1, <1>4, <1>5 DEF U
<1> QED
  BY <1>4, <1>5, <1>6 DEF MemOK, U, Changed

(* malloc_page takes free pages of the space and maps them.                 *)
LEMMA MallocKeeps ==
  ASSUME NEW m, MemOK(m), NEW s \in Spaces, NEW n \in Nat \ {0}, CanMalloc(m, s, n)
  PROVE  /\ MemOK(malloc_page(m, s, n))
         /\ Vaddr(m, s, n) \in Nat /\ Run(Vaddr(m, s, n), n) \subseteq 0 .. Limit(s) - 1
         /\ Run(Vaddr(m, s, n), n) \intersect m.used[s] = {}
         /\ Changed(m, malloc_page(m, s, n), s, m.used[s] \union Run(Vaddr(m, s, n), n))
<1> DEFINE pages == Run(Vaddr(m, s, n), n)
<1>1. /\ Vaddr(m, s, n) \in Nat /\ pages \in SUBSET (0 .. Limit(s) - 1)
      /\ pages \intersect m.used[s] = {}
  BY ScanFacts DEF MemOK, CanMalloc
<1>2. FramesLeft(m, s, pages)
  BY DEF CanMalloc
<1>3. malloc_page(m, s, n) = Given(m, s, pages)
  BY DEF malloc_page, Given, Marked
<1> HIDE DEF pages
<1>4. /\ MemOK(Given(m, s, pages))
      /\ Changed(m, Given(m, s, pages), s, m.used[s] \union pages)
  BY <1>1, <1>2, GetPagesKeeps
<1> QED
  BY <1>1, <1>3, <1>4 DEF pages

(* mfree_page of pages that are mapped: their frames, and no others, become *)
(* free.                                                                    *)
LEMMA MfreeKeeps ==
  ASSUME NEW m, MemOK(m), NEW s \in Spaces, NEW v, NEW n, Run(v, n) \subseteq m.used[s],
         NEW i, i = mfree_page(m, s, v, n)
  PROVE  MemOK(i) /\ Changed(m, i, s, m.used[s] \ Run(v, n))
<1> DEFINE R == Run(v, n)
           gone == {m.pte[s][p] : p \in R}
           X == Without(m.pte[s], R)
<1>1. IsMem(m) /\ FramesOwned(m) /\ \A t \in Spaces : m.used[t] = DOMAIN m.pte[t]
  BY DEF MemOK
<1>2. DOMAIN X = m.used[s] \ R /\ Image(X) = Image(m.pte[s]) \ gone /\ Inj(X)
  <2>1. Inj(m.pte[s]) /\ R \subseteq DOMAIN m.pte[s] /\ DOMAIN m.pte[s] = m.used[s]
    BY <1>1 DEF FramesOwned
  <2> DEFINE g == m.pte[s]
  <2> HIDE DEF g, R
  <2>2. DOMAIN Without(g, R) = DOMAIN g \ R /\ Inj(Without(g, R))
        /\ Image(Without(g, R)) = Image(g) \ {g[x] : x \in R}
    BY <2>1, WithoutFacts DEF g
  <2> QED
    BY <2>1, <2>2 DEF g
<1>3. gone \subseteq Image(m.pte[s])
  BY <1>1 DEF Image
<1>4. i = [m EXCEPT !.frames  = @ \ gone, !.pte[s]  = Without(@, R), !.used[s] = @ \ R]
  BY DEF mfree_page
<1> HIDE DEF R, gone
<1>5. i = [used |-> [m.used EXCEPT ![s] = m.used[s] \ R], frames |-> m.frames \ gone,
           pte |-> [m.pte EXCEPT ![s] = X], pde |-> m.pde]
  <2>1. PICK u, g, t, d : m = [used |-> u, frames |-> g, pte |-> t, pde |-> d]
    BY <1>1 DEF IsMem
  <2>2. m.used = u /\ m.frames = g /\ m.pte = t /\ m.pde = d
    BY <2>1
  <2> QED
    BY <1>4, <2>1, <2>2
<1> HIDE DEF X
<1>6. /\ i.used = [m.used EXCEPT ![s] = m.used[s] \ R] /\ i.frames = m.frames \ gone
      /\ i.pte = [m.pte EXCEPT ![s] = X] /\ i.pde = m.pde
      /\ i = [used |-> i.used, frames |-> i.frames, pte |-> i.pte, pde |-> i.pde]
  BY <1>5
<1>7. \A t \in Spaces : /\ i.used[t] = IF t = s THEN m.used[s] \ R ELSE m.used[t]
                        /\ i.pte[t] = IF t = s THEN X ELSE m.pte[t]
                        /\ Image(i.pte[t]) = IF t = s THEN Image(m.pte[t]) \ gone ELSE Image(m.pte[t])
  BY <1>1, <1>2, <1>6 DEF IsMem
<1>8. IsMem(i)
  <2>1. i.used = [t \in Spaces |-> i.used[t]] /\ i.pte = [t \in Spaces |-> i.pte[t]]
        /\ i.pde = [p \in Procs |-> i.pde[p]]
    BY <1>1, <1>6 DEF IsMem
  <2>2. ASSUME NEW t \in Spaces
        PROVE  /\ i.used[t] \subseteq 0 .. Limit(t) - 1 /\ DOMAIN i.pte[t] \subseteq 0 .. Limit(t) - 1
               /\ Image(i.pte[t]) \subseteq Pool(t)
    BY <1>1, <1>2, <1>7 DEF IsMem
  <2>3. ASSUME NEW p \in Procs
        PROVE  DOMAIN i.pde[p] \subseteq 0 .. UPages /\ Image(i.pde[p]) \subseteq KFrames
    BY <1>1, <1>6 DEF IsMem
  <2> QED
    BY <1>6, <2>1, <2>2, <2>3 DEF IsMem
<1>9. FramesOwned(i)
  <2>1. \A t \in Spaces : Inj(i.pte[t])
    BY <1>1, <1>2, <1>7 DEF FramesOwned
  <2>2. \A t, u \in Spaces : t # u => Image(i.pte[t]) \intersect Image(i.pte[u]) = {}
    BY <1>1, <1>7 DEF FramesOwned
  <2>3. \A t \in Spaces, p \in Procs : Image(i.pte[t]) \intersect Image(i.pde[p]) = {}
    BY <1>1, <1>6, <1>7 DEF FramesOwned
  <2>4. ASSUME NEW f
        PROVE  f \in i.frames <=> \/ \E t \in Spaces : f \in Image(i.pte[t])
                                  \/ \E p \in Procs : f \in Image(i.pde[p])
    <3>1. f \in m.frames <=> \/ \E t \in Spaces : f \in Image(m.pte[t])
                             \/ \E p \in Procs : f \in Image(m.pde[p])
      BY <1>1 DEF FramesOwned
    <3>2. f \in i.frames <=> f \in m.frames /\ f \notin gone
      BY <1>6
    <3>3. f \in gone => /\ \A t \in Spaces : t # s => f \notin Image(m.pte[t])
                        /\ \A p \in Procs : f \notin Image(m.pde[p])
      BY <1>1, <1>3 DEF FramesOwned
    <3>4. \A t \in Spaces : f \in Image(i.pte[t]) <=> f \in Image(m.pte[t]) /\ f \notin gone
      BY <1>7, <3>3
    <3> QED
      BY <1>6, <3>1, <3>2, <3>3, <3>4
  <2>5. i.pde = m.pde
    BY <1>6
  <2>6. /\ \A p \in Procs : Inj(i.pde[p])
        /\ \A p, r \in Procs : p # r => Image(i.pde[p]) \intersect Image(i.pde[r]) = {}
    BY <1>1, <2>5 DEF FramesOwned
  <2> QED
    BY <2>1, <2>2, <2>3, <2>4, <2>6 DEF FramesOwned
<1> QED
  BY <1>1, <1>2, <1>7, <1>8, <1>9 DEF MemOK, Changed, R

(* FramesExact counts what FramesOwned says.                                *)
LEMMA OwnedExact == IsMem(mem) /\ FramesOwned(mem) => FramesExact
<1> SUFFICES ASSUME IsMem(mem), FramesOwned(mem) PROVE FramesExact
  OBVIOUS
<1> DEFINE live == {r \in Refs : Frame(r) # -1}
           F == [r \in live |-> Frame(r)]
<1>0. /\ KPages \in Nat /\ UPages \in Nat /\ UFrames \in Nat
      /\ \A s \in Spaces : Limit(s) \in {KPages, UPages}
  BY Sizes DEF Limit
<1>1. \A s \in Spaces : \A p \in DOMAIN mem.pte[s] :
         <<s, "pte", p>> \in Refs /\ Frame(<<s, "pte", p>>) = mem.pte[s][p]
  BY <1>0 DEF IsMem, Refs, Frame
<1>2. \A q \in Procs : \A d \in DOMAIN mem.pde[q] :
         <<q, "pde", d>> \in Refs /\ Frame(<<q, "pde", d>>) = mem.pde[q][d]
  BY <1>0 DEF IsMem, Refs, Frame
<1>3. /\ \A s \in Spaces : Image(mem.pte[s]) \subseteq mem.frames
      /\ \A q \in Procs : Image(mem.pde[q]) \subseteq mem.frames
      /\ mem.frames \subseteq KFrames \union UserFrames
  <2>1. \A s \in Spaces : Pool(s) \subseteq KFrames \union UserFrames
    BY DEF Pool
  <2> QED
    BY <2>1 DEF FramesOwned, IsMem
<1>4. -1 \notin KFrames \union UserFrames
  BY <1>0 DEF KFrames, UserFrames
<1>5. \A r \in live : \/ \E s \in Spaces : \E p \in DOMAIN mem.pte[s] :
                            r = <<s, "pte", p>> /\ Frame(r) = mem.pte[s][p]
                      \/ \E q \in Procs : \E d \in DOMAIN mem.pde[q] :
                            r = <<q, "pde", d>> /\ Frame(r) = mem.pde[q][d]
  BY DEF Refs, Frame
<1>6. {Frame(r) : r \in live} = mem.frames
  <2>1. ASSUME NEW r \in live PROVE Frame(r) \in mem.frames
    BY <1>3, <1>5 DEF Image
  <2>2. ASSUME NEW f \in mem.frames PROVE \E r \in live : f = Frame(r)
    <3>1. (\E s \in Spaces : f \in Image(mem.pte[s])) \/ (\E q \in Procs : f \in Image(mem.pde[q]))
      BY DEF FramesOwned
    <3>2. f # -1
      BY <1>3, <1>4
    <3>3. CASE \E s \in Spaces : f \in Image(mem.pte[s])
      BY <1>1, <3>2, <3>3 DEF Image
    <3>4. CASE \E q \in Procs : f \in Image(mem.pde[q])
      BY <1>2, <3>2, <3>4 DEF Image
    <3> QED
      BY <3>1, <3>3, <3>4
  <2> QED
    BY <2>1, <2>2
<1>7. ASSUME NEW r \in live, NEW u \in live, Frame(r) = Frame(u) PROVE r = u
  <2>1. \A s, t \in Spaces : \A x \in DOMAIN mem.pte[s], y \in DOMAIN mem.pte[t] :
           mem.pte[s][x] = mem.pte[t][y] => s = t /\ x = y
    <3> SUFFICES ASSUME NEW s \in Spaces, NEW t \in Spaces,
                        NEW x \in DOMAIN mem.pte[s], NEW y \in DOMAIN mem.pte[t],
                        mem.pte[s][x] = mem.pte[t][y]
                 PROVE  s = t /\ x = y
      OBVIOUS
    <3>1. mem.pte[s][x] \in Image(mem.pte[s]) /\ mem.pte[s][x] \in Image(mem.pte[t])
      BY DEF Image
    <3>2. s = t
      BY <3>1 DEF FramesOwned
    <3> QED
      BY <3>2 DEF FramesOwned, Inj
  <2>2. \A s, t \in Procs : \A x \in DOMAIN mem.pde[s], y \in DOMAIN mem.pde[t] :
           mem.pde[s][x] = mem.pde[t][y] => s = t /\ x = y
    <3> SUFFICES ASSUME NEW s \in Procs, NEW t \in Procs,
                        NEW x \in DOMAIN mem.pde[s], NEW y \in DOMAIN mem.pde[t],
                        mem.pde[s][x] = mem.pde[t][y]
                 PROVE  s = t /\ x = y
      OBVIOUS
    <3>1. mem.pde[s][x] \in Image(mem.pde[s]) /\ mem.pde[s][x] \in Image(mem.pde[t])
      BY DEF Image
    <3>2. s = t
      BY <3>1 DEF FramesOwned
    <3> QED
      BY <3>2 DEF FramesOwned, Inj
  <2>3. \A s \in Spaces, t \in Procs : \A x \in DOMAIN mem.pte[s], y \in DOMAIN mem.pde[t] :
           mem.pte[s][x] # mem.pde[t][y]
    <3> SUFFICES ASSUME NEW s \in Spaces, NEW t \in Procs,
                        NEW x \in DOMAIN mem.pte[s], NEW y \in DOMAIN mem.pde[t]
                 PROVE  mem.pte[s][x] # mem.pde[t][y]
      OBVIOUS
    <3>1. mem.pte[s][x] \in Image(mem.pte[s]) /\ mem.pde[t][y] \in Image(mem.pde[t])
      BY DEF Image
    <3> QED
      BY <3>1 DEF FramesOwned
  <2> HIDE DEF live
  <2> QED
    BY <1>5, <1>7, <2>1, <2>2, <2>3
<1> HIDE DEF live
<1>8. F \in Injection(live, mem.frames) /\ F \in Surjection(live, mem.frames)
  <2>1. F \in [live -> mem.frames] /\ \A r \in live : F[r] = Frame(r)
    BY <1>6
  <2>2. \A r, u \in live : F[r] = F[u] => r = u
    BY <1>7, <2>1
  <2>3. \A f \in mem.frames : \E r \in live : F[r] = f
    BY <1>6, <2>1
  <2> QED
    BY <2>1, <2>2, <2>3 DEF Injection, Surjection, IsInjective
<1>9. IsFiniteSet(mem.frames)
  <2>1. IsFiniteSet(0 .. KPages + UFrames)
    BY <1>0, FS_Interval
  <2>2. mem.frames \in SUBSET (0 .. KPages + UFrames)
    BY <1>0, <1>3 DEF KFrames, UserFrames
  <2> QED
    BY <2>1, <2>2, FS_Subset
<1>10. Cardinality(live) = Cardinality(mem.frames)
  BY <1>8, <1>9, FS_Injection
<1> QED
  BY <1>6, <1>10 DEF FramesExact, live

-----------------------------------------------------------------------------
(* The heap of a space s: its arena headers h, free list f, blocks in use b *)
(* and the pages u of its bitmap.                                           *)

Extent(a, r) == Run(a, IF r.large THEN r.cnt ELSE 1)
PagesOf(h, a) == Extent(a, h[a])
Own(s, h) == {a \in DOMAIN h : h[a].desc = s}
FreeOf(f, a) == {i \in 1 .. BlocksPerArena : <<a, i>> \in ToSet(f)}

(* A header r on page a; the memory of a large arena is in use.             *)
HeaderOK(s, a, r, b) ==
    /\ a \in Nat /\ r.large \in BOOLEAN /\ r.desc \in {s, Null}
    /\ r = [desc |-> r.desc, cnt |-> r.cnt, large |-> r.large]
    /\ r.large => r.desc = Null /\ r.cnt \in 1 .. BlocksPerArena + UPages /\ <<a, 0>> \in b
    /\ ~r.large => r.cnt \in 0 .. BlocksPerArena

(* The arenas lie on pages of the space and do not overlap.                 *)
ArenasOK(s, h, b, u) ==
    /\ \A a \in DOMAIN h : HeaderOK(s, a, h[a], b) /\ PagesOf(h, a) \subseteq u
    /\ \A a, c \in DOMAIN h : a # c => PagesOf(h, a) \intersect PagesOf(h, c) = {}

(* Blocks in use are of large arenas or of the space's own small ones.      *)
HeldOK(s, h, b) ==
    \A x \in b : /\ x = <<x[1], x[2]>> /\ x[1] \in DOMAIN h
                 /\ IF h[x[1]].large THEN x[2] = 0
                                     ELSE x[1] \in Own(s, h) /\ x[2] \in 1 .. BlocksPerArena

(* The free list has blocks of own arenas, each once.                       *)
ListOK(s, h, f) ==
    /\ f \in Seq(Nat \X Nat)
    /\ \A i \in 1 .. Len(f) : f[i][1] \in Own(s, h) /\ f[i][2] \in 1 .. BlocksPerArena
    /\ \A i, j \in 1 .. Len(f) : f[i] = f[j] => i = j

(* A block is free or in use, and cnt counts the free ones.                 *)
CountsOK(s, h, f, b) ==
    \A a \in Own(s, h) :
      /\ h[a].cnt = Cardinality(FreeOf(f, a))
      /\ \A i \in 1 .. BlocksPerArena : <<a, i>> \in b <=> i \notin FreeOf(f, a)

HeapOK(s, h, f, b, u) ==
    ArenasOK(s, h, b, u) /\ HeldOK(s, h, b) /\ ListOK(s, h, f) /\ CountsOK(s, h, f, b)

(* Nothing is said of the list of a process in o, loaded over its own heap. *)
SpaceOK(s, h, f, b, u, o) ==
    ArenasOK(s, h, b, u) /\ HeldOK(s, h, b) /\ (s \notin o => HeapOK(s, h, f, b, u))

(* The pages of a PCB, and the pages of the kernel's heap.                  *)
PcbPages(t) ==
    IF t = Null THEN {}
    ELSE {t.pcb, t.pgdir} \union (IF t.state = "live" THEN Run(t.bits, BitmapPages) ELSE {})
HeapOf(h) == UNION {PagesOf(h, a) : a \in DOMAIN h}

(* The PCBs tk, the heap's pages k and the leaked pages l share the pages u *)
(* of the kernel.                                                           *)
OwnersOK(tk, k, l, u) ==
    /\ \A p \in Procs : tk[p] # Null =>
         /\ tk[p] \in TaskRecord /\ tk[p].pcb # tk[p].pgdir
         /\ tk[p].state = "live" => {tk[p].pcb, tk[p].pgdir} \intersect Run(tk[p].bits, BitmapPages) = {}
    /\ \A x : x \in u <=> (\E p \in Procs : x \in PcbPages(tk[p])) \/ x \in k \/ x \in l
    /\ \A p, r \in Procs : p # r => PcbPages(tk[p]) \intersect PcbPages(tk[r]) = {}
    /\ \A p \in Procs : PcbPages(tk[p]) \intersect (k \union l) = {}
    /\ k \intersect l = {}

(* The inductive invariant.                                                 *)
IsState ==
    /\ task = [p \in Procs |-> task[p]] /\ arena = [s \in Spaces |-> arena[s]]
    /\ free = [s \in Spaces |-> free[s]] /\ held = [s \in Spaces |-> held[s]]
    /\ over \subseteq Procs
HeapsOK == \A s \in Spaces : SpaceOK(s, arena[s], free[s], held[s], mem.used[s], over)
KernelOK == OwnersOK(task, HeapOf(arena[Kernel]), lost, mem.used[Kernel])
DeadEmpty == \A p \in Procs : ~Live(p) => mem.used[p] = {}
MemInv == MemOK(mem) /\ IsState /\ HeapsOK /\ KernelOK /\ DeadEmpty

(* An arena starts on its first page.                                       *)
LEMMA ExtentStart ==
  ASSUME NEW s, NEW a, NEW r, NEW b, HeaderOK(s, a, r, b)
  PROVE  a \in Extent(a, r)
<1>1. a \in Nat /\ (r.large => r.cnt \in 1 .. BlocksPerArena + UPages)
  BY DEF HeaderOK
<1>2. r.large => r.cnt \in Nat /\ r.cnt >= 1
  BY <1>1, Sizes
<1> QED
  BY <1>1, <1>2 DEF Extent, Run

(* The first page of an arena is in the bitmap of its space.                *)
LEMMA FirstPage ==
  ASSUME NEW s, NEW h, NEW b, NEW u, ArenasOK(s, h, b, u), NEW a \in DOMAIN h
  PROVE  a \in PagesOf(h, a) /\ a \in u
<1>1. HeaderOK(s, a, h[a], b) /\ PagesOf(h, a) \subseteq u
  BY DEF ArenasOK
<1> QED
  BY <1>1, ExtentStart DEF PagesOf

(* The list is as long as the set of its blocks.                            *)
LEMMA ListLength ==
  ASSUME NEW s, NEW h, NEW f, ListOK(s, h, f)
  PROVE  Cardinality(ToSet(f)) = Len(f)
<1>1. f \in Seq(Nat \X Nat) /\ Len(f) \in Nat /\ DOMAIN f = 1 .. Len(f)
  BY DEF ListOK
<1>2. f \in Bijection(1 .. Len(f), ToSet(f))
  <2>1. f \in [1 .. Len(f) -> ToSet(f)] /\ \A x \in ToSet(f) : \E i \in 1 .. Len(f) : f[i] = x
    BY <1>1 DEF ToSet
  <2>2. \A i, j \in 1 .. Len(f) : f[i] = f[j] => i = j
    BY DEF ListOK
  <2> QED
    BY <2>1, <2>2 DEF Bijection, Injection, Surjection, IsInjective
<1>3. ExistsBijection(1 .. Len(f), ToSet(f))
  BY <1>2 DEF ExistsBijection
<1> QED
  BY <1>1, <1>3, FS_CountingElements

(* The properties of Memory follow from the invariant.                      *)
LEMMA InvTypes == MemInv => TypeOK
<1> SUFFICES ASSUME MemInv PROVE TypeOK
  OBVIOUS
<1>1. IsMem(mem) /\ FramesOwned(mem)
  BY DEF MemInv, MemOK
<1>2. mem.used \in [Spaces -> SUBSET Nat]
  BY <1>1 DEF IsMem
<1>3. mem.frames \subseteq KFrames \union UserFrames
  BY <1>1 DEF IsMem, FramesOwned, Pool
<1>4. \A p \in Procs : task[p] # Null => task[p].state \in {"live", "hanging"}
  BY DEF MemInv, KernelOK, OwnersOK, TaskRecord
<1>5. \A s \in Spaces : \A a \in DOMAIN arena[s] : arena[s][a].cnt \in 0 .. BlocksPerArena + UPages
  <2> SUFFICES ASSUME NEW s \in Spaces, NEW a \in DOMAIN arena[s]
               PROVE  arena[s][a].cnt \in 0 .. BlocksPerArena + UPages
    OBVIOUS
  <2>1. /\ arena[s][a].large \in BOOLEAN
        /\ arena[s][a].large => arena[s][a].cnt \in 1 .. BlocksPerArena + UPages
        /\ ~arena[s][a].large => arena[s][a].cnt \in 0 .. BlocksPerArena
    BY DEF MemInv, HeapsOK, SpaceOK, ArenasOK, HeaderOK
  <2> QED
    BY <2>1, Sizes
<1> QED
  BY <1>1, <1>2, <1>3, <1>4, <1>5 DEF TypeOK, IsMem, MemInv, IsState

(* Who owns what, with the names of Memory.                                 *)
LEMMA InvOwned == MemInv => OwnedOrLost
<1> SUFFICES ASSUME MemInv PROVE OwnedOrLost
  OBVIOUS
<1>1. HeapPages = HeapOf(arena[Kernel]) /\ \A p \in Procs : TaskPages(p) = PcbPages(task[p])
  BY DEF HeapPages, HeapOf, PagesOf, Extent, TaskPages, PcbPages
<1>2. OwnersOK(task, HeapPages, lost, mem.used[Kernel])
  BY <1>1 DEF MemInv, KernelOK
<1>3. \A x : x \in mem.used[Kernel] <=>
              (\E p \in Procs : x \in TaskPages(p)) \/ x \in HeapPages \/ x \in lost
  BY <1>1, <1>2 DEF OwnersOK
<1>4. mem.used[Kernel] = (UNION {TaskPages(p) : p \in Procs}) \union HeapPages \union lost
  <2> DEFINE T == UNION {TaskPages(p) : p \in Procs}
  <2>1. \A x : x \in T <=> \E p \in Procs : x \in TaskPages(p)
    OBVIOUS
  <2> HIDE DEF T
  <2>2. \A x : x \in mem.used[Kernel] <=> x \in T \/ x \in HeapPages \/ x \in lost
    BY <1>3, <2>1
  <2>3. mem.used[Kernel] = T \union HeapPages \union lost
    BY <2>2
  <2> QED
    BY <2>3 DEF T
<1> QED
  BY <1>1, <1>2, <1>4 DEF OwnedOrLost, OwnersOK

(* The ASSERTs of sys_malloc and sys_free hold.                             *)
LEMMA InvHeap == MemInv => HeapExact
<1> SUFFICES ASSUME MemInv, NEW s \in Spaces, s \notin over
             PROVE  LET own == {a \in DOMAIN arena[s] : arena[s][a].desc = s}
                        lst == ToSet(free[s])
                    IN
                    /\ Cardinality(lst) = Len(free[s])
                    /\ \A b \in lst : b[1] \in own
                    /\ \A b \in held[s] : b[1] \in DOMAIN arena[s] /\ b[1] \in mem.used[s]
                    /\ \A a \in own :
                         /\ a \in mem.used[s]
                         /\ arena[s][a].cnt = Cardinality({i \in 1 .. BlocksPerArena : <<a, i>> \in lst})
                         /\ \A i \in 1 .. BlocksPerArena : (<<a, i>> \in lst) # (<<a, i>> \in held[s])
  BY DEF HeapExact
<1>1. HeapOK(s, arena[s], free[s], held[s], mem.used[s])
  BY DEF MemInv, HeapsOK, SpaceOK
<1>2. Cardinality(ToSet(free[s])) = Len(free[s])
  BY <1>1, ListLength DEF HeapOK
<1>3. \A a \in DOMAIN arena[s] : a \in mem.used[s]
  BY <1>1, FirstPage DEF HeapOK
<1>4. \A b \in ToSet(free[s]) : b[1] \in Own(s, arena[s])
  <2>1. ListOK(s, arena[s], free[s])
    BY <1>1 DEF HeapOK
  <2>2. DOMAIN free[s] = 1 .. Len(free[s])
    BY <2>1 DEF ListOK
  <2> QED
    BY <2>1, <2>2 DEF ListOK, ToSet
<1>5. \A b \in held[s] : b[1] \in DOMAIN arena[s]
  BY <1>1 DEF HeapOK, HeldOK
<1>6. ASSUME NEW a \in Own(s, arena[s])
      PROVE  /\ arena[s][a].cnt = Cardinality({i \in 1 .. BlocksPerArena : <<a, i>> \in ToSet(free[s])})
             /\ \A i \in 1 .. BlocksPerArena : (<<a, i>> \in ToSet(free[s])) # (<<a, i>> \in held[s])
  BY <1>1 DEF HeapOK, CountsOK, FreeOf
<1> QED
  BY <1>2, <1>3, <1>4, <1>5, <1>6 DEF Own

-----------------------------------------------------------------------------
(* Who owns the pages of the kernel                                         *)

(* The heap takes pages that are free, and gives some of its own back.      *)
LEMMA OwnersGrow ==
  ASSUME NEW tk, NEW k, NEW l, NEW u, OwnersOK(tk, k, l, u), NEW A, A \intersect u = {}
  PROVE  OwnersOK(tk, k \union A, l, u \union A)
BY DEF OwnersOK

(* sys_free gives pages of the kernel's heap back.                          *)
LEMMA OwnersShrink ==
  ASSUME NEW tk, NEW k, NEW l, NEW u, OwnersOK(tk, k, l, u), NEW A, A \subseteq k
  PROVE  OwnersOK(tk, k \ A, l, u \ A)
BY DEF OwnersOK

(* The PCB of process c becomes t, which has pages of its own.              *)
LEMMA OwnersFork ==
  ASSUME NEW tk, NEW k, NEW l, NEW u, OwnersOK(tk, k, l, u), tk = [p \in Procs |-> tk[p]],
         NEW c \in Procs, tk[c] = Null, NEW t \in TaskRecord, t.state = "live", t.pcb # t.pgdir,
         {t.pcb, t.pgdir} \intersect Run(t.bits, BitmapPages) = {}, PcbPages(t) \intersect u = {}
  PROVE  OwnersOK([tk EXCEPT ![c] = t], k, l, u \union PcbPages(t))
<1> DEFINE n == [tk EXCEPT ![c] = t]
<1>1. \A p \in Procs : n[p] = IF p = c THEN t ELSE tk[p]
  OBVIOUS
<1>2. \A p \in Procs : PcbPages(n[p]) = IF p = c THEN PcbPages(t) ELSE PcbPages(tk[p])
  BY <1>1
<1>3. PcbPages(tk[c]) = {}
  BY DEF PcbPages
<1> HIDE DEF n
<1>4. \A p \in Procs : n[p] # Null =>
        /\ n[p] \in TaskRecord /\ n[p].pcb # n[p].pgdir
        /\ n[p].state = "live" => {n[p].pcb, n[p].pgdir} \intersect Run(n[p].bits, BitmapPages) = {}
  BY <1>1 DEF OwnersOK
<1>5. \A x : x \in u \union PcbPages(t) <=> (\E p \in Procs : x \in PcbPages(n[p])) \/ x \in k \/ x \in l
  BY <1>2, <1>3 DEF OwnersOK
<1>6. \A p \in Procs : PcbPages(tk[p]) \subseteq u
  BY DEF OwnersOK
<1>7. \A p, r \in Procs : p # r => PcbPages(n[p]) \intersect PcbPages(n[r]) = {}
  BY <1>2, <1>6 DEF OwnersOK
<1>8. \A p \in Procs : PcbPages(n[p]) \intersect (k \union l) = {}
  BY <1>2 DEF OwnersOK
<1>9. k \intersect l = {}
  BY DEF OwnersOK
<1>10. OwnersOK(n, k, l, u \union PcbPages(t))
  BY <1>4, <1>5, <1>7, <1>8, <1>9 DEF OwnersOK
<1> QED
  BY <1>10 DEF n

(* A process exits: of its bitmap R only the pages R1 are given back.       *)
LEMMA OwnersExit ==
  ASSUME NEW tk, NEW k, NEW l, NEW u, OwnersOK(tk, k, l, u), tk = [p \in Procs |-> tk[p]],
         NEW c \in Procs, tk[c] # Null, tk[c].state = "live",
         NEW R, R = Run(tk[c].bits, BitmapPages), NEW R1, R1 \subseteq R
  PROVE  OwnersOK([tk EXCEPT ![c].state = "hanging"], k, l \union (R \ R1), u \ R1)
<1> DEFINE t == [tk[c] EXCEPT !.state = "hanging"]
           n == [tk EXCEPT ![c].state = "hanging"]
<1>1. \A p \in Procs : n[p] = IF p = c THEN t ELSE tk[p]
  OBVIOUS
<1>2. tk[c] \in TaskRecord /\ tk[c].pcb # tk[c].pgdir /\ {tk[c].pcb, tk[c].pgdir} \intersect R = {}
  BY DEF OwnersOK
<1>3. t \in TaskRecord /\ t.pcb = tk[c].pcb /\ t.pgdir = tk[c].pgdir /\ t.state = "hanging"
  BY <1>2 DEF TaskRecord
<1>4. t # Null
  BY <1>3, SpacesAssumption
<1> HIDE DEF t
<1>5. PcbPages(t) = {tk[c].pcb, tk[c].pgdir} /\ PcbPages(tk[c]) = {tk[c].pcb, tk[c].pgdir} \union R
  BY <1>3, <1>4 DEF PcbPages
<1>6. PcbPages(t) = PcbPages(tk[c]) \ R /\ R \subseteq PcbPages(tk[c])
  BY <1>2, <1>5
<1>7. \A p \in Procs : PcbPages(n[p]) = IF p = c THEN PcbPages(tk[c]) \ R ELSE PcbPages(tk[p])
  BY <1>1, <1>6
<1> HIDE DEF n
<1>8. \A p \in Procs : n[p] # Null =>
        /\ n[p] \in TaskRecord /\ n[p].pcb # n[p].pgdir
        /\ n[p].state = "live" => {n[p].pcb, n[p].pgdir} \intersect Run(n[p].bits, BitmapPages) = {}
  BY <1>1, <1>2, <1>3 DEF OwnersOK
<1>9. ASSUME NEW x
      PROVE  x \in u \ R1 <=> (\E p \in Procs : x \in PcbPages(n[p])) \/ x \in k \/ x \in l \union (R \ R1)
  <2>1. x \in u <=> (\E p \in Procs : x \in PcbPages(tk[p])) \/ x \in k \/ x \in l
    BY DEF OwnersOK
  <2>2. x \in R => x \in u /\ x \notin k /\ x \notin l /\ \A p \in Procs : p # c => x \notin PcbPages(tk[p])
    BY <1>6, <2>1 DEF OwnersOK
  <2>3. CASE x \in R
    BY <1>7, <2>2, <2>3
  <2>4. CASE x \notin R
    BY <1>7, <2>1, <2>4
  <2> QED
    BY <2>3, <2>4
<1>10. \A p, r \in Procs : p # r => PcbPages(n[p]) \intersect PcbPages(n[r]) = {}
  BY <1>7 DEF OwnersOK
<1>11. \A p \in Procs : PcbPages(n[p]) \intersect (k \union (l \union (R \ R1))) = {}
  BY <1>6, <1>7 DEF OwnersOK
<1>12. k \intersect (l \union (R \ R1)) = {}
  BY <1>6 DEF OwnersOK
<1>13. OwnersOK(n, k, l \union (R \ R1), u \ R1)
  BY <1>8, <1>9, <1>10, <1>11, <1>12 DEF OwnersOK
<1> QED
  BY <1>13 DEF n

(* A hanging process is reaped: its PCB and page directory are given back.  *)
LEMMA OwnersReap ==
  ASSUME NEW tk, NEW k, NEW l, NEW u, OwnersOK(tk, k, l, u), tk = [p \in Procs |-> tk[p]],
         NEW c \in Procs, tk[c] # Null, tk[c].state = "hanging"
  PROVE  OwnersOK([tk EXCEPT ![c] = Null], k, l, u \ {tk[c].pcb, tk[c].pgdir})
<1> DEFINE n == [tk EXCEPT ![c] = Null]
           A == {tk[c].pcb, tk[c].pgdir}
<1>1. \A p \in Procs : n[p] = IF p = c THEN Null ELSE tk[p]
  OBVIOUS
<1>2. PcbPages(tk[c]) = A /\ PcbPages(Null) = {}
  BY DEF PcbPages
<1>3. \A p \in Procs : PcbPages(n[p]) = IF p = c THEN {} ELSE PcbPages(tk[p])
  BY <1>1, <1>2
<1> HIDE DEF n, A
<1>4. \A p \in Procs : n[p] # Null =>
        /\ n[p] \in TaskRecord /\ n[p].pcb # n[p].pgdir
        /\ n[p].state = "live" => {n[p].pcb, n[p].pgdir} \intersect Run(n[p].bits, BitmapPages) = {}
  BY <1>1 DEF OwnersOK
<1>5. ASSUME NEW x
      PROVE  x \in u \ A <=> (\E p \in Procs : x \in PcbPages(n[p])) \/ x \in k \/ x \in l
  <2>1. x \in u <=> (\E p \in Procs : x \in PcbPages(tk[p])) \/ x \in k \/ x \in l
    BY DEF OwnersOK
  <2>2. x \in A => x \notin k /\ x \notin l /\ \A p \in Procs : p # c => x \notin PcbPages(tk[p])
    BY <1>2 DEF OwnersOK
  <2>3. CASE x \in A
    BY <1>3, <2>2, <2>3
  <2>4. CASE x \notin A
    BY <1>2, <1>3, <2>1, <2>4
  <2> QED
    BY <2>3, <2>4
<1>6. \A p, r \in Procs : p # r => PcbPages(n[p]) \intersect PcbPages(n[r]) = {}
  BY <1>3 DEF OwnersOK
<1>7. \A p \in Procs : PcbPages(n[p]) \intersect (k \union l) = {}
  BY <1>3 DEF OwnersOK
<1>8. k \intersect l = {}
  BY DEF OwnersOK
<1>9. OwnersOK(n, k, l, u \ A)
  BY <1>4, <1>5, <1>6, <1>7, <1>8 DEF OwnersOK
<1> QED
  BY <1>9 DEF n, A

-----------------------------------------------------------------------------
(* Steps of a heap                                                          *)

Header(a, r) == [x \in {a} |-> r]
Recounted(h, a, n) == [h EXCEPT ![a].cnt = n]

(* A heap is not disturbed by more pages of the space.                      *)
LEMMA HeapRoom ==
  ASSUME NEW s, NEW h, NEW f, NEW b, NEW u, HeapOK(s, h, f, b, u), NEW v, u \subseteq v
  PROVE  HeapOK(s, h, f, b, v)
<1>1. ArenasOK(s, h, b, v)
  BY DEF HeapOK, ArenasOK
<1> QED
  BY <1>1 DEF HeapOK

(* No arena, no block.                                                      *)
LEMMA HeapEmpty ==
  ASSUME NEW s, NEW u PROVE HeapOK(s, <<>>, <<>>, {}, u) /\ HeapOf(<<>>) = {}
<1>1. DOMAIN <<>> = {} /\ Len(<<>>) = 0 /\ <<>> \in Seq(Nat \X Nat)
  OBVIOUS
<1>2. ArenasOK(s, <<>>, {}, u) /\ HeldOK(s, <<>>, {}) /\ CountsOK(s, <<>>, <<>>, {})
  BY <1>1 DEF ArenasOK, HeldOK, CountsOK, Own
<1>3. ListOK(s, <<>>, <<>>)
  BY <1>1 DEF ListOK
<1>4. HeapOf(<<>>) = {}
  BY <1>1 DEF HeapOf
<1> QED
  BY <1>2, <1>3, <1>4 DEF HeapOK

(* g is h with one more header.                                             *)
Extended(h, g, a, r) ==
    /\ DOMAIN g = DOMAIN h \union {a} /\ g[a] = r /\ \A x \in DOMAIN h : g[x] = h[x]
    /\ \A x \in DOMAIN h : PagesOf(g, x) = PagesOf(h, x)
    /\ PagesOf(g, a) = Extent(a, r) /\ HeapOf(g) = HeapOf(h) \union Extent(a, r)

(* The header of a new arena is on a page that had none.                    *)
LEMMA HeaderFacts ==
  ASSUME NEW h, NEW a, a \notin DOMAIN h, NEW r
  PROVE  Extended(h, Merge(h, Header(a, r)), a, r)
<1> DEFINE g == Merge(h, Header(a, r))
<1>1. DOMAIN g = DOMAIN h \union {a} /\ g[a] = r /\ \A x \in DOMAIN h : g[x] = h[x]
  BY DEF Merge, Header
<1> HIDE DEF g
<1>2. \A x \in DOMAIN h : PagesOf(g, x) = PagesOf(h, x)
  BY <1>1 DEF PagesOf
<1>3. PagesOf(g, a) = Extent(a, r)
  BY <1>1 DEF PagesOf
<1>4. HeapOf(g) = HeapOf(h) \union PagesOf(g, a)
  BY <1>1, <1>2 DEF HeapOf
<1> QED
  BY <1>1, <1>2, <1>3, <1>4 DEF Extended, g

(* A header is as good when more blocks are in use.                         *)
LEMMA HeaderMore ==
  ASSUME NEW s, NEW a, NEW r, NEW b, HeaderOK(s, a, r, b), NEW c, b \subseteq c
  PROVE  HeaderOK(s, a, r, c)
BY DEF HeaderOK

(* A new arena, large or small, lies on pages that were free.               *)
LEMMA NewArena ==
  ASSUME NEW s, NEW h, NEW b, NEW u, ArenasOK(s, h, b, u), NEW a, NEW r, NEW c,
         HeaderOK(s, a, r, c), b \subseteq c, Extent(a, r) \intersect u = {},
         NEW g, g = Merge(h, Header(a, r)), NEW v, v = u \union Extent(a, r)
  PROVE  ArenasOK(s, g, c, v) /\ a \notin DOMAIN h /\ Extended(h, g, a, r)
<1> DEFINE A == Extent(a, r)
<1>1. a \notin DOMAIN h
  BY ExtentStart, FirstPage
<1>0. Extended(h, g, a, r)
  BY <1>1, HeaderFacts
<1> HIDE DEF A
<1>2. /\ DOMAIN g = DOMAIN h \union {a} /\ g[a] = r /\ \A x \in DOMAIN h : g[x] = h[x]
      /\ \A x \in DOMAIN h : PagesOf(g, x) = PagesOf(h, x)
      /\ PagesOf(g, a) = A
  BY <1>0 DEF Extended, A
<1>3. \A x \in DOMAIN h : HeaderOK(s, x, h[x], c) /\ PagesOf(h, x) \subseteq u
  BY HeaderMore DEF ArenasOK
<1>4. ASSUME NEW x \in DOMAIN g PROVE HeaderOK(s, x, g[x], c) /\ PagesOf(g, x) \subseteq v
  BY <1>2, <1>3 DEF A
<1>5. ASSUME NEW x \in DOMAIN g, NEW y \in DOMAIN g, x # y
      PROVE  PagesOf(g, x) \intersect PagesOf(g, y) = {}
  <2>1. A \intersect u = {}
    BY DEF A
  <2> QED
    BY <1>2, <1>3, <1>5, <2>1 DEF ArenasOK
<1>6. ArenasOK(s, g, c, v)
  BY <1>4, <1>5 DEF ArenasOK
<1> QED
  BY <1>0, <1>1, <1>6

LargeHeader(n) == [desc |-> Null, cnt |-> n, large |-> TRUE]
SmallHeader(s, n) == [desc |-> s, cnt |-> n, large |-> FALSE]

(* sys_malloc of a large block.                                             *)
LEMMA HeapLarge ==
  ASSUME NEW s \in Spaces, NEW h, NEW f, NEW b, NEW u, HeapOK(s, h, f, b, u),
         NEW a \in Nat, NEW n \in 1 .. BlocksPerArena + UPages, Run(a, n) \intersect u = {},
         NEW g, g = Merge(h, Header(a, LargeHeader(n))), NEW c, c = b \union {<<a, 0>>},
         NEW v, v = u \union Run(a, n)
  PROVE  HeapOK(s, g, f, c, v) /\ HeapOf(g) = HeapOf(h) \union Run(a, n)
<1> DEFINE r == LargeHeader(n)
<1>1. HeaderOK(s, a, r, c) /\ Extent(a, r) = Run(a, n) /\ r.desc = Null /\ r.large
  BY DEF HeaderOK, LargeHeader, Extent
<1>2. ArenasOK(s, h, b, u) /\ HeldOK(s, h, b) /\ ListOK(s, h, f) /\ CountsOK(s, h, f, b)
  BY DEF HeapOK
<1>3. b \subseteq c
  OBVIOUS
<1> HIDE DEF r
<1>4. ArenasOK(s, g, c, v) /\ a \notin DOMAIN h /\ Extended(h, g, a, r)
  <2>1. Extent(a, r) \intersect u = {} /\ v = u \union Extent(a, r) /\ g = Merge(h, Header(a, r))
    BY <1>1 DEF r
  <2> QED
    BY <1>1, <1>2, <1>3, <2>1, NewArena
<1>5. DOMAIN g = DOMAIN h \union {a} /\ g[a] = r /\ \A x \in DOMAIN h : g[x] = h[x]
  BY <1>4 DEF Extended
<1>6. Own(s, g) = Own(s, h) /\ Own(s, h) \subseteq DOMAIN h
  BY <1>1, <1>5, SpacesAssumption DEF Own
<1>7. HeldOK(s, g, c)
  <2>1. ASSUME NEW x \in c
        PROVE  /\ x = <<x[1], x[2]>> /\ x[1] \in DOMAIN g
               /\ IF g[x[1]].large THEN x[2] = 0
                                   ELSE x[1] \in Own(s, g) /\ x[2] \in 1 .. BlocksPerArena
    <3>1. CASE x \in b
      BY <1>2, <1>5, <1>6, <3>1 DEF HeldOK
    <3>2. CASE x = <<a, 0>>
      BY <1>1, <1>5, <3>2
    <3> QED
      BY <3>1, <3>2
  <2> QED
    BY <2>1 DEF HeldOK
<1>8. ListOK(s, g, f)
  BY <1>2, <1>6 DEF ListOK
<1>9. CountsOK(s, g, f, c)
  <2>1. \A x \in Own(s, h) : g[x] = h[x] /\ x # a
    BY <1>4, <1>5, <1>6
  <2>2. \A x \in Own(s, h), i \in 1 .. BlocksPerArena : <<x, i>> \in c <=> <<x, i>> \in b
    BY <2>1
  <2> QED
    BY <1>2, <1>6, <2>1, <2>2 DEF CountsOK
<1> QED
  BY <1>1, <1>4, <1>7, <1>8, <1>9 DEF HeapOK, Extended

(* What arena2block returns for a new arena.                                *)
LEMMA BlocksFacts ==
  ASSUME NEW a \in Nat
  PROVE  /\ Blocks(a) \in Seq(Nat \X Nat) /\ Len(Blocks(a)) = BlocksPerArena
         /\ \A i \in 1 .. BlocksPerArena : Blocks(a)[i] = <<a, i>>
         /\ ToSet(Blocks(a)) = {<<a, i>> : i \in 1 .. BlocksPerArena}
<1>1. BlocksPerArena \in Nat
  BY Sizes
<1>2. DOMAIN Blocks(a) = 1 .. BlocksPerArena /\ \A i \in 1 .. BlocksPerArena : Blocks(a)[i] = <<a, i>>
  BY DEF Blocks
<1>3. Blocks(a) \in [1 .. BlocksPerArena -> Nat \X Nat]
  <2>1. \A i \in 1 .. BlocksPerArena : <<a, i>> \in Nat \X Nat
    BY <1>1
  <2>2. [i \in 1 .. BlocksPerArena |-> <<a, i>>] \in [1 .. BlocksPerArena -> Nat \X Nat]
    BY <2>1, Zenon
  <2> QED
    BY <2>2 DEF Blocks
<1>4. Blocks(a) \in Seq(Nat \X Nat) /\ Len(Blocks(a)) = BlocksPerArena
  <2> DEFINE F == Blocks(a)  X == Nat \X Nat
  <2> HIDE DEF F, X
  <2>1. F \in [1 .. BlocksPerArena -> X]
    BY <1>3 DEF F, X
  <2>2. F \in Seq(X) /\ Len(F) = BlocksPerArena
    BY <1>1, <2>1
  <2> QED
    BY <2>2 DEF F, X
<1>5. ToSet(Blocks(a)) = {<<a, i>> : i \in 1 .. BlocksPerArena}
  <2>1. ToSet(Blocks(a)) = {Blocks(a)[i] : i \in 1 .. BlocksPerArena}
    BY <1>2 DEF ToSet
  <2> QED
    BY <1>2, <2>1
<1> QED
  BY <1>2, <1>4, <1>5

(* The list is empty, sys_malloc makes a new arena.                         *)
LEMMA HeapSmall ==
  ASSUME NEW s \in Spaces, NEW h, NEW b, NEW u, HeapOK(s, h, <<>>, b, u), NEW a \in Nat, a \notin u,
         NEW g, g = Merge(h, Header(a, SmallHeader(s, BlocksPerArena))), NEW v, v = u \union {a}
  PROVE  HeapOK(s, g, Blocks(a), b, v) /\ HeapOf(g) = HeapOf(h) \union {a}
<1> DEFINE r == SmallHeader(s, BlocksPerArena)
<1>0. BlocksPerArena \in Nat
  BY Sizes
<1>1. HeaderOK(s, a, r, b) /\ Extent(a, r) = {a} /\ r.desc = s /\ ~r.large /\ r.cnt = BlocksPerArena
  BY <1>0 DEF HeaderOK, SmallHeader, Extent, Run
<1>2. ArenasOK(s, h, b, u) /\ HeldOK(s, h, b) /\ CountsOK(s, h, <<>>, b)
  BY DEF HeapOK
<1> HIDE DEF r
<1>3. ArenasOK(s, g, b, v) /\ a \notin DOMAIN h /\ Extended(h, g, a, r)
  <2>1. /\ Extent(a, r) \intersect u = {} /\ b \subseteq b /\ v = u \union Extent(a, r)
        /\ g = Merge(h, Header(a, r))
    BY <1>1 DEF r
  <2> QED
    BY <1>1, <1>2, <2>1, NewArena
<1>4. DOMAIN g = DOMAIN h \union {a} /\ g[a] = r /\ \A x \in DOMAIN h : g[x] = h[x]
  BY <1>3 DEF Extended
<1>5. Own(s, g) = Own(s, h) \union {a} /\ Own(s, h) \subseteq DOMAIN h
  BY <1>1, <1>4 DEF Own
<1>6. HeldOK(s, g, b)
  BY <1>2, <1>4, <1>5 DEF HeldOK
<1>7. ListOK(s, g, Blocks(a))
  <2> DEFINE t == Blocks(a)
  <2>1. /\ t \in Seq(Nat \X Nat) /\ Len(t) = BlocksPerArena
        /\ \A i \in 1 .. BlocksPerArena : t[i] = <<a, i>>
    BY BlocksFacts
  <2> HIDE DEF t
  <2>2. \A i \in 1 .. BlocksPerArena : t[i][1] = a /\ t[i][2] = i
    BY <2>1
  <2>3. a \in Own(s, g)
    BY <1>5
  <2>4. \A i, j \in 1 .. Len(t) : t[i] = t[j] => i = j
    BY <2>1, <2>2
  <2>5. ListOK(s, g, t)
    BY <2>1, <2>2, <2>3, <2>4 DEF ListOK
  <2> QED
    BY <2>5 DEF t
<1>8. CountsOK(s, g, Blocks(a), b)
  <2>1. FreeOf(Blocks(a), a) = 1 .. BlocksPerArena
    BY BlocksFacts DEF FreeOf
  <2>2. Cardinality(1 .. BlocksPerArena) = BlocksPerArena
    BY <1>0, FS_Interval
  <2>3. \A i \in 1 .. BlocksPerArena : <<a, i>> \notin b
    BY <1>2, <1>3 DEF HeldOK
  <2>4. \A x \in Own(s, h) : FreeOf(Blocks(a), x) = FreeOf(<<>>, x)
    <3>1. ToSet(<<>>) = {}
      BY DEF ToSet
    <3> QED
      BY <1>3, <1>5, <3>1, BlocksFacts DEF FreeOf
  <2>5. ASSUME NEW x \in Own(s, g)
        PROVE  /\ g[x].cnt = Cardinality(FreeOf(Blocks(a), x))
               /\ \A i \in 1 .. BlocksPerArena : <<x, i>> \in b <=> i \notin FreeOf(Blocks(a), x)
    <3>1. CASE x = a
      BY <1>1, <1>4, <2>1, <2>2, <2>3, <3>1
    <3>2. CASE x \in Own(s, h)
      BY <1>2, <1>4, <1>5, <2>4, <3>2 DEF CountsOK
    <3> QED
      BY <1>5, <3>1, <3>2
  <2> QED
    BY <2>5 DEF CountsOK
<1> QED
  BY <1>1, <1>3, <1>6, <1>7, <1>8 DEF HeapOK, Extended

(* g is h with another count in a small header.                             *)
Counted(s, h, g, a, n) ==
    /\ DOMAIN g = DOMAIN h /\ \A x \in DOMAIN h : x # a => g[x] = h[x]
    /\ g[a].cnt = n /\ g[a].desc = h[a].desc /\ ~g[a].large
    /\ Own(s, g) = Own(s, h) /\ HeapOf(g) = HeapOf(h)

(* cnt of a small arena changes.                                            *)
LEMMA RecountFacts ==
  ASSUME NEW s, NEW h, NEW b, NEW u, ArenasOK(s, h, b, u), NEW a \in DOMAIN h, ~h[a].large,
         NEW n \in 0 .. BlocksPerArena, NEW g, g = Recounted(h, a, n),
         NEW c, \A y : <<y, 0>> \in b => <<y, 0>> \in c
  PROVE  ArenasOK(s, g, c, u) /\ Counted(s, h, g, a, n)
<1> DEFINE r == [h[a] EXCEPT !.cnt = n]
<1>1. DOMAIN g = DOMAIN h /\ g[a] = r /\ \A x \in DOMAIN h : x # a => g[x] = h[x]
  BY DEF Recounted
<1>2. HeaderOK(s, a, h[a], b)
  BY DEF ArenasOK
<1>3. /\ r.large = h[a].large /\ r.desc = h[a].desc /\ r.cnt = n
      /\ r = [desc |-> r.desc, cnt |-> r.cnt, large |-> r.large]
  <2>1. PICK d, k, l : h[a] = [desc |-> d, cnt |-> k, large |-> l]
    BY <1>2 DEF HeaderOK
  <2>2. r = [desc |-> d, cnt |-> n, large |-> l]
    BY <2>1
  <2> HIDE DEF r
  <2> QED
    BY <2>1, <2>2
<1> HIDE DEF r
<1>4. HeaderOK(s, a, g[a], c)
  BY <1>1, <1>2, <1>3 DEF HeaderOK
<1>5. \A x \in DOMAIN h : HeaderOK(s, x, h[x], b) => HeaderOK(s, x, h[x], c)
  BY DEF HeaderOK
<1>6. \A x \in DOMAIN g : HeaderOK(s, x, g[x], c)
  BY <1>1, <1>4, <1>5 DEF ArenasOK
<1>7. \A x \in DOMAIN h : PagesOf(g, x) = PagesOf(h, x)
  BY <1>1, <1>3 DEF PagesOf, Extent
<1>8. ArenasOK(s, g, c, u)
  BY <1>1, <1>6, <1>7 DEF ArenasOK
<1>9. HeapOf(g) = HeapOf(h)
  BY <1>1, <1>7 DEF HeapOf
<1>10. Own(s, g) = Own(s, h)
  BY <1>1, <1>3 DEF Own
<1> QED
  BY <1>1, <1>3, <1>8, <1>9, <1>10 DEF Counted

(* A list without repetitions loses its head, or gets a new last element.   *)
Distinct(f) == \A i, j \in 1 .. Len(f) : f[i] = f[j] => i = j

(* list_pop takes the head only.                                            *)
LEMMA TailFacts ==
  ASSUME NEW X, NEW f \in Seq(X), f # <<>>, Distinct(f)
  PROVE  /\ Head(f) \in ToSet(f) /\ Tail(f) \in Seq(X) /\ Distinct(Tail(f))
         /\ ToSet(Tail(f)) = ToSet(f) \ {Head(f)}
<1>1. /\ Len(f) \in Nat \ {0} /\ DOMAIN f = 1 .. Len(f) /\ Head(f) = f[1]
      /\ Tail(f) \in Seq(X) /\ Len(Tail(f)) = Len(f) - 1 /\ DOMAIN Tail(f) = 1 .. Len(f) - 1
      /\ \A i \in 1 .. Len(f) - 1 : Tail(f)[i] = f[i + 1]
  OBVIOUS
<1> DEFINE t == Tail(f)
<1> HIDE DEF t
<1>2. Distinct(t)
  <2> SUFFICES ASSUME NEW i \in 1 .. Len(f) - 1, NEW j \in 1 .. Len(f) - 1, t[i] = t[j] PROVE i = j
    BY <1>1 DEF Distinct, t
  <2>1. f[i + 1] = f[j + 1] /\ i + 1 \in 1 .. Len(f) /\ j + 1 \in 1 .. Len(f)
    BY <1>1 DEF t
  <2>2. i + 1 = j + 1
    BY <2>1 DEF Distinct
  <2> QED
    BY <2>2
<1>3. ASSUME NEW x PROVE x \in ToSet(t) <=> x \in ToSet(f) /\ x # Head(f)
  <2>1. x \in ToSet(t) <=> \E i \in 1 .. Len(f) - 1 : x = f[i + 1]
    BY <1>1 DEF ToSet, t
  <2>2. x \in ToSet(f) <=> \E i \in 1 .. Len(f) : x = f[i]
    BY <1>1 DEF ToSet
  <2>3. ASSUME NEW i \in 1 .. Len(f) - 1, x = f[i + 1] PROVE x \in ToSet(f) /\ x # Head(f)
    <3>1. i + 1 \in 1 .. Len(f) /\ i + 1 # 1 /\ 1 \in 1 .. Len(f)
      BY <1>1
    <3> QED
      BY <1>1, <2>2, <2>3, <3>1 DEF Distinct
  <2>4. ASSUME NEW i \in 1 .. Len(f), x = f[i], x # Head(f) PROVE \E j \in 1 .. Len(f) - 1 : x = f[j + 1]
    <3>1. i # 1
      BY <1>1, <2>4
    <3>2. i - 1 \in 1 .. Len(f) - 1 /\ (i - 1) + 1 = i
      BY <1>1, <3>1
    <3> QED
      BY <2>4, <3>2
  <2> QED
    BY <2>1, <2>2, <2>3, <2>4
<1>4. Head(f) \in ToSet(f)
  BY <1>1 DEF ToSet
<1> QED
  BY <1>1, <1>2, <1>3, <1>4 DEF t

(* list_append adds one block.                                              *)
LEMMA AppendFacts ==
  ASSUME NEW X, NEW f \in Seq(X), NEW x \in X, Distinct(f), x \notin ToSet(f)
  PROVE  /\ Append(f, x) \in Seq(X) /\ Distinct(Append(f, x))
         /\ ToSet(Append(f, x)) = ToSet(f) \union {x}
<1>1. /\ Len(f) \in Nat /\ DOMAIN f = 1 .. Len(f) /\ Append(f, x) \in Seq(X)
      /\ Len(Append(f, x)) = Len(f) + 1 /\ DOMAIN Append(f, x) = 1 .. Len(f) + 1
      /\ \A i \in 1 .. Len(f) : Append(f, x)[i] = f[i]
      /\ Append(f, x)[Len(f) + 1] = x
  OBVIOUS
<1> DEFINE t == Append(f, x)
<1> HIDE DEF t
<1>2. \A i \in 1 .. Len(f) : f[i] # x
  BY <1>1 DEF ToSet
<1>3. \A i \in 1 .. Len(f) + 1 : i \in 1 .. Len(f) \/ i = Len(f) + 1
  BY <1>1
<1>4. Distinct(t)
  BY <1>1, <1>2, <1>3 DEF Distinct, t
<1>5. ASSUME NEW y PROVE y \in ToSet(t) <=> y \in ToSet(f) \/ y = x
  <2>1. y \in ToSet(t) <=> \E i \in 1 .. Len(f) + 1 : y = t[i]
    BY <1>1 DEF ToSet, t
  <2>2. y \in ToSet(f) <=> \E i \in 1 .. Len(f) : y = f[i]
    BY <1>1 DEF ToSet
  <2>3. Len(f) + 1 \in 1 .. Len(f) + 1 /\ \A i \in 1 .. Len(f) : i \in 1 .. Len(f) + 1
    BY <1>1
  <2> QED
    BY <1>1, <1>3, <2>1, <2>2, <2>3 DEF t
<1> QED
  BY <1>1, <1>4, <1>5 DEF t

(* ListOK in terms of the set of blocks.                                    *)
LEMMA ListSet ==
  ASSUME NEW s, NEW h, NEW f
  PROVE  ListOK(s, h, f) <=>
           /\ f \in Seq(Nat \X Nat) /\ Distinct(f)
           /\ \A x \in ToSet(f) : x[1] \in Own(s, h) /\ x[2] \in 1 .. BlocksPerArena
<1>1. f \in Seq(Nat \X Nat) => DOMAIN f = 1 .. Len(f)
  OBVIOUS
<1>2. f \in Seq(Nat \X Nat) =>
        ((\A x \in ToSet(f) : x[1] \in Own(s, h) /\ x[2] \in 1 .. BlocksPerArena) <=>
         (\A i \in 1 .. Len(f) : f[i][1] \in Own(s, h) /\ f[i][2] \in 1 .. BlocksPerArena))
  BY <1>1 DEF ToSet
<1> QED
  BY <1>2 DEF ListOK, Distinct

(* A block of an arena leaves the free list.                                *)
LEMMA FreeLess ==
  ASSUME NEW f, NEW g, NEW a, NEW i \in 1 .. BlocksPerArena, <<a, i>> \in ToSet(f),
         ToSet(g) = ToSet(f) \ {<<a, i>>}
  PROVE  /\ FreeOf(g, a) = FreeOf(f, a) \ {i} /\ \A y : y # a => FreeOf(g, y) = FreeOf(f, y)
         /\ Cardinality(FreeOf(g, a)) = Cardinality(FreeOf(f, a)) - 1
         /\ Cardinality(FreeOf(f, a)) \in 1 .. BlocksPerArena
<1>0. BlocksPerArena \in Nat
  BY Sizes
<1>1. FreeOf(g, a) = FreeOf(f, a) \ {i} /\ \A y : y # a => FreeOf(g, y) = FreeOf(f, y)
  BY DEF FreeOf
<1>2. i \in FreeOf(f, a) /\ FreeOf(f, a) \in SUBSET (1 .. BlocksPerArena)
  BY DEF FreeOf
<1>3. IsFiniteSet(1 .. BlocksPerArena) /\ Cardinality(1 .. BlocksPerArena) = BlocksPerArena
  <2>1. IsFiniteSet(1 .. BlocksPerArena)
    BY <1>0, FS_Interval
  <2>2. Cardinality(1 .. BlocksPerArena) = BlocksPerArena
    BY <1>0, FS_Interval
  <2> QED
    BY <2>1, <2>2
<1>4. IsFiniteSet(FreeOf(f, a)) /\ Cardinality(FreeOf(f, a)) <= BlocksPerArena
  BY <1>2, <1>3, FS_Subset
<1>5. Cardinality(FreeOf(f, a) \ {i}) = Cardinality(FreeOf(f, a)) - 1
  BY <1>2, <1>4, FS_RemoveElement
<1>6. Cardinality(FreeOf(f, a)) \in Nat /\ FreeOf(f, a) # {}
  BY <1>2, <1>4, FS_CardinalityType
<1>7. Cardinality(FreeOf(f, a)) # 0
  BY <1>4, <1>6, FS_EmptySet
<1> QED
  BY <1>0, <1>1, <1>4, <1>5, <1>6, <1>7

(* sys_malloc takes the first block of the free list.                       *)
LEMMA TakeBlock ==
  ASSUME NEW s \in Spaces, NEW h, NEW f, NEW b, NEW u, HeapOK(s, h, f, b, u), f # <<>>,
         NEW x, x = Head(f), NEW g, g = Recounted(h, x[1], h[x[1]].cnt - 1)
  PROVE  HeapOK(s, g, Tail(f), b \union {x}, u) /\ HeapOf(g) = HeapOf(h) /\ x[1] \in DOMAIN h
<1> DEFINE a == x[1]
           i == x[2]
           t == Tail(f)
           c == b \union {x}
<1>1. ArenasOK(s, h, b, u) /\ HeldOK(s, h, b) /\ ListOK(s, h, f) /\ CountsOK(s, h, f, b)
  BY DEF HeapOK
<1>2. f \in Seq(Nat \X Nat) /\ Distinct(f)
      /\ \A y \in ToSet(f) : y[1] \in Own(s, h) /\ y[2] \in 1 .. BlocksPerArena
  BY <1>1, ListSet
<1>3. /\ x \in ToSet(f) /\ t \in Seq(Nat \X Nat) /\ Distinct(t) /\ ToSet(t) = ToSet(f) \ {x}
      /\ x \in Nat \X Nat
  BY <1>2, TailFacts
<1>4. x = <<a, i>> /\ a \in Own(s, h) /\ a \in DOMAIN h /\ h[a].desc = s /\ i \in 1 .. BlocksPerArena
  BY <1>2, <1>3 DEF Own
<1> HIDE DEF a, i, t, c
<1>5. ~h[a].large
  BY <1>1, <1>4, SpacesAssumption DEF ArenasOK, HeaderOK
<1>6. /\ FreeOf(t, a) = FreeOf(f, a) \ {i} /\ \A y : y # a => FreeOf(t, y) = FreeOf(f, y)
      /\ Cardinality(FreeOf(t, a)) = Cardinality(FreeOf(f, a)) - 1
      /\ Cardinality(FreeOf(f, a)) \in 1 .. BlocksPerArena
  <2>1. <<a, i>> \in ToSet(f) /\ ToSet(t) = ToSet(f) \ {<<a, i>>}
    BY <1>3, <1>4
  <2> QED
    BY <1>4, <2>1, FreeLess
<1>7. h[a].cnt = Cardinality(FreeOf(f, a)) /\ h[a].cnt - 1 \in 0 .. BlocksPerArena
  <2>1. h[a].cnt = Cardinality(FreeOf(f, a))
    BY <1>1, <1>4 DEF CountsOK
  <2> QED
    BY <1>6, <2>1, Sizes
<1>8. ArenasOK(s, g, c, u) /\ Counted(s, h, g, a, h[a].cnt - 1)
  <2>1. g = Recounted(h, a, h[a].cnt - 1)
    BY DEF a
  <2>2. \A y : <<y, 0>> \in b => <<y, 0>> \in c
    BY DEF c
  <2> DEFINE n == h[a].cnt - 1
  <2> HIDE DEF n
  <2>3. n \in 0 .. BlocksPerArena /\ g = Recounted(h, a, n)
    BY <1>7, <2>1 DEF n
  <2>4. ArenasOK(s, g, c, u) /\ Counted(s, h, g, a, n)
    BY <1>1, <1>4, <1>5, <2>2, <2>3, RecountFacts
  <2> QED
    BY <2>4 DEF n
<1>9. /\ DOMAIN g = DOMAIN h /\ \A y \in DOMAIN h : y # a => g[y] = h[y]
      /\ g[a].cnt = h[a].cnt - 1 /\ ~g[a].large /\ Own(s, g) = Own(s, h) /\ HeapOf(g) = HeapOf(h)
  BY <1>8 DEF Counted
<1>10. HeldOK(s, g, c)
  <2>1. ASSUME NEW y \in c
        PROVE  /\ y = <<y[1], y[2]>> /\ y[1] \in DOMAIN g
               /\ IF g[y[1]].large THEN y[2] = 0
                                   ELSE y[1] \in Own(s, g) /\ y[2] \in 1 .. BlocksPerArena
    <3>1. CASE y = x
      BY <1>4, <1>9, <3>1 DEF a, i
    <3>2. CASE y \in b
      <4>1. /\ y = <<y[1], y[2]>> /\ y[1] \in DOMAIN h
            /\ IF h[y[1]].large THEN y[2] = 0
                                ELSE y[1] \in Own(s, h) /\ y[2] \in 1 .. BlocksPerArena
        BY <1>1, <3>2 DEF HeldOK
      <4>2. h[y[1]].large <=> g[y[1]].large
        BY <1>5, <1>9, <4>1
      <4> QED
        BY <1>9, <4>1, <4>2
    <3> QED
      BY <3>1, <3>2 DEF c
  <2> QED
    BY <2>1 DEF HeldOK
<1>11. ListOK(s, g, t)
  BY <1>2, <1>3, <1>9, ListSet
<1>12. CountsOK(s, g, t, c)
  <2>1. ASSUME NEW y \in Own(s, g)
        PROVE  /\ g[y].cnt = Cardinality(FreeOf(t, y))
               /\ \A j \in 1 .. BlocksPerArena : <<y, j>> \in c <=> j \notin FreeOf(t, y)
    <3>0. /\ y \in DOMAIN h /\ h[y].cnt = Cardinality(FreeOf(f, y))
          /\ \A j \in 1 .. BlocksPerArena : <<y, j>> \in b <=> j \notin FreeOf(f, y)
      <4>1. y \in Own(s, h)
        BY <1>9
      <4>2. y \in DOMAIN h
        BY <4>1 DEF Own
      <4> QED
        BY <1>1, <4>1, <4>2 DEF CountsOK
    <3>1. CASE y = a
      <4>1. g[a].cnt = Cardinality(FreeOf(t, a))
        BY <1>6, <1>7, <1>9
      <4>2. \A j \in 1 .. BlocksPerArena : <<a, j>> \in c <=> j \notin FreeOf(t, a)
        BY <1>4, <1>6, <3>0, <3>1 DEF c
      <4> QED
        BY <3>1, <4>1, <4>2
    <3>2. CASE y # a
      BY <1>4, <1>6, <1>9, <3>0, <3>2 DEF c
    <3> QED
      BY <3>1, <3>2
  <2> QED
    BY <2>1 DEF CountsOK
<1> QED
  BY <1>4, <1>8, <1>9, <1>10, <1>11, <1>12 DEF HeapOK, t, c, a

(* sys_free puts a small block at the end of the free list.                 *)
LEMMA PutBlock ==
  ASSUME NEW s \in Spaces, NEW h, NEW f, NEW b, NEW u, HeapOK(s, h, f, b, u),
         NEW x \in b, ~h[x[1]].large, NEW g, g = Recounted(h, x[1], h[x[1]].cnt + 1)
  PROVE  /\ HeapOK(s, g, Append(f, x), b \ {x}, u) /\ HeapOf(g) = HeapOf(h)
         /\ x[1] \in DOMAIN h /\ x[1] \in Own(s, g) /\ g[x[1]].cnt = h[x[1]].cnt + 1
         /\ h[x[1]].cnt + 1 \in 1 .. BlocksPerArena
<1> DEFINE a == x[1]
           i == x[2]
           t == Append(f, x)
           c == b \ {x}
<1>1. ArenasOK(s, h, b, u) /\ HeldOK(s, h, b) /\ ListOK(s, h, f) /\ CountsOK(s, h, f, b)
  BY DEF HeapOK
<1>2. f \in Seq(Nat \X Nat) /\ Distinct(f)
      /\ \A y \in ToSet(f) : y[1] \in Own(s, h) /\ y[2] \in 1 .. BlocksPerArena
  BY <1>1, ListSet
<1>3. x = <<a, i>> /\ a \in Own(s, h) /\ a \in DOMAIN h /\ i \in 1 .. BlocksPerArena /\ a \in Nat
  BY <1>1 DEF HeldOK, ArenasOK, HeaderOK, Own
<1>4. x \notin ToSet(f)
  <2>1. <<a, i>> \in b
    BY <1>3
  <2>2. i \notin FreeOf(f, a)
    BY <1>1, <1>3, <2>1 DEF CountsOK
  <2> QED
    BY <1>3, <2>2 DEF FreeOf
<1>5. x \in Nat \X Nat
  <2>1. i \in Nat
    BY <1>3, Sizes
  <2> QED
    BY <1>3, <2>1
<1>6. t \in Seq(Nat \X Nat) /\ Distinct(t) /\ ToSet(t) = ToSet(f) \union {x}
  BY <1>2, <1>4, <1>5, AppendFacts
<1> HIDE DEF a, i, t, c
<1>7. /\ FreeOf(f, a) = FreeOf(t, a) \ {i} /\ \A y : y # a => FreeOf(f, y) = FreeOf(t, y)
      /\ Cardinality(FreeOf(f, a)) = Cardinality(FreeOf(t, a)) - 1
      /\ Cardinality(FreeOf(t, a)) \in 1 .. BlocksPerArena
  <2>1. <<a, i>> \in ToSet(t) /\ ToSet(f) = ToSet(t) \ {<<a, i>>}
    BY <1>3, <1>4, <1>6
  <2> QED
    BY <1>3, <2>1, FreeLess
<1>8. i \in FreeOf(t, a)
  BY <1>3, <1>6 DEF FreeOf
<1>9. h[a].cnt + 1 = Cardinality(FreeOf(t, a)) /\ h[a].cnt + 1 \in 1 .. BlocksPerArena
  <2>1. h[a].cnt = Cardinality(FreeOf(f, a))
    BY <1>1, <1>3 DEF CountsOK
  <2> QED
    BY <1>7, <2>1, Sizes
<1>10. ArenasOK(s, g, c, u) /\ Counted(s, h, g, a, h[a].cnt + 1)
  <2> DEFINE n == h[a].cnt + 1
  <2> HIDE DEF n
  <2>1. g = Recounted(h, a, n)
    BY DEF a, n
  <2>2. \A y : <<y, 0>> \in b => <<y, 0>> \in c
    BY <1>3 DEF c
  <2>3. n \in 0 .. BlocksPerArena
    BY <1>9, Sizes DEF n
  <2>4. ~h[a].large
    BY DEF a
  <2>5. ArenasOK(s, g, c, u) /\ Counted(s, h, g, a, n)
    BY <1>1, <1>3, <2>1, <2>2, <2>3, <2>4, RecountFacts
  <2> QED
    BY <2>5 DEF n
<1>11. /\ DOMAIN g = DOMAIN h /\ \A y \in DOMAIN h : y # a => g[y] = h[y]
       /\ g[a].cnt = h[a].cnt + 1 /\ ~g[a].large /\ Own(s, g) = Own(s, h) /\ HeapOf(g) = HeapOf(h)
  BY <1>10 DEF Counted
<1>12. HeldOK(s, g, c)
  <2>1. ASSUME NEW y \in c
        PROVE  /\ y = <<y[1], y[2]>> /\ y[1] \in DOMAIN g
               /\ IF g[y[1]].large THEN y[2] = 0
                                   ELSE y[1] \in Own(s, g) /\ y[2] \in 1 .. BlocksPerArena
    <3>1. /\ y = <<y[1], y[2]>> /\ y[1] \in DOMAIN h
          /\ IF h[y[1]].large THEN y[2] = 0
                              ELSE y[1] \in Own(s, h) /\ y[2] \in 1 .. BlocksPerArena
      BY <1>1 DEF HeldOK, c
    <3>2. h[y[1]].large <=> g[y[1]].large
      BY <1>11, <3>1 DEF a
    <3> QED
      BY <1>11, <3>1, <3>2
  <2> QED
    BY <2>1 DEF HeldOK
<1>13. ListOK(s, g, t)
  <2>1. \A y \in ToSet(t) : y[1] \in Own(s, g) /\ y[2] \in 1 .. BlocksPerArena
    BY <1>2, <1>3, <1>6, <1>11 DEF a, i
  <2> QED
    BY <1>6, <2>1, ListSet
<1>14. CountsOK(s, g, t, c)
  <2>1. ASSUME NEW y \in Own(s, g)
        PROVE  /\ g[y].cnt = Cardinality(FreeOf(t, y))
               /\ \A j \in 1 .. BlocksPerArena : <<y, j>> \in c <=> j \notin FreeOf(t, y)
    <3>0. /\ y \in DOMAIN h /\ h[y].cnt = Cardinality(FreeOf(f, y))
          /\ \A j \in 1 .. BlocksPerArena : <<y, j>> \in b <=> j \notin FreeOf(f, y)
      BY <1>1, <1>11 DEF CountsOK, Own
    <3>1. CASE y = a
      BY <1>3, <1>7, <1>8, <1>9, <1>11, <3>0, <3>1 DEF c
    <3>2. CASE y # a
      BY <1>3, <1>7, <1>11, <3>0, <3>2 DEF c
    <3> QED
      BY <3>1, <3>2
  <2> QED
    BY <2>1 DEF CountsOK
<1> QED
  BY <1>3, <1>9, <1>10, <1>11, <1>12, <1>13, <1>14 DEF HeapOK, t, c, a

(* list_remove of the blocks of arena a takes these and no others.          *)
LEMMA OutOfFacts ==
  ASSUME NEW X, NEW f \in Seq(X), Distinct(f), NEW a
  PROVE  /\ OutOf(f, a) \in Seq(X) /\ Distinct(OutOf(f, a))
         /\ ToSet(OutOf(f, a)) = {x \in ToSet(f) : x[1] # a}
<1> DEFINE keep == {i \in DOMAIN f : f[i][1] # a}
           k == Cardinality(keep)
           from == Assign(1 .. k, keep)
           g == OutOf(f, a)
<1>1. Len(f) \in Nat /\ DOMAIN f = 1 .. Len(f) /\ \A i \in 1 .. Len(f) : f[i] \in X
  OBVIOUS
<1>2. Bounded(keep) /\ IsFiniteSet(keep) /\ k \in Nat
  <2>1. IsFiniteSet(1 .. Len(f)) /\ keep \in SUBSET (1 .. Len(f))
    BY <1>1, FS_Interval
  <2>2. IsFiniteSet(keep)
    BY <2>1, FS_Subset
  <2>3. keep \in SUBSET Nat
    BY <1>1, <2>1
  <2> HIDE DEF keep
  <2> QED
    BY <2>2, <2>3, FS_CardinalityType DEF Bounded
<1>3. g = [i \in DOMAIN from |-> f[from[i]]]
  BY DEF OutOf
<1>4. \A i : i \in keep <=> i \in 1 .. Len(f) /\ f[i][1] # a
  BY <1>1
<1> HIDE DEF keep, from, g, k
<1>5. IsFiniteSet(1 .. k) /\ Cardinality(1 .. k) = k /\ Bounded(1 .. k)
  <2>1. IsFiniteSet(1 .. k)
    BY <1>2, FS_Interval
  <2>2. Cardinality(1 .. k) = k
    BY <1>2, FS_Interval
  <2>3. 1 .. k \in SUBSET Nat
    BY <1>2
  <2> QED
    BY <2>1, <2>2, <2>3 DEF Bounded
<1>6. from \in [1 .. k -> keep] /\ \A i, j \in 1 .. k : from[i] = from[j] => i = j
  <2>1. Cardinality(1 .. k) <= Cardinality(keep)
    BY <1>2, <1>5 DEF k
  <2> QED
    BY <1>2, <1>5, <2>1, AssignFacts DEF from
<1>7. from \in Surjection(1 .. k, keep)
  <2>1. from \in Injection(1 .. k, keep)
    BY <1>6 DEF Injection, IsInjective
  <2>2. Cardinality(1 .. k) = Cardinality(keep)
    BY <1>5 DEF k
  <2> QED
    BY <1>2, <2>1, <2>2, FS_Injection
<1>8. \A i \in keep : \E j \in 1 .. k : from[j] = i
  BY <1>7 DEF Surjection
<1>9. DOMAIN g = 1 .. k /\ \A i \in 1 .. k : g[i] = f[from[i]] /\ from[i] \in keep
  BY <1>3, <1>6
<1>10. g \in Seq(X) /\ Len(g) = k
  <2>1. g = [i \in 1 .. k |-> g[i]]
    BY <1>3, <1>9
  <2>2. \A i \in 1 .. k : g[i] \in X
    BY <1>1, <1>4, <1>9
  <2>3. g \in [1 .. k -> X]
    BY <2>1, <2>2
  <2> QED
    BY <1>2, <2>3
<1>11. Distinct(g)
  BY <1>4, <1>6, <1>9, <1>10 DEF Distinct
<1>12. ASSUME NEW x PROVE x \in ToSet(g) <=> x \in ToSet(f) /\ x[1] # a
  <2>1. x \in ToSet(g) <=> \E i \in 1 .. k : x = f[from[i]]
    BY <1>9 DEF ToSet
  <2>2. x \in ToSet(f) <=> \E i \in 1 .. Len(f) : x = f[i]
    BY <1>1 DEF ToSet
  <2>3. x \in ToSet(g) => x \in ToSet(f) /\ x[1] # a
    BY <1>4, <1>9, <2>1, <2>2
  <2>4. ASSUME x \in ToSet(f), x[1] # a PROVE x \in ToSet(g)
    <3>1. PICK i \in 1 .. Len(f) : x = f[i]
      BY <2>2, <2>4
    <3>2. i \in keep
      BY <1>4, <2>4, <3>1
    <3> QED
      BY <1>8, <2>1, <3>1, <3>2
  <2> QED
    BY <2>3, <2>4
<1> QED
  BY <1>10, <1>11, <1>12 DEF g

(* g is h without the header on page a.                                     *)
Dropped(s, h, g, a) ==
    /\ DOMAIN g = DOMAIN h \ {a} /\ \A x \in DOMAIN h : x # a => g[x] = h[x]
    /\ Own(s, g) = Own(s, h) \ {a} /\ HeapOf(g) = HeapOf(h) \ PagesOf(h, a)

(* An arena is given back.                                                  *)
LEMMA DropHeader ==
  ASSUME NEW s, NEW h, NEW b, NEW u, ArenasOK(s, h, b, u), NEW a \in DOMAIN h,
         NEW g, g = Without(h, {a}), NEW c, \A y : y # a /\ <<y, 0>> \in b => <<y, 0>> \in c
  PROVE  ArenasOK(s, g, c, u \ PagesOf(h, a)) /\ Dropped(s, h, g, a) /\ PagesOf(h, a) \subseteq HeapOf(h)
<1>1. DOMAIN g = DOMAIN h \ {a} /\ \A x \in DOMAIN h : x # a => g[x] = h[x]
  BY DEF Without
<1>2. \A x \in DOMAIN g : PagesOf(g, x) = PagesOf(h, x)
  BY <1>1 DEF PagesOf
<1>3. \A x \in DOMAIN g : HeaderOK(s, x, g[x], c)
  <2>1. \A x \in DOMAIN g : HeaderOK(s, x, g[x], b)
    BY <1>1 DEF ArenasOK
  <2> QED
    BY <1>1, <2>1 DEF HeaderOK
<1>4. \A x \in DOMAIN g : PagesOf(h, x) \intersect PagesOf(h, a) = {} /\ PagesOf(h, x) \subseteq u
  BY <1>1 DEF ArenasOK
<1>5. \A x, y \in DOMAIN g : x # y => PagesOf(g, x) \intersect PagesOf(g, y) = {}
  BY <1>1, <1>2 DEF ArenasOK
<1>6. ArenasOK(s, g, c, u \ PagesOf(h, a))
  BY <1>2, <1>3, <1>4, <1>5 DEF ArenasOK
<1>7. Own(s, g) = Own(s, h) \ {a}
  BY <1>1 DEF Own
<1>8. ASSUME NEW z PROVE z \in HeapOf(g) <=> z \in HeapOf(h) /\ z \notin PagesOf(h, a)
  <2>1. z \in HeapOf(g) <=> \E x \in DOMAIN g : z \in PagesOf(h, x)
    BY <1>2 DEF HeapOf
  <2>2. z \in HeapOf(h) <=> \E x \in DOMAIN h : z \in PagesOf(h, x)
    BY DEF HeapOf
  <2> QED
    BY <1>1, <1>4, <2>1, <2>2
<1>9. PagesOf(h, a) \subseteq HeapOf(h)
  BY DEF HeapOf
<1> QED
  BY <1>1, <1>6, <1>7, <1>8, <1>9 DEF Dropped

(* sys_free of the last block in use of a small arena.                      *)
LEMMA DropArena ==
  ASSUME NEW s \in Spaces, NEW h, NEW f, NEW b, NEW u, HeapOK(s, h, f, b, u),
         NEW a \in Own(s, h), h[a].cnt = BlocksPerArena, NEW g, g = Without(h, {a})
  PROVE  /\ HeapOK(s, g, OutOf(f, a), b, u \ {a}) /\ HeapOf(g) = HeapOf(h) \ {a}
         /\ a \in HeapOf(h) /\ a \in u
<1> DEFINE t == OutOf(f, a)
<1>0. BlocksPerArena \in Nat
  BY Sizes
<1>1. ArenasOK(s, h, b, u) /\ HeldOK(s, h, b) /\ ListOK(s, h, f) /\ CountsOK(s, h, f, b)
  BY DEF HeapOK
<1>2. a \in DOMAIN h /\ h[a].desc = s /\ ~h[a].large /\ a \in Nat
  BY <1>1, SpacesAssumption DEF Own, ArenasOK, HeaderOK
<1>3. PagesOf(h, a) = {a}
  BY <1>2 DEF PagesOf, Extent, Run
<1>4. ArenasOK(s, g, b, u \ {a}) /\ Dropped(s, h, g, a) /\ a \in HeapOf(h)
  <2>1. \A y : y # a /\ <<y, 0>> \in b => <<y, 0>> \in b
    OBVIOUS
  <2>2. ArenasOK(s, g, b, u \ PagesOf(h, a)) /\ Dropped(s, h, g, a) /\ PagesOf(h, a) \subseteq HeapOf(h)
    BY <1>1, <1>2, <2>1, DropHeader
  <2> QED
    BY <1>3, <2>2
<1>5. DOMAIN g = DOMAIN h \ {a} /\ \A x \in DOMAIN h : x # a => g[x] = h[x]
  BY <1>4 DEF Dropped
<1>6. Own(s, g) = Own(s, h) \ {a} /\ HeapOf(g) = HeapOf(h) \ {a}
  BY <1>3, <1>4 DEF Dropped
<1>7. FreeOf(f, a) = 1 .. BlocksPerArena
  <2>1. IsFiniteSet(1 .. BlocksPerArena)
    BY <1>0, FS_Interval
  <2>2. Cardinality(1 .. BlocksPerArena) = BlocksPerArena
    BY <1>0, FS_Interval
  <2>3. FreeOf(f, a) \in SUBSET (1 .. BlocksPerArena)
    BY DEF FreeOf
  <2>4. Cardinality(FreeOf(f, a)) = BlocksPerArena
    BY <1>1 DEF CountsOK
  <2> QED
    BY <2>1, <2>2, <2>3, <2>4, FS_Subset
<1>8. \A x \in b : x[1] # a
  <2> SUFFICES ASSUME NEW x \in b, x[1] = a PROVE FALSE
    OBVIOUS
  <2>1. PICK i \in 1 .. BlocksPerArena : x = <<a, i>>
    BY <1>1, <1>2 DEF HeldOK
  <2>2. <<a, i>> \in b => i \notin FreeOf(f, a)
    BY <1>1 DEF CountsOK
  <2> QED
    BY <1>7, <2>1, <2>2
<1>9. f \in Seq(Nat \X Nat) /\ Distinct(f)
      /\ \A y \in ToSet(f) : y[1] \in Own(s, h) /\ y[2] \in 1 .. BlocksPerArena
  BY <1>1, ListSet
<1>10. t \in Seq(Nat \X Nat) /\ Distinct(t) /\ ToSet(t) = {x \in ToSet(f) : x[1] # a}
  BY <1>9, OutOfFacts
<1> HIDE DEF t
<1>11. HeldOK(s, g, b)
  BY <1>1, <1>5, <1>6, <1>8 DEF HeldOK
<1>12. ListOK(s, g, t)
  BY <1>6, <1>9, <1>10, ListSet
<1>13. CountsOK(s, g, t, b)
  <2>1. \A y \in Own(s, g) : FreeOf(t, y) = FreeOf(f, y)
    BY <1>6, <1>10 DEF FreeOf
  <2>2. \A y \in Own(s, g) : y \in Own(s, h) /\ y \in DOMAIN h /\ g[y] = h[y]
    BY <1>5, <1>6 DEF Own
  <2> QED
    BY <1>1, <2>1, <2>2 DEF CountsOK
<1>14. a \in u
  BY <1>1, <1>2, FirstPage
<1> QED
  BY <1>4, <1>6, <1>11, <1>12, <1>13, <1>14 DEF HeapOK, t

(* sys_free of a large block.                                               *)
LEMMA DropLarge ==
  ASSUME NEW s \in Spaces, NEW h, NEW f, NEW b, NEW u, HeapOK(s, h, f, b, u),
         NEW x \in b, NEW a, a = x[1], h[a].large, NEW g, g = Without(h, {a}),
         NEW R, R = Run(a, h[a].cnt), NEW c, c = b \ {x}, NEW v, v = u \ R
  PROVE  HeapOK(s, g, f, c, v) /\ HeapOf(g) = HeapOf(h) \ R /\ R \subseteq HeapOf(h) /\ R \subseteq u
<1>1. ArenasOK(s, h, b, u) /\ HeldOK(s, h, b) /\ ListOK(s, h, f) /\ CountsOK(s, h, f, b)
  BY DEF HeapOK
<1>2. x = <<a, 0>> /\ a \in DOMAIN h /\ h[a].large
  BY <1>1 DEF HeldOK
<1>3. PagesOf(h, a) = R
  BY <1>2 DEF PagesOf, Extent
<1>4. h[a].desc = Null
  BY <1>1, <1>2 DEF ArenasOK, HeaderOK
<1>6. ArenasOK(s, g, c, v) /\ Dropped(s, h, g, a) /\ R \subseteq HeapOf(h)
  <2>1. \A y : y # a /\ <<y, 0>> \in b => <<y, 0>> \in c
    BY <1>2
  <2>2. ArenasOK(s, g, c, u \ PagesOf(h, a)) /\ Dropped(s, h, g, a) /\ PagesOf(h, a) \subseteq HeapOf(h)
    BY <1>1, <1>2, <2>1, DropHeader
  <2> QED
    BY <1>3, <2>2
<1>7. DOMAIN g = DOMAIN h \ {a} /\ \A y \in DOMAIN h : y # a => g[y] = h[y]
  BY <1>6 DEF Dropped
<1>8. a \notin Own(s, h)
  BY <1>4, SpacesAssumption DEF Own
<1>9. Own(s, g) = Own(s, h) /\ HeapOf(g) = HeapOf(h) \ R
  BY <1>3, <1>6, <1>8 DEF Dropped
<1>10. HeldOK(s, g, c)
  <2>1. ASSUME NEW y \in c
        PROVE  /\ y = <<y[1], y[2]>> /\ y[1] \in DOMAIN g
               /\ IF g[y[1]].large THEN y[2] = 0
                                   ELSE y[1] \in Own(s, g) /\ y[2] \in 1 .. BlocksPerArena
    <3>1. /\ y = <<y[1], y[2]>> /\ y[1] \in DOMAIN h
          /\ IF h[y[1]].large THEN y[2] = 0
                              ELSE y[1] \in Own(s, h) /\ y[2] \in 1 .. BlocksPerArena
      BY <1>1 DEF HeldOK
    <3>2. y[1] # a
      BY <1>2, <3>1
    <3> QED
      BY <1>7, <1>9, <3>1, <3>2
  <2> QED
    BY <2>1 DEF HeldOK
<1>11. ListOK(s, g, f)
  BY <1>1, <1>9 DEF ListOK
<1>12. CountsOK(s, g, f, c)
  <2>1. \A y \in Own(s, g) : y \in Own(s, h) /\ y # a /\ g[y] = h[y]
    BY <1>7, <1>8, <1>9 DEF Own
  <2>2. \A y \in Own(s, g), i \in 1 .. BlocksPerArena : <<y, i>> \in c <=> <<y, i>> \in b
    BY <1>2, <2>1
  <2> QED
    BY <1>1, <2>1, <2>2 DEF CountsOK
<1>13. R \subseteq u
  BY <1>1, <1>2, <1>3 DEF ArenasOK
<1> QED
  BY <1>6, <1>9, <1>10, <1>11, <1>12, <1>13 DEF HeapOK

(* The child of sys_fork: large blocks in use are copied, the small arenas  *)
(* are no longer of its descriptors.                                        *)
LEMMA HeapFork ==
  ASSUME NEW p, NEW c \in Spaces, NEW h, NEW b, NEW u, ArenasOK(p, h, b, u), HeldOK(p, h, b)
  PROVE  HeapOK(c, Inherited(h), <<>>, {x \in b : h[x[1]].large}, u)
<1> DEFINE g == Inherited(h)
           d == {x \in b : h[x[1]].large}
<1>1. ArenasOK(p, h, b, u) /\ HeldOK(p, h, b)
  OBVIOUS
<1>2. DOMAIN g = DOMAIN h /\ \A a \in DOMAIN h : g[a] = [h[a] EXCEPT !.desc = Null]
  BY DEF Inherited
<1>3. ASSUME NEW a \in DOMAIN h
      PROVE  /\ g[a].desc = Null /\ g[a].cnt = h[a].cnt /\ g[a].large = h[a].large
             /\ g[a] = [desc |-> g[a].desc, cnt |-> g[a].cnt, large |-> g[a].large]
  <2>1. PICK e, k, l : h[a] = [desc |-> e, cnt |-> k, large |-> l]
    BY <1>1 DEF ArenasOK, HeaderOK
  <2>2. g[a] = [desc |-> Null, cnt |-> k, large |-> l]
    BY <1>2, <2>1
  <2> HIDE DEF g
  <2> QED
    BY <2>1, <2>2
<1>4. \A y : y \in d <=> y \in b /\ h[y[1]].large
  OBVIOUS
<1> HIDE DEF g, d
<1>5. ASSUME NEW a \in DOMAIN g PROVE HeaderOK(c, a, g[a], d) /\ PagesOf(g, a) = PagesOf(h, a)
  <2>1. HeaderOK(p, a, h[a], b) /\ a \in DOMAIN h
    BY <1>1, <1>2 DEF ArenasOK
  <2>2. <<a, 0>>[1] = a
    OBVIOUS
  <2>3. g[a].large /\ <<a, 0>> \in b => <<a, 0>> \in d
    BY <1>3, <1>4, <2>1, <2>2
  <2>4. HeaderOK(c, a, g[a], d)
    BY <1>3, <2>1, <2>3 DEF HeaderOK
  <2> QED
    BY <1>3, <2>1, <2>4 DEF PagesOf, Extent
<1>6. ArenasOK(c, g, d, u)
  BY <1>1, <1>2, <1>5 DEF ArenasOK
<1>7. Own(c, g) = {}
  BY <1>2, <1>3, SpacesAssumption DEF Own
<1>8. HeldOK(c, g, d)
  BY <1>1, <1>2, <1>3, <1>4 DEF HeldOK
<1>9. ListOK(c, g, <<>>) /\ CountsOK(c, g, <<>>, d)
  <2>1. Len(<<>>) = 0 /\ <<>> \in Seq(Nat \X Nat)
    OBVIOUS
  <2> QED
    BY <1>7, <2>1 DEF ListOK, CountsOK
<1> QED
  BY <1>6, <1>8, <1>9 DEF HeapOK, g, d

(* segment_load: the headers of the pages S are gone, with their blocks.    *)
LEMMA HeapLoad ==
  ASSUME NEW s, NEW h, NEW f, NEW b, NEW u, ArenasOK(s, h, b, u), HeldOK(s, h, b),
         NEW S, NEW v, u \subseteq v, NEW c, c = {x \in b : x[1] \notin S}, NEW g, g = Without(h, S)
  PROVE  /\ ArenasOK(s, g, c, v) /\ HeldOK(s, g, c)
         /\ (/\ HeapOK(s, h, f, b, u)
             /\ \A a \in DOMAIN h : a \in S => a \notin Own(s, h) /\ \A x \in b : x[1] # a)
              => HeapOK(s, g, f, c, v)
<1>1. /\ \A a : a \in DOMAIN g <=> a \in DOMAIN h /\ a \notin S
      /\ \A a \in DOMAIN g : g[a] = h[a]
  BY DEF Without
<1>2. \A a \in DOMAIN g : PagesOf(g, a) = PagesOf(h, a)
  BY <1>1 DEF PagesOf
<1>3. ArenasOK(s, g, c, v)
  <2>1. ASSUME NEW a \in DOMAIN g PROVE HeaderOK(s, a, g[a], c)
    <3>1. HeaderOK(s, a, h[a], b) /\ g[a] = h[a] /\ a \notin S
      BY <1>1 DEF ArenasOK
    <3>2. <<a, 0>>[1] = a
      OBVIOUS
    <3>3. <<a, 0>> \in b => <<a, 0>> \in c
      BY <3>1, <3>2
    <3> QED
      BY <3>1, <3>3 DEF HeaderOK
  <2>2. \A a \in DOMAIN g : PagesOf(g, a) \subseteq v
    BY <1>1, <1>2 DEF ArenasOK
  <2>3. \A a, d \in DOMAIN g : a # d => PagesOf(g, a) \intersect PagesOf(g, d) = {}
    BY <1>1, <1>2 DEF ArenasOK
  <2> QED
    BY <2>1, <2>2, <2>3 DEF ArenasOK
<1>4. HeldOK(s, g, c)
  BY <1>1 DEF HeldOK, Own
<1>5. ASSUME HeapOK(s, h, f, b, u),
             \A a \in DOMAIN h : a \in S => a \notin Own(s, h) /\ \A x \in b : x[1] # a
      PROVE  HeapOK(s, g, f, c, v)
  <2>1. Own(s, g) = Own(s, h)
    BY <1>1, <1>5 DEF Own
  <2>2. c = b
    BY <1>5 DEF HeldOK
  <2>3. ListOK(s, g, f)
    BY <1>5, <2>1 DEF HeapOK, ListOK
  <2>4. CountsOK(s, g, f, c)
    <3>1. \A a \in Own(s, g) : g[a] = h[a]
      BY <1>1 DEF Own
    <3> QED
      BY <1>5, <2>1, <2>2, <3>1 DEF HeapOK, CountsOK
  <2> QED
    BY <1>3, <1>4, <2>3, <2>4 DEF HeapOK
<1> QED
  BY <1>3, <1>4, <1>5

-----------------------------------------------------------------------------
(* The steps of the system                                                  *)

(* A step that changes the heap and the bitmap of one space only.           *)
LEMMA SpaceStep ==
  ASSUME MemInv, NEW s \in Spaces, NEW h, NEW f, NEW b, NEW U,
         MemOK(mem'), Changed(mem, mem', s, U),
         arena' = [arena EXCEPT ![s] = h], free' = [free EXCEPT ![s] = f],
         held' = [held EXCEPT ![s] = b], UNCHANGED <<task, lost>>,
         over' \subseteq Procs, over \subseteq over', over' \subseteq over \union {s},
         SpaceOK(s, h, f, b, U, over'),
         s = Kernel => OwnersOK(task, HeapOf(h), lost, U),
         s \in Procs /\ ~Live(s) => U = {}
  PROVE  MemInv'
<1>1. \A t \in Spaces : /\ arena'[t] = IF t = s THEN h ELSE arena[t]
                        /\ free'[t] = IF t = s THEN f ELSE free[t]
                        /\ held'[t] = IF t = s THEN b ELSE held[t]
                        /\ mem'.used[t] = IF t = s THEN U ELSE mem.used[t]
  BY DEF MemInv, IsState, Changed
<1>2. IsState'
  BY DEF MemInv, IsState
<1>3. HeapsOK'
  <2>1. ASSUME NEW t \in Spaces, t # s
        PROVE  SpaceOK(t, arena'[t], free'[t], held'[t], mem'.used[t], over')
    <3>1. SpaceOK(t, arena[t], free[t], held[t], mem.used[t], over)
      BY DEF MemInv, HeapsOK
    <3>2. SpaceOK(t, arena[t], free[t], held[t], mem.used[t], over')
      BY <3>1 DEF SpaceOK
    <3> QED
      BY <1>1, <2>1, <3>2
  <2>2. SpaceOK(s, arena'[s], free'[s], held'[s], mem'.used[s], over')
    BY <1>1
  <2> QED
    BY <2>1, <2>2 DEF HeapsOK
<1>4. KernelOK'
  <2>1. Kernel \in Spaces
    BY Sizes
  <2>2. CASE s = Kernel
    BY <1>1, <2>1, <2>2 DEF KernelOK
  <2>3. CASE s # Kernel
    BY <1>1, <2>1, <2>3 DEF MemInv, KernelOK
  <2> QED
    BY <2>2, <2>3
<1>5. DeadEmpty'
  BY <1>1, Sizes DEF MemInv, DeadEmpty, Live
<1> QED
  BY <1>2, <1>3, <1>4, <1>5 DEF MemInv

(* The same of a step of sys_malloc or sys_free.                            *)
LEMMA HeapStep ==
  ASSUME MemInv, NEW s \in Spaces, NEW h, NEW f, NEW b, NEW U,
         MemOK(mem'), Changed(mem, mem', s, U),
         arena' = [arena EXCEPT ![s] = h], free' = [free EXCEPT ![s] = f],
         held' = [held EXCEPT ![s] = b], UNCHANGED <<task, lost, over>>,
         HeapOK(s, h, f, b, U),
         s = Kernel => OwnersOK(task, HeapOf(h), lost, U),
         s \in Procs /\ ~Live(s) => U = {}
  PROVE  MemInv'
<1>1. SpaceOK(s, h, f, b, U, over')
  BY DEF SpaceOK, HeapOK
<1>2. over' \subseteq Procs /\ over \subseteq over' /\ over' \subseteq over \union {s}
  BY DEF MemInv, IsState
<1> QED
  BY <1>1, <1>2, SpaceStep

(* sys_malloc of more than 1024 bytes.                                      *)
LEMMA MallocLargeInv ==
  ASSUME MemInv, NEW s \in Spaces, NEW n \in {2}, MallocLarge(s, n)
  PROVE  MemInv'
<1> DEFINE a == Vaddr(mem, s, n)
           R == Run(a, n)
           h == Merge(arena[s], Header(a, LargeHeader(n)))
           b == held[s] \union {<<a, 0>>}
           U == mem.used[s] \union R
<1>0. s \notin over
  BY DEF MallocLarge, MayMalloc
<1>1. MemOK(mem) /\ IsState /\ HeapOK(s, arena[s], free[s], held[s], mem.used[s])
  BY <1>0 DEF MemInv, HeapsOK, SpaceOK
<1>2. n \in Nat \ {0} /\ n \in 1 .. BlocksPerArena + UPages
  BY Sizes
<1>3. CanMalloc(mem, s, n) /\ mem' = malloc_page(mem, s, n) /\ MayMalloc(s)
  BY DEF MallocLarge
<1>4. MemOK(mem') /\ a \in Nat /\ R \intersect mem.used[s] = {} /\ Changed(mem, mem', s, U)
  BY <1>1, <1>2, <1>3, MallocKeeps
<1>5. arena' = [arena EXCEPT ![s] = h] /\ held' = [held EXCEPT ![s] = b] /\ UNCHANGED <<task, free, lost, over>>
  BY DEF MallocLarge, Header, LargeHeader
<1>6. free' = [free EXCEPT ![s] = free[s]]
  BY <1>1, <1>5 DEF IsState
<1>7. HeapOK(s, h, free[s], b, U) /\ HeapOf(h) = HeapOf(arena[s]) \union R
  <2> DEFINE o == arena[s]  f == free[s]  d == held[s]  u == mem.used[s]
  <2>1. a \in Nat /\ Run(a, n) \intersect u = {} /\ HeapOK(s, o, f, d, u)
    BY <1>1, <1>4
  <2> HIDE DEF a, o, f, d, u
  <2>2. h = Merge(o, Header(a, LargeHeader(n))) /\ b = d \union {<<a, 0>>} /\ U = u \union Run(a, n)
    BY DEF o, d, u
  <2> HIDE DEF h, b, U
  <2>3. HeapOK(s, h, f, b, U) /\ HeapOf(h) = HeapOf(o) \union Run(a, n)
    BY <1>2, <2>1, <2>2, HeapLarge
  <2> QED
    BY <2>3 DEF o, f, d, u
<1> HIDE DEF h, b, U, R, a
<1>8. s = Kernel => OwnersOK(task, HeapOf(h), lost, U)
  <2> SUFFICES ASSUME s = Kernel PROVE OwnersOK(task, HeapOf(arena[s]) \union R, lost, U)
    BY <1>7
  <2>1. OwnersOK(task, HeapOf(arena[s]), lost, mem.used[s])
    BY DEF MemInv, KernelOK
  <2> QED
    BY <1>4, <2>1, OwnersGrow DEF U
<1>9. ~(s \in Procs /\ ~Live(s))
  BY <1>3, SpacesAssumption DEF MayMalloc
<1> QED
  BY <1>4, <1>5, <1>6, <1>7, <1>8, <1>9, HeapStep

(* sys_free of such a block.                                                *)
LEMMA FreeLargeInv ==
  ASSUME MemInv, NEW s \in Spaces, NEW b \in held[s], FreeLarge(s, b)
  PROVE  MemInv'
<1> DEFINE a == b[1]
           R == Run(a, arena[s][a].cnt)
           h == Without(arena[s], {a})
           c == held[s] \ {b}
           U == mem.used[s] \ R
<1>0. s \notin over
  BY DEF FreeLarge
<1>1. MemOK(mem) /\ IsState /\ HeapOK(s, arena[s], free[s], held[s], mem.used[s])
  BY <1>0 DEF MemInv, HeapsOK, SpaceOK
<1>2. arena[s][b[1]].large /\ mem' = mfree_page(mem, s, a, arena[s][a].cnt)
  BY DEF FreeLarge
<1>3. arena' = [arena EXCEPT ![s] = h] /\ held' = [held EXCEPT ![s] = c] /\ UNCHANGED <<task, free, lost, over>>
  BY DEF FreeLarge
<1>4. free' = [free EXCEPT ![s] = free[s]]
  BY <1>1, <1>3 DEF IsState
<1>5. /\ HeapOK(s, h, free[s], c, U) /\ HeapOf(h) = HeapOf(arena[s]) \ R
      /\ R \subseteq HeapOf(arena[s]) /\ R \subseteq mem.used[s]
  <2> DEFINE o == arena[s]  f == free[s]  d == held[s]  u == mem.used[s]
  <2>1. /\ HeapOK(s, o, f, d, u) /\ b \in d /\ o[a].large /\ h = Without(o, {a})
        /\ c = d \ {b} /\ R = Run(a, o[a].cnt) /\ U = u \ R
    BY <1>1, <1>2
  <2>2. a = b[1]
    OBVIOUS
  <2> HIDE DEF o, f, d, u, h, c, R, U, a
  <2>3. HeapOK(s, h, f, c, U) /\ HeapOf(h) = HeapOf(o) \ R /\ R \subseteq HeapOf(o) /\ R \subseteq u
    BY <2>1, <2>2, DropLarge
  <2> QED
    BY <2>3 DEF o, f, d, u
<1>6. MemOK(mem') /\ Changed(mem, mem', s, U)
  BY <1>1, <1>2, <1>5, MfreeKeeps
<1> HIDE DEF h, c, U, R, a
<1>7. s = Kernel => OwnersOK(task, HeapOf(h), lost, U)
  <2> SUFFICES ASSUME s = Kernel PROVE OwnersOK(task, HeapOf(arena[s]) \ R, lost, U)
    BY <1>5
  <2>1. OwnersOK(task, HeapOf(arena[s]), lost, mem.used[s])
    BY DEF MemInv, KernelOK
  <2> QED
    BY <1>5, <2>1, OwnersShrink DEF U
<1>8. s \in Procs /\ ~Live(s) => U = {}
  BY DEF MemInv, DeadEmpty, U
<1> QED
  BY <1>3, <1>4, <1>5, <1>6, <1>7, <1>8, HeapStep

(* sys_malloc of a small block, from the list or from a new arena.          *)
LEMMA MallocSmallInv ==
  ASSUME MemInv, NEW s \in Spaces, MallocSmall(s)
  PROVE  MemInv'
<1>0. s \notin over
  BY DEF MallocSmall, MayMalloc
<1>1. MemOK(mem) /\ IsState /\ HeapOK(s, arena[s], free[s], held[s], mem.used[s])
  BY <1>0 DEF MemInv, HeapsOK, SpaceOK
<1>2. ~(s \in Procs /\ ~Live(s))
  BY SpacesAssumption DEF MallocSmall, MayMalloc
<1>3. s = Kernel => OwnersOK(task, HeapOf(arena[s]), lost, mem.used[s])
  BY DEF MemInv, KernelOK
<1>4. CASE free[s] # <<>>
  <2> DEFINE x == Head(free[s])
             h == Recounted(arena[s], x[1], arena[s][x[1]].cnt - 1)
             f == Tail(free[s])
             b == held[s] \union {x}
  <2>1. /\ mem' = mem /\ free' = [free EXCEPT ![s] = f] /\ held' = [held EXCEPT ![s] = b]
        /\ arena' = [arena EXCEPT ![s] = [arena[s] EXCEPT ![x[1]].cnt = @ - 1]]
        /\ UNCHANGED <<task, lost, over>>
    BY <1>4 DEF MallocSmall
  <2>2. HeapOK(s, h, f, b, mem.used[s]) /\ HeapOf(h) = HeapOf(arena[s]) /\ x[1] \in DOMAIN arena[s]
    BY <1>1, <1>4, TakeBlock
  <2>3. arena' = [arena EXCEPT ![s] = h]
    BY <2>1 DEF Recounted
  <2> HIDE DEF h, f, b, x
  <2>4. Changed(mem, mem', s, mem.used[s]) /\ MemOK(mem')
    BY <1>1, <2>1 DEF Changed
  <2>5. s = Kernel => OwnersOK(task, HeapOf(h), lost, mem.used[s])
    BY <1>3, <2>2
  <2> QED
    BY <1>2, <2>1, <2>2, <2>3, <2>4, <2>5, HeapStep
<1>5. CASE free[s] = <<>>
  <2> DEFINE a == Vaddr(mem, s, 1)
             g == Merge(arena[s], Header(a, SmallHeader(s, BlocksPerArena)))
             l == Blocks(a)
             x == Head(l)
             h == Recounted(g, x[1], g[x[1]].cnt - 1)
             f == Tail(l)
             b == held[s] \union {x}
             U == mem.used[s] \union {a}
  <2>1. CanMalloc(mem, s, 1) /\ mem' = malloc_page(mem, s, 1)
    BY <1>5 DEF MallocSmall
  <2>2. MemOK(mem') /\ a \in Nat /\ a \notin mem.used[s] /\ Changed(mem, mem', s, U)
    <3>1. /\ MemOK(mem') /\ a \in Nat /\ Run(a, 1) \intersect mem.used[s] = {}
          /\ Changed(mem, mem', s, mem.used[s] \union Run(a, 1))
      BY <1>1, <2>1, MallocKeeps
    <3>2. Run(a, 1) = {a}
      BY <3>1 DEF Run
    <3> QED
      BY <3>1, <3>2
  <2>3. HeapOK(s, g, l, held[s], U) /\ HeapOf(g) = HeapOf(arena[s]) \union {a}
    <3> DEFINE o == arena[s]  d == held[s]  u == mem.used[s]
    <3>1. /\ HeapOK(s, o, <<>>, d, u) /\ a \in Nat /\ a \notin u /\ U = u \union {a}
          /\ g = Merge(o, Header(a, SmallHeader(s, BlocksPerArena)))
      BY <1>1, <1>5, <2>2
    <3> HIDE DEF a, o, d, u, g, U
    <3>2. HeapOK(s, g, Blocks(a), d, U) /\ HeapOf(g) = HeapOf(o) \union {a}
      BY <3>1, HeapSmall
    <3> QED
      BY <3>2 DEF o, d, u
  <2>4. /\ free' = [free EXCEPT ![s] = f] /\ held' = [held EXCEPT ![s] = b]
        /\ arena' = [arena EXCEPT ![s] = [g EXCEPT ![x[1]].cnt = @ - 1]]
        /\ UNCHANGED <<task, lost, over>>
    BY <1>5 DEF MallocSmall, Header, SmallHeader
  <2>5. l # <<>>
    <3>1. Len(l) # 0
      BY <2>2, BlocksFacts, Sizes
    <3> QED
      BY <3>1
  <2> HIDE DEF g, l
  <2>6. HeapOK(s, h, f, b, U) /\ HeapOf(h) = HeapOf(g)
    BY <2>3, <2>5, TakeBlock
  <2>7. arena' = [arena EXCEPT ![s] = h]
    BY <2>4 DEF Recounted
  <2> HIDE DEF h, f, b, x, U, a
  <2>8. s = Kernel => OwnersOK(task, HeapOf(h), lost, U)
    <3> SUFFICES ASSUME s = Kernel PROVE OwnersOK(task, HeapOf(arena[s]) \union {a}, lost, U)
      BY <2>3, <2>6
    <3>1. {a} \intersect mem.used[s] = {}
      BY <2>2
    <3> QED
      BY <1>3, <3>1, OwnersGrow DEF U
  <2> QED
    BY <1>2, <2>2, <2>4, <2>6, <2>7, <2>8, HeapStep
<1> QED
  BY <1>4, <1>5

(* sys_free of a small block; the arena goes back when it is all free.      *)
LEMMA FreeSmallInv ==
  ASSUME MemInv, NEW s \in Spaces, NEW b \in held[s], FreeSmall(s, b)
  PROVE  MemInv'
<1> DEFINE a == b[1]
           n == arena[s][a].cnt + 1
           g == Recounted(arena[s], a, n)
           l == Append(free[s], b)
           c == held[s] \ {b}
<1>0. s \notin over
  BY DEF FreeSmall
<1>1. MemOK(mem) /\ IsState /\ HeapOK(s, arena[s], free[s], held[s], mem.used[s])
  BY <1>0 DEF MemInv, HeapsOK, SpaceOK
<1>2. s = Kernel => OwnersOK(task, HeapOf(arena[s]), lost, mem.used[s])
  BY DEF MemInv, KernelOK
<1>3. ~arena[s][b[1]].large
  BY DEF FreeSmall
<1>4. /\ HeapOK(s, g, l, c, mem.used[s]) /\ HeapOf(g) = HeapOf(arena[s])
      /\ a \in DOMAIN arena[s] /\ a \in Own(s, g) /\ g[a].cnt = n /\ n \in 1 .. BlocksPerArena
  BY <1>1, <1>3, PutBlock
<1>5. s \in Procs /\ ~Live(s) => mem.used[s] = {}
  BY DEF MemInv, DeadEmpty
<1>6. held' = [held EXCEPT ![s] = c] /\ UNCHANGED <<task, lost, over>>
  BY DEF FreeSmall
<1>7. CASE n < BlocksPerArena
  <2>1. /\ arena' = [arena EXCEPT ![s][a].cnt = n] /\ free' = [free EXCEPT ![s] = l] /\ mem' = mem
    BY <1>7 DEF FreeSmall
  <2>2. arena' = [arena EXCEPT ![s] = g]
    BY <2>1 DEF Recounted
  <2> HIDE DEF g, l, c, n, a
  <2>3. Changed(mem, mem', s, mem.used[s]) /\ MemOK(mem')
    BY <1>1, <2>1 DEF Changed
  <2>4. s = Kernel => OwnersOK(task, HeapOf(g), lost, mem.used[s])
    BY <1>2, <1>4
  <2> QED
    BY <1>4, <1>5, <1>6, <2>1, <2>2, <2>3, <2>4, HeapStep
<1>8. CASE ~(n < BlocksPerArena)
  <2> DEFINE h == Without(g, {a})
             f == OutOf(l, a)
             U == mem.used[s] \ {a}
  <2>1. /\ arena' = [arena EXCEPT ![s] = Without(arena[s], {a})]
        /\ free' = [free EXCEPT ![s] = f] /\ mem' = mfree_page(mem, s, a, 1)
    BY <1>8 DEF FreeSmall
  <2>2. n = BlocksPerArena
    <3> HIDE DEF n
    <3> QED
      BY <1>4, <1>8, Sizes
  <2>3. h = Without(arena[s], {a})
    <3> DEFINE o == arena[s]
    <3>1. DOMAIN g = DOMAIN o /\ \A x \in DOMAIN o : x # a => g[x] = o[x]
      BY DEF Recounted
    <3> HIDE DEF g, o
    <3>2. Without(g, {a}) = Without(o, {a})
      BY <3>1 DEF Without
    <3> QED
      BY <3>2 DEF o
  <2> HIDE DEF g, l, c, n
  <2>4. /\ HeapOK(s, h, f, c, U) /\ HeapOf(h) = HeapOf(g) \ {a} /\ a \in HeapOf(g) /\ a \in mem.used[s]
    BY <1>4, <2>2, DropArena
  <2>5. MemOK(mem') /\ Changed(mem, mem', s, U)
    <3>1. Run(a, 1) = {a}
      <4>1. a \in Nat
        BY <1>1, <2>4 DEF MemOK, IsMem
      <4> QED
        BY <4>1 DEF Run
    <3>2. MemOK(mem') /\ Changed(mem, mem', s, mem.used[s] \ Run(a, 1))
      BY <1>1, <2>1, <2>4, <3>1, MfreeKeeps
    <3> QED
      BY <3>1, <3>2
  <2>6. arena' = [arena EXCEPT ![s] = h]
    BY <2>1, <2>3
  <2> HIDE DEF h, f, U, a
  <2>7. s = Kernel => OwnersOK(task, HeapOf(h), lost, U)
    <3> SUFFICES ASSUME s = Kernel PROVE OwnersOK(task, HeapOf(arena[s]) \ {a}, lost, U)
      BY <1>4, <2>4
    <3>1. {a} \subseteq HeapOf(arena[s])
      BY <1>4, <2>4
    <3> QED
      BY <1>2, <3>1, OwnersShrink DEF U
  <2>8. s \in Procs /\ ~Live(s) => U = {}
    BY <1>5 DEF U
  <2> QED
    BY <1>6, <2>1, <2>4, <2>5, <2>6, <2>7, <2>8, HeapStep
<1> QED
  BY <1>7, <1>8

(* segment_load gets the pages that are not mapped.                         *)
LEMMA SegmentLoadInv ==
  ASSUME MemInv, NEW p \in Procs, NEW n \in 1 .. UPages - 1, segment_load(p, n)
  PROVE  MemInv'
<1> DEFINE pages == (0 .. n - 1) \ DOMAIN mem.pte[p]
           S == 0 .. n - 1
           h == Without(arena[p], S)
           b == {x \in held[p] : x[1] \notin S}
           U == mem.used[p] \union pages
<1>0. p \in Spaces /\ p # Kernel /\ Limit(p) = UPages /\ UPages \in Nat
  BY Sizes
<1>1. MemOK(mem) /\ IsState /\ SpaceOK(p, arena[p], free[p], held[p], mem.used[p], over)
  BY <1>0 DEF MemInv, HeapsOK
<1>2. /\ Live(p) /\ FramesLeft(mem, p, pages) /\ mem' = get_a_page(mem, p, pages)
      /\ arena' = [arena EXCEPT ![p] = h] /\ UNCHANGED <<task, free, lost>>
      /\ held' = [held EXCEPT ![p] = {x \in @ : x[1] \notin S}]
      /\ over' = IF Overlaid(p, n) = {} THEN over ELSE over \union {p}
  BY DEF segment_load
<1>3. pages \in SUBSET (0 .. Limit(p) - 1) /\ pages \intersect mem.used[p] = {}
  BY <1>0, <1>1 DEF MemOK
<1>4. mem' = Given(mem, p, pages)
  BY <1>2 DEF get_a_page, Given, Marked
<1> HIDE DEF pages
<1>5. MemOK(mem') /\ Changed(mem, mem', p, U)
  BY <1>0, <1>1, <1>2, <1>3, <1>4, GetPagesKeeps
<1>6. free' = [free EXCEPT ![p] = free[p]] /\ held' = [held EXCEPT ![p] = b]
  BY <1>1, <1>2 DEF IsState
<1>7. over' \subseteq Procs /\ over \subseteq over' /\ over' \subseteq over \union {p}
  BY <1>1, <1>2 DEF IsState
<1>8. p \notin over' => \A a \in DOMAIN arena[p] : a \in S =>
          a \notin Own(p, arena[p]) /\ \A x \in held[p] : x[1] # a
  <2> SUFFICES ASSUME p \notin over', NEW a \in DOMAIN arena[p], a \in S
               PROVE  arena[p][a].desc # p /\ \A x \in held[p] : x[1] # a
    BY DEF Own
  <2>1. a \notin Overlaid(p, n) /\ a < n
    BY <1>0, <1>2
  <2> QED
    BY <2>1 DEF Overlaid
<1>9. SpaceOK(p, h, free[p], b, U, over')
  <2> DEFINE o == arena[p]  f == free[p]  d == held[p]  u == mem.used[p]
  <2>1. /\ ArenasOK(p, o, d, u) /\ HeldOK(p, o, d) /\ u \subseteq U
        /\ h = Without(o, S) /\ b = {x \in d : x[1] \notin S}
    BY <1>1 DEF SpaceOK
  <2>2. p \notin over' => /\ HeapOK(p, o, f, d, u)
                          /\ \A a \in DOMAIN o : a \in S => a \notin Own(p, o) /\ \A x \in d : x[1] # a
    BY <1>1, <1>7, <1>8 DEF SpaceOK
  <2> HIDE DEF o, f, d, u, U, h, b, S
  <2>3. /\ ArenasOK(p, h, b, U) /\ HeldOK(p, h, b)
        /\ (/\ HeapOK(p, o, f, d, u)
            /\ \A a \in DOMAIN o : a \in S => a \notin Own(p, o) /\ \A x \in d : x[1] # a)
             => HeapOK(p, h, f, b, U)
    BY <2>1, HeapLoad
  <2>4. SpaceOK(p, h, f, b, U, over')
    BY <2>2, <2>3 DEF SpaceOK
  <2> QED
    BY <2>4 DEF f
<1> HIDE DEF h, b, U
<1> QED
  BY <1>0, <1>2, <1>5, <1>6, <1>7, <1>9, SpaceStep

(* A heap needs no more pages than its arenas have.                         *)
LEMMA HeapFits ==
  ASSUME NEW s, NEW h, NEW f, NEW b, NEW u, HeapOK(s, h, f, b, u), NEW v, HeapOf(h) \subseteq v
  PROVE  HeapOK(s, h, f, b, v)
<1>1. \A a \in DOMAIN h : PagesOf(h, a) \subseteq v
  BY DEF HeapOf
<1>2. ArenasOK(s, h, b, v)
  BY <1>1 DEF HeapOK, ArenasOK
<1> QED
  BY <1>2 DEF HeapOK

(* A step that leaves the heap of the kernel alone.                         *)
LEMMA ProcStep ==
  ASSUME MemInv, MemOK(mem'), IsState',
         arena'[Kernel] = arena[Kernel], free'[Kernel] = free[Kernel], held'[Kernel] = held[Kernel],
         OwnersOK(task', HeapOf(arena[Kernel]), lost', mem'.used[Kernel]),
         \A t \in Procs : SpaceOK(t, arena'[t], free'[t], held'[t], mem'.used[t], over'),
         \A t \in Procs : ~Live(t)' => mem'.used[t] = {}
  PROVE  MemInv'
<1>1. HeapOf(arena[Kernel]) \subseteq mem'.used[Kernel]
  BY DEF OwnersOK
<1>2. HeapOK(Kernel, arena[Kernel], free[Kernel], held[Kernel], mem.used[Kernel])
  BY Sizes, SpacesAssumption DEF MemInv, HeapsOK, SpaceOK, IsState
<1>3. HeapOK(Kernel, arena[Kernel], free[Kernel], held[Kernel], mem'.used[Kernel])
  BY <1>1, <1>2, HeapFits
<1>4. HeapsOK'
  <2>1. SpaceOK(Kernel, arena'[Kernel], free'[Kernel], held'[Kernel], mem'.used[Kernel], over')
    BY <1>3 DEF SpaceOK, HeapOK
  <2> QED
    BY <2>1 DEF HeapsOK, Spaces
<1>5. KernelOK'
  BY DEF KernelOK
<1>6. DeadEmpty'
  BY DEF DeadEmpty
<1> QED
  BY <1>4, <1>5, <1>6 DEF MemInv

(* One page is a run of one.                                                *)
LEMMA OnePage == ASSUME NEW v \in Nat PROVE Run(v, 1) = {v}
BY DEF Run

(* thread_exit frees the page directory and the PCB.                        *)
LEMMA ThreadExitInv ==
  ASSUME MemInv, NEW p \in Procs, thread_exit(p)
  PROVE  MemInv'
<1> DEFINE v == task[p].pgdir
           w == task[p].pcb
           m == mfree_page(mem, Kernel, v, 1)
           u == mem.used[Kernel]
<1>0. Kernel \in Spaces
  BY Sizes
<1>1. MemOK(mem) /\ IsState /\ OwnersOK(task, HeapOf(arena[Kernel]), lost, u)
  BY DEF MemInv, KernelOK
<1>2. /\ task[p] # Null /\ task[p].state = "hanging" /\ mem' = mfree_page(m, Kernel, w, 1)
      /\ task' = [task EXCEPT ![p] = Null] /\ UNCHANGED <<arena, free, held, lost, over>>
  BY DEF thread_exit
<1>3. v \in Nat /\ w \in Nat /\ v # w /\ v \in u /\ w \in u
  <2>1. task[p] \in TaskRecord /\ task[p].pcb # task[p].pgdir
    BY <1>1, <1>2 DEF OwnersOK
  <2>2. v \in PcbPages(task[p]) /\ w \in PcbPages(task[p])
    BY <1>2 DEF PcbPages
  <2> QED
    BY <1>1, <2>1, <2>2 DEF OwnersOK, TaskRecord
<1>4. Run(v, 1) = {v} /\ Run(w, 1) = {w}
  BY <1>3, OnePage
<1> HIDE DEF v, w, u
<1>5. MemOK(m) /\ Changed(mem, m, Kernel, u \ {v})
  <2>1. Run(v, 1) \subseteq mem.used[Kernel]
    BY <1>3, <1>4 DEF u
  <2>2. MemOK(m) /\ Changed(mem, m, Kernel, mem.used[Kernel] \ Run(v, 1))
    BY <1>0, <1>1, <2>1, MfreeKeeps
  <2> QED
    BY <1>4, <2>2 DEF u
<1> HIDE DEF m
<1>6. m.used[Kernel] = u \ {v} /\ \A t \in Procs : m.used[t] = mem.used[t]
  BY <1>0, <1>5, Sizes DEF Changed
<1>7. MemOK(mem') /\ Changed(m, mem', Kernel, (u \ {v}) \ {w})
  <2>1. Run(w, 1) \subseteq m.used[Kernel]
    BY <1>3, <1>4, <1>6
  <2>2. MemOK(mem') /\ Changed(m, mem', Kernel, m.used[Kernel] \ Run(w, 1))
    BY <1>0, <1>2, <1>5, <2>1, MfreeKeeps
  <2> QED
    BY <1>4, <1>6, <2>2
<1>8. mem'.used[Kernel] = u \ {w, v} /\ \A t \in Procs : mem'.used[t] = mem.used[t]
  <2>1. mem'.used[Kernel] = (u \ {v}) \ {w} /\ \A t \in Procs : mem'.used[t] = m.used[t]
    BY <1>0, <1>7, Sizes DEF Changed
  <2> QED
    BY <1>6, <2>1
<1>9. OwnersOK(task', HeapOf(arena[Kernel]), lost, u \ {w, v})
  <2>1. task = [q \in Procs |-> task[q]]
    BY <1>1 DEF IsState
  <2>2. OwnersOK([task EXCEPT ![p] = Null], HeapOf(arena[Kernel]), lost, u \ {task[p].pcb, task[p].pgdir})
    BY <1>1, <1>2, <2>1, OwnersReap
  <2> QED
    BY <1>2, <2>2 DEF v, w
<1>10. IsState'
  BY <1>1, <1>2 DEF IsState
<1>11. \A t \in Procs : SpaceOK(t, arena'[t], free'[t], held'[t], mem'.used[t], over')
  BY <1>2, <1>8, Sizes DEF MemInv, HeapsOK
<1>12. \A t \in Procs : ~Live(t)' => mem'.used[t] = {}
  <2>1. \A t \in Procs : t # p => task'[t] = task[t]
    BY <1>1, <1>2 DEF IsState
  <2>2. ~Live(p)
    BY <1>2 DEF Live
  <2> QED
    BY <1>8, <2>1, <2>2 DEF MemInv, DeadEmpty, Live
<1> QED
  BY <1>2, <1>7, <1>8, <1>9, <1>10, <1>11, <1>12, ProcStep

(* The pages of a process, its page tables and its bitmap are emptied.      *)
Emptied(m, p) ==
    [m EXCEPT !.frames = (@ \ Image(m.pte[p])) \ Image(m.pde[p]),
              !.pte[p] = <<>>, !.pde[p] = <<>>, !.used[p] = {}]

(* release_prog_resource gives back the frames of the process and no other. *)
LEMMA EmptiedKeeps ==
  ASSUME NEW m, MemOK(m), NEW p \in Procs, NEW i, i = Emptied(m, p)
  PROVE  MemOK(i) /\ Changed(m, i, p, {})
<1>0. p \in Spaces /\ p # Kernel
  BY Sizes
<1>1. IsMem(m) /\ FramesOwned(m) /\ \A t \in Spaces : m.used[t] = DOMAIN m.pte[t]
  BY DEF MemOK
<1> DEFINE A == Image(m.pte[p])
           B == Image(m.pde[p])
<1>2. i = [used |-> [m.used EXCEPT ![p] = {}], frames |-> (m.frames \ A) \ B,
           pte |-> [m.pte EXCEPT ![p] = <<>>], pde |-> [m.pde EXCEPT ![p] = <<>>]]
  <2>1. PICK u, g, t, d : m = [used |-> u, frames |-> g, pte |-> t, pde |-> d]
    BY <1>1 DEF IsMem
  <2>2. m.used = u /\ m.frames = g /\ m.pte = t /\ m.pde = d
    BY <2>1
  <2> HIDE DEF A, B
  <2>3. i = [m EXCEPT !.frames = (@ \ A) \ B, !.pte[p] = <<>>, !.pde[p] = <<>>, !.used[p] = {}]
    BY DEF Emptied, A, B
  <2> QED
    BY <2>1, <2>2, <2>3
<1> HIDE DEF A, B
<1>3. /\ i.used = [m.used EXCEPT ![p] = {}] /\ i.frames = (m.frames \ A) \ B
      /\ i.pte = [m.pte EXCEPT ![p] = <<>>] /\ i.pde = [m.pde EXCEPT ![p] = <<>>]
      /\ i = [used |-> i.used, frames |-> i.frames, pte |-> i.pte, pde |-> i.pde]
  BY <1>2
<1>4. \A t \in Spaces : /\ i.used[t] = IF t = p THEN {} ELSE m.used[t]
                        /\ i.pte[t] = IF t = p THEN <<>> ELSE m.pte[t]
  BY <1>1, <1>3 DEF IsMem
<1>5. \A q \in Procs : i.pde[q] = IF q = p THEN <<>> ELSE m.pde[q]
  BY <1>1, <1>3 DEF IsMem
<1>6. /\ \A t \in Spaces : Image(i.pte[t]) = IF t = p THEN {} ELSE Image(m.pte[t])
      /\ \A q \in Procs : Image(i.pde[q]) = IF q = p THEN {} ELSE Image(m.pde[q])
  BY <1>4, <1>5, EmptyTable
<1>7. IsMem(i)
  <2>1. i.used = [t \in Spaces |-> i.used[t]] /\ i.pte = [t \in Spaces |-> i.pte[t]]
        /\ i.pde = [q \in Procs |-> i.pde[q]]
    BY <1>1, <1>3 DEF IsMem
  <2>2. ASSUME NEW t \in Spaces
        PROVE  /\ i.used[t] \subseteq 0 .. Limit(t) - 1 /\ DOMAIN i.pte[t] \subseteq 0 .. Limit(t) - 1
               /\ Image(i.pte[t]) \subseteq Pool(t)
    BY <1>1, <1>4, <1>6, EmptyTable DEF IsMem
  <2>3. ASSUME NEW q \in Procs
        PROVE  DOMAIN i.pde[q] \subseteq 0 .. UPages /\ Image(i.pde[q]) \subseteq KFrames
    BY <1>1, <1>5, <1>6, EmptyTable DEF IsMem
  <2> QED
    BY <1>3, <2>1, <2>2, <2>3 DEF IsMem
<1>8. FramesOwned(i)
  <2>1. (\A t \in Spaces : Inj(i.pte[t])) /\ (\A q \in Procs : Inj(i.pde[q]))
    BY <1>1, <1>4, <1>5, EmptyTable DEF FramesOwned
  <2>2. \A t, u \in Spaces : t # u => Image(i.pte[t]) \intersect Image(i.pte[u]) = {}
    BY <1>1, <1>6 DEF FramesOwned
  <2>3. \A q, r \in Procs : q # r => Image(i.pde[q]) \intersect Image(i.pde[r]) = {}
    BY <1>1, <1>6 DEF FramesOwned
  <2>4. \A t \in Spaces, q \in Procs : Image(i.pte[t]) \intersect Image(i.pde[q]) = {}
    BY <1>1, <1>6 DEF FramesOwned
  <2>5. ASSUME NEW f
        PROVE  f \in i.frames <=> \/ \E t \in Spaces : f \in Image(i.pte[t])
                                  \/ \E q \in Procs : f \in Image(i.pde[q])
    <3>1. f \in m.frames <=> \/ \E t \in Spaces : f \in Image(m.pte[t])
                             \/ \E q \in Procs : f \in Image(m.pde[q])
      BY <1>1 DEF FramesOwned
    <3>2. f \in i.frames <=> f \in m.frames /\ f \notin A /\ f \notin B
      BY <1>3
    <3>3. f \in A => /\ \A t \in Spaces : t # p => f \notin Image(m.pte[t])
                     /\ \A q \in Procs : f \notin Image(m.pde[q])
      BY <1>0, <1>1 DEF FramesOwned, A
    <3>4. f \in B => /\ \A t \in Spaces : f \notin Image(m.pte[t])
                     /\ \A q \in Procs : q # p => f \notin Image(m.pde[q])
      BY <1>1 DEF FramesOwned, B
    <3>5. \A t \in Spaces : f \in Image(i.pte[t]) <=> f \in Image(m.pte[t]) /\ f \notin A /\ f \notin B
      BY <1>6, <3>3, <3>4 DEF A
    <3>6. \A q \in Procs : f \in Image(i.pde[q]) <=> f \in Image(m.pde[q]) /\ f \notin A /\ f \notin B
      BY <1>6, <3>3, <3>4 DEF B
    <3> QED
      BY <3>1, <3>2, <3>5, <3>6
  <2> QED
    BY <2>1, <2>2, <2>3, <2>4, <2>5 DEF FramesOwned
<1>9. \A t \in Spaces : i.used[t] = DOMAIN i.pte[t]
  BY <1>1, <1>4, EmptyTable
<1> QED
  BY <1>4, <1>7, <1>8, <1>9 DEF MemOK, Changed

(* sys_exit releases the address space.                                     *)
LEMMA SysExitInv ==
  ASSUME MemInv, NEW p \in Procs, sys_exit(p)
  PROVE  MemInv'
<1> DEFINE v == task[p].bits
           R == Run(v, BitmapPages)
           S == Run(v, BitmapFreed)
           m == Emptied(mem, p)
           u == mem.used[Kernel]
<1>0. Kernel \in Spaces /\ p \in Spaces /\ p # Kernel
  BY Sizes
<1>1. MemOK(mem) /\ IsState /\ OwnersOK(task, HeapOf(arena[Kernel]), lost, u)
  BY DEF MemInv, KernelOK
<1>2. /\ task[p] # Null /\ task[p].state = "live" /\ mem' = release_prog_resource(mem, p)
      /\ task' = [task EXCEPT ![p].state = "hanging"]
      /\ arena' = [arena EXCEPT ![p] = <<>>] /\ free' = [free EXCEPT ![p] = <<>>]
      /\ held' = [held EXCEPT ![p] = {}] /\ lost' = lost \union (R \ S) /\ over' = over \ {p}
  BY DEF sys_exit, Live
<1>3. mem' = mfree_page(m, Kernel, v, BitmapFreed)
  BY <1>2 DEF release_prog_resource, Emptied
<1>4. S \subseteq R /\ R \subseteq u
  <2>1. task[p] \in TaskRecord /\ v \in Nat
    BY <1>1, <1>2 DEF OwnersOK, TaskRecord
  <2>2. S \subseteq R
    BY <2>1, BitmapSizes DEF Run
  <2>3. R \subseteq PcbPages(task[p])
    BY <1>2 DEF PcbPages
  <2> HIDE DEF R, S
  <2> QED
    BY <1>1, <2>2, <2>3 DEF OwnersOK
<1>5. MemOK(m) /\ Changed(mem, m, p, {})
  BY <1>1, EmptiedKeeps
<1> HIDE DEF m, v, u
<1>6. m.used[Kernel] = u /\ m.used[p] = {} /\ \A t \in Procs : t # p => m.used[t] = mem.used[t]
  BY <1>0, <1>5, Sizes DEF Changed, u
<1>7. MemOK(mem') /\ Changed(m, mem', Kernel, u \ S)
  <2>1. Run(v, BitmapFreed) \subseteq m.used[Kernel]
    BY <1>4, <1>6
  <2>2. MemOK(mem') /\ Changed(m, mem', Kernel, m.used[Kernel] \ Run(v, BitmapFreed))
    BY <1>0, <1>3, <1>5, <2>1, MfreeKeeps
  <2> QED
    BY <1>6, <2>2
<1>8. /\ mem'.used[Kernel] = u \ S /\ mem'.used[p] = {}
      /\ \A t \in Procs : t # p => mem'.used[t] = mem.used[t]
  <2>1. mem'.used[Kernel] = u \ S /\ \A t \in Procs : mem'.used[t] = m.used[t]
    BY <1>0, <1>7, Sizes DEF Changed
  <2> QED
    BY <1>6, <2>1
<1>9. OwnersOK(task', HeapOf(arena[Kernel]), lost', u \ S)
  <2>1. task = [q \in Procs |-> task[q]] /\ R = Run(task[p].bits, BitmapPages)
    BY <1>1 DEF IsState, v
  <2> HIDE DEF R, S
  <2>2. OwnersOK([task EXCEPT ![p].state = "hanging"], HeapOf(arena[Kernel]), lost \union (R \ S), u \ S)
    BY <1>1, <1>2, <1>4, <2>1, OwnersExit
  <2> QED
    BY <1>2, <2>2
<1>10. IsState'
  BY <1>1, <1>2 DEF IsState
<1>11. \A t \in Spaces : /\ arena'[t] = IF t = p THEN <<>> ELSE arena[t]
                         /\ free'[t] = IF t = p THEN <<>> ELSE free[t]
                         /\ held'[t] = IF t = p THEN {} ELSE held[t]
  BY <1>1, <1>2 DEF IsState
<1>12. ASSUME NEW t \in Procs PROVE SpaceOK(t, arena'[t], free'[t], held'[t], mem'.used[t], over')
  <2>0. t \in Spaces
    BY Sizes
  <2>1. CASE t = p
    <3>1. HeapOK(t, arena'[t], free'[t], held'[t], mem'.used[t])
      BY <1>11, <2>0, <2>1, HeapEmpty
    <3> QED
      BY <3>1 DEF SpaceOK, HeapOK
  <2>2. CASE t # p
    <3>1. SpaceOK(t, arena[t], free[t], held[t], mem.used[t], over)
      BY <2>0 DEF MemInv, HeapsOK
    <3>2. SpaceOK(t, arena[t], free[t], held[t], mem.used[t], over')
      BY <1>2, <2>2, <3>1 DEF SpaceOK
    <3> QED
      BY <1>8, <1>11, <2>0, <2>2, <3>2
  <2> QED
    BY <2>1, <2>2
<1>13. ASSUME NEW t \in Procs, ~Live(t)' PROVE mem'.used[t] = {}
  <2>1. CASE t = p
    BY <1>8, <2>1
  <2>2. CASE t # p
    <3>1. task'[t] = task[t]
      BY <1>1, <1>2, <2>2 DEF IsState
    <3> QED
      BY <1>8, <1>13, <2>2, <3>1 DEF MemInv, DeadEmpty, Live
  <2> QED
    BY <2>1, <2>2
<1> QED
  BY <1>0, <1>7, <1>8, <1>9, <1>10, <1>11, <1>12, <1>13, ProcStep

(* malloc_page for the kernel.                                              *)
LEMMA KernelMalloc ==
  ASSUME NEW m, MemOK(m), NEW n \in Nat \ {0}, CanMalloc(m, Kernel, n),
         NEW i, i = malloc_page(m, Kernel, n), NEW v, v = Vaddr(m, Kernel, n)
  PROVE  /\ MemOK(i) /\ v \in Nat /\ Run(v, n) \intersect m.used[Kernel] = {}
         /\ i.used[Kernel] = m.used[Kernel] \union Run(v, n)
         /\ \A t \in Procs : i.used[t] = m.used[t]
<1>0. Kernel \in Spaces
  BY Sizes
<1>1. /\ MemOK(i) /\ v \in Nat /\ Run(v, n) \intersect m.used[Kernel] = {}
      /\ Changed(m, i, Kernel, m.used[Kernel] \union Run(v, n))
  BY <1>0, MallocKeeps
<1> QED
  BY <1>0, <1>1, Sizes DEF Changed

(* The memory after sys_fork: the child has the pages of the parent and, in *)
(* the kernel, pages of its own for the PCB t.                              *)
LEMMA ForkMem ==
  ASSUME MemOK(mem), NEW p \in Procs, NEW c \in Procs, mem.used[c] = {}, sys_fork(p, c)
  PROVE  \E t \in TaskRecord :
           /\ task' = [task EXCEPT ![c] = t] /\ t.state = "live" /\ t.pcb # t.pgdir
           /\ {t.pcb, t.pgdir} \intersect Run(t.bits, BitmapPages) = {}
           /\ PcbPages(t) \intersect mem.used[Kernel] = {}
           /\ MemOK(mem') /\ mem'.used[Kernel] = mem.used[Kernel] \union PcbPages(t)
           /\ \A q \in Procs : mem'.used[q] = IF q = c THEN mem.used[p] ELSE mem.used[q]
<1> DEFINE m1 == malloc_page(mem, Kernel, 1)
           m2 == malloc_page(m1, Kernel, 1)
           m3 == malloc_page(m2, Kernel, BitmapPages)
           m4 == malloc_page(m3, Kernel, 1)
           pages == mem.used[p]
           m5 == [m4 EXCEPT !.used[c] = pages]
           m6 == Install(m5, c, m5.used[c])
           w1 == Vaddr(mem, Kernel, 1)
           w2 == Vaddr(m1, Kernel, 1)
           w3 == Vaddr(m2, Kernel, BitmapPages)
           w4 == Vaddr(m3, Kernel, 1)
           R == Run(w3, BitmapPages)
           u == mem.used[Kernel]
           t == [state |-> "live", pcb |-> w1, bits |-> w3, pgdir |-> w4]
<1>0. /\ Kernel \in Spaces /\ p \in Spaces /\ c \in Spaces /\ p # Kernel /\ c # Kernel
      /\ Limit(c) = Limit(p) /\ \A q \in Procs : q \in Spaces
  BY Sizes
<1>1. /\ CanMalloc(mem, Kernel, 1) /\ CanMalloc(m1, Kernel, 1)
      /\ CanMalloc(m2, Kernel, BitmapPages) /\ CanMalloc(m3, Kernel, 1)
      /\ FramesLeft(m5, c, m5.used[c]) /\ mem' = mfree_page(m6, Kernel, w2, 1)
      /\ task' = [task EXCEPT ![c] = t]
  BY DEF sys_fork
<1>2. m5 = Marked(m4, c, pages)
  BY DEF Marked
<1>n. 1 \in Nat \ {0} /\ BitmapPages \in Nat \ {0}
  BY BitmapSizes
<1>3. /\ MemOK(m1) /\ w1 \in Nat /\ w1 \notin u /\ m1.used[Kernel] = u \union {w1}
      /\ \A q \in Procs : m1.used[q] = mem.used[q]
  <2>1. /\ MemOK(m1) /\ w1 \in Nat /\ Run(w1, 1) \intersect u = {} /\ m1.used[Kernel] = u \union Run(w1, 1)
        /\ \A q \in Procs : m1.used[q] = mem.used[q]
    BY <1>1, <1>n, KernelMalloc
  <2> QED
    BY <2>1, OnePage
<1> HIDE DEF m1, w1
<1>4. /\ MemOK(m2) /\ w2 \in Nat /\ w2 \notin m1.used[Kernel] /\ m2.used[Kernel] = m1.used[Kernel] \union {w2}
      /\ \A q \in Procs : m2.used[q] = m1.used[q]
  <2>1. /\ MemOK(m2) /\ w2 \in Nat /\ Run(w2, 1) \intersect m1.used[Kernel] = {}
        /\ m2.used[Kernel] = m1.used[Kernel] \union Run(w2, 1)
        /\ \A q \in Procs : m2.used[q] = m1.used[q]
    BY <1>1, <1>3, <1>n, KernelMalloc
  <2> QED
    BY <2>1, OnePage
<1> HIDE DEF m2, w2
<1>5. /\ MemOK(m3) /\ w3 \in Nat /\ R \intersect m2.used[Kernel] = {}
      /\ m3.used[Kernel] = m2.used[Kernel] \union R
      /\ \A q \in Procs : m3.used[q] = m2.used[q]
  BY <1>1, <1>4, <1>n, KernelMalloc
<1> HIDE DEF m3, w3, R
<1>6. /\ MemOK(m4) /\ w4 \in Nat /\ w4 \notin m3.used[Kernel] /\ m4.used[Kernel] = m3.used[Kernel] \union {w4}
      /\ \A q \in Procs : m4.used[q] = m3.used[q]
  <2>1. /\ MemOK(m4) /\ w4 \in Nat /\ Run(w4, 1) \intersect m3.used[Kernel] = {}
        /\ m4.used[Kernel] = m3.used[Kernel] \union Run(w4, 1)
        /\ \A q \in Procs : m4.used[q] = m3.used[q]
    BY <1>1, <1>5, <1>n, KernelMalloc
  <2> QED
    BY <2>1, OnePage
<1> HIDE DEF m4, w4
<1>7. m4.used[Kernel] = (((u \union {w1}) \union {w2}) \union R) \union {w4}
      /\ \A q \in Procs : m4.used[q] = mem.used[q]
  BY <1>3, <1>4, <1>5, <1>6
<1>8. MemOK(m6) /\ Changed(m4, m6, c, pages)
  <2>1. pages \in SUBSET (0 .. Limit(c) - 1) /\ m4.used[c] = {}
    BY <1>0, <1>7 DEF MemOK, IsMem
  <2>2. IsMem(m4) /\ FramesOwned(m4)
    BY <1>6 DEF MemOK
  <2> HIDE DEF pages, m5
  <2>3. /\ Changed(m4, m5, c, pages)
        /\ \A r \in Spaces : \A P : FramesLeft(m5, r, P) <=> FramesLeft(m4, r, P)
    BY <1>0, <1>2, <2>1, <2>2, UsedOnly
  <2>4. m5.used[c] = pages
    BY <1>0, <2>3 DEF Changed
  <2>5. FramesLeft(m4, c, pages)
    BY <1>0, <1>1, <2>3, <2>4
  <2>6. m4.used[c] \union pages = pages /\ pages \intersect m4.used[c] = {}
    BY <2>1
  <2>7. m6 = Given(m4, c, pages)
    BY <1>2, <2>4, <2>6 DEF Given
  <2>8. MemOK(m6) /\ Changed(m4, m6, c, m4.used[c] \union pages)
    BY <1>0, <1>6, <2>1, <2>5, <2>6, <2>7, GetPagesKeeps
  <2> QED
    BY <2>6, <2>8
<1> HIDE DEF m6, m5
<1>9. m6.used[Kernel] = m4.used[Kernel] /\ \A q \in Procs : m6.used[q] = IF q = c THEN pages ELSE m4.used[q]
  BY <1>0, <1>8 DEF Changed
<1>10. MemOK(mem') /\ Changed(m6, mem', Kernel, m6.used[Kernel] \ {w2})
  <2>1. Run(w2, 1) = {w2}
    BY <1>4, OnePage
  <2>2. Run(w2, 1) \subseteq m6.used[Kernel]
    BY <1>7, <1>9, <2>1
  <2>3. MemOK(mem') /\ Changed(m6, mem', Kernel, m6.used[Kernel] \ Run(w2, 1))
    BY <1>0, <1>1, <1>8, <2>2, MfreeKeeps
  <2> QED
    BY <2>1, <2>3
<1>11. mem'.used[Kernel] = m6.used[Kernel] \ {w2} /\ \A q \in Procs : mem'.used[q] = m6.used[q]
  BY <1>0, <1>10, Sizes DEF Changed
<1>12. t \in TaskRecord /\ t.state = "live" /\ t.pcb = w1 /\ t.bits = w3 /\ t.pgdir = w4
  BY <1>3, <1>5, <1>6 DEF TaskRecord
<1>13. t # Null
  BY <1>12, SpacesAssumption
<1> HIDE DEF t
<1>14. PcbPages(t) = {w1, w4} \union R
  BY <1>12, <1>13 DEF PcbPages, R
<1>15. /\ w1 \notin u /\ w2 \notin u /\ w2 # w1 /\ w4 \notin u /\ w4 # w1 /\ w4 # w2 /\ w4 \notin R
       /\ w1 \notin R /\ w2 \notin R /\ R \intersect u = {}
  BY <1>3, <1>4, <1>5, <1>6
<1> HIDE DEF u, pages
<1>16. mem'.used[Kernel] = u \union PcbPages(t)
  BY <1>7, <1>9, <1>11, <1>14, <1>15
<1>17. \A q \in Procs : mem'.used[q] = IF q = c THEN pages ELSE mem.used[q]
  BY <1>7, <1>9, <1>11
<1>18. {t.pcb, t.pgdir} \intersect Run(t.bits, BitmapPages) = {} /\ t.pcb # t.pgdir
  BY <1>12, <1>15 DEF R
<1>19. PcbPages(t) \intersect u = {}
  BY <1>14, <1>15
<1> QED
  BY <1>1, <1>10, <1>12, <1>16, <1>17, <1>18, <1>19 DEF u, pages

(* sys_fork copies the address space.                                       *)
LEMMA SysForkInv ==
  ASSUME MemInv, NEW p \in Procs, NEW c \in Procs, sys_fork(p, c)
  PROVE  MemInv'
<1> DEFINE h == Inherited(arena[p])
           b == {x \in held[p] : arena[p][x[1]].large}
<1>0. Kernel \in Spaces /\ p \in Spaces /\ c \in Spaces /\ p # Kernel /\ c # Kernel
  BY Sizes
<1>1. MemOK(mem) /\ IsState /\ OwnersOK(task, HeapOf(arena[Kernel]), lost, mem.used[Kernel])
  BY DEF MemInv, KernelOK
<1>2. /\ Live(p) /\ task[c] = Null /\ arena' = [arena EXCEPT ![c] = h]
      /\ held' = [held EXCEPT ![c] = b] /\ free' = [free EXCEPT ![c] = <<>>]
      /\ lost' = lost /\ over' = over
  BY DEF sys_fork
<1>3. mem.used[c] = {}
  BY <1>2 DEF MemInv, DeadEmpty, Live
<1>4. PICK t \in TaskRecord :
           /\ task' = [task EXCEPT ![c] = t] /\ t.state = "live" /\ t.pcb # t.pgdir
           /\ {t.pcb, t.pgdir} \intersect Run(t.bits, BitmapPages) = {}
           /\ PcbPages(t) \intersect mem.used[Kernel] = {}
           /\ MemOK(mem') /\ mem'.used[Kernel] = mem.used[Kernel] \union PcbPages(t)
           /\ \A q \in Procs : mem'.used[q] = IF q = c THEN mem.used[p] ELSE mem.used[q]
  BY <1>1, <1>3, ForkMem
<1>5. OwnersOK(task', HeapOf(arena[Kernel]), lost', mem'.used[Kernel])
  <2>1. task = [q \in Procs |-> task[q]]
    BY <1>1 DEF IsState
  <2>2. OwnersOK([task EXCEPT ![c] = t], HeapOf(arena[Kernel]), lost, mem.used[Kernel] \union PcbPages(t))
    BY <1>1, <1>2, <1>4, <2>1, OwnersFork
  <2> QED
    BY <1>2, <1>4, <2>2
<1>6. HeapOK(c, h, <<>>, b, mem.used[p])
  <2>1. ArenasOK(p, arena[p], held[p], mem.used[p]) /\ HeldOK(p, arena[p], held[p])
    BY <1>0 DEF MemInv, HeapsOK, SpaceOK
  <2> QED
    BY <1>0, <2>1, HeapFork
<1> HIDE DEF h, b
<1>7. \A s \in Spaces : /\ arena'[s] = IF s = c THEN h ELSE arena[s]
                        /\ free'[s] = IF s = c THEN <<>> ELSE free[s]
                        /\ held'[s] = IF s = c THEN b ELSE held[s]
  BY <1>1, <1>2 DEF IsState
<1>8. IsState'
  BY <1>1, <1>2, <1>4 DEF IsState
<1>9. ASSUME NEW q \in Procs PROVE SpaceOK(q, arena'[q], free'[q], held'[q], mem'.used[q], over')
  <2>0. q \in Spaces
    BY Sizes
  <2>1. CASE q = c
    <3>1. HeapOK(q, arena'[q], free'[q], held'[q], mem'.used[q])
      BY <1>4, <1>6, <1>7, <2>0, <2>1
    <3> QED
      BY <3>1 DEF SpaceOK, HeapOK
  <2>2. CASE q # c
    BY <1>2, <1>4, <1>7, <2>0, <2>2 DEF MemInv, HeapsOK
  <2> QED
    BY <2>1, <2>2
<1>10. ASSUME NEW q \in Procs, ~Live(q)' PROVE mem'.used[q] = {}
  <2>1. task'[c] = t /\ \A r \in Procs : r # c => task'[r] = task[r]
    BY <1>1, <1>4 DEF IsState
  <2>2. q # c
    BY <1>4, <1>10, <2>1, SpacesAssumption DEF Live
  <2> QED
    BY <1>4, <1>10, <2>1, <2>2 DEF MemInv, DeadEmpty, Live
<1> QED
  BY <1>0, <1>2, <1>4, <1>5, <1>7, <1>8, <1>9, <1>10, ProcStep

-----------------------------------------------------------------------------
(* Boot                                                                     *)

(* While the kernel builds init, it uses only its first k pages.            *)
Fresh(m, k) ==
    /\ MemOK(m) /\ m.used[Kernel] \subseteq 0 .. k - 1
    /\ \A p \in Procs : m.used[p] = {} /\ Image(m.pde[p]) = {}

(* As many frames are in use as pages.                                      *)
LEMMA FreshFrames ==
  ASSUME NEW m, NEW k \in Nat, Fresh(m, k)
  PROVE  /\ m.frames \subseteq KFrames /\ Cardinality(KFrames \ m.frames) \in Nat
         /\ KPages - k <= Cardinality(KFrames \ m.frames)
<1> DEFINE g == m.pte[Kernel]
           F == m.frames
<1>0. KPages \in Nat /\ Kernel \in Spaces /\ Pool(Kernel) = KFrames
  BY Sizes
<1>1. IsMem(m) /\ FramesOwned(m) /\ \A t \in Spaces : m.used[t] = DOMAIN m.pte[t]
  BY DEF Fresh, MemOK
<1>2. \A p \in Procs : Image(m.pte[p]) = {}
  <2>1. \A p \in Procs : DOMAIN m.pte[p] = {}
    BY <1>1, Sizes DEF Fresh
  <2> QED
    BY <2>1 DEF Image
<1>3. F = Image(g)
  <2>1. \A f : f \in F <=> \/ \E s \in Spaces : f \in Image(m.pte[s])
                           \/ \E p \in Procs : f \in Image(m.pde[p])
    BY <1>1 DEF FramesOwned
  <2>2. \A s \in Spaces : s = Kernel \/ s \in Procs
    BY DEF Spaces
  <2>3. \A f : f \in F <=> f \in Image(g)
    BY <1>0, <1>2, <2>1, <2>2 DEF Fresh
  <2> HIDE DEF F, g
  <2> QED
    BY <2>3
<1>4. F \subseteq KFrames
  BY <1>0, <1>1, <1>3 DEF IsMem
<1>5. DOMAIN g \in SUBSET (0 .. k - 1)
  BY <1>0, <1>1 DEF Fresh
<1> HIDE DEF F, g
<1>6. IsFiniteSet(0 .. k - 1) /\ Cardinality(0 .. k - 1) = k
  <2>1. IsFiniteSet(0 .. k - 1)
    BY FS_Interval
  <2>2. Cardinality(0 .. k - 1) = k
    BY FS_Interval
  <2> QED
    BY <2>1, <2>2
<1>7. IsFiniteSet(DOMAIN g) /\ Cardinality(DOMAIN g) <= k /\ Cardinality(DOMAIN g) \in Nat
  BY <1>5, <1>6, FS_Subset, FS_CardinalityType
<1>8. Cardinality(F) <= k
  <2> DEFINE G == [x \in DOMAIN g |-> g[x]]
  <2>1. G \in [DOMAIN g -> F] /\ \A f \in F : \E x \in DOMAIN g : G[x] = f
    BY <1>3 DEF Image
  <2>2. G \in Surjection(DOMAIN g, F)
    BY <2>1 DEF Surjection
  <2> HIDE DEF G
  <2>3. Cardinality(F) <= Cardinality(DOMAIN g) /\ IsFiniteSet(F)
    BY <1>7, <2>2, FS_Surjection
  <2>4. Cardinality(F) \in Nat
    BY <2>3, FS_CardinalityType
  <2> QED
    BY <1>7, <2>3, <2>4
<1>9. IsFiniteSet(KFrames) /\ Cardinality(KFrames) = KPages
  <2>1. IsFiniteSet(0 .. KPages - 1)
    BY <1>0, FS_Interval
  <2>2. Cardinality(0 .. KPages - 1) = KPages
    BY <1>0, FS_Interval
  <2> QED
    BY <2>1, <2>2 DEF KFrames
<1>10. Cardinality(KFrames \ F) = KPages - Cardinality(F) /\ IsFiniteSet(F) /\ IsFiniteSet(KFrames \ F)
  <2>1. KFrames \intersect F = F
    BY <1>4
  <2>2. IsFiniteSet(F) /\ IsFiniteSet(KFrames \ F)
    BY <1>4, <1>9, FS_Subset
  <2>3. Cardinality(KFrames \ F) = Cardinality(KFrames) - Cardinality(KFrames \intersect F)
    BY <1>9, FS_Difference
  <2> QED
    BY <1>9, <2>1, <2>2, <2>3
<1>11. Cardinality(F) \in Nat /\ Cardinality(KFrames \ F) \in Nat
  BY <1>10, FS_CardinalityType
<1> QED
  BY <1>0, <1>4, <1>8, <1>10, <1>11 DEF F

(* malloc_page for the kernel makes no page table.                          *)
LEMMA KernelTables ==
  ASSUME NEW m, IsMem(m), NEW n, NEW p \in Procs
  PROVE  malloc_page(m, Kernel, n).pde[p] = m.pde[p]
<1>1. p # Kernel
  BY Sizes
<1>2. ASSUME NEW u, NEW g, NEW t, NEW e, NEW pages, NEW j,
             j = [used |-> u, frames |-> g, pte |-> t, pde |-> e]
      PROVE  Install(j, Kernel, pages).pde[p] = e[p]
  <2> DEFINE fr == Assign(pages, Pool(Kernel) \ j.frames)
             pt == Assign(NewTables(j, Kernel, pages), KFrames \ j.frames)
             d == [q \in Procs |-> IF q = Kernel THEN Merge(e[q], pt) ELSE e[q]]
  <2>1. Install(j, Kernel, pages) =
          [j EXCEPT !.pte[Kernel] = Merge(@, fr),
                    !.pde = [q \in Procs |-> IF q = Kernel THEN Merge(@[q], pt) ELSE @[q]],
                    !.frames = @ \union Image(fr) \union Image(pt)]
    BY DEF Install
  <2> HIDE DEF fr, pt
  <2>2. j.used = u /\ j.frames = g /\ j.pte = t /\ j.pde = e
    BY <1>2
  <2>3. Install(j, Kernel, pages) =
          [used |-> j.used, frames |-> j.frames \union Image(fr) \union Image(pt),
           pte |-> [j.pte EXCEPT ![Kernel] = Merge(j.pte[Kernel], fr)],
           pde |-> [q \in Procs |-> IF q = Kernel THEN Merge(j.pde[q], pt) ELSE j.pde[q]]]
    BY <1>2, <2>1, <2>2
  <2>4. Install(j, Kernel, pages).pde = d
    BY <2>2, <2>3
  <2> QED
    BY <1>1, <2>4
<1>3. PICK u, g, t, e : m = [used |-> u, frames |-> g, pte |-> t, pde |-> e]
  BY DEF IsMem
<1> DEFINE P == Run(Vaddr(m, Kernel, n), n)
           w == [u EXCEPT ![Kernel] = @ \union P]
           j == [used |-> w, frames |-> g, pte |-> t, pde |-> e]
<1>4. malloc_page(m, Kernel, n) = Install([m EXCEPT !.used[Kernel] = @ \union P], Kernel, P)
  BY DEF malloc_page
<1> HIDE DEF P
<1>5. [m EXCEPT !.used[Kernel] = @ \union P] = j /\ m.pde = e
  BY <1>3
<1> HIDE DEF w
<1>6. Install(j, Kernel, P).pde[p] = e[p]
  BY <1>2
<1> QED
  BY <1>4, <1>5, <1>6

(* malloc_page for the kernel while there is room.                          *)
LEMMA FreshMalloc ==
  ASSUME NEW m, NEW k \in Nat, Fresh(m, k), NEW n \in Nat \ {0}, NEW l \in Nat, l = k + n, l <= KPages,
         NEW i, i = malloc_page(m, Kernel, n), NEW v, v = Vaddr(m, Kernel, n)
  PROVE  /\ Fresh(i, l) /\ v \in Nat /\ Run(v, n) \intersect m.used[Kernel] = {}
         /\ i.used[Kernel] = m.used[Kernel] \union Run(v, n)
<1> DEFINE T == FreeRuns(m.used[Kernel], n, Limit(Kernel))
<1>0. Kernel \in Spaces /\ Limit(Kernel) = KPages /\ KPages \in Nat /\ Pool(Kernel) = KFrames
  BY Sizes DEF Limit
<1>1. MemOK(m) /\ IsMem(m)
  BY DEF Fresh, MemOK
<1>2. k \in T /\ T \in SUBSET Nat
  <2>1. Run(k, n) \intersect m.used[Kernel] = {}
    BY DEF Fresh, Run
  <2> QED
    BY <1>0, <2>1 DEF FreeRuns
<1>3. v \in T /\ v <= k
  BY <1>2, MinIs DEF Vaddr, bitmap_scan
<1>4. CanMalloc(m, Kernel, n)
  <2>1. NewTables(m, Kernel, Run(v, n)) = {}
    BY DEF NewTables
  <2>2. Cardinality(Run(v, n)) = n
    <3>1. v \in Nat /\ Run(v, n) = v .. (v + n - 1)
      BY <1>2, <1>3 DEF Run
    <3>2. Cardinality(v .. (v + n - 1)) = n
      <4> DEFINE w == v + n - 1
      <4>1. w \in Int /\ v \in Int /\ ~(v > w) /\ w - v + 1 = n
        BY <3>1
      <4> HIDE DEF w
      <4>2. Cardinality(v .. w) = w - v + 1
        BY <4>1, FS_Interval
      <4> QED
        BY <4>1, <4>2 DEF w
    <3> QED
      BY <3>1, <3>2
  <2>3. n <= Cardinality(KFrames \ m.frames) /\ 0 <= Cardinality(KFrames \ m.frames)
    BY <1>0, FreshFrames
  <2>4. FramesLeft(m, Kernel, Run(v, n))
    BY <1>0, <2>1, <2>2, <2>3, FS_EmptySet DEF FramesLeft
  <2> QED
    BY <1>2, <2>4 DEF CanMalloc
<1>5. /\ MemOK(i) /\ v \in Nat /\ Run(v, n) \intersect m.used[Kernel] = {}
      /\ i.used[Kernel] = m.used[Kernel] \union Run(v, n)
      /\ \A t \in Procs : i.used[t] = m.used[t]
  BY <1>1, <1>4, KernelMalloc
<1>6. i.used[Kernel] \subseteq 0 .. l - 1
  <2>1. Run(v, n) \subseteq 0 .. l - 1
    BY <1>3, <1>5 DEF Run
  <2>2. m.used[Kernel] \subseteq 0 .. l - 1
    BY DEF Fresh
  <2> QED
    BY <1>5, <2>1, <2>2
<1>7. \A t \in Procs : i.pde[t] = m.pde[t]
  BY <1>1, KernelTables
<1> QED
  BY <1>5, <1>6, <1>7 DEF Fresh

(* init gets its stack page.                                                *)
LEMMA FreshStack ==
  ASSUME NEW m, NEW k \in Nat, Fresh(m, k), k < KPages, NEW i,
         i = Install([m EXCEPT !.used[InitProc] = {Stack}], InitProc, {Stack})
  PROVE  MemOK(i) /\ Changed(m, i, InitProc, {Stack})
<1> DEFINE pages == {Stack}
<1>0. /\ InitProc \in Procs /\ InitProc \in Spaces /\ InitProc # Kernel
      /\ Limit(InitProc) = UPages /\ UPages \in Nat \ {0} /\ Pool(InitProc) = UserFrames
      /\ KPages \in Nat /\ UFrames \in Nat \ {0}
  BY Sizes, SpacesAssumption
<1>1. MemOK(m) /\ IsMem(m) /\ m.used[InitProc] = {}
  BY <1>0 DEF Fresh, MemOK
<1>2. pages \in SUBSET (0 .. Limit(InitProc) - 1) /\ pages \intersect m.used[InitProc] = {}
      /\ m.used[InitProc] \union pages = pages
  BY <1>0, <1>1 DEF Stack
<1>3. i = Given(m, InitProc, pages)
  BY <1>2 DEF Given, Marked
<1>4. FramesLeft(m, InitProc, pages)
  <2>1. /\ m.frames \subseteq KFrames /\ Cardinality(KFrames \ m.frames) \in Nat
        /\ KPages - k <= Cardinality(KFrames \ m.frames)
    BY FreshFrames
  <2>2. UserFrames \ m.frames = UserFrames
    BY <2>1, Sizes
  <2>3. Cardinality(UserFrames) = UFrames
    <3> DEFINE w == KPages + UFrames - 1
    <3>1. w \in Int /\ KPages \in Int /\ ~(KPages > w) /\ w - KPages + 1 = UFrames
      BY <1>0
    <3> HIDE DEF w
    <3>2. Cardinality(KPages .. w) = w - KPages + 1
      BY <3>1, FS_Interval
    <3> QED
      BY <3>1, <3>2 DEF w, UserFrames
  <2>4. Cardinality(pages) = 1
    BY FS_Singleton
  <2>5. Cardinality(NewTables(m, InitProc, pages)) <= 1
    <3> DEFINE S == {Pde(Stack)}
    <3>1. NewTables(m, InitProc, pages) \in SUBSET S
      BY <1>0 DEF NewTables
    <3>2. IsFiniteSet(S) /\ Cardinality(S) = 1
      BY FS_Singleton
    <3> HIDE DEF S
    <3> QED
      BY <3>1, <3>2, FS_Subset
  <2>6. Cardinality(NewTables(m, InitProc, pages)) \in Nat
    <3>1. NewTables(m, InitProc, pages) \in SUBSET (0 .. UPages)
      BY <1>0, <1>1, <1>2, NewTablesFacts
    <3> QED
      BY <3>1, FinitePages, FS_CardinalityType DEF Bounded
  <2>7. Cardinality(NewTables(m, InitProc, pages)) <= Cardinality(KFrames \ m.frames)
    BY <1>0, <2>1, <2>5, <2>6
  <2>8. Cardinality(pages) <= Cardinality(UserFrames \ m.frames)
    BY <1>0, <2>2, <2>3, <2>4
  <2> QED
    BY <1>0, <2>7, <2>8 DEF FramesLeft
<1> HIDE DEF pages
<1>5. MemOK(i) /\ Changed(m, i, InitProc, m.used[InitProc] \union pages)
  BY <1>0, <1>1, <1>2, <1>3, <1>4, GetPagesKeeps
<1> QED
  BY <1>2, <1>5 DEF pages

(* Nothing is allocated before thread_init.                                 *)
LEMMA FreshStart ==
  ASSUME NEW m, m = [used |-> [s \in Spaces |-> {}], frames |-> {}, pte |-> [s \in Spaces |-> <<>>],
                     pde |-> [p \in Procs |-> <<>>]]
  PROVE  Fresh(m, 0) /\ m.used[Kernel] = {}
<1>0. Kernel \in Spaces /\ \A p \in Procs : p \in Spaces
  BY Sizes
<1>1. /\ m.used = [s \in Spaces |-> {}] /\ m.frames = {} /\ m.pte = [s \in Spaces |-> <<>>]
      /\ m.pde = [p \in Procs |-> <<>>]
  OBVIOUS
<1>2. /\ \A s \in Spaces : m.used[s] = {} /\ m.pte[s] = <<>>
      /\ \A p \in Procs : m.pde[p] = <<>>
  BY <1>1
<1>3. /\ \A s \in Spaces : DOMAIN m.pte[s] = {} /\ Image(m.pte[s]) = {} /\ Inj(m.pte[s])
      /\ \A p \in Procs : DOMAIN m.pde[p] = {} /\ Image(m.pde[p]) = {} /\ Inj(m.pde[p])
  BY <1>2, EmptyTable
<1>4. IsMem(m)
  <2>1. m = [used |-> m.used, frames |-> m.frames, pte |-> m.pte, pde |-> m.pde]
    BY <1>1
  <2>2. /\ m.used = [s \in Spaces |-> m.used[s]] /\ m.pte = [s \in Spaces |-> m.pte[s]]
        /\ m.pde = [p \in Procs |-> m.pde[p]]
    BY <1>1
  <2> QED
    BY <1>2, <1>3, <2>1, <2>2 DEF IsMem
<1>5. FramesOwned(m)
  BY <1>1, <1>3 DEF FramesOwned
<1> QED
  BY <1>0, <1>2, <1>3, <1>4, <1>5 DEF Fresh, MemOK

(* process_execute of init: its PCB t has pages of its own.                 *)
LEMMA BootMem ==
  \E t \in TaskRecord :
    /\ Boot.task = t /\ t.state = "live" /\ t.pcb # t.pgdir
    /\ {t.pcb, t.pgdir} \intersect Run(t.bits, BitmapPages) = {}
    /\ MemOK(Boot.mem) /\ Boot.mem.used[Kernel] = PcbPages(t)
    /\ \A q \in Procs : q # InitProc => Boot.mem.used[q] = {}
<1> DEFINE m0 == [used |-> [s \in Spaces |-> {}], frames |-> {}, pte |-> [s \in Spaces |-> <<>>],
                  pde |-> [p \in Procs |-> <<>>]]
           m1 == malloc_page(m0, Kernel, 1)
           m2 == malloc_page(m1, Kernel, BitmapPages)
           m3 == malloc_page(m2, Kernel, 1)
           w1 == Vaddr(m0, Kernel, 1)
           w2 == Vaddr(m1, Kernel, BitmapPages)
           w3 == Vaddr(m2, Kernel, 1)
           R == Run(w2, BitmapPages)
           i == Install([m3 EXCEPT !.used[InitProc] = {Stack}], InitProc, {Stack})
           t == [state |-> "live", pcb |-> w1, bits |-> w2, pgdir |-> w3]
<1>1. Boot = [mem |-> i, task |-> t]
  BY DEF Boot
<1>2. /\ KPages \in Nat /\ BitmapPages \in Nat \ {0} /\ 1 \in Nat \ {0} /\ KPages >= BitmapPages + 3
      /\ Kernel \in Spaces /\ InitProc \in Procs /\ \A q \in Procs : q \in Spaces /\ q # Kernel
  BY Sizes, BitmapSizes, BootAssumption, SpacesAssumption
<1>3. Fresh(m0, 0) /\ m0.used[Kernel] = {}
  BY FreshStart
<1> HIDE DEF m0
<1>4. Fresh(m1, 1) /\ w1 \in Nat /\ m1.used[Kernel] = {w1}
  <2>1. ASSUME NEW k \in Nat, NEW n \in Nat \ {0}, Fresh(m0, k), k + n <= KPages
        PROVE  /\ Fresh(malloc_page(m0, Kernel, n), k + n) /\ Vaddr(m0, Kernel, n) \in Nat
               /\ malloc_page(m0, Kernel, n).used[Kernel] = m0.used[Kernel] \union Run(Vaddr(m0, Kernel, n), n)
    <3>1. k + n \in Nat
      OBVIOUS
    <3> QED
      BY <2>1, <3>1, FreshMalloc
  <2>2. 0 \in Nat /\ 0 + 1 <= KPages /\ 0 + 1 = 1
    BY <1>2
  <2>3. Fresh(m1, 1) /\ w1 \in Nat /\ m1.used[Kernel] = m0.used[Kernel] \union Run(w1, 1)
    BY <1>2, <1>3, <2>1, <2>2
  <2> QED
    BY <1>3, <2>3, OnePage
<1> HIDE DEF m1, w1
<1>5. /\ Fresh(m2, BitmapPages + 1) /\ w2 \in Nat /\ R \intersect m1.used[Kernel] = {}
      /\ m2.used[Kernel] = m1.used[Kernel] \union R
  <2>1. BitmapPages + 1 <= KPages /\ 1 \in Nat /\ BitmapPages + 1 = 1 + BitmapPages /\ BitmapPages + 1 \in Nat
    BY <1>2
  <2> QED
    BY <1>2, <1>4, <2>1, FreshMalloc
<1> HIDE DEF m2, w2, R
<1>6. /\ Fresh(m3, BitmapPages + 2) /\ w3 \in Nat /\ w3 \notin m2.used[Kernel]
      /\ m3.used[Kernel] = m2.used[Kernel] \union {w3}
  <2>1. /\ BitmapPages + 2 <= KPages /\ BitmapPages + 1 \in Nat /\ BitmapPages + 2 \in Nat
        /\ BitmapPages + 2 = (BitmapPages + 1) + 1
    BY <1>2
  <2>2. /\ Fresh(m3, BitmapPages + 2) /\ w3 \in Nat /\ Run(w3, 1) \intersect m2.used[Kernel] = {}
        /\ m3.used[Kernel] = m2.used[Kernel] \union Run(w3, 1)
    BY <1>2, <1>5, <2>1, FreshMalloc
  <2> QED
    BY <2>1, <2>2, OnePage
<1> HIDE DEF m3, w3
<1>7. MemOK(i) /\ Changed(m3, i, InitProc, {Stack})
  <2>1. BitmapPages + 2 \in Nat /\ BitmapPages + 2 < KPages
    BY <1>2
  <2> QED
    BY <1>6, <2>1, FreshStack
<1> HIDE DEF i
<1>8. i.used[Kernel] = m3.used[Kernel] /\ \A q \in Procs : q # InitProc => i.used[q] = {}
  BY <1>2, <1>6, <1>7 DEF Changed, Fresh
<1>9. t \in TaskRecord /\ t.state = "live" /\ t.pcb = w1 /\ t.bits = w2 /\ t.pgdir = w3
  BY <1>4, <1>5, <1>6 DEF TaskRecord
<1>10. t # Null
  BY <1>9, SpacesAssumption
<1>11. Boot.mem = i /\ Boot.task = t
  BY <1>1
<1> HIDE DEF t
<1>12. PcbPages(t) = {w1, w3} \union R
  BY <1>9, <1>10 DEF PcbPages, R
<1>13. w1 # w3 /\ w1 \notin R /\ w3 \notin R
  BY <1>4, <1>5, <1>6
<1>14. Boot.mem.used[Kernel] = PcbPages(t)
  BY <1>4, <1>5, <1>6, <1>8, <1>11, <1>12
<1>15. t.pcb # t.pgdir /\ {t.pcb, t.pgdir} \intersect Run(t.bits, BitmapPages) = {}
  BY <1>9, <1>13 DEF R
<1> QED
  BY <1>7, <1>8, <1>9, <1>11, <1>14, <1>15

(* The invariant holds when init is ready to run.                           *)
LEMMA InitInv == Init => MemInv
<1> SUFFICES ASSUME Init PROVE MemInv
  OBVIOUS
<1>0. InitProc \in Procs /\ Kernel \in Spaces
  BY SpacesAssumption, Sizes
<1>1. PICK t \in TaskRecord :
        /\ Boot.task = t /\ t.state = "live" /\ t.pcb # t.pgdir
        /\ {t.pcb, t.pgdir} \intersect Run(t.bits, BitmapPages) = {}
        /\ MemOK(Boot.mem) /\ Boot.mem.used[Kernel] = PcbPages(t)
        /\ \A q \in Procs : q # InitProc => Boot.mem.used[q] = {}
  BY BootMem
<1>2. /\ mem = Boot.mem /\ task = [p \in Procs |-> IF p = InitProc THEN t ELSE Null]
      /\ arena = [s \in Spaces |-> <<>>] /\ free = [s \in Spaces |-> <<>>]
      /\ held = [s \in Spaces |-> {}] /\ lost = {} /\ over = {}
  BY <1>1 DEF Init
<1>3. IsState
  BY <1>2 DEF IsState
<1>4. HeapsOK
  BY <1>2, HeapEmpty DEF HeapsOK, SpaceOK, HeapOK
<1>5. KernelOK
  <2> DEFINE none == [p \in Procs |-> Null]
  <2>1. \A p \in Procs : none[p] = Null /\ PcbPages(none[p]) = {}
    BY DEF PcbPages
  <2>2. none = [p \in Procs |-> none[p]] /\ task = [none EXCEPT ![InitProc] = t]
    BY <1>2
  <2> HIDE DEF none
  <2>3. OwnersOK(none, {}, {}, {})
    BY <2>1 DEF OwnersOK
  <2>4. PcbPages(t) \intersect {} = {} /\ none[InitProc] = Null
    BY <1>0, <2>1
  <2>5. OwnersOK([none EXCEPT ![InitProc] = t], {}, {}, {} \union PcbPages(t))
    BY <1>0, <1>1, <2>2, <2>3, <2>4, OwnersFork
  <2>6. HeapOf(arena[Kernel]) = {} /\ lost = {} /\ mem.used[Kernel] = {} \union PcbPages(t)
    BY <1>0, <1>1, <1>2, HeapEmpty
  <2> QED
    BY <2>2, <2>5, <2>6 DEF KernelOK
<1>6. DeadEmpty
  <2>1. task[InitProc] = t /\ t # Null
    BY <1>0, <1>2, SpacesAssumption
  <2>2. Live(InitProc)
    BY <1>1, <2>1 DEF Live
  <2> QED
    BY <1>1, <1>2, <2>2 DEF DeadEmpty
<1> QED
  BY <1>1, <1>2, <1>3, <1>4, <1>5, <1>6 DEF MemInv

-----------------------------------------------------------------------------
(* The invariant is inductive.                                              *)
LEMMA NextInv == MemInv /\ [Next]_vars => MemInv'
<1> SUFFICES ASSUME MemInv, [Next]_vars PROVE MemInv'
  OBVIOUS
<1>1. ASSUME NEW p \in Procs, NEW c \in Procs, sys_fork(p, c) PROVE MemInv'
  BY <1>1, SysForkInv
<1>2. ASSUME NEW p \in Procs, NEW n \in 1 .. UPages - 1, segment_load(p, n) PROVE MemInv'
  BY <1>2, SegmentLoadInv
<1>3. ASSUME NEW p \in Procs, sys_exit(p) PROVE MemInv'
  BY <1>3, SysExitInv
<1>4. ASSUME NEW p \in Procs, thread_exit(p) PROVE MemInv'
  BY <1>4, ThreadExitInv
<1>5. ASSUME NEW s \in Spaces, NEW n \in {2}, MallocLarge(s, n) PROVE MemInv'
  BY <1>5, MallocLargeInv
<1>6. ASSUME NEW s \in Spaces, MallocSmall(s) PROVE MemInv'
  BY <1>6, MallocSmallInv
<1>7. ASSUME NEW s \in Spaces, NEW b \in held[s], FreeLarge(s, b) PROVE MemInv'
  BY <1>7, FreeLargeInv
<1>8. ASSUME NEW s \in Spaces, NEW b \in held[s], FreeSmall(s, b) PROVE MemInv'
  BY <1>8, FreeSmallInv
<1>9. CASE UNCHANGED vars
  BY <1>9 DEF vars, MemInv, IsState, HeapsOK, KernelOK, DeadEmpty, Live
<1> QED
  BY <1>1, <1>2, <1>3, <1>4, <1>5, <1>6, <1>7, <1>8, <1>9 DEF Next

(* In every reachable state the pools, page tables, bitmaps, heaps and the  *)
(* owners of the kernel's pages fit together.                               *)
THEOREM Consistent == Spec => []MemInv
<1>1. Init => MemInv
  BY InitInv
<1>2. MemInv /\ [Next]_vars => MemInv'
  BY NextInv
<1> QED
  BY <1>1, <1>2, PTL DEF Spec

(* Pages, frames and counts stay in their ranges.                           *)
THEOREM TypesCorrect == Spec => []TypeOK
BY Consistent, InvTypes, PTL

(* palloc and pfree: a frame is in use exactly when one entry of one page   *)
(* table or page directory refers to it.                                    *)
THEOREM FramesAreExact == Spec => []FramesExact
<1>1. MemInv => FramesExact
  BY OwnedExact DEF MemInv, MemOK
<1> QED
  BY <1>1, Consistent, PTL

(* vaddr_get never hands out a page that is mapped, and what sys_fork       *)
(* copies is mapped.                                                        *)
THEOREM BitmapsAgree == Spec => []PagesMapped
<1>1. MemInv => PagesMapped
  BY DEF MemInv, MemOK, PagesMapped
<1> QED
  BY <1>1, Consistent, PTL

(* Every page of the kernel has one owner, or is one that                   *)
(* release_prog_resource left behind.                                       *)
THEOREM KernelPagesOwned == Spec => []OwnedOrLost
BY Consistent, InvOwned, PTL

(* sys_malloc and sys_free: every block of an arena is in use or once in    *)
(* free_list, and cnt counts the free ones, in the kernel and in every      *)
(* process that has not loaded a program over its own heap.                 *)
THEOREM HeapIsExact == Spec => []HeapExact
BY Consistent, InvHeap, PTL
=============================================================================
