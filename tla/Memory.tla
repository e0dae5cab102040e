------------------------------- MODULE Memory -------------------------------
(***************************************************************************)
(* kernel/memory.c with the callers that create, copy and destroy address  *)
(* spaces (process.c, fork.c, exec.c, wait_exit.c, thread_exit).           *)
(*                                                                         *)
(* System calls run with interrupts off and of the modelled ones only      *)
(* sys_execv blocks, when it reads the file: what segment_load allocates   *)
(* before that is one step, and so is every other call.  A space is the    *)
(* kernel or a process; a page is an index of its virtual address bitmap.  *)
(* The two pools are one range of frames, the kernel's below the user's,   *)
(* as in pfree.                                                            *)
(* bitmap_scan ASSERTs that a bit is free, and fork uses what it allocates *)
(* without a test, so a process that runs out of memory stops the machine: *)
(* such a step has no successor here.                                      *)
(***************************************************************************)
EXTENDS Integers, Sequences, FiniteSets, SequencesExt, FiniteSetsExt

CONSTANTS
    Kernel, InitProc, Null,
    Procs,            \* the processes, init among them
    KPages,           \* bits of kernel_pool and of kernel_vaddr_pool (kbm_lenth * 8)
    UFrames,          \* bits of user_pool
    UPages,           \* bits of a userprog_vaddr; the last page is the stack
    PagesPerTable,    \* page table entries per page table (1024)
    PgSize,           \* bytes in a page (4096)
    BmpBytes,         \* btmp_bytes_len of a userprog_vaddr (94199)
    BlocksPerArena,   \* blocks_per_arena of the block size in use
    MaxHeld           \* bound on the allocations a space holds

Spaces == Procs \union {Kernel}
KFrames == 0 .. KPages - 1
UserFrames == KPages .. KPages + UFrames - 1
Stack == UPages - 1
Limit(s) == IF s = Kernel THEN KPages ELSE UPages
Pool(s)  == IF s = Kernel THEN KFrames ELSE UserFrames

TaskRecord == [state : {"live", "hanging"}, pcb : Nat, bits : Nat, pgdir : Nat]

ASSUME SpacesAssumption ==
    InitProc \in Procs /\ Kernel \notin Procs /\ Null \notin Spaces \union TaskRecord
ASSUME SizesAssumption ==
    \A n \in {KPages, UFrames, UPages, PagesPerTable, PgSize, BmpBytes, BlocksPerArena} :
        n \in Nat \ {0}

VARIABLES
    mem,     \* [used: vaddr bitmaps, frames: the bits set in the two pools,
             \*  pte: present page table entries, pde: page tables of a process]
    task,    \* per process Null or its PCB: [state, pcb, bits, pgdir], pages of the kernel
    arena,   \* per space: page -> [desc, cnt, large], the arena headers in its memory;
             \* desc is s for a descriptor of space s itself, Null for none or another's
    free,    \* per space: free_list of its block descriptor
    held,    \* per space: what sys_malloc returned and sys_free did not get back
    lost,    \* pages of dead processes that nothing will free
    over     \* history: the processes that loaded a program over their own heap

vars == <<mem, task, arena, free, held, lost, over>>

-----------------------------------------------------------------------------
(* bitmap.c, palloc, page_table_add, malloc_page, mfree_page                *)

Run(i, n) == i .. i + n - 1
(* Mutant: the scan runs one bit past the end of the bitmap.                *)
FreeRunsPastEnd(bits, n, limit) == {i \in 0 .. limit - n + 1 : Run(i, n) \intersect bits = {}}

(* bitmap_scan: where the lowest run of n free bits starts.                 *)
FreeRuns(bits, n, limit) == {i \in 0 .. limit - n : Run(i, n) \intersect bits = {}}
bitmap_scan(bits, n, limit) == Min(FreeRuns(bits, n, limit))

(* The k-th smallest element, and the frames palloc gives to pages in order. *)
Nth(S, k) == CHOOSE x \in S : Cardinality({y \in S : y < x}) = k
Assign(pages, S) == [p \in pages |-> Nth(S, Cardinality({r \in pages : r < p}))]
Merge(f, g) == [x \in DOMAIN f \union DOMAIN g |-> IF x \in DOMAIN g THEN g[x] ELSE f[x]]
Without(f, S) == [x \in DOMAIN f \ S |-> f[x]]
Image(f) == {f[x] : x \in DOMAIN f}

Pde(p) == p \div PagesPerTable
NewTables(m, s, pages) ==
    IF s = Kernel THEN {} ELSE {Pde(p) : p \in pages} \ DOMAIN m.pde[s]
(* palloc and page_table_add for each page; a missing page table takes a    *)
(* frame of the kernel pool.                                                *)
Install(m, s, pages) ==
    LET fr == Assign(pages, Pool(s) \ m.frames)
        pt == Assign(NewTables(m, s, pages), KFrames \ m.frames)
    IN  [m EXCEPT !.pte[s] = Merge(@, fr),
                  !.pde = [p \in Procs |-> IF p = s THEN Merge(@[p], pt) ELSE @[p]],
                  !.frames = @ \union Image(fr) \union Image(pt)]
FramesLeft(m, s, pages) ==
    /\ Cardinality(pages) <= Cardinality(Pool(s) \ m.frames)
    /\ Cardinality(NewTables(m, s, pages)) <= Cardinality(KFrames \ m.frames)

(* vaddr_get, then malloc_page.                                             *)
Vaddr(m, s, n) == bitmap_scan(m.used[s], n, Limit(s))
CanMalloc(m, s, n) ==
    /\ FreeRuns(m.used[s], n, Limit(s)) # {}
    /\ FramesLeft(m, s, Run(Vaddr(m, s, n), n))
malloc_page(m, s, n) ==
    LET pages == Run(Vaddr(m, s, n), n)
    IN  Install([m EXCEPT !.used[s] = @ \union pages], s, pages)

(* pfree and page_table_pte_remove for each page, then vaddr_remove; page   *)
(* tables stay.                                                             *)
mfree_page(m, s, v, n) ==
    [m EXCEPT !.frames  = @ \ {m.pte[s][p] : p \in Run(v, n)},
              !.pte[s]  = Without(@, Run(v, n)),
              !.used[s] = @ \ Run(v, n)]

-----------------------------------------------------------------------------
(* Processes                                                                *)

BitmapPages == (BmpBytes + PgSize - 1) \div PgSize   \* DIV_ROUND_UP
BitmapFreed == BmpBytes \div PgSize
(* The kernel pool has room for init: PCB, bitmap, page directory and table. *)
ASSUME BootAssumption == KPages >= BitmapPages + 3

Live(p) == task[p] # Null /\ task[p].state = "live"

(* process_execute of init in thread_init, and start_process, which gets    *)
(* the stack page.                                                          *)
Boot ==
    LET none == [s \in Spaces |-> {}]
        m0 == [used |-> none, frames |-> {}, pte |-> [s \in Spaces |-> <<>>],
               pde |-> [p \in Procs |-> <<>>]]
        m1 == malloc_page(m0, Kernel, 1)
        m2 == malloc_page(m1, Kernel, BitmapPages)
        m3 == malloc_page(m2, Kernel, 1)
    IN  [mem  |-> Install([m3 EXCEPT !.used[InitProc] = {Stack}], InitProc, {Stack}),
         task |-> [state |-> "live", pcb |-> Vaddr(m0, Kernel, 1),
                   bits |-> Vaddr(m1, Kernel, BitmapPages), pgdir |-> Vaddr(m2, Kernel, 1)]]

Init ==
    /\ mem   = Boot.mem
    /\ task  = [p \in Procs |-> IF p = InitProc THEN Boot.task ELSE Null]
    /\ arena = [s \in Spaces |-> <<>>]
    /\ free  = [s \in Spaces |-> <<>>]
    /\ held  = [s \in Spaces |-> {}]
    /\ lost  = {}
    /\ over  = {}

(* The arena headers fork copies into the child still name the descriptors  *)
(* of an ancestor: the child can free large blocks only.                    *)
Inherited(headers) == [a \in DOMAIN headers |-> [headers[a] EXCEPT !.desc = Null]]

(* sys_fork: PCB, buf_page, bitmap, page directory, then a frame for every  *)
(* page in the parent's bitmap; buf_page is given back.  The child's lists  *)
(* are empty.                                                               *)
sys_fork(p, c) ==
    LET m1 == malloc_page(mem, Kernel, 1)
        m2 == malloc_page(m1, Kernel, 1)
        m3 == malloc_page(m2, Kernel, BitmapPages)
        m4 == malloc_page(m3, Kernel, 1)
        m5 == [m4 EXCEPT !.used[c] = mem.used[p]]
    IN
    /\ Live(p) /\ task[c] = Null
    /\ CanMalloc(mem, Kernel, 1) /\ CanMalloc(m1, Kernel, 1)
    /\ CanMalloc(m2, Kernel, BitmapPages) /\ CanMalloc(m3, Kernel, 1)
    /\ FramesLeft(m5, c, m5.used[c])
    /\ mem' = mfree_page(Install(m5, c, m5.used[c]), Kernel, Vaddr(m1, Kernel, 1), 1)
    /\ task' = [task EXCEPT ![c] = [state |-> "live",
                    pcb   |-> Vaddr(mem, Kernel, 1),
                    bits  |-> Vaddr(m2, Kernel, BitmapPages),
                    pgdir |-> Vaddr(m3, Kernel, 1)]]
    /\ arena' = [arena EXCEPT ![c] = Inherited(arena[p])]
    /\ held'  = [held EXCEPT ![c] = {b \in held[p] : arena[p][b[1]].large}]
    /\ free'  = [free EXCEPT ![c] = <<>>]
    /\ UNCHANGED <<lost, over>>

(* Mutant: get_a_page without bitmap_set.                                   *)
GetAPageUnmarked(m, s, pages) == Install(m, s, pages)

(* get_a_page for each page of a set                                        *)
get_a_page(m, s, pages) == Install([m EXCEPT !.used[s] = @ \union pages], s, pages)

(* The arenas with a header in the first n pages that free_list or a block  *)
(* of the program still refers to.                                          *)
Overlaid(p, n) ==
    {a \in DOMAIN arena[p] : a < n /\ (arena[p][a].desc = p \/ \E b \in held[p] : b[1] = a)}

(* segment_load, called by sys_execv for each segment: of the first n pages *)
(* it gets the ones that are not mapped and loads over the others.  The     *)
(* arena headers and the blocks there are gone; free_list and the bitmap    *)
(* stay as they were, for sys_execv resets neither.                         *)
segment_load(p, n) ==
    LET pages == (0 .. n - 1) \ DOMAIN mem.pte[p] IN
    /\ Live(p) /\ p # InitProc
    /\ FramesLeft(mem, p, pages)
    /\ mem'   = get_a_page(mem, p, pages)
    /\ arena' = [arena EXCEPT ![p] = Without(@, 0 .. n - 1)]
    /\ held'  = [held EXCEPT ![p] = {b \in @ : b[1] \notin 0 .. n - 1}]
    /\ over'  = IF Overlaid(p, n) = {} THEN over ELSE over \union {p}
    /\ UNCHANGED <<task, free, lost>>

(* Mutant: the page tables are not freed.                                   *)
ReleaseTablesKept(m, p) ==
    LET m1 == [m EXCEPT !.frames = @ \ Image(m.pte[p]),
                        !.pte[p] = <<>>, !.pde[p] = <<>>, !.used[p] = {}]
    IN  mfree_page(m1, Kernel, task[p].bits, BitmapFreed)
(* Mutant: the page count of the bitmap is one too small.                   *)
ReleaseBitmapShort(m, p) ==
    LET m1 == [m EXCEPT !.frames = (@ \ Image(m.pte[p])) \ Image(m.pde[p]),
                        !.pte[p] = <<>>, !.pde[p] = <<>>, !.used[p] = {}]
    IN  mfree_page(m1, Kernel, task[p].bits, BitmapFreed - 1)

(* release_prog_resource: every frame a page table maps, the page tables,   *)
(* and the bitmap, whose page count is rounded down here.                   *)
release_prog_resource(m, p) ==
    LET m1 == [m EXCEPT !.frames = (@ \ Image(m.pte[p])) \ Image(m.pde[p]),
                        !.pte[p] = <<>>, !.pde[p] = <<>>, !.used[p] = {}]
    IN  mfree_page(m1, Kernel, task[p].bits, BitmapFreed)

sys_exit(p) ==
    /\ Live(p) /\ p # InitProc
    /\ mem'   = release_prog_resource(mem, p)
    /\ task'  = [task EXCEPT ![p].state = "hanging"]
    /\ arena' = [arena EXCEPT ![p] = <<>>]
    /\ free'  = [free EXCEPT ![p] = <<>>]
    /\ held'  = [held EXCEPT ![p] = {}]
    /\ over'  = over \ {p}
    /\ lost'  = lost \union (Run(task[p].bits, BitmapPages) \ Run(task[p].bits, BitmapFreed))

(* thread_exit of a hanging child, called by its parent's sys_wait.         *)
thread_exit(p) ==
    /\ task[p] # Null /\ task[p].state = "hanging"
    /\ mem' = mfree_page(mfree_page(mem, Kernel, task[p].pgdir, 1), Kernel, task[p].pcb, 1)
    /\ task' = [task EXCEPT ![p] = Null]
    /\ UNCHANGED <<arena, free, held, lost, over>>

-----------------------------------------------------------------------------
(* sys_malloc and sys_free.  The kernel's heap is used by kernel threads    *)
(* and by processes that set their pgdir to NULL (inode_open).  A block is  *)
(* <<page, index>>; index 0 is the memory behind the header of a large arena. *)
(* What they do with a list that leads into a loaded program is undefined:  *)
(* it depends on the program's bytes, and the heap of such a process is     *)
(* left alone from then on (over).                                          *)

Blocks(a) == [i \in 1 .. BlocksPerArena |-> <<a, i>>]
MayMalloc(s) == /\ s \in {Kernel} \union {p \in Procs : Live(p)}
                /\ s \notin over
                /\ Cardinality(held[s]) < MaxHeld

(* size > 1024: n pages of its own.                                         *)
MallocLarge(s, n) ==
    LET a == Vaddr(mem, s, n) IN
    /\ MayMalloc(s) /\ CanMalloc(mem, s, n)
    /\ mem'   = malloc_page(mem, s, n)
    /\ arena' = [arena EXCEPT ![s] = Merge(@, [x \in {a} |-> [desc |-> Null, cnt |-> n, large |-> TRUE]])]
    /\ held'  = [held EXCEPT ![s] = @ \union {<<a, 0>>}]
    /\ UNCHANGED <<task, free, lost, over>>

(* A block of free_list, from a new arena when the list is empty.           *)
MallocSmall(s) ==
    LET new == free[s] = <<>>
        a   == Vaddr(mem, s, 1)
        hdr == IF new THEN Merge(arena[s], [x \in {a} |-> [desc |-> s, cnt |-> BlocksPerArena, large |-> FALSE]])
                      ELSE arena[s]
        lst == IF new THEN Blocks(a) ELSE free[s]
        b   == Head(lst)
    IN
    /\ MayMalloc(s) /\ (new => CanMalloc(mem, s, 1))
    /\ mem'   = IF new THEN malloc_page(mem, s, 1) ELSE mem
    /\ free'  = [free EXCEPT ![s] = Tail(lst)]
    /\ arena' = [arena EXCEPT ![s] = [hdr EXCEPT ![b[1]].cnt = @ - 1]]
    /\ held'  = [held EXCEPT ![s] = @ \union {b}]
    /\ UNCHANGED <<task, lost, over>>

FreeLarge(s, b) ==
    /\ s \notin over /\ b \in held[s] /\ arena[s][b[1]].large
    /\ mem'   = mfree_page(mem, s, b[1], arena[s][b[1]].cnt)
    /\ arena' = [arena EXCEPT ![s] = Without(@, {b[1]})]
    /\ held'  = [held EXCEPT ![s] = @ \ {b}]
    /\ UNCHANGED <<task, free, lost, over>>

(* list_remove of each block of arena a; the others keep their order.       *)
OutOf(lst, a) ==
    LET keep == {i \in DOMAIN lst : lst[i][1] # a}
        from == Assign(1 .. Cardinality(keep), keep)
    IN  [i \in DOMAIN from |-> lst[from[i]]]

(* Mutant: the blocks of an arena that is given back stay in free_list.     *)
FreeSmallListKept(s, b) ==
    LET a == b[1]  n == arena[s][a].cnt + 1 IN
    /\ s \notin over /\ b \in held[s] /\ ~arena[s][a].large
    /\ held' = [held EXCEPT ![s] = @ \ {b}]
    /\ free' = [free EXCEPT ![s] = Append(@, b)]
    /\ IF n < BlocksPerArena
       THEN arena' = [arena EXCEPT ![s][a].cnt = n] /\ UNCHANGED mem
       ELSE arena' = [arena EXCEPT ![s] = Without(@, {a})] /\ mem' = mfree_page(mem, s, a, 1)
    /\ UNCHANGED <<task, lost, over>>

(* The block goes to the end of free_list; when it was the arena's last one *)
(* in use, all of the arena's blocks leave the list and its page is freed.  *)
FreeSmall(s, b) ==
    LET a   == b[1]
        n   == arena[s][a].cnt + 1
        lst == Append(free[s], b)
    IN
    /\ s \notin over /\ b \in held[s] /\ ~arena[s][a].large
    /\ held' = [held EXCEPT ![s] = @ \ {b}]
    /\ IF n < BlocksPerArena
       THEN /\ arena' = [arena EXCEPT ![s][a].cnt = n]
            /\ free'  = [free EXCEPT ![s] = lst]
            /\ UNCHANGED mem
       ELSE /\ arena' = [arena EXCEPT ![s] = Without(@, {a})]
            /\ free'  = [free EXCEPT ![s] = OutOf(lst, a)]
            /\ mem'   = mfree_page(mem, s, a, 1)
    /\ UNCHANGED <<task, lost, over>>

Next ==
    \/ \E p, c \in Procs : sys_fork(p, c)
    \/ \E p \in Procs, n \in 1 .. UPages - 1 : segment_load(p, n)
    \/ \E p \in Procs : sys_exit(p)
    \/ \E p \in Procs : thread_exit(p)
    \/ \E s \in Spaces, n \in {2} : MallocLarge(s, n)
    \/ \E s \in Spaces : MallocSmall(s)
    \/ \E s \in Spaces : \E b \in held[s] : FreeLarge(s, b)
    \/ \E s \in Spaces : \E b \in held[s] : FreeSmall(s, b)

Spec == Init /\ [][Next]_vars

-----------------------------------------------------------------------------
TypeOK ==
    /\ mem.used \in [Spaces -> SUBSET Nat]
    /\ \A s \in Spaces : mem.used[s] \subseteq 0 .. Limit(s) - 1
    /\ mem.frames \subseteq KFrames \union UserFrames
    /\ \A s \in Spaces : Image(mem.pte[s]) \subseteq Pool(s)
    /\ \A p \in Procs : Image(mem.pde[p]) \subseteq KFrames
    /\ \A p \in Procs : task[p] # Null => task[p].state \in {"live", "hanging"}
    /\ \A s \in Spaces : \A a \in DOMAIN arena[s] : arena[s][a].cnt \in 0 .. BlocksPerArena + UPages
    /\ over \subseteq Procs

(* palloc / pfree: a frame is in use exactly when one page table entry or   *)
(* one page directory entry of one space refers to it.  Nothing is given to *)
(* two owners, nothing mapped is handed out again, no frame is lost.        *)
Refs == {<<s, "pte", p>> : s \in Spaces, p \in 0 .. KPages + UPages} \union
        {<<s, "pde", p>> : s \in Procs, p \in 0 .. UPages}
Frame(r) ==
    IF r[2] = "pte"
    THEN IF r[3] \in DOMAIN mem.pte[r[1]] THEN mem.pte[r[1]][r[3]] ELSE -1
    ELSE IF r[3] \in DOMAIN mem.pde[r[1]] THEN mem.pde[r[1]][r[3]] ELSE -1
FramesExact ==
    LET live == {r \in Refs : Frame(r) # -1} IN
    /\ {Frame(r) : r \in live} = mem.frames
    /\ Cardinality(live) = Cardinality(mem.frames)

(* The virtual address bitmap of a space agrees with its page tables: what  *)
(* vaddr_get hands out is never mapped (the ASSERT of page_table_add), what *)
(* fork copies is mapped.                                                   *)
PagesMapped == \A s \in Spaces : mem.used[s] = DOMAIN mem.pte[s]

(* Every page of the kernel belongs to one object: the PCB, the bitmap or   *)
(* the page directory of a process, or the kernel's heap.  The only pages   *)
(* without an owner are the ones release_prog_resource leaves behind.       *)
TaskPages(p) ==
    IF task[p] = Null THEN {}
    ELSE {task[p].pcb, task[p].pgdir} \union
         (IF task[p].state = "live" THEN Run(task[p].bits, BitmapPages) ELSE {})
HeapPages == UNION {Run(a, IF arena[Kernel][a].large THEN arena[Kernel][a].cnt ELSE 1) :
                      a \in DOMAIN arena[Kernel]}
OwnedOrLost ==
    /\ mem.used[Kernel] = (UNION {TaskPages(p) : p \in Procs}) \union HeapPages \union lost
    /\ \A p, r \in Procs : p # r => TaskPages(p) \intersect TaskPages(r) = {}
    /\ \A p \in Procs : TaskPages(p) \intersect (HeapPages \union lost) = {}
    /\ HeapPages \intersect lost = {}

(* The ASSERTs of sys_malloc and sys_free: of each arena of the space's own *)
(* descriptors, every block is either held or once in free_list, cnt counts *)
(* the free ones, and the list has no block of a page that was given back.  *)
(* It fails for a process that loads a program over its own heap: sys_execv *)
(* keeps free_list (exec.c:78), and the module names those processes.       *)
HeapExact ==
    \A s \in Spaces \ over :
      LET own == {a \in DOMAIN arena[s] : arena[s][a].desc = s}
          lst == ToSet(free[s])
      IN
      /\ Cardinality(lst) = Len(free[s])
      /\ \A b \in lst : b[1] \in own
      /\ \A b \in held[s] : b[1] \in DOMAIN arena[s] /\ b[1] \in mem.used[s]
      /\ \A a \in own :
           /\ a \in mem.used[s]
           /\ arena[s][a].cnt = Cardinality({i \in 1 .. BlocksPerArena : <<a, i>> \in lst})
           /\ \A i \in 1 .. BlocksPerArena : (<<a, i>> \in lst) # (<<a, i>> \in held[s])
=============================================================================
