------------------------------- MODULE Memory -------------------------------
(***************************************************************************)
(* Page frames and address spaces: pmm.c, the parts of vm.c that map and   *)
(* unmap, and the system calls of task.c that give and take memory.        *)
(*                                                                         *)
(* A frame is a number and the free list a set: which frame pmm_alloc      *)
(* hands out is immaterial, here it is the lowest.  An address space is    *)
(* named by the frame of its root table, as in the code.  Of the tables    *)
(* below the root one per region is modelled, allocated by walk() when the *)
(* first page of the region is mapped; the identity mappings of the kernel *)
(* image belong to every space and to nobody, and are left out.            *)
(*                                                                         *)
(* Pages are numbered; the break and the deltas of sbrk are in units of    *)
(* which PGSIZE make a page, modulo Word, the size of a register.          *)
(***************************************************************************)
EXTENDS Integers, FiniteSets

CONSTANTS
  NTASK,                    \* slots in the task table
  Frames,                   \* the arena of pmm.c
  PGSIZE, Word,             \* units in a page; values of a register
  UHEAP_BASE, UHEAP_TOP,    \* the window of the heap, in units
  Prog,                     \* pages programs are loaded at
  Stack,                    \* the page of the stack, for all USTACK_PAGES
  DMA_BASE, MaxDma,         \* first page and bound of the window for DMA
  Deltas,                   \* arguments of sbrk
  MaxSpaces                 \* bound on address spaces at any time

Slots == 0 .. NTASK - 1
Heap == UHEAP_BASE \div PGSIZE .. UHEAP_TOP \div PGSIZE - 1
Dma == DMA_BASE .. DMA_BASE + MaxDma - 1
Pages == Prog \cup Heap \cup {Stack} \cup Dma
Regions == {"prog", "heap", "stack", "dma"}

Region(p) == CASE p \in Prog -> "prog"
               [] p \in Heap -> "heap"
               [] p = Stack -> "stack"
               [] p \in Dma -> "dma"

ASSUME MemoryAssumption ==
  /\ NTASK \in Nat \ {0} /\ Frames \subseteq Nat \ {0} /\ Frames # {}
  /\ PGSIZE \in Nat \ {0} /\ Word \in Nat /\ MaxDma \in Nat
  /\ UHEAP_BASE \in Nat \ {0} /\ UHEAP_TOP \in UHEAP_BASE + PGSIZE .. Word - PGSIZE
  /\ UHEAP_BASE % PGSIZE = 0 /\ UHEAP_TOP % PGSIZE = 0
  /\ Prog \subseteq Nat /\ Stack \in Nat /\ DMA_BASE \in Nat \ {0}
  /\ Prog \cap (Heap \cup {Stack} \cup Dma) = {}
  /\ Stack \notin Heap \cup Dma /\ Heap \cap Dma = {}
  /\ Deltas \subseteq Int /\ MaxSpaces \in Nat

Nil == 0          \* no frame: the null pointer, and physical address 0
Unmapped == -1    \* an invalid entry

VARIABLES
  free,       \* the free list
  state, pt,  \* per slot: T_UNUSED or not, and the root of its address space
  brk,        \* per slot: the end of its heap, 0 before it is known
  dma_next,   \* per slot: the next page of its DMA window, 0 if none was used
  table,      \* per root and region: the frame of the lower table, or Nil
  leaf,       \* per root and page: the frame mapped there
  failed,     \* was the latest call a sbrk, and did it answer -1?
  spoilt      \* history: has memory run out, or a DMA page covered another?

vars == <<free, state, pt, brk, dma_next, table, leaf, failed, spoilt>>

Zeroed == [p \in Pages |-> Unmapped]
NoTables == [r \in Regions |-> Nil]

Done == failed' = FALSE
Refused == Done /\ UNCHANGED <<free, state, pt, brk, dma_next, table, leaf>>

Roots == {pt[s] : s \in Slots} \ {Nil}
Running(s) == state[s] = "LIVE"
Occupied(s) == state[s] # "UNUSED" \/ pt[s] # Nil

-----------------------------------------------------------------------------
(* pmm_alloc, and vm_map_at for one page, on memories m of the form        *)
(* [free, table, leaf].                                                    *)

Memory == [free |-> free, table |-> table, leaf |-> leaf]
Becomes(m) == free' = m.free /\ table' = m.table /\ leaf' = m.leaf

Lowest(S) == CHOOSE f \in S : \A g \in S : f <= g
pmm_alloc(m) == IF m.free = {} THEN Nil ELSE Lowest(m.free)
Taken(m) == [m EXCEPT !.free = @ \ {pmm_alloc(m)}]

\* walk() with alloc set: can the entry for page p be reached, and the memory
\* after it.
Reachable(m, root, p) == m.table[root][Region(p)] # Nil \/ m.free # {}
Walked(m, root, p) ==
  IF m.table[root][Region(p)] # Nil \/ m.free = {} THEN m
  ELSE [Taken(m) EXCEPT !.table[root][Region(p)] = pmm_alloc(m)]

\* vm_map_at of one page.
Mapped(m, root, p, f) ==
  IF Reachable(m, root, p)
  THEN [Walked(m, root, p) EXCEPT !.leaf[root][p] = f]
  ELSE m

\* map_heap_page and the loops of task_create and task_new_empty: allocate a
\* page and map it, whatever comes of either.
Given(m, root, p) == Mapped(Taken(m), root, p, pmm_alloc(m))

\* vm_create_task_pt, then the stack, then the first page of the heap, which is
\* not mapped at all when there is no page for it.
NewRoot(m) ==
  [Taken(m) EXCEPT !.table[pmm_alloc(m)] = NoTables,
                   !.leaf[pmm_alloc(m)] = Zeroed]
WithStack(m) == Given(NewRoot(m), pmm_alloc(m), Stack)
FirstHeapPage == UHEAP_BASE \div PGSIZE
NewSpace(m) ==
  IF WithStack(m).free = {} THEN WithStack(m)
  ELSE Given(WithStack(m), pmm_alloc(m), FirstHeapPage)
BrkAtBirth(m) ==
  IF WithStack(m).free = {} THEN 0 ELSE UHEAP_BASE + PGSIZE

-----------------------------------------------------------------------------
(* The slots.                                                              *)

FreeSlots == {s \in Slots : ~Occupied(s)}
alloc_slot == Lowest(FreeSlots)

\* SYS_NEWTASK: task_new_empty.
NewTask(s) ==
  /\ Running(s)
  /\ \/ FreeSlots = {} /\ Refused
     \/ FreeSlots # {} /\ free = {} /\ Refused
     \/ /\ FreeSlots # {} /\ free # {} /\ Cardinality(Roots) < MaxSpaces
        /\ Becomes(NewSpace(Memory))
        /\ pt' = [pt EXCEPT ![alloc_slot] = pmm_alloc(Memory)]
        /\ brk' = [brk EXCEPT ![alloc_slot] = BrkAtBirth(Memory)]
        /\ dma_next' = [dma_next EXCEPT ![alloc_slot] = 0]
        /\ Done /\ UNCHANGED state

\* SYS_START.
Start(s, t) ==
  /\ Running(s) /\ t # 0 /\ state[t] = "UNUSED" /\ pt[t] # Nil
  /\ state' = [state EXCEPT ![t] = "LIVE"]
  /\ Done
  /\ UNCHANGED <<free, pt, brk, dma_next, table, leaf>>

\* SYS_THREAD.
Thread(s) ==
  /\ Running(s)
  /\ \/ FreeSlots = {} /\ Refused
     \/ /\ FreeSlots # {}
        /\ pt' = [pt EXCEPT ![alloc_slot] = pt[s]]
        /\ brk' = [brk EXCEPT ![alloc_slot] = brk[s]]
        /\ dma_next' = [dma_next EXCEPT ![alloc_slot] = 0]
        /\ state' = [state EXCEPT ![alloc_slot] = "LIVE"]
        /\ Done /\ UNCHANGED <<free, table, leaf>>

-----------------------------------------------------------------------------
(* Mapping several pages: the loops of sbrk and vm_load_segment.           *)

\* Some number of frames, as successive pmm_alloc calls hand them out to the
\* pages of P in order.
Handed(g, P) ==
  /\ \A p, q \in P : p < q => g[p] < g[q]
  /\ \A p \in P, f \in free : f < g[p] => \E q \in P : g[q] = f

\* Every page of P, all of region r, gets a frame.  The table of the region,
\* where it is missing, is one more.
MapAll(root, r, P) ==
  \E g \in [P -> free] :
    /\ Handed(g, P)
    /\ IF P = {} \/ table[root][r] # Nil
       THEN /\ free' = free \ {g[p] : p \in P}
            /\ UNCHANGED table
       ELSE LET rest == free \ {g[p] : p \in P}
            IN /\ rest # {}
               /\ free' = rest \ {Lowest(rest)}
               /\ table' = [table EXCEPT ![root][r] = Lowest(rest)]
    /\ leaf' = [leaf EXCEPT ![root] =
                  [p \in Pages |-> IF p \in P THEN g[p] ELSE @[p]]]

\* The frames that mapping P takes.
Need(root, r, P) ==
  Cardinality(P) + IF P # {} /\ table[root][r] = Nil THEN 1 ELSE 0

\* Only the missing table was allocated, and stays.
OnlyTable(root, r) ==
  IF table[root][r] = Nil /\ Cardinality(free) >= 2
  THEN /\ table' = [table EXCEPT ![root][r] = Lowest(free)]
       /\ free' = free \ {Lowest(free)}
  ELSE UNCHANGED <<free, table>>

\* The k lowest pages of P.
FirstOf(P, k) == {p \in P : Cardinality({q \in P : q < p}) < k}

\* Mutant: rounds down.
PGROUNDDOWN(x) == (x \div PGSIZE) * PGSIZE
PGROUNDUP(x) == (((x + PGSIZE - 1) % Word) \div PGSIZE) * PGSIZE
Between(a, b) == {p \in Pages : a <= p * PGSIZE /\ p * PGSIZE < b}

-----------------------------------------------------------------------------
(* SYS_SBRK.                                                               *)

\* The break is per task and means UHEAP_BASE until it is set.
Break(s) == IF brk[s] = 0 THEN UHEAP_BASE ELSE brk[s]
Want(s, d) == (Break(s) + d) % Word

\* Mutant: only the caller learns where the heap ends.
BreakOfCaller(s, want) == brk' = [brk EXCEPT ![s] = want]

\* The sweep: every task in this address space has the same break.
BreakOfSpace(s, want) ==
  brk' = [i \in Slots |->
            IF i = s \/ (pt[i] = pt[s] /\ state[i] # "UNUSED") THEN want
            ELSE brk[i]]

\* A failed call has at most turned the break 0 into UHEAP_BASE, and allocated
\* the table of the region.
SbrkRefused(s) ==
  /\ brk' = [brk EXCEPT ![s] = Break(s)]
  /\ failed' = TRUE

\* Mutant: what was mapped before memory ran out stays.
SbrkHalfDone(s, new) == MapAll(pt[s], "heap", FirstOf(new, Cardinality(free)))

SbrkRolledBack(s, new) == OnlyTable(pt[s], "heap") /\ UNCHANGED leaf

Grow(s, want) ==
  LET new == Between(PGROUNDUP(Break(s)), PGROUNDUP(want))
  IN \/ /\ want > UHEAP_TOP \/ want < Break(s)
        /\ SbrkRefused(s) /\ UNCHANGED <<free, table, leaf>>
     \/ /\ want <= UHEAP_TOP /\ want >= Break(s)
        /\ Need(pt[s], "heap", new) > Cardinality(free)
        /\ SbrkRolledBack(s, new) /\ SbrkRefused(s)
     \/ /\ want <= UHEAP_TOP /\ want >= Break(s)
        /\ MapAll(pt[s], "heap", new)
        /\ BreakOfSpace(s, want) /\ Done

\* vm_unmap_page of every page of P: pmm_free refuses what is not a frame.
Unmap(root, P) ==
  /\ free' = free \cup ({leaf[root][p] : p \in P} \cap Frames)
  /\ leaf' = [leaf EXCEPT ![root] =
                [p \in Pages |-> IF p \in P THEN Unmapped ELSE @[p]]]

\* The first page is never given back.
ShrunkTo(want) ==
  IF want < UHEAP_BASE + PGSIZE THEN UHEAP_BASE + PGSIZE ELSE want

Shrink(s, want) ==
  /\ Unmap(pt[s], Between(PGROUNDUP(want), PGROUNDUP(Break(s))))
  /\ BreakOfSpace(s, want)
  /\ Done /\ UNCHANGED table

Sbrk(s, d) ==
  /\ Running(s)
  /\ UNCHANGED <<state, pt, dma_next>>
  /\ \/ d > 0 /\ Grow(s, Want(s, d))
     \/ d < 0 /\ Shrink(s, ShrunkTo(Want(s, d)))
     \/ d = 0 /\ BreakOfSpace(s, Break(s)) /\ Done
              /\ UNCHANGED <<free, table, leaf>>

-----------------------------------------------------------------------------
(* SYS_VMLOAD: vm_load_segment into a task under construction.             *)

Segments == {P \in SUBSET Prog : /\ P # {}
                                 /\ \A p, q \in P : p .. q \subseteq P}
            \cup {{Stack}}

\* A page that vm_translate_in finds nothing at.
Absent(root, P) == {p \in P : leaf[root][p] \in {Unmapped, Nil}}

\* As many pages as there are frames for; they stay when the answer is -1, here
\* or because the source of the copy is not mapped.  A page for which walk()
\* finds no table is lost.
vm_load_segment(root, r, P) ==
  LET new == Absent(root, P)
      left == Cardinality(free) - Need(root, r, new) + Cardinality(new)
  IN \/ /\ Need(root, r, new) <= Cardinality(free)
        /\ MapAll(root, r, new)
        /\ Done
     \/ /\ Need(root, r, new) > Cardinality(free) /\ left > 0
        /\ MapAll(root, r, FirstOf(new, left))
        /\ Done
     \/ /\ Need(root, r, new) > Cardinality(free) /\ left <= 0
        /\ free' = {} /\ Done
        /\ UNCHANGED <<table, leaf>>

VmLoad(s, t, P) ==
  /\ Running(s) /\ t # 0 /\ state[t] = "UNUSED" /\ pt[t] # Nil
  /\ vm_load_segment(pt[t], Region(CHOOSE p \in P : TRUE), P)
  /\ UNCHANGED <<state, pt, brk, dma_next>>

-----------------------------------------------------------------------------
(* SYS_DMA_ALLOC.  The outcome of vm_map_at is not looked at.              *)

DmaNext(s) == IF dma_next[s] = 0 THEN DMA_BASE ELSE dma_next[s]

\* Does another thread of this address space have its page there already?
OverSibling(s) == DmaNext(s) \in Dma /\ leaf[pt[s]][DmaNext(s)] # Unmapped

DmaAlloc(s) ==
  /\ Running(s)
  /\ \/ free = {} /\ Refused
     \/ /\ free # {} /\ DmaNext(s) \in Dma
        /\ Becomes(Mapped(Taken(Memory), pt[s], DmaNext(s), pmm_alloc(Memory)))
        /\ dma_next' = [dma_next EXCEPT ![s] = DmaNext(s) + 1]
        /\ Done /\ UNCHANGED <<state, pt, brk>>

-----------------------------------------------------------------------------
(* task_retire, from SYS_EXIT, SYS_KILL and a fault.                       *)

\* Mutant: the first thread to go takes the address space with it.
SharedNever(t) == FALSE
Shared(t) == \E i \in Slots \ {t} : pt[i] = pt[t]

\* Mutant: the tables are not freed.
SpaceFramesNoTables(root) ==
  ({root} \cup {leaf[root][p] : p \in Pages}) \cap Frames

\* vm_free_task: the pages, the tables and the root.  What a freed root held is
\* forgotten: pmm_alloc hands pages out zeroed.
SpaceFrames(root) ==
  ({root} \cup {table[root][r] : r \in Regions}
          \cup {leaf[root][p] : p \in Pages}) \cap Frames

vm_free_task(root) ==
  /\ free' = free \cup SpaceFrames(root)
  /\ table' = [table EXCEPT ![root] = NoTables]
  /\ leaf' = [leaf EXCEPT ![root] = Zeroed]

task_retire(t) ==
  /\ pt' = [pt EXCEPT ![t] = Nil]
  /\ state' = [state EXCEPT ![t] = "UNUSED"]
  /\ \/ Shared(t) /\ UNCHANGED <<free, table, leaf>>
     \/ ~Shared(t) /\ vm_free_task(pt[t])
  /\ Done
  /\ UNCHANGED <<brk, dma_next>>

Exit(s) == Running(s) /\ s # 0 /\ task_retire(s)
Kill(s, t) == Running(s) /\ t \notin {0, s} /\ Occupied(t) /\ task_retire(t)

-----------------------------------------------------------------------------
\* pmm_init, then the first task that kmain creates.
Arena == [free |-> Frames,
          table |-> [f \in Frames |-> NoTables],
          leaf |-> [f \in Frames |-> Zeroed]]

Init ==
  /\ free = NewSpace(Arena).free
  /\ table = NewSpace(Arena).table
  /\ leaf = NewSpace(Arena).leaf
  /\ state = [s \in Slots |-> IF s = 0 THEN "LIVE" ELSE "UNUSED"]
  /\ pt = [s \in Slots |-> IF s = 0 THEN pmm_alloc(Arena) ELSE Nil]
  /\ brk = [s \in Slots |-> IF s = 0 THEN BrkAtBirth(Arena) ELSE 0]
  /\ dma_next = [s \in Slots |-> 0]
  /\ failed = FALSE
  /\ spoilt = (free = {})

Call ==
  \E s \in Slots :
    \/ NewTask(s)
    \/ Thread(s)
    \/ \E d \in Deltas : Sbrk(s, d)
    \/ DmaAlloc(s)
    \/ Exit(s)
    \/ \E t \in Slots :
         \/ Start(s, t)
         \/ \E P \in Segments : VmLoad(s, t, P)
         \/ Kill(s, t)

\* Does this step leave no frame, or map a DMA page over one that is there?
Spoils ==
  \/ free' = {}
  \/ \E s \in Slots : dma_next'[s] \notin {0, dma_next[s]} /\ OverSibling(s)

Next == Call /\ spoilt' = (spoilt \/ Spoils)

Spec == Init /\ [][Next]_vars

-----------------------------------------------------------------------------
(* Properties.                                                             *)

\* Every variable has its type.
TypeOK ==
  /\ free \subseteq Frames
  /\ state \in [Slots -> {"UNUSED", "LIVE"}]
  /\ pt \in [Slots -> Frames \cup {Nil}]
  /\ brk \in [Slots -> 0 .. Word - 1]
  /\ dma_next \in [Slots -> {0} \cup DMA_BASE .. DMA_BASE + MaxDma]
  /\ table \in [Frames -> [Regions -> Frames \cup {Nil}]]
  /\ leaf \in [Frames -> [Pages -> Frames \cup {Nil, Unmapped}]]
  /\ failed \in BOOLEAN /\ spoilt \in BOOLEAN

\* A frame in use is in use once, and is not on the free list: no two address
\* spaces share a page, no page is also a table, and no page the allocator may
\* hand out again is still mapped or still walked.  Threads come and go in an
\* address space, and the last of them to be retired frees it (task_retire).
OneOwner ==
  /\ \A r \in Roots : r \notin free
  /\ \A r, q \in Roots, g, h \in Regions :
       table[r][g] # Nil =>
         /\ table[r][g] \notin free \cup Roots
         /\ table[r][g] = table[q][h] => r = q /\ g = h
  /\ \A r, q \in Roots, a, b \in Pages :
       leaf[r][a] \in Frames =>
         /\ leaf[r][a] \notin free \cup Roots
         /\ leaf[r][a] = leaf[q][b] => r = q /\ a = b
  /\ \A r, q \in Roots, a \in Pages, g \in Regions :
       leaf[r][a] \in Frames => leaf[r][a] # table[q][g]

\* No frame is lost: each is on the free list or reached from the address space
\* of some task, so retiring tasks gives everything back.
NothingLost ==
  ~spoilt => \A f \in Frames \ (free \cup Roots) :
    \E r \in Roots : \/ \E g \in Regions : table[r][g] = f
                     \/ \E p \in Pages : leaf[r][p] = f

\* The heap of a task is mapped from its base up to the page of the break and
\* not beyond (SYS_SBRK, map_heap_page), whichever thread moved the break.
HeapMapped ==
  ~spoilt => \A s \in Slots : pt[s] # Nil =>
    \A p \in Heap :
      leaf[pt[s]][p] # Unmapped <=> p * PGSIZE < Break(s)

\* One address space, one break: threads agree on where the heap ends, so none
\* grows it from a stale idea (the sweep at the end of SYS_SBRK).
OneBreak ==
  \A s, t \in Slots :
    pt[s] = pt[t] /\ pt[s] # Nil => Break(s) = Break(t)

\* A failed sbrk leaves the address space exactly as it was: what is mapped, and
\* the break of every task (the roll-back in SYS_SBRK).
FailedSbrkChangesNothing ==
  [][failed' =>
       /\ leaf' = leaf
       /\ \A s \in Slots : Break(s)' = Break(s)]_vars

=============================================================================
