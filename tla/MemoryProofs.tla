---------------------------- MODULE MemoryProofs ----------------------------
(***************************************************************************)
(* Proofs about the memory, for any number of frames, tasks and pages: who *)
(* owns which frame and where heaps end (the inductive invariant MInv of   *)
(* Memory and what follows from it alone); then, while the memory lasts,   *)
(* which pages of a heap are mapped, and that no frame is lost.            *)
(***************************************************************************)
EXTENDS Memory, FiniteSetTheorems, WellFoundedInduction, TLAPS

-----------------------------------------------------------------------------
(* The lowest of some numbers                                              *)

\* pmm_alloc takes a frame that is on the list (pmm.c), and alloc_slot finds
\* the first free slot (task.c): a set of numbers has a lowest one.
LEMMA LowestFacts ==
  ASSUME NEW S \in SUBSET Nat, S # {}
  PROVE  Lowest(S) \in S /\ \A g \in S : Lowest(S) <= g
<1>1. PICK f \in S : \A g \in S : ~(<<g, f>> \in OpToRel(<, Nat))
  BY NatLessThanWellFounded, WFMin, Zenon
<1>2. ASSUME NEW g \in S, g < f PROVE <<g, f>> \in OpToRel(<, Nat)
  <2>1. <<g, f>> \in Nat \X Nat /\ <<g, f>>[1] < <<g, f>>[2]
    BY <1>2, Zenon
  <2> QED
    BY <2>1, Zenon DEF OpToRel
<1>3. \A g \in S : ~(g < f)
  BY <1>1, <1>2, Zenon
<1>4. \A g \in S : f <= g
  BY <1>3
<1> QED
  BY <1>4, Zenon DEF Lowest

\* An allocation returns a frame of the list, or nothing when the list is
\* empty.
LEMMA AllocFacts ==
  ASSUME NEW m, m.free \subseteq Frames
  PROVE  /\ m.free = {} => pmm_alloc(m) = Nil
         /\ m.free # {} => pmm_alloc(m) \in m.free
         /\ pmm_alloc(m) \in Frames \cup {Nil}
BY MemoryAssumption, LowestFacts, Zenon DEF pmm_alloc

-----------------------------------------------------------------------------
(* What a page table may hold, and whose a frame is                        *)

Tables == [Frames -> [Regions -> Frames \cup {Nil}]]
Leaves == [Frames -> [Pages -> Frames \cup {Nil, Unmapped}]]

\* OneOwner of a free list, tables and leaves, for the roots of R.
Sole(fr, tb, lf, R) ==
  /\ \A r \in R : r \notin fr
  /\ \A r, q \in R, g, h \in Regions :
       tb[r][g] # Nil => /\ tb[r][g] \notin fr \cup R
                         /\ tb[r][g] = tb[q][h] => r = q /\ g = h
  /\ \A r, q \in R, a, b \in Pages :
       lf[r][a] \in Frames => /\ lf[r][a] \notin fr \cup R
                              /\ lf[r][a] = lf[q][b] => r = q /\ a = b
  /\ \A r, q \in R, a \in Pages, g \in Regions :
       lf[r][a] \in Frames => lf[r][a] # tb[q][g]

\* OneOwner is Sole of the variables.
LEMMA SoleIsOneOwner == OneOwner <=> Sole(free, table, leaf, Roots)
BY Zenon DEF OneOwner, Sole

\* Frames come off the list, each for one entry that had none or is overwritten;
\* nothing else moves.
Takes(fr, tb, lf, fr2, tb2, lf2, R) ==
  /\ fr2 \subseteq fr
  /\ \A r \in R, g \in Regions :
       tb2[r][g] = tb[r][g] \/ tb2[r][g] \in fr \ fr2
  /\ \A r \in R, a \in Pages :
       lf2[r][a] = lf[r][a] \/ lf2[r][a] \in fr \ fr2 \/ lf2[r][a] \notin Frames
  /\ \A r, q \in R, g, h \in Regions :
       tb2[r][g] \in fr /\ tb2[r][g] = tb2[q][h] => r = q /\ g = h
  /\ \A r, q \in R, a, b \in Pages :
       lf2[r][a] \in fr /\ lf2[r][a] = lf2[q][b] => r = q /\ a = b
  /\ \A r, q \in R, a \in Pages, g \in Regions :
       lf2[r][a] \in fr => lf2[r][a] # tb2[q][g]

\* Such a step keeps every frame with its one owner.
LEMMA TakesKeepsSole ==
  ASSUME NEW fr \in SUBSET Frames, NEW R \in SUBSET Frames,
         NEW tb \in Tables, NEW lf \in Leaves,
         NEW tb2 \in Tables, NEW lf2 \in Leaves, NEW fr2,
         Sole(fr, tb, lf, R), Takes(fr, tb, lf, fr2, tb2, lf2, R)
  PROVE  Sole(fr2, tb2, lf2, R)
<1>0. Nil \notin Frames /\ \A f \in Frames : f # Unmapped
  BY MemoryAssumption DEF Nil, Unmapped
<1>1. \A r \in R : r \notin fr2
  BY Zenon DEF Sole, Takes
<1>2. ASSUME NEW r \in R, NEW q \in R, NEW g \in Regions, NEW h \in Regions,
             tb2[r][g] # Nil
      PROVE  /\ tb2[r][g] \notin fr2 \cup R
             /\ tb2[r][g] = tb2[q][h] => r = q /\ g = h
  BY <1>2 DEF Sole, Takes
<1>3. ASSUME NEW r \in R, NEW q \in R, NEW a \in Pages, NEW b \in Pages,
             lf2[r][a] \in Frames
      PROVE  /\ lf2[r][a] \notin fr2 \cup R
             /\ lf2[r][a] = lf2[q][b] => r = q /\ a = b
  BY <1>3 DEF Sole, Takes
<1>4. ASSUME NEW r \in R, NEW q \in R, NEW a \in Pages, NEW g \in Regions,
             lf2[r][a] \in Frames
      PROVE  lf2[r][a] # tb2[q][g]
  BY <1>0, <1>4 DEF Sole, Takes
<1> QED
  BY <1>1, <1>2, <1>3, <1>4, Zenon DEF Sole

-----------------------------------------------------------------------------
(* One page: pmm_alloc and vm_map_at                                       *)

Memories == [free : SUBSET Frames, table : Tables, leaf : Leaves]

\* Every page is of a region.
LEMMA RegionFacts == \A p \in Pages : Region(p) \in Regions
BY Zenon DEF Pages, Region, Regions

\* The entry of page p, and of region g, in a memory that is otherwise m.
Leaf(m, root, p, f) == [m.leaf EXCEPT ![root][p] = f]
Table(m, root, g, f) == [m.table EXCEPT ![root][g] = f]

\* What a page allocated and mapped comes to: there was no frame, or none for
\* the table as well and the page is lost, or the page is mapped, with a new
\* table where there was none.
GivenOutcome(m, root, p, m2) ==
  \/ /\ m.free = {} /\ m2.free = {} /\ m2.table = m.table
     /\ m2.leaf \in {m.leaf, Leaf(m, root, p, Nil)}
  \/ /\ m.free # {} /\ m2.free = {}
     /\ m2.table = m.table /\ m2.leaf = m.leaf
  \/ \E f \in m.free :
       /\ m.table[root][Region(p)] # Nil /\ m2.free = m.free \ {f}
       /\ m2.table = m.table /\ m2.leaf = Leaf(m, root, p, f)
  \/ \E f, h \in m.free :
       /\ f # h /\ m.table[root][Region(p)] = Nil /\ m2.free = m.free \ {f, h}
       /\ m2.table = Table(m, root, Region(p), h)
       /\ m2.leaf = Leaf(m, root, p, f)

\* A memory with one leaf changed (vm_map_at).
LEMMA LeafFacts ==
  ASSUME NEW m \in Memories, NEW root \in Frames,
         NEW p \in Pages, NEW f \in Frames \cup {Nil}
  PROVE  LET m2 == [m EXCEPT !.leaf[root][p] = f]
         IN /\ m2 \in Memories /\ m2.free = m.free /\ m2.table = m.table
            /\ m2.leaf = Leaf(m, root, p, f)
<1>1. m = [free |-> m.free, table |-> m.table, leaf |-> m.leaf]
  BY Zenon DEF Memories
<1>2. m.free \in SUBSET Frames /\ m.table \in Tables /\ m.leaf \in Leaves
  BY Zenon DEF Memories
<1>3. [m EXCEPT !.leaf[root][p] = f] =
        [free |-> m.free, table |-> m.table, leaf |-> Leaf(m, root, p, f)]
  BY <1>1 DEF Leaf
<1>4. Leaf(m, root, p, f) \in Leaves
  BY <1>2, Zenon DEF Leaf, Leaves
<1> QED
  BY <1>2, <1>3, <1>4, Zenon DEF Memories

\* A memory with one table more (walk()).
LEMMA TableFacts ==
  ASSUME NEW m \in Memories, NEW root \in Frames,
         NEW g \in Regions, NEW h \in Frames \cup {Nil}
  PROVE  LET m2 == [m EXCEPT !.table[root][g] = h]
         IN /\ m2 \in Memories /\ m2.free = m.free /\ m2.leaf = m.leaf
            /\ m2.table = Table(m, root, g, h)
<1>1. m = [free |-> m.free, table |-> m.table, leaf |-> m.leaf]
  BY Zenon DEF Memories
<1>2. m.free \in SUBSET Frames /\ m.table \in Tables /\ m.leaf \in Leaves
  BY Zenon DEF Memories
<1>3. [m EXCEPT !.table[root][g] = h] =
        [free |-> m.free, table |-> Table(m, root, g, h), leaf |-> m.leaf]
  BY <1>1 DEF Table
<1>4. Table(m, root, g, h) \in Tables
  BY <1>2, Zenon DEF Table, Tables
<1> QED
  BY <1>2, <1>3, <1>4, Zenon DEF Memories

\* Given has one of these outcomes (map_heap_page, SYS_DMA_ALLOC).
LEMMA GivenFacts ==
  ASSUME NEW m \in Memories, NEW root \in Frames, NEW p \in Pages
  PROVE  /\ Given(m, root, p) \in Memories
         /\ GivenOutcome(m, root, p, Given(m, root, p))
<1> DEFINE f == pmm_alloc(m)
           g == Region(p)
           m1 == Taken(m)
           h == pmm_alloc(m1)
<1>1. /\ m.free \in SUBSET Frames /\ m.table \in Tables /\ m.leaf \in Leaves
      /\ g \in Regions /\ Nil \notin Frames
  BY RegionFacts, MemoryAssumption, Zenon DEF Memories, Nil
<1>2. /\ m.free = {} => f = Nil
      /\ m.free # {} => f \in m.free
      /\ f \in Frames \cup {Nil}
  BY <1>1, AllocFacts, Zenon
<1>3. /\ m1 \in Memories /\ m1.free = m.free \ {f}
      /\ m1.table = m.table /\ m1.leaf = m.leaf
  BY <1>1, Zenon DEF Taken, Memories
<1>4. /\ m1.free = {} => h = Nil
      /\ m1.free # {} => h \in m1.free
      /\ h \in Frames \cup {Nil}
  BY <1>3, AllocFacts, Zenon DEF Memories
<1>5. Given(m, root, p) =
        IF m1.table[root][g] # Nil \/ m1.free # {}
        THEN [Walked(m1, root, p) EXCEPT !.leaf[root][p] = f] ELSE m1
  BY Zenon DEF Given, Mapped, Reachable
<1>6. Walked(m1, root, p) =
        IF m1.table[root][g] # Nil \/ m1.free = {} THEN m1
        ELSE [Taken(m1) EXCEPT !.table[root][g] = h]
  BY Zenon DEF Walked
<1> HIDE DEF f, g, m1, h
<1>7. CASE ~(m1.table[root][g] # Nil \/ m1.free # {})
  BY <1>1, <1>2, <1>3, <1>5, <1>7, Zenon DEF GivenOutcome
<1>8. CASE m1.table[root][g] # Nil
  <2>1. Given(m, root, p) = [m1 EXCEPT !.leaf[root][p] = f]
    BY <1>5, <1>6, <1>8, Zenon
  <2>2. /\ Given(m, root, p) \in Memories
        /\ Given(m, root, p).free = m.free \ {f}
        /\ Given(m, root, p).table = m.table
        /\ Given(m, root, p).leaf = Leaf(m, root, p, f)
    BY <1>2, <1>3, <2>1, LeafFacts, SMTT(30) DEF Leaf
  <2> QED
    BY <1>1, <1>2, <1>3, <1>8, <2>2, Zenon DEF GivenOutcome, g
<1>9. CASE m1.table[root][g] = Nil /\ m1.free # {}
  <2> DEFINE m2 == [Taken(m1) EXCEPT !.table[root][g] = h]
  <2>1. Given(m, root, p) = [m2 EXCEPT !.leaf[root][p] = f]
    BY <1>5, <1>6, <1>9, Zenon
  <2>2. /\ Taken(m1) \in Memories /\ Taken(m1).free = m.free \ {f, h}
        /\ Taken(m1).table = m.table /\ Taken(m1).leaf = m.leaf
    BY <1>3, <1>4, Zenon DEF Taken, Memories, h
  <2>3. /\ m2 \in Memories /\ m2.free = m.free \ {f, h}
        /\ m2.table = Table(m, root, g, h) /\ m2.leaf = m.leaf
    BY <1>1, <1>4, <2>2, TableFacts DEF Table
  <2> HIDE DEF m2
  <2>4. /\ Given(m, root, p) \in Memories
        /\ Given(m, root, p).free = m.free \ {f, h}
        /\ Given(m, root, p).table = Table(m, root, g, h)
        /\ Given(m, root, p).leaf = Leaf(m, root, p, f)
    BY <1>2, <2>1, <2>3, LeafFacts DEF Leaf
  <2> QED
    BY <1>1, <1>2, <1>3, <1>4, <1>9, <2>4, Zenon DEF GivenOutcome, g
<1> QED
  BY <1>7, <1>8, <1>9, Zenon

\* A page given to an address space has one owner.
LEMMA GivenTakes ==
  ASSUME NEW m \in Memories, NEW R \in SUBSET Frames, NEW root \in R,
         NEW p \in Pages, Sole(m.free, m.table, m.leaf, R),
         NEW m2 \in Memories, GivenOutcome(m, root, p, m2)
  PROVE  Takes(m.free, m.table, m.leaf, m2.free, m2.table, m2.leaf, R)
<1>1. /\ m.free \in SUBSET Frames /\ m.table \in Tables /\ m.leaf \in Leaves
      /\ Region(p) \in Regions /\ Nil \notin Frames
  BY RegionFacts, MemoryAssumption, Zenon DEF Memories, Nil
<1> USE DEF Tables, Leaves
<1>2. CASE /\ m.free = {} /\ m2.free = {} /\ m2.table = m.table
           /\ m2.leaf \in {m.leaf, Leaf(m, root, p, Nil)}
  BY <1>1, <1>2 DEF Takes, Sole, Leaf
<1>3. CASE m2.free = {} /\ m2.table = m.table /\ m2.leaf = m.leaf
  BY <1>1, <1>3, SMTT(30) DEF Takes, Sole
<1>4. ASSUME NEW f \in m.free, m2.free = m.free \ {f},
             m2.table = m.table, m2.leaf = Leaf(m, root, p, f)
      PROVE  Takes(m.free, m.table, m.leaf, m2.free, m2.table, m2.leaf, R)
  BY <1>1, <1>4, SMTT(30) DEF Takes, Sole, Leaf
<1>5. ASSUME NEW f \in m.free, NEW h \in m.free, f # h,
             m2.free = m.free \ {f, h},
             m2.table = Table(m, root, Region(p), h),
             m2.leaf = Leaf(m, root, p, f)
      PROVE  Takes(m.free, m.table, m.leaf, m2.free, m2.table, m2.leaf, R)
  BY <1>1, <1>5, SMTT(30) DEF Takes, Sole, Leaf, Table
<1> QED
  BY <1>2, <1>3, <1>4, <1>5, Zenon DEF GivenOutcome

\* A new root owns nothing yet (vm_create_task_pt).
LEMMA NewRootFacts ==
  ASSUME NEW m \in Memories, m.free # {}
  PROVE  LET f == pmm_alloc(m)
             m2 == NewRoot(m)
         IN /\ f \in m.free /\ m2 \in Memories
            /\ m2.free = m.free \ {f}
            /\ m2.table = [m.table EXCEPT ![f] = NoTables]
            /\ m2.leaf = [m.leaf EXCEPT ![f] = Zeroed]
<1> DEFINE f == pmm_alloc(m)
<1>1. f \in m.free /\ f \in Frames
  BY AllocFacts, Zenon DEF Memories
<1>2. NoTables \in [Regions -> Frames \cup {Nil}]
      /\ Zeroed \in [Pages -> Frames \cup {Nil, Unmapped}]
  BY Zenon DEF NoTables, Zeroed
<1>3. m = [free |-> m.free, table |-> m.table, leaf |-> m.leaf]
  BY Zenon DEF Memories
<1>4. m.free \in SUBSET Frames /\ m.table \in Tables /\ m.leaf \in Leaves
  BY Zenon DEF Memories
<1>5. /\ Taken(m) = [m EXCEPT !.free = @ \ {f}]
      /\ NewRoot(m) = [Taken(m) EXCEPT !.table[f] = NoTables, !.leaf[f] = Zeroed]
  BY Zenon DEF NewRoot, Taken
<1> HIDE DEF f
<1>6. NewRoot(m) = [free |-> m.free \ {f},
                    table |-> [m.table EXCEPT ![f] = NoTables],
                    leaf |-> [m.leaf EXCEPT ![f] = Zeroed]]
  BY <1>3, <1>5, Zenon
<1>7. /\ [m.table EXCEPT ![f] = NoTables] \in Tables
      /\ [m.leaf EXCEPT ![f] = Zeroed] \in Leaves
  BY <1>1, <1>2, <1>4, Zenon DEF Tables, Leaves
<1> QED
  BY <1>1, <1>4, <1>6, <1>7 DEF Memories, f

\* Every frame still has one owner when there is one root more.
LEMMA NewRootSole ==
  ASSUME NEW m \in Memories, m.free # {}, NEW R \in SUBSET Frames,
         Sole(m.free, m.table, m.leaf, R)
  PROVE  LET m2 == NewRoot(m)
         IN Sole(m2.free, m2.table, m2.leaf, R \cup {pmm_alloc(m)})
<1> DEFINE f == pmm_alloc(m)
           m2 == NewRoot(m)
           Q == R \cup {f}
<1>1. /\ f \in m.free /\ m2 \in Memories /\ m2.free = m.free \ {f}
      /\ m2.table = [m.table EXCEPT ![f] = NoTables]
      /\ m2.leaf = [m.leaf EXCEPT ![f] = Zeroed]
  BY NewRootFacts, Zenon
<1>2. /\ m.free \in SUBSET Frames /\ m.table \in Tables /\ m.leaf \in Leaves
      /\ Nil \notin Frames /\ Unmapped \notin Frames
  BY MemoryAssumption DEF Memories, Nil, Unmapped
<1>3. \A g \in Regions : m2.table[f][g] = Nil
  BY <1>1, <1>2 DEF NoTables, Tables
<1>4. \A a \in Pages : m2.leaf[f][a] = Unmapped
  BY <1>1, <1>2 DEF Zeroed, Leaves
<1>5. f \notin R
  BY <1>1, Zenon DEF Sole
<1>6. \A r \in R : m2.table[r] = m.table[r] /\ m2.leaf[r] = m.leaf[r]
  BY <1>1, <1>2, <1>5, Zenon DEF Tables, Leaves
<1> HIDE DEF f, m2
<1>7. \A r \in Q, g \in Regions : m2.table[r][g] # Nil => r \in R
  BY <1>3, Zenon
<1>8. \A r \in Q, a \in Pages : m2.leaf[r][a] \in Frames => r \in R
  BY <1>2, <1>4, Zenon
<1>9. \A r \in Q : r \notin m2.free
  BY <1>1, Zenon DEF Sole
<1>10. ASSUME NEW r \in Q, NEW q \in Q, NEW g \in Regions, NEW h \in Regions,
              m2.table[r][g] # Nil
       PROVE  /\ m2.table[r][g] \notin m2.free \cup Q
              /\ m2.table[r][g] = m2.table[q][h] => r = q /\ g = h
  <2>1. r \in R /\ (m2.table[r][g] = m2.table[q][h] => q \in R)
    BY <1>7, <1>10, Zenon
  <2>2. m2.table[r][g] = m.table[r][g] /\ m2.table[r][g] \notin m.free
    BY <1>6, <1>10, <2>1, Zenon DEF Sole
  <2> QED
    BY <1>1, <1>6, <1>10, <2>1, <2>2 DEF Sole
<1>11. ASSUME NEW r \in Q, NEW q \in Q, NEW a \in Pages, NEW b \in Pages,
              m2.leaf[r][a] \in Frames
       PROVE  /\ m2.leaf[r][a] \notin m2.free \cup Q
              /\ m2.leaf[r][a] = m2.leaf[q][b] => r = q /\ a = b
  <2>1. r \in R /\ (m2.leaf[r][a] = m2.leaf[q][b] => q \in R)
    BY <1>8, <1>11, Zenon
  <2>2. m2.leaf[r][a] = m.leaf[r][a] /\ m2.leaf[r][a] \notin m.free
    BY <1>6, <1>11, <2>1, Zenon DEF Sole
  <2> QED
    BY <1>1, <1>6, <1>11, <2>1, <2>2 DEF Sole
<1>12. ASSUME NEW r \in Q, NEW q \in Q, NEW a \in Pages, NEW g \in Regions,
              m2.leaf[r][a] \in Frames
       PROVE  m2.leaf[r][a] # m2.table[q][g]
  BY <1>2, <1>6, <1>7, <1>8, <1>12 DEF Sole
<1>13. Sole(m2.free, m2.table, m2.leaf, Q)
  BY <1>9, <1>10, <1>11, <1>12, Zenon DEF Sole
<1> QED
  BY <1>13, Zenon DEF m2, f

\* A page given keeps every frame with its one owner.
LEMMA GivenSole ==
  ASSUME NEW m \in Memories, NEW R \in SUBSET Frames, NEW root \in R,
         NEW p \in Pages, Sole(m.free, m.table, m.leaf, R)
  PROVE  LET m2 == Given(m, root, p)
         IN m2 \in Memories /\ Sole(m2.free, m2.table, m2.leaf, R)
<1> DEFINE m2 == Given(m, root, p)
<1>1. m2 \in Memories /\ GivenOutcome(m, root, p, m2)
  BY GivenFacts, Zenon
<1> HIDE DEF m2
<1>2. Takes(m.free, m.table, m.leaf, m2.free, m2.table, m2.leaf, R)
  BY <1>1, GivenTakes, Zenon
<1>3. Sole(m2.free, m2.table, m2.leaf, R)
  BY <1>1, <1>2, TakesKeepsSole, Zenon DEF Memories
<1> QED
  BY <1>1, <1>3, Zenon DEF m2

\* The pages of a new address space are pages.
LEMMA PageFacts ==
  /\ Stack \in Pages /\ FirstHeapPage \in Heap /\ Heap \subseteq Pages
  /\ Prog \subseteq Pages /\ Dma \subseteq Pages /\ Pages \subseteq Int
<1>1. UHEAP_BASE \div PGSIZE <= UHEAP_TOP \div PGSIZE - 1
  BY MemoryAssumption
<1>2. UHEAP_BASE \div PGSIZE \in Int /\ UHEAP_TOP \div PGSIZE \in Int
  BY MemoryAssumption
<1>3. Heap \subseteq Int /\ Dma \subseteq Int
  BY DEF Heap, Dma
<1>4. FirstHeapPage \in Heap
  BY <1>1, <1>2 DEF Heap, FirstHeapPage
<1>5. Prog \subseteq Int /\ Stack \in Int
  BY MemoryAssumption
<1> QED
  BY <1>3, <1>4, <1>5, Zenon DEF Pages

\* A new address space (task_create, task_new_empty).
LEMMA NewSpaceSole ==
  ASSUME NEW m \in Memories, m.free # {}, NEW R \in SUBSET Frames,
         Sole(m.free, m.table, m.leaf, R)
  PROVE  LET m2 == NewSpace(m)
         IN /\ m2 \in Memories /\ pmm_alloc(m) \in m.free
            /\ Sole(m2.free, m2.table, m2.leaf, R \cup {pmm_alloc(m)})
<1> DEFINE f == pmm_alloc(m)
           Q == R \cup {f}
           m1 == NewRoot(m)
           m2 == WithStack(m)
<1>1. f \in m.free /\ f \in Frames
  BY AllocFacts, Zenon DEF Memories
<1>2. m1 \in Memories /\ Sole(m1.free, m1.table, m1.leaf, Q)
  BY NewRootFacts, NewRootSole, Zenon
<1>3. Q \in SUBSET Frames /\ f \in Q
  BY <1>1, Zenon
<1>4. m2 = Given(m1, f, Stack)
  BY Zenon DEF WithStack
<1>5. NewSpace(m) = IF m2.free = {} THEN m2 ELSE Given(m2, f, FirstHeapPage)
  BY Zenon DEF NewSpace
<1> HIDE DEF f, Q, m1, m2
<1>6. m2 \in Memories /\ Sole(m2.free, m2.table, m2.leaf, Q)
  BY <1>2, <1>3, <1>4, GivenSole, PageFacts, Zenon
<1>7. LET m3 == Given(m2, f, FirstHeapPage)
      IN m3 \in Memories /\ Sole(m3.free, m3.table, m3.leaf, Q)
  BY <1>3, <1>6, GivenSole, PageFacts, Zenon
<1> QED
  BY <1>1, <1>5, <1>6, <1>7, Zenon DEF f, Q

-----------------------------------------------------------------------------
(* Several pages: the loops of sbrk and vm_load_segment                    *)

\* Successive calls of pmm_alloc give different frames.
LEMMA HandedOnce ==
  ASSUME NEW P \in SUBSET Pages, NEW g \in [P -> free], Handed(g, P),
         free \subseteq Frames, NEW p \in P, NEW q \in P, g[p] = g[q]
  PROVE  p = q
<1>1. p \in Int /\ q \in Int
  BY PageFacts, Zenon
<1>2. Frames \subseteq Nat
  BY MemoryAssumption, Zenon
<1>3. g[p] \in Nat
  BY <1>2, Zenon
<1> QED
  BY <1>1, <1>3 DEF Handed

\* They map pages to frames that were free, each once.
LEMMA MapAllTakes ==
  ASSUME free \in SUBSET Frames, table \in Tables, leaf \in Leaves,
         NEW R \in SUBSET Frames, NEW root \in R, Sole(free, table, leaf, R),
         NEW r \in Regions, NEW P \in SUBSET Pages, MapAll(root, r, P)
  PROVE  /\ free' \in SUBSET Frames /\ table' \in Tables /\ leaf' \in Leaves
         /\ Sole(free', table', leaf', R)
<1>0. Nil \notin Frames /\ Unmapped \notin Frames /\ Frames \subseteq Nat
  BY MemoryAssumption DEF Nil, Unmapped
<1>1. PICK g \in [P -> free] :
        /\ Handed(g, P)
        /\ IF P = {} \/ table[root][r] # Nil
           THEN free' = free \ {g[p] : p \in P} /\ UNCHANGED table
           ELSE LET rest == free \ {g[p] : p \in P}
                IN /\ rest # {}
                   /\ free' = rest \ {Lowest(rest)}
                   /\ table' = [table EXCEPT ![root][r] = Lowest(rest)]
        /\ leaf' = [leaf EXCEPT ![root] =
                      [p \in Pages |-> IF p \in P THEN g[p] ELSE @[p]]]
  BY Zenon DEF MapAll
<1>2. \A p, q \in P : g[p] = g[q] => p = q
  BY <1>1, HandedOnce, Zenon
<1>3. leaf' \in Leaves
  BY <1>1, Zenon DEF Leaves
<1>4. \A q \in R, a \in Pages :
        leaf'[q][a] = IF q = root /\ a \in P THEN g[a] ELSE leaf[q][a]
  BY <1>1, Zenon DEF Leaves
<1> DEFINE rest == free \ {g[p] : p \in P}
<1>5. rest # {} => Lowest(rest) \in rest
  BY <1>0, LowestFacts, Zenon
<1>6. \A p \in P : g[p] \in free /\ g[p] \notin rest
  BY Zenon
<1>9. /\ \A q \in R, a \in Pages : leaf[q][a] \notin free
      /\ \A q \in R, k \in Regions : table[q][k] \notin free
  <2>1. ASSUME NEW q \in R, NEW a \in Pages PROVE leaf[q][a] \notin free
    BY Zenon DEF Sole
  <2>2. ASSUME NEW q \in R, NEW k \in Regions PROVE table[q][k] \notin free
    <3>1. CASE table[q][k] = Nil
      BY <1>0, <3>1, Zenon
    <3>2. CASE table[q][k] # Nil
      BY <3>2, Zenon DEF Sole
    <3> QED
      BY <3>1, <3>2, Zenon
  <2> QED
    BY <2>1, <2>2, Zenon
<1>10. /\ \A q \in R, a \in Pages :
            leaf'[q][a] \in free => q = root /\ a \in P /\ leaf'[q][a] = g[a]
       /\ \A q \in R, a \in Pages :
            leaf'[q][a] = leaf[q][a] \/ (leaf'[q][a] \in free \ rest)
  BY <1>4, <1>6, <1>9
<1>11. \A q, t \in R, a, b \in Pages :
         leaf'[q][a] \in free /\ leaf'[q][a] = leaf'[t][b] => q = t /\ a = b
  BY <1>2, <1>10, Zenon
<1> HIDE DEF rest
<1>7. CASE free' = rest /\ table' = table
  <2>1. Takes(free, table, leaf, free', table', leaf', R)
    BY <1>7, <1>9, <1>10, <1>11, Zenon DEF Takes, rest
  <2> QED
    BY <1>3, <1>7, <2>1, TakesKeepsSole, Zenon DEF rest
<1>8. CASE /\ rest # {} /\ free' = rest \ {Lowest(rest)}
           /\ table' = [table EXCEPT ![root][r] = Lowest(rest)]
  <2> DEFINE h == Lowest(rest)
  <2>1. h \in rest /\ h \in free /\ \A p \in P : g[p] # h
    BY <1>5, <1>6, <1>8, Zenon DEF rest
  <2>2. /\ free' = rest \ {h} /\ table' = [table EXCEPT ![root][r] = h]
        /\ rest \subseteq free
    BY <1>8, Zenon DEF rest
  <2> HIDE DEF h
  <2>3. table' \in Tables
    BY <2>1, <2>2, Zenon DEF Tables
  <2>4. \A q \in R, k \in Regions :
          table'[q][k] = IF q = root /\ k = r THEN h ELSE table[q][k]
    BY <2>2, Zenon DEF Tables
  <2>5. \A q, t \in R, a \in Pages, k \in Regions :
          leaf'[q][a] \in free => leaf'[q][a] # table'[t][k]
    BY <1>9, <1>10, <2>1, <2>4
  <2>6. Takes(free, table, leaf, free', table', leaf', R)
    BY <1>9, <1>10, <1>11, <2>1, <2>2, <2>4, <2>5 DEF Takes
  <2> QED
    BY <1>3, <2>2, <2>3, <2>6, TakesKeepsSole
<1> QED
  BY <1>1, <1>7, <1>8, Zenon DEF rest

-----------------------------------------------------------------------------
(* The invariant                                                           *)

\* A task that can make calls has an address space; one under construction has
\* one of its own.
Rooted == \A s \in Slots : state[s] = "LIVE" => pt[s] # Nil
BuiltAlone ==
  \A s, t \in Slots : s # t /\ state[s] = "UNUSED" /\ pt[s] # Nil => pt[t] # pt[s]

MInv == TypeOK /\ OneOwner /\ OneBreak /\ Rooted /\ BuiltAlone

\* The numbers of the heap are in order, and no frame is the null pointer.
LEMMA Numbers ==
  /\ Nil \notin Frames /\ Unmapped \notin Frames /\ Frames \subseteq Nat
  /\ UHEAP_BASE \in 1 .. Word - 1 /\ UHEAP_BASE + PGSIZE \in 1 .. Word - 1
  /\ Word \in Nat \ {0} /\ PGSIZE \in Nat \ {0} /\ 0 \in Slots
<1>1. Nil \notin Frames /\ Unmapped \notin Frames /\ Frames \subseteq Nat
  BY MemoryAssumption DEF Nil, Unmapped
<1>2. /\ UHEAP_BASE \in 1 .. Word - 1 /\ UHEAP_BASE + PGSIZE \in 1 .. Word - 1
      /\ Word \in Nat \ {0} /\ PGSIZE \in Nat \ {0} /\ 0 \in Slots
  BY MemoryAssumption DEF Slots
<1> QED
  BY <1>1, <1>2, Zenon

\* The roots are frames.
LEMMA RootFacts ==
  ASSUME TypeOK
  PROVE  /\ Roots \in SUBSET Frames
         /\ \A s \in Slots : pt[s] # Nil => pt[s] \in Roots
         /\ \A r \in Roots : \E s \in Slots : pt[s] = r
         /\ free \in SUBSET Frames /\ table \in Tables /\ leaf \in Leaves
BY DEF TypeOK, Roots, Tables, Leaves

\* A step that leaves the slots alone keeps what is said of them.
LEMMA SlotsKept ==
  ASSUME MInv, UNCHANGED <<state, pt>> PROVE Rooted' /\ BuiltAlone' /\ Roots' = Roots
BY Zenon DEF MInv, Rooted, BuiltAlone, Roots

\* A step that leaves the breaks alone, or writes them out, keeps them.
LEMMA BreaksKept ==
  ASSUME MInv, UNCHANGED pt, \A s \in Slots : Break(s)' = Break(s) PROVE OneBreak'
BY Zenon DEF MInv, OneBreak

\* A refused call keeps the invariant.
LEMMA RefusedStep ==
  ASSUME MInv, Refused, spoilt' \in BOOLEAN PROVE MInv'
<1>1. UNCHANGED <<free, state, pt, brk, dma_next, table, leaf>> /\ failed' = FALSE
  BY Zenon DEF Refused, Done
<1>2. TypeOK'
  BY <1>1, Zenon DEF MInv, TypeOK
<1>3. OneOwner'
  BY <1>1 DEF MInv, OneOwner, Roots
<1>4. OneBreak'
  BY <1>1, Zenon DEF MInv, OneBreak, Break
<1> QED
  BY <1>1, <1>2, <1>3, <1>4, SlotsKept, Zenon DEF MInv

\* The first free slot (alloc_slot).
LEMMA AllocSlotFacts ==
  ASSUME FreeSlots # {}
  PROVE  alloc_slot \in Slots /\ ~Occupied(alloc_slot)
<1>1. FreeSlots \in SUBSET Nat
  BY DEF FreeSlots, Slots
<1> QED
  BY <1>1, LowestFacts, Zenon DEF alloc_slot, FreeSlots

\* SYS_START keeps the invariant.
LEMMA StartStep ==
  ASSUME MInv, NEW s \in Slots, NEW t \in Slots, Start(s, t), spoilt' \in BOOLEAN
  PROVE  MInv'
<1>1. /\ state' = [state EXCEPT ![t] = "LIVE"] /\ pt[t] # Nil /\ failed' = FALSE
      /\ UNCHANGED <<free, pt, brk, dma_next, table, leaf>>
  BY Zenon DEF Start, Done
<1>2. TypeOK'
  BY <1>1, Zenon DEF MInv, TypeOK
<1>3. OneOwner'
  BY <1>1 DEF MInv, OneOwner, Roots
<1>4. OneBreak'
  BY <1>1, Zenon DEF MInv, OneBreak, Break
<1>5. Rooted' /\ BuiltAlone'
  BY <1>1, Zenon DEF MInv, TypeOK, Rooted, BuiltAlone
<1> QED
  BY <1>2, <1>3, <1>4, <1>5, Zenon DEF MInv

\* SYS_THREAD keeps the invariant: the new task has the address space and the
\* break of its maker.
LEMMA ThreadStep ==
  ASSUME MInv, NEW s \in Slots, Thread(s), spoilt' \in BOOLEAN PROVE MInv'
<1>1. CASE FreeSlots = {} /\ Refused
  BY <1>1, RefusedStep, Zenon
<1>2. CASE FreeSlots # {}
  <2> DEFINE i == alloc_slot
  <2>1. i \in Slots /\ state[i] = "UNUSED" /\ pt[i] = Nil
    BY <1>2, AllocSlotFacts, Zenon DEF Occupied
  <2>2. /\ pt' = [pt EXCEPT ![i] = pt[s]] /\ brk' = [brk EXCEPT ![i] = brk[s]]
        /\ dma_next' = [dma_next EXCEPT ![i] = 0]
        /\ state' = [state EXCEPT ![i] = "LIVE"] /\ failed' = FALSE
        /\ UNCHANGED <<free, table, leaf>> /\ state[s] = "LIVE"
    BY <1>2, Zenon DEF Thread, Done, Running
  <2> HIDE DEF i
  <2>3. pt[s] # Nil /\ s # i
    BY <2>1, <2>2, Zenon DEF MInv, Rooted
  <2>4. TypeOK'
    BY <2>1, <2>2, Zenon DEF MInv, TypeOK
  <2>5. /\ \A k \in Slots : pt'[k] = IF k = i THEN pt[s] ELSE pt[k]
        /\ \A k \in Slots : brk'[k] = IF k = i THEN brk[s] ELSE brk[k]
        /\ \A k \in Slots : state'[k] = IF k = i THEN "LIVE" ELSE state[k]
    BY <2>1, <2>2, Zenon DEF MInv, TypeOK
  <2>6. Roots' = Roots
    BY <2>1, <2>3, <2>5 DEF Roots
  <2>7. OneOwner'
    BY <2>2, <2>6 DEF MInv, OneOwner
  <2>8. OneBreak'
    BY <2>5 DEF MInv, OneBreak, Break
  <2>9. Rooted'
    BY <2>3, <2>5, Zenon DEF MInv, Rooted
  <2>10. BuiltAlone'
    BY <2>2, <2>3, <2>5 DEF MInv, BuiltAlone
  <2> QED
    BY <2>4, <2>7, <2>8, <2>9, <2>10, Zenon DEF MInv
<1> QED
  BY <1>1, <1>2, Zenon DEF Thread

\* The memory is one.
LEMMA MemoryFacts ==
  ASSUME TypeOK
  PROVE  /\ Memory \in Memories
         /\ Memory.free = free /\ Memory.table = table /\ Memory.leaf = leaf
BY RootFacts, Zenon DEF Memory, Memories

\* SYS_NEWTASK keeps the invariant: its pages are new, and nobody else's.
LEMMA NewTaskStep ==
  ASSUME MInv, NEW s \in Slots, NewTask(s), spoilt' \in BOOLEAN PROVE MInv'
<1>1. CASE Refused
  BY <1>1, RefusedStep, Zenon
<1>2. CASE /\ FreeSlots # {} /\ free # {} /\ Becomes(NewSpace(Memory))
           /\ pt' = [pt EXCEPT ![alloc_slot] = pmm_alloc(Memory)]
           /\ brk' = [brk EXCEPT ![alloc_slot] = BrkAtBirth(Memory)]
           /\ dma_next' = [dma_next EXCEPT ![alloc_slot] = 0]
           /\ Done /\ UNCHANGED state
  <2> DEFINE i == alloc_slot
             f == pmm_alloc(Memory)
             b == BrkAtBirth(Memory)
  <2>1. i \in Slots /\ state[i] = "UNUSED" /\ pt[i] = Nil
    BY <1>2, AllocSlotFacts, Zenon DEF Occupied
  <2>2. Sole(free, table, leaf, Roots)
    BY SoleIsOneOwner, Zenon DEF MInv
  <2>3. /\ NewSpace(Memory) \in Memories /\ f \in free
        /\ Sole(NewSpace(Memory).free, NewSpace(Memory).table,
                NewSpace(Memory).leaf, Roots \cup {f})
    BY <1>2, <2>2, NewSpaceSole, MemoryFacts, RootFacts, Zenon DEF MInv
  <2>4. /\ free' \in SUBSET Frames /\ table' \in Tables /\ leaf' \in Leaves
        /\ Sole(free', table', leaf', Roots \cup {f})
    BY <1>2, <2>3, Zenon DEF Becomes, Memories
  <2>5. f \in Frames /\ f # Nil /\ f \notin Roots
    BY <2>2, <2>3, RootFacts, Numbers DEF MInv, Sole
  <2>6. b \in 0 .. Word - 1
    BY Numbers DEF BrkAtBirth
  <2>7. /\ pt' = [pt EXCEPT ![i] = f] /\ brk' = [brk EXCEPT ![i] = b]
        /\ dma_next' = [dma_next EXCEPT ![i] = 0] /\ state' = state
        /\ failed' = FALSE
    BY <1>2, Zenon DEF Done
  <2> HIDE DEF i, f, b
  <2>8. TypeOK'
    BY <2>1, <2>4, <2>5, <2>6, <2>7, Zenon DEF MInv, TypeOK, Tables, Leaves
  <2>9. /\ \A k \in Slots : pt'[k] = IF k = i THEN f ELSE pt[k]
        /\ \A k \in Slots : brk'[k] = IF k = i THEN b ELSE brk[k]
    BY <2>1, <2>7, Zenon DEF MInv, TypeOK
  <2>10. Roots' = Roots \cup {f}
    BY <2>1, <2>5, <2>9 DEF Roots
  <2>11. OneOwner'
    BY <2>4, <2>10 DEF OneOwner, Sole
  <2>12. \A k \in Slots : pt[k] # f
    BY <2>5, RootFacts, Zenon DEF MInv
  <2>13. OneBreak'
    BY <2>9, <2>12 DEF MInv, OneBreak, Break
  <2>14. Rooted' /\ BuiltAlone'
    BY <2>1, <2>5, <2>7, <2>9, <2>12 DEF MInv, Rooted, BuiltAlone
  <2> QED
    BY <2>8, <2>11, <2>13, <2>14, Zenon DEF MInv
<1> QED
  BY <1>1, <1>2, Zenon DEF NewTask

\* SYS_DMA_ALLOC keeps the invariant, also where it maps a page over another.
LEMMA DmaStep ==
  ASSUME MInv, NEW s \in Slots, DmaAlloc(s), spoilt' \in BOOLEAN PROVE MInv'
<1>1. CASE Refused
  BY <1>1, RefusedStep, Zenon
<1>2. CASE /\ DmaNext(s) \in Dma
           /\ Becomes(Mapped(Taken(Memory), pt[s], DmaNext(s), pmm_alloc(Memory)))
           /\ dma_next' = [dma_next EXCEPT ![s] = DmaNext(s) + 1]
           /\ Done /\ UNCHANGED <<state, pt, brk>>
  <2> DEFINE m2 == Given(Memory, pt[s], DmaNext(s))
  <2>1. pt[s] \in Roots /\ DmaNext(s) \in Pages /\ Sole(free, table, leaf, Roots)
    BY <1>2, RootFacts, PageFacts, SoleIsOneOwner, Zenon
       DEF DmaAlloc, Running, MInv, Rooted
  <2>2. m2 \in Memories /\ Sole(m2.free, m2.table, m2.leaf, Roots)
    BY <2>1, GivenSole, MemoryFacts, RootFacts, Zenon DEF MInv
  <2>3. free' = m2.free /\ table' = m2.table /\ leaf' = m2.leaf
    BY <1>2, Zenon DEF Becomes, Given
  <2>4. dma_next' \in [Slots -> {0} \cup DMA_BASE .. DMA_BASE + MaxDma]
    <3>1. DmaNext(s) + 1 \in DMA_BASE .. DMA_BASE + MaxDma
      BY <1>2, MemoryAssumption DEF Dma
    <3> QED
      BY <1>2, <3>1, Zenon DEF MInv, TypeOK
  <2> HIDE DEF m2
  <2>5. TypeOK'
    BY <1>2, <2>2, <2>3, <2>4, Zenon DEF MInv, TypeOK, Memories, Tables, Leaves, Done
  <2>6. OneOwner'
    BY <1>2, <2>2, <2>3, SlotsKept DEF OneOwner, Sole
  <2>7. OneBreak'
    BY <1>2, BreaksKept, Zenon DEF Break
  <2> QED
    BY <1>2, <2>5, <2>6, <2>7, SlotsKept, Zenon DEF MInv
<1> QED
  BY <1>1, <1>2, Zenon DEF DmaAlloc

\* SYS_VMLOAD keeps the invariant, also when memory runs out on the way.
LEMMA VmLoadStep ==
  ASSUME MInv, NEW s \in Slots, NEW t \in Slots, NEW P \in Segments,
         VmLoad(s, t, P), spoilt' \in BOOLEAN
  PROVE  MInv'
<1> DEFINE r == Region(CHOOSE p \in P : TRUE)
           root == pt[t]
           new == Absent(root, P)
<1>1. P \in SUBSET Pages /\ P # {}
  BY PageFacts, Zenon DEF Segments
<1>2. r \in Regions
  BY <1>1, RegionFacts, Zenon
<1>3. root \in Roots /\ Sole(free, table, leaf, Roots)
  BY RootFacts, SoleIsOneOwner, Zenon DEF VmLoad, MInv
<1>4. /\ vm_load_segment(root, r, P) /\ UNCHANGED <<state, pt, brk, dma_next>>
  BY Zenon DEF VmLoad
<1>5. new \in SUBSET Pages
  BY <1>1, Zenon DEF Absent
<1> HIDE DEF r, root, new
<1>6. \/ \E Q \in SUBSET Pages : MapAll(root, r, Q)
      \/ free' = {} /\ UNCHANGED <<table, leaf>>
  <2>1. \A k : FirstOf(new, k) \in SUBSET Pages
    BY <1>5, Zenon DEF FirstOf
  <2> QED
    BY <1>4, <1>5, <2>1, Zenon DEF vm_load_segment, new
<1>7. failed' = FALSE
  BY <1>4, Zenon DEF vm_load_segment, Done
<1>8. /\ free' \in SUBSET Frames /\ table' \in Tables /\ leaf' \in Leaves
      /\ Sole(free', table', leaf', Roots)
  <2>1. CASE \E Q \in SUBSET Pages : MapAll(root, r, Q)
    BY <1>2, <1>3, <2>1, MapAllTakes, RootFacts, Zenon DEF MInv
  <2>2. CASE free' = {} /\ UNCHANGED <<table, leaf>>
    BY <1>3, <2>2, RootFacts DEF MInv, Sole
  <2> QED
    BY <1>6, <2>1, <2>2, Zenon
<1>9. TypeOK'
  BY <1>4, <1>7, <1>8, Zenon DEF MInv, TypeOK, Tables, Leaves
<1>10. OneOwner'
  BY <1>4, <1>8, SlotsKept DEF OneOwner, Sole
<1>11. OneBreak'
  BY <1>4, BreaksKept, Zenon DEF Break
<1> QED
  BY <1>4, <1>9, <1>10, <1>11, SlotsKept, Zenon DEF MInv

-----------------------------------------------------------------------------
(* SYS_SBRK                                                                *)

\* The break of a task is a value of a register, and never 0.
LEMMA BreakFacts ==
  ASSUME TypeOK, NEW s \in Slots PROVE Break(s) \in 1 .. Word - 1
BY Numbers DEF Break, TypeOK

\* The sweep gives every task of the address space the same break: none of them
\* is left out for being under construction.
LEMMA SweepFacts ==
  ASSUME MInv, NEW s \in Slots, pt[s] # Nil, NEW want \in 1 .. Word - 1,
         BreakOfSpace(s, want), UNCHANGED pt
  PROVE  /\ brk' \in [Slots -> 0 .. Word - 1] /\ OneBreak'
         /\ \A t \in Slots : Break(t)' = IF pt[t] = pt[s] THEN want ELSE Break(t)
<1>1. brk' = [i \in Slots |->
                IF i = s \/ (pt[i] = pt[s] /\ state[i] # "UNUSED") THEN want
                ELSE brk[i]]
  BY Zenon DEF BreakOfSpace
<1>2. \A t \in Slots : pt[t] = pt[s] => brk'[t] = want
  BY <1>1, Zenon DEF MInv, BuiltAlone
<1>3. \A t \in Slots : pt[t] # pt[s] => brk'[t] = brk[t]
  BY <1>1, Zenon
<1>4. brk' \in [Slots -> 0 .. Word - 1]
  BY <1>1 DEF MInv, TypeOK
<1>5. \A t \in Slots : Break(t)' = IF pt[t] = pt[s] THEN want ELSE Break(t)
  BY <1>2, <1>3 DEF Break
<1> QED
  BY <1>4, <1>5, Zenon DEF MInv, OneBreak

\* A refused sbrk at most writes the break out.
LEMMA SbrkRefusedFacts ==
  ASSUME TypeOK, NEW s \in Slots, SbrkRefused(s)
  PROVE  /\ brk' \in [Slots -> 0 .. Word - 1] /\ failed' = TRUE
         /\ \A t \in Slots : Break(t)' = Break(t)
<1>1. Break(s) \in 1 .. Word - 1
  BY BreakFacts, Zenon
<1>2. /\ brk' = [brk EXCEPT ![s] = Break(s)] /\ failed' = TRUE
      /\ brk \in [Slots -> 0 .. Word - 1]
  BY Zenon DEF SbrkRefused, TypeOK
<1>3. \A t \in Slots : brk'[t] = IF t = s THEN Break(s) ELSE brk[t]
  BY <1>2, Zenon
<1> QED
  BY <1>1, <1>2, <1>3 DEF Break

\* The table that a refused sbrk may leave behind is nobody else's.
LEMMA OnlyTableSole ==
  ASSUME free \in SUBSET Frames, table \in Tables, leaf \in Leaves,
         NEW R \in SUBSET Frames, NEW root \in R, Sole(free, table, leaf, R),
         NEW r \in Regions, OnlyTable(root, r), UNCHANGED leaf
  PROVE  /\ free' \in SUBSET Frames /\ table' \in Tables
         /\ Sole(free', table', leaf', R)
<1>1. CASE table[root][r] = Nil /\ Cardinality(free) >= 2
  <2> DEFINE h == Lowest(free)
  <2>1. free # {}
    BY <1>1, FS_EmptySet
  <2>2. h \in free
    BY <2>1, Numbers, LowestFacts, Zenon
  <2>3. free' = free \ {h} /\ table' = [table EXCEPT ![root][r] = h]
    BY <1>1, Zenon DEF OnlyTable
  <2> HIDE DEF h
  <2>4. table' \in Tables
    BY <2>2, <2>3, Zenon DEF Tables
  <2>5. \A q \in R, k \in Regions :
          table'[q][k] = IF q = root /\ k = r THEN h ELSE table[q][k]
    BY <2>3, Zenon DEF Tables
  <2>6. /\ \A q \in R, a \in Pages : leaf[q][a] \notin free
        /\ \A q \in R, k \in Regions : table[q][k] \notin free
    <3>1. ASSUME NEW q \in R, NEW a \in Pages PROVE leaf[q][a] \notin free
      BY Zenon DEF Sole
    <3>2. ASSUME NEW q \in R, NEW k \in Regions, table[q][k] # Nil
          PROVE  table[q][k] \notin free
      BY <3>2, Zenon DEF Sole
    <3>3. Nil \notin free
      BY Numbers, Zenon
    <3> QED
      BY <3>1, <3>2, <3>3, Zenon
  <2>7. Takes(free, table, leaf, free', table', leaf', R)
    BY <2>2, <2>3, <2>5, <2>6 DEF Takes
  <2> QED
    BY <2>3, <2>4, <2>7, TakesKeepsSole
<1>2. CASE ~(table[root][r] = Nil /\ Cardinality(free) >= 2)
  BY <1>2, Zenon DEF OnlyTable
<1> QED
  BY <1>1, <1>2, Zenon

\* Pages that go back to the list are no longer mapped anywhere.
LEMMA UnmapSole ==
  ASSUME free \in SUBSET Frames, table \in Tables, leaf \in Leaves,
         NEW R \in SUBSET Frames, NEW root \in R, Sole(free, table, leaf, R),
         NEW P \in SUBSET Pages, Unmap(root, P), UNCHANGED table
  PROVE  /\ free' \in SUBSET Frames /\ leaf' \in Leaves
         /\ Sole(free', table', leaf', R)
<1>1. /\ free' = free \cup ({leaf[root][p] : p \in P} \cap Frames)
      /\ leaf' = [leaf EXCEPT ![root] =
                    [p \in Pages |-> IF p \in P THEN Unmapped ELSE @[p]]]
  BY Zenon DEF Unmap
<1>2. leaf' \in Leaves
  BY <1>1, Zenon DEF Leaves
<1>3. \A q \in R, a \in Pages :
        leaf'[q][a] = IF q = root /\ a \in P THEN Unmapped ELSE leaf[q][a]
  BY <1>1, Zenon DEF Leaves
<1>4. ASSUME NEW q \in R, NEW a \in Pages, leaf'[q][a] \in Frames
      PROVE  leaf'[q][a] = leaf[q][a] /\ leaf'[q][a] \notin free'
  BY <1>1, <1>3, <1>4, Numbers, SMTT(30) DEF Sole
<1>5. ASSUME NEW q \in R PROVE q \notin free'
  BY <1>1, <1>5, SMTT(30) DEF Sole
<1>6. ASSUME NEW q \in R, NEW k \in Regions, table[q][k] # Nil
      PROVE  table[q][k] \notin free'
  BY <1>1, <1>6 DEF Sole
<1> QED
  BY <1>1, <1>2, <1>4, <1>5, <1>6 DEF Sole

\* What a step of sbrk leaves to be shown: the memory and the breaks.
LEMMA SbrkFrame ==
  ASSUME MInv, UNCHANGED <<state, pt, dma_next>>, failed' \in BOOLEAN,
         spoilt' \in BOOLEAN, brk' \in [Slots -> 0 .. Word - 1], OneBreak',
         free' \in SUBSET Frames, table' \in Tables, leaf' \in Leaves,
         Sole(free', table', leaf', Roots)
  PROVE  MInv'
<1>1. TypeOK'
  BY Zenon DEF MInv, TypeOK, Tables, Leaves
<1>2. OneOwner'
  BY SlotsKept DEF OneOwner, Sole
<1> QED
  BY <1>1, <1>2, SlotsKept, Zenon DEF MInv

\* SYS_SBRK keeps the invariant.
LEMMA SbrkStep ==
  ASSUME MInv, NEW s \in Slots, NEW d \in Deltas, Sbrk(s, d), spoilt' \in BOOLEAN
  PROVE  MInv'
<1> DEFINE old == Break(s)
           want == Want(s, d)
           root == pt[s]
<1>1. /\ UNCHANGED <<state, pt, dma_next>> /\ root # Nil /\ root \in Roots
  BY RootFacts, Zenon DEF Sbrk, Running, MInv, Rooted
<1>2. /\ free \in SUBSET Frames /\ table \in Tables /\ leaf \in Leaves
      /\ Roots \in SUBSET Frames /\ Sole(free, table, leaf, Roots) /\ TypeOK
  BY RootFacts, SoleIsOneOwner, Zenon DEF MInv
<1>3. old \in 1 .. Word - 1 /\ want \in 0 .. Word - 1
  <2>1. old \in 1 .. Word - 1
    BY <1>2, BreakFacts, Zenon
  <2>2. d \in Int
    BY MemoryAssumption, Zenon
  <2> QED
    BY <2>1, <2>2, Numbers DEF Want
<1>4. "heap" \in Regions /\ \A a, b : Between(a, b) \in SUBSET Pages
  BY Zenon DEF Regions, Between
<1>5. CASE SbrkRefused(s) /\ UNCHANGED <<free, table, leaf>>
  BY <1>1, <1>2, <1>5, SbrkRefusedFacts, BreaksKept, SbrkFrame, Zenon
<1>6. CASE SbrkRefused(s) /\ OnlyTable(root, "heap") /\ UNCHANGED leaf
  BY <1>1, <1>2, <1>4, <1>6, SbrkRefusedFacts, BreaksKept, OnlyTableSole, Zenon,
     SbrkFrame
<1>7. ASSUME NEW P \in SUBSET Pages, MapAll(root, "heap", P), want >= old,
             BreakOfSpace(s, want), Done
      PROVE  MInv'
  <2>1. want \in 1 .. Word - 1
    BY <1>3, <1>7
  <2>2. brk' \in [Slots -> 0 .. Word - 1] /\ OneBreak'
    BY <1>1, <1>7, <2>1, SweepFacts, Zenon
  <2>3. /\ free' \in SUBSET Frames /\ table' \in Tables /\ leaf' \in Leaves
        /\ Sole(free', table', leaf', Roots)
    BY <1>1, <1>2, <1>4, <1>7, MapAllTakes, Zenon
  <2> QED
    BY <1>1, <1>7, <2>2, <2>3, SbrkFrame, Zenon DEF Done
<1>8. CASE Shrink(s, ShrunkTo(want))
  <2>1. ShrunkTo(want) \in 1 .. Word - 1
    BY <1>3, Numbers DEF ShrunkTo
  <2>2. PICK P \in SUBSET Pages : Unmap(root, P)
    BY <1>4, <1>8, Zenon DEF Shrink
  <2>3. BreakOfSpace(s, ShrunkTo(want)) /\ failed' = FALSE /\ UNCHANGED table
    BY <1>8, Zenon DEF Shrink, Done
  <2>4. brk' \in [Slots -> 0 .. Word - 1] /\ OneBreak'
    BY <1>1, <2>1, <2>3, SweepFacts, Zenon
  <2>5. /\ free' \in SUBSET Frames /\ leaf' \in Leaves
        /\ Sole(free', table', leaf', Roots)
    BY <1>1, <1>2, <2>2, <2>3, UnmapSole, Zenon
  <2> QED
    BY <1>1, <1>2, <2>3, <2>4, <2>5, SbrkFrame, Zenon
<1>9. CASE BreakOfSpace(s, old) /\ Done /\ UNCHANGED <<free, table, leaf>>
  BY <1>1, <1>2, <1>3, <1>9, SweepFacts, SbrkFrame, Zenon DEF Done
<1>10. CASE Grow(s, want)
  BY <1>4, <1>5, <1>6, <1>7, <1>10, Zenon DEF Grow, SbrkRolledBack
<1> QED
  BY <1>8, <1>9, <1>10, Zenon DEF Sbrk

-----------------------------------------------------------------------------
(* Retirement                                                              *)

\* vm_free_task takes back what one root reached, and no other root did.
LEMMA FreeTaskSole ==
  ASSUME free \in SUBSET Frames, table \in Tables, leaf \in Leaves,
         NEW R \in SUBSET Frames, NEW root \in R, Sole(free, table, leaf, R),
         vm_free_task(root)
  PROVE  /\ free' \in SUBSET Frames /\ table' \in Tables /\ leaf' \in Leaves
         /\ Sole(free', table', leaf', R \ {root})
<1> DEFINE Q == R \ {root}
<1>1. /\ free' = free \cup SpaceFrames(root)
      /\ table' = [table EXCEPT ![root] = NoTables]
      /\ leaf' = [leaf EXCEPT ![root] = Zeroed]
  BY Zenon DEF vm_free_task
<1>2. free' \in SUBSET Frames
  BY <1>1, Zenon DEF SpaceFrames
<1>3. /\ NoTables \in [Regions -> Frames \cup {Nil}]
      /\ Zeroed \in [Pages -> Frames \cup {Nil, Unmapped}]
  BY Zenon DEF NoTables, Zeroed
<1>4. table' \in Tables /\ leaf' \in Leaves
  BY <1>1, <1>3, Zenon DEF Tables, Leaves
<1>5. \A q \in Q : table'[q] = table[q] /\ leaf'[q] = leaf[q]
  BY <1>1, Zenon DEF Tables, Leaves
<1>6. \A f \in free' :
        \/ f \in free \/ f = root
        \/ f \in Frames /\ \E g \in Regions : table[root][g] = f
        \/ f \in Frames /\ \E p \in Pages : leaf[root][p] = f
  BY <1>1, Zenon DEF SpaceFrames
<1> HIDE DEF Q
<1>7. ASSUME NEW q \in R, q # root PROVE q \notin free'
  BY <1>6, <1>7, Numbers, SMTT(30) DEF Sole
<1>8. ASSUME NEW q \in R, q # root, NEW k \in Regions, table[q][k] # Nil
      PROVE  table[q][k] \notin free'
  BY <1>6, <1>8, Numbers, SMTT(30) DEF Sole
<1>9. ASSUME NEW q \in R, q # root, NEW a \in Pages, leaf[q][a] \in Frames
      PROVE  leaf[q][a] \notin free'
  BY <1>6, <1>9, Numbers DEF Sole
<1> QED
  BY <1>2, <1>4, <1>5, <1>7, <1>8, <1>9, SMTT(30) DEF Sole, Q

\* task_retire keeps the invariant: the last task of an address space frees it.
LEMMA RetireStep ==
  ASSUME MInv, NEW t \in Slots, task_retire(t), Occupied(t), spoilt' \in BOOLEAN
  PROVE  MInv'
<1> DEFINE root == pt[t]
<1>1. /\ pt' = [pt EXCEPT ![t] = Nil] /\ state' = [state EXCEPT ![t] = "UNUSED"]
      /\ UNCHANGED <<brk, dma_next>> /\ failed' = FALSE
  BY Zenon DEF task_retire, Done
<1>2. root # Nil /\ root \in Roots
  BY RootFacts, Zenon DEF MInv, Rooted, Occupied, TypeOK
<1>3. /\ free \in SUBSET Frames /\ table \in Tables /\ leaf \in Leaves
      /\ Roots \in SUBSET Frames /\ Sole(free, table, leaf, Roots)
  BY RootFacts, SoleIsOneOwner, Zenon DEF MInv
<1>4. /\ \A k \in Slots : pt'[k] = IF k = t THEN Nil ELSE pt[k]
      /\ \A k \in Slots : state'[k] = IF k = t THEN "UNUSED" ELSE state[k]
  BY <1>1, Zenon DEF MInv, TypeOK
<1>5. /\ free' \in SUBSET Frames /\ table' \in Tables /\ leaf' \in Leaves
      /\ Sole(free', table', leaf', Roots')
  <2>1. CASE Shared(t) /\ UNCHANGED <<free, table, leaf>>
    <3>1. Roots' = Roots
      BY <1>4, <2>1 DEF Roots, Shared
    <3> QED
      BY <1>3, <2>1, <3>1, Zenon
  <2>2. CASE ~Shared(t) /\ vm_free_task(root)
    <3>1. Roots' = Roots \ {root}
      BY <1>4, <2>2 DEF Roots, Shared
    <3> QED
      BY <1>2, <1>3, <2>2, <3>1, FreeTaskSole, Zenon
  <2> QED
    BY <2>1, <2>2, Zenon DEF task_retire
<1>6. TypeOK'
  BY <1>1, <1>5, ZenonT(30) DEF MInv, TypeOK, Tables, Leaves
<1>7. OneOwner'
  BY <1>5, Zenon DEF OneOwner, Sole
<1>8. OneBreak'
  BY <1>1, <1>4 DEF MInv, OneBreak, Break
<1>9. Rooted' /\ BuiltAlone'
  BY <1>4, Zenon DEF MInv, Rooted, BuiltAlone
<1> QED
  BY <1>6, <1>7, <1>8, <1>9, Zenon DEF MInv

-----------------------------------------------------------------------------
(* The theorems that need no more than this                                *)

\* pmm_init has every frame to give.
LEMMA ArenaFacts ==
  /\ Arena \in Memories /\ Arena.free = Frames
  /\ Sole(Arena.free, Arena.table, Arena.leaf, {})
<1>1. [f \in Frames |-> NoTables] \in Tables /\ [f \in Frames |-> Zeroed] \in Leaves
  BY Zenon DEF NoTables, Zeroed, Tables, Leaves
<1> QED
  BY <1>1, Zenon DEF Arena, Memories, Sole

\* The memory after kmain.
LEMMA MInvInit == ASSUME Init PROVE MInv
<1> DEFINE f == pmm_alloc(Arena)
           m == NewSpace(Arena)
           b == BrkAtBirth(Arena)
<1>1. Arena.free # {}
  BY ArenaFacts, MemoryAssumption, Zenon
<1>2. /\ m \in Memories /\ f \in Frames
      /\ Sole(m.free, m.table, m.leaf, {} \cup {f})
  BY <1>1, ArenaFacts, NewSpaceSole
<1>3. b \in 0 .. Word - 1
  BY Numbers, SMTT(30) DEF BrkAtBirth
<1>4. /\ free = m.free /\ table = m.table /\ leaf = m.leaf
      /\ state = [s \in Slots |-> IF s = 0 THEN "LIVE" ELSE "UNUSED"]
      /\ pt = [s \in Slots |-> IF s = 0 THEN f ELSE Nil]
      /\ brk = [s \in Slots |-> IF s = 0 THEN b ELSE 0]
      /\ dma_next = [s \in Slots |-> 0] /\ failed = FALSE /\ spoilt \in BOOLEAN
  BY Zenon DEF Init
<1> HIDE DEF f, m, b
<1>5. TypeOK
  <2>1. free \subseteq Frames /\ table \in Tables /\ leaf \in Leaves
    BY <1>2, <1>4, Zenon DEF Memories
  <2>2. 0 \in 0 .. Word - 1
    BY Numbers
  <2>3. brk \in [Slots -> 0 .. Word - 1] /\ pt \in [Slots -> Frames \cup {Nil}]
    BY <1>2, <1>3, <1>4, <2>2, Zenon
  <2> QED
    BY <1>4, <2>1, <2>3, ZenonT(30) DEF TypeOK, Tables, Leaves
<1>6. Roots = {f}
  BY <1>2, <1>4, Numbers, Zenon DEF Roots
<1>7. OneOwner
  BY <1>2, <1>4, <1>6 DEF OneOwner, Sole
<1>8. OneBreak /\ Rooted /\ BuiltAlone
  BY <1>2, <1>4, Numbers, Zenon DEF OneBreak, Break, Rooted, BuiltAlone
<1> QED
  BY <1>5, <1>7, <1>8, Zenon DEF MInv

\* Every call keeps the invariant.
LEMMA MInvStep == ASSUME MInv, Next PROVE MInv'
<1>1. spoilt' \in BOOLEAN
  BY Zenon DEF Next, MInv, TypeOK
<1>2. ASSUME NEW t \in Slots, NEW s \in Slots, Exit(s) \/ Kill(s, t) PROVE MInv'
  BY <1>1, <1>2, RetireStep, Zenon DEF Exit, Kill, Running, Occupied
<1> QED
  BY <1>1, <1>2, NewTaskStep, ThreadStep, SbrkStep, DmaStep, StartStep, VmLoadStep, Zenon
     DEF Next, Call

\* The invariant of the memory.
LEMMA MInvariance == Spec => []MInv
<1>1. ASSUME MInv, UNCHANGED vars PROVE MInv'
  BY <1>1 DEF vars, MInv, TypeOK, OneOwner, Roots, OneBreak, Break, Rooted, BuiltAlone
<1> QED
  BY <1>1, MInvInit, MInvStep, PTL DEF Spec

\* No frame has two owners, and none in use is on the free list, for any number
\* of frames, tasks and pages, whatever fails for lack of memory and in whatever
\* order threads of an address space are retired (pmm.c, vm.c, task_retire).
THEOREM FramesHaveOneOwner == Spec => []OneOwner
<1>1. MInv => OneOwner
  BY Zenon DEF MInv
<1> QED
  BY <1>1, MInvariance, PTL

\* The threads of an address space agree on where their heap ends, whoever moved
\* it last and however many there are (the sweep at the end of SYS_SBRK).
THEOREM ThreadsShareOneBreak == Spec => []OneBreak
<1>1. MInv => OneBreak
  BY Zenon DEF MInv
<1> QED
  BY <1>1, MInvariance, PTL

\* A sbrk that answers -1 has unmapped what it had mapped and has moved nobody's
\* break (the roll-back in SYS_SBRK).
THEOREM FailedSbrkIsUndone == Spec => FailedSbrkChangesNothing
<1> DEFINE A == failed' => /\ leaf' = leaf
                           /\ \A s \in Slots : Break(s)' = Break(s)
<1>1. ASSUME MInv, Next PROVE A
  <2>1. ASSUME NEW s \in Slots, NEW d \in Deltas, Sbrk(s, d), failed' PROVE A
    <3>1. TypeOK
      BY <1>1, Zenon DEF MInv
    <3>2. SbrkRefused(s) /\ UNCHANGED leaf
      BY <2>1, Zenon DEF Sbrk, Grow, Shrink, Done, SbrkRolledBack
    <3> QED
      BY <3>1, <3>2, SbrkRefusedFacts, Zenon
  <2>2. ASSUME failed' = FALSE PROVE A
    BY <2>2, Zenon
  <2>3. ASSUME NEW s \in Slots, NewTask(s) \/ Thread(s) \/ DmaAlloc(s) \/ Exit(s)
        PROVE  failed' = FALSE
    BY <2>3, Zenon DEF NewTask, Thread, DmaAlloc, Exit, task_retire, Refused, Done
  <2>4. ASSUME NEW s \in Slots, NEW t \in Slots, Start(s, t) \/ Kill(s, t)
        PROVE  failed' = FALSE
    BY <2>4, Zenon DEF Start, Kill, task_retire, Done
  <2>5. ASSUME NEW s \in Slots, NEW t \in Slots, NEW P \in Segments, VmLoad(s, t, P)
        PROVE  failed' = FALSE
    BY <2>5, Zenon DEF VmLoad, vm_load_segment, Done
  <2> QED
    BY <1>1, <2>1, <2>2, <2>3, <2>4, <2>5, Zenon DEF Next, Call
<1>2. MInv /\ [Next]_vars => [A]_vars
  BY <1>1, Zenon
<1> QED
  BY <1>2, MInvariance, PTL DEF Spec, FailedSbrkChangesNothing

-----------------------------------------------------------------------------
(* The pages of the heap                                                   *)

\* Division rounds down, also below 0.
LEMMA DivFacts ==
  ASSUME NEW a \in Int, NEW n \in Nat \ {0}
  PROVE  /\ a \div n \in Int /\ (a \div n) * n <= a
         /\ a < (a \div n) * n + n
OBVIOUS

\* Multiples of a page are in the order of the pages.
LEMMA Times ==
  ASSUME NEW a \in Int, NEW b \in Int, NEW n \in Nat \ {0}
  PROVE  /\ a * n < b * n <=> a < b
         /\ a < b => a * n + n <= b * n
         /\ (a + 1) * n = a * n + n
         /\ a * n \in Int
OBVIOUS

\* PGROUNDUP leaves the same pages below (task.c, riscv.h).
LEMMA RoundUp ==
  ASSUME NEW x \in 0 .. UHEAP_TOP, NEW p \in Int
  PROVE  p * PGSIZE < PGROUNDUP(x) <=> p * PGSIZE < x
<1> DEFINE k == (x + PGSIZE - 1) \div PGSIZE
<1>1. /\ PGSIZE \in Nat \ {0} /\ x \in Int /\ x + PGSIZE - 1 \in Int
      /\ x + PGSIZE - 1 \in 0 .. Word - 1
  BY MemoryAssumption
<1>2. (x + PGSIZE - 1) % Word = x + PGSIZE - 1
  BY <1>1, MemoryAssumption
<1>3. PGROUNDUP(x) = k * PGSIZE
  BY <1>2, Zenon DEF PGROUNDUP
<1>4. k \in Int /\ k * PGSIZE <= x + PGSIZE - 1 /\ x + PGSIZE - 1 < k * PGSIZE + PGSIZE
  BY <1>1, DivFacts, Zenon
<1> HIDE DEF k
<1>5. /\ p * PGSIZE < k * PGSIZE <=> p < k
      /\ p < k => p * PGSIZE + PGSIZE <= k * PGSIZE
      /\ k <= p => k * PGSIZE <= p * PGSIZE
      /\ p * PGSIZE \in Int /\ k * PGSIZE \in Int
  BY <1>1, <1>4, Times
<1> QED
  BY <1>1, <1>3, <1>4, <1>5

\* An aligned address is the address of its page.
LEMMA Aligned ==
  ASSUME NEW a \in Int, NEW n \in Nat \ {0}, a % n = 0
  PROVE  (a \div n) * n = a
OBVIOUS

\* The heap is the pages of its window, and its first page is the lowest.
LEMMA HeapFacts ==
  ASSUME NEW p \in Int
  PROVE  /\ p \in Heap <=> UHEAP_BASE <= p * PGSIZE /\ p * PGSIZE < UHEAP_TOP
         /\ p \in Heap =>
              (p * PGSIZE < UHEAP_BASE + PGSIZE <=> p = FirstHeapPage)
<1> DEFINE b == UHEAP_BASE \div PGSIZE
           t == UHEAP_TOP \div PGSIZE
<1>1. /\ PGSIZE \in Nat \ {0} /\ UHEAP_BASE \in Int /\ UHEAP_TOP \in Int
      /\ UHEAP_BASE % PGSIZE = 0 /\ UHEAP_TOP % PGSIZE = 0
  BY MemoryAssumption
<1>2. b \in Int /\ t \in Int /\ b * PGSIZE = UHEAP_BASE /\ t * PGSIZE = UHEAP_TOP
  BY <1>1, Aligned
<1>3. FirstHeapPage = b /\ (p \in Heap <=> b <= p /\ p < t)
  BY <1>2 DEF FirstHeapPage, Heap
<1> HIDE DEF b, t
<1>4. /\ b <= p <=> b * PGSIZE <= p * PGSIZE
      /\ p < t <=> p * PGSIZE < t * PGSIZE
      /\ p < b + 1 <=> p * PGSIZE < (b + 1) * PGSIZE
      /\ (b + 1) * PGSIZE = b * PGSIZE + PGSIZE
  <2>1. p * PGSIZE \in Int /\ b * PGSIZE \in Int /\ b + 1 \in Int
    BY <1>1, <1>2
  <2>2. p * PGSIZE < b * PGSIZE <=> p < b
    BY <1>1, <1>2, Times, Zenon
  <2>3. p * PGSIZE < t * PGSIZE <=> p < t
    BY <1>1, <1>2, Times, Zenon
  <2>4. /\ p * PGSIZE < (b + 1) * PGSIZE <=> p < b + 1
        /\ (b + 1) * PGSIZE = b * PGSIZE + PGSIZE
    BY <1>1, <1>2, <2>1, Times, Zenon
  <2> QED
    BY <1>2, <2>1, <2>2, <2>3, <2>4
<1> QED
  BY <1>1, <1>2, <1>3, <1>4

\* The pages that a move of the break maps or unmaps.
LEMMA BetweenFacts ==
  ASSUME NEW a \in UHEAP_BASE .. UHEAP_TOP, NEW b \in 0 .. UHEAP_TOP
  PROVE  LET P == Between(PGROUNDUP(a), PGROUNDUP(b))
         IN /\ P \in SUBSET Heap
            /\ \A p \in Heap : p \in P <=> ~(p * PGSIZE < a) /\ p * PGSIZE < b
<1>0. /\ UHEAP_BASE \in Nat /\ UHEAP_TOP \in Nat /\ PGSIZE \in Nat \ {0}
      /\ a \in Nat /\ b \in Nat
  BY MemoryAssumption
<1>1. PGROUNDUP(a) \in Int /\ PGROUNDUP(b) \in Int
  <2>1. \A x \in Int : x % Word \in Int
    BY Numbers
  <2>2. (a + PGSIZE - 1) % Word \in Int /\ (b + PGSIZE - 1) % Word \in Int
    BY <1>0, <2>1
  <2> QED
    BY <1>0, <2>2 DEF PGROUNDUP
<1>2. ASSUME NEW p \in Pages
      PROVE  p \in Between(PGROUNDUP(a), PGROUNDUP(b)) <=>
               ~(p * PGSIZE < a) /\ p * PGSIZE < b
  <2>1. p \in Int /\ p * PGSIZE \in Int
    BY <1>0, PageFacts
  <2>2. /\ p * PGSIZE < PGROUNDUP(a) <=> p * PGSIZE < a
        /\ p * PGSIZE < PGROUNDUP(b) <=> p * PGSIZE < b
    BY <1>0, <2>1, RoundUp
  <2> QED
    BY <1>1, <2>1, <2>2 DEF Between
<1>3. ASSUME NEW p \in Pages, ~(p * PGSIZE < a), p * PGSIZE < b PROVE p \in Heap
  <2>1. p \in Int /\ p * PGSIZE \in Int
    BY <1>0, PageFacts
  <2>2. UHEAP_BASE <= p * PGSIZE /\ p * PGSIZE < UHEAP_TOP
    BY <1>0, <1>3, <2>1
  <2> QED
    BY <2>1, <2>2, HeapFacts, Zenon
<1>4. Between(PGROUNDUP(a), PGROUNDUP(b)) \in SUBSET Pages
  BY Zenon DEF Between
<1> QED
  BY <1>2, <1>3, <1>4, PageFacts, Zenon

-----------------------------------------------------------------------------
(* No frame is lost                                                        *)

\* A frame is reached from the roots of R.
Reached(f, tb, lf, R) ==
  \E r \in R : \/ \E g \in Regions : tb[r][g] = f
               \/ \E p \in Pages : lf[r][p] = f
Kept(fr, tb, lf, R) == \A f \in Frames \ (fr \cup R) : Reached(f, tb, lf, R)

\* What was reached is still reached or free, and what was free is still free or
\* reached.
LEMMA KeptStep ==
  ASSUME NEW fr, NEW tb, NEW lf, NEW R, NEW fr2, NEW tb2, NEW lf2, NEW R2,
         Kept(fr, tb, lf, R),
         \A f \in fr \ fr2 : f \in R2 \/ Reached(f, tb2, lf2, R2),
         \A r \in R : r \in R2 \cup fr2,
         \A r \in R, g \in Regions : tb[r][g] \in Frames =>
           tb[r][g] \in fr2 \/ (r \in R2 /\ tb2[r][g] = tb[r][g]),
         \A r \in R, p \in Pages : lf[r][p] \in Frames =>
           lf[r][p] \in fr2 \/ (r \in R2 /\ lf2[r][p] = lf[r][p])
  PROVE  Kept(fr2, tb2, lf2, R2)
<1> SUFFICES ASSUME NEW f \in Frames, f \notin fr2, f \notin R2
             PROVE  Reached(f, tb2, lf2, R2)
  BY Zenon DEF Kept
<1>1. CASE f \in fr
  BY <1>1, Zenon
<1>2. CASE f \notin fr
  <2>1. f \notin R
    BY Zenon
  <2>2. Reached(f, tb, lf, R)
    BY <1>2, <2>1, Zenon DEF Kept
  <2> QED
    BY <2>2 DEF Reached
<1> QED
  BY <1>1, <1>2, Zenon

\* A page given where there was none, while frames are left.
GivesOne(m, root, p, m2, R) ==
  /\ Kept(m2.free, m2.table, m2.leaf, R)
  /\ m2.leaf[root][p] \in Frames
  /\ \A r \in R, a \in Pages :
       r # root \/ a # p => m2.leaf[r][a] = m.leaf[r][a]

LEMMA GivenKept ==
  ASSUME NEW m \in Memories, NEW R \in SUBSET Frames, NEW root \in R,
         NEW p \in Pages, Kept(m.free, m.table, m.leaf, R),
         m.leaf[root][p] \notin Frames,
         NEW m2 \in Memories, GivenOutcome(m, root, p, m2), m2.free # {}
  PROVE  GivesOne(m, root, p, m2, R)
<1>2. /\ m.free \in SUBSET Frames /\ m.table \in Tables /\ m.leaf \in Leaves
      /\ Region(p) \in Regions /\ Nil \notin Frames
  BY RegionFacts, Numbers, Zenon DEF Memories
<1>3. PICK f \in m.free :
        /\ m2.leaf = Leaf(m, root, p, f)
        /\ \/ m2.table = m.table /\ m2.free = m.free \ {f}
           \/ \E h \in m.free :
                /\ m.table[root][Region(p)] = Nil /\ m2.free = m.free \ {f, h}
                /\ m2.table = Table(m, root, Region(p), h)
  BY Zenon DEF GivenOutcome
<1>4. \A r \in R, a \in Pages :
        m2.leaf[r][a] = IF r = root /\ a = p THEN f ELSE m.leaf[r][a]
  BY <1>2, <1>3 DEF Leaf, Leaves
<1>5. Reached(f, m2.table, m2.leaf, R)
  BY <1>4, Zenon DEF Reached
<1>6. \A r \in R, a \in Pages :
        m.leaf[r][a] \in Frames => m2.leaf[r][a] = m.leaf[r][a]
  BY <1>4, Zenon
<1>7. Kept(m2.free, m2.table, m2.leaf, R)
  <2>1. CASE m2.table = m.table /\ m2.free = m.free \ {f}
    BY <1>5, <1>6, <2>1, KeptStep, SMTT(30)
  <2>2. ASSUME NEW h \in m.free, m.table[root][Region(p)] = Nil,
               m2.free = m.free \ {f, h},
               m2.table = Table(m, root, Region(p), h)
        PROVE  Kept(m2.free, m2.table, m2.leaf, R)
    <3>1. \A r \in R, g \in Regions :
            m2.table[r][g] = IF r = root /\ g = Region(p) THEN h
                                                          ELSE m.table[r][g]
      BY <1>2, <2>2 DEF Table, Tables
    <3>2. Reached(h, m2.table, m2.leaf, R)
      BY <1>2, <3>1, Zenon DEF Reached
    <3>3. \A r \in R, g \in Regions :
            m.table[r][g] \in Frames => m2.table[r][g] = m.table[r][g]
      BY <1>2, <2>2, <3>1, Zenon
    <3> QED
      BY <1>5, <1>6, <2>2, <3>2, <3>3, KeptStep, SMTT(30)
  <2> QED
    BY <1>3, <2>1, <2>2, Zenon
<1> QED
  BY <1>2, <1>3, <1>4, <1>7, Zenon DEF GivesOne

\* A new address space that left frames over has its first heap page, and no
\* other, and has lost nothing.
Founds(m, R, f, b, m2) ==
  /\ f \in m.free /\ f \in Frames /\ f \notin R /\ b = UHEAP_BASE + PGSIZE
  /\ Kept(m2.free, m2.table, m2.leaf, R \cup {f})
  /\ \A p \in Heap : m2.leaf[f][p] # Unmapped <=> p = FirstHeapPage
  /\ \A r \in R, p \in Pages : m2.leaf[r][p] = m.leaf[r][p]

LEMMA NewSpaceKept ==
  ASSUME NEW m \in Memories, m.free # {}, NEW R \in SUBSET Frames,
         Sole(m.free, m.table, m.leaf, R),
         Kept(m.free, m.table, m.leaf, R), NewSpace(m).free # {}
  PROVE  Founds(m, R, pmm_alloc(m), BrkAtBirth(m), NewSpace(m))
<1> DEFINE f == pmm_alloc(m)
           Q == R \cup {f}
           m1 == NewRoot(m)
           m2 == WithStack(m)
           m3 == NewSpace(m)
<1>1. /\ f \in m.free /\ f \in Frames /\ m1 \in Memories
      /\ m1.free = m.free \ {f}
      /\ m1.table = [m.table EXCEPT ![f] = NoTables]
      /\ m1.leaf = [m.leaf EXCEPT ![f] = Zeroed]
  BY NewRootFacts, Zenon DEF Memories
<1>2. m2 = Given(m1, f, Stack)
  BY Zenon DEF WithStack
<1>3. /\ m3 = IF m2.free = {} THEN m2 ELSE Given(m2, f, FirstHeapPage)
      /\ m3.free # {}
  BY Zenon DEF NewSpace
<1>4. BrkAtBirth(m) = IF m2.free = {} THEN 0 ELSE UHEAP_BASE + PGSIZE
  BY Zenon DEF BrkAtBirth
<1>5. f \notin R /\ m.table \in Tables /\ m.leaf \in Leaves
  BY <1>1, Zenon DEF Sole, Memories
<1> HIDE DEF f, m1, m2, m3
<1>6. /\ \A r \in R : m1.table[r] = m.table[r] /\ m1.leaf[r] = m.leaf[r]
      /\ \A p \in Pages : m1.leaf[f][p] = Unmapped
  BY <1>1, <1>5, SMTT(30) DEF Tables, Leaves, Zeroed
<1>7. Kept(m1.free, m1.table, m1.leaf, Q)
  <2>1. \A x \in m.free \ m1.free :
          x \in Q \/ Reached(x, m1.table, m1.leaf, Q)
    BY <1>1, Zenon
  <2>2. \A r \in R : r \in Q \cup m1.free
    BY Zenon
  <2>3. \A r \in R, g \in Regions : m.table[r][g] \in Frames =>
          m.table[r][g] \in m1.free \/ (r \in Q /\ m1.table[r][g] = m.table[r][g])
    BY <1>6, Zenon
  <2>4. \A r \in R, p \in Pages : m.leaf[r][p] \in Frames =>
          m.leaf[r][p] \in m1.free \/ (r \in Q /\ m1.leaf[r][p] = m.leaf[r][p])
    BY <1>6, Zenon
  <2> HIDE DEF Q
  <2> QED
    BY <2>1, <2>2, <2>3, <2>4, KeptStep, SMTT(20)
<1>8. m2.free # {} /\ m3 = Given(m2, f, FirstHeapPage)
  BY <1>3, Zenon
<1>9. /\ Stack \in Pages /\ FirstHeapPage \in Pages /\ FirstHeapPage # Stack
      /\ FirstHeapPage \in Heap /\ Heap \subseteq Pages /\ Stack \notin Heap
  BY PageFacts, MemoryAssumption, Zenon
<1>10. Q \in SUBSET Frames /\ f \in Q
  BY <1>1, Zenon
<1> HIDE DEF Q
<1>11. /\ m2 \in Memories /\ Kept(m2.free, m2.table, m2.leaf, Q)
       /\ \A r \in Q, a \in Pages :
            r # f \/ a # Stack => m2.leaf[r][a] = m1.leaf[r][a]
  <2>1. m1.leaf[f][Stack] \notin Frames
    BY <1>6, <1>9, Numbers, Zenon
  <2>2. m1 \in Memories /\ m2.free # {} /\ Stack \in Pages
    BY <1>1, <1>8, <1>9, Zenon
  <2>3. m2 \in Memories /\ GivenOutcome(m1, f, Stack, m2)
    BY <1>1, <1>2, <1>9, GivenFacts, Zenon
  <2>4. GivesOne(m1, f, Stack, m2, Q)
    BY <1>7, <1>10, <2>1, <2>2, <2>3, GivenKept, Zenon
  <2> QED
    BY <2>3, <2>4, Zenon DEF GivesOne
<1>12. m2.leaf[f][FirstHeapPage] \notin Frames
  BY <1>6, <1>9, <1>10, <1>11, Numbers
<1>13. /\ Kept(m3.free, m3.table, m3.leaf, Q)
       /\ m3.leaf[f][FirstHeapPage] \in Frames
       /\ \A r \in Q, a \in Pages :
            r # f \/ a # FirstHeapPage => m3.leaf[r][a] = m2.leaf[r][a]
  <2>1. m3.free # {} /\ m3 = Given(m2, f, FirstHeapPage)
    BY <1>3, <1>8, Zenon
  <2>2. FirstHeapPage \in Pages
    BY <1>9, Zenon
  <2>3. m2 \in Memories /\ Kept(m2.free, m2.table, m2.leaf, Q)
    BY <1>11, Zenon
  <2>4. m3 \in Memories /\ GivenOutcome(m2, f, FirstHeapPage, m3)
    BY <1>1, <2>1, <2>2, <2>3, GivenFacts, Zenon
  <2>5. GivesOne(m2, f, FirstHeapPage, m3, Q)
    BY <1>10, <1>12, <2>1, <2>2, <2>3, <2>4, GivenKept, Zenon
  <2> QED
    BY <2>5, Zenon DEF GivesOne
<1>14. \A p \in Heap : m3.leaf[f][p] # Unmapped <=> p = FirstHeapPage
  BY <1>6, <1>9, <1>10, <1>11, <1>13, Numbers, SMTT(30)
<1>15. \A r \in R, p \in Pages : m3.leaf[r][p] = m.leaf[r][p]
  BY <1>5, <1>6, <1>11, <1>13 DEF Q
<1>16. Founds(m, R, f, BrkAtBirth(m), m3)
  BY <1>1, <1>4, <1>5, <1>8, <1>13, <1>14, <1>15, Zenon DEF Founds, Q
<1> QED
  BY <1>16, Zenon DEF f, m3

\* Pages mapped by the loops, where none were.
GivesAll(root, P, R) ==
  /\ Kept(free', table', leaf', R)
  /\ \A q \in R, a \in Pages :
       IF q = root /\ a \in P THEN leaf'[q][a] \in Frames
       ELSE leaf'[q][a] = leaf[q][a]

LEMMA MapAllKept ==
  ASSUME free \in SUBSET Frames, table \in Tables, leaf \in Leaves,
         NEW R \in SUBSET Frames, NEW root \in R, Kept(free, table, leaf, R),
         NEW r \in Regions, NEW P \in SUBSET Pages, MapAll(root, r, P),
         \A p \in P : leaf[root][p] \notin Frames
  PROVE  GivesAll(root, P, R)
<1>1. PICK g \in [P -> free] :
        /\ IF P = {} \/ table[root][r] # Nil
           THEN free' = free \ {g[p] : p \in P} /\ UNCHANGED table
           ELSE LET rest == free \ {g[p] : p \in P}
                IN /\ rest # {}
                   /\ free' = rest \ {Lowest(rest)}
                   /\ table' = [table EXCEPT ![root][r] = Lowest(rest)]
        /\ leaf' = [leaf EXCEPT ![root] =
                      [p \in Pages |-> IF p \in P THEN g[p] ELSE @[p]]]
  BY Zenon DEF MapAll
<1>2. \A q \in R, a \in Pages :
        leaf'[q][a] = IF q = root /\ a \in P THEN g[a] ELSE leaf[q][a]
  BY <1>1, Zenon DEF Leaves
<1>3. \A p \in P : g[p] \in Frames
  BY Zenon
<1>4. \A q \in R, a \in Pages :
        leaf[q][a] \in Frames => leaf'[q][a] = leaf[q][a]
  BY <1>2, Zenon
<1>5. \A p \in P : Reached(g[p], table', leaf', R)
  <2> TAKE p \in P
  <2>1. leaf'[root][p] = g[p]
    BY <1>2, Zenon
  <2> QED
    BY <2>1, Zenon DEF Reached
<1> DEFINE rest == free \ {g[p] : p \in P}
<1>6. \A f \in free \ rest : Reached(f, table', leaf', R)
  BY <1>5, Zenon
<1>7. Kept(free', table', leaf', R)
  <2>1. CASE free' = rest /\ table' = table
    BY <1>4, <1>6, <2>1, KeptStep, SMTT(30)
  <2>2. CASE /\ P # {} /\ table[root][r] = Nil
             /\ rest # {} /\ free' = rest \ {Lowest(rest)}
             /\ table' = [table EXCEPT ![root][r] = Lowest(rest)]
    <3> DEFINE h == Lowest(rest)
    <3>1. free' = rest \ {h} /\ table' = [table EXCEPT ![root][r] = h]
      BY <2>2, Zenon
    <3> HIDE DEF h, rest
    <3>2. \A q \in R, k \in Regions :
            table'[q][k] = IF q = root /\ k = r THEN h ELSE table[q][k]
      BY <3>1, Zenon DEF Tables
    <3>3. Reached(h, table', leaf', R)
      BY <3>2, Zenon DEF Reached
    <3>4. \A q \in R, k \in Regions :
            table[q][k] \in Frames => table'[q][k] = table[q][k]
      BY <2>2, <3>2, Numbers
    <3>5. \A f \in free \ free' : Reached(f, table', leaf', R)
      BY <1>6, <3>1, <3>3, Zenon
    <3> QED
      BY <1>4, <3>4, <3>5, KeptStep, SMTT(30)
  <2> QED
    BY <1>1, <2>1, <2>2, Zenon
<1> QED
  BY <1>2, <1>3, <1>7, Zenon DEF GivesAll

\* The table that a refused sbrk may leave behind is reached.
LEMMA OnlyTableKept ==
  ASSUME free \in SUBSET Frames, table \in Tables, leaf \in Leaves,
         NEW R \in SUBSET Frames, NEW root \in R, Kept(free, table, leaf, R),
         NEW r \in Regions, OnlyTable(root, r), UNCHANGED leaf
  PROVE  Kept(free', table', leaf', R)
<1>1. CASE table[root][r] = Nil /\ Cardinality(free) >= 2
  <2> DEFINE h == Lowest(free)
  <2>1. free' = free \ {h} /\ table' = [table EXCEPT ![root][r] = h]
    BY <1>1, Zenon DEF OnlyTable
  <2> HIDE DEF h
  <2>2. \A q \in R, k \in Regions :
          table'[q][k] = IF q = root /\ k = r THEN h ELSE table[q][k]
    BY <2>1, Zenon DEF Tables
  <2>3. Reached(h, table', leaf', R)
    BY <2>2, Zenon DEF Reached
  <2>4. \A q \in R, k \in Regions :
          table[q][k] \in Frames => table'[q][k] = table[q][k]
    BY <1>1, <2>2, Numbers, Zenon
  <2>5. \A f \in free \ free' : Reached(f, table', leaf', R)
    BY <2>1, <2>3, Zenon
  <2> QED
    BY <2>4, <2>5, KeptStep, SMTT(30)
<1>2. CASE ~(table[root][r] = Nil /\ Cardinality(free) >= 2)
  BY <1>2, Zenon DEF OnlyTable
<1> QED
  BY <1>1, <1>2, Zenon

\* Pages that are no longer mapped are back on the list.
LEMMA UnmapKept ==
  ASSUME leaf \in Leaves, NEW R \in SUBSET Frames, NEW root \in R,
         Kept(free, table, leaf, R), NEW P \in SUBSET Pages, Unmap(root, P),
         UNCHANGED table
  PROVE  /\ Kept(free', table', leaf', R)
         /\ \A q \in R, a \in Pages :
              leaf'[q][a] = IF q = root /\ a \in P THEN Unmapped ELSE leaf[q][a]
<1>1. /\ free' = free \cup ({leaf[root][p] : p \in P} \cap Frames)
      /\ leaf' = [leaf EXCEPT ![root] =
                    [p \in Pages |-> IF p \in P THEN Unmapped ELSE @[p]]]
  BY Zenon DEF Unmap
<1>2. \A q \in R, a \in Pages :
        leaf'[q][a] = IF q = root /\ a \in P THEN Unmapped ELSE leaf[q][a]
  BY <1>1, Zenon DEF Leaves
<1>3. \A q \in R, a \in Pages : leaf[q][a] \in Frames =>
        leaf[q][a] \in free' \/ (q \in R /\ leaf'[q][a] = leaf[q][a])
  BY <1>1, <1>2
<1>4. /\ \A f \in free \ free' : f \in R \/ Reached(f, table', leaf', R)
      /\ \A q \in R : q \in R \cup free'
      /\ \A q \in R, g \in Regions : table[q][g] \in Frames =>
           table[q][g] \in free' \/ (q \in R /\ table'[q][g] = table[q][g])
  BY <1>1, Zenon
<1>5. Kept(free', table', leaf', R)
  BY <1>3, <1>4, KeptStep, SMTT(20)
<1> QED
  BY <1>2, <1>5, Zenon

\* What a freed root reached is back on the list.
LEMMA FreeTaskKept ==
  ASSUME table \in Tables, leaf \in Leaves, NEW R \in SUBSET Frames, NEW root \in R,
         Kept(free, table, leaf, R), vm_free_task(root)
  PROVE  /\ Kept(free', table', leaf', R \ {root})
         /\ \A q \in R \ {root} : leaf'[q] = leaf[q]
<1> DEFINE Q == R \ {root}
<1>1. /\ free' = free \cup SpaceFrames(root)
      /\ table' = [table EXCEPT ![root] = NoTables]
      /\ leaf' = [leaf EXCEPT ![root] = Zeroed]
  BY Zenon DEF vm_free_task
<1>2. \A q \in Q : table'[q] = table[q] /\ leaf'[q] = leaf[q]
  BY <1>1, Zenon DEF Tables, Leaves
<1>3. /\ root \in free'
      /\ \A g \in Regions : table[root][g] \in Frames => table[root][g] \in free'
      /\ \A p \in Pages : leaf[root][p] \in Frames => leaf[root][p] \in free'
  BY <1>1, Zenon DEF SpaceFrames
<1>4. free \ free' = {} /\ \A r \in R : r \in Q \/ r = root
  BY <1>1, Zenon
<1>5. \A r \in R : r \in Q \cup free'
  BY <1>3, <1>4, Zenon
<1>6. \A r \in R, g \in Regions : table[r][g] \in Frames =>
        table[r][g] \in free' \/ (r \in Q /\ table'[r][g] = table[r][g])
  BY <1>2, <1>3, <1>4, Zenon
<1>7. \A r \in R, p \in Pages : leaf[r][p] \in Frames =>
        leaf[r][p] \in free' \/ (r \in Q /\ leaf'[r][p] = leaf[r][p])
  BY <1>2, <1>3, <1>4, Zenon
<1>8. \A f \in free \ free' : f \in Q \/ Reached(f, table', leaf', Q)
  BY <1>4, Zenon
<1> HIDE DEF Q
<1>9. Kept(free', table', leaf', Q)
  BY <1>5, <1>6, <1>7, <1>8, KeptStep, SMTT(30)
<1> QED
  BY <1>2, <1>9, Zenon DEF Q

-----------------------------------------------------------------------------
(* The heap and the frames while memory has not run out                    *)

\* Each break lies in its window, above the page that is never given back.
Window ==
  \A s \in Slots : pt[s] # Nil => Break(s) \in UHEAP_BASE + PGSIZE .. UHEAP_TOP
HeapIs ==
  \A s \in Slots : pt[s] # Nil =>
    \A p \in Heap : leaf[pt[s]][p] # Unmapped <=> p * PGSIZE < Break(s)

Ample == Window /\ HeapIs /\ Kept(free, table, leaf, Roots)
SInv == ~spoilt => Ample

\* No request takes the break of a heap of one page below address 0: Want would
\* wrap to the top of the register.
NoWrap == \A d \in Deltas : d + UHEAP_BASE + PGSIZE >= 0

\* The state that Ample is about is as it was.
LEMMA AmpleSame ==
  ASSUME Ample, UNCHANGED <<free, pt, brk, table, leaf>> PROVE Ample'
BY Zenon DEF Ample, Window, HeapIs, Break, Roots

\* Nothing happened to the heap or to the breaks.
LEMMA HeapSame ==
  ASSUME TypeOK, Window, HeapIs, UNCHANGED <<pt, brk>>,
         \A r \in Roots, p \in Heap : leaf'[r][p] = leaf[r][p]
  PROVE  Window' /\ HeapIs'
<1>1. \A s \in Slots : Break(s)' = Break(s)
  BY Zenon DEF Break
<1>2. Window'
  BY <1>1, Zenon DEF Window
<1>3. HeapIs'
  BY <1>1, RootFacts DEF HeapIs
<1> QED
  BY <1>2, <1>3, Zenon

\* SYS_START and SYS_THREAD.
LEMMA StartAmple ==
  ASSUME Ample, NEW s \in Slots, NEW t \in Slots, Start(s, t) PROVE Ample'
BY AmpleSame, Zenon DEF Start

LEMMA ThreadAmple ==
  ASSUME MInv, Ample, NEW s \in Slots, Thread(s) PROVE Ample'
<1>1. CASE FreeSlots = {} /\ Refused
  BY <1>1, AmpleSame, Zenon DEF Refused
<1>2. CASE FreeSlots # {}
  <2> DEFINE i == alloc_slot
  <2>1. i \in Slots /\ pt[i] = Nil
    BY <1>2, AllocSlotFacts, Zenon DEF Occupied
  <2>2. /\ pt' = [pt EXCEPT ![i] = pt[s]] /\ brk' = [brk EXCEPT ![i] = brk[s]]
        /\ UNCHANGED <<free, table, leaf>> /\ state[s] = "LIVE"
    BY <1>2, Zenon DEF Thread, Running
  <2> HIDE DEF i
  <2>3. pt[s] # Nil
    BY <2>2, Zenon DEF MInv, Rooted
  <2>4. /\ \A k \in Slots : pt'[k] = IF k = i THEN pt[s] ELSE pt[k]
        /\ \A k \in Slots : brk'[k] = IF k = i THEN brk[s] ELSE brk[k]
    BY <2>1, <2>2, Zenon DEF MInv, TypeOK
  <2>5. \A k \in Slots : Break(k)' = IF k = i THEN Break(s) ELSE Break(k)
    BY <2>4, Zenon DEF Break
  <2>6. Roots' = Roots
    BY <2>1, <2>3, <2>4 DEF Roots
  <2>7. Window'
    BY <2>3, <2>4, <2>5, Zenon DEF Ample, Window
  <2>8. HeapIs'
    BY <2>2, <2>3, <2>4, <2>5 DEF Ample, HeapIs
  <2> QED
    BY <2>2, <2>6, <2>7, <2>8, Zenon DEF Ample
<1> QED
  BY <1>1, <1>2, Zenon DEF Thread

\* SYS_NEWTASK: the new heap has one page.
LEMMA NewTaskAmple ==
  ASSUME MInv, Ample, NEW s \in Slots, NewTask(s), free' # {} PROVE Ample'
<1>1. CASE Refused
  BY <1>1, AmpleSame, Zenon DEF Refused
<1>2. CASE /\ FreeSlots # {} /\ free # {} /\ Becomes(NewSpace(Memory))
           /\ pt' = [pt EXCEPT ![alloc_slot] = pmm_alloc(Memory)]
           /\ brk' = [brk EXCEPT ![alloc_slot] = BrkAtBirth(Memory)]
  <2> DEFINE i == alloc_slot
             f == pmm_alloc(Memory)
             m == NewSpace(Memory)
             b == BrkAtBirth(Memory)
  <2>1. i \in Slots /\ pt[i] = Nil
    BY <1>2, AllocSlotFacts, Zenon DEF Occupied
  <2>2. Memory \in Memories /\ Memory.free # {} /\ Sole(free, table, leaf, Roots)
    BY <1>2, MemoryFacts, SoleIsOneOwner, Zenon DEF MInv
  <2>3. free' = m.free /\ table' = m.table /\ leaf' = m.leaf
    BY <1>2, Zenon DEF Becomes
  <2>4. /\ Kept(m.free, m.table, m.leaf, Roots \cup {f})
        /\ b = UHEAP_BASE + PGSIZE
        /\ \A p \in Heap : m.leaf[f][p] # Unmapped <=> p = FirstHeapPage
        /\ \A r \in Roots, p \in Pages : m.leaf[r][p] = leaf[r][p]
        /\ f \in Frames /\ f \notin Roots
    <3>1. /\ Kept(Memory.free, Memory.table, Memory.leaf, Roots)
          /\ Sole(Memory.free, Memory.table, Memory.leaf, Roots)
          /\ Roots \in SUBSET Frames /\ Memory.leaf = leaf
      BY <2>2, MemoryFacts, RootFacts, Zenon DEF Ample, MInv
    <3>2. NewSpace(Memory).free # {}
      BY <2>3, Zenon
    <3>3. Founds(Memory, Roots, f, b, m)
      BY <2>2, <3>1, <3>2, NewSpaceKept, Zenon
    <3> HIDE DEF f, b, m
    <3> QED
      BY <3>1, <3>3, Zenon DEF Founds
  <2>5. f # Nil
    BY <2>4, Numbers, Zenon
  <2>6. pt' = [pt EXCEPT ![i] = f] /\ brk' = [brk EXCEPT ![i] = b]
    BY <1>2, Zenon
  <2> HIDE DEF i, f, b, m
  <2>7. /\ \A k \in Slots : pt'[k] = IF k = i THEN f ELSE pt[k]
        /\ \A k \in Slots : brk'[k] = IF k = i THEN b ELSE brk[k]
    BY <2>1, <2>6, Zenon DEF MInv, TypeOK
  <2>8. Roots' = Roots \cup {f}
    BY <2>1, <2>4, <2>5, <2>7, SMTT(30) DEF Roots
  <2>9. \A k \in Slots : Break(k)' = IF k = i THEN UHEAP_BASE + PGSIZE ELSE Break(k)
    BY <2>4, <2>7, MemoryAssumption DEF Break
  <2>10. Window'
    <3>1. UHEAP_BASE + PGSIZE \in UHEAP_BASE + PGSIZE .. UHEAP_TOP
      BY MemoryAssumption
    <3> QED
      BY <2>7, <2>9, <3>1, Zenon DEF Ample, Window
  <2>11. HeapIs'
    <3> SUFFICES ASSUME NEW k \in Slots, pt'[k] # Nil, NEW p \in Heap
                 PROVE  leaf'[pt'[k]][p] # Unmapped <=> p * PGSIZE < Break(k)'
      BY Zenon DEF HeapIs
    <3>1. CASE k = i
      <4>1. p * PGSIZE < UHEAP_BASE + PGSIZE <=> p = FirstHeapPage
        BY HeapFacts, SMTT(30) DEF Heap
      <4> QED
        BY <2>1, <2>3, <2>4, <2>7, <2>9, <3>1, <4>1, Zenon
    <3>2. CASE k # i
      <4>1. pt'[k] = pt[k] /\ Break(k)' = Break(k) /\ pt[k] \in Roots /\ p \in Pages
        BY <2>7, <2>9, <3>2, RootFacts, PageFacts, Zenon DEF MInv
      <4>2. leaf'[pt[k]][p] = leaf[pt[k]][p]
        BY <2>3, <2>4, <4>1, Zenon
      <4> QED
        BY <4>1, <4>2, Zenon DEF Ample, HeapIs
    <3> QED
      BY <3>1, <3>2, Zenon
  <2> QED
    BY <2>3, <2>4, <2>8, <2>10, <2>11, Zenon DEF Ample
<1> QED
  BY <1>1, <1>2, Zenon DEF NewTask

\* SYS_DMA_ALLOC, where the page of no sibling is covered.
LEMMA DmaAmple ==
  ASSUME MInv, Ample, NEW s \in Slots, DmaAlloc(s), ~Spoils PROVE Ample'
<1>1. CASE Refused
  BY <1>1, AmpleSame, Zenon DEF Refused
<1>2. CASE /\ DmaNext(s) \in Dma
           /\ Becomes(Mapped(Taken(Memory), pt[s], DmaNext(s), pmm_alloc(Memory)))
           /\ dma_next' = [dma_next EXCEPT ![s] = DmaNext(s) + 1]
           /\ UNCHANGED <<state, pt, brk>>
  <2> DEFINE p == DmaNext(s)
             m2 == Given(Memory, pt[s], p)
  <2>1. pt[s] \in Roots /\ p \in Pages /\ p \notin Heap
    BY <1>2, RootFacts, PageFacts, MemoryAssumption, Zenon
       DEF DmaAlloc, Running, MInv, Rooted
  <2>2. free' = m2.free /\ table' = m2.table /\ leaf' = m2.leaf /\ free' # {}
    BY <1>2, Zenon DEF Becomes, Given, Spoils
  <2>3. leaf[pt[s]][p] \notin Frames
    <3>1. dma_next'[s] = p + 1 /\ p \in Nat /\ p # 0
      BY <1>2, MemoryAssumption DEF MInv, TypeOK, Dma
    <3>2. dma_next'[s] # 0 /\ dma_next'[s] # dma_next[s]
      BY <3>1 DEF DmaNext
    <3>3. ~OverSibling(s)
      BY <3>2, Zenon DEF Spoils
    <3> QED
      BY <1>2, <3>3, Numbers, Zenon DEF OverSibling
  <2> HIDE DEF m2, p
  <2>4. /\ Memory \in Memories /\ Memory.leaf = leaf
        /\ Kept(Memory.free, Memory.table, Memory.leaf, Roots)
        /\ Roots \in SUBSET Frames
    BY MemoryFacts, RootFacts, Zenon DEF Ample, MInv
  <2>5. /\ m2 \in Memories /\ GivenOutcome(Memory, pt[s], p, m2)
        /\ m2.free # {} /\ Memory.leaf[pt[s]][p] \notin Frames
    BY <2>1, <2>2, <2>3, <2>4, GivenFacts, Zenon DEF m2
  <2>6. /\ Kept(m2.free, m2.table, m2.leaf, Roots)
        /\ \A r \in Roots, a \in Pages : a # p => m2.leaf[r][a] = leaf[r][a]
    <3>1. GivesOne(Memory, pt[s], p, m2, Roots)
      BY <2>1, <2>4, <2>5, GivenKept, Zenon
    <3> QED
      BY <2>4, <3>1, Zenon DEF GivesOne
  <2>7. \A r \in Roots, a \in Heap : leaf'[r][a] = leaf[r][a]
    BY <2>1, <2>2, <2>6, PageFacts, Zenon
  <2>8. Window' /\ HeapIs'
    BY <1>2, <2>7, HeapSame, Zenon DEF Ample, MInv
  <2> QED
    BY <1>2, <2>2, <2>6, <2>8, SlotsKept, Zenon DEF Ample
<1> QED
  BY <1>1, <1>2, Zenon DEF DmaAlloc

\* SYS_VMLOAD.
LEMMA VmLoadAmple ==
  ASSUME MInv, Ample, NEW s \in Slots, NEW t \in Slots, NEW P \in Segments,
         VmLoad(s, t, P), free' # {}
  PROVE  Ample'
<1> DEFINE r == Region(CHOOSE p \in P : TRUE)
           root == pt[t]
           new == Absent(root, P)
<1>1. P \in SUBSET Pages /\ P # {} /\ P \cap Heap = {}
  BY PageFacts, MemoryAssumption, Zenon DEF Segments
<1>2. r \in Regions
  BY <1>1, RegionFacts, Zenon
<1>3. root \in Roots
  BY RootFacts, Zenon DEF VmLoad, MInv
<1>4. vm_load_segment(root, r, P) /\ UNCHANGED <<state, pt, brk, dma_next>>
  BY Zenon DEF VmLoad
<1>5. /\ new \in SUBSET Pages /\ new \cap Heap = {}
      /\ \A p \in new : leaf[root][p] \notin Frames
  BY <1>1, Numbers, Zenon DEF Absent
<1> HIDE DEF r, root, new
<1>6. PICK Q \in SUBSET new : MapAll(root, r, Q)
  <2>1. \A k : FirstOf(new, k) \in SUBSET new
    BY Zenon DEF FirstOf
  <2> QED
    BY <1>4, <2>1, Zenon DEF vm_load_segment, new
<1>7. /\ free \in SUBSET Frames /\ table \in Tables /\ leaf \in Leaves
      /\ Roots \in SUBSET Frames /\ Kept(free, table, leaf, Roots)
  BY RootFacts, Zenon DEF MInv, Ample
<1>8. Q \in SUBSET Pages /\ \A p \in Q : leaf[root][p] \notin Frames
  BY <1>5, Zenon
<1>9. /\ Kept(free', table', leaf', Roots)
      /\ \A q \in Roots, a \in Pages :
           IF q = root /\ a \in Q THEN leaf'[q][a] \in Frames
           ELSE leaf'[q][a] = leaf[q][a]
  <2>1. GivesAll(root, Q, Roots)
    BY <1>2, <1>3, <1>6, <1>7, <1>8, MapAllKept, Zenon
  <2> QED
    BY <2>1, Zenon DEF GivesAll
<1>10. \A q \in Roots, a \in Heap : leaf'[q][a] = leaf[q][a]
  BY <1>5, <1>9, PageFacts, Zenon
<1>11. Window' /\ HeapIs'
  BY <1>4, <1>10, HeapSame, Zenon DEF Ample, MInv
<1> QED
  BY <1>4, <1>9, <1>11, SlotsKept, Zenon DEF Ample

\* task_retire: the spaces that stay are as they were.
LEMMA RetireAmple ==
  ASSUME MInv, Ample, NEW t \in Slots, task_retire(t), Occupied(t) PROVE Ample'
<1> DEFINE root == pt[t]
<1>1. pt' = [pt EXCEPT ![t] = Nil] /\ UNCHANGED brk
  BY Zenon DEF task_retire
<1>2. root # Nil /\ root \in Roots
  BY RootFacts, Zenon DEF MInv, Rooted, Occupied, TypeOK
<1>3. /\ free \in SUBSET Frames /\ table \in Tables /\ leaf \in Leaves
      /\ Roots \in SUBSET Frames /\ Kept(free, table, leaf, Roots)
  BY RootFacts, Zenon DEF MInv, Ample
<1>4. /\ \A k \in Slots : pt'[k] = IF k = t THEN Nil ELSE pt[k]
      /\ \A k \in Slots : Break(k)' = Break(k)
  BY <1>1, Zenon DEF MInv, TypeOK, Break
<1>5. Window'
  BY <1>4, Zenon DEF Ample, Window
<1>6. CASE Shared(t) /\ UNCHANGED <<free, table, leaf>>
  <2>1. Roots' = Roots
    BY <1>4, <1>6, Zenon DEF Roots, Shared
  <2>2. HeapIs'
    BY <1>4, <1>6, Zenon DEF Ample, HeapIs
  <2> QED
    BY <1>3, <1>5, <1>6, <2>1, <2>2, Zenon DEF Ample
<1>7. CASE ~Shared(t) /\ vm_free_task(root)
  <2>1. Roots' = Roots \ {root}
    BY <1>4, <1>7, Zenon DEF Roots, Shared
  <2>2. /\ Kept(free', table', leaf', Roots \ {root})
        /\ \A q \in Roots \ {root} : leaf'[q] = leaf[q]
    BY <1>2, <1>3, <1>7, FreeTaskKept, Zenon
  <2>3. \A k \in Slots : k # t /\ pt[k] # Nil => pt[k] \in Roots \ {root}
    BY <1>7, RootFacts, Zenon DEF Shared, MInv
  <2>4. HeapIs'
    BY <1>4, <2>2, <2>3 DEF Ample, HeapIs
  <2> QED
    BY <1>5, <2>1, <2>2, <2>4, Zenon DEF Ample
<1> QED
  BY <1>6, <1>7, Zenon DEF task_retire

\* One heap ends elsewhere, and its pages are mapped to match.
LEMMA HeapMoved ==
  ASSUME TypeOK, Window, HeapIs, NEW s \in Slots, pt[s] # Nil, UNCHANGED pt,
         NEW want \in UHEAP_BASE + PGSIZE .. UHEAP_TOP,
         \A t \in Slots : Break(t)' = IF pt[t] = pt[s] THEN want ELSE Break(t),
         \A r \in Roots, p \in Heap : r # pt[s] => leaf'[r][p] = leaf[r][p],
         \A p \in Heap : leaf'[pt[s]][p] # Unmapped <=> p * PGSIZE < want
  PROVE  Window' /\ HeapIs'
<1>1. Window'
  BY Zenon DEF Window
<1>2. ASSUME NEW t \in Slots, pt[t] # Nil, NEW p \in Heap
      PROVE  leaf'[pt[t]][p] # Unmapped <=> p * PGSIZE < Break(t)'
  <2>1. CASE pt[t] = pt[s]
    BY <2>1, Zenon
  <2>2. CASE pt[t] # pt[s]
    <3>1. leaf'[pt[t]][p] = leaf[pt[t]][p] /\ Break(t)' = Break(t)
      BY <1>2, <2>2, RootFacts, Zenon
    <3>2. leaf[pt[t]][p] # Unmapped <=> p * PGSIZE < Break(t)
      BY <1>2, Zenon DEF HeapIs
    <3> QED
      BY <3>1, <3>2, Zenon
  <2> QED
    BY <2>1, <2>2, Zenon
<1> QED
  BY <1>1, <1>2, Zenon DEF HeapIs

\* A refused sbrk has moved no break and mapped nothing.
LEMMA SbrkRefusedAmple ==
  ASSUME MInv, Ample, NEW s \in Slots, SbrkRefused(s), UNCHANGED <<pt, leaf>>
  PROVE  Window' /\ HeapIs'
<1>1. \A t \in Slots : Break(t)' = Break(t)
  BY SbrkRefusedFacts, Zenon DEF MInv
<1>2. Window'
  BY <1>1, Zenon DEF Ample, Window
<1>3. HeapIs'
  BY <1>1, Zenon DEF Ample, HeapIs
<1> QED
  BY <1>2, <1>3, Zenon

\* SYS_SBRK.
LEMMA SbrkAmple ==
  ASSUME MInv, Ample, NoWrap, NEW s \in Slots, NEW d \in Deltas, Sbrk(s, d)
  PROVE  Ample'
<1> DEFINE old == Break(s)
           want == Want(s, d)
           root == pt[s]
<1>1. /\ UNCHANGED <<state, pt>> /\ root # Nil /\ root \in Roots
      /\ UNCHANGED pt
  BY RootFacts, Zenon DEF Sbrk, Running, MInv, Rooted
<1>2. /\ free \in SUBSET Frames /\ table \in Tables /\ leaf \in Leaves
      /\ Roots \in SUBSET Frames /\ TypeOK /\ Window /\ HeapIs
      /\ Kept(free, table, leaf, Roots) /\ Roots' = Roots
  BY <1>1, RootFacts, SlotsKept, Zenon DEF MInv, Ample
<1>3. /\ old \in UHEAP_BASE + PGSIZE .. UHEAP_TOP /\ old \in 1 .. Word - 1
      /\ old \in UHEAP_BASE .. UHEAP_TOP /\ old \in 0 .. UHEAP_TOP
      /\ d \in Int /\ want \in 0 .. Word - 1
  <2>1. old \in UHEAP_BASE + PGSIZE .. UHEAP_TOP /\ old \in 1 .. Word - 1
    BY <1>1, <1>2, BreakFacts, Zenon DEF Window
  <2>2. d \in Int
    BY MemoryAssumption, Zenon
  <2>3. want \in 0 .. Word - 1
    BY <2>1, <2>2, Numbers DEF Want
  <2> QED
    BY <2>1, <2>2, <2>3, MemoryAssumption, SMTT(30)
<1>4. "heap" \in Regions /\ Heap \subseteq Pages
  BY PageFacts, Zenon DEF Regions
<1>5. \A p \in Heap : leaf[root][p] # Unmapped <=> p * PGSIZE < old
  BY <1>1, <1>2, Zenon DEF HeapIs
<1>6. \A p \in Heap : p * PGSIZE \in Int
  BY PageFacts, Numbers
<1>7. CASE SbrkRefused(s) /\ UNCHANGED <<free, table, leaf>>
  BY <1>1, <1>2, <1>7, SbrkRefusedAmple, Zenon DEF Ample
<1>8. CASE SbrkRefused(s) /\ OnlyTable(root, "heap") /\ UNCHANGED leaf
  <2>1. Kept(free', table', leaf', Roots)
    BY <1>1, <1>2, <1>4, <1>8, OnlyTableKept, Zenon
  <2> QED
    BY <1>1, <1>2, <1>8, <2>1, SbrkRefusedAmple, Zenon DEF Ample
<1>9. ASSUME want <= UHEAP_TOP, want >= old, BreakOfSpace(s, want),
             MapAll(root, "heap", Between(PGROUNDUP(old), PGROUNDUP(want)))
      PROVE  Ample'
  <2> DEFINE P == Between(PGROUNDUP(old), PGROUNDUP(want))
  <2>1. /\ want \in UHEAP_BASE + PGSIZE .. UHEAP_TOP /\ want \in 1 .. Word - 1
        /\ want \in 0 .. UHEAP_TOP
    BY <1>3, <1>9, MemoryAssumption, SMTT(30)
  <2>2. /\ P \in SUBSET Heap
        /\ \A p \in Heap : p \in P <=> ~(p * PGSIZE < old) /\ p * PGSIZE < want
    BY <1>3, <2>1, BetweenFacts, Zenon
  <2>3. MapAll(root, "heap", P)
    BY <1>9, Zenon
  <2>4. \A t \in Slots : Break(t)' = IF pt[t] = root THEN want ELSE Break(t)
    BY <1>1, <1>9, <2>1, SweepFacts, Zenon
  <2> HIDE DEF P, want, old, root
  <2>5. P \in SUBSET Pages /\ \A p \in P : leaf[root][p] \notin Frames
    BY <1>4, <1>5, <2>2, Numbers, Zenon
  <2>6. /\ Kept(free', table', leaf', Roots)
        /\ \A q \in Roots, a \in Pages :
             IF q = root /\ a \in P THEN leaf'[q][a] \in Frames
             ELSE leaf'[q][a] = leaf[q][a]
    <3>1. GivesAll(root, P, Roots)
      BY <1>1, <1>2, <1>4, <2>3, <2>5, MapAllKept, Zenon
    <3> QED
      BY <3>1, Zenon DEF GivesAll
  <2>7. \A r \in Roots, p \in Heap : r # root => leaf'[r][p] = leaf[r][p]
    BY <1>4, <2>6, Zenon
  <2>8. \A p \in Heap : leaf'[root][p] # Unmapped <=> p * PGSIZE < want
    <3> TAKE p \in Heap
    <3>1. p \in P => leaf'[root][p] # Unmapped
      BY <1>1, <1>4, <2>6, Numbers, Zenon
    <3>2. p \notin P => leaf'[root][p] = leaf[root][p]
      BY <1>1, <1>4, <2>6, Zenon
    <3>3. p * PGSIZE < old => p * PGSIZE < want
      BY <1>3, <1>6, <1>9, <2>1, MemoryAssumption, SMTT(30)
    <3> QED
      BY <1>5, <2>2, <3>1, <3>2, <3>3, Zenon
  <2>9. Window' /\ HeapIs'
    BY <1>1, <1>2, <2>1, <2>4, <2>7, <2>8, HeapMoved, Zenon DEF root
  <2> QED
    BY <1>2, <2>6, <2>9, Zenon DEF Ample
<1>10. CASE d < 0 /\ Shrink(s, ShrunkTo(want))
  <2> DEFINE to == ShrunkTo(want)
             P == Between(PGROUNDUP(to), PGROUNDUP(old))
  <2>1. want < old
    <3>1. d + UHEAP_BASE + PGSIZE >= 0
      BY Zenon DEF NoWrap
    <3>2. old + d \in 0 .. Word - 1
      BY <1>3, <1>10, <3>1, MemoryAssumption, SMTT(30)
    <3>3. (old + d) % Word = old + d
      BY <3>2, Numbers, SMTT(30)
    <3> QED
      BY <1>3, <1>10, <3>3, SMTT(30) DEF Want
  <2>2. /\ to \in UHEAP_BASE + PGSIZE .. UHEAP_TOP /\ to \in 1 .. Word - 1
        /\ to \in UHEAP_BASE .. UHEAP_TOP /\ to <= old
    BY <1>3, <2>1, MemoryAssumption, SMTT(30) DEF ShrunkTo
  <2>3. /\ P \in SUBSET Heap
        /\ \A p \in Heap : p \in P <=> ~(p * PGSIZE < to) /\ p * PGSIZE < old
    BY <1>3, <2>2, BetweenFacts, Zenon
  <2>4. Unmap(root, P) /\ UNCHANGED table /\ BreakOfSpace(s, to)
    BY <1>10, Zenon DEF Shrink
  <2>5. \A t \in Slots : Break(t)' = IF pt[t] = root THEN to ELSE Break(t)
    BY <1>1, <2>2, <2>4, SweepFacts, Zenon
  <2> HIDE DEF P, to, old, want, root
  <2>6. P \in SUBSET Pages
    BY <1>4, <2>3, Zenon
  <2>7. /\ Kept(free', table', leaf', Roots)
        /\ \A q \in Roots, a \in Pages :
             leaf'[q][a] = IF q = root /\ a \in P THEN Unmapped ELSE leaf[q][a]
    BY <1>1, <1>2, <2>4, <2>6, UnmapKept, SMTT(30)
  <2>8. \A r \in Roots, p \in Heap : r # root => leaf'[r][p] = leaf[r][p]
    BY <1>4, <2>7, Zenon
  <2>9. \A p \in Heap : leaf'[root][p] # Unmapped <=> p * PGSIZE < to
    <3> TAKE p \in Heap
    <3>1. leaf'[root][p] = IF p \in P THEN Unmapped ELSE leaf[root][p]
      BY <1>1, <1>4, <2>7, Zenon
    <3>2. p * PGSIZE < to => p * PGSIZE < old
      BY <1>3, <1>6, <2>2, MemoryAssumption, SMTT(30)
    <3> QED
      BY <1>5, <2>3, <3>1, <3>2, Zenon
  <2>10. Window' /\ HeapIs'
    BY <1>1, <1>2, <2>2, <2>5, <2>8, <2>9, HeapMoved, Zenon DEF root
  <2> QED
    BY <1>2, <2>7, <2>10, Zenon DEF Ample
<1>11. CASE BreakOfSpace(s, old) /\ UNCHANGED <<free, table, leaf>>
  <2>1. \A t \in Slots : Break(t)' = IF pt[t] = root THEN old ELSE Break(t)
    BY <1>1, <1>3, <1>11, SweepFacts, Zenon
  <2>2. Window' /\ HeapIs'
    BY <1>1, <1>2, <1>3, <1>5, <1>11, <2>1, HeapMoved, Zenon
  <2> QED
    BY <1>2, <1>11, <2>2, Zenon DEF Ample
<1>12. CASE Grow(s, want)
  BY <1>7, <1>8, <1>9, <1>12, Zenon DEF Grow, SbrkRolledBack
<1> QED
  BY <1>10, <1>11, <1>12, Zenon DEF Sbrk

-----------------------------------------------------------------------------
(* The theorems about the heap and the free list                           *)

\* The memory after kmain, when it had enough.
LEMMA SInvInit == ASSUME Init PROVE SInv
<1> DEFINE f == pmm_alloc(Arena)
           m == NewSpace(Arena)
           b == BrkAtBirth(Arena)
<1>1. /\ free = m.free /\ table = m.table /\ leaf = m.leaf
      /\ pt = [s \in Slots |-> IF s = 0 THEN f ELSE Nil]
      /\ brk = [s \in Slots |-> IF s = 0 THEN b ELSE 0]
      /\ spoilt = (free = {})
  BY Zenon DEF Init
<1> SUFFICES ASSUME free # {} PROVE Ample
  BY <1>1, Zenon DEF SInv
<1>2. Arena.free # {} /\ Arena \in Memories
  BY ArenaFacts, MemoryAssumption, Zenon
<1>3. Kept(Arena.free, Arena.table, Arena.leaf, {})
  BY ArenaFacts, Zenon DEF Kept
<1>4. Founds(Arena, {}, f, b, m)
  <2>1. NewSpace(Arena).free # {}
    BY <1>1, Zenon
  <2>2. {} \in SUBSET Frames /\ Sole(Arena.free, Arena.table, Arena.leaf, {})
    BY ArenaFacts, Zenon
  <2> QED
    BY <1>2, <1>3, <2>1, <2>2, NewSpaceKept, Zenon
<1> HIDE DEF f, m, b
<1>5. /\ Kept(m.free, m.table, m.leaf, {f}) /\ b = UHEAP_BASE + PGSIZE
      /\ \A p \in Heap : m.leaf[f][p] # Unmapped <=> p = FirstHeapPage
      /\ f \in Frames
  <2>1. {} \cup {f} = {f}
    BY Zenon
  <2> QED
    BY <1>4, <2>1, Zenon DEF Founds
<1>6. /\ \A s \in Slots : pt[s] # Nil => s = 0
      /\ pt[0] = f /\ Break(0) = UHEAP_BASE + PGSIZE
  BY <1>1, <1>5, Numbers, MemoryAssumption, SMTT(30) DEF Break
<1>7. Window
  BY <1>6, MemoryAssumption, SMTT(30) DEF Window
<1>8. \A p \in Heap : p * PGSIZE < UHEAP_BASE + PGSIZE <=> p = FirstHeapPage
  BY HeapFacts DEF Heap
<1>9. HeapIs
  BY <1>1, <1>5, <1>6, <1>8, Zenon DEF HeapIs
<1>10. Roots = {f}
  BY <1>1, <1>5, Numbers, Zenon DEF Roots
<1> QED
  BY <1>1, <1>5, <1>7, <1>9, <1>10, Zenon DEF Ample

\* Every call keeps the heaps and the frames, until memory runs out.
LEMMA SInvStep == ASSUME MInv, SInv, NoWrap, Next PROVE SInv'
<1> SUFFICES ASSUME ~spoilt' PROVE Ample'
  BY Zenon DEF SInv
<1>1. Ample /\ ~Spoils /\ free' # {} /\ Call
  BY Zenon DEF Next, Spoils, SInv
<1>2. ASSUME NEW t \in Slots, NEW s \in Slots, Exit(s) \/ Kill(s, t) PROVE Ample'
  BY <1>1, <1>2, RetireAmple, Zenon DEF Exit, Kill, Running, Occupied
<1> QED
  BY <1>1, <1>2, NewTaskAmple, ThreadAmple, SbrkAmple, DmaAmple, StartAmple, Zenon,
     VmLoadAmple
     DEF Call

\* The invariant of the heap and of the free list.
LEMMA SInvariance == ASSUME NoWrap PROVE Spec => []SInv
<1>1. ASSUME SInv, UNCHANGED vars PROVE SInv'
  BY <1>1, Zenon DEF vars, SInv, Ample, Window, HeapIs, Break, Roots
<1>2. ASSUME MInv, SInv, [Next]_vars PROVE SInv'
  BY <1>1, <1>2, SInvStep, Zenon
<1> QED
  BY <1>2, SInvInit, MInvariance, PTL DEF Spec

\* Until memory runs out, exactly the pages of the heap below the break are
\* mapped, for any number of threads growing and shrinking it by any amounts
\* that do not take the break below address 0 (SYS_SBRK, map_heap_page).
THEOREM HeapIsMapped == ASSUME NoWrap PROVE Spec => []HeapMapped
<1>1. SInv => HeapMapped
  BY Zenon DEF SInv, Ample, HeapIs, HeapMapped
<1> QED
  BY <1>1, SInvariance, PTL

\* Until memory runs out, every frame is on the free list or reached from some
\* task's address space, whatever tasks are made, loaded and retired (pmm.c,
\* vm_free_task).
THEOREM NoFrameIsLost == ASSUME NoWrap PROVE Spec => []NothingLost
<1>1. SInv => NothingLost
  BY Zenon DEF SInv, Ample, Kept, Reached, NothingLost
<1> QED
  BY <1>1, SInvariance, PTL
=============================================================================
