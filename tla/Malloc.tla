------------------------------- MODULE Malloc -------------------------------
(***************************************************************************)
(* The allocator of src/malloc.h: one address-ordered free list with first  *)
(* fit and coalescing, pages of equal slots (runs) carved from it for small *)
(* objects, a directory of one byte a page that tells free() which is       *)
(* which, and sbrk underneath.                                              *)
(*                                                                          *)
(* Addresses and sizes are in units of 16 bytes, the alignment of every     *)
(* piece, counted from UHEAP_BASE; page 0 begins with struct mheap.  Every  *)
(* exported call holds h->lock from its beginning to its end, so a call is  *)
(* one step.  A call is a function of the heap record H:                    *)
(*   free    the free list, a sequence of [at, size]                        *)
(*   top     the break                                                      *)
(*   big     blocks handed out, with the size their header holds            *)
(*   run     run pages: their class, their free slots, slots in use         *)
(*   runs    for each class the list of runs with room                      *)
(*   dir     the directory: per page 0 or the class; dirp where it is       *)
(*   room    pages the kernel can still give                                *)
(*   denied  history: the kernel refused a page in this call                *)
(***************************************************************************)
EXTENDS Integers, Sequences, FiniteSets

CONSTANTS
  PGSIZE,       \* units in a page
  HEAD,         \* units of struct mheap
  MRUNHDR,      \* units of a run's header
  m__class,     \* sizes of the classes, ascending
  MTRIM,        \* units of slack at the end of the heap
  DIRFIRST,     \* entries of the first directory
  PERUNIT,      \* entries in a unit
  Sizes,        \* sizes asked for
  MaxPages,     \* bound: pages of memory, the first one of the heap included
  MaxLive       \* bound: objects in use

VARIABLES
  heap,
  live,         \* what the program holds: [p, n]
  others,       \* pages that other programs hold
  gaveUp        \* history: how the last call ended

vars == <<heap, live, others, gaveUp>>

NULL == 0
MHDR == 1
MMIN == MHDR + 1
NClass == DOMAIN m__class
MAXSMALL == m__class[Len(m__class)]
PGROUNDUP(a) == ((a + PGSIZE - 1) \div PGSIZE) * PGSIZE
PageOf(a) == (a \div PGSIZE) * PGSIZE
Least(S) == CHOOSE x \in S : \A y \in S : x <= y

-----------------------------------------------------------------------------
\* The free list.

Before(F, at) == Cardinality({i \in DOMAIN F : F[i].at < at})

JoinBack(F, k, b, rest) ==
  IF k > 0 /\ F[k].at + F[k].size = b.at
  THEN SubSeq(F, 1, k - 1) \o <<[F[k] EXCEPT !.size = @ + b.size]>> \o rest
  ELSE SubSeq(F, 1, k) \o <<b>> \o rest

\* Puts a block back in address order and joins it to both neighbours.
m__insert(F, at, size) ==
  LET k == Before(F, at)
  IN IF k < Len(F) /\ at + size = F[k + 1].at
     THEN JoinBack(F, k, [at |-> at, size |-> size + F[k + 1].size], SubSeq(F, k + 2, Len(F)))
     ELSE JoinBack(F, k, [at |-> at, size |-> size], SubSeq(F, k + 1, Len(F)))

Insert(H, at, size) == [H EXCEPT !.free = m__insert(@, at, size)]

GiveBack(H, last, from) ==
  IF H.top <= from \/ H.top - from < MTRIM THEN H
  ELSE [H EXCEPT !.top = from, !.room = @ + (H.top - from) \div PGSIZE,
                 !.free[Len(H.free)].size = from - last.at]

\* Whole pages at the end of the heap, past a margin, go back to the kernel.
m__trim(H) ==
  IF H.free = <<>> THEN H
  ELSE LET last == H.free[Len(H.free)]
       IN IF last.at + last.size # H.top THEN H
          ELSE GiveBack(H, last, LET from == PGROUNDUP(last.at + MHDR)
                                 IN IF from < PGSIZE THEN PGSIZE ELSE from)

\* sbrk of whole pages; the new ones join the free list.
m__grow(H, need) ==
  LET n == PGROUNDUP(need)
  IN IF n \div PGSIZE > H.room THEN [H EXCEPT !.denied = TRUE]
     ELSE [Insert(H, H.top, n) EXCEPT !.top = @ + n, !.room = @ - n \div PGSIZE]

-----------------------------------------------------------------------------
\* Large blocks.  A call that hands something out returns [H, p].

Fits(F, want) == {i \in DOMAIN F : F[i].size >= want}

\* Mutant: the block that is split keeps its old size.
CutAtWhole(H, i, want) ==
  LET b == H.free[i]
  IN IF b.size - want >= MMIN
     THEN [H |-> [H EXCEPT !.free[i] = [at |-> b.at + want, size |-> b.size - want],
                           !.big = @ \cup {b}],
           p |-> b.at + MHDR]
     ELSE [H |-> [H EXCEPT !.free = SubSeq(@, 1, i - 1) \o SubSeq(@, i + 1, Len(@)),
                           !.big = @ \cup {b}],
           p |-> b.at + MHDR]

CutAt(H, i, want) ==
  LET b == H.free[i]
  IN IF b.size - want >= MMIN
     THEN [H |-> [H EXCEPT !.free[i] = [at |-> b.at + want, size |-> b.size - want],
                           !.big = @ \cup {[at |-> b.at, size |-> want]}],
           p |-> b.at + MHDR]
     ELSE [H |-> [H EXCEPT !.free = SubSeq(@, 1, i - 1) \o SubSeq(@, i + 1, Len(@)),
                           !.big = @ \cup {b}],
           p |-> b.at + MHDR]

FirstFit(H, want) ==
  LET fits == Fits(H.free, want)
  IN IF fits = {} THEN [H |-> H, p |-> NULL] ELSE CutAt(H, Least(fits), want)

\* Mutant: what the kernel gave is left for the next call.
m__bigOnce(H, n) ==
  IF Fits(H.free, n + MHDR) = {} THEN [H |-> m__grow(H, n + MHDR), p |-> NULL]
  ELSE FirstFit(H, n + MHDR)

m__big(H, n) ==
  IF Fits(H.free, n + MHDR) = {} THEN FirstFit(m__grow(H, n + MHDR), n + MHDR)
  ELSE FirstFit(H, n + MHDR)

\* Where in a free block a page could be cut: after a lead that is a block, and
\* with a tail that is one.
PageIn(b) ==
  LET page == PGROUNDUP(b.at)
  IN IF page # b.at /\ page - b.at < MMIN THEN page + PGSIZE ELSE page
HasPage(b) ==
  LET tail == b.at + b.size - (PageIn(b) + PGSIZE)
  IN tail = 0 \/ tail >= MMIN

Piece(from, to) == IF from = to THEN <<>> ELSE <<[at |-> from, size |-> to - from]>>
CutPage(H, i) ==
  LET b == H.free[i]
      page == PageIn(b)
  IN [H |-> [H EXCEPT !.free = SubSeq(@, 1, i - 1) \o Piece(b.at, page)
                                 \o Piece(page + PGSIZE, b.at + b.size)
                                 \o SubSeq(@, i + 1, Len(@))],
      p |-> page]

FirstPage(H) ==
  LET fits == {i \in DOMAIN H.free : HasPage(H.free[i])}
  IN IF fits = {} THEN [H |-> H, p |-> NULL] ELSE CutPage(H, Least(fits))

\* The second pass asks the kernel for one more page, too, before it gives up.
SecondPass(A) ==
  IF A.p = NULL /\ ~A.H.denied THEN [H |-> m__grow(A.H, PGSIZE), p |-> NULL] ELSE A
m__page(H) ==
  LET A == FirstPage(H)
  IN IF A.p # NULL THEN A ELSE SecondPass(FirstPage(m__grow(A.H, PGSIZE)))

-----------------------------------------------------------------------------
\* Runs and their directory.

FreeBig(H, p) ==
  LET b == CHOOSE b \in H.big : b.at = p - MHDR
  IN m__trim([Insert(H, b.at, b.size) EXCEPT !.big = @ \ {b}])

\* A directory of n entries that holds what the old one held.
Moved(A, n) ==
  IF A.p = NULL THEN A.H
  ELSE [(IF A.H.dirp = NULL THEN A.H ELSE FreeBig(A.H, A.H.dirp)) EXCEPT
          !.dirp = A.p,
          !.dir = [i \in 1 .. n |-> IF i <= Len(A.H.dir) THEN A.H.dir[i] ELSE 0]]

DirWant(H, idx) ==
  LET from == IF H.dir = <<>> THEN DIRFIRST ELSE 2 * Len(H.dir)
  IN Least({from * 2 ^ k : k \in 0 .. MaxPages} \ 0 .. idx)

\* The directory covers page number idx, or could not be made to.
m__dir_cover(H, idx) ==
  IF idx < Len(H.dir) THEN H
  ELSE LET want == DirWant(H, idx)
       IN Moved(m__big(H, (want + PERUNIT - 1) \div PERUNIT), want)

\* The slots of a run, first the lowest.
SlotsOf(page, c) ==
  LET n == (PGSIZE - MRUNHDR) \div m__class[c]
  IN [k \in 1 .. n |-> page + PGSIZE - (n - k + 1) * m__class[c]]

Carved(H, page, c) ==
  IF page \div PGSIZE >= Len(H.dir) THEN Insert(H, page, PGSIZE)
  ELSE [H EXCEPT !.dir[page \div PGSIZE + 1] = c,
                 !.run = @ \cup {[at |-> page, cls |-> c, slots |-> SlotsOf(page, c), used |-> 0]},
                 !.runs[c] = <<page>> \o @]

m__newrun(H, c) ==
  LET A == m__page(H)
  IN IF A.p = NULL THEN A.H
     ELSE LET D == m__dir_cover(A.H, A.p \div PGSIZE) IN Carved(D, A.p, c)

ClassFor(n) == Least({c \in NClass : m__class[c] >= n})
RunAt(H, page) == CHOOSE r \in H.run : r.at = page

SlotFrom(H, c) ==
  LET r == RunAt(H, Head(H.runs[c]))
  IN [H |-> [H EXCEPT !.run = (@ \ {r}) \cup {[r EXCEPT !.slots = Tail(@), !.used = @ + 1]},
                      !.runs[c] = IF Len(r.slots) = 1 THEN Tail(@) ELSE @],
      p |-> Head(r.slots)]

SmallFrom(H, c) == IF H.runs[c] = <<>> THEN [H |-> H, p |-> NULL] ELSE SlotFrom(H, c)

m__malloc(H, n) ==
  IF n = 0 THEN [H |-> H, p |-> NULL]
  ELSE IF n > MAXSMALL THEN m__big(H, n)
  ELSE LET c == ClassFor(n)
       IN SmallFrom(IF H.runs[c] = <<>> THEN m__newrun(H, c) ELSE H, c)

IsRun(H, p) == p \div PGSIZE < Len(H.dir) /\ H.dir[p \div PGSIZE + 1] # 0

\* A slot goes back to its run, and an empty run to the free list.
SlotBack(H, r, p) ==
  IF r.used > 1
  THEN [H EXCEPT !.run = (@ \ {r}) \cup {[r EXCEPT !.slots = <<p>> \o @, !.used = @ - 1]},
                 !.runs[r.cls] = IF r.slots = <<>> THEN <<r.at>> \o @ ELSE @]
  ELSE m__trim([Insert(H, r.at, PGSIZE) EXCEPT
                  !.run = @ \ {r},
                  !.runs[r.cls] = SelectSeq(@, LAMBDA a : a # r.at),
                  !.dir[r.at \div PGSIZE + 1] = 0])

m__free(H, p) ==
  IF p = NULL THEN H
  ELSE IF IsRun(H, p) THEN SlotBack(H, RunAt(H, PageOf(p)), p)
  ELSE FreeBig(H, p)

Have(H, p) ==
  IF IsRun(H, p) THEN m__class[H.dir[p \div PGSIZE + 1]]
  ELSE (CHOOSE b \in H.big : b.at = p - MHDR).size - MHDR

MovedTo(A, p) == IF A.p = NULL THEN A ELSE [H |-> m__free(A.H, p), p |-> A.p]

\* Mutant: the old object is freed before the new one is there.
m__reallocEarly(H, p, n) ==
  IF p = NULL THEN m__malloc(H, n)
  ELSE IF n = 0 THEN [H |-> m__free(H, p), p |-> NULL]
  ELSE IF Have(H, p) >= n THEN [H |-> H, p |-> p]
  ELSE m__malloc(m__free(H, p), n)

m__realloc(H, p, n) ==
  IF p = NULL THEN m__malloc(H, n)
  ELSE IF n = 0 THEN [H |-> m__free(H, p), p |-> NULL]
  ELSE IF Have(H, p) >= n THEN [H |-> H, p |-> p]
  ELSE MovedTo(m__malloc(H, n), p)

-----------------------------------------------------------------------------
\* After the first call of m__heap: the rest of the page the kernel mapped is
\* the first thing on the free list.
m__heap ==
  [free |-> <<[at |-> HEAD, size |-> PGSIZE - HEAD]>>, top |-> PGSIZE, big |-> {}, run |-> {},
   runs |-> [c \in NClass |-> <<>>], dir |-> <<>>, dirp |-> NULL, room |-> MaxPages - 1,
   denied |-> FALSE]

Init ==
  /\ heap = m__heap
  /\ live = {} /\ others = 0 /\ gaveUp = "no"

\* The last free block is the crumb shorter than a block that m__trim can leave.
Crumb(H) ==
  /\ H.free # <<>>
  /\ LET last == H.free[Len(H.free)] IN last.at + last.size = H.top /\ last.size < MMIN

\* How a call that asked for n ended.
Ended(A, n) ==
  gaveUp' = IF n = 0 \/ A.p # NULL THEN "no"
            ELSE IF A.H.denied THEN "kernel"
            ELSE IF Crumb(heap) THEN "crumb" ELSE "none"

Becomes(H) == heap' = [H EXCEPT !.denied = FALSE]

malloc(n) ==
  /\ Cardinality(live) < MaxLive
  /\ LET A == m__malloc(heap, n)
     IN /\ Becomes(A.H)
        /\ live' = IF A.p = NULL THEN live ELSE live \cup {[p |-> A.p, n |-> n]}
        /\ Ended(A, n)
  /\ UNCHANGED others

free(o) ==
  /\ LET H == m__free(heap, o.p) IN Becomes(H)
  /\ live' = live \ {o}
  /\ gaveUp' = "no"
  /\ UNCHANGED others

realloc(o, n) ==
  /\ LET A == m__realloc(heap, o.p, n)
     IN /\ Becomes(A.H)
        /\ live' = IF A.p # NULL THEN (live \ {o}) \cup {[p |-> A.p, n |-> n]}
                   ELSE IF n = 0 THEN live \ {o} ELSE live
        /\ Ended(A, n)
  /\ UNCHANGED others

\* Other programs take every page the kernel has, or give theirs back.
OthersTake ==
  /\ others = 0 /\ heap.room > 0
  /\ heap' = [heap EXCEPT !.room = 0]
  /\ others' = heap.room
  /\ UNCHANGED <<live, gaveUp>>
OthersGive ==
  /\ others > 0
  /\ heap' = [heap EXCEPT !.room = @ + others]
  /\ others' = 0
  /\ UNCHANGED <<live, gaveUp>>

Next ==
  \/ \E n \in Sizes : malloc(n)
  \/ \E o \in live : free(o) \/ \E n \in Sizes : realloc(o, n)
  \/ OthersTake \/ OthersGive

Spec == Init /\ [][Next]_vars

-----------------------------------------------------------------------------
\* Pages are whole, and every one of them is with the kernel, another program or
\* this heap.
TypeOK ==
  /\ heap.top % PGSIZE = 0
  /\ heap.room >= 0 /\ others >= 0
  /\ heap.top \div PGSIZE + heap.room + others = MaxPages
  /\ \A o \in live : o.p \in 1 .. heap.top - 1
  /\ gaveUp \in {"no", "kernel", "crumb", "none"}

RunPages == {[at |-> r.at, size |-> PGSIZE] : r \in heap.run}
FreeBlocks == {heap.free[i] : i \in DOMAIN heap.free}
Pieces == FreeBlocks \cup heap.big \cup RunPages \cup {[at |-> 0, size |-> HEAD]}

\* The pieces of the heap tile it: no unit below the break is in two of a free
\* block, a block handed out, a run and the header, and none is in no piece,
\* whatever was split, joined, trimmed and carved into runs.  The free list is
\* "address-ordered, so coalescing is local" (struct mheap): no two free blocks
\* touch.
Tiled ==
  /\ \A u \in 0 .. heap.top - 1 :
       Cardinality({b \in Pieces : b.at <= u /\ u < b.at + b.size}) = 1
  /\ \A i \in 1 .. Len(heap.free) - 1 :
       heap.free[i].at + heap.free[i].size < heap.free[i + 1].at

\* free() and malloc() find a run where it is: the directory names the pages of
\* runs and their class, a class lists each of its runs with room once and no
\* other, and a run is there as long as a slot of it is in use.
RunsFound ==
  /\ \A i \in DOMAIN heap.dir :
       heap.dir[i] # 0 <=> \E r \in heap.run : r.at = (i - 1) * PGSIZE /\ r.cls = heap.dir[i]
  /\ \A r \in heap.run :
       /\ r.at \div PGSIZE < Len(heap.dir)
       /\ r.used = Cardinality({o \in live : PageOf(o.p) = r.at}) /\ r.used > 0
       /\ Cardinality({k \in DOMAIN heap.runs[r.cls] : heap.runs[r.cls][k] = r.at})
            = IF r.slots = <<>> THEN 0 ELSE 1
  /\ \A c \in NClass, k \in 1 .. MaxPages :
       k \in DOMAIN heap.runs[c] => \E r \in heap.run : r.at = heap.runs[c][k] /\ r.cls = c

\* What the program holds is its own: distinct slots of runs, not free ones, or
\* blocks, all large enough; every block handed out is one of these or the
\* directory; a failed realloc has left the old object alone; and free() will
\* find each in its run.
Owned ==
  /\ RunsFound
  /\ \A o, q \in live : o.p = q.p => o = q
  /\ \A o \in live :
       \/ \E b \in heap.big : b.at + MHDR = o.p /\ b.size - MHDR >= o.n
       \/ \E r \in heap.run :
            /\ r.at = PageOf(o.p) /\ m__class[r.cls] >= o.n
            /\ \A k \in DOMAIN r.slots : r.slots[k] # o.p
  /\ {b.at + MHDR : b \in heap.big} \subseteq {o.p : o \in live} \cup {heap.dirp}

\* malloc and realloc fail only if the kernel refused a page, or if the heap ended
\* in the crumb m__trim can leave, which hides from m__page the page it asked for.
NeverWithoutCause == gaveUp # "none"

=============================================================================
