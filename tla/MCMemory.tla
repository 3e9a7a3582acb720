------------------------------ MODULE MCMemory ------------------------------
(***************************************************************************)
(* Small memories for TLC: two units to a page, a heap of one to three     *)
(* pages, programs of one or two, and registers of five bits.              *)
(***************************************************************************)
EXTENDS Memory

\* Less than a page, so that the break moves within a page and over its end; two
\* pages at once, of which there may be only one; and no move at all.
SomeDeltas == {-4, -1, 0, 1, 4}

\* Which frame is which is immaterial as long as none has two owners: two states
\* with the same answers to these questions differ by a renaming of the frames.
Shape ==
  <<state, brk, dma_next, failed, spoilt, Cardinality(free),
    {<<s, t>> \in Slots \X Slots : pt[s] # Nil /\ pt[s] = pt[t]},
    [s \in Slots |-> IF pt[s] = Nil THEN {}
                     ELSE {r \in Regions : table[pt[s]][r] # Nil}],
    [s \in Slots |-> IF pt[s] = Nil THEN <<{}, {}>>
                     ELSE <<{p \in Pages : leaf[pt[s]][p] \in Frames},
                            {p \in Pages : leaf[pt[s]][p] = Nil}>>]>>
=============================================================================
