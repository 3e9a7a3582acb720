-------------------------------- MODULE Fat16 --------------------------------
(***************************************************************************)
(* The FAT16 driver of src/fat16.c: clusters, chains, directory slots, long *)
(* names, and the order in which an operation's sectors reach the disk.     *)
(*                                                                          *)
(* Every operation of the driver is a function from a state S to a state:   *)
(*   v     the volume as the sectors written so far leave it                *)
(*   dc    dcache: the one directory sector the driver remembers            *)
(*   log   the volumes left by each sector written, in order: what the disk *)
(*         holds if the machine stops there                                 *)
(*   n     sectors written or refused so far, of which number `fail` is     *)
(*         refused by the device (0: none)                                  *)
(*   ok    what the last blk_read or blk_write said                         *)
(*   res   what the operation returns                                       *)
(*                                                                          *)
(* A name is <<base, k>>: k = 0 for a name as it is written, k > 0 for the  *)
(* derived short name "BASE~k".  The checksum of a short name is the short  *)
(* name.  A file is a sequence of units, CSZ of which fill a cluster; a     *)
(* cluster is one sector.  Reads do not fail.                               *)
(***************************************************************************)
EXTENDS Integers, Sequences, FiniteSets

CONSTANTS
  NFAT,         \* entries of a FAT, numbered from 0; 0 and 1 are reserved
  NDATA,        \* clusters the disk really has
  ROOT_SECS,    \* sectors of the root directory
  SLOTS,        \* SLOTS_PER_SEC
  CSZ,          \* units of a file in a cluster
  Base,         \* what a name that needs long entries derives its short name from
  Chunks,       \* how many long entries it needs
  Zero          \* the unit that fills the tail of the last cluster

FREE == 0
EOC == 65535
Clusters == 2 .. NFAT - 1
Sectors == 0 .. ROOT_SECS + NDATA - 1
InChain(c) == c \in Clusters
Lba(c) == ROOT_SECS + c - 2

End == [kind |-> "end"]
Gone == [kind |-> "gone"]
LongSlot(of, seq, last, sum) ==
  [kind |-> "long", of |-> of, seq |-> seq, last |-> last, sum |-> sum]
ShortSlot(short, isdir, first, size) ==
  [kind |-> "short", short |-> short, dir |-> isdir, first |-> first, size |-> size]
Dot == <<".", 0>>
DotDot == <<"..", 0>>
Torn == <<"", 0>>

NoSlots == [i \in 0 .. SLOTS - 1 |-> End]
Blank == [j \in 1 .. CSZ |-> Zero]
SlotSector(slots) == [slots |-> slots, bytes |-> Blank]
DataSector(bytes) == [slots |-> NoSlots, bytes |-> bytes]

Formatted ==
  [fat |-> [f \in 1 .. 2 |-> [c \in Clusters |-> FREE]],
   sec |-> [l \in Sectors |-> SlotSector(NoSlots)]]

NoCache == [lba |-> -1, slots |-> NoSlots]

Begin(v, dc, fail) ==
  [v |-> v, dc |-> dc, log |-> <<>>, n |-> 0, fail |-> fail, ok |-> TRUE, res |-> 0]

-----------------------------------------------------------------------------
\* Sectors and chains.

Landed(S, w) == [S EXCEPT !.v = w, !.log = Append(@, w), !.n = @ + 1, !.ok = TRUE]
Refused(S) == [S EXCEPT !.n = @ + 1, !.ok = FALSE]

\* A sector past the end of the disk is refused as a broken one is.
blk_write(S, lba, content) ==
  IF lba \notin Sectors \/ S.n + 1 = S.fail THEN Refused(S)
  ELSE Landed(S, [S.v EXCEPT !.sec[lba] = content])

fat_next(S, c) == S.v.fat[1][c]

SetCopy(S, f, c, val) ==
  IF S.n + 1 = S.fail THEN Refused(S)
  ELSE Landed(S, [S.v EXCEPT !.fat[f][c] = val])

fat_set(S, c, val) == SetCopy(SetCopy(S, 1, c, val), 2, c, val)

\* 0 when there is none left; the last entries of a FAT may have no cluster.
fat_alloc_from(S, from) ==
  LET free == {c \in Clusters : c >= from /\ S.v.fat[1][c] = FREE}
  IN IF free = {} THEN 0 ELSE CHOOSE c \in free : \A e \in free : c <= e

\* Mutant: only the first cluster of a chain is freed.
fat_free_chainHead(S, c) == IF ~InChain(c) THEN S ELSE fat_set(S, c, FREE)

RECURSIVE fat_free_chain(_, _)
fat_free_chain(S, c) ==
  IF ~InChain(c) THEN S ELSE fat_free_chain(fat_set(S, c, FREE), fat_next(S, c))

RECURSIVE NthCluster(_, _, _)
NthCluster(S, c, skip) ==
  IF skip = 0 \/ ~InChain(c) THEN c ELSE NthCluster(S, fat_next(S, c), skip - 1)

\* The n-th sector of a directory, or -1 past its end.  0 is the root.
dir_sector(S, dir, n) ==
  IF dir = 0 THEN IF n >= ROOT_SECS THEN -1 ELSE n
  ELSE LET c == NthCluster(S, dir, n) IN IF InChain(c) THEN Lba(c) ELSE -1

\* Brings the sector of slot i under dcache.
slot_ptr(S, dir, i) ==
  LET lba == dir_sector(S, dir, i \div SLOTS)
  IN IF lba < 0 THEN [S EXCEPT !.ok = FALSE]
     ELSE IF S.dc.lba = lba THEN [S EXCEPT !.ok = TRUE]
     ELSE [S EXCEPT !.ok = TRUE, !.dc = [lba |-> lba, slots |-> S.v.sec[lba].slots]]

SlotAt(S, i) == S.dc.slots[i % SLOTS]

WriteBack(S) == blk_write(S, S.dc.lba, SlotSector(S.dc.slots))

PutUnder(P, i, ent) ==
  IF ~P.ok THEN P ELSE WriteBack([P EXCEPT !.dc.slots[i % SLOTS] = ent])

\* dcache takes the entry before the disk does.
slot_put(S, dir, i, ent) == PutUnder(slot_ptr(S, dir, i), i, ent)

-----------------------------------------------------------------------------
\* Walking a directory.

NoChain == [have |-> FALSE, sum |-> Torn, first |-> 0, got |-> {}]

\* The name of the pieces collected; one with a hole in it is cut short.
Assembled(got) ==
  LET whole == {nm \in DOMAIN Chunks : got = {<<nm, s>> : s \in 1 .. Chunks[nm]}}
  IN IF whole = {} THEN Torn ELSE <<CHOOSE nm \in whole : TRUE, 0>>

\* The long name in front of a short entry, if it was made for that entry.
NameOf(lfn, d) ==
  IF lfn.have /\ lfn.sum = d.short THEN Assembled(lfn.got) ELSE d.short

\* A long entry in slot i: one marked last begins a name.
Collected(lfn, d, i) ==
  LET begun == IF d.last THEN [have |-> TRUE, sum |-> d.sum, first |-> i, got |-> {}]
               ELSE lfn
  IN IF begun.have THEN [begun EXCEPT !.got = @ \cup {<<d.of, d.seq>>}] ELSE NoChain

RECURSIVE ScanSlot(_, _, _, _)
\* The next short entry from slot i on: idx = -1 at the end of the directory.
dscan_next(S, dir, i, lfn) == ScanSlot(slot_ptr(S, dir, i), dir, i, lfn)

ScanSlot(P, dir, i, lfn) ==
  LET d == SlotAt(P, i)
  IN CASE ~P.ok \/ d.kind = "end" ->
            [S |-> P, idx |-> -1, chain |-> 0, name |-> Torn, ent |-> End]
       [] OTHER ->
            CASE d.kind = "gone" -> dscan_next(P, dir, i + 1, NoChain)
              [] d.kind = "long" -> dscan_next(P, dir, i + 1, Collected(lfn, d, i))
              [] d.kind = "short" ->
                   [S |-> P, idx |-> i, chain |-> IF lfn.have THEN lfn.first ELSE i,
                    name |-> NameOf(lfn, d), ent |-> d]

RECURSIVE Matching(_, _, _)
LookupFrom(S, dir, name, i) == Matching(dscan_next(S, dir, i, NoChain), dir, name)
Matching(e, dir, name) ==
  IF e.idx < 0 \/ e.name = name THEN e ELSE LookupFrom(e.S, dir, name, e.idx + 1)

dir_lookup(S, dir, name) == LookupFrom(S, dir, name, 0)

\* All short entries of a directory, in order.
RECURSIVE Listed(_, _, _)
Listed(e, dir, ents) ==
  IF e.idx < 0 THEN [S |-> e.S, ents |-> ents]
  ELSE Listed(dscan_next(e.S, dir, e.idx + 1, NoChain), dir, Append(ents, e))

Listing(S, dir) == Listed(dscan_next(S, dir, 0, NoChain), dir, <<>>)

\* The first run of `count` free slots: start = -1 if the directory has none.
RECURSIVE RunOn(_, _, _, _, _)
RunOn(P, dir, count, i, run) ==
  LET longer == IF SlotAt(P, i).kind \in {"end", "gone"} THEN run + 1 ELSE 0
  IN IF ~P.ok THEN [S |-> P, start |-> -1]
     ELSE IF longer >= count THEN [S |-> P, start |-> i + 1 - count]
     ELSE RunOn(slot_ptr(P, dir, i + 1), dir, count, i + 1, longer)

dir_run(S, dir, count) == RunOn(slot_ptr(S, dir, 0), dir, count, 0, 0)

fits_83(name) == name[1] \notin DOMAIN Base
LongEntries(name) == IF fits_83(name) THEN 0 ELSE Chunks[name[1]]

ShortAmong(all, base) ==
  LET taken == {all.ents[j].ent.short : j \in 1 .. Len(all.ents)}
      free == {k \in 1 .. 99 : <<base, k>> \notin taken}
      k == IF free = {} THEN 99 ELSE CHOOSE m \in free : \A o \in free : m <= o
  IN [S |-> all.S, short |-> <<base, k>>]

\* BASE~1, BASE~2 ... until it is not among the short names on the disk.
short_name_for(S, dir, name) == ShortAmong(Listing(S, dir), Base[name[1]])

\* Where a path ends: the directory that holds its last component.
RECURSIVE Walk(_, _)
Through(e, path) ==
  IF e.idx < 0 \/ ~e.ent.dir THEN [S |-> e.S, dir |-> 0, ok |-> FALSE, path |-> path]
  ELSE Walk([S |-> e.S, dir |-> e.ent.first, ok |-> TRUE, path |-> path], Len(path))
Walk(w, left) ==
  IF left <= 1 THEN w ELSE Through(dir_lookup(w.S, w.dir, w.path[1]), Tail(w.path))

resolve(S, path) == Walk([S |-> S, dir |-> 0, ok |-> TRUE, path |-> path], Len(path))

\* The entry a path names: `way` if its directory is there, `found` if it is.
FoundIn(e, dir) ==
  [S |-> e.S, way |-> TRUE, dir |-> dir, found |-> e.idx >= 0,
   idx |-> e.idx, chain |-> e.chain, ent |-> e.ent]
NamedIn(w) ==
  IF ~w.ok \/ w.path = <<>>
  THEN [S |-> w.S, way |-> FALSE, dir |-> w.dir, found |-> FALSE,
        idx |-> -1, chain |-> 0, ent |-> End]
  ELSE FoundIn(dir_lookup(w.S, w.dir, w.path[1]), w.dir)

Named(S, path) == NamedIn(resolve(S, path))

-----------------------------------------------------------------------------
\* The operations.

Fails(S) == [S EXCEPT !.res = -1]
Returns(S, r) == [S EXCEPT !.res = r]

NoList(S) == [S |-> S, ok |-> FALSE, count |-> 0]
Counted(l) == [S |-> l.S, ok |-> TRUE, count |-> Len(l.ents)]
ListAt(nm) ==
  IF nm.found /\ nm.ent.dir THEN Counted(Listing(nm.S, nm.ent.first)) ELSE NoList(nm.S)

\* How many entries a directory has; ok = FALSE if it is none.
fat16_list(S, path) ==
  IF path = <<>> THEN Counted(Listing(S, 0)) ELSE ListAt(Named(S, path))

RECURSIVE ReadChain(_, _, _)
ReadChain(S, c, left) ==
  IF ~InChain(c) \/ left <= 0 THEN <<>>
  ELSE SubSeq(IF Lba(c) \in Sectors THEN S.v.sec[Lba(c)].bytes ELSE Blank,
              1, IF left < CSZ THEN left ELSE CSZ)
       \o ReadChain(S, fat_next(S, c), left - CSZ)

ReadAt(nm) ==
  IF ~nm.found \/ nm.ent.dir THEN [S |-> nm.S, ok |-> FALSE, data |-> <<>>]
  ELSE [S |-> nm.S, ok |-> TRUE, data |-> ReadChain(nm.S, nm.ent.first, nm.ent.size)]

\* fat16_size and fat16_read: what a file holds.
fat16_read(S, path) == ReadAt(Named(S, path))

\* The long entries, last piece first.
RECURSIVE PutLong(_, _, _, _, _, _)
PutLong(S, dir, start, k, name, short) ==
  IF k = LongEntries(name) \/ ~S.ok THEN S
  ELSE PutLong(slot_put(S, dir, start + k,
                        LongSlot(name[1], LongEntries(name) - k, k = 0, short)),
               dir, start, k + 1, name, short)

PutShort(S, dir, i, ent) == IF ~S.ok THEN S ELSE slot_put(S, dir, i, ent)
Ended(S) == IF S.ok THEN Returns(S, 0) ELSE Fails(S)

\* Mutant: the short entry first, and the long ones in front of it afterwards.
CreateAtShortFirst(r, dir, name, short, ent) ==
  IF r.start < 0 THEN Fails(r.S)
  ELSE Ended(PutLong(PutShort(r.S, dir, r.start + LongEntries(name), ent),
                     dir, r.start, 0, name, short))

\* The long entries in the slots found, then the short one they belong to.
CreateAt(r, dir, name, short, ent) ==
  IF r.start < 0 THEN Fails(r.S)
  ELSE Ended(PutShort(PutLong(r.S, dir, r.start, 0, name, short),
                      dir, r.start + LongEntries(name), ent))

CreateAs(s, dir, name, isdir, first, size) ==
  CreateAt(dir_run(s.S, dir, LongEntries(name) + 1), dir, name, s.short,
           ShortSlot(s.short, isdir, first, size))

dir_create(S, dir, name, isdir, first, size) ==
  CreateAs(IF fits_83(name) THEN [S |-> S, short |-> name]
           ELSE short_name_for(S, dir, name),
           dir, name, isdir, first, size)

\* Cluster i (from 0) of a file, the tail of the last one zeroed.
Piece(data, i) ==
  [j \in 1 .. CSZ |-> IF i * CSZ + j <= Len(data) THEN data[i * CSZ + j] ELSE Zero]

Linked(S, prev, c) == IF prev = 0 THEN S ELSE fat_set(S, prev, c)

\* Allocates and fills the chain: res is its first cluster, or -1 with nothing
\* left behind.
RECURSIVE Filled(_, _, _, _, _)
FillWith(S, data, i, first, prev, c) ==
  IF c = 0 THEN Fails(fat_free_chain(S, first))
  ELSE Filled(blk_write(Linked(fat_set(S, c, EOC), prev, c), Lba(c),
                        DataSector(Piece(data, i))),
              data, i, IF prev = 0 THEN c ELSE first, c)
Fill(S, data, i, first, prev) ==
  IF i * CSZ >= Len(data) THEN Returns(S, first)
  ELSE FillWith(S, data, i, first, prev, fat_alloc_from(S, prev + 1))
Filled(W, data, i, first, c) ==
  IF ~W.ok THEN Fails(fat_free_chain(W, first)) ELSE Fill(W, data, i + 1, first, c)

Undone(S, first) == Fails(fat_free_chain(S, first))

\* Mutant: the old chain is freed before the name has been pointed elsewhere.
RepointLate(S, nm, first, size) ==
  Returns(slot_put(fat_free_chain(S, nm.ent.first), nm.dir, nm.idx,
                   [nm.ent EXCEPT !.first = first, !.size = size]), size)

Repointed(P, old, first, size) ==
  IF ~P.ok THEN Undone(P, first) ELSE Returns(fat_free_chain(P, old), size)

\* The name is pointed at the new chain, and the old one freed after that.
Repoint(S, nm, first, size) ==
  Repointed(slot_put(S, nm.dir, nm.idx, [nm.ent EXCEPT !.first = first, !.size = size]),
            nm.ent.first, first, size)

Entered(C, first, size) == IF C.res < 0 THEN Undone(C, first) ELSE Returns(C, size)

NameIt(F, nm, name, size) ==
  IF F.res < 0 THEN F
  ELSE IF nm.found THEN Repoint(F, nm, F.res, size)
  ELSE Entered(dir_create(F, nm.dir, name, FALSE, F.res, size), F.res, size)

WriteAt(nm, name, data) ==
  IF ~nm.way \/ (nm.found /\ nm.ent.dir) THEN Fails(nm.S)
  ELSE NameIt(Fill(nm.S, data, 0, 0, 0), nm, name, Len(data))

fat16_write(S, path, data) ==
  WriteAt(Named(S, path), IF path = <<>> THEN Torn ELSE path[Len(path)], data)

RECURSIVE dir_erase(_, _, _, _)

dir_erase(S, dir, i, slot) ==
  IF i > slot \/ ~S.ok THEN S ELSE dir_erase(slot_put(S, dir, i, Gone), dir, i + 1, slot)

Freed(E, first) == IF ~E.ok THEN Fails(E) ELSE Returns(fat_free_chain(E, first), 0)
Unlink(S, nm) ==
  Freed(dir_erase([S EXCEPT !.ok = TRUE], nm.dir, nm.chain, nm.idx), nm.ent.first)

\* A directory goes only if it holds nothing but the two entries about itself.
UnlinkDir(in, nm) ==
  IF \E j \in 1 .. Len(in.ents) : in.ents[j].name \notin {Dot, DotDot}
  THEN Fails(in.S) ELSE Unlink(in.S, nm)

RemoveAt(nm) ==
  IF ~nm.found THEN Fails(nm.S)
  ELSE IF nm.ent.dir THEN UnlinkDir(Listing(nm.S, nm.ent.first), nm)
  ELSE Unlink(nm.S, nm)

fat16_remove(S, path) == RemoveAt(Named(S, path))

\* An empty sector, which may be the one dcache remembers.
Zeroed(W) == IF W.ok THEN [W EXCEPT !.dc = NoCache] ELSE W
EnterDir(S, dir, name, c) ==
  IF ~S.ok THEN Fails(S) ELSE dir_create(S, dir, name, TRUE, c, 0)
MadeOr(S, c) == IF S.res < 0 THEN Fails(fat_set(S, c, FREE)) ELSE S

MakeIn(S, dir, name, c) ==
  IF c = 0 THEN Fails(S)
  ELSE MadeOr(EnterDir(
         PutShort(
           PutShort(Zeroed(blk_write(fat_set(S, c, EOC), Lba(c), SlotSector(NoSlots))),
                    c, 0, ShortSlot(Dot, TRUE, c, 0)),
           c, 1, ShortSlot(DotDot, TRUE, dir, 0)),
         dir, name, c), c)

MakeAt(nm, name) ==
  IF ~nm.way \/ nm.found THEN Fails(nm.S)
  ELSE MakeIn(nm.S, nm.dir, name, fat_alloc_from(nm.S, 2))

fat16_mkdir(S, path) == MakeAt(Named(S, path), path[Len(path)])

=============================================================================
