----------------------------- MODULE FileServer -----------------------------
(***************************************************************************)
(* The filesystem server of src/srv_fs.c over the driver of src/fat16.c: a   *)
(* table of open files, each a whole copy in memory; requests of clients    *)
(* that may die and whose task numbers are used again; a volume that is     *)
(* written one sector at a time and a machine that may stop after any of    *)
(* them.                                                                    *)
(*                                                                          *)
(* A request is worked out in one step: it changes the table and leaves in  *)
(* `todo` the volumes its sector writes go through, which then reach `disk` *)
(* one by one.  The server answers nothing else meanwhile.                  *)
(***************************************************************************)
EXTENDS Fat16

CONSTANTS
  Clients, Nobody,
  FS_MAXFD,     \* slots in fs_tab
  Volumes,      \* what may be on the disk at first
  CutVolumes,   \* ... if the machine stopped in the middle of a request before
  Files,        \* paths clients open and create
  Dirs,         \* paths clients make directories of
  Lens,         \* lengths of a client's write, in units
  MaxLen,       \* bound: units of a file
  MaxRequests,  \* bound: requests served
  MaxStops,     \* bound: times the machine stops, tasks die or memory runs out
  Broken        \* numbers of the sector writes a request may see refused; 0: none

VARIABLES
  disk,         \* the volume on the disk
  todo,         \* volumes its sectors still to be written go through
  job,          \* what the writes in `todo` are for
  dc,           \* dcache
  tab,          \* fs_tab
  held,         \* held[t]: descriptors the program running as task t was given
  alive,        \* tasks that exist
  served, stops,
  cut           \* the machine has stopped in the middle of a request

vars == <<disk, todo, job, dc, tab, held, alive, served, stops, cut>>

Fds == 0 .. FS_MAXFD - 1
Paths == Files \cup Dirs \cup {<<>>}
NoJob == [op |-> "none", path |-> <<>>, data |-> <<>>]
NoFile == [used |-> FALSE, owner |-> Nobody, dirty |-> FALSE, pos |-> 0,
           name |-> <<>>, data |-> <<>>]

Init ==
  /\ disk \in Volumes \cup CutVolumes
  /\ todo = <<>>
  /\ job = NoJob
  /\ dc = NoCache
  /\ tab = [fd \in Fds |-> NoFile]
  /\ held = [t \in Clients |-> {}]
  /\ alive = Clients
  /\ served = 0
  /\ stops = 0
  /\ cut = (disk \in CutVolumes)

\* The server is in sys_recv and takes a request of a living client.
Receives(t) ==
  /\ todo = <<>>
  /\ t \in alive
  /\ served < MaxRequests
  /\ served' = served + 1

\* What a request leaves of the driver's work: S.log is still to be written.
Works(S, op, path, data) ==
  /\ todo' = S.log
  /\ job' = IF S.log = <<>> THEN NoJob ELSE [op |-> op, path |-> path, data |-> data]
  /\ dc' = S.dc
  /\ UNCHANGED disk

-----------------------------------------------------------------------------
\* Mutant: a slot is taken from a task that is still there.
fs_allocAny ==
  LET free == {fd \in Fds : ~tab[fd].used}
      from == IF free # {} THEN free ELSE Fds
  IN IF from = {} THEN -1 ELSE CHOOSE fd \in from : \A e \in from : fd <= e

\* A free slot, or one whose owner is gone; -1 if there is neither.
fs_alloc ==
  LET free == {fd \in Fds : ~tab[fd].used}
      orphan == {fd \in Fds : tab[fd].owner \notin alive}
      from == IF free # {} THEN free ELSE orphan
  IN IF from = {} THEN -1 ELSE CHOOSE fd \in from : \A e \in from : fd <= e

\* What an open finds, listing first: a directory gives one unit per entry.
Found(l, p) ==
  IF l.ok THEN [S |-> l.S, ok |-> TRUE, data |-> [j \in 1 .. l.count |-> <<p, Nobody>>]]
  ELSE fat16_read(l.S, p)
Looked(S, p, create) ==
  IF create THEN [S |-> S, ok |-> TRUE, data |-> <<>>] ELSE Found(fat16_list(S, p), p)

Opens(t, fd, p, create, room, r) ==
  /\ Works(r.S, "open", p, <<>>)
  /\ IF room /\ r.ok
     THEN /\ tab' = [tab EXCEPT ![fd] =
               [used |-> TRUE, owner |-> t, dirty |-> create, pos |-> 0,
                name |-> p, data |-> r.data]]
          /\ held' = [held EXCEPT ![t] = @ \cup {fd}]
     ELSE /\ tab' = [tab EXCEPT ![fd] = NoFile]
          /\ UNCHANGED held

\* `room`: whether malloc finds the buffer.
fs_do_open(t, p, create, room) ==
  /\ Receives(t)
  /\ room \/ stops < MaxStops
  /\ IF fs_alloc < 0 THEN UNCHANGED <<disk, todo, job, dc, tab, held>>
     ELSE Opens(t, fs_alloc, p, create, room, Looked(Begin(disk, dc, 0), p, create))
  /\ stops' = IF room THEN stops ELSE stops + 1
  /\ UNCHANGED <<alive, cut>>

fs_do_read(t, fd, len) ==
  /\ Receives(t)
  /\ fd \in held[t] /\ tab[fd].used
  /\ LET left == Len(tab[fd].data) - tab[fd].pos
     IN tab' = [tab EXCEPT ![fd].pos = @ + IF left < len THEN left ELSE len]
  /\ UNCHANGED <<disk, todo, job, dc, held, alive, stops, cut>>

\* At the position reached, over what is there and past the end.
Overwritten(data, pos, len, unit) ==
  [j \in 1 .. (IF pos + len > Len(data) THEN pos + len ELSE Len(data)) |->
     IF j > pos /\ j <= pos + len THEN unit ELSE data[j]]

fs_do_write(t, fd, len, room) ==
  /\ Receives(t)
  /\ fd \in held[t] /\ tab[fd].used
  /\ tab[fd].pos + len <= MaxLen
  /\ room \/ stops < MaxStops
  /\ LET f == tab[fd]
         unit == <<f.name, t>>
     IN tab' = IF ~room \/ f.name = <<>> THEN tab
               ELSE [tab EXCEPT ![fd].data = Overwritten(f.data, f.pos, len, unit),
                                ![fd].pos = @ + len, ![fd].dirty = TRUE]
  /\ stops' = IF room THEN stops ELSE stops + 1
  /\ UNCHANGED <<disk, todo, job, dc, held, alive, cut>>

\* VFS_CLOSE: fs_flush writes the file back whole if it is dirty.
fs_flush(t, fd, fail) ==
  /\ Receives(t)
  /\ fd \in held[t] /\ tab[fd].used
  /\ Works(IF tab[fd].dirty THEN fat16_write(Begin(disk, dc, fail), tab[fd].name, tab[fd].data)
           ELSE Begin(disk, dc, 0), "write", tab[fd].name, tab[fd].data)
  /\ tab' = [tab EXCEPT ![fd] = NoFile]
  /\ held' = [held EXCEPT ![t] = @ \ {fd}]
  /\ UNCHANGED <<alive, stops, cut>>

\* IOCTL_REMOVE, on an open file.
Remove(t, fd) ==
  /\ Receives(t)
  /\ fd \in held[t] /\ tab[fd].used
  /\ Works(fat16_remove(Begin(disk, dc, 0), tab[fd].name), "remove", tab[fd].name, <<>>)
  /\ tab' = [tab EXCEPT ![fd].dirty = FALSE]
  /\ UNCHANGED <<held, alive, stops, cut>>

\* IOCTL_MKDIR, on a path.
MkDir(t, p) ==
  /\ Receives(t)
  /\ Works(fat16_mkdir(Begin(disk, dc, 0), p), "mkdir", p, <<>>)
  /\ UNCHANGED <<tab, held, alive, stops, cut>>

-----------------------------------------------------------------------------
\* The device completes a write.
SectorLands ==
  /\ todo # <<>>
  /\ disk' = Head(todo)
  /\ todo' = Tail(todo)
  /\ job' = IF Len(todo) = 1 THEN NoJob ELSE job
  /\ UNCHANGED <<dc, tab, held, alive, served, stops, cut>>

\* A client is killed, and closes nothing.
Dies(t) ==
  /\ todo = <<>>
  /\ t \in alive /\ held[t] # {}
  /\ stops < MaxStops
  /\ alive' = alive \ {t}
  /\ held' = [held EXCEPT ![t] = {}]
  /\ stops' = stops + 1
  /\ UNCHANGED <<disk, todo, job, dc, tab, served, cut>>

\* Another program runs under the number of the dead one.
Reborn(t) ==
  /\ todo = <<>>
  /\ t \notin alive
  /\ alive' = alive \cup {t}
  /\ UNCHANGED <<disk, todo, job, dc, tab, held, served, stops, cut>>

\* The machine stops and starts again: the disk is all that is left.
Stops ==
  /\ stops < MaxStops
  /\ todo # <<>>
  /\ todo' = <<>>
  /\ job' = NoJob
  /\ dc' = NoCache
  /\ tab' = [fd \in Fds |-> NoFile]
  /\ held' = [t \in Clients |-> {}]
  /\ alive' = Clients
  /\ stops' = stops + 1
  /\ cut' = TRUE
  /\ UNCHANGED <<disk, served>>

Next ==
  \/ \E t \in Clients :
       \/ \E p \in Paths, room \in BOOLEAN : fs_do_open(t, p, FALSE, room)
       \/ \E p \in Files : fs_do_open(t, p, TRUE, TRUE)
       \/ \E fd \in Fds : fs_do_read(t, fd, 1)
       \/ \E fd \in Fds, len \in Lens, room \in BOOLEAN : fs_do_write(t, fd, len, room)
       \/ \E fd \in Fds, fail \in Broken : fs_flush(t, fd, fail)
       \/ \E fd \in Fds : Remove(t, fd)
       \/ \E p \in Dirs : MkDir(t, p)
       \/ Dies(t)
       \/ Reborn(t)
  \/ SectorLands
  \/ Stops

Spec == Init /\ [][Next]_vars

-----------------------------------------------------------------------------
\* What a volume shows to a driver that starts on it.
Fresh(v) == Begin(v, NoCache, 0)

\* The entries of a directory but the two about itself.
Proper(ents) == {ents[j] : j \in {i \in 1 .. Len(ents) : ents[i].name \notin {Dot, DotDot}}}
EntriesOf(S, dir) == Proper(Listing(S, dir).ents)

\* Every entry that can be reached, with its path.  Directories are two deep.
Deep(S, top) ==
  {[path |-> <<e.name>>, ent |-> e.ent] : e \in top}
    \cup UNION {{[path |-> <<e.name, x.name>>, ent |-> x.ent] :
                   x \in EntriesOf(S, e.ent.first)} : e \in {y \in top : y.ent.dir}}
Shown(S) == Deep(S, EntriesOf(S, 0))

\* The files and directories of a volume and what they hold.
View(S) ==
  {[path |-> s.path, dir |-> s.ent.dir,
    data |-> IF s.ent.dir THEN <<>> ELSE ReadChain(S, s.ent.first, s.ent.size)] :
     s \in Shown(S)}

RECURSIVE ChainOf(_, _, _)
ChainOf(v, c, seen) ==
  IF ~InChain(c) \/ c \in seen THEN seen ELSE ChainOf(v, v.fat[1][c], seen \cup {c})

TypeOK ==
  /\ Len(todo) > 0 <=> job # NoJob
  /\ \A fd \in Fds :
       /\ tab[fd].used => tab[fd].owner \in Clients /\ tab[fd].pos <= Len(tab[fd].data)
       /\ ~tab[fd].used => tab[fd] = NoFile
  /\ held \in [Clients -> SUBSET Fds]
  /\ dc.lba \in Sectors \cup {-1}
  /\ disk.fat \in [1 .. 2 -> [Clusters -> Clusters \cup {FREE, EOC}]]

\* The comment in fat16_write, "interrupted anywhere, the volume has a stale
\* entry rather than one aimed at clusters already handed to something else":
\* wherever the machine stops, every entry's chain is allocated, as long as its
\* size says and inside the disk, and no two entries share a cluster.
NoCrossLink ==
  LET shown == Shown(Fresh(disk))
      chain(s) == ChainOf(disk, s.ent.first, {})
  IN /\ \A s \in shown :
          /\ \A c \in chain(s) : disk.fat[1][c] # FREE /\ Lba(c) \in Sectors
          /\ Cardinality(chain(s)) = IF s.ent.dir THEN 1 ELSE (s.ent.size + CSZ - 1) \div CSZ
     /\ \A s, u \in shown : s # u => chain(s) \cap chain(u) = {}

\* "There is no partial state to be interrupted in" (fat16.h): each sector that
\* lands leaves what the volume shows as it was, or does the whole of what was
\* asked: the file holds exactly what its descriptor held at close, or is gone,
\* or the directory is there, under the name asked for and no other (dir_erase:
\* "a later file could take the short slot and inherit somebody else's name").
\* A long name being removed may show as its short one on the way.
AllOrNothing ==
  [][SectorLands =>
       LET before == View(Fresh(disk))
           after == View(Fresh(disk'))
           target == {e \in before : e.path = job.path}
           asShort(e) == e.path[Len(e.path)][2] > 0
       IN \/ after = before
          \/ /\ job.op = "write"
             /\ after = (before \ target)
                          \cup {[path |-> job.path, dir |-> FALSE, data |-> job.data]}
          \/ /\ job.op = "mkdir"
             /\ after = before \cup {[path |-> job.path, dir |-> TRUE, data |-> <<>>]}
          \/ /\ job.op = "remove"
             /\ \/ after = before \ target
                \/ \E e \in before : asShort(e) /\ after = before \ {e}
                \/ \E e \in after : /\ asShort(e) /\ target # {}
                                    /\ \A x \in target : x.data = e.data
                                    /\ after = (before \ target) \cup {e}]_vars

\* "Out of room: leave nothing behind" (fat16_write): unless the machine has
\* stopped on the way, between requests the clusters in use are those some entry
\* leads to, whichever way earlier requests failed, and the copies of the FAT
\* agree.
NothingLeaked ==
  (todo = <<>> /\ ~cut /\ Broken = {0}) =>
     /\ disk.fat[1] = disk.fat[2]
     /\ {c \in Clusters : disk.fat[1][c] # FREE}
          = UNION {ChainOf(disk, s.ent.first, {}) : s \in Shown(Fresh(disk))}

\* Two living programs never share a slot of the table: a descriptor somebody
\* was given leads to the file they opened until they close it.
SlotIsTheirs ==
  /\ \A t \in Clients : \A fd \in held[t] : tab[fd].used /\ tab[fd].owner = t
  /\ \A t, u \in Clients : t # u => held[t] \cap held[u] = {}

=============================================================================
