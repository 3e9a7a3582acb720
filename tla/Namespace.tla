----------------------------- MODULE Namespace -----------------------------
(***************************************************************************)
(* The namespaces of vfs.c: what a name means to a task.                   *)
(*                                                                         *)
(* A namespace is an ordered table of mounts and binds.  Tasks inherit the *)
(* namespace of the task that makes them, a task may move to a copy of its *)
(* own, and the namespaces nobody looks at are swept when a task dies.     *)
(* Entries with one name are a union, which the client library walks: it   *)
(* asks the kernel for member 0, 1, 2 ... and each server in turn, while   *)
(* other tasks may change the table.                                       *)
(*                                                                         *)
(* A path is a sequence of pieces, "/" and pieces of names, so that a name *)
(* can be longer than another by a piece, as "/mnt2" is than "/mnt".       *)
(***************************************************************************)
EXTENDS Integers, Sequences

CONSTANTS
  NTASK,        \* slots of the task table
  VFS_NNS,      \* namespaces, the root included
  VFS_NMOUNT,   \* entries of a table
  RESOLVE_HOPS, \* binds crossed by one resolution
  BootMounts,   \* the table that kmain leaves in the root namespace
  Mounts,       \* arguments of mount: [prefix, server, flags]
  Binds,        \* arguments of bind: [prefix, target, flags]
  Paths,        \* names programs open
  Openers,      \* the slots whose programs open names
  Files,        \* <<server, name>>: what there is to be opened
  MaxChanges    \* bound on changes of tables in a behaviour

Slots == 0 .. NTASK - 1
Pool == 0 .. VFS_NNS - 1
Flags == {"MREPL", "MBEFORE", "MAFTER"}
Nobody == -1

Prefixes == {m.prefix : m \in Mounts \cup Binds}
             \cup {BootMounts[i].prefix : i \in DOMAIN BootMounts}

ASSUME NamespaceAssumption ==
  /\ NTASK \in Nat \ {0} /\ VFS_NNS \in Nat \ {0} /\ VFS_NMOUNT \in Nat
  /\ RESOLVE_HOPS \in Nat /\ MaxChanges \in Nat
  /\ \A m \in Mounts \cup Binds : m.flags \in Flags
  /\ Len(BootMounts) <= VFS_NMOUNT /\ Openers \subseteq Slots

VARIABLES
  ns_pool,    \* the tables of the namespaces that have a page
  task,       \* per slot: "none", "built" (T_UNUSED with a page table), "live"
  ns,         \* per slot: the namespace it looks at
  walk,       \* per slot: the open in progress, or NoWalk
  changes     \* changes of tables so far

vars == <<ns_pool, task, ns, walk, changes>>

Occupied(t) == task[t] # "none"

-----------------------------------------------------------------------------
(* Matching and resolution.                                                *)

Starts(s, p) == Len(p) <= Len(s) /\ SubSeq(s, 1, Len(p)) = p
EndsInSlash(p) == p[Len(p)] = "/"

\* A prefix ends where a component ends; "/proc/" also owns "/proc".
prefix_matches(path, prefix) ==
  /\ prefix # << >>
  /\ \/ EndsInSlash(prefix) /\ Len(path) = Len(prefix) - 1 /\ Starts(prefix, path)
     \/ /\ Starts(path, prefix)
        /\ \/ EndsInSlash(prefix)
           \/ Len(path) = Len(prefix)
           \/ path[Len(prefix) + 1] = "/"

Matching(table, path) ==
  SelectSeq(table, LAMBDA m : prefix_matches(path, m.prefix))

\* The longest prefix decides; the entries that have it are the union.
Union(table, path) ==
  LET all == Matching(table, path)
  IN SelectSeq(all, LAMBDA m : \A i \in DOMAIN all :
                                 Len(all[i].prefix) <= Len(m.prefix))

\* Mutant: both slashes stay.
SplicedTwice(m, path) ==
  m.target \o SubSeq(path, Len(m.prefix) + 1, Len(path))

\* The head of the path is swapped for the target; of two slashes that meet one
\* goes.
Spliced(m, path) ==
  LET rest == SubSeq(path, Len(m.prefix) + 1, Len(path))
      cut == m.target # << >> /\ EndsInSlash(m.target)
             /\ rest # << >> /\ rest[1] = "/"
  IN m.target \o (IF cut THEN Tail(rest) ELSE rest)

Unresolved == [server |-> Nobody, name |-> << >>]

\* A step of the loop of vfs_resolve: from a name to the next, or to an answer.
Hop(table, path, nth) ==
  LET union == Union(table, path)
      m == union[nth + 1]
  IN IF nth >= Len(union) THEN Unresolved
     ELSE IF m.kind = "MNT_SERVER" THEN [server |-> m.server, name |-> path]
     ELSE [server |-> Nobody, name |-> Spliced(m, path)]

\* The answers after each hop: a name still to be resolved has server Nobody.
Hops(table, path, nth) ==
  LET hop[k \in 0 .. RESOLVE_HOPS] ==
        IF k = 0 THEN [server |-> Nobody, name |-> path]
        ELSE LET at == hop[k - 1]
             IN IF at.server # Nobody \/ at.name = << >> THEN at
                ELSE Hop(table, at.name, IF k = 1 THEN nth ELSE 0)
  IN hop

vfs_resolve(table, path, nth) ==
  LET last == Hops(table, path, nth)[RESOLVE_HOPS]
  IN IF last.server = Nobody THEN Unresolved ELSE last

-----------------------------------------------------------------------------
(* Changing a table.                                                       *)

Without(table, prefix) == SelectSeq(table, LAMBDA m : m.prefix # prefix)

Holding(table, prefix) == {i \in DOMAIN table : table[i].prefix = prefix}

\* How many entries stay before the new one.
Before(table, prefix, flags) ==
  LET at == Holding(table, prefix)
  IN CASE flags = "MAFTER" /\ at # {} ->
            CHOOSE i \in at : \A j \in at : j <= i
       [] flags = "MBEFORE" /\ at # {} ->
            (CHOOSE i \in at : \A j \in at : i <= j) - 1
       [] OTHER -> Len(table)

\* insert_at, and what its callers put there.  A full table refuses, having lost
\* what MREPL removed.
insert_at(table, m, flags) ==
  LET kept == IF flags = "MREPL" THEN Without(table, m.prefix) ELSE table
      b == Before(kept, m.prefix, flags)
  IN IF Len(kept) >= VFS_NMOUNT THEN kept
     ELSE SubSeq(kept, 1, b) \o <<m>> \o SubSeq(kept, b + 1, Len(kept))

ServerAt(prefix, server) ==
  [prefix |-> prefix, kind |-> "MNT_SERVER", server |-> server,
   target |-> << >>]
BoundTo(prefix, old) ==
  [prefix |-> prefix, kind |-> "MNT_BIND", server |-> Nobody, target |-> old]

-----------------------------------------------------------------------------
(* An open in progress, and the members of the union that were there from  *)
(* its first step on.                                                      *)

NoWalk == [path |-> << >>, nth |-> 0, steady |-> {}]
Walking(t) == walk[t] # NoWalk
Members(table, path) ==
  {Union(table, path)[i] : i \in DOMAIN Union(table, path)}
Stays(i, table, removed) ==
  [t \in Slots |->
     IF Walking(t) /\ ns[t] = i
     THEN [walk[t] EXCEPT !.steady = {m \in @ \cap Members(table, walk[t].path) :
                                        m.prefix \notin removed}]
     ELSE walk[t]]

\* A program makes calls while no open of its own is in progress.
Calls(t) == task[t] = "live" /\ ~Walking(t)

\* The caller's namespace gets a table without the old entries of some names.
Changed(t, table, removed) ==
  /\ changes < MaxChanges /\ changes' = changes + 1
  /\ ns_pool' = [ns_pool EXCEPT ![ns[t]] = table]
  /\ walk' = Stays(ns[t], table, removed)
  /\ UNCHANGED <<task, ns>>
Replaced(m) == IF m.flags = "MREPL" THEN {m.prefix} ELSE {}

\* SYS_MOUNT, SYS_BIND and SYS_UNMOUNT, in the namespace of the caller.
vfs_mount(t, m) ==
  /\ Calls(t)
  /\ Changed(t, insert_at(ns_pool[ns[t]], ServerAt(m.prefix, m.server), m.flags),
             Replaced(m))

vfs_bind(t, m) ==
  /\ Calls(t)
  /\ Changed(t, insert_at(ns_pool[ns[t]], BoundTo(m.prefix, m.target), m.flags),
             Replaced(m))

vfs_unmount(t, prefix) ==
  /\ Calls(t)
  /\ Holding(ns_pool[ns[t]], prefix) # {}
  /\ Changed(t, Without(ns_pool[ns[t]], prefix), {prefix})

-----------------------------------------------------------------------------
(* Private namespaces.                                                     *)

Free == Pool \ DOMAIN ns_pool
First(S) == CHOOSE i \in S : \A j \in S : i <= j

\* SYS_NSCLONE.  It also fails, and changes nothing, when there is no page.
vfs_ns_clone(t) ==
  /\ Calls(t)
  /\ \/ /\ Free # {}
        /\ ns_pool' = [i \in DOMAIN ns_pool \cup {First(Free)} |->
                        IF i = First(Free) THEN ns_pool[ns[t]] ELSE ns_pool[i]]
        /\ ns' = [ns EXCEPT ![t] = First(Free)]
        /\ UNCHANGED <<task, walk, changes>>
     \/ UNCHANGED vars

\* Mutant: a task under construction does not count.
LookingAtLive(i, t) == {s \in Slots \ {t} : task[s] = "live" /\ ns[s] = i}
\* Mutant: the sweep runs before the slot of the dead task is free.
LookingAtDead(i, t) == {s \in Slots : Occupied(s) /\ ns[s] = i}
LookingAt(i, t) == {s \in Slots \ {t} : Occupied(s) /\ ns[s] = i}

\* vfs_ns_gc, at the end of task_retire(t).
vfs_ns_gc(t) ==
  ns_pool' = [i \in {j \in DOMAIN ns_pool : j = 0 \/ LookingAt(j, t) # {}}
                |-> ns_pool[i]]

-----------------------------------------------------------------------------
(* Tasks.                                                                  *)

\* task_new_empty and SYS_THREAD: the new task looks where its maker looks.
Create(t, u, as) ==
  /\ Calls(t) /\ ~Occupied(u)
  /\ task' = [task EXCEPT ![u] = as]
  /\ ns' = [ns EXCEPT ![u] = ns[t]]
  /\ UNCHANGED <<ns_pool, walk, changes>>

Start(t, u) ==
  /\ Calls(t) /\ task[u] = "built"
  /\ task' = [task EXCEPT ![u] = "live"]
  /\ UNCHANGED <<ns_pool, ns, walk, changes>>

\* SYS_EXIT, SYS_KILL and faults; slot 0 is the file server's.  The ns of an
\* empty slot is written before it is read again, here it is 0.
Retire(t) ==
  /\ t # 0 /\ Occupied(t)
  /\ task' = [task EXCEPT ![t] = "none"]
  /\ walk' = [walk EXCEPT ![t] = NoWalk]
  /\ vfs_ns_gc(t)
  /\ ns' = [ns EXCEPT ![t] = 0]
  /\ UNCHANGED changes

-----------------------------------------------------------------------------
(* vfs_open of the client library.                                         *)

OpenStart(t, path) ==
  /\ Calls(t)
  /\ walk' = [walk EXCEPT ![t] =
                [path |-> path, nth |-> 0,
                 steady |-> Members(ns_pool[ns[t]], path)]]
  /\ UNCHANGED <<ns_pool, task, ns, changes>>

\* Mutant: every other member.
NextMemberButOne(n) == n + 2
NextMember(n) == n + 1

\* Resolve the next member and ask its server; what the servers have does not
\* change, so that the two traps are one step.
vfs_open(t) ==
  LET r == vfs_resolve(ns_pool[ns[t]], walk[t].path, walk[t].nth)
  IN /\ task[t] = "live" /\ Walking(t)
     /\ IF r.server = Nobody \/ <<r.server, r.name>> \in Files
        THEN walk' = [walk EXCEPT ![t] = NoWalk]
        ELSE walk' = [walk EXCEPT ![t].nth = NextMember(@)]
     /\ UNCHANGED <<ns_pool, task, ns, changes>>

-----------------------------------------------------------------------------
Init ==
  /\ ns_pool = [i \in {0} |-> BootMounts]
  /\ task = [t \in Slots |-> IF t = 0 THEN "live" ELSE "none"]
  /\ ns = [t \in Slots |-> 0]
  /\ walk = [t \in Slots |-> NoWalk]
  /\ changes = 0

Next ==
  \E t \in Slots :
    \/ \E m \in Mounts : vfs_mount(t, m)
    \/ \E m \in Binds : vfs_bind(t, m)
    \/ \E p \in Prefixes : vfs_unmount(t, p)
    \/ vfs_ns_clone(t)
    \/ \E u \in Slots : \E as \in {"built", "live"} : Create(t, u, as)
    \/ \E u \in Slots : Start(t, u)
    \/ Retire(t)
    \/ t \in Openers /\ \E p \in Paths : OpenStart(t, p)
    \/ vfs_open(t)

Spec == Init /\ [][Next]_vars

-----------------------------------------------------------------------------
(* Properties.                                                             *)

\* Every variable has its type, tables within their bound.
TypeOK ==
  /\ DOMAIN ns_pool \subseteq Pool
  /\ \A i \in DOMAIN ns_pool : Len(ns_pool[i]) <= VFS_NMOUNT
  /\ task \in [Slots -> {"none", "built", "live"}]
  /\ ns \in [Slots -> Pool]
  /\ \A t \in Slots : walk[t].nth \in 0 .. VFS_NMOUNT
  /\ changes \in 0 .. MaxChanges

\* No task looks at a namespace whose page was given back: not one that shares
\* it with the task that died, and not one that is still being built
\* (vfs_ns_gc).
NoDangling == \A t \in Slots : Occupied(t) => ns[t] \in DOMAIN ns_pool

\* When a task has died, every namespace that keeps its page has somebody who
\* looks at it: also the ones that clones before had left behind (vfs_ns_gc).
RetireSweeps ==
  [][(\E t \in Slots : Occupied(t) /\ ~Occupied(t)')
       => \A i \in DOMAIN ns_pool' \ {0} :
            \E s \in Slots : Occupied(s)' /\ ns'[s] = i]_vars

\* A server that was a member of the union from the first step of the walk to
\* the last, and has the file.
Missed(t) ==
  \E m \in walk[t].steady :
    m.kind = "MNT_SERVER" /\ <<m.server, walk[t].path>> \in Files
GivesUp(t) ==
  /\ Walking(t) /\ ~Walking(t)' /\ task'[t] = "live"
  /\ vfs_resolve(ns_pool[ns[t]], walk[t].path, walk[t].nth) = Unresolved

\* An open that runs out of members has asked every server that was there all
\* the time, whatever other tasks did to the table meanwhile (vfs_open walks by
\* number while vfs_unmount and insert_at shift the entries).
NoMemberSkipped ==
  [][\A t \in Slots :
       GivesUp(t) /\ walk[t].nth >= Len(Union(ns_pool[ns[t]], walk[t].path))
         => ~Missed(t)]_vars

=============================================================================
