-------------------------- MODULE NamespaceProofs ---------------------------
(***************************************************************************)
(* The namespaces live as long as somebody looks at them and no longer,    *)
(* for any number of tasks, namespaces and mounts.                         *)
(***************************************************************************)
EXTENDS Namespace, TLAPS

\* What the proofs need of the types: who is there, and where they look.
Kinds ==
  /\ task \in [Slots -> {"none", "built", "live"}]
  /\ ns = [t \in Slots |-> ns[t]]

\* The inductive invariant: NoDangling, with the root always there, which is
\* where the ns of an empty slot points.
NInv ==
  /\ Kinds
  /\ 0 \in DOMAIN ns_pool
  /\ NoDangling

\* At boot the root is the only namespace and the file server looks at it.
LEMMA InitNInv == Init => NInv
BY NamespaceAssumption, Zenon DEF Init, NInv, Kinds, NoDangling, Occupied, Slots

\* A step that moves nobody and takes no namespace away.
LEMMA NInvKept ==
  ASSUME NInv, UNCHANGED <<task, ns>>, DOMAIN ns_pool \subseteq DOMAIN ns_pool'
  PROVE  NInv'
BY Zenon DEF NInv, Kinds, NoDangling, Occupied

\* vfs_mount, vfs_bind and vfs_unmount write one table.
LEMMA ChangedKeeps ==
  ASSUME NInv, NEW t, NEW table, NEW removed, Changed(t, table, removed)
  PROVE  NInv'
<1>1. UNCHANGED <<task, ns>> /\ DOMAIN ns_pool' = DOMAIN ns_pool
  BY Zenon DEF Changed
<1> QED
  BY <1>1, NInvKept, Zenon

\* vfs_ns_clone moves its caller to the namespace it has just filled.
LEMMA CloneKeeps ==
  ASSUME NInv, NEW t \in Slots, vfs_ns_clone(t) PROVE NInv'
<1> DEFINE f == First(Free)
<1>1. CASE /\ ns_pool' = [i \in DOMAIN ns_pool \cup {f} |->
                            IF i = f THEN ns_pool[ns[t]] ELSE ns_pool[i]]
           /\ ns' = [ns EXCEPT ![t] = f] /\ UNCHANGED task
  <2>1. DOMAIN ns_pool' = DOMAIN ns_pool \cup {f}
    BY <1>1, Zenon
  <2>2. ns'[t] = f /\ \A s \in Slots : s # t => ns'[s] = ns[s]
    BY <1>1, Zenon DEF NInv, Kinds
  <2>3. Kinds'
    BY <1>1, Zenon DEF NInv, Kinds
  <2> HIDE DEF f
  <2> QED
    BY <1>1, <2>1, <2>2, <2>3, Zenon DEF NInv, NoDangling, Occupied
<1>2. CASE UNCHANGED vars
  BY <1>2, NInvKept, Zenon DEF vars
<1> QED
  BY <1>1, <1>2, Zenon DEF vfs_ns_clone

\* What a retirement leaves: the dead task gone, everybody else where they
\* were, and of the namespaces the root and those somebody looks at.
LEMMA RetireLeaves ==
  ASSUME NInv, NEW t \in Slots, Retire(t)
  PROVE  /\ task'[t] = "none" /\ \A s \in Slots : s # t => task'[s] = task[s]
         /\ \A s \in Slots : s # t => ns'[s] = ns[s]
         /\ DOMAIN ns_pool' = {j \in DOMAIN ns_pool : j = 0 \/ LookingAt(j, t) # {}}
         /\ Kinds'
<1>1. /\ task' = [task EXCEPT ![t] = "none"] /\ ns' = [ns EXCEPT ![t] = 0]
      /\ ns_pool' = [i \in {j \in DOMAIN ns_pool : j = 0 \/ LookingAt(j, t) # {}}
                       |-> ns_pool[i]]
  BY Zenon DEF Retire, vfs_ns_gc
<1>2. DOMAIN ns_pool' = {j \in DOMAIN ns_pool : j = 0 \/ LookingAt(j, t) # {}}
  BY <1>1, Zenon
<1> QED
  BY <1>1, <1>2, Zenon DEF NInv, Kinds

\* vfs_ns_gc takes no namespace that a living or a half-built task looks at.
LEMMA RetireKeeps == ASSUME NInv, NEW t \in Slots, Retire(t) PROVE NInv'
<1>1. /\ task'[t] = "none" /\ \A s \in Slots : s # t => task'[s] = task[s]
      /\ \A s \in Slots : s # t => ns'[s] = ns[s]
      /\ DOMAIN ns_pool' = {j \in DOMAIN ns_pool : j = 0 \/ LookingAt(j, t) # {}}
      /\ Kinds'
  BY RetireLeaves, Zenon
<1>2. ASSUME NEW s \in Slots, Occupied(s)' PROVE ns'[s] \in DOMAIN ns_pool'
  <2>1. s # t /\ Occupied(s) /\ ns'[s] = ns[s]
    BY <1>1, <1>2, Zenon DEF Occupied
  <2>2. ns[s] \in DOMAIN ns_pool /\ s \in LookingAt(ns[s], t)
    BY <2>1, Zenon DEF NInv, NoDangling, LookingAt
  <2> QED
    BY <1>1, <2>1, <2>2, Zenon
<1> QED
  BY <1>1, <1>2, Zenon DEF NInv, NoDangling

\* A new task looks where its maker looks, and starting it moves nobody.
LEMMA CreateKeeps ==
  ASSUME NInv, NEW t \in Slots, NEW u \in Slots,
         Start(t, u) \/ \E as \in {"built", "live"} : Create(t, u, as)
  PROVE  NInv'
<1>1. CASE Start(t, u)
  <2>1. task' = [task EXCEPT ![u] = "live"] /\ task[u] = "built"
        /\ UNCHANGED <<ns, ns_pool>>
    BY <1>1, Zenon DEF Start
  <2>2. Kinds' /\ \A s \in Slots : Occupied(s)' <=> Occupied(s)
    BY <2>1, Zenon DEF NInv, Kinds, Occupied
  <2> QED
    BY <2>1, <2>2, Zenon DEF NInv, NoDangling
<1>2. ASSUME NEW as \in {"built", "live"}, Create(t, u, as) PROVE NInv'
  <2>1. /\ task[t] = "live" /\ UNCHANGED ns_pool
        /\ task' = [task EXCEPT ![u] = as] /\ ns' = [ns EXCEPT ![u] = ns[t]]
    BY <1>2, Zenon DEF Create, Calls
  <2>2. ns[t] \in DOMAIN ns_pool
    BY <2>1, Zenon DEF NInv, NoDangling, Occupied
  <2>3. /\ ns'[u] = ns[t] /\ \A s \in Slots : s # u => ns'[s] = ns[s]
        /\ \A s \in Slots : s # u => task'[s] = task[s]
        /\ Kinds'
    BY <2>1, Zenon DEF NInv, Kinds
  <2> QED
    BY <2>1, <2>2, <2>3, Zenon DEF NInv, NoDangling, Occupied
<1> QED
  BY <1>1, <1>2, Zenon

\* Every step keeps the invariant.
LEMMA NextNInv == ASSUME NInv, [Next]_vars PROVE NInv'
<1>1. CASE UNCHANGED vars
  BY <1>1, NInvKept, Zenon DEF vars
<1>2. ASSUME NEW t \in Slots,
             \/ \E m \in Mounts : vfs_mount(t, m)
             \/ \E m \in Binds : vfs_bind(t, m)
             \/ \E p \in Prefixes : vfs_unmount(t, p)
      PROVE  NInv'
  BY <1>2, ChangedKeeps, Zenon DEF vfs_mount, vfs_bind, vfs_unmount
<1>3. ASSUME NEW t \in Slots, vfs_open(t) \/ \E p \in Paths : OpenStart(t, p)
      PROVE  NInv'
  <2>1. UNCHANGED <<task, ns, ns_pool>>
    BY <1>3, Zenon DEF vfs_open, OpenStart
  <2> QED
    BY <2>1, NInvKept, Zenon
<1> QED
  BY <1>1, <1>2, <1>3, CloneKeeps, RetireKeeps, CreateKeeps, Zenon DEF Next

\* The inductive invariant holds in every state.
LEMMA NInvariance == Spec => []NInv
BY InitNInv, NextNInv, PTL DEF Spec

\* No task, not even one under construction, ever looks at a namespace whose page
\* vfs_ns_gc has given back.
THEOREM NobodyDangles == Spec => []NoDangling
<1>1. NInv => NoDangling
  BY Zenon DEF NInv
<1> QED
  BY <1>1, NInvariance, PTL

\* Only a retirement empties a slot.
LEMMA OnlyRetire ==
  ASSUME NInv, Next, NEW t \in Slots, Occupied(t), ~Occupied(t)' PROVE Retire(t)
<1>1. task[t] # "none" /\ task'[t] = "none"
  BY Zenon DEF Occupied
<1>2. ASSUME NEW u \in Slots, UNCHANGED task PROVE FALSE
  BY <1>1, <1>2, Zenon
<1>3. ASSUME NEW u \in Slots, NEW as \in {"built", "live"},
             task' = [task EXCEPT ![u] = as]
      PROVE  FALSE
  BY <1>1, <1>3, Zenon DEF NInv, Kinds
<1>4. ASSUME NEW u \in Slots, Retire(u) PROVE Retire(t)
  <2>1. u = t
    BY <1>1, <1>4, RetireLeaves, Zenon
  <2> QED
    BY <1>4, <2>1, Zenon
<1>5. PICK u \in Slots :
        \/ UNCHANGED task
        \/ \E v \in Slots : \E as \in {"built", "live"} :
             task' = [task EXCEPT ![v] = as]
        \/ Retire(u)
  <2>1. ASSUME NEW u \in Slots,
               \/ \E m \in Mounts : vfs_mount(u, m)
               \/ \E m \in Binds : vfs_bind(u, m)
               \/ \E p \in Prefixes : vfs_unmount(u, p)
               \/ vfs_ns_clone(u)
               \/ \E p \in Paths : OpenStart(u, p)
               \/ vfs_open(u)
        PROVE  UNCHANGED task
    BY <2>1, Zenon DEF vfs_mount, vfs_bind, vfs_unmount, vfs_ns_clone, OpenStart,
                vfs_open, Changed, vars
  <2>2. ASSUME NEW u \in Slots, NEW v \in Slots,
               Start(u, v) \/ \E as \in {"built", "live"} : Create(u, v, as)
        PROVE  \E as \in {"built", "live"} : task' = [task EXCEPT ![v] = as]
    BY <2>2, Zenon DEF Start, Create
  <2> QED
    BY <2>1, <2>2, Zenon DEF Next
<1> QED
  BY <1>2, <1>3, <1>4, <1>5, Zenon

\* Every retirement gives back every page nobody looks at, the dead task's own
\* and those that repeated clones left behind (vfs_ns_gc).
THEOREM RetirementSweeps == Spec => RetireSweeps
<1> DEFINE Sweeps == (\E t \in Slots : Occupied(t) /\ ~Occupied(t)')
                       => \A i \in DOMAIN ns_pool' \ {0} :
                            \E s \in Slots : Occupied(s)' /\ ns'[s] = i
<1>1. ASSUME NInv, Next, NEW t \in Slots, Occupied(t), ~Occupied(t)',
             NEW i \in DOMAIN ns_pool' \ {0}
      PROVE  \E s \in Slots : Occupied(s)' /\ ns'[s] = i
  <2>1. Retire(t)
    BY <1>1, OnlyRetire, Zenon
  <2>2. /\ \A s \in Slots : s # t => task'[s] = task[s] /\ ns'[s] = ns[s]
        /\ DOMAIN ns_pool' = {j \in DOMAIN ns_pool : j = 0 \/ LookingAt(j, t) # {}}
    BY <1>1, <2>1, RetireLeaves, Zenon
  <2>3. PICK s \in LookingAt(i, t) : TRUE
    BY <1>1, <2>2, Zenon
  <2>4. s \in Slots /\ s # t /\ Occupied(s) /\ ns[s] = i
    BY <2>3, Zenon DEF LookingAt
  <2> QED
    BY <2>2, <2>4, Zenon DEF Occupied
<1>2. NInv /\ [Next]_vars => [Sweeps]_vars
  BY <1>1, Zenon
<1> QED
  BY <1>2, NInvariance, PTL DEF Spec, RetireSweeps
=============================================================================
