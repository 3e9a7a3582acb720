---------------------------- MODULE MCNamespace ----------------------------
(***************************************************************************)
(* Small namespaces for TLC, and what resolution means in terms of         *)
(* components rather than of characters.                                   *)
(***************************************************************************)
EXTENDS Namespace, FiniteSets

\* "/", "/m", "/m2", "/d/", and the names "/m/a", "/m2/a", "/d", "/d/a".
Root == <<"/">>
M == <<"/", "m">>
M2 == <<"/", "m", "2">>
D == <<"/", "d", "/">>
MA == M \o <<"/", "a">>
M2A == M2 \o <<"/", "a">>

\* The file server at the root, a server that owns a directory, and a union.
Boot == <<ServerAt(Root, 0), ServerAt(D, 1), ServerAt(M, 1), ServerAt(M, 2)>>
SomeMounts == {[prefix |-> M, server |-> 0, flags |-> "MBEFORE"]}
SomeBinds == {[prefix |-> M2, target |-> Root, flags |-> "MBEFORE"],
              [prefix |-> M2, target |-> M, flags |-> "MREPL"],
              [prefix |-> M, target |-> M2, flags |-> "MAFTER"]}
SomePaths == {MA, M2A}
SomeFiles == {<<2, MA>>, <<0, <<"/", "a">>>>}

-----------------------------------------------------------------------------
\* The reference: a path is the sequence of what stands between its slashes, a
\* slash at the end ends nothing.
SlashAt(path, k) ==
  CHOOSE i \in DOMAIN path :
    path[i] = "/" /\ Cardinality({j \in 1 .. i : path[j] = "/"}) = k
Slashes(path) == Cardinality({i \in DOMAIN path : path[i] = "/"})
Component(path, k) ==
  SubSeq(path, SlashAt(path, k) + 1,
         IF k = Slashes(path) THEN Len(path) ELSE SlashAt(path, k + 1) - 1)
Names(path) ==
  [k \in 1 .. (IF EndsInSlash(path) THEN Slashes(path) - 1 ELSE Slashes(path))
     |-> Component(path, k)]

PrefixNames == [p \in Prefixes |-> Names(p)]

\* The entries whose names lead to a path, the deepest of them, in order.
Leads(table, names) ==
  {i \in DOMAIN table : Starts(names, PrefixNames[table[i].prefix])}
Deepest(table, names) ==
  LET leads == Leads(table, names)
  IN {i \in leads : \A j \in leads : Len(PrefixNames[table[j].prefix])
                                    <= Len(PrefixNames[table[i].prefix])}
Chosen(table, names, nth) ==
  LET deepest == Deepest(table, names)
  IN CHOOSE i \in deepest : Cardinality({j \in deepest : j < i}) = nth

\* What a name means after at most RESOLVE_HOPS entries.
Meaning(table, path, n) ==
  LET step(names, nth) ==
        LET m == table[Chosen(table, names, nth)]
        IN IF Cardinality(Deepest(table, names)) <= nth
           THEN [server |-> Nobody, names |-> names, over |-> TRUE]
           ELSE IF m.kind = "MNT_SERVER"
           THEN [server |-> m.server, names |-> names, over |-> TRUE]
           ELSE [server |-> Nobody, over |-> FALSE,
                 names |-> Names(m.target)
                           \o SubSeq(names, Len(PrefixNames[m.prefix]) + 1, Len(names))]
      after[k \in 0 .. RESOLVE_HOPS] ==
        IF k = 0 THEN [server |-> Nobody, names |-> Names(path), over |-> FALSE]
        ELSE LET at == after[k - 1]
             IN IF at.over THEN at ELSE step(at.names, IF k = 1 THEN n ELSE 0)
  IN after[RESOLVE_HOPS]

\* Resolution finds the server and the name that the table means, component by
\* component: no prefix claims half a component, no bind loses or doubles a
\* slash, and binds that lead back to themselves resolve to nothing
\* (prefix_matches, nth_match, vfs_resolve).
ResolvesByName ==
  (\A t \in Slots : ~Walking(t)) =>
    \A i \in {ns[t] : t \in {s \in Slots : Occupied(s)}}, p \in Paths, n \in 0 .. 1 :
      LET r == vfs_resolve(ns_pool[i], p, n)
          m == Meaning(ns_pool[i], p, n)
      IN /\ r.server = m.server
         /\ r.server # Nobody => Names(r.name) = m.names
=============================================================================
