---------------------------- MODULE RemoteProofs ----------------------------
(***************************************************************************)
(* Proofs about Remote, the namespace over a wire: a client gets the answer *)
(* to its own call, a call is performed at most once, and a handle names    *)
(* the file its holder opened.                                              *)
(*                                                                          *)
(* The two streams are followed as wholes, through every buffer they cross; *)
(* what matters of a stream is the set of messages whose header is in it.   *)
(***************************************************************************)
EXTENDS Remote, TLAPS

Messages == [kind : {"request", "reply"}, tag : Nat, op : Ops, h : 0 .. NFD,
             result : -1 .. NFD, id : 1 .. MaxCalls]
Units == [m : Messages, i : {1, 2}]
Imports == [alive : BOOLEAN, outq : Seq(Units), busy : Nat, in : Seq(Units),
            pend : [Slots -> Calls \cup {None}], tag : Nat]
Exports == [ph : {"accept", "read", "serve", "write"}, in : Seq(Units), out : Seq(Units),
            tab : [Handles -> 0 .. MaxCalls]]
Conns == [up : BOOLEAN, there : Seq(Units), back : Seq(Units)]
Callers == [ph : {"run", "sending", "waiting"}, op : Ops \cup {"none"}, id : 0 .. MaxCalls,
            got : 0 .. MaxCalls, holds : 0 .. NFD, file : 0 .. MaxCalls]

Types ==
  /\ imp \in Imports /\ imp.busy <= Len(imp.outq)
  /\ exp \in Exports /\ net \in Conns
  /\ cl \in [Clients -> Callers]
  /\ served \in [1 .. MaxCalls -> Nat]
  /\ n \in [calls : 0 .. MaxCalls, faults : Nat]

\* The messages of a stream, each where its header is.
Heads(P) == {p \in DOMAIN P : P[p].i = 1}
Msgs(P) == {P[p].m : p \in Heads(P)}
Once(P) == \A p, q \in Heads(P) : P[p].m.id = P[q].m.id => p = q

\* The streams, through the three buffers each goes through.
Stream(a, b, c) == (a \o b) \o c
Asking == Stream(exp.in, net.there, imp.outq)
Answering == Stream(imp.in, net.back, exp.out)

\* The clients' calls: their own, each with a number of its own.
Own(k) ==
  /\ \A c \in Clients :
       /\ k[c].id <= n.calls
       /\ k[c].ph = "sending" => k[c].id # 0 /\ served[k[c].id] = 0 /\ k[c].op \in Ops
       /\ k[c].got \in {0, k[c].id}
       /\ k[c].got # 0 => served[k[c].got] = 1
       /\ k[c].ph # "run" /\ k[c].op = "open" => k[c].holds = 0
       /\ k[c].ph = "sending" /\ k[c].op # "open" => k[c].holds # 0
       /\ k[c].holds # 0 => k[c].file # 0 /\ k[c].file <= n.calls /\ served[k[c].file] = 1
       /\ k[c].holds # 0 /\ k[c].ph # "run" => k[c].id # k[c].file
  /\ \A c, d \in Clients :
       c # d => /\ k[c].id = k[d].id => k[c].id = 0
                /\ k[c].holds # 0 => k[c].file # k[d].id
                /\ k[c].holds # 0 /\ k[d].holds # 0 => k[c].file # k[d].file

\* The calls import keeps: a client is in one of them, and then it waits.
Kept(I, k) ==
  /\ \A s \in Slots : I.pend[s] # None =>
       /\ I.pend[s].tag <= I.tag
       /\ I.pend[s].client # None => k[I.pend[s].client].ph = "waiting"
  /\ \A s, t \in Slots :
       I.pend[s] # None /\ I.pend[t] # None /\ I.pend[s].client = I.pend[t].client
         => s = t \/ I.pend[s].client = None

\* A message with the tag of a call import keeps is about the client's call.
Linked(I, k, M) ==
  \A m \in M :
    /\ m.tag <= I.tag
    /\ \A s \in Slots :
         I.pend[s] # None /\ I.pend[s].tag = m.tag /\ I.pend[s].client # None
           => m.id = k[I.pend[s].client].id /\ m.op = k[I.pend[s].client].op

\* A request is for a call not yet performed that its client has sent, an answer
\* for one that is performed and opened nobody's file yet.
Asked(k, M) ==
  \A m \in M :
    /\ m.id <= n.calls /\ served[m.id] = 0
    /\ \A c \in Clients : k[c].ph = "sending" => m.id # k[c].id

Replied(k, M) ==
  \A m \in M :
    /\ m.id <= n.calls /\ served[m.id] = 1
    /\ \A c \in Clients : k[c].holds # 0 => m.id # k[c].file

Closing(k, c) == k[c].op = "close" /\ k[c].ph = "waiting"

\* The handles, as long as the connection is there.
Held(tab, k) ==
  \A c \in Clients : k[c].holds # 0 /\ ~Closing(k, c) => tab[k[c].holds] = k[c].file
Opened(tab, A) == \A m \in A : m.op = "open" /\ m.result # -1 => m.result # 0 /\ tab[m.result] = m.id
ToClose(tab, k, Q, A) ==
  \A m \in Q : m.op = "close" =>
    /\ m.h # 0 /\ tab[m.h] # 0
    /\ \A a \in A : a.op = "open" /\ a.result # -1 => a.result # m.h
    /\ \A c \in Clients : k[c].holds = m.h => Closing(k, c)
    /\ \A o \in Q : o.op = "close" /\ o.h = m.h => o.id = m.id

Sending(k) == {c \in Clients : k[c].ph = "sending"}

\* A call is performed once at most and not before it is made, tags and those who
\* wait for one are no more than the calls, and what the programs' states say of
\* their buffers.
Books ==
  /\ \A i \in 1 .. MaxCalls : served[i] <= 1 /\ (i > n.calls => served[i] = 0)
  /\ imp.tag + Cardinality(Sending(cl)) <= n.calls
  /\ exp.ph = "accept" => exp.in = <<>>
  /\ exp.ph # "write" => exp.out = <<>>
  /\ ~imp.alive => /\ imp.pend = [s \in Slots |-> None]
                   /\ imp.in = <<>> /\ imp.outq = <<>> /\ imp.busy = 0
                   /\ ~net.up
                   /\ \A c \in Clients : cl[c].holds = 0

\* The clients, the two tables and the messages on the way tell one story.
Correspondence ==
  /\ Own(cl) /\ Kept(imp, cl)
  /\ Once(Asking) /\ Once(Answering)
  /\ Asked(cl, Msgs(Asking)) /\ Replied(cl, Msgs(Answering))
  /\ imp.alive => Linked(imp, cl, Msgs(Asking)) /\ Linked(imp, cl, Msgs(Answering))
  /\ imp.alive /\ net.up => /\ Held(exp.tab, cl) /\ Opened(exp.tab, Msgs(Answering))
                            /\ ToClose(exp.tab, cl, Msgs(Asking), Msgs(Answering))

\* The inductive invariant.
RInv == Types /\ Books /\ Correspondence

-----------------------------------------------------------------------------
(* Two laws of arithmetic, which RemoteSafety takes from the theorems about  *)
(* finite sets and well-founded orders.                                      *)

LeastFirst == \A S \in SUBSET Nat : S # {} => \E x \in S : \A o \in S : x <= o
SendersCount ==
  /\ Cardinality({}) = 0
  /\ \A k :
       /\ Cardinality(Sending(k)) \in Nat
       /\ \A c \in Sending(k) : /\ Cardinality(Sending(k) \ {c}) = Cardinality(Sending(k)) - 1
                                /\ Cardinality(Sending(k)) >= 1
       /\ \A c : c \notin Sending(k) =>
            Cardinality(Sending(k) \cup {c}) = Cardinality(Sending(k)) + 1
Laws == LeastFirst /\ SendersCount

-----------------------------------------------------------------------------
(* Sequences.                                                               *)

\* What is in a sequence.
LEMMA Elements ==
  ASSUME NEW T, NEW s \in Seq(T)
  PROVE  /\ Len(s) \in Nat /\ DOMAIN s = 1 .. Len(s) /\ s \in [1 .. Len(s) -> T]
         /\ \A i \in 1 .. Len(s) : s[i] \in T
         /\ s # <<>> => Len(s) \in Nat \ {0}
  OBVIOUS

\* Sequences that agree everywhere are one.
LEMMA SameSeq ==
  ASSUME NEW T, NEW s \in Seq(T), NEW t \in Seq(T), Len(s) = Len(t),
         \A i \in 1 .. Len(s) : s[i] = t[i]
  PROVE  s = t
<1>1. s \in [1 .. Len(s) -> T] /\ t \in [1 .. Len(s) -> T]
  BY Elements, Zenon
<1> QED  BY <1>1

\* What is in two sequences joined.
LEMMA Joined ==
  ASSUME NEW T, NEW s \in Seq(T), NEW t \in Seq(T)
  PROVE  /\ s \o t \in Seq(T) /\ Len(s \o t) = Len(s) + Len(t)
         /\ \A i \in 1 .. Len(s) + Len(t) : (s \o t)[i] = IF i <= Len(s) THEN s[i] ELSE t[i - Len(s)]
  OBVIOUS

\* Nothing is added by nothing.
LEMMA JoinedToNone ==
  ASSUME NEW T, NEW s \in Seq(T)
  PROVE  s \o <<>> = s /\ <<>> \o s = s
<1>1. <<>> \in Seq(T) /\ Len(<<>>) = 0
  OBVIOUS
<1> DEFINE a == s \o <<>>
           b == <<>> \o s
<1>2. /\ a \in Seq(T) /\ Len(a) = Len(s) /\ \A i \in 1 .. Len(s) : a[i] = s[i]
      /\ b \in Seq(T) /\ Len(b) = Len(s) /\ \A i \in 1 .. Len(s) : b[i] = s[i]
  BY <1>1, Joined
<1> HIDE DEF a, b
<1> QED  BY <1>2, SameSeq, Zenon DEF a, b

\* What is in a part of a sequence.
LEMMA Piece ==
  ASSUME NEW T, NEW s \in Seq(T), NEW m \in Nat \ {0}, NEW j \in 0 .. Len(s)
  PROVE  /\ SubSeq(s, m, j) \in Seq(T) /\ Len(SubSeq(s, m, j)) = IF m <= j THEN j - m + 1 ELSE 0
         /\ \A i \in 1 .. j - m + 1 : SubSeq(s, m, j)[i] = s[m + i - 1]
  OBVIOUS

-----------------------------------------------------------------------------
(* Streams.                                                                 *)

\* What a transfer takes off the front of a buffer and what it leaves are the
\* buffer (write_done, and the reads and writes of the connection).
LEMMA Cut ==
  ASSUME NEW S, NEW s \in Seq(S), NEW k \in 0 .. Len(s)
  PROVE  /\ SubSeq(s, 1, k) \in Seq(S) /\ Drop(s, k) \in Seq(S)
         /\ Len(Drop(s, k)) = Len(s) - k
         /\ \A i \in 1 .. Len(s) - k : Drop(s, k)[i] = s[i + k]
         /\ SubSeq(s, 1, k) \o Drop(s, k) = s
<1> DEFINE a == SubSeq(s, 1, k)
           b == Drop(s, k)
           w == a \o b
<1>1. Len(s) \in Nat /\ k \in Nat /\ k <= Len(s) /\ k + 1 \in Nat \ {0} /\ Len(s) \in 0 .. Len(s)
  BY Elements
<1>2. /\ a \in Seq(S) /\ Len(a) = k /\ \A i \in 1 .. k : a[i] = s[i]
  BY <1>1, Piece
<1>3. /\ b \in Seq(S) /\ Len(b) = Len(s) - k /\ \A i \in 1 .. Len(s) - k : b[i] = s[i + k]
  BY <1>1, Piece DEF Drop
<1> HIDE DEF a, b
<1>4. /\ w \in Seq(S) /\ Len(w) = Len(a) + Len(b)
      /\ \A i \in 1 .. Len(a) + Len(b) : w[i] = IF i <= Len(a) THEN a[i] ELSE b[i - Len(a)]
  BY <1>2, <1>3, Joined
<1> HIDE DEF w
<1>5. Len(w) = Len(s)
  <2>1. Len(w) = k + (Len(s) - k)
    BY <1>2, <1>3, <1>4, Zenon
  <2> QED  BY <2>1, <1>1
<1>6. ASSUME NEW i \in 1 .. Len(w) PROVE w[i] = s[i]
  <2>1. w[i] = IF i <= k THEN a[i] ELSE b[i - k]
    BY <1>2, <1>4, Zenon
  <2>2. CASE i <= k
    BY <2>1, <2>2, <1>1, <1>2, <1>5
  <2>3. CASE ~(i <= k)
    <3>1. i - k \in 1 .. Len(s) - k /\ (i - k) + k = i
      BY <2>3, <1>1, <1>5
    <3> QED  BY <2>1, <2>3, <3>1, <1>3, Zenon
  <2> QED  BY <2>2, <2>3, Zenon
<1>7. w = s
  BY <1>4, <1>5, <1>6, SameSeq, Zenon
<1> QED  BY <1>2, <1>3, <1>7, Zenon DEF a, b, w

\* Moving units from one buffer to the next leaves the stream as it is.
LEMMA Moved ==
  ASSUME NEW S, NEW a \in Seq(S), NEW b \in Seq(S), NEW c \in Seq(S)
  PROVE  /\ \A k \in 0 .. Len(b) :
              Stream(a \o SubSeq(b, 1, k), Drop(b, k), c) = Stream(a, b, c)
         /\ \A k \in 0 .. Len(c) :
              Stream(a, b \o SubSeq(c, 1, k), Drop(c, k)) = Stream(a, b, c)
<1>1. ASSUME NEW k \in 0 .. Len(b)
      PROVE  ((a \o SubSeq(b, 1, k)) \o Drop(b, k)) \o c = (a \o b) \o c
  <2> DEFINE x == SubSeq(b, 1, k)
             y == Drop(b, k)
  <2>1. x \in Seq(S) /\ y \in Seq(S)
    BY Cut, Zenon
  <2>2. x \o y = b
    BY Cut, Zenon
  <2> HIDE DEF x, y
  <2>3. (a \o x) \o y = a \o (x \o y)
    BY <2>1, SMTT(30)
  <2> QED  BY <2>2, <2>3, Zenon DEF x, y
<1>2. ASSUME NEW k \in 0 .. Len(c)
      PROVE  (a \o (b \o SubSeq(c, 1, k))) \o Drop(c, k) = (a \o b) \o c
  <2> DEFINE x == SubSeq(c, 1, k)
             y == Drop(c, k)
             ab == a \o b
  <2>1. x \in Seq(S) /\ y \in Seq(S)
    BY Cut, Zenon
  <2>2. x \o y = c
    BY Cut, Zenon
  <2>3. ab \in Seq(S)
    BY Joined, Zenon
  <2> HIDE DEF x, y
  <2>4. (a \o b) \o x = a \o (b \o x)
    BY <2>1, SMTT(30)
  <2> HIDE DEF ab
  <2>5. (ab \o x) \o y = ab \o (x \o y)
    BY <2>1, <2>3, SMTT(30)
  <2> QED  BY <2>2, <2>4, <2>5, Zenon DEF x, y, ab
<1> QED  BY <1>1, <1>2, Zenon DEF Stream

\* Taking from the first buffer of a stream is taking from the stream.
LEMMA TakenInFront ==
  ASSUME NEW S, NEW a \in Seq(S), NEW b \in Seq(S), NEW c \in Seq(S),
         NEW k \in 0 .. Len(a)
  PROVE  /\ Stream(a, b, c) \in Seq(S)
         /\ Len(a) <= Len(Stream(a, b, c))
         /\ Len(a) # 0 => Stream(a, b, c)[1] = a[1]
         /\ Stream(Drop(a, k), b, c) = Drop(Stream(a, b, c), k)
<1> DEFINE w == (a \o b) \o c
           z == Drop(a, k)
           v == (z \o b) \o c
<1>1. /\ Len(a) \in Nat /\ Len(b) \in Nat /\ Len(c) \in Nat /\ k \in Nat
  BY Elements
<1>2. /\ z \in Seq(S) /\ Len(z) = Len(a) - k
      /\ \A i \in 1 .. Len(a) - k : z[i] = a[i + k]
  BY Cut, Zenon
<1>3. /\ a \o b \in Seq(S) /\ Len(a \o b) = Len(a) + Len(b)
      /\ \A i \in 1 .. Len(a) + Len(b) : (a \o b)[i] = IF i <= Len(a) THEN a[i] ELSE b[i - Len(a)]
  BY Joined, Zenon
<1>4. /\ w \in Seq(S) /\ Len(w) = Len(a \o b) + Len(c)
      /\ \A i \in 1 .. Len(a \o b) + Len(c) :
           w[i] = IF i <= Len(a \o b) THEN (a \o b)[i] ELSE c[i - Len(a \o b)]
  BY <1>3, Joined
<1> HIDE DEF z
<1>5. /\ z \o b \in Seq(S) /\ Len(z \o b) = Len(z) + Len(b)
      /\ \A i \in 1 .. Len(z) + Len(b) : (z \o b)[i] = IF i <= Len(z) THEN z[i] ELSE b[i - Len(z)]
  BY <1>2, Joined, Zenon
<1>6. /\ v \in Seq(S) /\ Len(v) = Len(z \o b) + Len(c)
      /\ \A i \in 1 .. Len(z \o b) + Len(c) :
           v[i] = IF i <= Len(z \o b) THEN (z \o b)[i] ELSE c[i - Len(z \o b)]
  BY <1>5, Joined
<1> HIDE DEF w, v
<1>7. k \in 0 .. Len(w)
  BY <1>1, <1>3, <1>4
<1>8. /\ Drop(w, k) \in Seq(S) /\ Len(Drop(w, k)) = Len(w) - k
      /\ \A i \in 1 .. Len(w) - k : Drop(w, k)[i] = w[i + k]
  BY <1>4, <1>7, Cut, Zenon
<1>9. Len(v) = Len(Drop(w, k))
  BY <1>1, <1>2, <1>3, <1>4, <1>5, <1>6, <1>8
<1>10. ASSUME NEW i \in 1 .. Len(v) PROVE v[i] = Drop(w, k)[i]
  <2> DEFINE x == Len(a)
             y == Len(b)
             u == Len(c)
  <2>1. x \in Nat /\ y \in Nat /\ u \in Nat /\ Len(v) = x - k + y + u /\ k <= x
        /\ Len(w) = x + y + u /\ Len(z) = x - k /\ Len(a \o b) = x + y
        /\ Len(z \o b) = x - k + y
    BY <1>1, <1>2, <1>3, <1>4, <1>5, <1>6
  <2> HIDE DEF x, y, u
  <2>2. i \in 1 .. x - k + y + u /\ i + k \in 1 .. x + y + u
    BY <2>1, <1>1
  <2>3. Drop(w, k)[i] = w[i + k]
    BY <2>1, <2>2, <1>1, <1>8
  <2>4. CASE i <= x - k
    <3>0. i \in 1 .. x - k /\ i \in 1 .. x - k + y /\ i <= x - k + y
      BY <2>1, <2>2, <2>4, <1>1
    <3>1. v[i] = (z \o b)[i] /\ (z \o b)[i] = z[i] /\ z[i] = a[i + k]
      <4>1. v[i] = (z \o b)[i]
        BY <3>0, <2>1, <2>2, <1>6, Zenon DEF x, y, u
      <4>2. (z \o b)[i] = z[i]
        <5> DEFINE zb == z \o b
        <5>1. \A l \in 1 .. x - k + y : zb[l] = IF l <= x - k THEN z[l] ELSE b[l - (x - k)]
          BY <2>1, <1>5, Zenon DEF x, y
        <5> HIDE DEF zb
        <5>2. zb[i] = z[i]
          BY <5>1, <3>0, <2>4, Zenon
        <5> QED  BY <5>2, Zenon DEF zb
      <4>3. z[i] = a[i + k]
        BY <3>0, <1>2, Zenon DEF x
      <4> QED  BY <4>1, <4>2, <4>3, Zenon
    <3> DEFINE e == i + k
               ab == a \o b
    <3>2. e \in 1 .. x /\ e <= x + y /\ e \in 1 .. x + y + u /\ e \in 1 .. x + y
      BY <2>1, <2>2, <2>4, <1>1
    <3> HIDE DEF e, ab
    <3>3. w[e] = ab[e]
      BY <3>2, <2>1, <1>4, Zenon DEF x, y, u, ab
    <3>4. ab[e] = a[e]
      <4>1. e <= x
        BY <3>2, <2>1
      <4> QED  BY <3>2, <4>1, <1>3, Zenon DEF x, y, ab
    <3> QED  BY <3>1, <3>3, <3>4, <2>3, Zenon DEF e
  <2>5. CASE i > x - k /\ i <= x - k + y
    <3>0. ~(i <= x - k) /\ i \in 1 .. x - k + y /\ i <= x - k + y
      BY <2>1, <2>2, <2>5, <1>1
    <3>1. v[i] = (z \o b)[i] /\ (z \o b)[i] = b[i - (x - k)]
      BY <3>0, <2>1, <2>2, <1>5, <1>6, Zenon DEF x, y, u
    <3> DEFINE e == i + k
               ab == a \o b
    <3>2. /\ e > x /\ e <= x + y /\ e \in 1 .. x + y + u /\ e \in 1 .. x + y
          /\ i - (x - k) = e - x
      BY <2>1, <2>2, <2>5, <1>1
    <3> HIDE DEF e, ab
    <3>3. w[e] = ab[e]
      BY <3>2, <2>1, <1>4, Zenon DEF x, y, u, ab
    <3>4. ab[e] = b[e - x]
      <4>1. ~(e <= x)
        BY <3>2, <2>1
      <4> QED  BY <3>2, <4>1, <1>3, Zenon DEF x, y, ab
    <3> QED  BY <3>1, <3>2, <3>3, <3>4, <2>3, Zenon DEF e
  <2>6. CASE i > x - k + y
    <3>0. ~(i <= x - k + y) /\ ~(i + k <= x + y)
      BY <2>1, <2>2, <2>6, <1>1
    <3>1. v[i] = c[i - (x - k + y)]
      BY <3>0, <2>1, <2>2, <1>6, Zenon DEF x, y, u
    <3>2. w[i + k] = c[(i + k) - (x + y)]
      BY <3>0, <2>1, <2>2, <1>4, Zenon DEF x, y, u
    <3>3. i - (x - k + y) = (i + k) - (x + y)
      BY <2>1, <1>1
    <3> QED  BY <3>1, <3>2, <3>3, <2>3, Zenon
  <2> QED  BY <2>1, <2>2, <2>4, <2>5, <2>6, <1>1
<1>11. v = Drop(w, k)
  BY <1>6, <1>8, <1>9, <1>10, SameSeq, Zenon
<1>12. Len(a) <= Len(w)
  BY <1>1, <1>3, <1>4
<1>13. Len(a) # 0 => w[1] = a[1]
  <2> SUFFICES ASSUME Len(a) # 0 PROVE w[1] = a[1]
    BY Zenon
  <2>1. w[1] = (a \o b)[1]
    BY <1>1, <1>3, <1>4
  <2>2. (a \o b)[1] = a[1]
    BY <1>1, <1>3
  <2> QED  BY <2>1, <2>2, Zenon
<1> QED  BY <1>4, <1>11, <1>12, <1>13, Zenon DEF v, w, z, Stream

\* Whatever fs_decode accepts starts with a header and is in the buffer.
LEMMA Decoded ==
  ASSUME NEW in \in Seq(Units)
  PROVE  /\ fs_decode(in) \in {-1, 0, 1, 2}
         /\ fs_decode(in) > 0 => /\ fs_decode(in) \in 1 .. Len(in)
                                 /\ in[1].i = 1 /\ in[1] \in Units /\ in[1].m \in Messages
         /\ in = <<>> => fs_decode(in) = 0
<1>1. Len(in) \in Nat
  BY Elements, Zenon
<1>2. in # <<>> => Len(in) >= 1 /\ in[1] \in Units
  BY Elements, <1>1
<1>3. \A u \in Units : u.m \in Messages
  BY Zenon DEF Units
<1>4. fs_size(in[1].m) \in {1, 2}
  BY Zenon DEF fs_size
<1> QED  BY <1>1, <1>2, <1>3, <1>4 DEF fs_decode

\* A message on the wire is one header, and a body at most.
LEMMA Encoded ==
  ASSUME NEW m \in Messages
  PROVE  /\ fs_encode(m) \in Seq(Units)
         /\ Len(fs_encode(m)) \in {1, 2}
         /\ fs_encode(m)[1] = [m |-> m, i |-> 1]
         /\ Len(fs_encode(m)) = 2 => fs_encode(m)[2] = [m |-> m, i |-> 2]
<1>1. CASE fs_size(m) = 1
  <2>1. fs_encode(m) = <<[m |-> m, i |-> 1]>>
    BY <1>1 DEF fs_encode
  <2>2. [m |-> m, i |-> 1] \in Units
    BY Zenon DEF Units
  <2> QED  BY <2>1, <2>2
<1>2. CASE fs_size(m) = 2
  <2>1. fs_encode(m) = <<[m |-> m, i |-> 1], [m |-> m, i |-> 2]>>
    BY <1>2 DEF fs_encode
  <2>2. [m |-> m, i |-> 1] \in Units /\ [m |-> m, i |-> 2] \in Units
    BY Zenon DEF Units
  <2> QED  BY <2>1, <2>2
<1> QED  BY <1>1, <1>2, Zenon DEF fs_size

\* The messages of a stream are messages.
LEMMA AreMessages ==
  ASSUME NEW P \in Seq(Units)
  PROVE  Msgs(P) \subseteq Messages
<1>1. DOMAIN P = 1 .. Len(P)
  BY Elements, Zenon
<1>2. \A p \in DOMAIN P : P[p] \in Units
  BY <1>1, Elements, Zenon
<1>3. \A u \in Units : u.m \in Messages
  BY Zenon DEF Units
<1> QED  BY <1>2, <1>3, Zenon DEF Msgs, Heads

\* Taking the first message off a stream leaves the others.
LEMMA FirstTaken ==
  ASSUME NEW P \in Seq(Units), NEW k \in 1 .. Len(P), P[1].i = 1, Once(P)
  PROVE  /\ Drop(P, k) \in Seq(Units)
         /\ P[1].m \in Msgs(P)
         /\ Once(Drop(P, k))
         /\ Msgs(Drop(P, k)) \subseteq Msgs(P)
         /\ \A m \in Msgs(Drop(P, k)) : m.id # P[1].m.id
<1> DEFINE D == Drop(P, k)
<1>1. /\ Len(P) \in Nat /\ k \in 0 .. Len(P) /\ k \in Nat /\ k >= 1
      /\ DOMAIN P = 1 .. Len(P)
  BY Elements
<1>2. /\ D \in Seq(Units) /\ Len(D) = Len(P) - k
      /\ \A i \in 1 .. Len(P) - k : D[i] = P[i + k]
  BY <1>1, Cut, Zenon
<1>3. DOMAIN D = 1 .. Len(P) - k
  BY <1>2, Elements, Zenon
<1> HIDE DEF D
<1>4. ASSUME NEW p \in Heads(D)
      PROVE  /\ p \in Int /\ p + k \in Heads(P) /\ p + k # 1 /\ D[p] = P[p + k]
  BY <1>1, <1>2, <1>3 DEF Heads
<1>5. 1 \in Heads(P)
  BY <1>1 DEF Heads
<1>6. P[1].m \in Msgs(P)
  BY <1>5, Zenon DEF Msgs
<1>7. ASSUME NEW p \in Heads(D), NEW q \in Heads(D), D[p].m.id = D[q].m.id
      PROVE  p = q
  <2>1. p + k = q + k
    <3>1. p + k \in Heads(P) /\ q + k \in Heads(P) /\ P[p + k].m.id = P[q + k].m.id
      BY <1>4, <1>7, Zenon
    <3> QED  BY <3>1, Zenon DEF Once
  <2> QED  BY <2>1, <1>1, <1>4
<1>8. ASSUME NEW m \in Msgs(D)
      PROVE  m \in Msgs(P) /\ m.id # P[1].m.id
  <2>1. PICK p \in Heads(D) : m = D[p].m
    BY <1>8, Zenon DEF Msgs
  <2>2. /\ p + k \in Heads(P) /\ p + k # 1 /\ m = P[p + k].m
    BY <2>1, <1>4, Zenon
  <2>3. m \in Msgs(P)
    BY <2>2, Zenon DEF Msgs
  <2>4. P[p + k].m.id # P[1].m.id
    BY <2>2, <1>5, Zenon DEF Once
  <2> QED  BY <2>2, <2>3, <2>4, Zenon
<1> QED  BY <1>2, <1>6, <1>7, <1>8, Zenon DEF D, Once

\* A message put at the end of a stream adds that message to it.
LEMMA LastPut ==
  ASSUME NEW P \in Seq(Units), NEW m \in Messages
  PROVE  /\ P \o fs_encode(m) \in Seq(Units)
         /\ Msgs(P \o fs_encode(m)) = Msgs(P) \cup {m}
         /\ Once(P) /\ (\A o \in Msgs(P) : o.id # m.id) => Once(P \o fs_encode(m))
<1> DEFINE E == fs_encode(m)
           W == P \o E
           l == Len(P)
<1>1. /\ E \in Seq(Units) /\ Len(E) \in {1, 2} /\ E[1] = [m |-> m, i |-> 1]
      /\ Len(E) = 2 => E[2] = [m |-> m, i |-> 2]
  BY Encoded, Zenon
<1>2. l \in Nat /\ DOMAIN P = 1 .. l
  BY Elements, Zenon
<1> HIDE DEF E
<1>3. /\ W \in Seq(Units) /\ Len(W) = l + Len(E)
      /\ \A i \in 1 .. l + Len(E) : W[i] = IF i <= l THEN P[i] ELSE E[i - l]
  BY <1>1, Joined, Zenon
<1>4. DOMAIN W = 1 .. l + Len(E)
  BY <1>3, Elements, Zenon
<1> HIDE DEF W, l
<1>5. \A p \in 1 .. l : W[p] = P[p]
  BY <1>1, <1>2, <1>3
<1>6. W[l + 1] = [m |-> m, i |-> 1]
  BY <1>1, <1>2, <1>3
<1>7. Len(E) = 2 => W[l + 2] = [m |-> m, i |-> 2]
  <2>1. Len(E) = 2 => W[l + 2] = E[2]
    BY <1>2, <1>3
  <2> QED  BY <2>1, <1>1, Zenon
<1>8. Heads(W) = Heads(P) \cup {l + 1}
  <2>1. ASSUME NEW p \in Heads(W) PROVE p \in Heads(P) \cup {l + 1}
    <3>1. p \in 1 .. l + Len(E) /\ W[p].i = 1
      BY <2>1, <1>4, Zenon DEF Heads
    <3>4. /\ p <= l \/ p = l + 1 \/ p = l + 2
          /\ p = l + 2 => Len(E) = 2
      <4> DEFINE e == Len(E)
      <4>1. e = 1 \/ e = 2
        BY <1>1, Zenon
      <4>2. p \in 1 .. l + e
        BY <3>1, Zenon
      <4> HIDE DEF e
      <4>3. CASE e = 1
        BY <4>2, <4>3, <1>2
      <4>4. CASE e = 2
        BY <4>2, <4>4, <1>2 DEF e
      <4> QED  BY <4>1, <4>3, <4>4, Zenon
    <3>2. CASE p <= l
      BY <3>1, <3>2, <1>2, <1>5 DEF Heads
    <3>3. CASE p = l + 2
      <4>1. Len(E) = 2
        BY <3>3, <3>4, <1>2, Zenon
      <4>2. W[p] = [m |-> m, i |-> 2]
        BY <4>1, <3>3, <1>7, Zenon
      <4> QED  BY <4>2, <3>1
    <3> QED  BY <3>2, <3>3, <3>4, Zenon
  <2>2. ASSUME NEW p \in Heads(P) PROVE p \in Heads(W)
    BY <1>1, <1>2, <1>4, <1>5 DEF Heads
  <2>3. l + 1 \in Heads(W)
    BY <1>1, <1>2, <1>4, <1>6 DEF Heads
  <2> QED  BY <2>1, <2>2, <2>3, Zenon
<1>9. \A p \in Heads(P) : W[p] = P[p]
  BY <1>2, <1>5, Zenon DEF Heads
<1>10. W[l + 1].m = m
  BY <1>6
<1>11. Msgs(W) = Msgs(P) \cup {m}
  <2>1. ASSUME NEW x \in Msgs(W) PROVE x \in Msgs(P) \cup {m}
    <3>1. PICK p \in Heads(W) : x = W[p].m
      BY <2>1, Zenon DEF Msgs
    <3>2. CASE p \in Heads(P)
      BY <3>1, <3>2, <1>9, Zenon DEF Msgs
    <3>3. CASE p = l + 1
      BY <3>1, <3>3, <1>10, Zenon
    <3> QED  BY <3>1, <3>2, <3>3, <1>8, Zenon
  <2>2. ASSUME NEW x \in Msgs(P) PROVE x \in Msgs(W)
    <3>1. PICK p \in Heads(P) : x = P[p].m
      BY <2>2, Zenon DEF Msgs
    <3>2. p \in Heads(W) /\ x = W[p].m
      BY <3>1, <1>8, <1>9, Zenon
    <3> QED  BY <3>2, Zenon DEF Msgs
  <2>3. m \in Msgs(W)
    <3>1. l + 1 \in Heads(W)
      BY <1>8, Zenon
    <3> QED  BY <3>1, <1>10, Zenon DEF Msgs
  <2> QED  BY <2>1, <2>2, <2>3, Zenon
<1>12. ASSUME Once(P), \A o \in Msgs(P) : o.id # m.id,
              NEW p \in Heads(W), NEW q \in Heads(W), W[p].m.id = W[q].m.id
       PROVE  p = q
  <2>1. \A x \in Heads(P) : W[x].m.id # m.id
    BY <1>9, <1>12, Zenon DEF Msgs
  <2>2. CASE p \in Heads(P) /\ q \in Heads(P)
    BY <2>2, <1>9, <1>12, Zenon DEF Once
  <2>3. CASE p = l + 1 /\ q = l + 1
    BY <2>3, Zenon
  <2>4. CASE p \in Heads(P) /\ q = l + 1
    BY <2>1, <2>4, <1>10, <1>12, Zenon
  <2>5. CASE p = l + 1 /\ q \in Heads(P)
    BY <2>1, <2>5, <1>10, <1>12, Zenon
  <2> QED  BY <2>2, <2>3, <2>4, <2>5, <1>8, Zenon
<1> QED  BY <1>3, <1>11, <1>12, Zenon DEF W, E, Once

\* The first and the last part of a stream.
LEMMA PartsOfStream ==
  ASSUME NEW P \in Seq(Units), NEW R \in Seq(Units)
  PROVE  /\ Msgs(P) \subseteq Msgs(P \o R) /\ Msgs(R) \subseteq Msgs(P \o R)
         /\ Once(P \o R) => Once(P) /\ Once(R)
<1> DEFINE W == P \o R
           l == Len(P)
           r == Len(R)
<1>1. l \in Nat /\ DOMAIN P = 1 .. l /\ r \in Nat /\ DOMAIN R = 1 .. r
  BY Elements, Zenon
<1>2. /\ W \in Seq(Units) /\ Len(W) = l + r
      /\ \A i \in 1 .. l + r : W[i] = IF i <= l THEN P[i] ELSE R[i - l]
  BY Joined, Zenon
<1>3. DOMAIN W = 1 .. l + r
  BY <1>2, Elements, Zenon
<1> HIDE DEF W, l, r
<1>4. ASSUME NEW p \in Heads(P) PROVE p \in Heads(W) /\ W[p] = P[p]
  BY <1>1, <1>2, <1>3 DEF Heads
<1>5. ASSUME NEW p \in Heads(R) PROVE p \in Int /\ p + l \in Heads(W) /\ W[p + l] = R[p]
  <2>1. p \in 1 .. r /\ R[p].i = 1
    BY <1>1, Zenon DEF Heads
  <2>2. p + l \in 1 .. l + r /\ ~(p + l <= l) /\ (p + l) - l = p
    BY <2>1, <1>1
  <2>3. W[p + l] = R[p]
    BY <2>2, <1>2, Zenon
  <2> QED  BY <2>1, <2>2, <2>3, <1>3 DEF Heads
<1>6. Msgs(P) \subseteq Msgs(W)
  BY <1>4, Zenon DEF Msgs
<1>7. Msgs(R) \subseteq Msgs(W)
  <2>1. \A p \in Heads(R) : \E q \in Heads(W) : W[q].m = R[p].m
    BY <1>5, Zenon
  <2> QED  BY <2>1, Zenon DEF Msgs
<1>8. Once(W) => Once(P)
  BY <1>4, Zenon DEF Once
<1>9. Once(W) => Once(R)
  <2>1. ASSUME Once(W), NEW p \in Heads(R), NEW q \in Heads(R), R[p].m.id = R[q].m.id
        PROVE  p = q
    <3>1. p + l = q + l
      BY <2>1, <1>5 DEF Once
    <3> QED  BY <3>1, <1>1, <1>5
  <2> QED  BY <2>1, Zenon DEF Once
<1> QED  BY <1>6, <1>7, <1>8, <1>9, Zenon DEF W

\* Nothing is in the empty stream.
LEMMA NoMessages ==
  /\ <<>> \in Seq(Units) /\ Msgs(<<>>) = {} /\ Once(<<>>)
  /\ (<<>> \o <<>>) \o <<>> = <<>>
<1>1. Heads(<<>>) = {}
  BY DEF Heads
<1> QED  BY <1>1 DEF Msgs, Once

-----------------------------------------------------------------------------
(* Least elements and iteration.                                            *)

\* A set of numbers that is not empty has a least one, which is what FirstFree
\* and from_wire choose.
LEMMA Smallest ==
  ASSUME Laws, NEW S \in SUBSET Nat, S # {}
  PROVE  \E x \in S : \A o \in S : x <= o
  BY Zenon DEF Laws, LeastFirst

\* A set that holds 0 and with each number below l the next one holds them all.
LEMMA Climbs ==
  ASSUME Laws, NEW l \in Nat, NEW S, 0 \in S, \A i \in 1 .. l : i - 1 \in S => i \in S
  PROVE  \A i \in 0 .. l : i \in S
<1> SUFFICES ASSUME (0 .. l) \ S # {} PROVE FALSE
  BY Zenon
<1>1. (0 .. l) \ S \in SUBSET Nat
  OBVIOUS
<1>2. PICK x \in (0 .. l) \ S : \A o \in (0 .. l) \ S : x <= o
  BY <1>1, Smallest, Zenon
<1>3. x # 0 /\ x \in 1 .. l /\ x - 1 \in 0 .. l
  BY <1>2
<1>4. x - 1 \notin S
  BY <1>2, <1>3, Zenon
<1> QED  BY <1>2, <1>3, <1>4

\* f goes l steps of G from v, within V.
Walks(f, l, V, v, G) ==
  f \in [0 .. l -> V] /\ f[0] = v /\ \A i \in 1 .. l : f[i] = G[f[i - 1]]

\* There is such a walk: the loop of drain_in is one.
LEMMA Loops ==
  ASSUME Laws, NEW l \in Nat, NEW V, NEW v \in V, NEW G \in [V -> V]
  PROVE  \E f : Walks(f, l, V, v, G)
<1> DEFINE Good(j) == \E f \in [0 .. j -> V] : f[0] = v /\ \A i \in 1 .. j : f[i] = G[f[i - 1]]
           S == {j \in 0 .. l : Good(j)}
<1>1. 0 \in S
  <2> DEFINE f == [i \in 0 .. 0 |-> v]
  <2>1. f \in [0 .. 0 -> V] /\ f[0] = v /\ \A i \in 1 .. 0 : f[i] = G[f[i - 1]]
    OBVIOUS
  <2>2. Good(0)
    BY <2>1, Zenon
  <2> QED  BY <2>2
<1>2. ASSUME NEW j \in 1 .. l, j - 1 \in S PROVE j \in S
  <2>1. PICK g \in [0 .. j - 1 -> V] : g[0] = v /\ \A i \in 1 .. j - 1 : g[i] = G[g[i - 1]]
    BY <1>2, Zenon
  <2> DEFINE f == [i \in 0 .. j |-> IF i = j THEN G[g[j - 1]] ELSE g[i]]
  <2>2. G[g[j - 1]] \in V
    BY <2>1
  <2>3. f \in [0 .. j -> V]
    BY <2>2
  <2>4. f[0] = v
    BY <2>1
  <2>5. ASSUME NEW i \in 1 .. j PROVE f[i] = G[f[i - 1]]
    <3>1. f[i - 1] = g[i - 1]
      OBVIOUS
    <3>2. CASE i = j
      BY <3>1, <3>2
    <3>3. CASE i # j
      <4>1. i \in 1 .. j - 1 /\ f[i] = g[i]
        BY <3>3
      <4> QED  BY <2>1, <3>1, <4>1, Zenon
    <3> QED  BY <3>2, <3>3, Zenon
  <2>6. Good(j)
    BY <2>3, <2>4, <2>5, Zenon
  <2>7. j \in 0 .. l
    OBVIOUS
  <2> QED  BY <2>6, <2>7, Zenon
<1>3. \A i \in 0 .. l : i \in S
  <2> HIDE DEF S
  <2>1. \A j \in 1 .. l : j - 1 \in S => j \in S
    BY <1>2, Zenon
  <2> QED  BY <1>1, <2>1, Climbs, Zenon
<1>4. l \in 0 .. l
  OBVIOUS
<1> QED  BY <1>3, <1>4, Zenon DEF Walks

-----------------------------------------------------------------------------
(* An answer is handed over.                                                *)

\* A call is no longer kept, and its client is answered.
Forget(I, s) == [I EXCEPT !.pend[s] = None]
Give(k, c, m) == [k EXCEPT ![c] = Answered(@, m.result, m.id)]
HandsOver(S, m, F) ==
  \/ F = S
  \/ \E s \in Slots :
       /\ S.I.pend[s] # None /\ S.I.pend[s].tag = m.tag
       /\ F.I = Forget(S.I, s)
       /\ F.cl = IF S.I.pend[s].client = None THEN S.cl ELSE Give(S.cl, S.I.pend[s].client, m)

\* from_wire: nobody waits for it, or one call is no longer kept, and its client,
\* if it still lives, is answered.
LEMMA WhoseAnswer ==
  ASSUME Laws, NEW S, NEW m
  PROVE  HandsOver(S, m, from_wire(S, m))
<1> DEFINE F == from_wire(S, m)
           w == Whose(S.I, m)
           s == CHOOSE x \in w : \A o \in w : x <= o
<1>1. CASE w = {}
  BY <1>1, Zenon DEF from_wire, HandsOver
<1>2. CASE w # {}
  <2>1. w \in SUBSET Nat /\ w \subseteq Slots
    BY RemoteAssumption DEF Whose, Slots
  <2>2. \E x \in w : \A o \in w : x <= o
    BY <2>1, <1>2, Smallest, Zenon
  <2>3. s \in w
    BY <2>2, Zenon
  <2>4. s \in Slots /\ S.I.pend[s] # None /\ S.I.pend[s].tag = m.tag
    BY <2>1, <2>3, Zenon DEF Whose
  <2>5. F = [I |-> Forget(S.I, s),
             cl |-> IF S.I.pend[s].client = None THEN S.cl
                    ELSE Give(S.cl, S.I.pend[s].client, m)]
    BY <1>2, Zenon DEF from_wire, Forget, Give
  <2> HIDE DEF s, F
  <2>6. /\ F.I = Forget(S.I, s)
        /\ F.cl = IF S.I.pend[s].client = None THEN S.cl
                  ELSE Give(S.cl, S.I.pend[s].client, m)
    BY <2>5, Zenon
  <2> QED  BY <2>4, <2>6, Zenon DEF HandsOver, F
<1> QED  BY <1>1, <1>2, Zenon

\* Clients, import's table and the messages on the way, as Correspondence has them
\* while import lives; and the table of exportfs while the connection is there.
Fits(I, k, Q, A) ==
  /\ Own(k) /\ Kept(I, k)
  /\ Asked(k, Q) /\ Replied(k, A)
  /\ Linked(I, k, Q) /\ Linked(I, k, A)
Files(tab, k, Q, A) ==
  /\ Held(tab, k) /\ Opened(tab, A)
  /\ ToClose(tab, k, Q, A)

\* What a client makes of an answer, field by field.
LEMMA AnsweredFacts ==
  ASSUME NEW k \in Callers, NEW r \in -1 .. NFD, NEW i \in 0 .. MaxCalls,
         NEW a, a = Answered(k, r, i)
  PROVE  /\ a \in Callers
         /\ a.ph = "run" /\ a.got = i /\ a.id = k.id /\ a.op = k.op
         /\ a.holds = IF k.op = "open" /\ r # -1 THEN r
                      ELSE IF k.op = "close" THEN 0 ELSE k.holds
         /\ a.file = IF k.op = "open" THEN k.id ELSE k.file
<1> DEFINE h == IF k.op = "open" /\ r # -1 THEN r ELSE IF k.op = "close" THEN 0 ELSE k.holds
           f == IF k.op = "open" THEN k.id ELSE k.file
<1>1. a = [k EXCEPT !.ph = "run", !.got = i, !.holds = h, !.file = f]
  BY Zenon DEF Answered
<1>2. h \in 0 .. NFD /\ f \in 0 .. MaxCalls
  BY RemoteAssumption DEF Callers
<1> HIDE DEF h, f
<1>3. /\ a \in Callers
      /\ a.ph = "run" /\ a.got = i /\ a.id = k.id /\ a.op = k.op
      /\ a.holds = h /\ a.file = f
  BY <1>1, <1>2, Zenon DEF Callers
<1> QED  BY <1>3, Zenon DEF h, f

\* The parts of a caller have their types.
LEMMA CallerFacts ==
  ASSUME NEW k \in [Clients -> Callers], NEW c \in Clients
  PROVE  /\ k[c] \in Callers
         /\ k[c].id \in 0 .. MaxCalls /\ k[c].got \in 0 .. MaxCalls
         /\ k[c].file \in 0 .. MaxCalls /\ k[c].holds \in 0 .. NFD
         /\ k[c].ph \in {"run", "sending", "waiting"}
  BY Zenon DEF Callers

\* m is an answer, in A and no longer in B, to the call in slot s, of client c.
ToHandOver(I, k, Q, A, B, m, s, c) ==
  /\ I \in Imports /\ k \in [Clients -> Callers]
  /\ Q \in SUBSET Messages /\ A \in SUBSET Messages /\ B \in SUBSET A
  /\ m \in A /\ \A b \in B : b.id # m.id
  /\ Fits(I, k, Q, A)
  /\ s \in Slots /\ I.pend[s] # None /\ I.pend[s].tag = m.tag
  /\ c \in Clients /\ I.pend[s].client = c

\* An answer is handed to the client whose call it is about: all that was right
\* is right without the message (from_wire).
LEMMA HandedOver ==
  ASSUME NEW I, NEW k, NEW Q, NEW A, NEW B, NEW m, NEW s, NEW c,
         ToHandOver(I, k, Q, A, B, m, s, c)
  PROVE  /\ Give(k, c, m) \in [Clients -> Callers]
         /\ Fits(Forget(I, s), Give(k, c, m), Q, B)
         /\ Sending(Give(k, c, m)) = Sending(k)
         /\ \A tab : Files(tab, k, Q, A) => Files(tab, Give(k, c, m), Q, B)
<1> DEFINE J == Forget(I, s)
           j == Give(k, c, m)
<1>0. /\ I \in Imports /\ k \in [Clients -> Callers]
      /\ Q \in SUBSET Messages /\ A \in SUBSET Messages /\ B \in SUBSET A
      /\ m \in A /\ \A b \in B : b.id # m.id
      /\ Fits(I, k, Q, A)
      /\ s \in Slots /\ I.pend[s] # None /\ I.pend[s].tag = m.tag
      /\ c \in Clients /\ I.pend[s].client = c
  BY Zenon DEF ToHandOver
<1>1. /\ c # None /\ m \in Messages
      /\ m.result \in -1 .. NFD /\ m.id \in 1 .. MaxCalls /\ m.id \in 0 .. MaxCalls
      /\ m.id # 0 /\ MaxCalls \in Nat /\ NFD \in Nat
  BY <1>0, RemoteAssumption DEF Messages
<1>2. /\ k[c].ph = "waiting" /\ m.id = k[c].id /\ m.op = k[c].op
      /\ m.id <= n.calls /\ served[m.id] = 1
      /\ \A d \in Clients : k[d].holds # 0 => m.id # k[d].file
  <2>1. Kept(I, k) /\ Linked(I, k, A) /\ Replied(k, A)
    BY <1>0, Zenon DEF Fits
  <2> QED  BY <1>0, <1>1, <2>1, Zenon DEF Kept, Linked, Replied
<1> DEFINE a == Answered(k[c], m.result, m.id)
<1>3. /\ a \in Callers
      /\ a.ph = "run" /\ a.got = m.id /\ a.id = k[c].id /\ a.op = k[c].op
      /\ a.holds = IF k[c].op = "open" /\ m.result # -1 THEN m.result
                   ELSE IF k[c].op = "close" THEN 0 ELSE k[c].holds
      /\ a.file = IF k[c].op = "open" THEN k[c].id ELSE k[c].file
  <2>1. k[c] \in Callers
    BY <1>0, CallerFacts, Zenon
  <2>2. m.result \in -1 .. NFD /\ m.id \in 0 .. MaxCalls /\ a = Answered(k[c], m.result, m.id)
    BY <1>0, <1>1, Zenon
  <2> HIDE DEF a
  <2> QED  BY <1>0, <2>1, <2>2, AnsweredFacts
<1>4. /\ j \in [Clients -> Callers] /\ j[c] = a
      /\ \A d \in Clients : d # c => j[d] = k[d]
  BY <1>0, <1>3, Zenon DEF Give
<1> HIDE DEF a, j
<1>5. /\ k[c].op = "open" => k[c].holds = 0
      /\ a.holds # 0 =>
           \/ k[c].op = "open" /\ m.result # -1 /\ a.holds = m.result /\ a.file = m.id
           \/ k[c].op # "open" /\ k[c].op # "close" /\ a.holds = k[c].holds /\ a.file = k[c].file
  <2>1. k[c].op = "open" => k[c].holds = 0
    BY <1>0, <1>2, Zenon DEF Fits, Own
  <2> QED  BY <1>0, <2>1, <1>2, <1>3, Zenon
<1>6. J.tag = I.tag /\ J.pend = [I.pend EXCEPT ![s] = None]
  BY <1>0, Zenon DEF Imports, Forget
<1> HIDE DEF J
<1>7. /\ I.pend \in [Slots -> Calls \cup {None}]
      /\ J.pend[s] = None /\ \A t \in Slots : t # s => J.pend[t] = I.pend[t]
  BY <1>0, <1>6, Zenon DEF Imports
<1>8. ASSUME NEW t \in Slots, J.pend[t] # None
      PROVE  /\ t # s /\ J.pend[t] = I.pend[t]
             /\ J.pend[t].client # c
             /\ J.pend[t].client # None =>
                  J.pend[t].client \in Clients /\ j[J.pend[t].client] = k[J.pend[t].client]
  <2>1. t # s /\ J.pend[t] = I.pend[t]
    BY <1>0, <1>7, <1>8, Zenon
  <2>2. J.pend[t] \in Calls
    BY <1>0, <1>7, <1>8, <2>1, Zenon
  <2>3. J.pend[t].client \in Clients \cup {None}
    BY <1>0, <2>2, Zenon DEF Calls
  <2>4. I.pend[t].client # c
    BY <1>0, <1>1, <1>8, <2>1, Zenon DEF Fits, Kept
  <2> QED  BY <1>0, <2>1, <2>3, <2>4, <1>4, Zenon
<1>9. Own(j)
  <2>1. Own(k)
    BY <1>0, Zenon DEF Fits
  <2>2. ASSUME NEW d \in Clients
        PROVE  /\ j[d].id <= n.calls
               /\ j[d].ph = "sending" => j[d].id # 0 /\ served[j[d].id] = 0 /\ j[d].op \in Ops
               /\ j[d].got \in {0, j[d].id}
               /\ j[d].got # 0 => served[j[d].got] = 1
               /\ j[d].ph # "run" /\ j[d].op = "open" => j[d].holds = 0
               /\ j[d].ph = "sending" /\ j[d].op # "open" => j[d].holds # 0
               /\ j[d].holds # 0 => j[d].file # 0 /\ j[d].file <= n.calls /\ served[j[d].file] = 1
               /\ j[d].holds # 0 /\ j[d].ph # "run" => j[d].id # j[d].file
    <3>1. CASE d # c
      <4>1. j[d] = k[d]
        BY <1>0, <3>1, <1>4, Zenon
      <4> QED  BY <1>0, <2>1, <4>1 DEF Own
    <3>2. CASE d = c
      <4>1. /\ k[c].id <= n.calls
            /\ k[c].holds # 0 => k[c].file # 0 /\ k[c].file <= n.calls /\ served[k[c].file] = 1
        BY <1>0, <2>1, Zenon DEF Own
      <4> QED  BY <1>0, <4>1, <3>2, <1>1, <1>2, <1>3, <1>4, <1>5, Zenon
    <3> QED  BY <1>0, <3>1, <3>2, Zenon
  <2>3. ASSUME NEW d \in Clients, NEW e \in Clients, d # e
        PROVE  /\ j[d].id = j[e].id => j[d].id = 0
               /\ j[d].holds # 0 => j[d].file # j[e].id
               /\ j[d].holds # 0 /\ j[e].holds # 0 => j[d].file # j[e].file
    <3>1. /\ k[d].id = k[e].id => k[d].id = 0
          /\ k[e].id = k[d].id => k[e].id = 0
          /\ k[d].holds # 0 => k[d].file # k[e].id
          /\ k[e].holds # 0 => k[e].file # k[d].id
          /\ k[d].holds # 0 /\ k[e].holds # 0 => k[d].file # k[e].file
      BY <1>0, <2>1, <2>3, Zenon DEF Own
    <3>2. CASE d # c /\ e # c
      BY <1>0, <3>1, <3>2, <1>4, Zenon
    <3>3. CASE d = c
      BY <1>0, <2>3, <3>1, <3>3, <1>1, <1>2, <1>3, <1>4, <1>5, Zenon
    <3>4. CASE e = c
      BY <1>0, <2>3, <3>1, <3>4, <1>1, <1>2, <1>3, <1>4, <1>5, Zenon
    <3> QED  BY <1>0, <3>2, <3>3, <3>4, Zenon
  <2> QED  BY <1>0, <2>2, <2>3, Zenon DEF Own
<1>10. Kept(J, j)
  <2>1. ASSUME NEW t \in Slots, J.pend[t] # None
        PROVE  /\ J.pend[t].tag <= J.tag
               /\ J.pend[t].client # None => j[J.pend[t].client].ph = "waiting"
    <3>1. I.pend[t] # None /\ J.pend[t] = I.pend[t]
      BY <1>0, <1>8, <2>1, Zenon
    <3>2. I.pend[t].tag <= I.tag /\ (I.pend[t].client # None => k[I.pend[t].client].ph = "waiting")
      BY <1>0, <3>1, Zenon DEF Fits, Kept
    <3> QED  BY <1>0, <3>1, <3>2, <2>1, <1>6, <1>8, Zenon
  <2>2. ASSUME NEW t \in Slots, NEW u \in Slots, J.pend[t] # None, J.pend[u] # None,
               J.pend[t].client = J.pend[u].client
        PROVE  t = u \/ J.pend[t].client = None
    <3>1. J.pend[t] = I.pend[t] /\ J.pend[u] = I.pend[u]
      BY <1>0, <1>8, <2>2, Zenon
    <3> QED  BY <1>0, <3>1, <2>2, Zenon DEF Fits, Kept
  <2> QED  BY <1>0, <2>1, <2>2, Zenon DEF Kept
<1>11. ASSUME NEW M, Linked(I, k, M), NEW N \in SUBSET M PROVE Linked(J, j, N)
  <2>1. ASSUME NEW x \in N PROVE x.tag <= J.tag
    BY <1>0, <1>6, <1>11, Zenon DEF Linked
  <2>2. ASSUME NEW x \in N, NEW t \in Slots, J.pend[t] # None, J.pend[t].tag = x.tag,
               J.pend[t].client # None
        PROVE  x.id = j[J.pend[t].client].id /\ x.op = j[J.pend[t].client].op
    <3>1. J.pend[t] = I.pend[t] /\ j[J.pend[t].client] = k[J.pend[t].client]
      BY <1>0, <1>8, <2>2, Zenon
    <3>2. x.id = k[I.pend[t].client].id /\ x.op = k[I.pend[t].client].op
      <4>1. x \in M
        BY <1>0, <1>11, Zenon
      <4>2. I.pend[t] # None /\ I.pend[t].tag = x.tag /\ I.pend[t].client # None
        BY <1>0, <2>2, <3>1, Zenon
      <4> QED  BY <1>0, <4>1, <4>2, <1>11, Zenon DEF Linked
    <3> QED  BY <1>0, <3>1, <3>2, Zenon
  <2> QED  BY <1>0, <2>1, <2>2, Zenon DEF Linked
<1>12. Asked(j, Q)
  <2>1. \A d \in Clients : j[d].ph = "sending" => k[d].ph = "sending" /\ j[d].id = k[d].id
    BY <1>0, <1>3, <1>4, Zenon
  <2>2. Asked(k, Q)
    BY <1>0, Zenon DEF Fits
  <2> QED  BY <1>0, <2>1, <2>2 DEF Asked
<1>13. Replied(j, B)
  <2>1. ASSUME NEW b \in B, NEW d \in Clients, j[d].holds # 0 PROVE b.id # j[d].file
    <3>1. b \in A
      BY <1>0, Zenon
    <3>2. k[d].holds # 0 => b.id # k[d].file
      BY <1>0, <3>1, Zenon DEF Fits, Replied
    <3>3. CASE d # c
      BY <1>0, <2>1, <3>2, <3>3, <1>4, Zenon
    <3>4. CASE d = c
      BY <1>0, <2>1, <3>2, <3>4, <1>4, <1>5, Zenon
    <3> QED  BY <1>0, <3>3, <3>4, Zenon
  <2> QED  BY <1>0, <2>1, Zenon DEF Fits, Replied
<1>14. Sending(j) = Sending(k)
  BY <1>0, <1>2, <1>3, <1>4, Zenon DEF Sending
<1>15. ASSUME NEW tab, Files(tab, k, Q, A) PROVE Files(tab, j, Q, B)
  <2>1. Held(tab, j)
    <3>1. ASSUME NEW d \in Clients, j[d].holds # 0, ~Closing(j, d)
          PROVE  tab[j[d].holds] = j[d].file
      <4>1. CASE d # c
        BY <1>0, <3>1, <4>1, <1>4, <1>15, Zenon DEF Files, Held, Closing
      <4>2. CASE d = c /\ k[c].op = "open"
        <5>1. m.op = "open" /\ m.result # -1 /\ a.holds = m.result /\ a.file = m.id
          BY <1>0, <3>1, <4>2, <1>2, <1>4, <1>5, Zenon
        <5>2. tab[m.result] = m.id
          BY <1>0, <5>1, <1>15, Zenon DEF Files, Opened
        <5> QED  BY <1>0, <5>1, <5>2, <4>2, <1>4, Zenon
      <4>3. CASE d = c /\ k[c].op # "open"
        <5>1. k[c].op # "close" /\ a.holds = k[c].holds /\ a.file = k[c].file /\ k[c].holds # 0
          BY <1>0, <3>1, <4>3, <1>4, <1>5, Zenon
        <5>2. tab[k[c].holds] = k[c].file
          BY <1>0, <5>1, <1>15, Zenon DEF Files, Held, Closing
        <5> QED  BY <1>0, <5>1, <5>2, <4>3, <1>4, Zenon
      <4> QED  BY <1>0, <4>1, <4>2, <4>3, Zenon
    <3> QED  BY <1>0, <3>1, Zenon DEF Held
  <2>2. Opened(tab, B)
    BY <1>0, <1>15, Zenon DEF Files, Opened
  <2>3. ToClose(tab, j, Q, B)
    <3>1. ToClose(tab, k, Q, A)
      BY <1>0, <1>15, Zenon DEF Files
    <3>2. ASSUME NEW q \in Q, q.op = "close", NEW d \in Clients, j[d].holds = q.h
          PROVE  Closing(j, d)
      <4>1. /\ q.h # 0 /\ (m.op = "open" /\ m.result # -1 => m.result # q.h)
            /\ k[d].holds = q.h => Closing(k, d)
        BY <1>0, <3>1, <3>2, Zenon DEF ToClose
      <4>2. CASE d # c
        BY <1>0, <3>2, <4>1, <4>2, <1>4, Zenon DEF Closing
      <4>3. CASE d = c
        BY <1>0, <3>2, <4>1, <4>3, <1>2, <1>4, <1>5, Zenon DEF Closing
      <4> QED  BY <1>0, <4>2, <4>3, Zenon
    <3> QED  BY <1>0, <3>1, <3>2, Zenon DEF ToClose
  <2> QED  BY <1>0, <2>1, <2>2, <2>3, Zenon DEF Files
<1> QED
  <2>1. Linked(J, j, Q) /\ Linked(J, j, B)
    BY <1>0, <1>11, Zenon DEF Fits
  <2> QED  BY <1>0, <2>1, <1>4, <1>9, <1>10, <1>12, <1>13, <1>14, <1>15, Zenon DEF Fits, J, j

\* An answer for a client that was killed: the call is no longer kept.
LEMMA NobodyToAnswer ==
  ASSUME NEW I \in Imports, NEW k \in [Clients -> Callers],
         NEW Q \in SUBSET Messages, NEW A \in SUBSET Messages, NEW B \in SUBSET A,
         Fits(I, k, Q, A),
         NEW P \in [Slots -> Calls \cup {None}], \A s \in Slots : P[s] \in {I.pend[s], None},
         NEW J, J.pend = P, J.tag = I.tag
  PROVE  Fits(J, k, Q, B)
<1>1. \A s \in Slots : P[s] # None => P[s] = I.pend[s]
  BY Zenon
<1>2. Own(k) /\ Kept(I, k) /\ Asked(k, Q) /\ Replied(k, A) /\ Linked(I, k, Q) /\ Linked(I, k, A)
  BY Zenon DEF Fits
<1>3. Kept(J, k)
  BY <1>1, <1>2 DEF Kept
<1>4. ASSUME NEW M, Linked(I, k, M), NEW N \in SUBSET M PROVE Linked(J, k, N)
  BY <1>1, <1>4 DEF Linked
<1>5. Replied(k, B)
  BY <1>2, Zenon DEF Replied
<1>6. Linked(J, k, Q) /\ Linked(J, k, B)
  BY <1>2, <1>4, Zenon
<1> QED  BY <1>2, <1>3, <1>5, <1>6, Zenon DEF Fits

\* Fewer messages are no trouble for the handles.
LEMMA FewerAnswers ==
  ASSUME NEW tab, NEW k, NEW Q, NEW A, NEW B \in SUBSET A, NEW R \in SUBSET Q,
         Files(tab, k, Q, A)
  PROVE  Files(tab, k, R, B)
<1>1. Held(tab, k) /\ Opened(tab, A) /\ ToClose(tab, k, Q, A)
  BY Zenon DEF Files
<1>2. Opened(tab, B)
  BY <1>1, Zenon DEF Opened
<1>3. ToClose(tab, k, R, B)
  BY <1>1, Zenon DEF ToClose
<1> QED  BY <1>1, <1>2, <1>3, Zenon DEF Files

-----------------------------------------------------------------------------
(* drain_in.                                                                *)

\* What import and the clients are like after some of the messages in its buffer
\* have been handed over; `rest` is what else is on the way to import.
Partly(I, k, rest, P) ==
  /\ P \in [I : Imports, cl : [Clients -> Callers], bad : BOOLEAN]
  /\ P.I.outq = I.outq /\ P.I.busy = I.busy /\ P.I.tag = I.tag /\ P.I.alive = I.alive
  /\ Sending(P.cl) = Sending(k)
  /\ Once(Stream(P.I.in, rest, exp.out))
  /\ Fits(P.I, P.cl, Msgs(Asking), Msgs(Stream(P.I.in, rest, exp.out)))
  /\ net.up => Files(exp.tab, P.cl, Msgs(Asking), Msgs(Stream(P.I.in, rest, exp.out)))

\* One turn of the loop of drain_in.
OneMore(P) ==
  LET used == fs_decode(P.I.in)
  IN IF used = 0 \/ P.bad THEN P
     ELSE IF used = -1 THEN [P EXCEPT !.bad = TRUE]
     ELSE LET F == from_wire([I |-> [P.I EXCEPT !.in = Drop(@, used)], cl |-> P.cl],
                             P.I.in[1].m)
          IN [I |-> F.I, cl |-> F.cl, bad |-> FALSE]

\* A turn of the loop hands over a message and keeps everything right.
LEMMA OneMoreFacts ==
  ASSUME Laws, NEW I, NEW k, NEW rest \in Seq(Units), NEW P, Partly(I, k, rest, P),
         Msgs(Asking) \in SUBSET Messages, exp.out \in Seq(Units)
  PROVE  Partly(I, k, rest, OneMore(P))
<1> DEFINE used == fs_decode(P.I.in)
           Q == Msgs(Asking)
           A == Msgs(Stream(P.I.in, rest, exp.out))
<1>1. /\ P \in [I : Imports, cl : [Clients -> Callers], bad : BOOLEAN]
      /\ P.I \in Imports /\ P.cl \in [Clients -> Callers] /\ P.bad \in BOOLEAN
      /\ P.I.in \in Seq(Units)
  BY Zenon DEF Partly, Imports
<1>2. /\ used \in {-1, 0, 1, 2}
      /\ used > 0 => /\ used \in 1 .. Len(P.I.in)
                     /\ P.I.in[1].i = 1 /\ P.I.in[1].m \in Messages
  BY <1>1, Decoded, Zenon
<1>3. CASE used = 0 \/ P.bad
  BY <1>3, Zenon DEF OneMore
<1>4. CASE ~(used = 0 \/ P.bad) /\ used = -1
  <2> DEFINE R == [P EXCEPT !.bad = TRUE]
  <2>1. OneMore(P) = R
    BY <1>4, Zenon DEF OneMore
  <2>2. /\ R \in [I : Imports, cl : [Clients -> Callers], bad : BOOLEAN]
        /\ R.I = P.I /\ R.cl = P.cl
    BY <1>1, Zenon
  <2> HIDE DEF R
  <2>3. Partly(I, k, rest, R)
    BY <2>2, Zenon DEF Partly
  <2> QED  BY <2>1, <2>3, Zenon
<1>5. CASE ~(used = 0 \/ P.bad) /\ used # -1
  <2> DEFINE m == P.I.in[1].m
             D == Drop(P.I.in, used)
             W == Stream(P.I.in, rest, exp.out)
             E == [P.I EXCEPT !.in = D]
             S == [I |-> E, cl |-> P.cl]
             F == from_wire(S, m)
             R == [I |-> F.I, cl |-> F.cl, bad |-> FALSE]
             B == Msgs(Stream(D, rest, exp.out))
  <2>1. /\ used \in 1 .. Len(P.I.in) /\ used \in 0 .. Len(P.I.in)
        /\ P.I.in[1].i = 1 /\ m \in Messages
    BY <1>2, <1>5
  <2>2. OneMore(P) = R
    BY <1>5, Zenon DEF OneMore
  <2>3. /\ W \in Seq(Units) /\ used \in 1 .. Len(W)
        /\ Stream(D, rest, exp.out) = Drop(W, used) /\ W[1] = P.I.in[1]
    <3> DEFINE z == P.I.in
               u == used
    <3>1. z \in Seq(Units) /\ u \in 0 .. Len(z)
      BY <2>1, <1>1, Zenon
    <3>2. Len(z) \in Nat /\ Len(z) # 0 /\ u \in 1 .. Len(z)
      BY <2>1, <3>1, Elements
    <3> HIDE DEF z, u
    <3>3. /\ Stream(z, rest, exp.out) \in Seq(Units)
          /\ Len(z) <= Len(Stream(z, rest, exp.out))
          /\ Len(z) # 0 => Stream(z, rest, exp.out)[1] = z[1]
          /\ Stream(Drop(z, u), rest, exp.out) = Drop(Stream(z, rest, exp.out), u)
      <4>1. z \in Seq(Units) /\ rest \in Seq(Units) /\ exp.out \in Seq(Units) /\ u \in 0 .. Len(z)
        BY <3>1, Zenon
      <4> QED  BY <4>1, TakenInFront
    <3>4. u \in 1 .. Len(Stream(z, rest, exp.out))
      BY <3>2, <3>3, Elements
    <3> QED  BY <3>2, <3>3, <3>4, Zenon DEF z, u
  <2>4. Once(W) /\ Fits(P.I, P.cl, Q, A) /\ (net.up => Files(exp.tab, P.cl, Q, A))
    BY Zenon DEF Partly
  <2>5. /\ m \in A /\ B \subseteq A /\ Once(Stream(D, rest, exp.out))
        /\ \A b \in B : b.id # m.id
    <3> HIDE DEF W, D
    <3>1. /\ W[1].m \in Msgs(W) /\ Once(Drop(W, used))
          /\ Msgs(Drop(W, used)) \subseteq Msgs(W)
          /\ \A b \in Msgs(Drop(W, used)) : b.id # W[1].m.id
      BY <2>1, <2>3, <2>4, FirstTaken, Zenon
    <3> QED  BY <3>1, <2>3, Zenon DEF W
  <2>6. A \in SUBSET Messages
    BY <2>3, AreMessages, Zenon
  <2>7. /\ E \in Imports /\ E.pend = P.I.pend /\ E.tag = P.I.tag /\ E.in = D
        /\ E.outq = P.I.outq /\ E.busy = P.I.busy /\ E.alive = P.I.alive
    <3>1. D \in Seq(Units)
      BY <1>1, <2>1, Cut, Zenon
    <3> HIDE DEF D
    <3> QED  BY <3>1, <1>1, Zenon DEF Imports
  <2>8. S.I = E /\ S.cl = P.cl
    BY Zenon
  <2>9. Fits(E, P.cl, Q, A)
    <3> HIDE DEF E, A, Q
    <3>1. /\ E.pend \in [Slots -> Calls \cup {None}]
          /\ \A s \in Slots : E.pend[s] \in {P.I.pend[s], None}
          /\ Q \in SUBSET Messages /\ A \in SUBSET A
      BY <2>7, Zenon DEF Imports, Q
    <3> QED  BY <3>1, <2>4, <2>6, <2>7, <1>1, NobodyToAnswer, Zenon
  <2> HIDE DEF m, D, W, E, S, F, B, A, Q
  <2>10. HandsOver(S, m, F)
    BY WhoseAnswer, Zenon DEF F
  <2>11. /\ F.I \in Imports /\ F.cl \in [Clients -> Callers]
         /\ F.I.in = D /\ F.I.outq = E.outq /\ F.I.busy = E.busy /\ F.I.tag = E.tag
         /\ F.I.alive = E.alive
         /\ Sending(F.cl) = Sending(P.cl)
         /\ Fits(F.I, F.cl, Q, B)
         /\ net.up => Files(exp.tab, F.cl, Q, B)
    <3>0. Q \in SUBSET Messages /\ B \in SUBSET A /\ Q \subseteq Q
      BY <2>5, Zenon DEF Q
    <3>1. CASE F = S
      <4>1. E.pend \in [Slots -> Calls \cup {None}] /\ \A s \in Slots : E.pend[s] \in {E.pend[s], None}
        BY <2>7, Zenon DEF Imports
      <4>2. Fits(E, P.cl, Q, B)
        BY <4>1, <3>0, <2>6, <2>7, <2>9, <1>1, NobodyToAnswer, Zenon
      <4>3. net.up => Files(exp.tab, P.cl, Q, B)
        BY <2>4, <3>0, FewerAnswers, Zenon
      <4> QED  BY <3>1, <4>2, <4>3, <2>7, <2>8, <1>1, Zenon
    <3>2. ASSUME NEW s \in Slots, E.pend[s] # None, E.pend[s].tag = m.tag,
                 F.I = Forget(E, s),
                 F.cl = IF E.pend[s].client = None THEN P.cl ELSE Give(P.cl, E.pend[s].client, m)
          PROVE  /\ F.I \in Imports /\ F.cl \in [Clients -> Callers]
                 /\ F.I.in = D /\ F.I.outq = E.outq /\ F.I.busy = E.busy /\ F.I.tag = E.tag
                 /\ F.I.alive = E.alive
                 /\ Sending(F.cl) = Sending(P.cl)
                 /\ Fits(F.I, F.cl, Q, B)
                 /\ net.up => Files(exp.tab, F.cl, Q, B)
      <4>1. /\ E.pend \in [Slots -> Calls \cup {None}]
            /\ E.pend[s].client \in Clients \cup {None}
        BY <2>7, <3>2, Zenon DEF Imports, Calls
      <4>2. /\ F.I \in Imports /\ F.I.pend = [E.pend EXCEPT ![s] = None]
            /\ F.I.in = E.in /\ F.I.outq = E.outq /\ F.I.busy = E.busy /\ F.I.tag = E.tag
            /\ F.I.alive = E.alive
        <5> DEFINE p == [E.pend EXCEPT ![s] = None]
        <5>1. p \in [Slots -> Calls \cup {None}]
          BY <3>2, <4>1
        <5>2. F.I = [E EXCEPT !.pend = p]
          BY <3>2, Zenon DEF Forget
        <5> HIDE DEF p
        <5>3. /\ F.I \in Imports /\ F.I.pend = p
              /\ F.I.in = E.in /\ F.I.outq = E.outq /\ F.I.busy = E.busy /\ F.I.tag = E.tag
              /\ F.I.alive = E.alive
          BY <5>1, <5>2, <2>7, Zenon DEF Imports
        <5> QED  BY <5>3, Zenon DEF p
      <4>3. CASE E.pend[s].client = None
        <5>1. F.I.pend \in [Slots -> Calls \cup {None}]
              /\ \A t \in Slots : F.I.pend[t] \in {E.pend[t], None}
          BY <4>1, <4>2, Zenon
        <5>2. F.cl = P.cl
          BY <3>2, <4>3, Zenon
        <5>3. Fits(F.I, P.cl, Q, B)
          BY <5>1, <4>2, <3>0, <2>6, <2>7, <2>9, <1>1, NobodyToAnswer, Zenon
        <5>4. net.up => Files(exp.tab, P.cl, Q, B)
          BY <2>4, <3>0, FewerAnswers, Zenon
        <5> QED  BY <5>2, <5>3, <5>4, <4>2, <2>7, <1>1, Zenon
      <4>4. CASE E.pend[s].client # None
        <5> DEFINE c == E.pend[s].client
        <5>1. c \in Clients /\ F.cl = Give(P.cl, c, m)
          BY <3>2, <4>1, <4>4, Zenon
        <5> HIDE DEF c
        <5>2. E.pend[s].client = c
          BY Zenon DEF c
        <5>3. /\ F.cl \in [Clients -> Callers]
              /\ Fits(F.I, F.cl, Q, B)
              /\ Sending(F.cl) = Sending(P.cl)
              /\ \A tab : Files(tab, P.cl, Q, A) => Files(tab, F.cl, Q, B)
          <6>1. E \in Imports /\ P.cl \in [Clients -> Callers]
            BY <2>7, <1>1, Zenon
          <6>2. m \in A /\ \A b \in B : b.id # m.id
            BY <2>5, Zenon
          <6>3. E.pend[s] # None /\ E.pend[s].tag = m.tag /\ F.I = Forget(E, s)
            BY <3>2, Zenon
          <6>4. ToHandOver(E, P.cl, Q, A, B, m, s, c)
            BY <6>1, <6>2, <6>3, <5>1, <5>2, <3>0, <2>6, <2>9, Zenon DEF ToHandOver
          <6> QED  BY <6>3, <6>4, <5>1, HandedOver
        <5> QED  BY <5>3, <4>2, <2>4, <2>7, Zenon
      <4> QED  BY <4>3, <4>4, Zenon
    <3> QED  BY <2>8, <2>10, <3>1, <3>2, Zenon DEF HandsOver
  <2>12. /\ R \in [I : Imports, cl : [Clients -> Callers], bad : BOOLEAN]
         /\ R.I = F.I /\ R.cl = F.cl
    BY <2>11, Zenon
  <2> HIDE DEF R
  <2>13. /\ R.I.in = D /\ R.I.outq = I.outq /\ R.I.busy = I.busy /\ R.I.tag = I.tag
         /\ R.I.alive = I.alive /\ Sending(R.cl) = Sending(k)
    BY <2>7, <2>11, <2>12, Zenon DEF Partly
  <2>14. /\ Fits(R.I, R.cl, Q, B) /\ (net.up => Files(exp.tab, R.cl, Q, B))
    BY <2>11, <2>12, Zenon
  <2>15. Partly(I, k, rest, R)
    BY <2>5, <2>12, <2>13, <2>14, Zenon DEF Partly, Q, B
  <2> QED  BY <2>2, <2>15, Zenon
<1> QED  BY <1>2, <1>3, <1>4, <1>5, Zenon

\* drain_in hands over every whole message and keeps everything right.
LEMMA DrainInFacts ==
  ASSUME Laws, NEW I, NEW k, NEW rest \in Seq(Units), I.in \in Seq(Units),
         Partly(I, k, rest, [I |-> I, cl |-> k, bad |-> FALSE]),
         Msgs(Asking) \in SUBSET Messages, exp.out \in Seq(Units)
  PROVE  Partly(I, k, rest, drain_in(I, k))
<1> DEFINE l == Len(I.in)
           v == [I |-> I, cl |-> k, bad |-> FALSE]
           V == {P \in [I : Imports, cl : [Clients -> Callers], bad : BOOLEAN] :
                   Partly(I, k, rest, P)}
           G == [P \in V |-> OneMore(P)]
           Is(f) == f = [i \in 0 .. l |-> IF i = 0 THEN v ELSE OneMore(f[i - 1])]
           after == CHOOSE f : Is(f)
<1>1. l \in Nat
  BY Elements, Zenon
<1>2. \A P : Partly(I, k, rest, P) => P \in V
  BY Zenon DEF Partly
<1>3. \A P \in V : Partly(I, k, rest, P)
  BY Zenon
<1>4. v \in V
  BY <1>2, Zenon
<1>5. \A P \in V : OneMore(P) \in V
  <2> HIDE DEF V
  <2> QED  BY <1>2, <1>3, OneMoreFacts, Zenon
<1> HIDE DEF V
<1>6. G \in [V -> V]
  BY <1>5, Zenon
<1>0. PICK f : Walks(f, l, V, v, G)
  <2> HIDE DEF G, l, v
  <2> QED  BY <1>1, <1>4, <1>6, Loops, Zenon
<1>7. f \in [0 .. l -> V] /\ f[0] = v /\ \A i \in 1 .. l : f[i] = G[f[i - 1]]
  BY <1>0, Zenon DEF Walks
<1>8. Is(f)
  <2>1. ASSUME NEW i \in 1 .. l PROVE f[i] = OneMore(f[i - 1])
    <3>1. f[i - 1] \in V
      <4> HIDE DEF l, v, G
      <4>1. i - 1 \in 0 .. l
        BY <1>1
      <4>2. f \in [0 .. l -> V]
        BY <1>7, Zenon
      <4> QED  BY <4>1, <4>2, Zenon
    <3> QED  BY <3>1, <1>7, Zenon
  <2> HIDE DEF l, v
  <2> QED  BY <1>1, <1>7, <2>1
<1>9. Is(after)
  BY <1>8, Zenon
<1>10. after[0] = v /\ \A i \in 1 .. l : after[i] = OneMore(after[i - 1])
  <2> HIDE DEF after, l, v
  <2> QED  BY <1>1, <1>9
<1>11. \A i \in 0 .. l : after[i] \in V
  <2> HIDE DEF after, l, v
  <2> DEFINE S == {i \in 0 .. l : after[i] \in V}
  <2>1. 0 \in S
    BY <1>1, <1>4, <1>10
  <2>2. ASSUME NEW i \in 1 .. l, i - 1 \in S PROVE i \in S
    BY <1>1, <1>5, <1>10, <2>2
  <2>3. \A i \in 1 .. l : i - 1 \in S => i \in S
    BY <2>2, Zenon
  <2> HIDE DEF S
  <2>4. \A i \in 0 .. l : i \in S
    BY <1>1, <2>1, <2>3, Climbs, Zenon
  <2> QED  BY <2>4, Zenon DEF S
<1>12. drain_in(I, k) = after[l]
  BY Zenon DEF drain_in, OneMore
<1>13. l \in 0 .. l
  BY <1>1
<1> QED  BY <1>3, <1>11, <1>12, <1>13, Zenon

-----------------------------------------------------------------------------
(* The state and its parts.                                                 *)

\* The parts of the state have their types, and so do the streams.
LEMMA PartsOfState ==
  ASSUME Types
  PROVE  /\ imp.alive \in BOOLEAN /\ imp.outq \in Seq(Units) /\ imp.in \in Seq(Units)
         /\ imp.busy \in Nat /\ imp.tag \in Nat /\ imp.pend \in [Slots -> Calls \cup {None}]
         /\ exp.in \in Seq(Units) /\ exp.out \in Seq(Units)
         /\ exp.tab \in [Handles -> 0 .. MaxCalls]
         /\ net.up \in BOOLEAN /\ net.there \in Seq(Units) /\ net.back \in Seq(Units)
         /\ n.calls \in 0 .. MaxCalls /\ n.faults \in Nat /\ MaxCalls \in Nat /\ NFD \in Nat
         /\ Asking \in Seq(Units) /\ Answering \in Seq(Units)
         /\ Msgs(Asking) \in SUBSET Messages /\ Msgs(Answering) \in SUBSET Messages
<1>1. /\ imp.alive \in BOOLEAN /\ imp.outq \in Seq(Units) /\ imp.in \in Seq(Units)
      /\ imp.busy \in Nat /\ imp.tag \in Nat /\ imp.pend \in [Slots -> Calls \cup {None}]
  BY Zenon DEF Types, Imports
<1>2. /\ exp.in \in Seq(Units) /\ exp.out \in Seq(Units)
      /\ exp.tab \in [Handles -> 0 .. MaxCalls]
  BY Zenon DEF Types, Exports
<1>3. net.up \in BOOLEAN /\ net.there \in Seq(Units) /\ net.back \in Seq(Units)
  BY Zenon DEF Types, Conns
<1>4. n.calls \in 0 .. MaxCalls /\ n.faults \in Nat /\ MaxCalls \in Nat /\ NFD \in Nat
  BY RemoteAssumption, Zenon DEF Types
<1>5. ASSUME NEW a \in Seq(Units), NEW b \in Seq(Units), NEW c \in Seq(Units)
      PROVE  Stream(a, b, c) \in Seq(Units)
  <2>1. a \o b \in Seq(Units)
    BY Joined, Zenon
  <2> QED  BY <2>1, Joined, Zenon DEF Stream
<1>6. Asking \in Seq(Units) /\ Answering \in Seq(Units)
  BY <1>1, <1>2, <1>3, <1>5, Zenon DEF Asking, Answering
<1>7. Msgs(Asking) \in SUBSET Messages /\ Msgs(Answering) \in SUBSET Messages
  BY <1>6, AreMessages, Zenon
<1> QED  BY <1>1, <1>2, <1>3, <1>4, <1>6, <1>7, Zenon

\* Those who are sending are finitely many.
LEMMA SendingFacts ==
  ASSUME Laws, NEW k
  PROVE  /\ Cardinality({}) = 0 /\ Cardinality(Sending(k)) \in Nat
         /\ \A c \in Sending(k) : /\ Cardinality(Sending(k) \ {c}) = Cardinality(Sending(k)) - 1
                                  /\ Cardinality(Sending(k)) >= 1
         /\ \A c : c \notin Sending(k) =>
              Cardinality(Sending(k) \cup {c}) = Cardinality(Sending(k)) + 1
  BY Zenon DEF Laws, SendersCount

\* kick_write offers at most what is in the queue, and changes nothing else.
LEMMA KickFacts ==
  ASSUME NEW I \in Imports, I.busy = 0 \/ I.busy <= Len(I.outq),
         NEW K, K = kick_write(I)
  PROVE  /\ K \in Imports /\ K.busy <= Len(K.outq)
         /\ K.alive = I.alive /\ K.outq = I.outq /\ K.in = I.in
         /\ K.pend = I.pend /\ K.tag = I.tag
<1>1. I.outq \in Seq(Units) /\ Len(I.outq) \in Nat /\ I.busy \in Nat /\ VFS_DATA_MAX \in Nat
  BY RemoteAssumption, Elements, Zenon DEF Imports
<1>2. CASE I.busy # 0 \/ I.outq = <<>>
  <2>1. K = I
    BY <1>2, Zenon DEF kick_write
  <2> QED  BY <2>1, <1>1, <1>2
<1>3. CASE ~(I.busy # 0 \/ I.outq = <<>>)
  <2> DEFINE b == Least2(Len(I.outq), VFS_DATA_MAX)
  <2>1. K = [I EXCEPT !.busy = b]
    BY <1>3, Zenon DEF kick_write
  <2>2. b \in Nat /\ b <= Len(I.outq)
    BY <1>1 DEF Least2
  <2> HIDE DEF b
  <2>3. /\ K \in Imports /\ K.busy = b
        /\ K.alive = I.alive /\ K.outq = I.outq /\ K.in = I.in
        /\ K.pend = I.pend /\ K.tag = I.tag
    BY <2>1, <2>2, Zenon DEF Imports
  <2> QED  BY <2>2, <2>3, Zenon
<1> QED  BY <1>2, <1>3, Zenon

\* What the streams carry after a step is what the streams of the next state
\* carry.
LEMMA Afterwards ==
  /\ Msgs(Asking)' = Msgs(Asking') /\ Once(Asking)' = Once(Asking')
  /\ Msgs(Answering)' = Msgs(Answering') /\ Once(Answering)' = Once(Answering')
<1>1. Msgs(Asking)' = Msgs(Asking') /\ Msgs(Answering)' = Msgs(Answering')
  BY Zenon DEF Msgs, Heads
<1>2. Once(Asking)' = Once(Asking') /\ Once(Answering)' = Once(Answering')
  BY Zenon DEF Once, Heads
<1> QED  BY <1>1, <1>2, Zenon

\* Where the messages in flight, the clients, and what import and exportfs know
\* of them stay as they are, they stay in order.
LEMMA NothingNew ==
  ASSUME Correspondence, Asking' = Asking, Answering' = Answering,
         cl' = cl, served' = served, n'.calls = n.calls, exp'.tab = exp.tab,
         imp'.pend = imp.pend, imp'.tag = imp.tag, imp'.alive = imp.alive,
         net'.up => net.up
  PROVE  Correspondence'
<1>1. Msgs(Asking)' = Msgs(Asking) /\ Msgs(Answering)' = Msgs(Answering)
  BY Afterwards, Zenon
<1>2. Once(Asking)' /\ Once(Answering)'
  BY Afterwards, Zenon DEF Correspondence
<1>3. Own(cl)' /\ Kept(imp, cl)'
  BY DEF Correspondence, Own, Kept
<1>4. Asked(cl, Msgs(Asking))' /\ Replied(cl, Msgs(Answering))'
  <2>1. Asked(cl, Msgs(Asking)) /\ Replied(cl, Msgs(Answering))
    BY Zenon DEF Correspondence
  <2> QED  BY <1>1, <2>1, Zenon DEF Asked, Replied
<1>5. (imp.alive => Linked(imp, cl, Msgs(Asking)) /\ Linked(imp, cl, Msgs(Answering)))'
  <2>1. imp.alive => Linked(imp, cl, Msgs(Asking)) /\ Linked(imp, cl, Msgs(Answering))
    BY Zenon DEF Correspondence
  <2>2. ASSUME NEW M, Linked(imp, cl, M) PROVE Linked(imp', cl', M)
    BY <2>2 DEF Linked
  <2>3. /\ Linked(imp, cl, Msgs(Asking))' = Linked(imp', cl', Msgs(Asking)')
        /\ Linked(imp, cl, Msgs(Answering))' = Linked(imp', cl', Msgs(Answering)')
    BY Zenon DEF Linked
  <2> QED  BY <1>1, <2>1, <2>2, <2>3, Zenon
<1>6. (imp.alive /\ net.up => Files(exp.tab, cl, Msgs(Asking), Msgs(Answering)))'
  <2>1. imp.alive /\ net.up => Files(exp.tab, cl, Msgs(Asking), Msgs(Answering))
    BY Zenon DEF Correspondence, Files
  <2> QED  BY <1>1, <2>1, Zenon DEF Files, Held, Opened, ToClose, Closing
<1> QED  BY <1>2, <1>3, <1>4, <1>5, <1>6, Zenon DEF Correspondence, Files

-----------------------------------------------------------------------------
(* Every step keeps the books.                                              *)

\* In the beginning nothing is under way.
LEMMA InitInv == ASSUME Laws PROVE Init => RInv
<1> SUFFICES ASSUME Init PROVE RInv
  BY Zenon
<1>1. /\ MaxCalls \in Nat /\ NFD \in Nat /\ 0 \in 0 .. MaxCalls /\ 0 \in 0 .. NFD
  BY RemoteAssumption
<1>2. /\ imp = NewImport
      /\ exp = [ph |-> "read", in |-> <<>>, out |-> <<>>, tab |-> AllClosed]
      /\ net = NewConn
      /\ served = [i \in 1 .. MaxCalls |-> 0]
      /\ n = [calls |-> 0, faults |-> 0]
      /\ cl = [c \in Clients |-> [ph |-> "run", op |-> "none", id |-> 0, got |-> 0, holds |-> 0,
                                  file |-> 0]]
  BY Zenon DEF Init
<1>3. /\ imp \in Imports /\ imp.busy = 0 /\ imp.outq = <<>> /\ imp.in = <<>> /\ imp.tag = 0
      /\ imp.pend = [s \in Slots |-> None] /\ imp.alive = TRUE
  BY <1>2 DEF NewImport, Imports
<1>4. /\ exp \in Exports /\ exp.in = <<>> /\ exp.out = <<>> /\ exp.ph = "read"
  BY <1>1, <1>2, SMTT(30) DEF Exports, AllClosed
<1>5. net \in Conns /\ net.there = <<>> /\ net.back = <<>> /\ net.up = TRUE
  BY <1>2 DEF NewConn, Conns
<1>6. /\ cl \in [Clients -> Callers]
      /\ \A c \in Clients : /\ cl[c].ph = "run" /\ cl[c].id = 0 /\ cl[c].got = 0
                            /\ cl[c].holds = 0
  BY <1>1, <1>2, Zenon DEF Callers
<1>7. /\ served \in [1 .. MaxCalls -> Nat] /\ \A i \in 1 .. MaxCalls : served[i] = 0
      /\ n \in [calls : 0 .. MaxCalls, faults : Nat] /\ n.calls = 0
  BY <1>1, <1>2, Zenon
<1>8. Types
  BY <1>3, <1>4, <1>5, <1>6, <1>7 DEF Types
<1>9. Asking = <<>> /\ Answering = <<>>
  BY <1>3, <1>4, <1>5, NoMessages, Zenon DEF Asking, Answering, Stream
<1>10. /\ Msgs(Asking) = {} /\ Msgs(Answering) = {} /\ Once(Asking) /\ Once(Answering)
  BY <1>9, NoMessages, Zenon
<1>11. Sending(cl) = {} /\ Cardinality(Sending(cl)) = 0
  <2>1. Sending(cl) = {}
    BY <1>6, Zenon DEF Sending
  <2> QED  BY <2>1, SendingFacts, Zenon
<1>12. Books
  BY <1>1, <1>3, <1>4, <1>7, <1>11, SMTT(30) DEF Books
<1>13. Own(cl)
  BY <1>6, <1>7 DEF Own
<1>14. Kept(imp, cl)
  BY <1>3, Zenon DEF Kept
<1>15. Held(exp.tab, cl)
  BY <1>6, Zenon DEF Held
<1>16. /\ Asked(cl, {}) /\ Replied(cl, {}) /\ Linked(imp, cl, {}) /\ Opened(exp.tab, {})
       /\ ToClose(exp.tab, cl, {}, {})
  BY Zenon DEF Asked, Replied, Linked, Opened, ToClose
<1>17. Correspondence
  BY <1>10, <1>13, <1>14, <1>15, <1>16, Zenon DEF Correspondence
<1> QED  BY <1>8, <1>12, <1>17, Zenon DEF RInv

\* The books after a step that moves units from buffer to buffer.
LEMMA MovesOnly ==
  ASSUME RInv, Types', Asking' = Asking, Answering' = Answering,
         UNCHANGED <<cl, served>>, n'.calls = n.calls, exp'.tab = exp.tab,
         imp'.pend = imp.pend, imp'.tag = imp.tag, imp'.alive = imp.alive,
         net'.up => net.up,
         (exp.ph = "accept" => exp.in = <<>>)', (exp.ph # "write" => exp.out = <<>>)',
         (~imp.alive => imp.in = <<>> /\ imp.outq = <<>> /\ imp.busy = 0 /\ ~net.up)'
  PROVE  RInv'
<1>1. Correspondence'
  BY NothingNew, Zenon DEF RInv
<1>2. Books'
  BY Zenon DEF RInv, Books, Sending
<1> QED  BY <1>1, <1>2, Zenon DEF RInv

\* The network takes some of the queue (WriteReply).
LEMMA WriteReplyStep == RInv /\ WriteReply => RInv'
<1> SUFFICES ASSUME RInv, WriteReply PROVE RInv'
  BY Zenon
<1> DEFINE k == Least2(imp.busy, NETBUF - Len(net.there))
           I == write_done(imp, k)
           q == Drop(imp.outq, k)
           b == net.there \o SubSeq(imp.outq, 1, k)
<1>1. /\ imp.alive /\ net.up /\ Len(net.there) < NETBUF
      /\ net' = [net EXCEPT !.there = b] /\ imp' = kick_write(I)
      /\ UNCHANGED <<exp, cl, served, n>>
  BY Zenon DEF WriteReply
<1>2. Types
  BY Zenon DEF RInv
<1>3. /\ imp.outq \in Seq(Units) /\ imp.in \in Seq(Units) /\ imp.busy \in Nat
      /\ net.there \in Seq(Units) /\ net.back \in Seq(Units) /\ exp.in \in Seq(Units)
      /\ imp.alive \in BOOLEAN /\ net.up \in BOOLEAN
  BY <1>2, PartsOfState, Zenon
<1>4. k \in 0 .. Len(imp.outq)
  <2>1. Len(net.there) \in Nat /\ Len(imp.outq) \in Nat /\ NETBUF \in Nat
        /\ imp.busy <= Len(imp.outq)
    BY <1>2, <1>3, Elements, RemoteAssumption, Zenon DEF Types
  <2> QED  BY <2>1, <1>1, <1>3, SMTT(30) DEF Least2
<1> HIDE DEF k
<1>5. SubSeq(imp.outq, 1, k) \in Seq(Units) /\ q \in Seq(Units)
  BY <1>3, <1>4, Cut, Zenon
<1>6. b \in Seq(Units)
  BY <1>3, <1>5, Joined, Zenon
<1>7. Stream(exp.in, b, q) = Stream(exp.in, net.there, imp.outq)
  BY <1>3, <1>4, Moved
<1>8. I = [imp EXCEPT !.busy = 0, !.outq = q]
  BY Zenon DEF write_done
<1> HIDE DEF q, b, I
<1>9. /\ I \in Imports /\ I.busy = 0 /\ I.outq = q /\ I.in = imp.in /\ I.pend = imp.pend
      /\ I.tag = imp.tag /\ I.alive = imp.alive
  BY <1>2, <1>5, <1>8, Zenon DEF Types, Imports
<1>10. /\ imp' \in Imports /\ imp'.busy <= Len(imp'.outq) /\ imp'.alive = imp.alive
       /\ imp'.outq = q /\ imp'.in = imp.in /\ imp'.pend = imp.pend /\ imp'.tag = imp.tag
  BY <1>1, <1>9, KickFacts, Zenon
<1>11. net' \in Conns /\ net'.there = b /\ net'.back = net.back /\ net'.up = net.up
  BY <1>1, <1>2, <1>6, Zenon DEF Types, Conns
<1>12. Types'
  BY <1>1, <1>2, <1>10, <1>11, Zenon DEF Types
<1>13. Asking' = Asking /\ Answering' = Answering
  BY <1>1, <1>7, <1>10, <1>11, Zenon DEF Asking, Answering
<1>14. /\ (exp.ph = "accept" => exp.in = <<>>)' /\ (exp.ph # "write" => exp.out = <<>>)'
       /\ imp'.alive /\ exp'.tab = exp.tab /\ n'.calls = n.calls
  BY <1>1, <1>10, Zenon DEF RInv, Books
<1> QED  BY <1>1, <1>10, <1>11, <1>12, <1>13, <1>14, MovesOnly, Zenon

\* The connection breaks (Breaks).
LEMMA BreaksStep == RInv /\ Breaks => RInv'
<1> SUFFICES ASSUME RInv, Breaks PROVE RInv'
  BY Zenon
<1>1. /\ n' = [n EXCEPT !.faults = @ + 1] /\ net' = [net EXCEPT !.up = FALSE]
      /\ UNCHANGED <<imp, exp, cl, served>>
  BY Zenon DEF Breaks
<1>2. Types
  BY Zenon DEF RInv
<1>3. net' \in Conns /\ net'.there = net.there /\ net'.back = net.back /\ net'.up = FALSE
  BY <1>1, <1>2, Zenon DEF Types, Conns
<1>4. n' \in [calls : 0 .. MaxCalls, faults : Nat] /\ n'.calls = n.calls
  BY <1>1, <1>2 DEF Types
<1>5. Types'
  BY <1>1, <1>2, <1>3, <1>4, Zenon DEF Types
<1>6. Asking' = Asking /\ Answering' = Answering
  BY <1>1, <1>3, Zenon DEF Asking, Answering
<1>7. /\ (exp.ph = "accept" => exp.in = <<>>)' /\ (exp.ph # "write" => exp.out = <<>>)'
      /\ (~imp.alive => imp.in = <<>> /\ imp.outq = <<>> /\ imp.busy = 0 /\ ~net.up)'
  BY <1>1, <1>3, Zenon DEF RInv, Books
<1> QED  BY <1>1, <1>3, <1>4, <1>5, <1>6, <1>7, MovesOnly, Zenon

\* exportfs reads (ExportReads).
LEMMA ExportReadsStep == ASSUME RInv, NEW k \in Pieces, ExportReads(k) PROVE RInv'
<1> DEFINE b == Drop(net.there, k)
           a == exp.in \o SubSeq(net.there, 1, k)
           E == [exp EXCEPT !.in = a]
<1>1. /\ exp.ph = "read" /\ k <= Len(net.there)
      /\ net' = [net EXCEPT !.there = b] /\ exp' = [E EXCEPT !.ph = Turn(E)]
      /\ UNCHANGED <<imp, cl, served, n>>
  BY Zenon DEF ExportReads
<1>2. Types
  BY Zenon DEF RInv
<1>3. /\ imp.outq \in Seq(Units) /\ net.there \in Seq(Units) /\ exp.in \in Seq(Units)
  BY <1>2, PartsOfState, Zenon
<1>4. k \in 0 .. Len(net.there)
  BY <1>1, <1>3, Elements, RemoteAssumption DEF Pieces
<1>5. SubSeq(net.there, 1, k) \in Seq(Units) /\ b \in Seq(Units)
  BY <1>3, <1>4, Cut, Zenon
<1>6. a \in Seq(Units)
  BY <1>3, <1>5, Joined, Zenon
<1>7. Stream(a, b, imp.outq) = Stream(exp.in, net.there, imp.outq)
  BY <1>3, <1>4, Moved
<1> HIDE DEF a, b
<1>8. /\ E \in Exports /\ E.in = a /\ E.out = exp.out /\ E.tab = exp.tab
  BY <1>2, <1>6, Zenon DEF Types, Exports
<1>9. Turn(E) \in {"read", "serve", "write"} /\ (Turn(E) # "write" => E.out = <<>>)
  BY Zenon DEF Turn
<1> HIDE DEF E
<1>10. /\ exp' \in Exports /\ exp'.in = a /\ exp'.out = exp.out /\ exp'.tab = exp.tab
       /\ exp'.ph = Turn(E)
  BY <1>1, <1>8, <1>9, Zenon DEF Exports
<1>11. net' \in Conns /\ net'.there = b /\ net'.back = net.back /\ net'.up = net.up
  BY <1>1, <1>2, <1>5, Zenon DEF Types, Conns
<1>12. Types'
  BY <1>1, <1>2, <1>10, <1>11, Zenon DEF Types
<1>13. Asking' = Asking /\ Answering' = Answering
  BY <1>1, <1>7, <1>10, <1>11, Zenon DEF Asking, Answering
<1>14. /\ (exp.ph = "accept" => exp.in = <<>>)' /\ (exp.ph # "write" => exp.out = <<>>)'
       /\ (~imp.alive => imp.in = <<>> /\ imp.outq = <<>> /\ imp.busy = 0 /\ ~net.up)'
  BY <1>1, <1>8, <1>9, <1>10, <1>11, Zenon DEF RInv, Books
<1> QED  BY <1>1, <1>10, <1>11, <1>12, <1>13, <1>14, MovesOnly, Zenon

\* exportfs writes (ExportWrites).
LEMMA ExportWritesStep == RInv /\ ExportWrites => RInv'
<1> SUFFICES ASSUME RInv, ExportWrites PROVE RInv'
  BY Zenon
<1> DEFINE k == Least2(Len(exp.out), NETBUF - Len(net.back))
           c == Drop(exp.out, k)
           b == net.back \o SubSeq(exp.out, 1, k)
           E == [exp EXCEPT !.out = c]
<1>1. /\ net.up /\ Len(net.back) < NETBUF
      /\ net' = [net EXCEPT !.back = b] /\ exp' = [E EXCEPT !.ph = Turn(E)]
      /\ UNCHANGED <<imp, cl, served, n>>
  BY Zenon DEF ExportWrites
<1>2. Types
  BY Zenon DEF RInv
<1>3. /\ imp.in \in Seq(Units) /\ net.back \in Seq(Units) /\ exp.out \in Seq(Units)
  BY <1>2, PartsOfState, Zenon
<1>4. k \in 0 .. Len(exp.out)
  <2>1. Len(net.back) \in Nat /\ Len(exp.out) \in Nat /\ NETBUF \in Nat
    BY <1>3, Elements, RemoteAssumption, Zenon
  <2> QED  BY <2>1, <1>1 DEF Least2
<1> HIDE DEF k
<1>5. SubSeq(exp.out, 1, k) \in Seq(Units) /\ c \in Seq(Units)
  BY <1>3, <1>4, Cut, Zenon
<1>6. b \in Seq(Units)
  BY <1>3, <1>5, Joined, Zenon
<1>7. Stream(imp.in, b, c) = Stream(imp.in, net.back, exp.out)
  BY <1>3, <1>4, Moved, Zenon
<1> HIDE DEF c, b
<1>8. /\ E \in Exports /\ E.in = exp.in /\ E.out = c /\ E.tab = exp.tab
  BY <1>2, <1>5, Zenon DEF Types, Exports
<1>9. Turn(E) \in {"read", "serve", "write"} /\ (Turn(E) # "write" => E.out = <<>>)
  BY Zenon DEF Turn
<1> HIDE DEF E
<1>10. /\ exp' \in Exports /\ exp'.in = exp.in /\ exp'.out = c /\ exp'.tab = exp.tab
       /\ exp'.ph = Turn(E)
  BY <1>1, <1>8, <1>9, Zenon DEF Exports
<1>11. net' \in Conns /\ net'.there = net.there /\ net'.back = b /\ net'.up = net.up
  BY <1>1, <1>2, <1>6, Zenon DEF Types, Conns
<1>12. Types'
  BY <1>1, <1>2, <1>10, <1>11, Zenon DEF Types
<1>13. Asking' = Asking /\ Answering' = Answering
  BY <1>1, <1>7, <1>10, <1>11, Zenon DEF Asking, Answering
<1>14. /\ (exp.ph = "accept" => exp.in = <<>>)' /\ (exp.ph # "write" => exp.out = <<>>)'
       /\ (~imp.alive => imp.in = <<>> /\ imp.outq = <<>> /\ imp.busy = 0 /\ ~net.up)'
  BY <1>1, <1>8, <1>9, <1>10, <1>11, Zenon DEF RInv, Books
<1> QED  BY <1>1, <1>10, <1>11, <1>12, <1>13, <1>14, MovesOnly, Zenon

\* A client leaves its call without an answer: it is refused, or dies.  A tag may
\* be used up.
Leaves(I, k, J, j, c) ==
  /\ c \in Clients /\ k \in [Clients -> Callers] /\ j \in [Clients -> Callers]
  /\ \A d \in Clients : d # c => j[d] = k[d]
  /\ j[c].ph = "run" /\ j[c].got = 0 /\ j[c].id \in {0, k[c].id}
  /\ j[c].holds # 0 => j[c].holds = k[c].holds /\ j[c].file = k[c].file /\ ~Closing(k, c)
  /\ I.tag \in Nat /\ J.tag \in Nat /\ I.tag <= J.tag
  /\ I.pend \in [Slots -> Calls \cup {None}]
  /\ \A s \in Slots : J.pend[s] # None =>
       /\ I.pend[s] # None /\ J.pend[s].tag = I.pend[s].tag
       /\ J.pend[s].client # c
       /\ J.pend[s].client # None =>
            J.pend[s].client = I.pend[s].client /\ J.pend[s].client \in Clients

\* Nothing is wrong for the others then, and nothing for its next call.
Undisturbed(I, k, J, j, c) ==
  /\ Own(k) => Own(j)
  /\ Kept(I, k) => Kept(J, j)
  /\ \A M : Asked(k, M) => Asked(j, M)
  /\ \A M : Replied(k, M) => Replied(j, M)
  /\ \A M \in SUBSET Messages : Linked(I, k, M) => Linked(J, j, M)
  /\ \A tab, Q, A : Files(tab, k, Q, A) => Files(tab, j, Q, A)
  /\ Sending(j) = Sending(k) \ {c}

\* So it is when a client leaves.
LEMMA LeavesFacts ==
  ASSUME NEW I, NEW k, NEW J, NEW j, NEW c, Leaves(I, k, J, j, c), n.calls \in Nat
  PROVE  Undisturbed(I, k, J, j, c)
<1>1. /\ c \in Clients /\ k \in [Clients -> Callers] /\ j \in [Clients -> Callers]
      /\ \A d \in Clients : d # c => j[d] = k[d]
      /\ j[c].ph = "run" /\ j[c].got = 0 /\ j[c].id \in {0, k[c].id}
      /\ j[c].holds # 0 => j[c].holds = k[c].holds /\ j[c].file = k[c].file /\ ~Closing(k, c)
      /\ I.tag \in Nat /\ J.tag \in Nat /\ I.tag <= J.tag
  BY Zenon DEF Leaves
<1>2. ASSUME NEW s \in Slots, J.pend[s] # None
      PROVE  /\ I.pend[s] # None /\ J.pend[s].tag = I.pend[s].tag /\ I.pend[s].tag \in Nat
             /\ J.pend[s].client # None =>
                  /\ J.pend[s].client = I.pend[s].client
                  /\ j[J.pend[s].client] = k[J.pend[s].client]
  <2>1. /\ I.pend[s] # None /\ J.pend[s].tag = I.pend[s].tag
        /\ J.pend[s].client # c
        /\ J.pend[s].client # None =>
             J.pend[s].client = I.pend[s].client /\ J.pend[s].client \in Clients
        /\ I.pend \in [Slots -> Calls \cup {None}]
    BY <1>2, Zenon DEF Leaves
  <2>2. I.pend[s].tag \in Nat
    BY <2>1, Zenon DEF Calls
  <2> QED  BY <2>1, <2>2, <1>1, Zenon
<1>4. ASSUME Own(k) PROVE Own(j)
  <2>1. ASSUME NEW d \in Clients
        PROVE  /\ j[d].id <= n.calls
               /\ j[d].ph = "sending" => j[d].id # 0 /\ served[j[d].id] = 0 /\ j[d].op \in Ops
               /\ j[d].got \in {0, j[d].id}
               /\ j[d].got # 0 => served[j[d].got] = 1
               /\ j[d].ph # "run" /\ j[d].op = "open" => j[d].holds = 0
               /\ j[d].ph = "sending" /\ j[d].op # "open" => j[d].holds # 0
               /\ j[d].holds # 0 => j[d].file # 0 /\ j[d].file <= n.calls /\ served[j[d].file] = 1
               /\ j[d].holds # 0 /\ j[d].ph # "run" => j[d].id # j[d].file
    <3>1. CASE d # c
      <4>1. j[d] = k[d]
        BY <3>1, <1>1, Zenon
      <4> QED  BY <1>4, <4>1 DEF Own
    <3>2. CASE d = c
      <4>1. /\ k[c].id <= n.calls /\ n.calls \in Nat
            /\ k[c].holds # 0 => k[c].file # 0 /\ k[c].file <= n.calls /\ served[k[c].file] = 1
        BY <1>1, <1>4, Zenon DEF Own
      <4> QED  BY <4>1, <3>2, <1>1
    <3> QED  BY <3>1, <3>2, Zenon
  <2>2. ASSUME NEW d \in Clients, NEW e \in Clients, d # e
        PROVE  /\ j[d].id = j[e].id => j[d].id = 0
               /\ j[d].holds # 0 => j[d].file # j[e].id
               /\ j[d].holds # 0 /\ j[e].holds # 0 => j[d].file # j[e].file
    <3>1. /\ k[d].id = k[e].id => k[d].id = 0
          /\ k[d].holds # 0 => k[d].file # k[e].id
          /\ k[d].holds # 0 => k[d].file # 0
          /\ k[d].holds # 0 /\ k[e].holds # 0 => k[d].file # k[e].file
      BY <1>4, <2>2, Zenon DEF Own
    <3>2. CASE d # c /\ e # c
      BY <3>1, <3>2, <1>1, Zenon
    <3>3. CASE d = c
      BY <2>2, <3>1, <3>3, <1>1, Zenon
    <3>4. CASE e = c
      BY <2>2, <3>1, <3>4, <1>1, Zenon
    <3> QED  BY <3>2, <3>3, <3>4, Zenon
  <2> QED  BY <2>1, <2>2, Zenon DEF Own
<1>5. ASSUME Kept(I, k) PROVE Kept(J, j)
  <2>1. ASSUME NEW t \in Slots, J.pend[t] # None
        PROVE  /\ J.pend[t].tag <= J.tag
               /\ J.pend[t].client # None => j[J.pend[t].client].ph = "waiting"
    <3>1. I.pend[t].tag <= I.tag /\ (I.pend[t].client # None => k[I.pend[t].client].ph = "waiting")
      BY <1>2, <1>5, <2>1, Zenon DEF Kept
    <3> QED  BY <3>1, <2>1, <1>1, <1>2
  <2>2. ASSUME NEW t \in Slots, NEW u \in Slots, J.pend[t] # None, J.pend[u] # None,
               J.pend[t].client = J.pend[u].client, J.pend[t].client # None
        PROVE  t = u
    <3>1. I.pend[t] # None /\ I.pend[u] # None /\ I.pend[t].client = I.pend[u].client
          /\ I.pend[t].client # None
      BY <1>2, <2>2, Zenon
    <3> QED  BY <3>1, <1>5, Zenon DEF Kept
  <2> QED  BY <2>1, <2>2, Zenon DEF Kept
<1>6. ASSUME NEW M, Asked(k, M) PROVE Asked(j, M)
  BY <1>1, <1>6 DEF Asked
<1>7. ASSUME NEW M, Replied(k, M) PROVE Replied(j, M)
  BY <1>1, <1>7 DEF Replied
<1>8. ASSUME NEW M \in SUBSET Messages, Linked(I, k, M) PROVE Linked(J, j, M)
  <2>1. ASSUME NEW x \in M PROVE x.tag <= J.tag
    <3>1. x.tag \in Nat /\ x.tag <= I.tag
      BY <1>8, Zenon DEF Linked, Messages
    <3> QED  BY <3>1, <1>1
  <2>2. ASSUME NEW x \in M, NEW t \in Slots, J.pend[t] # None, J.pend[t].tag = x.tag,
               J.pend[t].client # None
        PROVE  x.id = j[J.pend[t].client].id /\ x.op = j[J.pend[t].client].op
    <3>1. /\ I.pend[t] # None /\ I.pend[t].tag = x.tag /\ I.pend[t].client # None
          /\ J.pend[t].client = I.pend[t].client /\ j[J.pend[t].client] = k[I.pend[t].client]
      BY <1>2, <2>2, Zenon
    <3>2. x.id = k[I.pend[t].client].id /\ x.op = k[I.pend[t].client].op
      BY <3>1, <1>8, Zenon DEF Linked
    <3> QED  BY <3>1, <3>2, Zenon
  <2> QED  BY <2>1, <2>2, Zenon DEF Linked
<1>9. ASSUME NEW tab, NEW Q, NEW A, Files(tab, k, Q, A) PROVE Files(tab, j, Q, A)
  <2>1. Held(tab, k) /\ Opened(tab, A) /\ ToClose(tab, k, Q, A)
    BY <1>9, Zenon DEF Files
  <2>2. Held(tab, j)
    BY <2>1, <1>1, Zenon DEF Held, Closing
  <2>3. ToClose(tab, j, Q, A)
    <3>1. ASSUME NEW q \in Q, q.op = "close", NEW d \in Clients, j[d].holds = q.h
          PROVE  Closing(j, d)
      <4>1. q.h # 0 /\ (k[d].holds = q.h => Closing(k, d))
        BY <2>1, <3>1, Zenon DEF ToClose
      <4>2. d # c
        BY <3>1, <4>1, <1>1, Zenon
      <4> QED  BY <3>1, <4>1, <4>2, <1>1, Zenon DEF Closing
    <3> QED  BY <2>1, <3>1, Zenon DEF ToClose
  <2> QED  BY <2>1, <2>2, <2>3, Zenon DEF Files
<1>10. Sending(j) = Sending(k) \ {c}
  BY <1>1, Zenon DEF Sending
<1> QED  BY <1>4, <1>5, <1>6, <1>7, <1>8, <1>9, <1>10, Zenon DEF Undisturbed

\* Client c's call is forwarded as m and kept in slot s.
Joins(I, k, J, j, c, s, m) ==
  /\ I \in Imports /\ k \in [Clients -> Callers] /\ c \in Clients /\ s \in Slots
  /\ k[c].ph = "sending" /\ I.pend[s] = None
  /\ J.tag = I.tag + 1
  /\ J.pend = [I.pend EXCEPT ![s] = [tag |-> I.tag + 1, client |-> c, op |-> k[c].op]]
  /\ j = [k EXCEPT ![c].ph = "waiting"]
  /\ m \in Messages /\ m.tag = I.tag + 1 /\ m.op = k[c].op /\ m.h = k[c].holds /\ m.id = k[c].id

\* A tag no message has and no call had marks the call and its message.
LEMMA JoinsFacts ==
  ASSUME NEW I, NEW k, NEW J, NEW j, NEW c, NEW s, NEW m, Joins(I, k, J, j, c, s, m),
         NEW Q \in SUBSET Messages, NEW A \in SUBSET Messages, Fits(I, k, Q, A),
         n.calls \in Nat
  PROVE  /\ Fits(J, j, Q \cup {m}, A)
         /\ \A q \in Q : q.id # m.id
         /\ j \in [Clients -> Callers]
         /\ \A tab \in [Handles -> 0 .. MaxCalls] : Files(tab, k, Q, A) => Files(tab, j, Q \cup {m}, A)
         /\ Sending(j) = Sending(k) \ {c} /\ c \in Sending(k)
<1>1. /\ I \in Imports /\ k \in [Clients -> Callers] /\ c \in Clients /\ s \in Slots
      /\ k[c].ph = "sending" /\ I.pend[s] = None /\ J.tag = I.tag + 1
      /\ J.pend = [I.pend EXCEPT ![s] = [tag |-> I.tag + 1, client |-> c, op |-> k[c].op]]
      /\ j = [k EXCEPT ![c].ph = "waiting"]
      /\ m \in Messages /\ m.tag = I.tag + 1 /\ m.op = k[c].op /\ m.h = k[c].holds
      /\ m.id = k[c].id
  BY Zenon DEF Joins
<1>2. /\ Own(k) /\ Kept(I, k) /\ Asked(k, Q) /\ Replied(k, A)
      /\ Linked(I, k, Q) /\ Linked(I, k, A)
  BY Zenon DEF Fits
<1>3. /\ I.tag \in Nat /\ I.pend \in [Slots -> Calls \cup {None}] /\ c # None
      /\ J.tag \in Nat
  <2>1. c # None
    BY <1>1, RemoteAssumption, Zenon
  <2> QED  BY <2>1, <1>1 DEF Imports
<1>4. /\ j \in [Clients -> Callers]
      /\ \A d \in Clients : d # c => j[d] = k[d]
      /\ j[c].ph = "waiting" /\ j[c].id = k[c].id /\ j[c].op = k[c].op /\ j[c].got = k[c].got
      /\ j[c].holds = k[c].holds /\ j[c].file = k[c].file
  BY <1>1, Zenon DEF Callers
<1>5. /\ J.pend[s].tag = I.tag + 1 /\ J.pend[s].client = c
      /\ \A t \in Slots : t # s => J.pend[t] = I.pend[t]
  BY <1>1, <1>3
<1>6. ASSUME NEW t \in Slots, J.pend[t] # None, t # s
      PROVE  /\ J.pend[t] = I.pend[t] /\ I.pend[t].tag \in Nat /\ I.pend[t].tag <= I.tag
             /\ J.pend[t].client # c
             /\ J.pend[t].client # None =>
                  /\ J.pend[t].client \in Clients
                  /\ k[J.pend[t].client].ph = "waiting"
                  /\ j[J.pend[t].client] = k[J.pend[t].client]
  <2>1. J.pend[t] = I.pend[t] /\ I.pend[t] # None
    BY <1>5, <1>6, Zenon
  <2>2. I.pend[t] \in Calls
    BY <1>3, <2>1, Zenon
  <2>3. I.pend[t].client \in Clients \cup {None} /\ I.pend[t].tag \in Nat
    BY <2>2, Zenon DEF Calls
  <2>4. /\ I.pend[t].tag <= I.tag
        /\ I.pend[t].client # None => k[I.pend[t].client].ph = "waiting"
    BY <1>2, <2>1, Zenon DEF Kept
  <2>5. I.pend[t].client # c
    BY <2>4, <1>1, <1>3, Zenon
  <2> QED  BY <2>1, <2>3, <2>4, <2>5, <1>4, Zenon
<1>7. Own(j)
  <2>1. ASSUME NEW d \in Clients
        PROVE  /\ j[d].id <= n.calls
               /\ j[d].ph = "sending" => j[d].id # 0 /\ served[j[d].id] = 0 /\ j[d].op \in Ops
               /\ j[d].got \in {0, j[d].id}
               /\ j[d].got # 0 => served[j[d].got] = 1
               /\ j[d].ph # "run" /\ j[d].op = "open" => j[d].holds = 0
               /\ j[d].ph = "sending" /\ j[d].op # "open" => j[d].holds # 0
               /\ j[d].holds # 0 => j[d].file # 0 /\ j[d].file <= n.calls /\ served[j[d].file] = 1
               /\ j[d].holds # 0 /\ j[d].ph # "run" => j[d].id # j[d].file
    <3>1. CASE d # c
      <4>1. j[d] = k[d]
        BY <3>1, <1>4, Zenon
      <4> QED  BY <1>2, <4>1 DEF Own
    <3>2. CASE d = c
      <4>1. /\ k[c].id <= n.calls
            /\ k[c].got \in {0, k[c].id}
            /\ k[c].got # 0 => served[k[c].got] = 1
            /\ k[c].ph # "run" /\ k[c].op = "open" => k[c].holds = 0
            /\ k[c].holds # 0 => k[c].file # 0 /\ k[c].file <= n.calls /\ served[k[c].file] = 1
            /\ k[c].holds # 0 /\ k[c].ph # "run" => k[c].id # k[c].file
        BY <1>1, <1>2, Zenon DEF Own
      <4> QED  BY <4>1, <3>2, <1>1, <1>4, Zenon
    <3> QED  BY <3>1, <3>2, Zenon
  <2>2. ASSUME NEW d \in Clients, NEW e \in Clients, d # e
        PROVE  /\ j[d].id = j[e].id => j[d].id = 0
               /\ j[d].holds # 0 => j[d].file # j[e].id
               /\ j[d].holds # 0 /\ j[e].holds # 0 => j[d].file # j[e].file
    <3>1. /\ k[d].id = k[e].id => k[d].id = 0
          /\ k[d].holds # 0 => k[d].file # k[e].id
          /\ k[d].holds # 0 /\ k[e].holds # 0 => k[d].file # k[e].file
      BY <1>2, <2>2, Zenon DEF Own
    <3>2. /\ j[d].id = k[d].id /\ j[d].holds = k[d].holds /\ j[d].file = k[d].file
          /\ j[e].id = k[e].id /\ j[e].holds = k[e].holds /\ j[e].file = k[e].file
      BY <1>4, Zenon
    <3> QED  BY <3>1, <3>2, Zenon
  <2> QED  BY <2>1, <2>2, Zenon DEF Own
<1>8. Kept(J, j)
  <2>1. ASSUME NEW t \in Slots, J.pend[t] # None
        PROVE  /\ J.pend[t].tag <= J.tag
               /\ J.pend[t].client # None => j[J.pend[t].client].ph = "waiting"
    <3>1. CASE t = s
      BY <3>1, <1>1, <1>3, <1>4, <1>5, SMTT(30)
    <3>2. CASE t # s
      BY <2>1, <3>2, <1>1, <1>3, <1>6
    <3> QED  BY <3>1, <3>2, Zenon
  <2>2. ASSUME NEW t \in Slots, NEW u \in Slots, J.pend[t] # None, J.pend[u] # None,
               J.pend[t].client = J.pend[u].client, J.pend[t].client # None
        PROVE  t = u
    <3>1. CASE t = s \/ u = s
      BY <2>2, <3>1, <1>5, <1>6, Zenon
    <3>2. CASE t # s /\ u # s
      <4>1. I.pend[t] # None /\ I.pend[u] # None /\ I.pend[t].client = I.pend[u].client
            /\ I.pend[t].client # None
        BY <1>5, <2>2, <3>2, Zenon
      <4> QED  BY <4>1, <1>2, Zenon DEF Kept
    <3> QED  BY <3>1, <3>2, Zenon
  <2> QED  BY <2>1, <2>2, Zenon DEF Kept
<1>9. ASSUME NEW M \in SUBSET Messages, Linked(I, k, M)
      PROVE  Linked(J, j, M)
  <2>1. ASSUME NEW x \in M PROVE x.tag <= J.tag /\ x.tag # I.tag + 1
    <3>1. x.tag \in Nat /\ x.tag <= I.tag
      BY <1>9, Zenon DEF Linked, Messages
    <3> QED  BY <3>1, <1>1, <1>3
  <2>2. ASSUME NEW x \in M, NEW t \in Slots, J.pend[t] # None, J.pend[t].tag = x.tag,
               J.pend[t].client # None
        PROVE  x.id = j[J.pend[t].client].id /\ x.op = j[J.pend[t].client].op
    <3>1. t # s
      BY <2>1, <2>2, <1>5, Zenon
    <3>2. /\ I.pend[t] # None /\ I.pend[t].tag = x.tag /\ I.pend[t].client # None
          /\ J.pend[t].client = I.pend[t].client /\ j[J.pend[t].client] = k[I.pend[t].client]
      BY <1>6, <2>2, <3>1, Zenon
    <3>3. x.id = k[I.pend[t].client].id /\ x.op = k[I.pend[t].client].op
      BY <3>2, <1>9, Zenon DEF Linked
    <3> QED  BY <3>2, <3>3, Zenon
  <2> QED  BY <2>1, <2>2, Zenon DEF Linked
<1>10. Linked(J, j, Q \cup {m})
  <2>1. Linked(J, j, Q)
    BY <1>2, <1>9, Zenon
  <2>2. ASSUME NEW t \in Slots, J.pend[t] # None, J.pend[t].tag = m.tag, J.pend[t].client # None
        PROVE  m.id = j[J.pend[t].client].id /\ m.op = j[J.pend[t].client].op
    <3>1. t = s
      BY <2>2, <1>1, <1>3, <1>6
    <3> QED  BY <3>1, <1>1, <1>4, <1>5, Zenon
  <2>3. m.tag <= J.tag
    BY <1>1, <1>3
  <2> QED  BY <2>1, <2>2, <2>3, Zenon DEF Linked
<1>11. \A q \in Q : q.id # m.id
  BY <1>1, <1>2 DEF Asked
<1>12. Asked(j, Q \cup {m})
  <2>1. m.id <= n.calls /\ served[m.id] = 0
    BY <1>1, <1>2, Zenon DEF Own
  <2>2. \A d \in Clients : j[d].ph = "sending" => d # c /\ k[d].ph = "sending" /\ j[d].id = k[d].id
    BY <1>4, Zenon
  <2>3. \A d \in Clients : j[d].ph = "sending" => m.id # j[d].id
    BY <2>2, <1>1, <1>2 DEF Own
  <2>4. Asked(j, Q)
    BY <1>2, <2>2, SMTT(30) DEF Asked
  <2> QED  BY <2>1, <2>3, <2>4, Zenon DEF Asked
<1>13. Replied(j, A)
  BY <1>2, <1>4 DEF Replied
<1>14. Sending(j) = Sending(k) \ {c} /\ c \in Sending(k)
  BY <1>1, <1>4, Zenon DEF Sending
<1>15. ASSUME NEW tab \in [Handles -> 0 .. MaxCalls], Files(tab, k, Q, A)
       PROVE  Files(tab, j, Q \cup {m}, A)
  <2>1. Held(tab, k) /\ Opened(tab, A) /\ ToClose(tab, k, Q, A)
    BY <1>15, Zenon DEF Files
  <2>2. Held(tab, j)
    BY <2>1, <1>1, <1>4 DEF Held, Closing
  <2>3. ASSUME NEW d \in Clients, NEW q \in Q, q.op = "close", j[d].holds = q.h
        PROVE  Closing(j, d)
    <3>1. k[d].holds = q.h => Closing(k, d)
      BY <2>1, <2>3, Zenon DEF ToClose
    <3>2. Closing(k, d)
      BY <3>1, <2>3, <1>4, Zenon
    <3>3. d # c
      BY <3>2, <1>1, Zenon DEF Closing
    <3> QED  BY <3>2, <3>3, <1>4, Zenon DEF Closing
  <2>4. ASSUME m.op = "close"
        PROVE  /\ m.h # 0 /\ tab[m.h] # 0
               /\ \A a \in A : a.op = "open" /\ a.result # -1 => a.result # m.h
               /\ \A d \in Clients : j[d].holds = m.h => Closing(j, d)
               /\ \A o \in Q : ~(o.op = "close" /\ o.h = m.h)
    <3>1. k[c].op # "open" /\ k[c].holds # 0 /\ ~Closing(k, c)
      BY <2>4, <1>1, <1>2, Zenon DEF Own, Closing
    <3>2. tab[k[c].holds] = k[c].file /\ k[c].file # 0
      BY <3>1, <2>1, <1>1, <1>2, Zenon DEF Held, Own
    <3>3. ASSUME NEW a \in A, a.op = "open", a.result # -1 PROVE a.result # m.h
      <4>1. tab[a.result] = a.id
        BY <2>1, <3>3, Zenon DEF Opened
      <4>2. a.id # k[c].file
        BY <3>1, <1>1, <1>2, Zenon DEF Replied
      <4> QED  BY <4>1, <4>2, <3>2, <1>1, Zenon
    <3>4. ASSUME NEW d \in Clients, j[d].holds = m.h PROVE Closing(j, d)
      <4>1. CASE d = c
        BY <4>1, <2>4, <1>1, <1>4, Zenon DEF Closing
      <4>2. CASE d # c
        <5>1. k[d].holds = k[c].holds /\ k[d].holds # 0 /\ j[d] = k[d]
          BY <3>1, <3>4, <4>2, <1>1, <1>4, Zenon
        <5>2. k[d].file # k[c].file
          BY <5>1, <3>1, <4>2, <1>1, <1>2, Zenon DEF Own
        <5>3. Closing(k, d)
          <6>1. ASSUME ~Closing(k, d) PROVE FALSE
            <7>1. tab[k[d].holds] = k[d].file
              BY <6>1, <5>1, <2>1, Zenon DEF Held
            <7> QED  BY <7>1, <5>1, <5>2, <3>2, Zenon
          <6> QED  BY <6>1, Zenon
        <5> QED  BY <5>1, <5>3, Zenon DEF Closing
      <4> QED  BY <4>1, <4>2, Zenon
    <3>5. ASSUME NEW o \in Q, o.op = "close", o.h = m.h PROVE FALSE
      <4>1. k[c].holds = o.h
        BY <3>5, <1>1, Zenon
      <4>2. Closing(k, c)
        BY <4>1, <3>5, <2>1, <1>1, Zenon DEF ToClose
      <4> QED  BY <4>2, <3>1, Zenon
    <3> QED  BY <3>1, <3>2, <3>3, <3>4, <3>5, <1>1, Zenon
  <2>5. ToClose(tab, j, Q \cup {m}, A)
    <3>1. ASSUME NEW q \in Q \cup {m}, q.op = "close"
          PROVE  /\ q.h # 0 /\ tab[q.h] # 0
                 /\ \A a \in A : a.op = "open" /\ a.result # -1 => a.result # q.h
                 /\ \A d \in Clients : j[d].holds = q.h => Closing(j, d)
                 /\ \A o \in Q \cup {m} : o.op = "close" /\ o.h = q.h => o.id = q.id
      <4>1. CASE q \in Q
        <5>1. /\ q.h # 0 /\ tab[q.h] # 0
              /\ \A a \in A : a.op = "open" /\ a.result # -1 => a.result # q.h
              /\ \A o \in Q : o.op = "close" /\ o.h = q.h => o.id = q.id
          BY <3>1, <4>1, <2>1, Zenon DEF ToClose
        <5>2. ~(m.op = "close" /\ m.h = q.h)
          BY <2>4, <3>1, <4>1, Zenon
        <5> QED  BY <5>1, <5>2, <2>3, <3>1, <4>1, Zenon
      <4>2. CASE q = m
        BY <2>4, <3>1, <4>2, Zenon
      <4> QED  BY <3>1, <4>1, <4>2, Zenon
    <3> QED  BY <3>1, Zenon DEF ToClose
  <2> QED  BY <2>1, <2>2, <2>5, Zenon DEF Files
<1> QED
  <2>1. Linked(J, j, A)
    BY <1>2, <1>9, Zenon
  <2> QED  BY <2>1, <1>4, <1>7, <1>8, <1>10, <1>11, <1>12, <1>13, <1>14, <1>15, Zenon DEF Fits

\* While import lives, all of it fits.
LEMMA AliveFits ==
  ASSUME RInv, imp.alive
  PROVE  /\ Fits(imp, cl, Msgs(Asking), Msgs(Answering))
         /\ net.up => Files(exp.tab, cl, Msgs(Asking), Msgs(Answering))
         /\ Once(Asking) /\ Once(Answering)
  BY Zenon DEF RInv, Correspondence, Fits, Files

\* What is to be shown of a step after which import lives.
LEMMA AliveAfter ==
  ASSUME Types', Books', served' = served, n'.calls = n.calls,
         NEW Q, NEW A, Q = Msgs(Asking)', A = Msgs(Answering)',
         Once(Asking)', Once(Answering)',
         Fits(imp', cl', Q, A), net'.up => Files(exp'.tab, cl', Q, A)
  PROVE  RInv'
<1>1. /\ Own(cl') /\ Kept(imp', cl') /\ Asked(cl', Q) /\ Replied(cl', A)
      /\ Linked(imp', cl', Q) /\ Linked(imp', cl', A)
  BY Zenon DEF Fits
<1>2. Own(cl)'
  BY <1>1, Zenon DEF Own
<1>3. Kept(imp, cl)'
  BY <1>1, Zenon DEF Kept
<1>4. Asked(cl, Msgs(Asking))' /\ Replied(cl, Msgs(Answering))'
  BY <1>1, Zenon DEF Asked, Replied
<1>5. Linked(imp, cl, Msgs(Asking))' /\ Linked(imp, cl, Msgs(Answering))'
  BY <1>1, Zenon DEF Linked
<1>6. net'.up => /\ Held(exp.tab, cl)' /\ Opened(exp.tab, Msgs(Answering))'
                 /\ ToClose(exp.tab, cl, Msgs(Asking), Msgs(Answering))'
  BY Zenon DEF Files, Held, Opened, ToClose, Closing
<1> QED  BY <1>2, <1>3, <1>4, <1>5, <1>6, Zenon DEF RInv, Correspondence

\* A client dies and its calls in flight belong to nobody (Dies).
LEMMA DiesStep == ASSUME Laws, RInv, NEW c \in Clients, Dies(c) PROVE RInv'
<1> DEFINE p == [s \in Slots |-> IF imp.pend[s] # None /\ imp.pend[s].client = c
                                 THEN [imp.pend[s] EXCEPT !.client = None] ELSE imp.pend[s]]
           a == [ph |-> "run", op |-> "none", id |-> 0, got |-> 0, holds |-> 0, file |-> 0]
<1>1. /\ n' = [n EXCEPT !.faults = @ + 1]
      /\ cl' = [cl EXCEPT ![c] = a]
      /\ imp' = [imp EXCEPT !.pend = p]
      /\ UNCHANGED <<exp, net, served>>
  BY Zenon DEF Dies
<1>2. Types
  BY Zenon DEF RInv
<1>3. imp.pend \in [Slots -> Calls \cup {None}] /\ cl \in [Clients -> Callers] /\ imp.tag \in Nat
      /\ n.calls \in Nat
  BY <1>2, PartsOfState, SMTT(30) DEF Types
<1>4. ASSUME NEW s \in Slots
      PROVE  /\ p[s] \in Calls \cup {None}
             /\ p[s] # None =>
                  /\ imp.pend[s] # None /\ p[s].tag = imp.pend[s].tag
                  /\ p[s].client # c
                  /\ p[s].client # None =>
                       p[s].client = imp.pend[s].client /\ p[s].client \in Clients
             /\ imp.pend[s] = None => p[s] = None
  <2>1. imp.pend[s] \in Calls \/ imp.pend[s] = None
    BY <1>3, Zenon
  <2>2. c # None
    BY RemoteAssumption, Zenon
  <2>3. CASE imp.pend[s] # None /\ imp.pend[s].client = c
    <3>1. p[s] = [imp.pend[s] EXCEPT !.client = None]
      BY <2>3, Zenon
    <3> HIDE DEF p
    <3>2. p[s] \in Calls /\ p[s].client = None /\ p[s].tag = imp.pend[s].tag
      BY <2>1, <2>3, <3>1, Zenon DEF Calls
    <3> QED  BY <2>2, <2>3, <3>2, Zenon
  <2>4. CASE ~(imp.pend[s] # None /\ imp.pend[s].client = c)
    <3>1. p[s] = imp.pend[s]
      BY <2>4, Zenon
    <3> HIDE DEF p
    <3>2. p[s] # None => p[s].client \in Clients \cup {None}
      BY <2>1, <3>1, Zenon DEF Calls
    <3> QED  BY <2>1, <2>4, <3>1, <3>2, Zenon
  <2> QED  BY <2>3, <2>4, Zenon
<1>5. p \in [Slots -> Calls \cup {None}]
  BY <1>4, Zenon
<1> HIDE DEF p
<1>6. /\ imp' \in Imports /\ imp'.pend = p /\ imp'.tag = imp.tag /\ imp'.alive = imp.alive
      /\ imp'.in = imp.in /\ imp'.outq = imp.outq /\ imp'.busy = imp.busy
  BY <1>1, <1>2, <1>5, Zenon DEF Types, Imports
<1>7. a \in Callers
  BY RemoteAssumption DEF Callers
<1>8. /\ cl' \in [Clients -> Callers] /\ cl'[c] = a /\ \A d \in Clients : d # c => cl'[d] = cl[d]
  BY <1>1, <1>3, <1>7, Zenon
<1>9. n' \in [calls : 0 .. MaxCalls, faults : Nat] /\ n'.calls = n.calls
  BY <1>1, <1>2 DEF Types
<1>10. Types'
  BY <1>1, <1>2, <1>6, <1>8, <1>9, Zenon DEF Types
<1>11. Leaves(imp, cl, imp', cl', c)
  <2>1. cl'[c].ph = "run" /\ cl'[c].got = 0 /\ cl'[c].id = 0 /\ cl'[c].holds = 0
    BY <1>8
  <2> QED  BY <2>1, <1>3, <1>4, <1>6, <1>8, SMTT(30) DEF Leaves
<1>12. /\ Own(cl) => Own(cl')
       /\ Kept(imp, cl) => Kept(imp', cl')
       /\ \A M : Asked(cl, M) => Asked(cl', M)
       /\ \A M : Replied(cl, M) => Replied(cl', M)
       /\ \A M \in SUBSET Messages : Linked(imp, cl, M) => Linked(imp', cl', M)
       /\ \A tab, Q, A : Files(tab, cl, Q, A) => Files(tab, cl', Q, A)
       /\ Sending(cl') = Sending(cl) \ {c}
  <2>1. Undisturbed(imp, cl, imp', cl', c)
    BY <1>3, <1>11, LeavesFacts, Zenon
  <2> QED  BY <2>1, Zenon DEF Undisturbed
<1>13. Asking' = Asking /\ Answering' = Answering
  BY <1>1, <1>6, Zenon DEF Asking, Answering
<1>14. Msgs(Asking)' = Msgs(Asking) /\ Msgs(Answering)' = Msgs(Answering)
  BY <1>13, Zenon DEF Msgs, Heads
<1>15. Msgs(Asking) \in SUBSET Messages /\ Msgs(Answering) \in SUBSET Messages
  BY <1>2, PartsOfState, Zenon
<1>16. Books'
  <2>1. Cardinality(Sending(cl')) <= Cardinality(Sending(cl)) /\ Cardinality(Sending(cl')) \in Nat
    <3>1. CASE c \in Sending(cl)
      BY <3>1, <1>12, SendingFacts
    <3>2. CASE c \notin Sending(cl)
      <4>1. Sending(cl') = Sending(cl)
        BY <3>2, <1>12, Zenon
      <4> QED  BY <4>1, SendingFacts
    <3> QED  BY <3>1, <3>2, Zenon
  <2>2. Cardinality(Sending(cl)) \in Nat
    BY SendingFacts, Zenon
  <2>3. imp.tag + Cardinality(Sending(cl)) <= n.calls
    BY Zenon DEF RInv, Books
  <2>4. (imp.tag + Cardinality(Sending(cl)) <= n.calls)'
    BY <2>1, <2>2, <2>3, <1>3, <1>6, <1>9 DEF Sending
  <2>5. (~imp.alive => imp.pend = [s \in Slots |-> None])'
    <3>1. ~imp.alive => imp.pend = [s \in Slots |-> None]
      BY Zenon DEF RInv, Books
    <3>2. ~imp.alive => \A s \in Slots : p[s] = None
      BY <3>1, <1>4, Zenon
    <3> QED  BY <3>2, <1>5, <1>6, Zenon
  <2>6. (~imp.alive => \A d \in Clients : cl[d].holds = 0)'
    BY <1>6, <1>8 DEF RInv, Books
  <2> QED  BY <2>4, <2>5, <2>6, <1>1, <1>6, <1>9, Zenon DEF RInv, Books
<1>17. Correspondence'
  <2>1. Own(cl') /\ Kept(imp', cl') /\ Asked(cl', Msgs(Asking)) /\ Replied(cl', Msgs(Answering))
    BY <1>12, Zenon DEF RInv, Correspondence
  <2>2. imp.alive => Linked(imp', cl', Msgs(Asking)) /\ Linked(imp', cl', Msgs(Answering))
    BY <1>12, <1>15, Zenon DEF RInv, Correspondence
  <2>3. imp.alive /\ net.up => Files(exp.tab, cl', Msgs(Asking), Msgs(Answering))
    <3>1. imp.alive /\ net.up => Files(exp.tab, cl, Msgs(Asking), Msgs(Answering))
      BY Zenon DEF RInv, Correspondence, Files
    <3> QED  BY <3>1, <1>12, Zenon
  <2>4. Once(Asking)' /\ Once(Answering)'
    BY <1>13, Zenon DEF RInv, Correspondence, Once, Heads
  <2>5. Own(cl)' /\ Kept(imp, cl)' /\ Asked(cl, Msgs(Asking))' /\ Replied(cl, Msgs(Answering))'
    BY <2>1, <1>1, <1>9, <1>14 DEF Own, Kept, Asked, Replied
  <2>6. (imp.alive => Linked(imp, cl, Msgs(Asking)) /\ Linked(imp, cl, Msgs(Answering)))'
    BY <2>2, <1>6, <1>14, Zenon DEF Linked
  <2>7. (imp.alive /\ net.up => Files(exp.tab, cl, Msgs(Asking), Msgs(Answering)))'
    BY <2>3, <1>1, <1>6, <1>14 DEF Files, Held, Opened, ToClose, Closing
  <2> QED  BY <2>4, <2>5, <2>6, <2>7, Zenon DEF Correspondence, Files
<1> QED  BY <1>10, <1>16, <1>17, Zenon DEF RInv

\* A tag is a new one: there are fewer calls than tags.
LEMMA FreshTag ==
  ASSUME Laws, RInv, NEW c \in Clients, cl[c].ph = "sending"
  PROVE  /\ (imp.tag + 1) % TAGS = imp.tag + 1
         /\ (imp.tag + 1) + Cardinality(Sending(cl) \ {c}) <= n.calls
         /\ imp.tag + Cardinality(Sending(cl) \ {c}) <= n.calls
<1>1. c \in Sending(cl)
  BY Zenon DEF Sending
<1>2. /\ Cardinality(Sending(cl) \ {c}) = Cardinality(Sending(cl)) - 1
      /\ Cardinality(Sending(cl)) >= 1 /\ Cardinality(Sending(cl)) \in Nat
  BY <1>1, SendingFacts, Zenon
<1>3. imp.tag + Cardinality(Sending(cl)) <= n.calls
  BY Zenon DEF RInv, Books
<1>4. imp.tag \in Nat /\ n.calls \in 0 .. MaxCalls /\ MaxCalls \in Nat /\ TAGS \in Nat
      /\ MaxCalls < TAGS
  BY PartsOfState, RemoteAssumption, Zenon DEF RInv
<1> DEFINE x == Cardinality(Sending(cl))
           y == Cardinality(Sending(cl) \ {c})
<1>5. y = x - 1 /\ x >= 1 /\ x \in Nat /\ imp.tag + x <= n.calls
  BY <1>2, <1>3, Zenon
<1> HIDE DEF x, y
<1>6. imp.tag + 1 + y <= n.calls /\ imp.tag + y <= n.calls /\ imp.tag + 1 < TAGS
  BY <1>4, <1>5
<1>7. (imp.tag + 1) % TAGS = imp.tag + 1
  <2> DEFINE z == imp.tag + 1
  <2>1. z \in Nat /\ z < TAGS /\ TAGS \in Nat /\ TAGS > 0
    BY <1>4, <1>6
  <2> HIDE DEF z
  <2>2. z % TAGS = z
    BY <2>1
  <2> QED  BY <2>2, Zenon DEF z
<1> QED  BY <1>6, <1>7, Zenon DEF y

\* import has no room for a call, and the client is told so.
Refuses(c, t) ==
  /\ imp.alive /\ cl[c].ph = "sending"
  /\ cl' = [cl EXCEPT ![c] = Answered(@, -1, 0)]
  /\ t \in {imp.tag, imp.tag + 1} /\ imp' = [imp EXCEPT !.tag = t]
  /\ UNCHANGED <<exp, net, served, n>>

\* Nothing else comes of it.
LEMMA RefusedStep == ASSUME Laws, RInv, NEW c \in Clients, NEW t, Refuses(c, t) PROVE RInv'
<1>0. /\ imp.alive /\ cl[c].ph = "sending"
      /\ cl' = [cl EXCEPT ![c] = Answered(@, -1, 0)]
      /\ t \in {imp.tag, imp.tag + 1} /\ imp' = [imp EXCEPT !.tag = t]
      /\ UNCHANGED <<exp, net, served, n>>
  BY Zenon DEF Refuses
<1>1. Types
  BY Zenon DEF RInv
<1>2. /\ imp.pend \in [Slots -> Calls \cup {None}] /\ cl \in [Clients -> Callers]
      /\ imp.tag \in Nat /\ n.calls \in Nat /\ t \in Nat /\ imp.tag <= t
  <2>1. /\ imp.pend \in [Slots -> Calls \cup {None}] /\ cl \in [Clients -> Callers]
        /\ imp.tag \in Nat /\ n.calls \in Nat
    BY <1>1, PartsOfState, SMTT(30) DEF Types
  <2> QED  BY <1>0, <2>1
<1>3. /\ imp' \in Imports /\ imp'.pend = imp.pend /\ imp'.tag = t /\ imp'.alive = imp.alive
      /\ imp'.in = imp.in /\ imp'.outq = imp.outq /\ imp'.busy = imp.busy
  BY <1>0, <1>1, <1>2, Zenon DEF Types, Imports
<1> DEFINE a == Answered(cl[c], -1, 0)
<1>4. /\ a \in Callers
      /\ a.ph = "run" /\ a.got = 0 /\ a.id = cl[c].id /\ a.op = cl[c].op
      /\ a.holds = IF cl[c].op = "close" THEN 0 ELSE cl[c].holds
      /\ a.file = IF cl[c].op = "open" THEN cl[c].id ELSE cl[c].file
  <2>1. cl[c] \in Callers /\ -1 \in -1 .. NFD /\ 0 \in 0 .. MaxCalls /\ -1 = -1
    BY <1>2, RemoteAssumption
  <2> HIDE DEF a
  <2>2. a = Answered(cl[c], -1, 0)
    BY Zenon DEF a
  <2>3. /\ a \in Callers
        /\ a.ph = "run" /\ a.got = 0 /\ a.id = cl[c].id /\ a.op = cl[c].op
        /\ a.holds = IF cl[c].op = "open" /\ -1 # -1 THEN -1
                     ELSE IF cl[c].op = "close" THEN 0 ELSE cl[c].holds
        /\ a.file = IF cl[c].op = "open" THEN cl[c].id ELSE cl[c].file
    BY <2>1, <2>2, AnsweredFacts
  <2> QED  BY <2>3, Zenon
<1>5. cl' \in [Clients -> Callers] /\ cl'[c] = a /\ \A d \in Clients : d # c => cl'[d] = cl[d]
  BY <1>0, <1>2, <1>4, Zenon
<1> HIDE DEF a
<1>6. Types'
  BY <1>0, <1>1, <1>3, <1>5, Zenon DEF Types
<1>7. Leaves(imp, cl, imp', cl', c)
  <2>1. Own(cl) /\ Kept(imp, cl)
    BY Zenon DEF RInv, Correspondence
  <2>2. cl[c].op = "open" => cl[c].holds = 0
    BY <1>0, <2>1, Zenon DEF Own
  <2>3. a.holds # 0 => a.holds = cl[c].holds /\ a.file = cl[c].file /\ ~Closing(cl, c)
    BY <1>0, <2>2, <1>4, Zenon DEF Closing
  <2>4. ASSUME NEW s \in Slots, imp.pend[s] # None
        PROVE  /\ imp.pend[s].client # c
               /\ imp.pend[s].client # None => imp.pend[s].client \in Clients
    <3>1. imp.pend[s] \in Calls
      BY <1>2, <2>4, Zenon
    <3>2. imp.pend[s].client \in Clients \cup {None}
      BY <3>1, Zenon DEF Calls
    <3>3. imp.pend[s].client # None => cl[imp.pend[s].client].ph = "waiting"
      BY <2>1, <2>4, Zenon DEF Kept
    <3>4. c # None
      BY RemoteAssumption, Zenon
    <3> QED  BY <1>0, <3>2, <3>3, <3>4, Zenon
  <2> QED  BY <2>3, <2>4, <1>2, <1>3, <1>4, <1>5, Zenon DEF Leaves
<1>8. /\ Own(cl) => Own(cl')
      /\ Kept(imp, cl) => Kept(imp', cl')
      /\ \A M : Asked(cl, M) => Asked(cl', M)
      /\ \A M : Replied(cl, M) => Replied(cl', M)
      /\ \A M \in SUBSET Messages : Linked(imp, cl, M) => Linked(imp', cl', M)
      /\ \A tab, Q, A : Files(tab, cl, Q, A) => Files(tab, cl', Q, A)
      /\ Sending(cl') = Sending(cl) \ {c}
  <2>1. Undisturbed(imp, cl, imp', cl', c)
    BY <1>2, <1>7, LeavesFacts, Zenon
  <2> QED  BY <2>1, Zenon DEF Undisturbed
<1> DEFINE Q == Msgs(Asking)
           A == Msgs(Answering)
<1>9. Asking' = Asking /\ Answering' = Answering
  BY <1>0, <1>3, Zenon DEF Asking, Answering
<1>10. Q = Msgs(Asking)' /\ A = Msgs(Answering)'
  BY <1>9, Zenon DEF Msgs, Heads
<1>11. Q \in SUBSET Messages /\ A \in SUBSET Messages
  BY <1>1, PartsOfState, Zenon
<1>12. Once(Asking)' /\ Once(Answering)'
  BY <1>9, Zenon DEF RInv, Correspondence, Once, Heads
<1>13. Fits(imp, cl, Q, A) /\ (net.up => Files(exp.tab, cl, Q, A))
  BY <1>0, AliveFits, Zenon
<1> HIDE DEF Q, A
<1>14. Fits(imp', cl', Q, A)
  BY <1>8, <1>11, <1>13, Zenon DEF Fits
<1>15. net'.up => Files(exp'.tab, cl', Q, A)
  BY <1>0, <1>8, <1>13, Zenon
<1>16. Books'
  <2>1. /\ (imp.tag + 1) + Cardinality(Sending(cl) \ {c}) <= n.calls
        /\ imp.tag + Cardinality(Sending(cl) \ {c}) <= n.calls
    BY <1>0, FreshTag, Zenon
  <2>2. t + Cardinality(Sending(cl')) <= n.calls
    BY <1>0, <2>1, <1>8, Zenon
  <2>3. (imp.tag + Cardinality(Sending(cl)) <= n.calls)'
    BY <1>0, <2>2, <1>3, Zenon DEF Sending
  <2> QED  BY <1>0, <2>3, <1>3, Zenon DEF RInv, Books
<1> QED  BY <1>0, <1>6, <1>10, <1>12, <1>14, <1>15, <1>16, AliveAfter, Zenon

\* queue: the message is put behind the others, or there is no room.
LEMMA QueueFacts ==
  ASSUME Types, NEW m \in Messages
  PROVE  \/ queue(imp, m) = [ok |-> FALSE, I |-> imp]
         \/ /\ queue(imp, m).ok = TRUE
            /\ queue(imp, m).I \in Imports
            /\ queue(imp, m).I.busy <= Len(queue(imp, m).I.outq)
            /\ queue(imp, m).I.outq = imp.outq \o fs_encode(m)
            /\ queue(imp, m).I.alive = imp.alive /\ queue(imp, m).I.in = imp.in
            /\ queue(imp, m).I.pend = imp.pend /\ queue(imp, m).I.tag = imp.tag
<1> DEFINE q == imp.outq \o fs_encode(m)
           I == [imp EXCEPT !.outq = q]
           K == kick_write(I)
<1>1. CASE Len(imp.outq) + fs_size(m) > OUTQ
  BY <1>1, Zenon DEF queue
<1>2. CASE ~(Len(imp.outq) + fs_size(m) > OUTQ)
  <2>1. queue(imp, m) = [ok |-> TRUE, I |-> K]
    BY <1>2, Zenon DEF queue
  <2>2. /\ imp.outq \in Seq(Units) /\ fs_encode(m) \in Seq(Units)
        /\ Len(imp.outq) \in Nat /\ Len(fs_encode(m)) \in {1, 2} /\ imp.busy \in Nat
        /\ imp.busy <= Len(imp.outq)
    BY PartsOfState, Encoded, Elements, Zenon DEF Types
  <2>3. q \in Seq(Units) /\ Len(q) = Len(imp.outq) + Len(fs_encode(m))
    BY <2>2, Joined, Zenon
  <2>4. imp.busy <= Len(q)
    BY <2>2, <2>3
  <2> HIDE DEF q
  <2>5. /\ I \in Imports /\ I.busy = imp.busy /\ I.outq = q /\ I.alive = imp.alive
        /\ I.in = imp.in /\ I.pend = imp.pend /\ I.tag = imp.tag
    BY <2>3, Zenon DEF Types, Imports
  <2> HIDE DEF I
  <2>6. /\ K \in Imports /\ K.busy <= Len(K.outq)
        /\ K.alive = I.alive /\ K.outq = I.outq /\ K.in = I.in
        /\ K.pend = I.pend /\ K.tag = I.tag
    BY <2>4, <2>5, KickFacts, Zenon
  <2> HIDE DEF K
  <2>7. queue(imp, m).ok = TRUE /\ queue(imp, m).I = K
    BY <2>1
  <2> QED  BY <2>5, <2>6, <2>7, Zenon DEF q
<1> QED  BY <1>1, <1>2, Zenon

\* A client's call is forwarded and kept, or refused (from_client).
LEMMA FromClientStep == ASSUME Laws, RInv, NEW c \in Clients, from_client(c) PROVE RInv'
<1> DEFINE t == imp.tag + 1
           m == [kind |-> "request", tag |-> t, op |-> cl[c].op,
                 h |-> cl[c].holds, result |-> -1, id |-> cl[c].id]
           q == queue(imp, m)
           s == FirstFree(imp)
           e == [tag |-> t, client |-> c, op |-> cl[c].op]
<1>1. imp.alive /\ cl[c].ph = "sending" /\ UNCHANGED <<exp, net, served, n>>
  BY Zenon DEF from_client
<1>2. Types
  BY Zenon DEF RInv
<1>3. /\ imp.pend \in [Slots -> Calls \cup {None}] /\ cl \in [Clients -> Callers]
      /\ imp.tag \in Nat /\ n.calls \in Nat /\ cl[c] \in Callers /\ imp \in Imports
  BY <1>2, PartsOfState, SMTT(30) DEF Types
<1>4. (imp.tag + 1) % TAGS = t
  BY <1>1, FreshTag, Zenon
<1>5. CASE FreeSlots(imp) = {}
  <2>1. cl' = [cl EXCEPT ![c] = Answered(@, -1, 0)] /\ imp' = imp
    BY <1>5, Zenon DEF from_client
  <2>2. imp' = [imp EXCEPT !.tag = imp.tag]
    BY <2>1, <1>3, Zenon DEF Imports
  <2>3. Refuses(c, imp.tag)
    BY <2>1, <2>2, <1>1, Zenon DEF Refuses
  <2> QED  BY <2>3, RefusedStep, Zenon
<1>6. CASE FreeSlots(imp) # {}
  <2>1. Forward(c, q, s, t)
    BY <1>4, <1>6, Zenon DEF from_client
  <2>2. m \in Messages /\ m.tag = t /\ m.op = cl[c].op /\ m.h = cl[c].holds /\ m.id = cl[c].id
    <3>1. cl[c].id # 0 /\ cl[c].op \in Ops
      BY <1>1, Zenon DEF RInv, Correspondence, Own
    <3>2. cl[c].id \in 1 .. MaxCalls /\ cl[c].holds \in 0 .. NFD
      BY <3>1, <1>3, RemoteAssumption DEF Callers
    <3>3. t \in Nat /\ -1 \in -1 .. NFD
      BY <1>3, RemoteAssumption
    <3> QED  BY <3>1, <3>2, <3>3, Zenon DEF Messages
  <2>3. s \in Slots /\ imp.pend[s] = None
    <3>1. FreeSlots(imp) \in SUBSET Nat
      BY RemoteAssumption DEF FreeSlots, Slots
    <3>2. \E x \in FreeSlots(imp) : \A o \in FreeSlots(imp) : x <= o
      BY <3>1, <1>6, Smallest, Zenon
    <3>3. s \in FreeSlots(imp)
      BY <3>2, Zenon DEF FirstFree
    <3> QED  BY <3>3, Zenon DEF FreeSlots
  <2> HIDE DEF m, s
  <2>4. \/ q = [ok |-> FALSE, I |-> imp]
        \/ /\ q.ok = TRUE
           /\ q.I \in Imports /\ q.I.busy <= Len(q.I.outq)
           /\ q.I.outq = imp.outq \o fs_encode(m)
           /\ q.I.alive = imp.alive /\ q.I.in = imp.in
           /\ q.I.pend = imp.pend /\ q.I.tag = imp.tag
    BY <1>2, <2>2, QueueFacts, Zenon
  <2> HIDE DEF q
  <2>5. CASE q = [ok |-> FALSE, I |-> imp]
    <3>1. q.ok = FALSE /\ q.I = imp
      BY <2>5, Zenon
    <3>2. cl' = [cl EXCEPT ![c] = Answered(@, -1, 0)] /\ imp' = [imp EXCEPT !.tag = t]
      BY <2>1, <3>1, Zenon DEF Forward
    <3>3. Refuses(c, t)
      BY <3>2, <1>1, Zenon DEF Refuses
    <3> QED  BY <3>3, RefusedStep, Zenon
  <2>6. CASE /\ q.ok = TRUE
             /\ q.I \in Imports /\ q.I.busy <= Len(q.I.outq)
             /\ q.I.outq = imp.outq \o fs_encode(m)
             /\ q.I.alive = imp.alive /\ q.I.in = imp.in
             /\ q.I.pend = imp.pend /\ q.I.tag = imp.tag
    <3>1. imp' = [q.I EXCEPT !.tag = t, !.pend[s] = e] /\ cl' = [cl EXCEPT ![c].ph = "waiting"]
      BY <2>1, <2>6, Zenon DEF Forward
    <3>2. e \in Calls /\ t \in Nat
      <4>1. cl[c].op \in Ops
        BY <1>1, Zenon DEF RInv, Correspondence, Own
      <4> QED  BY <4>1, <1>3 DEF Calls
    <3>3. /\ imp' \in Imports /\ imp'.busy <= Len(imp'.outq)
          /\ imp'.outq = imp.outq \o fs_encode(m) /\ imp'.alive = imp.alive
          /\ imp'.in = imp.in /\ imp'.tag = t /\ imp'.pend = [imp.pend EXCEPT ![s] = e]
      <4> HIDE DEF e, t
      <4>1. [q.I.pend EXCEPT ![s] = e] \in [Slots -> Calls \cup {None}]
        BY <2>6, <3>2, <1>3, Zenon
      <4>2. imp' = [q.I EXCEPT !.tag = t, !.pend = [q.I.pend EXCEPT ![s] = e]]
        BY <3>1, Zenon
      <4> DEFINE P == [q.I.pend EXCEPT ![s] = e]
      <4> HIDE DEF P
      <4>3. /\ imp' \in Imports /\ imp'.busy = q.I.busy /\ imp'.outq = q.I.outq
            /\ imp'.alive = q.I.alive /\ imp'.in = q.I.in /\ imp'.tag = t /\ imp'.pend = P
        <5>1. q.I \in Imports /\ P \in [Slots -> Calls \cup {None}]
              /\ imp' = [q.I EXCEPT !.tag = t, !.pend = P]
          BY <4>1, <4>2, <2>6, Zenon DEF P
        <5> QED  BY <5>1, <3>2, Zenon DEF Imports
      <4> QED  BY <4>3, <2>6, Zenon DEF P
    <3>4. Joins(imp, cl, imp', cl', c, s, m)
      BY <3>1, <3>3, <2>2, <2>3, <1>1, <1>3, Zenon DEF Joins
    <3> DEFINE Q == Msgs(Asking)
               A == Msgs(Answering)
    <3>5. Fits(imp, cl, Q, A) /\ (net.up => Files(exp.tab, cl, Q, A)) /\ Once(Asking) /\ Once(Answering)
      BY <1>1, AliveFits, Zenon
    <3>6. Q \in SUBSET Messages /\ A \in SUBSET Messages /\ Asking \in Seq(Units)
          /\ exp.tab \in [Handles -> 0 .. MaxCalls]
      BY <1>2, PartsOfState, Zenon
    <3>7. Asking' = Asking \o fs_encode(m) /\ Answering' = Answering
      <4>1. /\ exp.in \o net.there \in Seq(Units) /\ imp.outq \in Seq(Units)
            /\ fs_encode(m) \in Seq(Units)
        BY <1>2, <2>2, PartsOfState, Encoded, Joined, Zenon
      <4>2. ((exp.in \o net.there) \o imp.outq) \o fs_encode(m)
              = (exp.in \o net.there) \o (imp.outq \o fs_encode(m))
        <5> DEFINE x == exp.in \o net.there
                   y == imp.outq
                   z == fs_encode(m)
        <5>1. x \in Seq(Units) /\ y \in Seq(Units) /\ z \in Seq(Units)
          BY <4>1, Zenon
        <5> HIDE DEF x, y, z
        <5>2. (x \o y) \o z = x \o (y \o z)
          BY <5>1
        <5> QED  BY <5>2, Zenon DEF x, y, z
      <4>3. exp' = exp /\ net' = net /\ imp'.outq = imp.outq \o fs_encode(m) /\ imp'.in = imp.in
        BY <1>1, <3>3, Zenon
      <4> QED  BY <4>2, <4>3, Zenon DEF Asking, Answering, Stream
    <3> HIDE DEF Q, A
    <3>8. /\ Fits(imp', cl', Q \cup {m}, A)
          /\ \A o \in Q : o.id # m.id
          /\ cl' \in [Clients -> Callers]
          /\ \A tab \in [Handles -> 0 .. MaxCalls] :
               Files(tab, cl, Q, A) => Files(tab, cl', Q \cup {m}, A)
          /\ Sending(cl') = Sending(cl) \ {c} /\ c \in Sending(cl)
      BY <3>4, <3>5, <3>6, <1>3, JoinsFacts, Zenon
    <3>9. /\ Msgs(Asking \o fs_encode(m)) = Q \cup {m} /\ Once(Asking \o fs_encode(m))
      BY <3>5, <3>6, <3>8, <2>2, LastPut, Zenon DEF Q
    <3>10. /\ Q \cup {m} = Msgs(Asking)' /\ A = Msgs(Answering)'
           /\ Once(Asking)' /\ Once(Answering)'
      BY <3>5, <3>7, <3>9 DEF Msgs, Heads, Once, A
    <3>11. Types'
      BY <3>3, <3>8, <1>1, <1>2, Zenon DEF Types
    <3>12. Books'
      <4>1. t + Cardinality(Sending(cl')) <= n.calls
        BY <3>8, <1>1, FreshTag, Zenon
      <4>2. (imp.tag + Cardinality(Sending(cl)) <= n.calls)'
        BY <4>1, <3>3, <1>1, Zenon DEF Sending
      <4> QED  BY <4>2, <3>3, <1>1, Zenon DEF RInv, Books
    <3>13. net'.up => Files(exp'.tab, cl', Q \cup {m}, A)
      BY <3>5, <3>6, <3>8, <1>1, Zenon
    <3> DEFINE R == Q \cup {m}
    <3>14. R = Msgs(Asking)' /\ Fits(imp', cl', R, A) /\ (net'.up => Files(exp'.tab, cl', R, A))
      BY <3>8, <3>10, <3>13, Zenon
    <3> HIDE DEF R
    <3> QED  BY <1>1, <3>10, <3>11, <3>12, <3>14, AliveAfter, Zenon
  <2> QED  BY <2>4, <2>5, <2>6, Zenon
<1> QED  BY <1>5, <1>6, Zenon

\* A client makes a call, with a number no call had (Call).
LEMMA CallStep == ASSUME Laws, RInv, NEW c \in Clients, NEW op \in Ops, Call(c, op) PROVE RInv'
<1> DEFINE i == n.calls + 1
           a == [cl[c] EXCEPT !.ph = "sending", !.op = op, !.id = i, !.got = 0]
<1>1. /\ imp.alive /\ cl[c].ph = "run" /\ n.calls < MaxCalls
      /\ (op = "open") = (cl[c].holds = 0)
      /\ n' = [n EXCEPT !.calls = i]
      /\ cl' = [cl EXCEPT ![c].ph = "sending", ![c].op = op, ![c].id = i, ![c].got = 0]
      /\ UNCHANGED <<imp, exp, net, served>>
  BY Zenon DEF Call
<1>2. Types
  BY Zenon DEF RInv
<1>3. /\ cl \in [Clients -> Callers] /\ cl[c] \in Callers
      /\ imp.pend \in [Slots -> Calls \cup {None}] /\ imp.tag \in Nat
      /\ n.calls \in Nat /\ MaxCalls \in Nat
      /\ i \in 1 .. MaxCalls /\ i > n.calls
  <2>1. cl \in [Clients -> Callers] /\ imp.pend \in [Slots -> Calls \cup {None}] /\ imp.tag \in Nat
    BY <1>2, PartsOfState, Zenon DEF Types
  <2>2. n.calls \in 0 .. MaxCalls /\ MaxCalls \in Nat
    BY <1>2, PartsOfState, Zenon
  <2> QED  BY <1>1, <2>1, <2>2
<1>4. served[i] = 0
  BY <1>3, Zenon DEF RInv, Books
<1>5. n' \in [calls : 0 .. MaxCalls, faults : Nat] /\ n'.calls = i
  BY <1>1, <1>2, <1>3 DEF Types
<1> HIDE DEF i
<1>6. /\ a \in Callers /\ a.ph = "sending" /\ a.op = op /\ a.id = i /\ a.got = 0
      /\ a.holds = cl[c].holds /\ a.file = cl[c].file
  <2> DEFINE x == cl[c]
             b == [x EXCEPT !.ph = "sending", !.op = op, !.id = i, !.got = 0]
  <2>1. x \in Callers /\ i \in 0 .. MaxCalls /\ 0 \in 0 .. MaxCalls /\ op \in Ops \cup {"none"}
    BY <1>3
  <2> HIDE DEF x
  <2>2. /\ b \in Callers /\ b.ph = "sending" /\ b.op = op /\ b.id = i /\ b.got = 0
        /\ b.holds = x.holds /\ b.file = x.file
    BY <2>1, Zenon DEF Callers
  <2> QED  BY <2>2, Zenon DEF x
<1>7. /\ cl' \in [Clients -> Callers] /\ cl'[c] = a
      /\ \A d \in Clients : d # c => cl'[d] = cl[d]
  BY <1>1, <1>3, <1>6, Zenon
<1> HIDE DEF a
<1>8. Types'
  BY <1>1, <1>2, <1>5, <1>7, Zenon DEF Types
<1>9. Own(cl) /\ Kept(imp, cl)
  BY Zenon DEF RInv, Correspondence
<1>10. \A d \in Clients : /\ cl'[d].holds = cl[d].holds /\ cl'[d].file = cl[d].file
                          /\ Closing(cl', d) = Closing(cl, d)
  BY <1>1, <1>6, <1>7, Zenon DEF Closing
<1>11. \A d \in Clients : /\ cl[d].id <= n.calls /\ cl[d].id \in Nat /\ cl[d].file \in Nat
                          /\ cl[d].holds # 0 => cl[d].file <= n.calls
  BY <1>3, <1>9 DEF Own, Callers
<1>12. Own(cl)'
  <2>1. ASSUME NEW d \in Clients
        PROVE  /\ cl'[d].id <= i
               /\ cl'[d].ph = "sending" => cl'[d].id # 0 /\ served[cl'[d].id] = 0 /\ cl'[d].op \in Ops
               /\ cl'[d].got \in {0, cl'[d].id}
               /\ cl'[d].got # 0 => served[cl'[d].got] = 1
               /\ cl'[d].ph # "run" /\ cl'[d].op = "open" => cl'[d].holds = 0
               /\ cl'[d].ph = "sending" /\ cl'[d].op # "open" => cl'[d].holds # 0
               /\ cl'[d].holds # 0 =>
                    cl'[d].file # 0 /\ cl'[d].file <= i /\ served[cl'[d].file] = 1
               /\ cl'[d].holds # 0 /\ cl'[d].ph # "run" => cl'[d].id # cl'[d].file
    <3>1. CASE d = c
      <4>1. cl[c].holds # 0 => cl[c].file # 0 /\ cl[c].file <= n.calls /\ served[cl[c].file] = 1
        BY <1>9, Zenon DEF Own
      <4> QED  BY <3>1, <4>1, <1>1, <1>3, <1>4, <1>6, <1>7, <1>11, SMTT(30)
    <3>2. CASE d # c
      <4>1. cl'[d] = cl[d]
        BY <3>2, <1>7, Zenon
      <4> DEFINE x == cl'[d]
      <4>2. x = cl[d]
        BY <4>1, Zenon
      <4>3. cl[d].id <= i /\ (cl[d].holds # 0 => cl[d].file <= i)
        BY <1>3, <1>11
      <4> HIDE DEF x
      <4>4. /\ x.id <= i
            /\ x.ph = "sending" => x.id # 0 /\ served[x.id] = 0 /\ x.op \in Ops
            /\ x.got \in {0, x.id} /\ (x.got # 0 => served[x.got] = 1)
            /\ x.ph # "run" /\ x.op = "open" => x.holds = 0
            /\ x.ph = "sending" /\ x.op # "open" => x.holds # 0
            /\ x.holds # 0 => x.file # 0 /\ x.file <= i /\ served[x.file] = 1
            /\ x.holds # 0 /\ x.ph # "run" => x.id # x.file
        BY <4>2, <4>3, <1>9, Zenon DEF Own
      <4> QED  BY <4>4, Zenon DEF x
    <3> QED  BY <3>1, <3>2, Zenon
  <2>2. ASSUME NEW d \in Clients, NEW e \in Clients, d # e
        PROVE  /\ cl'[d].id = cl'[e].id => cl'[d].id = 0
               /\ cl'[d].holds # 0 => cl'[d].file # cl'[e].id
               /\ cl'[d].holds # 0 /\ cl'[e].holds # 0 => cl'[d].file # cl'[e].file
    <3>1. /\ cl[d].id = cl[e].id => cl[d].id = 0
          /\ cl[d].holds # 0 => cl[d].file # cl[e].id
          /\ cl[d].holds # 0 /\ cl[e].holds # 0 => cl[d].file # cl[e].file
      BY <2>2, <1>9, Zenon DEF Own
    <3>2. /\ cl'[d].id = IF d = c THEN i ELSE cl[d].id
          /\ cl'[e].id = IF e = c THEN i ELSE cl[e].id
      BY <1>6, <1>7, Zenon
    <3> QED  BY <3>1, <3>2, <2>2, <1>3, <1>10, <1>11
  <2>3. served' = served /\ n'.calls = i
    BY <1>1, <1>5, Zenon
  <2> QED  BY <2>1, <2>2, <2>3, Zenon DEF Own
<1>13. \A s \in Slots : imp.pend[s] # None /\ imp.pend[s].client # None =>
                         imp.pend[s].client \in Clients /\ cl'[imp.pend[s].client] = cl[imp.pend[s].client]
  <2> SUFFICES ASSUME NEW s \in Slots, imp.pend[s] # None, imp.pend[s].client # None
               PROVE  imp.pend[s].client \in Clients
                      /\ cl'[imp.pend[s].client] = cl[imp.pend[s].client]
    BY Zenon
  <2>1. imp.pend[s] \in Calls
    BY <1>3, Zenon
  <2>2. imp.pend[s].client \in Clients
    BY <2>1, Zenon DEF Calls
  <2>3. cl[imp.pend[s].client].ph = "waiting"
    BY <1>9, Zenon DEF Kept
  <2> QED  BY <2>2, <2>3, <1>1, <1>7, Zenon
<1>14. Kept(imp, cl)'
  BY <1>1, <1>9, <1>13, Zenon DEF Kept
<1>15. Asking' = Asking /\ Answering' = Answering
  BY <1>1, Zenon DEF Asking, Answering
<1>16. Msgs(Asking)' = Msgs(Asking) /\ Msgs(Answering)' = Msgs(Answering)
  BY <1>15, Zenon DEF Msgs, Heads
<1> DEFINE Q == Msgs(Asking)
           A == Msgs(Answering)
<1>17. Q \in SUBSET Messages /\ A \in SUBSET Messages
  BY <1>2, PartsOfState, Zenon
<1>18. Fits(imp, cl, Q, A) /\ (net.up => Files(exp.tab, cl, Q, A)) /\ Once(Asking) /\ Once(Answering)
  BY <1>1, AliveFits, Zenon
<1> HIDE DEF Q, A
<1>19. Asked(cl, Q)'
  <2>1. ASSUME NEW m \in Q
        PROVE  /\ m.id <= i /\ served[m.id] = 0
               /\ \A d \in Clients : cl'[d].ph = "sending" => m.id # cl'[d].id
    <3>1. /\ m.id <= n.calls /\ served[m.id] = 0 /\ m.id \in Nat
          /\ \A d \in Clients : cl[d].ph = "sending" => m.id # cl[d].id
      <4>1. m \in Messages /\ MaxCalls \in Nat
        BY <1>3, <1>17, Zenon
      <4>2. m.id \in Nat
        BY <4>1 DEF Messages
      <4> QED  BY <4>2, <1>18, Zenon DEF Fits, Asked
    <3>2. m.id # i /\ m.id <= i
      BY <3>1, <1>3
    <3> QED  BY <3>1, <3>2, <1>6, <1>7, Zenon
  <2>2. Q' = Q
    BY <1>16, Zenon DEF Q
  <2> QED  BY <2>1, <2>2, <1>1, <1>5, Zenon DEF Asked
<1>20. Replied(cl, A)'
  <2>1. ASSUME NEW m \in A
        PROVE  /\ m.id <= i /\ served[m.id] = 1
               /\ \A d \in Clients : cl'[d].holds # 0 => m.id # cl'[d].file
    <3>1. /\ m.id <= n.calls /\ served[m.id] = 1 /\ m.id \in Nat
          /\ \A d \in Clients : cl[d].holds # 0 => m.id # cl[d].file
      <4>1. m \in Messages /\ MaxCalls \in Nat
        BY <1>3, <1>17, Zenon
      <4>2. m.id \in Nat
        BY <4>1 DEF Messages
      <4> QED  BY <4>2, <1>18, Zenon DEF Fits, Replied
    <3> QED  BY <3>1, <1>3, <1>10
  <2>2. A' = A
    BY <1>16, Zenon DEF A
  <2> QED  BY <2>1, <2>2, <1>1, <1>5, Zenon DEF Replied
<1>21. Linked(imp, cl, Q)' /\ Linked(imp, cl, A)'
  <2>1. Linked(imp, cl', Q) /\ Linked(imp, cl', A)
    <3>1. Linked(imp, cl, Q) /\ Linked(imp, cl, A)
      BY <1>18, Zenon DEF Fits
    <3> QED  BY <3>1, <1>13 DEF Linked
  <2>2. Q' = Q /\ A' = A
    BY <1>16, Zenon DEF Q, A
  <2>3. imp' = imp
    BY <1>1, Zenon
  <2> QED  BY <2>1, <2>2, <2>3, Zenon DEF Linked
<1>22. (net.up => Files(exp.tab, cl, Q, A))'
  <2>1. net.up => Files(exp.tab, cl', Q, A)
    BY <1>10, <1>18, Zenon DEF Files, Held, Opened, ToClose
  <2>2. Q' = Q /\ A' = A
    BY <1>16, Zenon DEF Q, A
  <2> QED  BY <2>1, <2>2, <1>1, Zenon DEF Files, Held, Opened, ToClose, Closing
<1>23. Once(Asking)' /\ Once(Answering)'
  BY <1>15, <1>18, Afterwards, Zenon
<1>24. Books'
  <2>1. Sending(cl') = Sending(cl) \cup {c} /\ c \notin Sending(cl)
    BY <1>1, <1>6, <1>7 DEF Sending
  <2>2. /\ Cardinality(Sending(cl')) = Cardinality(Sending(cl)) + 1
        /\ Cardinality(Sending(cl)) \in Nat
    BY <2>1, SendingFacts, Zenon
  <2>3. imp.tag + Cardinality(Sending(cl)) <= n.calls
    BY Zenon DEF RInv, Books
  <2>4. imp.tag + Cardinality(Sending(cl')) <= i
    BY <2>2, <2>3, <1>3 DEF i
  <2>5. (imp.tag + Cardinality(Sending(cl)) <= n.calls)'
    BY <2>4, <1>1, <1>5, Zenon DEF Sending
  <2>6. \A j \in 1 .. MaxCalls : served[j] <= 1 /\ (j > i => served[j] = 0)
    BY <1>3 DEF RInv, Books
  <2> QED  BY <2>5, <2>6, <1>1, <1>5, Zenon DEF RInv, Books
<1> QED  BY <1>8, <1>12, <1>14, <1>19, <1>20, <1>21, <1>22, <1>23, <1>24, Zenon
         DEF RInv, Correspondence, Files, Q, A

-----------------------------------------------------------------------------
(* The connection ends.                                                     *)

\* Whoever waited is told, and nobody holds anything (Stopped).
LEMMA StoppedFacts ==
  ASSUME NEW I, NEW k \in [Clients -> Callers], Own(k), NEW j, j = Stopped(I, k)
  PROVE  /\ j \in [Clients -> Callers] /\ Own(j)
         /\ \A c \in Clients : j[c].ph # "sending" /\ j[c].holds = 0
<1>1. ASSUME NEW c \in Clients
      PROVE  /\ j[c] \in Callers /\ j[c].ph # "sending" /\ j[c].holds = 0
             /\ j[c].id = k[c].id /\ j[c].got \in {0, k[c].got}
  <2> DEFINE a == Answered(k[c], -1, 0)
  <2>1. k[c] \in Callers /\ -1 \in -1 .. NFD /\ 0 \in 0 .. MaxCalls /\ 0 \in 0 .. NFD
    BY RemoteAssumption
  <2>2. a \in Callers /\ a.ph = "run" /\ a.got = 0 /\ a.id = k[c].id
    <3> HIDE DEF a
    <3>1. a = Answered(k[c], -1, 0)
      BY Zenon DEF a
    <3> QED  BY <2>1, <3>1, AnsweredFacts
  <2> HIDE DEF a
  <2>3. \/ j[c] = [a EXCEPT !.holds = 0]
        \/ k[c].ph # "sending" /\ j[c] = [k[c] EXCEPT !.holds = 0]
    BY Zenon DEF Stopped, a
  <2>4. CASE j[c] = [a EXCEPT !.holds = 0]
    BY <2>1, <2>2, <2>4, Zenon DEF Callers
  <2>5. CASE k[c].ph # "sending" /\ j[c] = [k[c] EXCEPT !.holds = 0]
    BY <2>1, <2>5, Zenon DEF Callers
  <2> QED  BY <2>3, <2>4, <2>5, Zenon
<1>2. j \in [Clients -> Callers]
  <2>1. j = [c \in Clients |-> j[c]]
    BY Zenon DEF Stopped
  <2> QED  BY <2>1, <1>1, Zenon
<1>3. Own(j)
  BY <1>1 DEF Own
<1> QED  BY <1>1, <1>2, <1>3, Zenon

\* The end of import.
Stops(I, k) ==
  /\ imp' = [NewImport EXCEPT !.alive = FALSE]
  /\ cl' = Stopped(I, k)
  /\ net' = HungUp(net)
  /\ UNCHANGED <<exp, served, n>>

\* What is left of the streams is in order, and there is no more to it.
LEMMA StopsStep ==
  ASSUME Laws, RInv, NEW I, NEW k \in [Clients -> Callers], Own(k), Stops(I, k)
  PROVE  RInv'
<1>1. /\ imp' = [NewImport EXCEPT !.alive = FALSE] /\ cl' = Stopped(I, k)
      /\ net' = HungUp(net) /\ exp' = exp /\ served' = served /\ n' = n
  BY Zenon DEF Stops
<1>2. Types
  BY Zenon DEF RInv
<1>3. /\ imp' \in Imports /\ imp'.alive = FALSE /\ imp'.outq = <<>> /\ imp'.in = <<>>
      /\ imp'.busy = 0 /\ imp'.tag = 0 /\ imp'.pend = [s \in Slots |-> None]
  <2>1. imp' = [alive |-> FALSE, outq |-> <<>>, busy |-> 0, in |-> <<>>,
                pend |-> [s \in Slots |-> None], tag |-> 0]
    BY <1>1, Zenon DEF NewImport
  <2> QED  BY <2>1, NoMessages, Zenon DEF Imports
<1>4. net' \in Conns /\ net'.up = FALSE /\ net'.back = <<>> /\ net'.there = net.there
  BY <1>1, <1>2, NoMessages, Zenon DEF Types, Conns, HungUp
<1>5. /\ cl' \in [Clients -> Callers] /\ Own(cl')
      /\ \A c \in Clients : cl'[c].ph # "sending" /\ cl'[c].holds = 0
  BY <1>1, StoppedFacts, Zenon
<1>6. Types'
  BY <1>1, <1>2, <1>3, <1>4, <1>5 DEF Types
<1>7. /\ exp.in \o net.there \in Seq(Units) /\ imp.outq \in Seq(Units)
      /\ imp.in \o net.back \in Seq(Units) /\ exp.out \in Seq(Units)
      /\ n.calls \in Nat
  <2>1. /\ exp.in \in Seq(Units) /\ net.there \in Seq(Units) /\ imp.in \in Seq(Units)
        /\ net.back \in Seq(Units) /\ imp.outq \in Seq(Units) /\ exp.out \in Seq(Units)
        /\ n.calls \in 0 .. MaxCalls /\ MaxCalls \in Nat
    BY <1>2, PartsOfState, Zenon
  <2>2. n.calls \in Nat
    BY <2>1
  <2> QED  BY <2>1, <2>2, Joined, Zenon
<1>8. Asking' = exp.in \o net.there /\ Asking = (exp.in \o net.there) \o imp.outq
  <2>1. (exp.in \o net.there) \o <<>> = exp.in \o net.there
    BY <1>7, JoinedToNone, Zenon
  <2> QED  BY <2>1, <1>1, <1>3, <1>4, Zenon DEF Asking, Stream
<1>9. Answering' = exp.out /\ Answering = (imp.in \o net.back) \o exp.out
  <2>1. (<<>> \o <<>>) \o exp.out = exp.out
    BY <1>7, JoinedToNone, NoMessages, Zenon
  <2> QED  BY <2>1, <1>1, <1>3, <1>4, Zenon DEF Answering, Stream
<1>10. /\ Own(cl) /\ Once(Asking) /\ Once(Answering)
       /\ Asked(cl, Msgs(Asking)) /\ Replied(cl, Msgs(Answering))
  BY Zenon DEF RInv, Correspondence
<1> DEFINE P == exp.in \o net.there
           R == exp.out
           Q == Msgs(P)
           A == Msgs(R)
<1>11. /\ Q \subseteq Msgs(Asking) /\ Once(P)
       /\ A \subseteq Msgs(Answering) /\ Once(R)
  BY <1>7, <1>8, <1>9, <1>10, PartsOfStream, Zenon
<1>12. /\ Asking' = P /\ Answering' = R
  BY <1>8, <1>9, Zenon
<1> HIDE DEF P, R
<1>13. /\ Msgs(Asking)' = Q /\ Msgs(Answering)' = A /\ Once(Asking)' /\ Once(Answering)'
  BY <1>11, <1>12, Afterwards, Zenon
<1> HIDE DEF Q, A
<1>14. Asked(cl', Q) /\ Replied(cl', A)
  BY <1>5, <1>10, <1>11, Zenon DEF Asked, Replied
<1>15. Asked(cl, Msgs(Asking))' /\ Replied(cl, Msgs(Answering))'
  BY <1>1, <1>13, <1>14, Zenon DEF Asked, Replied
<1>16. Own(cl)' /\ Kept(imp, cl)'
  BY <1>1, <1>3, <1>5 DEF Own, Kept
<1>17. Books'
  <2>1. Sending(cl)' = {}
    BY <1>5, Zenon DEF Sending
  <2>2. Cardinality(Sending(cl))' = 0
    BY <2>1, SendingFacts, Zenon
  <2>3. (imp.tag + Cardinality(Sending(cl)) <= n.calls)'
    BY <2>2, <1>1, <1>3, <1>7
  <2> QED  BY <2>3, <1>1, <1>3, <1>4, <1>5, Zenon DEF RInv, Books
<1> QED  BY <1>3, <1>6, <1>13, <1>15, <1>16, <1>17, Zenon DEF RInv, Correspondence

\* The read says that the connection is gone (ReadEnds).
LEMMA ReadEndsStep == ASSUME Laws PROVE RInv /\ ReadEnds => RInv'
<1> SUFFICES ASSUME RInv, ReadEnds PROVE RInv'
  BY Zenon
<1>1. Stops(imp, cl)
  BY Zenon DEF ReadEnds, Stops
<1>2. cl \in [Clients -> Callers] /\ Own(cl)
  BY Zenon DEF RInv, Types, Correspondence
<1> QED  BY <1>1, <1>2, StopsStep, Zenon

\* What has come in is read and handed over, or is no message and the end
\* (ReadReply).
LEMMA ReadReplyStep == ASSUME Laws, RInv, NEW k \in Pieces, ReadReply(k) PROVE RInv'
<1> DEFINE a == imp.in \o SubSeq(net.back, 1, k)
           b == Drop(net.back, k)
           I == [imp EXCEPT !.in = a]
           D == drain_in(I, cl)
<1>1. /\ imp.alive /\ k <= Len(net.back)
      /\ imp' = IF D.bad THEN [NewImport EXCEPT !.alive = FALSE] ELSE D.I
      /\ cl' = IF D.bad THEN Stopped(D.I, D.cl) ELSE D.cl
      /\ net' = IF D.bad THEN HungUp(net) ELSE [net EXCEPT !.back = b]
      /\ exp' = exp /\ served' = served /\ n' = n
  BY Zenon DEF ReadReply
<1>2. Types
  BY Zenon DEF RInv
<1>3. /\ imp.in \in Seq(Units) /\ net.back \in Seq(Units) /\ exp.out \in Seq(Units)
      /\ imp \in Imports /\ imp.busy <= Len(imp.outq) /\ cl \in [Clients -> Callers]
      /\ Msgs(Asking) \in SUBSET Messages
  BY <1>2, PartsOfState, Zenon DEF Types
<1>4. k \in 0 .. Len(net.back)
  BY <1>1, <1>3, Elements, RemoteAssumption DEF Pieces
<1>5. SubSeq(net.back, 1, k) \in Seq(Units) /\ b \in Seq(Units)
  BY <1>3, <1>4, Cut, Zenon
<1>6. a \in Seq(Units)
  BY <1>3, <1>5, Joined, Zenon
<1>7. Stream(a, b, exp.out) = Answering
  BY <1>3, <1>4, Moved, Zenon DEF Answering
<1> HIDE DEF a, b
<1>8. /\ I \in Imports /\ I.in = a /\ I.outq = imp.outq /\ I.busy = imp.busy
      /\ I.tag = imp.tag /\ I.alive = imp.alive /\ I.pend = imp.pend
  BY <1>3, <1>6, Zenon DEF Imports
<1> HIDE DEF I
<1>9. /\ Fits(imp, cl, Msgs(Asking), Msgs(Answering))
      /\ net.up => Files(exp.tab, cl, Msgs(Asking), Msgs(Answering))
      /\ Once(Asking) /\ Once(Answering)
  BY <1>1, AliveFits, Zenon
<1>10. Partly(I, cl, b, [I |-> I, cl |-> cl, bad |-> FALSE])
  <2>1. Fits(I, cl, Msgs(Asking), Msgs(Answering))
    <3>1. Kept(I, cl)
      BY <1>8, <1>9, Zenon DEF Fits, Kept
    <3>2. ASSUME NEW M, Linked(imp, cl, M) PROVE Linked(I, cl, M)
      BY <1>8, <3>2, Zenon DEF Linked
    <3> QED  BY <3>1, <3>2, <1>9, Zenon DEF Fits
  <2>2. Stream(I.in, b, exp.out) = Answering
    BY <1>7, <1>8, Zenon
  <2> DEFINE P == [I |-> I, cl |-> cl, bad |-> FALSE]
  <2>3. /\ P \in [I : Imports, cl : [Clients -> Callers], bad : BOOLEAN] /\ P.I = I /\ P.cl = cl
    BY <1>3, <1>8, Zenon
  <2> HIDE DEF P
  <2>4. Partly(I, cl, b, P)
    BY <2>1, <2>2, <2>3, <1>9, Zenon DEF Partly
  <2> QED  BY <2>4, Zenon DEF P
<1>11. Partly(I, cl, b, D)
  <2>1. I.in \in Seq(Units)
    BY <1>6, <1>8, Zenon
  <2> QED  BY <2>1, <1>3, <1>5, <1>10, DrainInFacts, Zenon
<1> HIDE DEF D
<1> DEFINE S == Stream(D.I.in, b, exp.out)
<1>12. /\ D.I \in Imports /\ D.cl \in [Clients -> Callers] /\ D.bad \in BOOLEAN
       /\ D.I.outq = imp.outq /\ D.I.busy = imp.busy /\ D.I.tag = imp.tag /\ D.I.alive = imp.alive
       /\ Sending(D.cl) = Sending(cl) /\ Once(S)
       /\ Fits(D.I, D.cl, Msgs(Asking), Msgs(S))
       /\ net.up => Files(exp.tab, D.cl, Msgs(Asking), Msgs(S))
  BY <1>8, <1>11, Zenon DEF Partly
<1>13. CASE D.bad
  <2>1. Stops(D.I, D.cl)
    BY <1>1, <1>13, Zenon DEF Stops
  <2>2. Own(D.cl)
    BY <1>12, Zenon DEF Fits
  <2> QED  BY <2>1, <2>2, <1>12, StopsStep, Zenon
<1>14. CASE ~D.bad
  <2>1. imp' = D.I /\ cl' = D.cl /\ net' = [net EXCEPT !.back = b]
    BY <1>1, <1>14, Zenon
  <2>2. net' \in Conns /\ net'.up = net.up /\ net'.back = b /\ net'.there = net.there
    BY <2>1, <1>2, <1>5, Zenon DEF Types, Conns
  <2>3. Types'
    BY <2>1, <2>2, <1>1, <1>2, <1>3, <1>12, Zenon DEF Types
  <2>4. Asking' = Asking /\ Answering' = S
    BY <2>1, <2>2, <1>1, <1>12, Zenon DEF Asking, Answering
  <2>5. Books'
    <3>1. Sending(cl)' = Sending(cl)
      BY <2>1, <1>12, Zenon DEF Sending
    <3>2. (imp.tag + Cardinality(Sending(cl)) <= n.calls)'
      BY <3>1, <2>1, <1>1, <1>12, Zenon DEF RInv, Books
    <3>3. imp'.alive
      BY <2>1, <1>1, <1>12, Zenon
    <3> QED  BY <3>2, <3>3, <1>1, Zenon DEF RInv, Books
  <2> DEFINE Q == Msgs(Asking)
             A == Msgs(S)
  <2>6. Q = Msgs(Asking)' /\ A = Msgs(Answering)' /\ Once(Asking)' /\ Once(Answering)'
    <3> HIDE DEF S
    <3> QED  BY <2>4, <1>9, <1>12, Afterwards, Zenon
  <2>7. Fits(imp', cl', Q, A) /\ (net'.up => Files(exp'.tab, cl', Q, A))
    BY <2>1, <2>2, <1>1, <1>12, Zenon
  <2>8. served' = served /\ n'.calls = n.calls
    BY <1>1, Zenon
  <2> HIDE DEF Q, A
  <2> QED  BY <2>3, <2>5, <2>6, <2>7, <2>8, AliveAfter, Zenon
<1> QED  BY <1>12, <1>13, <1>14, Zenon

\* exportfs is done with a client (ExportEnds).
LEMMA ExportEndsStep == RInv /\ ExportEnds => RInv'
<1> SUFFICES ASSUME RInv, ExportEnds PROVE RInv'
  BY Zenon
<1>1. /\ exp' = [ph |-> "accept", in |-> <<>>, out |-> <<>>, tab |-> AllClosed]
      /\ net' = [net EXCEPT !.up = FALSE, !.there = <<>>]
      /\ imp' = imp /\ cl' = cl /\ served' = served /\ n' = n
  BY Zenon DEF ExportEnds
<1>2. Types
  BY Zenon DEF RInv
<1>3. AllClosed \in [Handles -> 0 .. MaxCalls]
  BY RemoteAssumption DEF AllClosed
<1>4. /\ exp' \in Exports /\ exp'.ph = "accept" /\ exp'.in = <<>> /\ exp'.out = <<>>
  BY <1>1, <1>3, NoMessages, Zenon DEF Exports
<1>5. net' \in Conns /\ net'.up = FALSE /\ net'.there = <<>> /\ net'.back = net.back
  BY <1>1, <1>2, NoMessages, Zenon DEF Types, Conns
<1>6. Types'
  BY <1>1, <1>2, <1>4, <1>5, Zenon DEF Types
<1>7. /\ exp.in \o net.there \in Seq(Units) /\ imp.outq \in Seq(Units)
      /\ imp.in \o net.back \in Seq(Units) /\ exp.out \in Seq(Units)
  BY <1>2, PartsOfState, Joined, Zenon
<1>8. Asking' = imp.outq /\ Asking = (exp.in \o net.there) \o imp.outq
  <2>1. (<<>> \o <<>>) \o imp.outq = imp.outq
    BY <1>7, JoinedToNone, NoMessages, Zenon
  <2> QED  BY <2>1, <1>1, <1>4, <1>5, Zenon DEF Asking, Stream
<1>9. Answering' = imp.in \o net.back /\ Answering = (imp.in \o net.back) \o exp.out
  <2>1. (imp.in \o net.back) \o <<>> = imp.in \o net.back
    BY <1>7, JoinedToNone, Zenon
  <2> QED  BY <2>1, <1>1, <1>4, <1>5, Zenon DEF Answering, Stream
<1>10. /\ Own(cl) /\ Kept(imp, cl) /\ Once(Asking) /\ Once(Answering)
       /\ Asked(cl, Msgs(Asking)) /\ Replied(cl, Msgs(Answering))
       /\ imp.alive => Linked(imp, cl, Msgs(Asking)) /\ Linked(imp, cl, Msgs(Answering))
  BY Zenon DEF RInv, Correspondence
<1> DEFINE P == imp.in \o net.back
           R == imp.outq
           A == Msgs(P)
           Q == Msgs(R)
<1>11. /\ Q \subseteq Msgs(Asking) /\ Once(R)
       /\ A \subseteq Msgs(Answering) /\ Once(P)
  BY <1>7, <1>8, <1>9, <1>10, PartsOfStream, Zenon
<1>12. /\ Asking' = R /\ Answering' = P
  BY <1>8, <1>9, Zenon
<1> HIDE DEF P, R
<1>13. /\ Msgs(Asking)' = Q /\ Msgs(Answering)' = A /\ Once(Asking)' /\ Once(Answering)'
  BY <1>11, <1>12, Afterwards, Zenon
<1> HIDE DEF Q, A
<1>14. /\ Asked(cl, Q) /\ Replied(cl, A)
       /\ imp.alive => Linked(imp, cl, Q) /\ Linked(imp, cl, A)
  BY <1>10, <1>11, Zenon DEF Asked, Replied, Linked
<1>15. Asked(cl, Msgs(Asking))' /\ Replied(cl, Msgs(Answering))'
  BY <1>1, <1>13, <1>14, Zenon DEF Asked, Replied
<1>16. (imp.alive => Linked(imp, cl, Msgs(Asking)) /\ Linked(imp, cl, Msgs(Answering)))'
  BY <1>1, <1>13, <1>14 DEF Linked
<1>17. Own(cl)' /\ Kept(imp, cl)'
  BY <1>1, <1>10, Zenon DEF Own, Kept
<1>18. Books'
  BY <1>1, <1>4, <1>5, Zenon DEF RInv, Books, Sending
<1> QED  BY <1>5, <1>6, <1>13, <1>15, <1>16, <1>17, <1>18, Zenon DEF RInv, Correspondence

\* A new import connects: nobody holds anything of the last one (Reconnects).
LEMMA ReconnectsStep == ASSUME Laws PROVE RInv /\ Reconnects => RInv'
<1> SUFFICES ASSUME RInv, Reconnects PROVE RInv'
  BY Zenon
<1>1. /\ ~imp.alive /\ exp.ph = "accept" /\ imp' = NewImport /\ net' = NewConn
      /\ exp' = [exp EXCEPT !.ph = "read"] /\ cl' = cl /\ served' = served /\ n' = n
  BY Zenon DEF Reconnects
<1>2. Types
  BY Zenon DEF RInv
<1>3. /\ imp' \in Imports /\ imp'.alive = TRUE /\ imp'.outq = <<>> /\ imp'.in = <<>>
      /\ imp'.busy = 0 /\ imp'.tag = 0 /\ imp'.pend = [s \in Slots |-> None]
  BY <1>1, NoMessages, Zenon DEF NewImport, Imports
<1>4. net' \in Conns /\ net'.up = TRUE /\ net'.there = <<>> /\ net'.back = <<>>
  BY <1>1, NoMessages, Zenon DEF NewConn, Conns
<1>5. /\ exp' \in Exports /\ exp'.ph = "read" /\ exp'.in = exp.in /\ exp'.out = exp.out
      /\ exp'.tab = exp.tab
  BY <1>1, <1>2, Zenon DEF Types, Exports
<1>6. /\ exp.in = <<>> /\ exp.out = <<>> /\ \A c \in Clients : cl[c].holds = 0
  BY <1>1, Zenon DEF RInv, Books
<1>7. Types'
  BY <1>1, <1>2, <1>3, <1>4, <1>5 DEF Types
<1>8. Asking' = <<>> /\ Answering' = <<>>
  BY <1>3, <1>4, <1>5, <1>6, NoMessages, Zenon DEF Asking, Answering, Stream
<1>9. /\ Msgs(Asking)' = {} /\ Msgs(Answering)' = {} /\ Once(Asking)' /\ Once(Answering)'
  BY <1>8, NoMessages DEF Msgs, Heads, Once
<1>10. Own(cl)' /\ Kept(imp, cl)'
  BY <1>1, <1>3, Zenon DEF RInv, Correspondence, Own, Kept
<1>11. Books'
  <2>1. imp.tag + Cardinality(Sending(cl)) <= n.calls /\ Cardinality(Sending(cl)) \in Nat
    BY SendingFacts, Zenon DEF RInv, Books
  <2>2. imp.tag \in Nat /\ n.calls \in Nat
    BY <1>2, PartsOfState
  <2>3. 0 + Cardinality(Sending(cl)) <= n.calls
    BY <2>1, <2>2
  <2>4. (imp.tag + Cardinality(Sending(cl)) <= n.calls)'
    BY <2>3, <1>1, <1>3, Zenon DEF Sending
  <2> QED  BY <2>4, <1>1, <1>3, <1>5, <1>6, Zenon DEF RInv, Books
<1>12. Asked(cl, Msgs(Asking))' /\ Replied(cl, Msgs(Answering))'
  BY <1>9, Zenon DEF Asked, Replied
<1>13. Linked(imp, cl, Msgs(Asking))' /\ Linked(imp, cl, Msgs(Answering))'
  BY <1>9, Zenon DEF Linked
<1>14. /\ Held(exp.tab, cl)' /\ Opened(exp.tab, Msgs(Answering))'
       /\ ToClose(exp.tab, cl, Msgs(Asking), Msgs(Answering))'
  BY <1>1, <1>6, <1>9, Zenon DEF Held, Opened, ToClose
<1> QED  BY <1>7, <1>9, <1>10, <1>11, <1>12, <1>13, <1>14, Zenon DEF RInv, Correspondence

-----------------------------------------------------------------------------
(* A request is performed.                                                  *)

\* What serve does to the table of open files, and the result it gives.
Served(tab, m, T, r) ==
  \/ T = tab /\ (m.op = "open" => r = -1)
  \/ m.op = "open" /\ r \in Handles /\ tab[r] = 0 /\ T = [tab EXCEPT ![r] = m.id]
  \/ m.op = "close" /\ m.h \in Handles /\ T = [tab EXCEPT ![m.h] = 0]

\* An open takes a free slot, a close frees the one it names (serve).
LEMMA ServeFacts ==
  ASSUME NEW E \in Exports, NEW m \in Messages, NEW found \in BOOLEAN,
         NEW R, R = serve(E, m, found)
  PROVE  /\ Served(E.tab, m, R.E.tab, R.result)
         /\ R.E \in Exports /\ R.E.in = E.in /\ R.result \in -1 .. NFD
<1>1. E.tab \in [Handles -> 0 .. MaxCalls] /\ MaxCalls \in Nat /\ NFD \in Nat
  BY RemoteAssumption, Zenon DEF Exports
<1>2. m.op \in Ops /\ m.id \in 0 .. MaxCalls /\ m.id \in 1 .. MaxCalls
  BY <1>1 DEF Messages
<1>3. -1 \in -1 .. NFD /\ 0 \in -1 .. NFD /\ Handles \subseteq -1 .. NFD
  BY <1>1 DEF Handles
<1>4. CASE R = [E |-> E, result |-> -1]
  BY <1>3, <1>4 DEF Served
<1>5. CASE m.op = "open" /\ found /\ tab_alloc(E.tab) # {}
  <2> DEFINE h == CHOOSE h \in tab_alloc(E.tab) : TRUE
  <2>1. R = [E |-> [E EXCEPT !.tab[h] = m.id], result |-> h]
    BY <1>5, Zenon DEF serve, OpenedAs
  <2>2. h \in tab_alloc(E.tab)
    BY <1>5, Zenon
  <2>3. h \in Handles /\ E.tab[h] = 0
    BY <2>2, Zenon DEF tab_alloc
  <2> HIDE DEF h
  <2> DEFINE T == [E.tab EXCEPT ![h] = m.id]
  <2>4. T \in [Handles -> 0 .. MaxCalls]
    BY <1>1, <1>2, Zenon
  <2>5. R = [E |-> [E EXCEPT !.tab = T], result |-> h]
    BY <2>1, Zenon
  <2>6. R.result = h /\ Served(E.tab, m, T, h)
    BY <2>3, <2>5, <1>5 DEF Served
  <2> HIDE DEF T
  <2>7. R.E.tab = T /\ R.E \in Exports /\ R.E.in = E.in
    <3>1. R.E = [E EXCEPT !.tab = T]
      BY <2>5
    <3>2. [E EXCEPT !.tab = T] \in Exports
      BY <2>4, Zenon DEF Exports
    <3> QED  BY <3>1, <3>2, Zenon DEF Exports
  <2> QED  BY <2>3, <2>6, <2>7, <1>3, Zenon
<1>6. CASE m.op \in {"read", "write"}
  <2>1. R.E = E /\ R.result \in {0, -1}
    BY <1>6, Zenon DEF serve
  <2> QED  BY <2>1, <1>3, <1>6, Zenon DEF Served
<1>7. CASE m.op = "close" /\ m.h \in Handles /\ E.tab[m.h] # 0
  <2>1. R = [E |-> [E EXCEPT !.tab[m.h] = 0], result |-> 0]
    BY <1>7, Zenon DEF serve
  <2> DEFINE T == [E.tab EXCEPT ![m.h] = 0]
  <2>2. T \in [Handles -> 0 .. MaxCalls]
    <3>1. 0 \in 0 .. MaxCalls
      BY <1>1
    <3> QED  BY <3>1, <1>1, <1>7, Zenon
  <2>3. R = [E |-> [E EXCEPT !.tab = T], result |-> 0]
    BY <2>1, Zenon
  <2>4. R.result = 0 /\ Served(E.tab, m, T, 0)
    BY <2>3, <1>7 DEF Served
  <2> HIDE DEF T
  <2>5. R.E.tab = T /\ R.E \in Exports /\ R.E.in = E.in
    <3>1. R.E = [E EXCEPT !.tab = T]
      BY <2>3
    <3>2. [E EXCEPT !.tab = T] \in Exports
      BY <2>2, Zenon DEF Exports
    <3> QED  BY <3>1, <3>2, Zenon DEF Exports
  <2> QED  BY <2>4, <2>5, <1>3, Zenon
<1> QED
  <2>1. CASE m.op = "open"
    <3>1. \/ R = [E |-> E, result |-> -1]
          \/ m.op = "open" /\ found /\ tab_alloc(E.tab) # {}
      BY <2>1, Zenon DEF serve, OpenedAs
    <3> QED  BY <3>1, <1>4, <1>5, Zenon
  <2>2. CASE m.op = "close"
    <3>1. \/ R = [E |-> E, result |-> -1]
          \/ m.op = "close" /\ m.h \in Handles /\ E.tab[m.h] # 0
      BY <2>2, Zenon DEF serve
    <3> QED  BY <3>1, <1>4, <1>7, Zenon
  <2> QED  BY <2>1, <2>2, <1>2, <1>6, Zenon DEF Ops

\* The first of the requests becomes an answer, and the table goes along.
Performs(tab, k, Q, A, m, T, P, r) ==
  /\ tab \in [Handles -> 0 .. MaxCalls] /\ k \in [Clients -> Callers]
  /\ Q \in SUBSET Messages /\ A \in SUBSET Messages
  /\ m \in Q /\ P \subseteq Q /\ (\A o \in P : o.id # m.id)
  /\ r \in Messages /\ r.op = m.op /\ r.id = m.id
  /\ Served(tab, m, T, r.result)
  /\ Own(k) /\ Files(tab, k, Q, A)

\* The handles remain what their holders think they are (serve).
LEMMA PerformedFiles ==
  ASSUME NEW tab, NEW k, NEW Q, NEW A, NEW m, NEW T, NEW P, NEW r,
         Performs(tab, k, Q, A, m, T, P, r)
  PROVE  Files(T, k, P, A \cup {r})
<1>1. /\ tab \in [Handles -> 0 .. MaxCalls] /\ k \in [Clients -> Callers]
      /\ Q \in SUBSET Messages /\ A \in SUBSET Messages
      /\ m \in Q /\ P \subseteq Q /\ (\A o \in P : o.id # m.id)
      /\ r \in Messages /\ r.op = m.op /\ r.id = m.id
      /\ Own(k)
  BY Zenon DEF Performs
<1>2. Held(tab, k) /\ Opened(tab, A) /\ ToClose(tab, k, Q, A)
  BY Zenon DEF Performs, Files
<1>3. \/ T = tab /\ (m.op = "open" => r.result = -1)
      \/ m.op = "open" /\ r.result \in Handles /\ tab[r.result] = 0
         /\ T = [tab EXCEPT ![r.result] = m.id]
      \/ m.op = "close" /\ m.h \in Handles /\ T = [tab EXCEPT ![m.h] = 0]
  BY Zenon DEF Performs, Served
<1>4. MaxCalls \in Nat /\ NFD \in Nat
  BY RemoteAssumption, Zenon
<1>5. \A o \in Messages : /\ o.h \in 0 .. NFD /\ o.result \in -1 .. NFD /\ o.id # 0
                          /\ o.h # 0 => o.h \in Handles
                          /\ o.result # 0 /\ o.result # -1 => o.result \in Handles
  BY <1>4, SMTT(30) DEF Messages, Handles
<1>6. \A c \in Clients : k[c].holds # 0 => k[c].holds \in Handles /\ k[c].file # 0
  BY <1>1, <1>4 DEF Own, Callers, Handles
<1>7. CASE T = tab /\ (m.op = "open" => r.result = -1)
  <2>1. Opened(T, A \cup {r})
    BY <1>1, <1>2, <1>7, Zenon DEF Opened
  <2>2. ToClose(T, k, P, A \cup {r})
    BY <1>1, <1>2, <1>7, Zenon DEF ToClose
  <2> QED  BY <2>1, <2>2, <1>2, <1>7, Zenon DEF Files
<1>8. CASE /\ m.op = "open" /\ r.result \in Handles /\ tab[r.result] = 0
           /\ T = [tab EXCEPT ![r.result] = m.id]
  <2> DEFINE h == r.result
  <2>1. /\ h \in Handles /\ tab[h] = 0 /\ T[h] = m.id /\ h # 0
        /\ \A x \in Handles : x # h => T[x] = tab[x]
    BY <1>1, <1>4, <1>8 DEF Handles
  <2>2. Held(T, k)
    <3> SUFFICES ASSUME NEW c \in Clients, k[c].holds # 0, ~Closing(k, c)
                 PROVE  T[k[c].holds] = k[c].file
      BY Zenon DEF Held
    <3>1. tab[k[c].holds] = k[c].file /\ k[c].holds \in Handles /\ k[c].file # 0
      BY <1>2, <1>6, Zenon DEF Held
    <3> QED  BY <3>1, <2>1, Zenon
  <2>3. Opened(T, A \cup {r})
    <3> SUFFICES ASSUME NEW o \in A \cup {r}, o.op = "open", o.result # -1
                 PROVE  o.result # 0 /\ T[o.result] = o.id
      BY Zenon DEF Opened
    <3>1. CASE o = r
      BY <3>1, <2>1, <1>1, Zenon
    <3>2. CASE o \in A
      <4>1. o.result # 0 /\ tab[o.result] = o.id
        BY <3>2, <1>2, Zenon DEF Opened
      <4>2. o.result \in Handles /\ o.id # 0
        BY <3>2, <4>1, <1>1, <1>5, Zenon
      <4> QED  BY <4>1, <4>2, <2>1, Zenon
    <3> QED  BY <3>1, <3>2, Zenon
  <2>4. ToClose(T, k, P, A \cup {r})
    <3> SUFFICES ASSUME NEW o \in P, o.op = "close"
                 PROVE  /\ o.h # 0 /\ T[o.h] # 0
                        /\ \A a \in A \cup {r} : a.op = "open" /\ a.result # -1 => a.result # o.h
                        /\ \A c \in Clients : k[c].holds = o.h => Closing(k, c)
                        /\ \A x \in P : x.op = "close" /\ x.h = o.h => x.id = o.id
      BY Zenon DEF ToClose
    <3>1. /\ o \in Q /\ o.h # 0 /\ tab[o.h] # 0
          /\ \A a \in A : a.op = "open" /\ a.result # -1 => a.result # o.h
          /\ \A c \in Clients : k[c].holds = o.h => Closing(k, c)
          /\ \A x \in Q : x.op = "close" /\ x.h = o.h => x.id = o.id
      BY <1>1, <1>2, Zenon DEF ToClose
    <3>2. o.h \in Handles
      BY <3>1, <1>1, <1>5, Zenon
    <3>3. o.h # h /\ T[o.h] = tab[o.h]
      BY <3>1, <3>2, <2>1, Zenon
    <3> QED  BY <3>1, <3>3, <1>1, Zenon
  <2> QED  BY <2>2, <2>3, <2>4, Zenon DEF Files
<1>9. CASE m.op = "close" /\ m.h \in Handles /\ T = [tab EXCEPT ![m.h] = 0]
  <2>1. \A x \in Handles : x # m.h => T[x] = tab[x]
    BY <1>1, <1>9, Zenon
  <2>2. /\ \A a \in A : a.op = "open" /\ a.result # -1 => a.result # m.h
        /\ \A c \in Clients : k[c].holds = m.h => Closing(k, c)
        /\ \A x \in Q : x.op = "close" /\ x.h = m.h => x.id = m.id
    BY <1>1, <1>2, <1>9, Zenon DEF ToClose
  <2>3. Held(T, k)
    BY <2>1, <2>2, <1>2, <1>6, Zenon DEF Held
  <2>4. Opened(T, A \cup {r})
    <3> SUFFICES ASSUME NEW o \in A \cup {r}, o.op = "open", o.result # -1
                 PROVE  o.result # 0 /\ T[o.result] = o.id
      BY Zenon DEF Opened
    <3>1. o \in A
      BY <1>1, <1>9, Zenon
    <3>2. o.result # 0 /\ tab[o.result] = o.id /\ o.result # m.h
      BY <3>1, <2>2, <1>2, Zenon DEF Opened
    <3>3. o.result \in Handles
      BY <3>1, <3>2, <1>1, <1>5, Zenon
    <3> QED  BY <3>2, <3>3, <2>1, Zenon
  <2>5. ToClose(T, k, P, A \cup {r})
    <3> SUFFICES ASSUME NEW o \in P, o.op = "close"
                 PROVE  /\ o.h # 0 /\ T[o.h] # 0
                        /\ \A a \in A \cup {r} : a.op = "open" /\ a.result # -1 => a.result # o.h
                        /\ \A c \in Clients : k[c].holds = o.h => Closing(k, c)
                        /\ \A x \in P : x.op = "close" /\ x.h = o.h => x.id = o.id
      BY Zenon DEF ToClose
    <3>1. /\ o \in Q /\ o.h # 0 /\ tab[o.h] # 0
          /\ \A a \in A : a.op = "open" /\ a.result # -1 => a.result # o.h
          /\ \A c \in Clients : k[c].holds = o.h => Closing(k, c)
          /\ \A x \in Q : x.op = "close" /\ x.h = o.h => x.id = o.id
      BY <1>1, <1>2, Zenon DEF ToClose
    <3>2. o.h \in Handles /\ o.h # m.h
      BY <3>1, <2>2, <1>1, <1>5, Zenon
    <3>3. T[o.h] = tab[o.h]
      BY <3>2, <2>1, Zenon
    <3>4. r.op # "open"
      BY <1>1, <1>9, Zenon
    <3> QED  BY <3>1, <3>3, <3>4, <1>1, Zenon
  <2> QED  BY <2>3, <2>4, <2>5, Zenon DEF Files
<1> QED  BY <1>3, <1>7, <1>8, <1>9, Zenon

\* exportfs performs a request (ExportServes): the call is now performed, its
\* request is gone and its answer is on the way.
LEMMA ExportServesStep == ASSUME RInv, NEW found \in BOOLEAN, ExportServes(found) PROVE RInv'
<1> DEFINE m == exp.in[1].m
           used == fs_decode(exp.in)
           a == Drop(exp.in, used)
           E == [exp EXCEPT !.in = a]
           R == serve(E, m, found)
           r == [m EXCEPT !.kind = "reply", !.result = R.result]
<1>1. /\ exp.ph = "serve" /\ used > 0
      /\ exp' = [R.E EXCEPT !.ph = "write", !.out = fs_encode(r)]
      /\ served' = [served EXCEPT ![m.id] = @ + 1]
      /\ imp' = imp /\ net' = net /\ cl' = cl /\ n' = n
  BY Zenon DEF ExportServes, Consumed
<1>2. Types
  BY Zenon DEF RInv
<1>3. /\ exp.in \in Seq(Units) /\ net.there \in Seq(Units) /\ imp.outq \in Seq(Units)
      /\ imp.in \o net.back \in Seq(Units) /\ Asking \in Seq(Units) /\ Answering \in Seq(Units)
      /\ exp.tab \in [Handles -> 0 .. MaxCalls] /\ exp \in Exports
      /\ cl \in [Clients -> Callers] /\ served \in [1 .. MaxCalls -> Nat]
      /\ Msgs(Asking) \in SUBSET Messages /\ Msgs(Answering) \in SUBSET Messages
  BY <1>2, PartsOfState, Joined, Zenon DEF Types
<1>4. used \in 1 .. Len(exp.in) /\ exp.in[1].i = 1 /\ m \in Messages
  BY <1>1, <1>3, Decoded, Zenon
<1>5. used \in 0 .. Len(exp.in) /\ Len(exp.in) \in Nat /\ Len(exp.in) # 0
  BY <1>3, <1>4, Elements, SMTT(30)
<1>6. /\ a \in Seq(Units) /\ Stream(a, net.there, imp.outq) = Drop(Asking, used)
      /\ Len(exp.in) <= Len(Asking) /\ Asking[1] = exp.in[1]
  <2>1. a \in Seq(Units)
    BY <1>3, <1>5, Cut, Zenon
  <2> QED  BY <2>1, <1>3, <1>5, TakenInFront, SMTT(30) DEF Asking
<1>7. used \in 1 .. Len(Asking)
  BY <1>3, <1>4, <1>5, <1>6, Elements
<1> DEFINE Q == Msgs(Asking)
           A == Msgs(Answering)
           D == Drop(Asking, used)
           P == Msgs(D)
<1>8. /\ Own(cl) /\ Kept(imp, cl) /\ Once(Asking) /\ Once(Answering)
      /\ Asked(cl, Q) /\ Replied(cl, A)
      /\ imp.alive => Linked(imp, cl, Q) /\ Linked(imp, cl, A)
      /\ imp.alive /\ net.up => Files(exp.tab, cl, Q, A)
  BY Zenon DEF RInv, Correspondence, Files
<1>9. /\ D \in Seq(Units) /\ Once(D) /\ m \in Q /\ P \subseteq Q
      /\ \A o \in P : o.id # m.id
  BY <1>3, <1>4, <1>6, <1>7, <1>8, FirstTaken, Zenon
<1> HIDE DEF a, m, used
<1>10. E \in Exports /\ E.in = a /\ E.tab = exp.tab
  BY <1>3, <1>6, Zenon DEF Exports
<1> HIDE DEF E
<1>11. /\ Served(exp.tab, m, R.E.tab, R.result)
       /\ R.E \in Exports /\ R.E.in = a /\ R.result \in -1 .. NFD
  BY <1>4, <1>10, ServeFacts, Zenon
<1> HIDE DEF R
<1>12. /\ r \in Messages /\ r.id = m.id /\ r.op = m.op /\ r.tag = m.tag /\ r.result = R.result
  BY <1>4, <1>11, Zenon DEF Messages
<1> HIDE DEF r
<1>13. /\ exp' \in Exports /\ exp'.ph = "write" /\ exp'.in = a /\ exp'.out = fs_encode(r)
       /\ exp'.tab = R.E.tab
  <2>1. fs_encode(r) \in Seq(Units)
    BY <1>12, Encoded, Zenon
  <2> DEFINE e == fs_encode(r)
             S == R.E
  <2>2. e \in Seq(Units) /\ S \in Exports /\ S.in = a
        /\ exp' = [S EXCEPT !.ph = "write", !.out = e]
    BY <2>1, <1>1, <1>11, Zenon
  <2> HIDE DEF e, S
  <2>3. exp' \in Exports /\ exp'.ph = "write" /\ exp'.in = a /\ exp'.out = e /\ exp'.tab = S.tab
    BY <2>2, Zenon DEF Exports
  <2> QED  BY <2>3, Zenon DEF e, S
<1>14. /\ served[m.id] = 0 /\ m.id \in 1 .. MaxCalls /\ m.id <= n.calls
       /\ \A c \in Clients : cl[c].ph = "sending" => m.id # cl[c].id
  BY <1>4, <1>8, <1>9, Zenon DEF Asked, Messages
<1>15. /\ served' \in [1 .. MaxCalls -> Nat] /\ served'[m.id] = 1
       /\ \A i \in 1 .. MaxCalls : i # m.id => served'[i] = served[i]
       /\ \A i \in 1 .. MaxCalls : served[i] = 1 => served'[i] = 1
  <2>1. served' \in [1 .. MaxCalls -> Nat] /\ served'[m.id] = 1
        /\ \A i \in 1 .. MaxCalls : i # m.id => served'[i] = served[i]
    BY <1>1, <1>3, <1>14
  <2> QED  BY <2>1, <1>14, Zenon
<1>16. Types'
  BY <1>1, <1>2, <1>13, <1>15, Zenon DEF Types
<1>17. Asking' = D
  BY <1>1, <1>6, <1>13, Zenon DEF Asking
<1>18. Answering' = Answering \o fs_encode(r)
  <2>1. exp.out = <<>>
    BY <1>1, Zenon DEF RInv, Books
  <2>2. (imp.in \o net.back) \o <<>> = imp.in \o net.back
    BY <1>3, JoinedToNone, Zenon
  <2>3. Answering = imp.in \o net.back
    BY <2>1, <2>2, Zenon DEF Answering, Stream
  <2>4. Answering' = (imp.in \o net.back) \o fs_encode(r)
    BY <1>1, <1>13, Zenon DEF Answering, Stream
  <2> QED  BY <2>3, <2>4, Zenon
<1>19. \A o \in A : o.id # m.id /\ served[o.id] = 1 /\ o.id <= n.calls /\ o.id \in 1 .. MaxCalls
  BY <1>3, <1>8, <1>14 DEF Replied, Messages
<1>20. /\ Msgs(Answering \o fs_encode(r)) = A \cup {r} /\ Once(Answering \o fs_encode(r))
  <2>1. \A o \in Msgs(Answering) : o.id # r.id
    BY <1>12, <1>19, Zenon
  <2> QED  BY <2>1, <1>3, <1>8, <1>12, LastPut, Zenon
<1> DEFINE B == A \cup {r}
<1>21. Msgs(Asking)' = P /\ Msgs(Answering)' = B /\ Once(Asking)' /\ Once(Answering)'
  <2> DEFINE W == Answering \o fs_encode(r)
  <2>1. Asking' = D /\ Answering' = W /\ Msgs(W) = B /\ Once(W) /\ Once(D)
    BY <1>9, <1>17, <1>18, <1>20, Zenon
  <2> HIDE DEF W, D, B
  <2> QED  BY <2>1, Afterwards, Zenon
<1> HIDE DEF Q, A, D, P
<1>22. Own(cl)'
  <2>1. ASSUME NEW c \in Clients
        PROVE  /\ cl[c].ph = "sending" => served'[cl[c].id] = 0
               /\ cl[c].got # 0 => served'[cl[c].got] = 1
               /\ cl[c].holds # 0 => served'[cl[c].file] = 1
    <3>1. /\ cl[c].ph = "sending" => cl[c].id # 0 /\ served[cl[c].id] = 0
          /\ cl[c].got # 0 => served[cl[c].got] = 1
          /\ cl[c].holds # 0 => cl[c].file # 0 /\ served[cl[c].file] = 1
      BY <1>8, Zenon DEF Own
    <3>2. cl[c].id \in 0 .. MaxCalls /\ cl[c].got \in 0 .. MaxCalls /\ cl[c].file \in 0 .. MaxCalls
      BY <1>3, Zenon DEF Callers
    <3>3. \A i \in 0 .. MaxCalls : i # 0 => i \in 1 .. MaxCalls
      BY RemoteAssumption
    <3> QED  BY <3>1, <3>2, <3>3, <1>14, <1>15, Zenon
  <2>2. cl' = cl /\ n' = n
    BY <1>1, Zenon
  <2> QED  BY <2>1, <2>2, <1>8, Zenon DEF Own
<1>23. Kept(imp, cl)'
  BY <1>1, <1>8, Zenon DEF Kept
<1>24. Asked(cl, Msgs(Asking))'
  <2>1. ASSUME NEW o \in P PROVE served'[o.id] = 0 /\ o \in Q
    <3>1. o \in Q /\ o.id # m.id /\ served[o.id] = 0
      BY <1>8, <1>9, Zenon DEF Asked
    <3>2. o.id \in 1 .. MaxCalls
      BY <3>1, <1>3, Zenon DEF Q, Messages
    <3> QED  BY <3>1, <3>2, <1>15, Zenon
  <2>2. cl' = cl /\ n' = n
    BY <1>1, Zenon
  <2> QED  BY <2>1, <2>2, <1>8, <1>21, Zenon DEF Asked
<1>25. Replied(cl, Msgs(Answering))'
  <2>1. ASSUME NEW o \in B
        PROVE  /\ o.id <= n.calls /\ served'[o.id] = 1
               /\ \A c \in Clients : cl[c].holds # 0 => o.id # cl[c].file
    <3>1. CASE o = r
      <4>1. \A c \in Clients : cl[c].holds # 0 => served[cl[c].file] = 1
        BY <1>8, Zenon DEF Own
      <4> QED  BY <3>1, <4>1, <1>12, <1>14, <1>15, SMTT(30)
    <3>2. CASE o \in A
      BY <3>2, <1>8, <1>15, <1>19, Zenon DEF Replied
    <3> QED  BY <3>1, <3>2, Zenon
  <2>2. cl' = cl /\ n' = n
    BY <1>1, Zenon
  <2> HIDE DEF B
  <2> QED  BY <2>1, <2>2, <1>21, Zenon DEF Replied
<1>26. (imp.alive => Linked(imp, cl, Msgs(Asking)) /\ Linked(imp, cl, Msgs(Answering)))'
  <2>1. imp.alive => Linked(imp, cl, P) /\ Linked(imp, cl, B)
    <3> SUFFICES ASSUME imp.alive PROVE Linked(imp, cl, P) /\ Linked(imp, cl, B)
      BY Zenon
    <3>1. Linked(imp, cl, Q) /\ Linked(imp, cl, A) /\ m \in Q /\ P \subseteq Q
      BY <1>8, <1>9, Zenon
    <3>2. Linked(imp, cl, {m})
      BY <3>1, Zenon DEF Linked
    <3>3. Linked(imp, cl, {r})
      BY <3>2, <1>12, Zenon DEF Linked
    <3> QED  BY <3>1, <3>3, Zenon DEF Linked
  <2>2. cl' = cl /\ imp' = imp
    BY <1>1, Zenon
  <2> HIDE DEF B
  <2> QED  BY <2>1, <2>2, <1>21 DEF Linked
<1>27. (imp.alive /\ net.up => Files(exp.tab, cl, Msgs(Asking), Msgs(Answering)))'
  <2>1. ASSUME imp.alive, net.up PROVE Files(R.E.tab, cl, P, B)
    <3>1. Q \in SUBSET Messages /\ A \in SUBSET Messages
      BY <1>3, Zenon DEF Q, A
    <3>2. Performs(exp.tab, cl, Q, A, m, R.E.tab, P, r)
      BY <2>1, <3>1, <1>3, <1>8, <1>9, <1>11, <1>12, Zenon DEF Performs
    <3> QED  BY <3>2, PerformedFiles, Zenon
  <2>2. cl' = cl /\ imp' = imp /\ net' = net /\ exp'.tab = R.E.tab
    BY <1>1, <1>13, Zenon
  <2> HIDE DEF B
  <2> QED  BY <2>1, <2>2, <1>21, Zenon DEF Files, Held, Opened, ToClose, Closing
<1>28. Books'
  <2>1. \A i \in 1 .. MaxCalls : served'[i] <= 1 /\ (i > n.calls => served'[i] = 0)
    <3>1. n.calls \in Nat /\ MaxCalls \in Nat
      BY <1>2, PartsOfState
    <3> QED  BY <3>1, <1>14, <1>15, SMTT(30) DEF RInv, Books
  <2>2. imp' = imp /\ cl' = cl /\ net' = net /\ n' = n /\ exp'.ph = "write"
    BY <1>1, <1>13, Zenon
  <2> QED  BY <2>1, <2>2, Zenon DEF RInv, Books, Sending
<1> QED  BY <1>16, <1>21, <1>22, <1>23, <1>24, <1>25, <1>26, <1>27, <1>28, Zenon
         DEF RInv, Correspondence, Files

-----------------------------------------------------------------------------
(* The theorems.                                                            *)

\* The books are kept by every step.
LEMMA NextInv == ASSUME Laws PROVE RInv /\ [Next]_vars => RInv'
<1> SUFFICES ASSUME RInv, [Next]_vars PROVE RInv'
  BY Zenon
<1>1. CASE UNCHANGED vars
  <2>1. /\ imp' = imp /\ exp' = exp /\ net' = net /\ cl' = cl /\ served' = served /\ n' = n
    BY <1>1, Zenon DEF vars
  <2>2. Asking' = Asking /\ Answering' = Answering /\ Types'
    BY <2>1, Zenon DEF Asking, Answering, RInv, Types
  <2>3. Correspondence'
    BY <2>1, <2>2, NothingNew, Zenon DEF RInv
  <2>4. Books'
    BY <2>1, Zenon DEF RInv, Books, Sending
  <2> QED  BY <2>2, <2>3, <2>4, Zenon DEF RInv
<1>2. ASSUME NEW c \in Clients,
             (\E op \in Ops : Call(c, op)) \/ from_client(c) \/ Dies(c)
      PROVE  RInv'
  BY <1>2, CallStep, FromClientStep, DiesStep, Zenon
<1>3. CASE ImportReads
  BY <1>3, ReadEndsStep, ReadReplyStep, Zenon DEF ImportReads
<1>4. CASE Export
  BY <1>4, ExportReadsStep, ExportServesStep, ExportWritesStep, ExportEndsStep, Zenon DEF Export
<1> QED  BY <1>1, <1>2, <1>3, <1>4, WriteReplyStep, ReconnectsStep, BreaksStep, Zenon DEF Next

=============================================================================
