---------------------------- MODULE RemoteSafety ----------------------------
(***************************************************************************)
(* What Remote, the namespace over a wire, promises, for any number of     *)
(* clients, calls, faults and slots and any sizes of buffers: the          *)
(* invariant of RemoteProofs holds, since its two laws of arithmetic do.   *)
(***************************************************************************)
EXTENDS RemoteProofs, FiniteSetTheorems

\* A set of numbers that is not empty has a least one, which is what FirstFree
\* and from_wire choose.
LEMMA LeastIsFirst == LeastFirst
<1> SUFFICES ASSUME NEW S \in SUBSET Nat, S # {}
             PROVE  \E x \in S : \A o \in S : x <= o
  BY Zenon DEF LeastFirst
<1>1. PICK x \in S : \A o \in S : ~(<<o, x>> \in OpToRel(<, Nat))
  BY NatLessThanWellFounded, WFMin, Zenon
<1>2. ASSUME NEW o \in S, o < x PROVE <<o, x>> \in OpToRel(<, Nat)
  <2>1. <<o, x>> \in Nat \X Nat /\ <<o, x>>[1] < <<o, x>>[2]
    BY <1>2, Zenon
  <2> QED  BY <2>1, Zenon DEF OpToRel
<1>3. \A o \in S : ~(o < x)
  BY <1>1, <1>2, Zenon
<1> QED  BY <1>3

\* Those who are sending are finitely many, and are counted as they come and go.
LEMMA SendersAreCounted == SendersCount
<1>1. ASSUME NEW k
      PROVE  /\ Cardinality(Sending(k)) \in Nat
             /\ \A c \in Sending(k) :
                  /\ Cardinality(Sending(k) \ {c}) = Cardinality(Sending(k)) - 1
                  /\ Cardinality(Sending(k)) >= 1
             /\ \A c : c \notin Sending(k) =>
                  Cardinality(Sending(k) \cup {c}) = Cardinality(Sending(k)) + 1
  <2>1. Sending(k) \subseteq Clients /\ IsFiniteSet(Clients)
    BY RemoteAssumption, Zenon DEF Sending
  <2>2. IsFiniteSet(Sending(k))
    BY <2>1, FS_Subset, Zenon
  <2>3. Cardinality(Sending(k)) \in Nat
    BY <2>2, FS_CardinalityType, Zenon
  <2>4. ASSUME NEW c \in Sending(k)
        PROVE  /\ Cardinality(Sending(k) \ {c}) = Cardinality(Sending(k)) - 1
               /\ Cardinality(Sending(k)) >= 1
    <3>1. /\ IsFiniteSet(Sending(k) \ {c})
          /\ Cardinality(Sending(k) \ {c}) = Cardinality(Sending(k)) - 1
      BY <2>2, FS_RemoveElement, Zenon
    <3>2. Cardinality(Sending(k) \ {c}) \in Nat
      BY <3>1, FS_CardinalityType, Zenon
    <3> DEFINE x == Cardinality(Sending(k))
               y == Cardinality(Sending(k) \ {c})
    <3>3. x \in Nat /\ y \in Nat /\ y = x - 1
      BY <3>1, <3>2, <2>3, Zenon
    <3> HIDE DEF x, y
    <3>4. x >= 1
      BY <3>3
    <3> QED  BY <3>3, <3>4, Zenon DEF x, y
  <2>5. ASSUME NEW c, c \notin Sending(k)
        PROVE  Cardinality(Sending(k) \cup {c}) = Cardinality(Sending(k)) + 1
    BY <2>2, <2>5, FS_AddElement, Zenon
  <2> QED  BY <2>3, <2>4, <2>5, Zenon
<1>2. Cardinality({}) = 0
  BY FS_EmptySet, Zenon
<1> QED  BY <1>1, <1>2, Zenon DEF SendersCount

\* The laws hold, and so the invariant does from the beginning and for ever.
LEMMA Inductive == (Init => RInv) /\ (RInv /\ [Next]_vars => RInv')
<1>1. Laws
  BY LeastIsFirst, SendersAreCounted, Zenon DEF Laws
<1> QED  BY <1>1, InitInv, NextInv, Zenon

\* For any number of clients, calls, faults and slots and any sizes of buffers: a
\* client gets the answer to its own call and no other, and a call is performed
\* once at most, and was if it was answered (import.c: from_client, from_wire,
\* drain_in; exportfs.c: serve).
THEOREM EachGetsItsOwnAnswer == Spec => []AnswerIsOwn
<1>1. RInv => AnswerIsOwn
  BY Zenon DEF RInv, Books, Correspondence, Own, AnswerIsOwn
<1> QED  BY <1>1, Inductive, PTL DEF Spec

\* Likewise: while the connection is there, a handle a client holds is that of
\* the file its own open opened, and nobody else's close closes it (exportfs.c:
\* tab_alloc, serve; import.c: from_wire).
THEOREM EachHoldsItsOwnFile == Spec => []HandleIsTheirs
<1>1. RInv => HandleIsTheirs
  BY Zenon DEF RInv, Correspondence, Held, Closing, HandleIsTheirs
<1> QED  BY <1>1, Inductive, PTL DEF Spec

=============================================================================
