--------------------------- MODULE TerminalProofs ---------------------------
(***************************************************************************)
(* Proofs about the terminal, for any sizes of its buffers, any keys and   *)
(* any number of threads: readers get what was typed, each byte once and   *)
(* in order, and nobody is left parked before something to read.           *)
(***************************************************************************)
EXTENDS Terminal, WellFoundedInduction, TLAPS

-----------------------------------------------------------------------------
(* Types                                                                   *)

Pcs == {"none", "read", "parked", "has", "eof", "poke", "exited"}
Whom == Programs \cup {Nobody}
Consoles == [ring : Seq(Keys), waiter : Whom \cup Threads, intr : Whom, fired : BOOLEAN]
Lines ==
  [used : BOOLEAN, owner : Whom, raw : BOOLEAN, dead : BOOLEAN, buf : Seq(Bytes),
   q : Seq(Bytes), waiter : Whom, want : Nat, intr : Whom, fired : BOOLEAN,
   tstate : {"data", "iac", "opt", "sb", "sb_iac"}, cr : BOOLEAN, thread : Nat]
Discs == [L : Lines, wake : BOOLEAN, kills : SUBSET Whom, lossy : BOOLEAN]
Meanings ==
  [t : {"data", "iac", "opt", "sb", "end?"}, cr : BOOLEAN, line : Seq(Bytes),
   due : Seq(Bytes \cup {"wrong"})]

\* The line being typed and the queue are within their arrays.
Fitting(L) == Len(L.buf) <= TTY_LINE - 1 /\ Len(L.q) <= TTY_QUEUE

Types ==
  /\ fifo \in Seq(Keys) /\ script \in Seq(Keys)
  /\ con \in Consoles /\ Len(con.ring) <= RING - 1
  /\ line \in Lines /\ Fitting(line)
  /\ th \in [Threads -> [pc : Pcs, byte : Keys \cup {"none"}, done : BOOLEAN]]
  /\ \A i \in Threads : th[i].pc = "has" => th[i].byte \in Keys
  /\ cl \in [Programs -> {"run", "sent", "recv", "keyboard"}]
  /\ alive \subseteq Programs /\ gone \in BOOLEAN /\ moves \in Nat
  /\ meant \in Meanings /\ lossy \in BOOLEAN

-----------------------------------------------------------------------------
(* Numbers and sequences                                                   *)

\* A set of numbers has a lowest one: line_new takes the first thread number
\* that was never used.
LEMMA HasLeast ==
  ASSUME NEW S \in SUBSET Nat, S # {}
  PROVE  \E f \in S : \A g \in S : f <= g
<1>1. PICK f \in S : \A g \in S : ~(<<g, f>> \in OpToRel(<, Nat))
  BY NatLessThanWellFounded, WFMin, Zenon
<1>2. ASSUME NEW g \in S, g < f PROVE <<g, f>> \in OpToRel(<, Nat)
  <2>1. <<g, f>> \in Nat \X Nat /\ <<g, f>>[1] < <<g, f>>[2]
    BY <1>2, Zenon
  <2> QED
    BY <2>1, Zenon DEF OpToRel
<1>3. \A g \in S : ~(g < f)
  BY <1>1, <1>2, Zenon
<1> QED
  BY <1>3

\* The beginning of a sequence, and what is left of it.
LEMMA PartFacts ==
  ASSUME NEW T, NEW s \in Seq(T), NEW n \in Nat, n <= Len(s)
  PROVE  /\ SubSeq(s, 1, n) \in Seq(T) /\ Len(SubSeq(s, 1, n)) = n
         /\ SubSeq(s, n + 1, Len(s)) \in Seq(T)
         /\ Len(SubSeq(s, n + 1, Len(s))) = Len(s) - n
         /\ SubSeq(s, 1, Len(s)) = s
  OBVIOUS

LEMMA JoinFacts ==
  ASSUME NEW T, NEW s \in Seq(T), NEW t \in Seq(T)
  PROVE  /\ s \o t \in Seq(T) /\ Len(s \o t) = Len(s) + Len(t)
         /\ t = <<>> => s \o t = s
  OBVIOUS

\* Induction up to n, on the set of numbers that have the property.
LEMMA UpTo ==
  ASSUME NEW n \in Nat, NEW S, 0 \in S, \A i \in 1 .. n : i - 1 \in S => i \in S
  PROVE  \A i \in 0 .. n : i \in S
<1> SUFFICES ASSUME (0 .. n) \ S # {} PROVE FALSE
  BY Zenon
<1>1. (0 .. n) \ S \in SUBSET Nat
  OBVIOUS
<1>2. PICK f \in (0 .. n) \ S : \A g \in (0 .. n) \ S : f <= g
  BY <1>1, HasLeast, Zenon
<1>3. f # 0 /\ f \in 1 .. n /\ f - 1 \in 0 .. n
  BY <1>2
<1>4. f - 1 \notin S
  BY <1>2, <1>3, Zenon
<1> QED
  BY <1>2, <1>3, <1>4

\* f goes n steps of F from v.
Orbit(f, n, V, v, F) ==
  /\ f \in [0 .. n -> V]
  /\ f[0] = v /\ \A i \in 1 .. n : f[i] = F[i][f[i - 1]]

\* What n steps of F lead to: Drain goes through the bytes like this.
LEMMA Iterates ==
  ASSUME NEW n \in Nat, NEW V, NEW v \in V, NEW F \in [1 .. n -> [V -> V]]
  PROVE  \E f : Orbit(f, n, V, v, F)
<1> DEFINE Good(m) == \E f \in [0 .. m -> V] :
                        f[0] = v /\ \A i \in 1 .. m : f[i] = F[i][f[i - 1]]
           S == {m \in 0 .. n : Good(m)}
<1>1. 0 \in S
  <2> DEFINE f == [i \in 0 .. 0 |-> v]
  <2>1. f \in [0 .. 0 -> V] /\ f[0] = v /\ \A i \in 1 .. 0 : f[i] = F[i][f[i - 1]]
    OBVIOUS
  <2>2. Good(0)
    BY <2>1, Zenon
  <2> QED
    BY <2>2
<1>2. ASSUME NEW m \in 1 .. n, m - 1 \in S PROVE m \in S
  <2>1. PICK g \in [0 .. m - 1 -> V] :
          g[0] = v /\ \A i \in 1 .. m - 1 : g[i] = F[i][g[i - 1]]
    BY <1>2, Zenon
  <2> DEFINE f == [i \in 0 .. m |-> IF i = m THEN F[m][g[m - 1]] ELSE g[i]]
  <2>2. F[m][g[m - 1]] \in V
    BY <2>1
  <2>3. f \in [0 .. m -> V]
    BY <2>2
  <2>4. f[0] = v
    BY <2>1
  <2>5. ASSUME NEW i \in 1 .. m PROVE f[i] = F[i][f[i - 1]]
    <3>1. f[i - 1] = g[i - 1]
      OBVIOUS
    <3>2. CASE i = m
      BY <3>1, <3>2
    <3>3. CASE i # m
      <4>1. i \in 1 .. m - 1 /\ f[i] = g[i]
        BY <3>3
      <4> QED
        BY <2>1, <3>1, <4>1, Zenon
    <3> QED
      BY <3>2, <3>3, Zenon
  <2>6. Good(m)
    BY <2>3, <2>4, <2>5, Zenon
  <2>7. m \in 0 .. n
    OBVIOUS
  <2> QED
    BY <2>6, <2>7, Zenon
<1>3. \A i \in 0 .. n : i \in S
  <2> HIDE DEF S
  <2>1. \A m \in 1 .. n : m - 1 \in S => m \in S
    BY <1>2, Zenon
  <2> QED
    BY <1>1, <2>1, UpTo, Zenon
<1>4. n \in 0 .. n
  OBVIOUS
<1> QED
  BY <1>3, <1>4, Zenon DEF Orbit

-----------------------------------------------------------------------------
(* The console's ring                                                      *)

Drains == [ring : Seq(Keys), intr : Whom, fired : BOOLEAN, kills : SUBSET Whom]
Ringed == {K \in Drains : Len(K.ring) <= RING - 1}

\* A byte goes to the ring if there is room, or kills (console_server,
\* ring_put).
LEMMA DrainedFacts ==
  ASSUME NEW K \in Ringed, NEW c \in Keys
  PROVE  Drained(K, c) \in Ringed
<1>1. K \in Drains /\ Len(K.ring) <= RING - 1 /\ RING \in Nat
  BY TerminalAssumption, Zenon DEF Ringed
<1>2. CASE c = "intr" /\ K.intr # Nobody
  <2>1. Drained(K, c) = [K EXCEPT !.intr = Nobody, !.fired = TRUE, !.kills = @ \cup {K.intr}]
    BY <1>2, Zenon DEF Drained
  <2>2. Drained(K, c) \in Drains /\ Drained(K, c).ring = K.ring
    BY <1>1, <2>1, Zenon DEF Drains, Whom
  <2> QED
    BY <1>1, <2>2, Zenon DEF Ringed
<1>3. CASE ~(c = "intr" /\ K.intr # Nobody)
  <2>1. Drained(K, c) = ring_put(K, c)
    BY <1>3, Zenon DEF Drained
  <2>2. K.ring \in Seq(Keys) /\ Len(K.ring) \in Nat
    BY <1>1 DEF Drains
  <2>3. CASE Len(K.ring) # RING - 1
    <3>1. Drained(K, c) = [K EXCEPT !.ring = Append(@, c)]
      BY <2>1, <2>3, Zenon DEF ring_put
    <3>2. /\ Append(K.ring, c) \in Seq(Keys)
          /\ Len(Append(K.ring, c)) <= RING - 1
      BY <1>1, <2>2, <2>3
    <3>3. Drained(K, c) \in Drains /\ Drained(K, c).ring = Append(K.ring, c)
      BY <1>1, <3>1, <3>2, Zenon DEF Drains
    <3> QED
      BY <3>2, <3>3, Zenon DEF Ringed
  <2> QED
    BY <2>1, <2>3, Zenon DEF ring_put
<1> QED
  BY <1>2, <1>3, Zenon

\* The ring is never overrun, however many bytes an interrupt finds.
LEMMA DrainFacts ==
  ASSUME NEW K \in Ringed, NEW bytes \in Seq(Keys)
  PROVE  Drain(K, bytes) \in Ringed
<1> DEFINE n == Len(bytes)
           Is(f) == f = [i \in 0 .. n |-> IF i = 0 THEN K ELSE Drained(f[i - 1], bytes[i])]
           after == CHOOSE f : Is(f)
           F == [i \in 1 .. n |-> [X \in Ringed |-> Drained(X, bytes[i])]]
<1>1. n \in Nat /\ \A i \in 1 .. n : bytes[i] \in Keys
  OBVIOUS
<1>2. F \in [1 .. n -> [Ringed -> Ringed]]
  BY <1>1, DrainedFacts, Zenon
<1>3. PICK f : Orbit(f, n, Ringed, K, F)
  <2>1. n \in Nat
    BY <1>1, Zenon
  <2> HIDE DEF F, n
  <2> QED
    BY <1>2, <2>1, Iterates, Zenon
<1>4. Is(f)
  <2>1. f \in [0 .. n -> Ringed] /\ f[0] = K
    BY <1>3, Zenon DEF Orbit
  <2>2. ASSUME NEW i \in 1 .. n PROVE f[i] = Drained(f[i - 1], bytes[i])
    <3>1. f[i - 1] \in Ringed
      BY <1>1, <2>1
    <3>2. f[i] = F[i][f[i - 1]]
      BY <1>3, Zenon DEF Orbit
    <3> QED
      BY <3>1, <3>2, Zenon
  <2> HIDE DEF n, F
  <2> QED
    BY <1>1, <2>1, <2>2
<1>5. Is(after)
  BY <1>4, Zenon
<1>6. after[0] = K /\ \A i \in 1 .. n : after[i] = Drained(after[i - 1], bytes[i])
  <2> HIDE DEF after, n
  <2> QED
    BY <1>1, <1>5
<1>7. \A i \in 0 .. n : i \in {j \in 0 .. n : after[j] \in Ringed}
  <2> HIDE DEF after, n
  <2> DEFINE S == {j \in 0 .. n : after[j] \in Ringed}
  <2>1. 0 \in S
    BY <1>1, <1>6
  <2>2. ASSUME NEW i \in 1 .. n, i - 1 \in S PROVE i \in S
    BY <1>1, <1>6, <2>2, DrainedFacts
  <2>3. \A i \in 1 .. n : i - 1 \in S => i \in S
    BY <2>2, Zenon
  <2> HIDE DEF S
  <2>4. \A i \in 0 .. n : i \in S
    BY <1>1, <2>1, <2>3, UpTo, Zenon
  <2> QED
    BY <2>4, Zenon DEF S
<1>8. Drain(K, bytes) = after[n]
  BY Zenon DEF Drain
<1> QED
  BY <1>1, <1>7, <1>8

-----------------------------------------------------------------------------
(* The discipline of srv_tty.c                                             *)

\* What editing leaves alone in a line: who made it and who reads it, and where
\* it is in a telnet command.
Fixed(L, M) ==
  /\ M.used = L.used /\ M.waiter = L.waiter /\ M.thread = L.thread
  /\ M.tstate = L.tstate

\* What a byte may do to a line and the queue: whoever made the line and reads
\* it stays, a dead line stays dead, and nothing becomes readable in silence.
Keeps(R, F) ==
  /\ F \in Discs /\ Fitting(F.L)
  /\ F.L.used = R.L.used /\ F.L.waiter = R.L.waiter /\ F.L.thread = R.L.thread
  /\ R.L.dead => F.L.dead
  /\ R.wake => F.wake
  /\ F.wake \/ F.L.q = R.L.q
  /\ R.lossy => F.lossy

\* The line is what the bytes mean, unless something was dropped.
Follows(m, R) ==
  ~R.lossy => m.due = R.L.q /\ m.line = R.L.buf /\ m.cr = R.L.cr

\* The parts of a state of the discipline have their types.
LEMMA PartsOfDisc ==
  ASSUME NEW R \in Discs
  PROVE  /\ R.L \in Lines /\ R.wake \in BOOLEAN /\ R.lossy \in BOOLEAN
         /\ R.L.q \in Seq(Bytes) /\ R.L.buf \in Seq(Bytes)
         /\ R.L.cr \in BOOLEAN /\ R.L.dead \in BOOLEAN
         /\ Len(R.L.q) \in Nat /\ Len(R.L.buf) \in Nat
BY DEF Discs, Lines

\* q_put: what fits, in order.
LEMMA QueueFacts ==
  ASSUME NEW R \in Discs, Fitting(R.L), NEW b \in Seq(Bytes)
  PROVE  LET P == q_put(R, b)
         IN /\ P \in Discs /\ Fitting(P.L) /\ Fixed(R.L, P.L)
            /\ P.L.dead = R.L.dead /\ P.L.buf = R.L.buf /\ P.L.cr = R.L.cr
            /\ P.wake = R.wake
            /\ R.lossy => P.lossy
            /\ ~P.lossy => P.L.q = R.L.q \o b
<1> DEFINE room == TTY_QUEUE - Len(R.L.q)
           n == IF Len(b) > room THEN room ELSE Len(b)
           q == R.L.q \o SubSeq(b, 1, n)
           P == q_put(R, b)
<1>1. /\ R.L.q \in Seq(Bytes) /\ Len(R.L.q) <= TTY_QUEUE /\ Len(R.L.q) \in Nat
      /\ Len(b) \in Nat /\ TTY_QUEUE \in Nat /\ R.lossy \in BOOLEAN /\ R.L \in Lines
  BY TerminalAssumption, PartsOfDisc DEF Fitting
<1>2. n \in Nat /\ n <= Len(b) /\ n <= room
  <2>1. room \in Nat
    BY <1>1
  <2> HIDE DEF room
  <2> QED
    BY <1>1, <2>1
<1>3. SubSeq(b, 1, n) \in Seq(Bytes) /\ Len(SubSeq(b, 1, n)) = n /\ SubSeq(b, 1, Len(b)) = b
  <2> HIDE DEF n
  <2> QED
    BY <1>2, PartFacts, Zenon
<1>4. q \in Seq(Bytes) /\ Len(q) = Len(R.L.q) + n
  <2> HIDE DEF n
  <2> QED
    BY <1>1, <1>3, JoinFacts
<1>5. P = [R EXCEPT !.L.q = q, !.lossy = @ \/ n < Len(b)]
  BY Zenon DEF q_put
<1>6. /\ P.L = [R.L EXCEPT !.q = q] /\ P.wake = R.wake
      /\ P.lossy = (R.lossy \/ n < Len(b)) /\ P \in Discs
  <2> HIDE DEF n, q, P
  <2> QED
    BY <1>1, <1>2, <1>4, <1>5, Zenon DEF Discs, Lines
<1>7. /\ P.L.q = q /\ P.L.buf = R.L.buf /\ Fixed(R.L, P.L)
      /\ P.L.dead = R.L.dead /\ P.L.cr = R.L.cr
  <2> HIDE DEF n, q, P
  <2> QED
    BY <1>1, <1>6, Zenon DEF Lines, Fixed
<1>8. Fitting(P.L)
  <2>1. n <= TTY_QUEUE - Len(R.L.q) /\ n \in Nat
    BY <1>2, Zenon
  <2> HIDE DEF q, P, n
  <2>2. Len(P.L.q) <= TTY_QUEUE
    BY <1>1, <1>4, <1>7, <2>1
  <2> QED
    BY <1>7, <2>2, Zenon DEF Fitting
<1>9. ~P.lossy => q = R.L.q \o b
  <2>1. ~P.lossy => n = Len(b)
    <3>1. n \in Nat /\ n <= Len(b)
      BY <1>2, Zenon
    <3> HIDE DEF P, n
    <3>2. ~P.lossy => ~(n < Len(b))
      BY <1>6, Zenon
    <3> QED
      BY <1>1, <3>1, <3>2
  <2> HIDE DEF P, n
  <2> QED
    BY <1>3, <2>1, Zenon
<1> QED
  BY <1>6, <1>7, <1>8, <1>9, Zenon

\* dev_write: at most the line is found dead.
LEMMA EchoFacts ==
  ASSUME NEW R \in Discs, gone \in BOOLEAN
  PROVE  LET E == echo(R)
         IN /\ E \in Discs /\ Fixed(R.L, E.L)
            /\ E.L.buf = R.L.buf /\ E.L.q = R.L.q /\ E.L.cr = R.L.cr
            /\ R.L.dead => E.L.dead
            /\ E.wake = R.wake /\ E.lossy = R.lossy
<1> DEFINE E == echo(R)
           d == R.L.dead \/ gone
<1>1. E = [R EXCEPT !.L.dead = d] /\ R.L \in Lines /\ d \in BOOLEAN
  BY PartsOfDisc, Zenon DEF echo
<1> HIDE DEF d, E
<1>2. E.L = [R.L EXCEPT !.dead = d] /\ E.wake = R.wake /\ E.lossy = R.lossy /\ E \in Discs
  BY <1>1, Zenon DEF Discs, Lines
<1>3. /\ Fixed(R.L, E.L) /\ E.L.buf = R.L.buf /\ E.L.q = R.L.q /\ E.L.cr = R.L.cr
      /\ E.L.dead = d
  BY <1>1, <1>2 DEF Lines, Fixed
<1>4. R.L.dead => d
  BY PartsOfDisc, Zenon DEF d
<1> QED
  BY <1>2, <1>3, <1>4, Zenon DEF E

\* The end of a line, or as much of it as is cut back.
LEMMA CutFacts ==
  ASSUME NEW buf \in Seq(Bytes), NEW these
  PROVE  /\ CutBack(buf, these) \in Seq(Bytes)
         /\ Len(CutBack(buf, these)) <= Len(buf)
<1> DEFINE ends == {k \in 0 .. Len(buf) : k > 0 => buf[k] \notin these}
<1>1. 0 \in ends /\ Len(buf) \in Nat
  OBVIOUS
<1> DEFINE up == {Len(buf) - k : k \in ends}
<1>2. up \in SUBSET Nat /\ up # {}
  BY <1>1
<1>3. PICK f \in up : \A g \in up : f <= g
  BY <1>2, HasLeast, Zenon
<1>4. PICK k \in ends : f = Len(buf) - k
  BY <1>3, Zenon
<1>5. ASSUME NEW o \in ends PROVE o <= k
  <2>1. Len(buf) - o \in up
    BY Zenon
  <2>2. Len(buf) - k <= Len(buf) - o
    BY <1>3, <1>4, <2>1, Zenon
  <2>3. o \in Nat /\ k \in Nat
    OBVIOUS
  <2> HIDE DEF ends
  <2> QED
    BY <1>1, <2>2, <2>3
<1> DEFINE k0 == CHOOSE k1 \in ends : \A o \in ends : o <= k1
<1>6. k0 \in ends
  BY <1>4, <1>5, Zenon
<1>7. CutBack(buf, these) = SubSeq(buf, 1, k0) /\ k0 \in Nat /\ k0 <= Len(buf)
  BY <1>6 DEF CutBack
<1> HIDE DEF k0
<1> QED
  BY <1>7, PartFacts

\* The line being typed is changed, and the change printed.
LEMMA EditFacts ==
  ASSUME gone \in BOOLEAN, NEW R \in Discs, Fitting(R.L),
         NEW b \in Seq(Bytes), Len(b) <= TTY_LINE - 1
  PROVE  LET E == echo([R EXCEPT !.L.buf = b])
         IN /\ Keeps(R, E) /\ E.L.buf = b /\ E.L.q = R.L.q /\ E.L.cr = R.L.cr
            /\ E.L.tstate = R.L.tstate /\ E.lossy = R.lossy
<1> DEFINE B == [R EXCEPT !.L.buf = b]
           E == echo(B)
<1>1. B \in Discs /\ B.L = [R.L EXCEPT !.buf = b] /\ B.wake = R.wake /\ B.lossy = R.lossy
  BY Zenon DEF Discs, Lines
<1>2. R.L \in Lines
  BY PartsOfDisc, Zenon
<1> HIDE DEF B
<1>3. /\ B.L.buf = b /\ B.L.q = R.L.q /\ B.L.cr = R.L.cr /\ B.L.dead = R.L.dead
      /\ Fixed(R.L, B.L)
  BY <1>1, <1>2, Zenon DEF Lines, Fixed
<1>4. /\ E \in Discs /\ Fixed(B.L, E.L)
      /\ E.L.buf = B.L.buf /\ E.L.q = B.L.q /\ E.L.cr = B.L.cr
      /\ B.L.dead => E.L.dead
      /\ E.wake = B.wake /\ E.lossy = B.lossy
  BY <1>1, EchoFacts, Zenon
<1> HIDE DEF E
<1>5. Fitting(E.L)
  BY <1>3, <1>4, Zenon DEF Fitting
<1>6. Keeps(R, E)
  BY <1>1, <1>3, <1>4, <1>5, Zenon DEF Keeps, Fixed
<1> QED
  BY <1>1, <1>3, <1>4, <1>6, Zenon DEF E, B, Fixed

LEMMA EraseFacts ==
  ASSUME gone \in BOOLEAN, NEW R \in Discs, Fitting(R.L),
         NEW b \in Seq(Bytes), Len(b) <= TTY_LINE - 1
  PROVE  LET E == ErasedTo(R, b)
         IN /\ Keeps(R, E) /\ E.L.buf = b /\ E.L.q = R.L.q /\ E.L.cr = R.L.cr
            /\ E.L.tstate = R.L.tstate /\ E.lossy = R.lossy
<1>1. CASE b = R.L.buf
  BY <1>1, Zenon DEF ErasedTo, Keeps
<1>2. CASE b # R.L.buf
  BY <1>2, EditFacts, Zenon DEF ErasedTo
<1> QED
  BY <1>1, <1>2, Zenon

\* The line being typed has gone to the queue, and somebody is to be woken.
LEMMA FinishFacts ==
  ASSUME NEW R \in Discs, Fitting(R.L), NEW Q \in Discs, Fitting(Q.L),
         Fixed(R.L, Q.L), Q.L.dead = R.L.dead, Q.L.cr = R.L.cr, R.lossy => Q.lossy
  PROVE  LET E == [Q EXCEPT !.L.buf = <<>>, !.wake = TRUE]
         IN /\ Keeps(R, E) /\ E.L.buf = <<>> /\ E.L.q = Q.L.q /\ E.L.cr = R.L.cr
            /\ E.L.tstate = R.L.tstate /\ E.lossy = Q.lossy /\ E.wake
<1> DEFINE E == [Q EXCEPT !.L.buf = <<>>, !.wake = TRUE]
<1>1. <<>> \in Seq(Bytes) /\ Q.L \in Lines /\ Len(<<>>) = 0
  BY PartsOfDisc
<1>2. E.L = [Q.L EXCEPT !.buf = <<>>] /\ E.wake = TRUE /\ E.lossy = Q.lossy
  BY Zenon DEF Discs
<1>3. E.L \in Lines
  <2> HIDE DEF E
  <2>1. [Q.L EXCEPT !.buf = <<>>] \in Lines
    BY <1>1, Zenon DEF Lines
  <2> QED
    BY <1>2, <2>1, Zenon
<1>4. E \in Discs
  BY <1>2, <1>3, Zenon DEF Discs
<1>5. /\ E.L.buf = <<>> /\ E.L.q = Q.L.q /\ E.L.cr = Q.L.cr /\ E.L.dead = Q.L.dead
      /\ Fixed(Q.L, E.L)
  <2> HIDE DEF E
  <2> QED
    BY <1>1, <1>2, Zenon DEF Lines, Fixed
<1> HIDE DEF E
<1>6. Fitting(E.L)
  BY <1>1, <1>5, TerminalAssumption DEF Fitting
<1>7. Keeps(R, E)
  BY <1>2, <1>4, <1>5, <1>6, Zenon DEF Keeps, Fixed
<1> QED
  BY <1>2, <1>5, <1>7, Zenon DEF E, Fixed

\* Enter: the line and its end, each byte once, or something is lost (line_done).
LEMMA LineDoneFacts ==
  ASSUME gone \in BOOLEAN, NEW R \in Discs, Fitting(R.L)
  PROVE  LET E == line_done(R)
         IN /\ Keeps(R, E) /\ E.L.buf = <<>> /\ E.L.cr = R.L.cr
            /\ ~E.lossy => E.L.q = R.L.q \o R.L.buf \o <<"nl">>
            /\ E.L.tstate = R.L.tstate
<1> DEFINE P == q_put(R, R.L.buf)
           Q == q_put(P, <<"nl">>)
           D == [Q EXCEPT !.L.buf = <<>>, !.wake = TRUE]
           E == echo(D)
<1>1. R.L.buf \in Seq(Bytes) /\ <<"nl">> \in Seq(Bytes)
  BY PartsOfDisc DEF Bytes
<1>2. /\ P \in Discs /\ Fitting(P.L) /\ Fixed(R.L, P.L)
      /\ P.L.dead = R.L.dead /\ P.L.cr = R.L.cr
      /\ R.lossy => P.lossy
      /\ ~P.lossy => P.L.q = R.L.q \o R.L.buf
  BY <1>1, QueueFacts, Zenon
<1> HIDE DEF P
<1>3. /\ Q \in Discs /\ Fitting(Q.L) /\ Fixed(P.L, Q.L)
      /\ Q.L.dead = P.L.dead /\ Q.L.cr = P.L.cr
      /\ P.lossy => Q.lossy
      /\ ~Q.lossy => Q.L.q = P.L.q \o <<"nl">>
  BY <1>1, <1>2, QueueFacts, Zenon
<1> HIDE DEF Q
<1>4. Fixed(R.L, Q.L) /\ Q.L.dead = R.L.dead /\ Q.L.cr = R.L.cr /\ (R.lossy => Q.lossy)
  BY <1>2, <1>3, Zenon DEF Fixed
<1>5. /\ Keeps(R, D) /\ D.L.buf = <<>> /\ D.L.q = Q.L.q /\ D.L.cr = R.L.cr
      /\ D.L.tstate = R.L.tstate /\ D.lossy = Q.lossy /\ D.wake
  BY <1>3, <1>4, FinishFacts, Zenon
<1> HIDE DEF D
<1>6. /\ E \in Discs /\ Fixed(D.L, E.L)
      /\ E.L.buf = D.L.buf /\ E.L.q = D.L.q /\ E.L.cr = D.L.cr
      /\ D.L.dead => E.L.dead
      /\ E.wake = D.wake /\ E.lossy = D.lossy
  <2>1. D \in Discs
    BY <1>5, Zenon DEF Keeps
  <2> QED
    BY <2>1, EchoFacts, Zenon
<1> HIDE DEF E
<1>7. Keeps(R, E)
  BY <1>5, <1>6, Zenon DEF Keeps, Fixed, Fitting
<1>8. ~E.lossy => E.L.q = R.L.q \o R.L.buf \o <<"nl">>
  BY <1>2, <1>3, <1>5, <1>6, Zenon
<1>9. E = line_done(R)
  BY Zenon DEF E, D, Q, P, line_done
<1>10. E.L.tstate = R.L.tstate /\ E.L.buf = <<>> /\ E.L.cr = R.L.cr
  BY <1>5, <1>6, Zenon DEF Fixed
<1> QED
  BY <1>7, <1>8, <1>9, <1>10, Zenon

-----------------------------------------------------------------------------
(* A byte, and what it means                                               *)

\* A byte that is no part of a telnet command: from R to E, and from m to N.
Means(m, R, N, E) ==
  Keeps(R, E) /\ E.L.tstate = R.L.tstate /\ N \in Meanings /\ N.t = m.t /\ Follows(N, E)

\* What becomes due is a sequence of bytes.
LEMMA DueFacts ==
  ASSUME NEW m \in Meanings
  PROVE  /\ m.due \o m.line \in Seq(Bytes \cup {"wrong"})
         /\ m.due \o m.line \o <<"nl">> \in Seq(Bytes \cup {"wrong"})
         /\ \A c \in Keys : /\ Append(m.due, c) \in Seq(Bytes \cup {"wrong"})
                            /\ Append(m.due, c) = m.due \o <<c>>
<1>1. m.due \in Seq(Bytes \cup {"wrong"}) /\ m.line \in Seq(Bytes \cup {"wrong"})
  <2>1. m.due \in Seq(Bytes \cup {"wrong"}) /\ m.line \in Seq(Bytes)
    BY Zenon DEF Meanings
  <2>2. ASSUME NEW T, NEW s \in Seq(T), NEW U, T \subseteq U PROVE s \in Seq(U)
    BY <2>2
  <2> QED
    BY <2>1, <2>2, Zenon
<1>2. m.due \o m.line \in Seq(Bytes \cup {"wrong"})
  BY <1>1, JoinFacts, Zenon
<1>3. <<"nl">> \in Seq(Bytes \cup {"wrong"})
  BY DEF Bytes
<1> QED
  BY <1>1, <1>2, <1>3, JoinFacts DEF Bytes

\* The editing of a line means what it does.
LEMMA EditMeans ==
  ASSUME NEW R \in Discs, NEW m \in Meanings, Follows(m, R), NEW b \in Seq(Bytes),
         NEW l \in Seq(Bytes), ~R.lossy => b = l, NEW E,
         Keeps(R, E) /\ E.L.buf = b /\ E.L.q = R.L.q /\ E.L.cr = R.L.cr
           /\ E.L.tstate = R.L.tstate /\ E.lossy = R.lossy
  PROVE  Means(m, R, [m EXCEPT !.line = l], E)
<1> DEFINE N == [m EXCEPT !.line = l]
<1>1. N \in Meanings /\ N.t = m.t /\ N.line = l /\ N.due = m.due /\ N.cr = m.cr
  BY Zenon DEF Meanings
<1> HIDE DEF N
<1>2. Follows(N, E)
  BY <1>1, Zenon DEF Follows
<1>3. Means(m, R, N, E)
  BY <1>1, <1>2, Zenon DEF Means
<1> QED
  BY <1>3, Zenon DEF N

\* A finished line is due.
LEMMA FinishMeans ==
  ASSUME NEW R \in Discs, NEW m \in Meanings, Follows(m, R),
         NEW d \in Seq(Bytes \cup {"wrong"}), NEW E,
         Keeps(R, E) /\ E.L.buf = <<>> /\ E.L.cr = R.L.cr /\ E.L.tstate = R.L.tstate,
         ~E.lossy => E.L.q = d
  PROVE  Means(m, R, [m EXCEPT !.due = d, !.line = <<>>], E)
<1> DEFINE N == [m EXCEPT !.due = d, !.line = <<>>]
<1>1. N \in Meanings /\ N.t = m.t /\ N.line = <<>> /\ N.due = d /\ N.cr = m.cr
  <2>1. <<>> \in Seq(Bytes)
    OBVIOUS
  <2> QED
    BY <2>1, Zenon DEF Meanings
<1> HIDE DEF N
<1>2. Follows(N, E)
  BY <1>1, Zenon DEF Follows, Keeps
<1>3. Means(m, R, N, E)
  BY <1>1, <1>2, Zenon DEF Means
<1> QED
  BY <1>3, Zenon DEF N

\* Nothing happens.
LEMMA NothingMeans ==
  ASSUME NEW R \in Discs, Fitting(R.L), NEW m \in Meanings, Follows(m, R)
  PROVE  Means(m, R, m, R)
BY Zenon DEF Means, Keeps

\* What is left of a line when the last character, or the last word, is erased.
LEMMA EraseSizes ==
  ASSUME NEW b \in Seq(Bytes)
  PROVE  /\ SubSeq(b, 1, Len(b) - 1) \in Seq(Bytes) /\ Len(SubSeq(b, 1, Len(b) - 1)) <= Len(b)
         /\ LastWordCut(b) \in Seq(Bytes) /\ Len(LastWordCut(b)) <= Len(b)
<1>1. Len(b) \in Nat
  OBVIOUS
<1>2. SubSeq(b, 1, Len(b) - 1) \in Seq(Bytes) /\ Len(SubSeq(b, 1, Len(b) - 1)) <= Len(b)
  <2>1. CASE Len(b) = 0
    BY <2>1
  <2>2. CASE Len(b) # 0
    <3>1. Len(b) - 1 \in Nat /\ Len(b) - 1 <= Len(b)
      BY <1>1, <2>2
    <3> QED
      BY <1>1, <3>1, PartFacts, Zenon
  <2> QED
    BY <2>1, <2>2, Zenon
<1> DEFINE w == CutBack(b, {"space"})
<1>3. w \in Seq(Bytes) /\ Len(w) <= Len(b)
  BY CutFacts, Zenon
<1> HIDE DEF w
<1>4. CutBack(w, Bytes \ {"space"}) \in Seq(Bytes) /\ Len(CutBack(w, Bytes \ {"space"})) <= Len(w)
  BY <1>3, CutFacts, Zenon
<1>5. LastWordCut(b) = CutBack(w, Bytes \ {"space"})
  BY Zenon DEF LastWordCut, w
<1>6. LastWordCut(b) \in Seq(Bytes) /\ Len(LastWordCut(b)) <= Len(b)
  <2> DEFINE v == CutBack(w, Bytes \ {"space"})
  <2>1. v \in Seq(Bytes) /\ Len(v) <= Len(w) /\ Len(w) <= Len(b)
    BY <1>3, <1>4, Zenon
  <2>2. Len(v) \in Nat /\ Len(w) \in Nat
    BY <1>3, <2>1
  <2> HIDE DEF v
  <2>3. Len(v) <= Len(b)
    BY <1>1, <2>1, <2>2
  <2> QED
    BY <1>5, <2>1, <2>3, Zenon DEF v
<1> QED
  BY <1>2, <1>6, Zenon

\* Which editing a byte calls for in cooked mode, and what it means.
LEMMA CookedBytes ==
  ASSUME NEW R, NEW c
  PROVE  /\ c \in {"cr", "lf"} => CookedByte(R, c) = line_done(R)
         /\ c = "nul" => CookedByte(R, c) = R
         /\ c = "intr" => CookedByte(R, c) = echo([R EXCEPT !.L.buf = <<>>])
         /\ c = "kill" => CookedByte(R, c) = ErasedTo(R, <<>>)
         /\ c = "eof" /\ R.L.buf # <<>>
              => CookedByte(R, c) = [q_put(R, R.L.buf) EXCEPT !.L.buf = <<>>, !.wake = TRUE]
         /\ c = "eof" /\ R.L.buf = <<>>
              => CookedByte(R, c) = [R EXCEPT !.L.dead = TRUE, !.wake = TRUE]
         /\ c = "bs" => CookedByte(R, c) = ErasedTo(R, SubSeq(R.L.buf, 1, Len(R.L.buf) - 1))
         /\ c = "word" => CookedByte(R, c) = ErasedTo(R, LastWordCut(R.L.buf))
         /\ c \notin Control /\ Len(R.L.buf) < TTY_LINE - 1
              => CookedByte(R, c) = echo([R EXCEPT !.L.buf = Append(R.L.buf, c)])
         /\ c \notin Control /\ ~(Len(R.L.buf) < TTY_LINE - 1) => CookedByte(R, c) = R
<1>1. c \in {"cr", "lf"} => CookedByte(R, c) = line_done(R)
  BY Zenon DEF CookedByte
<1>2. c = "nul" => CookedByte(R, c) = R
  BY Zenon DEF CookedByte
<1>3. c = "intr" => CookedByte(R, c) = echo([R EXCEPT !.L.buf = <<>>])
  BY Zenon DEF CookedByte
<1>4. c = "kill" => CookedByte(R, c) = ErasedTo(R, <<>>)
  BY Zenon DEF CookedByte
<1>5. c = "eof" /\ R.L.buf # <<>>
        => CookedByte(R, c) = [q_put(R, R.L.buf) EXCEPT !.L.buf = <<>>, !.wake = TRUE]
  BY Zenon DEF CookedByte
<1>6. c = "eof" /\ R.L.buf = <<>>
        => CookedByte(R, c) = [R EXCEPT !.L.dead = TRUE, !.wake = TRUE]
  BY Zenon DEF CookedByte
<1>7. c = "bs" => CookedByte(R, c) = ErasedTo(R, SubSeq(R.L.buf, 1, Len(R.L.buf) - 1))
  BY Zenon DEF CookedByte, erase_one
<1>8. c = "word" => CookedByte(R, c) = ErasedTo(R, LastWordCut(R.L.buf))
  BY Zenon DEF CookedByte, erase_word
<1>9. c \notin Control /\ Len(R.L.buf) < TTY_LINE - 1
        => CookedByte(R, c) = echo([R EXCEPT !.L.buf = Append(R.L.buf, c)])
  BY Zenon DEF CookedByte, Control
<1>10. c \notin Control /\ ~(Len(R.L.buf) < TTY_LINE - 1) => CookedByte(R, c) = R
  BY Zenon DEF CookedByte, Control
<1> QED
  BY <1>1, <1>2, <1>3, <1>4, <1>5, <1>6, <1>7, <1>8, <1>9, <1>10, Zenon

LEMMA CookedMeanings ==
  ASSUME NEW m, NEW nom \in BOOLEAN
  PROVE  /\ \A c \in {"cr", "lf"} :
              Typed(m, "cooked", c, nom)
                = [m EXCEPT !.due = m.due \o m.line \o <<"nl">>, !.line = <<>>]
         /\ Typed(m, "cooked", "nul", nom) = m
         /\ \A c \in {"intr", "kill"} : Typed(m, "cooked", c, nom) = [m EXCEPT !.line = <<>>]
         /\ Typed(m, "cooked", "eof", nom) = [m EXCEPT !.due = m.due \o m.line, !.line = <<>>]
         /\ Typed(m, "cooked", "bs", nom) = [m EXCEPT !.line = SubSeq(m.line, 1, Len(m.line) - 1)]
         /\ Typed(m, "cooked", "word", nom) = [m EXCEPT !.line = LastWordCut(m.line)]
<1>1. \A c \in {"cr", "lf"} :
       Typed(m, "cooked", c, nom)
         = [m EXCEPT !.due = m.due \o m.line \o <<"nl">>, !.line = <<>>]
  BY Zenon DEF Typed, Control
<1>2. Typed(m, "cooked", "nul", nom) = m
  BY Zenon DEF Typed, Control
<1>3. \A c \in {"intr", "kill"} : Typed(m, "cooked", c, nom) = [m EXCEPT !.line = <<>>]
  BY Zenon DEF Typed, Control
<1>4. Typed(m, "cooked", "eof", nom) = [m EXCEPT !.due = m.due \o m.line, !.line = <<>>]
  BY Zenon DEF Typed, Control
<1>5. Typed(m, "cooked", "bs", nom) = [m EXCEPT !.line = SubSeq(m.line, 1, Len(m.line) - 1)]
  BY Zenon DEF Typed, Control
<1>6. Typed(m, "cooked", "word", nom) = [m EXCEPT !.line = LastWordCut(m.line)]
  BY Zenon DEF Typed, Control
<1> QED
  BY <1>1, <1>2, <1>3, <1>4, <1>5, <1>6, Zenon

LEMMA LetterMeanings ==
  ASSUME NEW m, NEW nom \in BOOLEAN, NEW c, c \notin Control
  PROVE  /\ Len(m.line) < TTY_LINE - 1
              => Typed(m, "cooked", c, nom) = [m EXCEPT !.line = Append(m.line, c)]
         /\ ~(Len(m.line) < TTY_LINE - 1) => Typed(m, "cooked", c, nom) = m
BY Zenon DEF Typed, Control

\* A byte in cooked mode.
LEMMA CookedFacts ==
  ASSUME gone \in BOOLEAN, NEW R \in Discs, Fitting(R.L), NEW m \in Meanings, Follows(m, R),
         NEW c \in Keys, NEW nom \in BOOLEAN
  PROVE  Means(m, R, Typed(m, "cooked", c, nom), CookedByte(R, c))
<1> DEFINE E == CookedByte(R, c)
           N == Typed(m, "cooked", c, nom)
           b == R.L.buf
<1>1. /\ b \in Seq(Bytes) /\ m.line \in Seq(Bytes) /\ <<>> \in Seq(Bytes)
      /\ Len(b) \in Nat /\ Len(b) <= TTY_LINE - 1 /\ Len(<<>>) <= TTY_LINE - 1
      /\ TTY_LINE \in Nat
      /\ ~R.lossy => m.line = b /\ m.due = R.L.q
  <2>1. Len(<<>>) <= TTY_LINE - 1 /\ TTY_LINE \in Nat /\ <<>> \in Seq(Bytes)
    BY TerminalAssumption
  <2>2. m.line \in Seq(Bytes)
    BY Zenon DEF Meanings
  <2> QED
    BY <2>1, <2>2, PartsOfDisc, Zenon DEF Fitting, Follows
<1>2. CASE c \in {"cr", "lf"}
  <2>1. E = line_done(R)
    BY <1>2, CookedBytes, Zenon
  <2>2. N = [m EXCEPT !.due = m.due \o m.line \o <<"nl">>, !.line = <<>>]
    BY <1>2, Zenon DEF Typed, Control
  <2> QED
    <3> HIDE DEF E, N
    <3>1. /\ Keeps(R, E) /\ E.L.buf = <<>> /\ E.L.cr = R.L.cr /\ E.L.tstate = R.L.tstate
          /\ ~E.lossy => E.L.q = R.L.q \o b \o <<"nl">>
      BY <2>1, LineDoneFacts, Zenon
    <3>2. ~E.lossy => E.L.q = m.due \o m.line \o <<"nl">>
      BY <1>1, <3>1, Zenon DEF Keeps
    <3>3. Means(m, R, N, E)
      BY <2>2, <3>1, <3>2, DueFacts, FinishMeans, Zenon
    <3> QED
      BY <3>3, Zenon DEF E, N
<1>3. CASE c = "nul"
  <2>1. E = R /\ N = m
    <3>1. E = R
      BY <1>3, CookedBytes, Zenon
    <3>2. N = m
      BY <1>3, CookedMeanings, Zenon
    <3> QED
      BY <3>1, <3>2, Zenon
  <2> QED
    BY <2>1, NothingMeans, Zenon
<1>4. CASE c = "intr"
  <2>1. E = echo([R EXCEPT !.L.buf = <<>>]) /\ N = [m EXCEPT !.line = <<>>]
    <3>1. E = echo([R EXCEPT !.L.buf = <<>>])
      BY <1>4, CookedBytes, Zenon
    <3>2. N = [m EXCEPT !.line = <<>>]
      BY <1>4, CookedMeanings, Zenon
    <3> QED
      BY <3>1, <3>2, Zenon
  <2> HIDE DEF E, N
  <2>2. /\ Keeps(R, E) /\ E.L.buf = <<>> /\ E.L.q = R.L.q /\ E.L.cr = R.L.cr
        /\ E.L.tstate = R.L.tstate /\ E.lossy = R.lossy
    BY <1>1, <2>1, EditFacts, Zenon
  <2>3. Means(m, R, N, E)
    BY <1>1, <2>1, <2>2, EditMeans, Zenon
  <2> QED
    BY <2>3, Zenon DEF E, N
<1>5. CASE c = "kill"
  <2>1. E = ErasedTo(R, <<>>) /\ N = [m EXCEPT !.line = <<>>]
    <3>1. E = ErasedTo(R, <<>>)
      BY <1>5, CookedBytes, Zenon
    <3>2. N = [m EXCEPT !.line = <<>>]
      BY <1>5, CookedMeanings, Zenon
    <3> QED
      BY <3>1, <3>2, Zenon
  <2> HIDE DEF E, N
  <2>2. /\ Keeps(R, E) /\ E.L.buf = <<>> /\ E.L.q = R.L.q /\ E.L.cr = R.L.cr
        /\ E.L.tstate = R.L.tstate /\ E.lossy = R.lossy
    BY <1>1, <2>1, EraseFacts, Zenon
  <2>3. Means(m, R, N, E)
    BY <1>1, <2>1, <2>2, EditMeans, Zenon
  <2> QED
    BY <2>3, Zenon DEF E, N
<1>6. CASE c = "bs"
  <2> DEFINE v == SubSeq(b, 1, Len(b) - 1)
             l == SubSeq(m.line, 1, Len(m.line) - 1)
  <2>1. E = ErasedTo(R, v) /\ N = [m EXCEPT !.line = l]
    <3>1. E = ErasedTo(R, v)
      BY <1>6, CookedBytes, Zenon
    <3>2. N = [m EXCEPT !.line = l]
      BY <1>6, CookedMeanings, Zenon
    <3> QED
      BY <3>1, <3>2, Zenon
  <2>2. /\ v \in Seq(Bytes) /\ Len(v) <= TTY_LINE - 1
        /\ l \in Seq(Bytes) /\ (~R.lossy => v = l)
    <3>1. v \in Seq(Bytes) /\ Len(v) <= Len(b) /\ l \in Seq(Bytes) /\ (~R.lossy => v = l)
      BY <1>1, EraseSizes, Zenon
    <3> HIDE DEF v
    <3>2. Len(v) \in Nat
      BY <3>1
    <3> QED
      BY <1>1, <3>1, <3>2
  <2> HIDE DEF E, N, v, l
  <2>3. /\ Keeps(R, E) /\ E.L.buf = v /\ E.L.q = R.L.q /\ E.L.cr = R.L.cr
        /\ E.L.tstate = R.L.tstate /\ E.lossy = R.lossy
    BY <2>1, <2>2, EraseFacts, Zenon
  <2>4. Means(m, R, N, E)
    BY <2>1, <2>2, <2>3, EditMeans, Zenon
  <2> QED
    BY <2>4, Zenon DEF E, N
<1>7. CASE c = "word"
  <2> DEFINE v == LastWordCut(b)
             l == LastWordCut(m.line)
  <2>1. E = ErasedTo(R, v) /\ N = [m EXCEPT !.line = l]
    <3>1. E = ErasedTo(R, v)
      BY <1>7, CookedBytes, Zenon
    <3>2. N = [m EXCEPT !.line = l]
      BY <1>7, CookedMeanings, Zenon
    <3> QED
      BY <3>1, <3>2, Zenon
  <2>2. /\ v \in Seq(Bytes) /\ Len(v) <= TTY_LINE - 1
        /\ l \in Seq(Bytes) /\ (~R.lossy => v = l)
    <3>1. v \in Seq(Bytes) /\ Len(v) <= Len(b) /\ l \in Seq(Bytes) /\ (~R.lossy => v = l)
      BY <1>1, EraseSizes, Zenon
    <3> HIDE DEF v
    <3>2. Len(v) \in Nat
      BY <3>1
    <3> QED
      BY <1>1, <3>1, <3>2
  <2> HIDE DEF E, N, v, l
  <2>3. /\ Keeps(R, E) /\ E.L.buf = v /\ E.L.q = R.L.q /\ E.L.cr = R.L.cr
        /\ E.L.tstate = R.L.tstate /\ E.lossy = R.lossy
    BY <2>1, <2>2, EraseFacts, Zenon
  <2>4. Means(m, R, N, E)
    BY <2>1, <2>2, <2>3, EditMeans, Zenon
  <2> QED
    BY <2>4, Zenon DEF E, N
<1>8. CASE c = "eof" /\ b # <<>>
  <2> DEFINE Q == q_put(R, b)
  <2>1. E = [Q EXCEPT !.L.buf = <<>>, !.wake = TRUE]
    BY <1>8, CookedBytes, Zenon
  <2>2. N = [m EXCEPT !.due = m.due \o m.line, !.line = <<>>]
    BY <1>8, CookedMeanings, Zenon
  <2>3. /\ Q \in Discs /\ Fitting(Q.L) /\ Fixed(R.L, Q.L)
        /\ Q.L.dead = R.L.dead /\ Q.L.cr = R.L.cr
        /\ R.lossy => Q.lossy
        /\ ~Q.lossy => Q.L.q = R.L.q \o b
    BY <1>1, QueueFacts, Zenon
  <2> HIDE DEF E, N, Q
  <2>4. /\ Keeps(R, E) /\ E.L.buf = <<>> /\ E.L.q = Q.L.q /\ E.L.cr = R.L.cr
        /\ E.L.tstate = R.L.tstate /\ E.lossy = Q.lossy
    BY <2>1, <2>3, FinishFacts, Zenon
  <2>5. ~E.lossy => E.L.q = m.due \o m.line
    BY <1>1, <2>3, <2>4, Zenon
  <2>6. Means(m, R, N, E)
    BY <2>2, <2>4, <2>5, DueFacts, FinishMeans, Zenon
  <2> QED
    BY <2>6, Zenon DEF E, N
<1>9. CASE c = "eof" /\ b = <<>>
  <2>1. E = [R EXCEPT !.L.dead = TRUE, !.wake = TRUE]
    BY <1>9, CookedBytes, Zenon
  <2>2. N = [m EXCEPT !.due = m.due \o m.line, !.line = <<>>]
    BY <1>9, CookedMeanings, Zenon
  <2> HIDE DEF E, N
  <2>3. /\ E \in Discs /\ E.L = [R.L EXCEPT !.dead = TRUE] /\ E.wake /\ E.lossy = R.lossy
        /\ R.L \in Lines
    BY <2>1, Zenon DEF Discs, Lines
  <2>4. /\ Fixed(R.L, E.L) /\ E.L.buf = R.L.buf /\ E.L.q = R.L.q /\ E.L.cr = R.L.cr /\ E.L.dead
    BY <2>3 DEF Lines, Fixed
  <2>5. Keeps(R, E) /\ E.L.tstate = R.L.tstate
    BY <2>3, <2>4, Zenon DEF Keeps, Fixed, Fitting
  <2>6. ~R.lossy => m.due \o m.line = R.L.q
    <3>1. m.due \in Seq(Bytes \cup {"wrong"}) /\ m.line \in Seq(Bytes)
      BY Zenon DEF Meanings
    <3>2. m.line = <<>> => m.due \o m.line = m.due
      <4>1. ASSUME NEW T, NEW s \in Seq(T) PROVE s \o <<>> = s
        OBVIOUS
      <4> QED
        BY <3>1, <4>1, Zenon
    <3> QED
      BY <1>1, <1>9, <3>2, Zenon
  <2>7. ~E.lossy => E.L.q = m.due \o m.line
    BY <2>3, <2>4, <2>6, Zenon
  <2>8. Means(m, R, N, E)
    BY <1>9, <2>2, <2>4, <2>5, <2>7, DueFacts, FinishMeans, Zenon
  <2> QED
    BY <2>8, Zenon DEF E, N
<1>10. CASE c \notin Control /\ Len(b) < TTY_LINE - 1
  <2> DEFINE v == Append(b, c)
             l == IF Len(m.line) < TTY_LINE - 1 THEN Append(m.line, c) ELSE m.line
  <2>1. E = echo([R EXCEPT !.L.buf = v])
    BY <1>10, CookedBytes, Zenon
  <2>2. N = [m EXCEPT !.line = l]
    <3>1. CASE Len(m.line) < TTY_LINE - 1
      BY <1>10, <3>1, LetterMeanings, Zenon
    <3>2. CASE ~(Len(m.line) < TTY_LINE - 1)
      <4>1. N = m
        BY <1>10, <3>2, LetterMeanings, Zenon
      <4>2. m = [m EXCEPT !.line = m.line]
        BY Zenon DEF Meanings
      <4> QED
        BY <3>2, <4>1, <4>2, Zenon
    <3> QED
      BY <3>1, <3>2, Zenon
  <2>3. /\ v \in Seq(Bytes) /\ Len(v) <= TTY_LINE - 1
        /\ l \in Seq(Bytes) /\ (~R.lossy => v = l)
    <3>1. c \in Bytes
      BY Zenon DEF Bytes
    <3>2. v \in Seq(Bytes) /\ Len(v) = Len(b) + 1 /\ Append(m.line, c) \in Seq(Bytes)
      BY <1>1, <3>1
    <3>3. ~R.lossy => v = l
      BY <1>1, <1>10, Zenon
    <3>4. l \in Seq(Bytes)
      BY <1>1, <3>2, Zenon
    <3> HIDE DEF v, l
    <3> QED
      BY <1>1, <1>10, <3>2, <3>3, <3>4
  <2> HIDE DEF E, N, v, l
  <2>4. /\ Keeps(R, E) /\ E.L.buf = v /\ E.L.q = R.L.q /\ E.L.cr = R.L.cr
        /\ E.L.tstate = R.L.tstate /\ E.lossy = R.lossy
    BY <2>1, <2>3, EditFacts, Zenon
  <2>5. Means(m, R, N, E)
    BY <2>2, <2>3, <2>4, EditMeans, Zenon
  <2> QED
    BY <2>5, Zenon DEF E, N
<1>11. CASE c \notin Control /\ ~(Len(b) < TTY_LINE - 1)
  <2>1. E = R
    BY <1>11, CookedBytes, Zenon
  <2>2. CASE Len(m.line) < TTY_LINE - 1
    <3>1. N = [m EXCEPT !.line = Append(m.line, c)]
      BY <1>11, <2>2, LetterMeanings, Zenon
    <3>2. R.lossy /\ Append(m.line, c) \in Seq(Bytes)
      BY <1>1, <1>11, <2>2 DEF Bytes
    <3> HIDE DEF N, E
    <3>3. Keeps(R, R)
      BY Zenon DEF Keeps
    <3>4. Means(m, R, N, R)
      BY <1>1, <3>1, <3>2, <3>3, EditMeans, Zenon
    <3> QED
      BY <2>1, <3>4, Zenon DEF E, N
  <2>3. CASE ~(Len(m.line) < TTY_LINE - 1)
    <3>1. N = m
      BY <1>11, <2>3, LetterMeanings, Zenon
    <3> QED
      BY <2>1, <3>1, NothingMeans, Zenon
  <2> QED
    BY <2>2, <2>3, Zenon
<1> QED
  BY <1>2, <1>3, <1>4, <1>5, <1>6, <1>7, <1>8, <1>9, <1>10, <1>11, Zenon DEF Control

\* A byte in raw mode.
LEMMA RawFacts ==
  ASSUME NEW R \in Discs, Fitting(R.L), NEW m \in Meanings, Follows(m, R),
         NEW c \in Keys, NEW nom \in BOOLEAN, ~(c = "intr" /\ nom)
  PROVE  Means(m, R, Typed(m, "raw", c, nom), RawByte(R, c))
<1> DEFINE E == RawByte(R, c)
           N == Typed(m, "raw", c, nom)
           skip == c \in {"nul", "lf"}
           d == Append(m.due, c)
           P == q_put(R, <<c>>)
<1>1. R.L \in Lines /\ R.L.cr \in BOOLEAN /\ m.cr \in BOOLEAN /\ (c = "cr") \in BOOLEAN
  BY PartsOfDisc, Zenon DEF Meanings
<1>2. /\ N \in Meanings /\ N.t = m.t /\ N.line = m.line
      /\ m.cr /\ skip => N.due = m.due /\ N.cr = FALSE
      /\ ~(m.cr /\ skip) => N.due = d /\ N.cr = (c = "cr")
  <2>1. CASE m.cr /\ skip
    <3>1. N = [m EXCEPT !.cr = FALSE]
      BY <2>1, Zenon DEF Typed
    <3> HIDE DEF N, d
    <3> QED
      BY <2>1, <3>1, Zenon DEF Meanings
  <2>2. CASE ~(m.cr /\ skip)
    <3>1. N = [m EXCEPT !.due = d, !.cr = (c = "cr")]
      BY <2>2, Zenon DEF Typed
    <3>2. d \in Seq(Bytes \cup {"wrong"})
      BY DueFacts, Zenon
    <3> HIDE DEF N, d
    <3> QED
      BY <1>1, <2>2, <3>1, <3>2, Zenon DEF Meanings
  <2> QED
    BY <2>1, <2>2, Zenon
<1>3. CASE R.L.cr /\ skip
  <2>1. E = [R EXCEPT !.L.cr = FALSE]
    BY <1>3, Zenon DEF RawByte
  <2> HIDE DEF E, N
  <2>2. /\ E \in Discs /\ E.L = [R.L EXCEPT !.cr = FALSE] /\ E.wake = R.wake /\ E.lossy = R.lossy
    BY <2>1, Zenon DEF Discs, Lines
  <2>3. /\ Fixed(R.L, E.L) /\ E.L.buf = R.L.buf /\ E.L.q = R.L.q /\ E.L.cr = FALSE
        /\ E.L.dead = R.L.dead
    BY <1>1, <2>2, Zenon DEF Lines, Fixed
  <2>4. Keeps(R, E) /\ E.L.tstate = R.L.tstate
    BY <2>2, <2>3, Zenon DEF Keeps, Fixed, Fitting
  <2>5. Follows(N, E)
    BY <1>2, <1>3, <2>2, <2>3, Zenon DEF Follows
  <2> QED
    BY <1>2, <2>4, <2>5, Zenon DEF Means, E, N
<1>4. CASE ~(R.L.cr /\ skip)
  <2>1. E = [P EXCEPT !.L.cr = (c = "cr"), !.wake = TRUE]
    BY <1>4, Zenon DEF RawByte
  <2>2. <<c>> \in Seq(Bytes)
    BY DEF Bytes
  <2>3. /\ P \in Discs /\ Fitting(P.L) /\ Fixed(R.L, P.L)
        /\ P.L.dead = R.L.dead /\ P.L.buf = R.L.buf
        /\ R.lossy => P.lossy
        /\ ~P.lossy => P.L.q = R.L.q \o <<c>>
    BY <2>2, QueueFacts, Zenon
  <2>4. P.L \in Lines /\ P.lossy \in BOOLEAN
    BY <2>3, PartsOfDisc, Zenon
  <2> HIDE DEF E, N, P
  <2>5. /\ E \in Discs /\ E.L = [P.L EXCEPT !.cr = (c = "cr")] /\ E.wake /\ E.lossy = P.lossy
    BY <2>1, <2>3, Zenon DEF Discs, Lines
  <2>6. /\ Fixed(P.L, E.L) /\ E.L.buf = P.L.buf /\ E.L.q = P.L.q /\ E.L.cr = (c = "cr")
        /\ E.L.dead = P.L.dead
    BY <2>4, <2>5 DEF Lines, Fixed
  <2>7. Keeps(R, E) /\ E.L.tstate = R.L.tstate
    BY <2>3, <2>5, <2>6, Zenon DEF Keeps, Fixed, Fitting
  <2>8. Follows(N, E)
    <3>1. ~E.lossy => ~R.lossy /\ E.L.q = R.L.q \o <<c>>
      BY <2>3, <2>5, <2>6, Zenon
    <3>2. ~R.lossy => d = R.L.q \o <<c>> /\ ~(m.cr /\ skip) /\ m.line = R.L.buf
      BY <1>4, DueFacts, Zenon DEF Follows
    <3> HIDE DEF d
    <3> QED
      BY <1>2, <2>3, <2>6, <3>1, <3>2, Zenon DEF Follows
  <2> QED
    BY <1>2, <2>7, <2>8, Zenon DEF Means, E, N
<1> QED
  BY <1>3, <1>4, Zenon

\* The interrupt character with somebody nominated.
LEMMA InterruptedFacts ==
  ASSUME gone \in BOOLEAN, NEW R \in Discs, Fitting(R.L), NEW m \in Meanings, Follows(m, R),
         NEW mode
  PROVE  Means(m, R, Typed(m, mode, "intr", TRUE), Interrupted(R))
<1> DEFINE B == [R EXCEPT !.kills = {R.L.intr}, !.L.intr = Nobody, !.L.fired = TRUE,
                          !.L.buf = <<>>]
           E == echo(B)
           N == Typed(m, mode, "intr", TRUE)
<1>1. N = [m EXCEPT !.line = <<>>]
  BY Zenon DEF Typed, Control
<1>2. R.L \in Lines /\ <<>> \in Seq(Bytes) /\ Nobody \in Whom /\ {R.L.intr} \in SUBSET Whom
  BY DEF Discs, Lines, Whom
<1> DEFINE B1 == [R EXCEPT !.kills = {R.L.intr}]
           B2 == [B1 EXCEPT !.L.intr = Nobody]
           B3 == [B2 EXCEPT !.L.fired = TRUE]
           B4 == [B3 EXCEPT !.L.buf = <<>>]
<1>3. /\ B = B4 /\ B \in Discs
      /\ B.L = [[[R.L EXCEPT !.intr = Nobody] EXCEPT !.fired = TRUE] EXCEPT !.buf = <<>>]
      /\ B.wake = R.wake /\ B.lossy = R.lossy
  <2>1. B = B4
    BY Zenon
  <2> HIDE DEF B
  <2>2. B1 \in Discs /\ B1.L = R.L /\ B1.wake = R.wake /\ B1.lossy = R.lossy
    BY <1>2, Zenon DEF Discs
  <2> HIDE DEF B1
  <2>3. /\ B2 \in Discs /\ B2.L = [B1.L EXCEPT !.intr = Nobody]
        /\ B2.wake = B1.wake /\ B2.lossy = B1.lossy
    BY <1>2, <2>2, Zenon DEF Discs, Lines
  <2> HIDE DEF B2
  <2>4. /\ B3 \in Discs /\ B3.L = [B2.L EXCEPT !.fired = TRUE]
        /\ B3.wake = B2.wake /\ B3.lossy = B2.lossy
    BY <1>2, <2>3, Zenon DEF Discs, Lines
  <2> HIDE DEF B3
  <2>5. /\ B4 \in Discs /\ B4.L = [B3.L EXCEPT !.buf = <<>>]
        /\ B4.wake = B3.wake /\ B4.lossy = B3.lossy
    BY <1>2, <2>4, Zenon DEF Discs, Lines
  <2> HIDE DEF B4
  <2>6. B.L = [[[R.L EXCEPT !.intr = Nobody] EXCEPT !.fired = TRUE] EXCEPT !.buf = <<>>]
    BY <2>1, <2>2, <2>3, <2>4, <2>5
  <2> QED
    BY <2>1, <2>2, <2>3, <2>4, <2>5, <2>6, Zenon
<1> HIDE DEF B, B1, B2, B3, B4
<1>5. B \in Discs
  BY <1>3, Zenon
<1>6. /\ Fixed(R.L, B.L) /\ B.L.buf = <<>> /\ B.L.q = R.L.q /\ B.L.cr = R.L.cr
      /\ B.L.dead = R.L.dead
  BY <1>2, <1>3, Zenon DEF Lines, Fixed
<1>7. /\ E \in Discs /\ Fixed(B.L, E.L)
      /\ E.L.buf = B.L.buf /\ E.L.q = B.L.q /\ E.L.cr = B.L.cr
      /\ B.L.dead => E.L.dead
      /\ E.wake = B.wake /\ E.lossy = B.lossy
  BY <1>5, EchoFacts, Zenon
<1> HIDE DEF E, N
<1>8. Fitting(E.L)
  <2>1. Len(<<>>) <= TTY_LINE - 1
    BY TerminalAssumption
  <2> QED
    BY <1>6, <1>7, <2>1, Zenon DEF Fitting
<1>9. Keeps(R, E) /\ E.L.tstate = R.L.tstate
  BY <1>3, <1>6, <1>7, <1>8, Zenon DEF Keeps, Fixed
<1>10. Means(m, R, N, E)
  <2>1. /\ Keeps(R, E) /\ E.L.buf = <<>> /\ E.L.q = R.L.q /\ E.L.cr = R.L.cr
        /\ E.L.tstate = R.L.tstate /\ E.lossy = R.lossy
    BY <1>3, <1>6, <1>7, <1>9, Zenon
  <2> QED
    BY <1>1, <1>2, <2>1, EditMeans, Zenon
<1> QED
  BY <1>10, Zenon DEF E, N, B, Interrupted

\* A byte that is no part of a telnet command.
Mode(L) == IF L.raw THEN "raw" ELSE "cooked"

LEMMA DataFacts ==
  ASSUME gone \in BOOLEAN, NEW R \in Discs, Fitting(R.L), NEW m \in Meanings, Follows(m, R),
         NEW c \in Keys
  PROVE  Means(m, R, Typed(m, Mode(R.L), c, R.L.intr # Nobody), DataByte(R, c))
<1> DEFINE nom == R.L.intr # Nobody
<1>0. nom \in BOOLEAN
  BY Zenon
<1>1. CASE c = "intr" /\ nom
  <2>1. nom = TRUE
    BY <1>1, Zenon
  <2>2. DataByte(R, c) = Interrupted(R)
    BY <1>1, Zenon DEF DataByte
  <2> HIDE DEF nom
  <2>3. Means(m, R, Typed(m, Mode(R.L), c, nom), DataByte(R, c))
    BY <1>1, <2>1, <2>2, InterruptedFacts, Zenon
  <2> QED
    BY <2>3, Zenon DEF nom
<1>2. CASE ~(c = "intr" /\ nom) /\ R.L.raw
  <2>1. DataByte(R, c) = RawByte(R, c) /\ Mode(R.L) = "raw"
    BY <1>2, Zenon DEF DataByte, Mode
  <2> HIDE DEF nom
  <2>2. Means(m, R, Typed(m, Mode(R.L), c, nom), DataByte(R, c))
    BY <1>0, <1>2, <2>1, RawFacts, Zenon
  <2> QED
    BY <2>2, Zenon DEF nom
<1>3. CASE ~(c = "intr" /\ nom) /\ ~R.L.raw
  <2>1. DataByte(R, c) = CookedByte(R, c) /\ Mode(R.L) = "cooked"
    BY <1>3, Zenon DEF DataByte, Mode
  <2> HIDE DEF nom
  <2>2. Means(m, R, Typed(m, Mode(R.L), c, nom), DataByte(R, c))
    BY <1>0, <2>1, CookedFacts, Zenon
  <2> QED
    BY <2>2, Zenon DEF nom
<1> QED
  BY <1>1, <1>2, <1>3, Zenon

\* Where a telnet command is, by the server and by the meaning.
Tels(m, L) == m.t = L.tstate \/ (m.t = "end?" /\ L.tstate = "sb_iac")

\* The line is what the bytes mean, telnet commands included.
FollowsAll(m, R) == Follows(m, R) /\ (~R.lossy => Tels(m, R.L))

Tstates == {"data", "iac", "opt", "sb", "sb_iac"}
Ts == {"data", "iac", "opt", "sb", "end?"}

\* A byte of a command moves the command on, and does nothing else.
LEMMA TelnetFacts ==
  ASSUME NEW R \in Discs, Fitting(R.L), NEW t \in Tstates
  PROVE  LET E == [R EXCEPT !.L.tstate = t]
         IN /\ Keeps(R, E) /\ E.L.tstate = t
            /\ E.L.buf = R.L.buf /\ E.L.q = R.L.q /\ E.L.cr = R.L.cr
            /\ E.L.raw = R.L.raw /\ E.L.intr = R.L.intr /\ E.lossy = R.lossy
<1> DEFINE E == [R EXCEPT !.L.tstate = t]
<1>1. R.L \in Lines
  BY PartsOfDisc, Zenon
<1>2. /\ E \in Discs /\ E.L = [R.L EXCEPT !.tstate = t] /\ E.wake = R.wake /\ E.lossy = R.lossy
  BY Zenon DEF Discs, Lines, Tstates
<1> HIDE DEF E
<1>3. /\ E.L.tstate = t /\ E.L.buf = R.L.buf /\ E.L.q = R.L.q /\ E.L.cr = R.L.cr
      /\ E.L.raw = R.L.raw /\ E.L.intr = R.L.intr /\ E.L.dead = R.L.dead
      /\ E.L.used = R.L.used /\ E.L.waiter = R.L.waiter /\ E.L.thread = R.L.thread
  BY <1>1, <1>2, Zenon DEF Lines
<1>4. Keeps(R, E)
  BY <1>2, <1>3, Zenon DEF Keeps, Fitting
<1> QED
  BY <1>2, <1>3, <1>4, Zenon DEF E

\* The answer to an option is written at once.
LEMMA OptionFacts ==
  ASSUME gone \in BOOLEAN, NEW R \in Discs, Fitting(R.L)
  PROVE  LET E == echo([R EXCEPT !.L.tstate = "data"])
         IN /\ Keeps(R, E) /\ E.L.tstate = "data"
            /\ E.L.buf = R.L.buf /\ E.L.q = R.L.q /\ E.L.cr = R.L.cr /\ E.lossy = R.lossy
<1> DEFINE B == [R EXCEPT !.L.tstate = "data"]
           E == echo(B)
<1>1. /\ Keeps(R, B) /\ B.L.tstate = "data"
      /\ B.L.buf = R.L.buf /\ B.L.q = R.L.q /\ B.L.cr = R.L.cr /\ B.lossy = R.lossy
  BY TelnetFacts, Zenon DEF Tstates
<1> HIDE DEF B
<1>2. /\ E \in Discs /\ Fixed(B.L, E.L)
      /\ E.L.buf = B.L.buf /\ E.L.q = B.L.q /\ E.L.cr = B.L.cr
      /\ B.L.dead => E.L.dead
      /\ E.wake = B.wake /\ E.lossy = B.lossy
  BY <1>1, EchoFacts, Zenon DEF Keeps
<1> HIDE DEF E
<1>3. Keeps(R, E)
  BY <1>1, <1>2, Zenon DEF Keeps, Fixed, Fitting
<1> QED
  BY <1>1, <1>2, <1>3, Zenon DEF E, B, Fixed

\* What feed_byte does, by where in a command it is.
LEMMA FeedCases ==
  ASSUME NEW R, NEW c
  PROVE  /\ R.L.tstate = "data" /\ c # "iac" => feed_byte(R, c) = DataByte(R, c)
         /\ R.L.tstate = "iac" /\ c = "iac"
              => feed_byte(R, c) = DataByte([R EXCEPT !.L.tstate = "data"], c)
         /\ R.L.tstate = "data" /\ c = "iac" => feed_byte(R, c) = [R EXCEPT !.L.tstate = "iac"]
         /\ R.L.tstate = "iac" /\ c # "iac"
              => feed_byte(R, c) = [R EXCEPT !.L.tstate = IF c = "will" THEN "opt"
                                                          ELSE IF c = "sb" THEN "sb" ELSE "data"]
         /\ R.L.tstate = "opt" => feed_byte(R, c) = echo([R EXCEPT !.L.tstate = "data"])
         /\ R.L.tstate = "sb"
              => feed_byte(R, c) = [R EXCEPT !.L.tstate = IF c = "iac" THEN "sb_iac" ELSE "sb"]
         /\ R.L.tstate = "sb_iac"
              => feed_byte(R, c) = [R EXCEPT !.L.tstate = IF c = "se" THEN "data" ELSE "sb"]
<1>1. R.L.tstate = "data" /\ c # "iac" => feed_byte(R, c) = DataByte(R, c)
  BY Zenon DEF feed_byte
<1>2. R.L.tstate = "iac" /\ c = "iac"
        => feed_byte(R, c) = DataByte([R EXCEPT !.L.tstate = "data"], c)
  BY Zenon DEF feed_byte
<1>3. R.L.tstate = "data" /\ c = "iac" => feed_byte(R, c) = [R EXCEPT !.L.tstate = "iac"]
  BY Zenon DEF feed_byte
<1>4. R.L.tstate = "iac" /\ c # "iac"
        => feed_byte(R, c) = [R EXCEPT !.L.tstate = IF c = "will" THEN "opt"
                                                    ELSE IF c = "sb" THEN "sb" ELSE "data"]
  BY Zenon DEF feed_byte
<1>5. R.L.tstate = "opt" => feed_byte(R, c) = echo([R EXCEPT !.L.tstate = "data"])
  BY Zenon DEF feed_byte
<1>6. R.L.tstate = "sb"
        => feed_byte(R, c) = [R EXCEPT !.L.tstate = IF c = "iac" THEN "sb_iac" ELSE "sb"]
  BY Zenon DEF feed_byte
<1>7. R.L.tstate = "sb_iac"
        => feed_byte(R, c) = [R EXCEPT !.L.tstate = IF c = "se" THEN "data" ELSE "sb"]
  BY Zenon DEF feed_byte
<1> QED
  BY <1>1, <1>2, <1>3, <1>4, <1>5, <1>6, <1>7, Zenon

\* A command goes from one of its states to another.
LEMMA CommandFacts ==
  ASSUME NEW m \in Meanings, NEW c
  PROVE  LET N == [m EXCEPT !.t = Command(@, c)]
         IN /\ N \in Meanings /\ N.t = Command(m.t, c)
            /\ N.due = m.due /\ N.line = m.line /\ N.cr = m.cr
<1>1. m.t \in Ts
  BY Zenon DEF Meanings, Ts
<1>2. Command(m.t, c) \in Ts
  BY <1>1, Zenon DEF Command, Ts
<1> DEFINE d == Command(m.t, c)
           N == [m EXCEPT !.t = d]
<1> HIDE DEF d
<1>3. N \in Meanings /\ N.t = d /\ N.due = m.due /\ N.line = m.line /\ N.cr = m.cr
  BY <1>2, Zenon DEF Meanings, Ts, d
<1> QED
  BY <1>3, Zenon DEF d

LEMMA KeepsOn ==
  ASSUME NEW R, NEW S, NEW F, Keeps(R, S), Keeps(S, F)
  PROVE  Keeps(R, F)
BY Zenon DEF Keeps

\* A byte that is part of a command, as the server takes it.
LEMMA CommandFed ==
  ASSUME gone \in BOOLEAN, NEW R \in Discs, Fitting(R.L), NEW c,
         ~(R.L.tstate = "data" /\ c # "iac"), ~(R.L.tstate = "iac" /\ c = "iac")
  PROVE  LET F == feed_byte(R, c)
         IN /\ Keeps(R, F) /\ F.lossy = R.lossy
            /\ F.L.buf = R.L.buf /\ F.L.q = R.L.q /\ F.L.cr = R.L.cr
            /\ \A m \in Meanings :
                 Tels(m, R.L) => Command(m.t, c) = F.L.tstate
                                   \/ (Command(m.t, c) = "end?" /\ F.L.tstate = "sb_iac")
<1> DEFINE F == feed_byte(R, c)
           t == CASE R.L.tstate = "data" -> "iac"
                  [] R.L.tstate = "iac" -> IF c = "will" THEN "opt" ELSE IF c = "sb" THEN "sb" ELSE "data"
                  [] R.L.tstate = "opt" -> "data"
                  [] R.L.tstate = "sb" -> IF c = "iac" THEN "sb_iac" ELSE "sb"
                  [] R.L.tstate = "sb_iac" -> IF c = "se" THEN "data" ELSE "sb"
<1>1. R.L.tstate \in Tstates
  BY Zenon DEF Discs, Lines, Tstates
<1>2. t \in Tstates
  BY <1>1, Zenon DEF Tstates
<1>3. ASSUME NEW m \in Meanings, Tels(m, R.L)
      PROVE  Command(m.t, c) = t \/ (Command(m.t, c) = "end?" /\ t = "sb_iac")
  <2>1. m.t \in Ts
    BY Zenon DEF Meanings, Ts
  <2>2. CASE R.L.tstate = "data"
    BY <1>3, <2>1, <2>2, Zenon DEF Tels, Command
  <2>3. CASE R.L.tstate = "iac"
    BY <1>3, <2>1, <2>3, Zenon DEF Tels, Command
  <2>4. CASE R.L.tstate = "opt"
    BY <1>3, <2>1, <2>4, Zenon DEF Tels, Command
  <2>5. CASE R.L.tstate = "sb"
    BY <1>3, <2>1, <2>5, Zenon DEF Tels, Command
  <2>6. CASE R.L.tstate = "sb_iac"
    <3>1. m.t = "end?"
      BY <1>3, <2>1, <2>6, Zenon DEF Tels, Ts
    <3> QED
      BY <2>6, <3>1, Zenon DEF Command
  <2> QED
    BY <1>1, <2>2, <2>3, <2>4, <2>5, <2>6, Zenon DEF Tstates
<1>4. F = [R EXCEPT !.L.tstate = t] \/ (t = "data" /\ F = echo([R EXCEPT !.L.tstate = "data"]))
  <2>1. CASE R.L.tstate = "data"
    BY <2>1, FeedCases, Zenon
  <2>2. CASE R.L.tstate = "iac"
    <3>1. t = IF c = "will" THEN "opt" ELSE IF c = "sb" THEN "sb" ELSE "data"
      BY <2>2, Zenon
    <3> HIDE DEF t
    <3> QED
      BY <2>2, <3>1, FeedCases, Zenon
  <2>3. CASE R.L.tstate = "opt"
    BY <2>3, FeedCases, Zenon
  <2>4. CASE R.L.tstate = "sb"
    <3>1. t = IF c = "iac" THEN "sb_iac" ELSE "sb"
      BY <2>4, Zenon
    <3> HIDE DEF t
    <3> QED
      BY <2>4, <3>1, FeedCases, Zenon
  <2>5. CASE R.L.tstate = "sb_iac"
    <3>1. t = IF c = "se" THEN "data" ELSE "sb"
      BY <2>5, Zenon
    <3> HIDE DEF t
    <3> QED
      BY <2>5, <3>1, FeedCases, Zenon
  <2> QED
    BY <1>1, <2>1, <2>2, <2>3, <2>4, <2>5, Zenon DEF Tstates
<1> HIDE DEF F, t
<1>5. /\ Keeps(R, F) /\ F.L.tstate = t
      /\ F.L.buf = R.L.buf /\ F.L.q = R.L.q /\ F.L.cr = R.L.cr /\ F.lossy = R.lossy
  <2>1. CASE F = [R EXCEPT !.L.tstate = t]
    BY <1>2, <2>1, TelnetFacts, Zenon
  <2>2. CASE t = "data" /\ F = echo([R EXCEPT !.L.tstate = "data"])
    BY <2>2, OptionFacts, Zenon
  <2> QED
    BY <1>4, <2>1, <2>2, Zenon
<1> QED
  BY <1>3, <1>5, Zenon DEF F

\* A byte that is not, as the server takes it.
LEMMA DataFed ==
  ASSUME gone \in BOOLEAN, NEW R \in Discs, Fitting(R.L), NEW m \in Meanings, Follows(m, R),
         NEW c \in Keys,
         (R.L.tstate = "data" /\ c # "iac") \/ (R.L.tstate = "iac" /\ c = "iac")
  PROVE  LET F == feed_byte(R, c)
             T == Typed(m, Mode(R.L), c, R.L.intr # Nobody)
         IN Keeps(R, F) /\ F.L.tstate = "data" /\ Follows(T, F)
<1> DEFINE F == feed_byte(R, c)
           T == Typed(m, Mode(R.L), c, R.L.intr # Nobody)
<1>1. CASE R.L.tstate = "data" /\ c # "iac"
  <2>1. F = DataByte(R, c)
    BY <1>1, FeedCases, Zenon
  <2>2. Means(m, R, T, DataByte(R, c))
    BY DataFacts, Zenon
  <2> HIDE DEF F, T
  <2>3. Keeps(R, F) /\ F.L.tstate = "data" /\ Follows(T, F)
    BY <1>1, <2>1, <2>2, Zenon DEF Means
  <2> QED
    BY <2>3, Zenon DEF F, T
<1>2. CASE R.L.tstate = "iac" /\ c = "iac"
  <2> DEFINE B == [R EXCEPT !.L.tstate = "data"]
  <2>1. F = DataByte(B, c)
    BY <1>2, FeedCases, Zenon
  <2>2. /\ Keeps(R, B) /\ B.L.tstate = "data"
        /\ B.L.buf = R.L.buf /\ B.L.q = R.L.q /\ B.L.cr = R.L.cr
        /\ B.L.raw = R.L.raw /\ B.L.intr = R.L.intr /\ B.lossy = R.lossy
    BY TelnetFacts, Zenon DEF Tstates
  <2> HIDE DEF F, B
  <2>3. B \in Discs /\ Fitting(B.L) /\ Follows(m, B)
    BY <2>2, Zenon DEF Keeps, Follows
  <2>4. T = Typed(m, Mode(B.L), c, B.L.intr # Nobody)
    BY <2>2, Zenon DEF Mode
  <2> HIDE DEF T
  <2>5. Means(m, B, T, F)
    BY <2>1, <2>3, <2>4, DataFacts, Zenon
  <2>6. Keeps(R, F) /\ F.L.tstate = "data" /\ Follows(T, F)
    BY <2>2, <2>5, KeepsOn, Zenon DEF Means
  <2> QED
    BY <2>6, Zenon DEF F, T
<1> QED
  BY <1>1, <1>2, Zenon

\* One byte from the device: the line stays within its arrays, and is what the
\* bytes mean (feed_byte).
LEMMA FeedFacts ==
  ASSUME gone \in BOOLEAN, NEW R \in Discs, Fitting(R.L), NEW m \in Meanings, FollowsAll(m, R),
         NEW c \in Keys
  PROVE  LET F == feed_byte(R, c)
             N == Step(m, Mode(R.L), c, R.L.intr # Nobody)
         IN Keeps(R, F) /\ N \in Meanings /\ FollowsAll(N, F)
<1> DEFINE F == feed_byte(R, c)
           N == Step(m, Mode(R.L), c, R.L.intr # Nobody)
           T == Typed(m, Mode(R.L), c, R.L.intr # Nobody)
           data == (R.L.tstate = "data" /\ c # "iac") \/ (R.L.tstate = "iac" /\ c = "iac")
           dm == (m.t = "data" /\ c # "iac") \/ (m.t = "iac" /\ c = "iac")
           M == [m EXCEPT !.t = Command(@, c)]
           U == [T EXCEPT !.t = "data"]
<1>1. N = (IF dm THEN U ELSE M)
  BY Zenon DEF Step
<1>2. T \in Meanings
  BY DataFacts, Zenon DEF Means, FollowsAll
<1>3. /\ M \in Meanings /\ M.t = Command(m.t, c)
      /\ M.due = m.due /\ M.line = m.line /\ M.cr = m.cr
  BY CommandFacts, Zenon
<1> HIDE DEF M, T
<1>4. /\ U \in Meanings /\ U.t = "data" /\ U.due = T.due /\ U.line = T.line /\ U.cr = T.cr
  BY <1>2, Zenon DEF Meanings
<1> HIDE DEF U, N
<1>5. N \in Meanings
  BY <1>1, <1>3, <1>4, Zenon
<1>6. ~R.lossy => (data <=> dm)
  BY Zenon DEF FollowsAll, Tels
<1>7. CASE data
  <2>1. Keeps(R, F) /\ F.L.tstate = "data" /\ Follows(T, F)
    BY <1>7, DataFed, Zenon DEF T, FollowsAll
  <2> HIDE DEF F, data, dm
  <2>2. ~F.lossy => N = U
    BY <1>1, <1>6, <1>7, <2>1, Zenon DEF Keeps
  <2>3. FollowsAll(N, F)
    BY <1>4, <2>1, <2>2, Zenon DEF FollowsAll, Follows, Tels
  <2> QED
    BY <1>5, <2>1, <2>3, Zenon DEF F, N
<1>8. CASE ~data
  <2>1. /\ Keeps(R, F) /\ F.lossy = R.lossy
        /\ F.L.buf = R.L.buf /\ F.L.q = R.L.q /\ F.L.cr = R.L.cr
        /\ Tels(m, R.L) => Command(m.t, c) = F.L.tstate
                             \/ (Command(m.t, c) = "end?" /\ F.L.tstate = "sb_iac")
    BY <1>8, CommandFed, Zenon
  <2> HIDE DEF F, data, dm
  <2>2. ~F.lossy => N = M
    BY <1>1, <1>6, <1>8, <2>1, Zenon
  <2>3. FollowsAll(N, F)
    BY <1>3, <2>1, <2>2, Zenon DEF FollowsAll, Follows, Tels
  <2> QED
    BY <1>5, <2>1, <2>3, Zenon DEF F, N
<1> QED
  BY <1>7, <1>8, Zenon

-----------------------------------------------------------------------------
(* What a reader takes                                                     *)

\* take: no more than there is.
LEMMA TakeFacts ==
  ASSUME NEW L \in Lines, NEW want \in Nat
  PROVE  take(L, want) \in Nat /\ take(L, want) <= Len(L.q)
<1> DEFINE nls == {k \in 1 .. Len(L.q) : L.q[k] = "nl"}
           least == CHOOSE k \in nls : \A o \in nls : k <= o
           one == IF L.raw \/ nls = {} THEN Len(L.q) ELSE least
<1>1. Len(L.q) \in Nat
  BY DEF Lines
<1>2. nls \in SUBSET (1 .. Len(L.q)) /\ nls \in SUBSET Nat
  BY <1>1
<1>3. nls # {} => least \in nls
  <2> HIDE DEF nls
  <2> QED
    BY <1>2, HasLeast, Zenon
<1> HIDE DEF nls, least
<1>4. one \in Nat /\ one <= Len(L.q)
  <2>1. CASE L.raw \/ nls = {}
    BY <1>1, <2>1
  <2>2. CASE ~(L.raw \/ nls = {})
    <3>1. least \in 1 .. Len(L.q) /\ one = least
      BY <1>2, <1>3, <2>2, Zenon
    <3> QED
      BY <1>1, <3>1
  <2> QED
    BY <2>1, <2>2, Zenon
<1>5. take(L, want) = IF one > want THEN want ELSE one
  BY Zenon DEF take, one, least, nls
<1> HIDE DEF one
<1> QED
  BY <1>1, <1>4, <1>5

\* What is left of the line.
LEMMA TakenFacts ==
  ASSUME NEW L \in Lines, Fitting(L), NEW n \in Nat, n <= Len(L.q)
  PROVE  LET T == Taken(L, n)
         IN /\ T \in Lines /\ Fitting(T) /\ T.q = SubSeq(L.q, n + 1, Len(L.q))
            /\ T.buf = L.buf /\ T.cr = L.cr /\ T.tstate = L.tstate /\ T.used = L.used
            /\ T.waiter = L.waiter /\ T.thread = L.thread /\ T.dead = L.dead
<1> DEFINE T == Taken(L, n)
           r == SubSeq(L.q, n + 1, Len(L.q))
<1>1. L.q \in Seq(Bytes) /\ Len(L.q) \in Nat
  BY DEF Lines
<1>2. r \in Seq(Bytes) /\ Len(r) = Len(L.q) - n
  BY <1>1, PartFacts, Zenon
<1>3. T = [L EXCEPT !.q = r]
  BY Zenon DEF Taken
<1> HIDE DEF T, r
<1>4. /\ T \in Lines /\ T.q = r
      /\ T.buf = L.buf /\ T.cr = L.cr /\ T.tstate = L.tstate /\ T.used = L.used
      /\ T.waiter = L.waiter /\ T.thread = L.thread /\ T.dead = L.dead
  BY <1>2, <1>3, Zenon DEF Lines
<1>5. Len(r) <= TTY_QUEUE
  BY <1>1, <1>2, TerminalAssumption DEF Fitting
<1>6. Fitting(T)
  BY <1>4, <1>5, Zenon DEF Fitting
<1> QED
  BY <1>4, <1>6, Zenon DEF T, r

\* What is read is the beginning of what is due, if the queue is what is due.
LEMMA ReadFacts ==
  ASSUME NEW m \in Meanings, NEW q \in Seq(Bytes), NEW n \in Nat, n <= Len(q)
  PROVE  LET N == Read(m, SubSeq(q, 1, n))
         IN /\ N \in Meanings /\ N.t = m.t /\ N.line = m.line /\ N.cr = m.cr
            /\ m.due = q => N.due = SubSeq(q, n + 1, Len(q))
<1> DEFINE b == SubSeq(q, 1, n)
           d == IF Len(b) <= Len(m.due) /\ b = SubSeq(m.due, 1, Len(b))
                THEN SubSeq(m.due, Len(b) + 1, Len(m.due)) ELSE <<"wrong">>
           N == [m EXCEPT !.due = d]
<1>1. m.due \in Seq(Bytes \cup {"wrong"}) /\ Len(m.due) \in Nat
  BY DEF Meanings
<1>2. b \in Seq(Bytes) /\ Len(b) = n
  BY PartFacts, Zenon
<1>3. d \in Seq(Bytes \cup {"wrong"})
  <2>1. <<"wrong">> \in Seq(Bytes \cup {"wrong"})
    OBVIOUS
  <2> HIDE DEF b
  <2>2. Len(b) <= Len(m.due) => SubSeq(m.due, Len(b) + 1, Len(m.due)) \in Seq(Bytes \cup {"wrong"})
    BY <1>1, <1>2, PartFacts, Zenon
  <2> QED
    BY <2>1, <2>2, Zenon
<1>4. m.due = q => d = SubSeq(q, n + 1, Len(q))
  BY <1>2, Zenon
<1>5. Read(m, SubSeq(q, 1, n)) = N
  BY Zenon DEF Read
<1> HIDE DEF d
<1>6. N \in Meanings /\ N.t = m.t /\ N.line = m.line /\ N.cr = m.cr /\ N.due = d
  BY <1>3, Zenon DEF Meanings
<1> QED
  BY <1>4, <1>5, <1>6, Zenon

-----------------------------------------------------------------------------
(* Types, and the meaning of the line                                      *)

\* Unless something was dropped, the line is what the bytes mean.
Meant ==
  ~lossy => /\ meant.due = line.q /\ meant.line = line.buf /\ meant.cr = line.cr
            /\ Tels(meant, line)

Faithful == Types /\ Meant

LEMMA FaithfulInit == Init => Faithful
<1> SUFFICES ASSUME Init PROVE Faithful
  BY Zenon
<1> USE DEF Init
<1>1. <<>> \in Seq(Keys) /\ <<>> \in Seq(Bytes) /\ Len(<<>>) = 0 /\ script \in Seq(Keys)
  BY TerminalAssumption
<1>2. con \in Consoles /\ Len(con.ring) <= RING - 1
  BY <1>1, TerminalAssumption DEF Consoles, Whom
<1>3. NoLine \in Lines
  BY <1>1, Zenon DEF NoLine, Lines, Whom
<1>4. line \in Lines /\ line.buf = <<>> /\ line.q = <<>> /\ line.cr = FALSE /\ line.tstate = "data"
  <2>1. Shell \in Whom /\ 1 \in Nat
    BY Zenon DEF Whom, Programs
  <2> QED
    BY <1>1, <2>1, Zenon DEF NoLine, Lines, Whom
<1>5. Fitting(line)
  BY <1>1, <1>4, TerminalAssumption DEF Fitting
<1>6. /\ th \in [Threads -> [pc : Pcs, byte : Keys \cup {"none"}, done : BOOLEAN]]
      /\ \A i \in Threads : th[i].pc = "has" => th[i].byte \in Keys
  BY Zenon DEF Pcs
<1>7. cl \in [Programs -> {"run", "sent", "recv", "keyboard"}]
  BY Zenon
<1>8. meant \in Meanings /\ Meant
  <2>1. <<>> \in Seq(Bytes \cup {"wrong"})
    OBVIOUS
  <2> QED
    BY <1>1, <1>4, <2>1, Zenon DEF Meanings, NothingMeant, Meant, Tels
<1> QED
  BY <1>1, <1>2, <1>4, <1>5, <1>6, <1>7, <1>8, Zenon DEF Faithful, Types

ThreadStates == [pc : Pcs, byte : Keys \cup {"none"}, done : BOOLEAN]
ClientStates == {"run", "sent", "recv", "keyboard"}

\* The states of threads and clients, and that a thread has a byte when it says so.
Tasks(t, c) ==
  /\ t \in [Threads -> ThreadStates]
  /\ \A i \in Threads : t[i].pc = "has" => t[i].byte \in Keys
  /\ c \in [Programs -> ClientStates]

LEMMA TasksOf == Types <=> /\ fifo \in Seq(Keys) /\ script \in Seq(Keys)
                           /\ con \in Consoles /\ Len(con.ring) <= RING - 1
                           /\ line \in Lines /\ Fitting(line) /\ Tasks(th, cl)
                           /\ alive \subseteq Programs /\ gone \in BOOLEAN /\ moves \in Nat
                           /\ meant \in Meanings /\ lossy \in BOOLEAN
BY Zenon DEF Types, Tasks, ThreadStates, ClientStates

\* A thread or a client goes on.
LEMMA ThreadOn ==
  ASSUME Tasks(th, cl), NEW i \in Threads, NEW s \in ThreadStates,
         s.pc = "has" => s.byte \in Keys
  PROVE  Tasks([th EXCEPT ![i] = s], cl)
BY Zenon DEF Tasks

LEMMA ClientOn ==
  ASSUME Tasks(th, cl), NEW p \in Programs, NEW s \in ClientStates
  PROVE  Tasks(th, [cl EXCEPT ![p] = s])
BY Zenon DEF Tasks

LEMMA ThreadPc ==
  ASSUME Tasks(th, cl), NEW i \in Threads, NEW s \in Pcs, s # "has"
  PROVE  Tasks([th EXCEPT ![i].pc = s], cl)
<1> DEFINE n == [th[i] EXCEPT !.pc = s]
<1>1. th[i] \in ThreadStates
  BY Zenon DEF Tasks
<1>2. n \in ThreadStates /\ n.pc = s
  BY <1>1, Zenon DEF ThreadStates
<1> HIDE DEF n
<1>3. Tasks([th EXCEPT ![i] = n], cl)
  BY <1>2, ThreadOn, Zenon
<1> QED
  BY <1>3, Zenon DEF n

\* A byte is handed to a reader of the console.
LEMMA HandedTasks ==
  ASSUME Tasks(th, cl), NEW x, NEW c \in Keys, Handed(x, c)
  PROVE  Tasks(th', cl')
<1>1. CASE x \in Threads
  <2> DEFINE n == [[th[x] EXCEPT !.pc = "has"] EXCEPT !.byte = c]
  <2>1. th[x] \in ThreadStates
    BY <1>1, Zenon DEF Tasks
  <2>2. n \in ThreadStates /\ n.pc = "has" /\ n.byte = c
    BY <2>1, Zenon DEF ThreadStates, Pcs
  <2>3. x \notin Programs
    BY <1>1, TerminalAssumption, Zenon
  <2>4. th' = [th EXCEPT ![x] = n] /\ cl' = cl
    <3>1. th' = [th EXCEPT ![x].pc = "has", ![x].byte = c] /\ cl' = cl
      BY <1>1, <2>3, Zenon DEF Handed
    <3> QED
      BY <1>1, <3>1, Zenon DEF Tasks
  <2> HIDE DEF n
  <2> QED
    BY <1>1, <2>2, <2>4, ThreadOn, Zenon
<1>2. CASE x \in Programs
  <2>1. x \notin Threads
    BY <1>2, TerminalAssumption, Zenon
  <2>2. th' = th /\ cl' = [cl EXCEPT ![x] = "run"]
    BY <1>2, <2>1, Zenon DEF Handed
  <2> QED
    BY <1>2, <2>2, ClientOn, Zenon DEF ClientStates
<1>3. CASE x \notin Threads /\ x \notin Programs
  BY <1>3, Zenon DEF Handed
<1> QED
  BY <1>1, <1>2, <1>3, Zenon

\* The line and what it means after a step that leaves them alone.
LEMMA SameLine ==
  ASSUME Faithful, UNCHANGED <<line, meant, lossy>>
  PROVE  Meant' /\ line' \in Lines /\ Fitting(line') /\ meant' \in Meanings /\ lossy' \in BOOLEAN
BY Zenon DEF Faithful, Types, Meant, Tels, Fitting

LEMMA TypeFaithful ==
  ASSUME Faithful, Type
  PROVE  Faithful'
<1>1. script' \in Seq(Keys) /\ fifo' \in Seq(Keys)
  BY DEF Faithful, Types, Type
<1> QED
  BY <1>1, SameLine, Zenon DEF Faithful, Types, Type

\* An interrupt: Drain keeps the ring within its array.
LEMMA IrqFaithful ==
  ASSUME Faithful, ConsoleIrq
  PROVE  Faithful' /\ alive' \subseteq alive
<1> DEFINE B == [ring |-> con.ring, intr |-> con.intr, fired |-> con.fired, kills |-> {}]
           K == Drain(B, fifo)
           still == con.waiter \in alive \ K.kills \/ (con.waiter \in Threads /\ Exists(con.waiter))
           w == IF still THEN con.waiter ELSE Nobody
           gives == w # Nobody /\ K.ring # <<>>
<1>1. B \in Ringed /\ fifo \in Seq(Keys)
  BY Zenon DEF Ringed, Drains, Faithful, Types, Consoles, Whom
<1>2. K \in Ringed
  BY <1>1, DrainFacts, Zenon
<1>3. /\ alive' = alive \ K.kills
      /\ con' = [ring |-> IF gives THEN Tail(K.ring) ELSE K.ring,
                 waiter |-> IF gives THEN Nobody ELSE w,
                 intr |-> K.intr, fired |-> K.fired]
      /\ IF gives THEN Handed(w, Head(K.ring)) ELSE UNCHANGED <<th, cl>>
      /\ fifo' = <<>>
  BY Zenon DEF ConsoleIrq
<1>4. /\ K.ring \in Seq(Keys) /\ Len(K.ring) <= RING - 1 /\ K.intr \in Whom /\ K.fired \in BOOLEAN
      /\ RING \in Nat
  BY <1>2, TerminalAssumption, Zenon DEF Ringed, Drains
<1>5. w \in Whom \cup Threads /\ Nobody \in Whom
  BY Zenon DEF Faithful, Types, Consoles, Whom
<1> HIDE DEF K, w
<1>6. gives => Tail(K.ring) \in Seq(Keys) /\ Len(Tail(K.ring)) = Len(K.ring) - 1 /\ Head(K.ring) \in Keys
  BY <1>4
<1>7. con' \in Consoles /\ Len(con'.ring) <= RING - 1
  <2> DEFINE r == IF gives THEN Tail(K.ring) ELSE K.ring
             v == IF gives THEN Nobody ELSE w
  <2>1. r \in Seq(Keys) /\ Len(r) <= RING - 1
    BY <1>4, <1>6
  <2>2. v \in Whom \cup Threads
    BY <1>5, Zenon
  <2> HIDE DEF r, v
  <2>3. con' = [ring |-> r, waiter |-> v, intr |-> K.intr, fired |-> K.fired]
    BY <1>3, Zenon DEF r, v
  <2> QED
    BY <1>4, <2>1, <2>2, <2>3, Zenon DEF Consoles
<1>8. Tasks(th', cl')
  <2>1. Tasks(th, cl)
    BY TasksOf, Zenon DEF Faithful
  <2>2. CASE gives
    BY <1>3, <1>6, <2>1, <2>2, HandedTasks, Zenon
  <2>3. CASE ~gives
    BY <1>3, <2>1, <2>3, Zenon
  <2> QED
    BY <2>2, <2>3, Zenon
<1>9. fifo' \in Seq(Keys) /\ alive' \subseteq alive /\ alive \subseteq Programs
  BY <1>3 DEF Faithful, Types
<1>10. UNCHANGED <<line, gone, script, moves, meant, lossy>>
  BY Zenon DEF ConsoleIrq
<1>11. Types'
  <2>1. /\ script' \in Seq(Keys) /\ gone' \in BOOLEAN /\ moves' \in Nat
        /\ line' \in Lines /\ Fitting(line') /\ meant' \in Meanings /\ lossy' \in BOOLEAN
    BY <1>10, SameLine, Zenon DEF Faithful, Types
  <2>2. alive' \subseteq Programs
    BY <1>9, Zenon
  <2> QED
    BY <1>7, <1>8, <1>9, <2>1, <2>2, Zenon DEF Types, Tasks, ThreadStates, ClientStates
<1> QED
  BY <1>9, <1>10, <1>11, SameLine, Zenon DEF Faithful

\* A reader asks the console.
LEMMA ReadConsole ==
  ASSUME Faithful, NEW x \in Programs \cup Threads, ConsoleRead(x)
  PROVE  con' \in Consoles /\ Len(con'.ring) <= RING - 1 /\ Tasks(th', cl')
<1>1. /\ con \in Consoles /\ Len(con.ring) <= RING - 1 /\ RING \in Nat /\ Tasks(th, cl)
      /\ con.ring \in Seq(Keys)
  BY TasksOf, TerminalAssumption, Zenon DEF Faithful, Consoles
<1>2. CASE con' = con /\ cl' = cl /\ th' = IF x \in Threads THEN [th EXCEPT ![x].pc = "eof"] ELSE th
  <2>1. "eof" \in Pcs
    BY Zenon DEF Pcs
  <2>2. Tasks(th', cl')
    BY <1>1, <1>2, <2>1, ThreadPc, Zenon
  <2> QED
    BY <1>1, <1>2, <2>2, Zenon
<1>3. CASE ConsoleGives(x)
  <2>1. /\ con' = [con EXCEPT !.ring = Tail(con.ring)] /\ Handed(x, Head(con.ring))
        /\ con.ring # <<>>
    BY <1>3, Zenon DEF ConsoleGives
  <2>2. Tail(con.ring) \in Seq(Keys) /\ Len(Tail(con.ring)) = Len(con.ring) - 1 /\ Head(con.ring) \in Keys
        /\ Len(con.ring) \in Nat
    BY <1>1, <2>1
  <2>3. con' \in Consoles /\ con'.ring = Tail(con.ring)
    BY <1>1, <2>1, <2>2, Zenon DEF Consoles
  <2>4. Len(con'.ring) <= RING - 1
    BY <1>1, <2>2, <2>3
  <2>5. Tasks(th', cl')
    BY <1>1, <2>1, <2>2, HandedTasks, Zenon
  <2> QED
    BY <2>3, <2>4, <2>5, Zenon
<1>4. CASE ConsoleKeeps(x)
  <2>1. /\ con' = [con EXCEPT !.waiter = x]
        /\ th' = IF x \in Threads THEN [th EXCEPT ![x].pc = "parked"] ELSE th
        /\ cl' = IF x \in Programs THEN [cl EXCEPT ![x] = "keyboard"] ELSE cl
    BY <1>4, Zenon DEF ConsoleKeeps
  <2>2. con' \in Consoles /\ con'.ring = con.ring
    BY <1>1, <2>1, Zenon DEF Consoles, Whom
  <2>3. Tasks(th', cl')
    <3>1. CASE x \in Threads
      <4>1. x \notin Programs /\ "parked" \in Pcs
        BY <3>1, TerminalAssumption, Zenon DEF Pcs
      <4> QED
        BY <1>1, <2>1, <3>1, <4>1, ThreadPc, Zenon
    <3>2. CASE x \notin Threads
      <4>1. x \in Programs /\ "keyboard" \in ClientStates
        BY <3>2, Zenon DEF ClientStates
      <4> QED
        BY <1>1, <2>1, <3>2, <4>1, ClientOn, Zenon
    <3> QED
      BY <3>1, <3>2, Zenon
  <2> QED
    BY <1>1, <2>2, <2>3, Zenon
<1> QED
  BY <1>2, <1>3, <1>4, Zenon DEF ConsoleRead, ConsoleFails, ConsoleTellsZero

\* A step that changes nothing of the line, from the types of what it changes.
LEMMA FaithfulElse ==
  ASSUME Faithful, UNCHANGED <<line, meant, lossy>>,
         fifo' \in Seq(Keys), script' \in Seq(Keys), con' \in Consoles, Len(con'.ring) <= RING - 1,
         Tasks(th', cl'), alive' \subseteq Programs, gone' \in BOOLEAN, moves' \in Nat
  PROVE  Faithful'
<1>1. Meant' /\ line' \in Lines /\ Fitting(line') /\ meant' \in Meanings /\ lossy' \in BOOLEAN
  BY SameLine, Zenon
<1> QED
  BY <1>1, Zenon DEF Faithful, Types, Tasks, ThreadStates, ClientStates

\* A step that changes only the line and what it means.
LEMMA FaithfulLine ==
  ASSUME Faithful, line' \in Lines, Fitting(line'), meant' \in Meanings, lossy' \in BOOLEAN, Meant',
         UNCHANGED <<fifo, con, gone, script>>,
         Tasks(th', cl'), alive' \subseteq Programs, moves' \in Nat
  PROVE  Faithful'
<1>1. fifo' \in Seq(Keys) /\ script' \in Seq(Keys) /\ con' \in Consoles /\ gone' \in BOOLEAN
      /\ Len(con'.ring) <= RING - 1
  BY Zenon DEF Faithful, Types
<1> QED
  BY <1>1, Zenon DEF Faithful, Types, Tasks, ThreadStates, ClientStates

\* What the invariant says of each part.
LEMMA FaithfulParts ==
  ASSUME Faithful
  PROVE  /\ fifo \in Seq(Keys) /\ script \in Seq(Keys)
         /\ con \in Consoles /\ Len(con.ring) <= RING - 1
         /\ line \in Lines /\ Fitting(line) /\ Tasks(th, cl)
         /\ alive \subseteq Programs /\ gone \in BOOLEAN /\ moves \in Nat
         /\ meant \in Meanings /\ lossy \in BOOLEAN /\ Meant
BY TasksOf, Zenon DEF Faithful

LEMMA MoveFaithful ==
  ASSUME Faithful, Moves
  PROVE  moves' \in Nat
BY FaithfulParts DEF Moves

LEMMA ConsoleFaithful ==
  ASSUME Faithful, \/ DirectRead(Child)
                   \/ \E i \in Threads : ThreadReads(i)
                   \/ \E whom \in {Child, Nobody} : ConsoleIntr(Shell, whom)
                   \/ DeviceEnds
                   \/ \E p \in Programs : Waits(p) \/ Dies(p)
  PROVE  Faithful'
<1>1. CASE DirectRead(Child)
  <2>1. ConsoleRead(Child) /\ Child \in Programs /\ Moves
        /\ UNCHANGED <<fifo, line, alive, gone, script, meant, lossy>>
    BY <1>1, Zenon DEF DirectRead, Programs
  <2>2. con' \in Consoles /\ Len(con'.ring) <= RING - 1 /\ Tasks(th', cl')
    BY <2>1, ReadConsole, Zenon
  <2> QED
    BY <2>1, <2>2, FaithfulElse, FaithfulParts, MoveFaithful, Zenon
<1>2. ASSUME NEW i \in Threads, ThreadReads(i) PROVE Faithful'
  <2>1. ConsoleRead(i) /\ UNCHANGED <<fifo, line, alive, gone, script, moves, meant, lossy>>
    BY <1>2, Zenon DEF ThreadReads
  <2>2. con' \in Consoles /\ Len(con'.ring) <= RING - 1 /\ Tasks(th', cl')
    BY <2>1, ReadConsole, Zenon
  <2> QED
    BY <2>1, <2>2, FaithfulElse, FaithfulParts, Zenon
<1>3. ASSUME NEW whom \in {Child, Nobody}, ConsoleIntr(Shell, whom) PROVE Faithful'
  <2>1. /\ Moves /\ con' = [con EXCEPT !.intr = whom, !.fired = FALSE]
        /\ UNCHANGED <<fifo, line, th, cl, alive, gone, script, meant, lossy>>
    BY <1>3, Zenon DEF ConsoleIntr
  <2>2. con' \in Consoles /\ con'.ring = con.ring
    BY <2>1, FaithfulParts, Zenon DEF Consoles, Whom, Programs
  <2> QED
    BY <2>1, <2>2, FaithfulElse, FaithfulParts, MoveFaithful, Zenon
<1>4. CASE DeviceEnds
  <2>1. /\ Moves /\ gone' = TRUE
        /\ con' = [con EXCEPT !.waiter = Nobody]
        /\ th' = [i \in Threads |-> IF th[i].pc = "parked" THEN [th[i] EXCEPT !.pc = "eof"] ELSE th[i]]
        /\ cl' = [p \in Programs |-> IF cl[p] = "keyboard" THEN "run" ELSE cl[p]]
        /\ UNCHANGED <<fifo, line, alive, script, meant, lossy>>
    BY <1>4, Zenon DEF DeviceEnds
  <2>2. con' \in Consoles /\ con'.ring = con.ring
    BY <2>1, FaithfulParts, Zenon DEF Consoles, Whom
  <2>3. Tasks(th', cl')
    <3>1. Tasks(th, cl)
      BY FaithfulParts, Zenon
    <3>2. \A i \in Threads : th'[i] \in ThreadStates /\ (th'[i].pc = "has" => th'[i].byte \in Keys)
      <4> SUFFICES ASSUME NEW i \in Threads
                   PROVE  th'[i] \in ThreadStates /\ (th'[i].pc = "has" => th'[i].byte \in Keys)
        BY Zenon
      <4>1. th[i] \in ThreadStates /\ (th[i].pc = "has" => th[i].byte \in Keys)
        BY <3>1, Zenon DEF Tasks
      <4>2. [th[i] EXCEPT !.pc = "eof"] \in ThreadStates /\ [th[i] EXCEPT !.pc = "eof"].pc = "eof"
        BY <4>1, Zenon DEF ThreadStates, Pcs
      <4> QED
        BY <2>1, <4>1, <4>2, Zenon
    <3>3. th' \in [Threads -> ThreadStates]
      BY <2>1, <3>2, Zenon
    <3>4. cl' \in [Programs -> ClientStates]
      BY <2>1, <3>1, Zenon DEF Tasks, ClientStates
    <3> QED
      BY <3>2, <3>3, <3>4, Zenon DEF Tasks
  <2>4. Len(con'.ring) <= RING - 1 /\ gone' \in BOOLEAN
    BY <2>1, <2>2, FaithfulParts, Zenon
  <2> QED
    BY <2>1, <2>2, <2>3, <2>4, FaithfulElse, FaithfulParts, MoveFaithful, Zenon
<1>5. ASSUME NEW p \in Programs, Waits(p) PROVE Faithful'
  <2>1. /\ cl' = [cl EXCEPT ![p] = "recv"]
        /\ UNCHANGED <<fifo, con, line, th, alive, gone, script, moves, meant, lossy>>
    BY <1>5, Zenon DEF Waits
  <2>2. Tasks(th', cl')
    BY <2>1, FaithfulParts, ClientOn, Zenon DEF ClientStates
  <2> QED
    BY <2>1, <2>2, FaithfulElse, FaithfulParts, Zenon
<1>6. ASSUME NEW p \in Programs, Dies(p) PROVE Faithful'
  <2>1. /\ Moves /\ alive' = alive \ {p}
        /\ UNCHANGED <<fifo, con, line, th, cl, gone, script, meant, lossy>>
    BY <1>6, Zenon DEF Dies
  <2>2. alive' \subseteq Programs
    BY <2>1, FaithfulParts, Zenon
  <2> QED
    BY <2>1, <2>2, FaithfulElse, FaithfulParts, MoveFaithful, Zenon
<1> QED
  BY <1>1, <1>2, <1>3, <1>4, <1>5, <1>6, Zenon

\* What a thread feeds to the discipline.
Disc == [L |-> line, wake |-> FALSE, kills |-> {}, lossy |-> lossy]

LEMMA FedFacts ==
  ASSUME Faithful, NEW i \in Threads, ThreadFeeds(i)
  PROVE  LET R == feed_byte(Disc, th[i].byte)
         IN /\ Keeps(Disc, R) /\ Disc.L = line /\ Disc.lossy = lossy /\ ~Disc.wake
            /\ line' = R.L /\ lossy' = (R.lossy \/ (R.L.dead /\ ~R.wake))
            /\ alive' = alive \ R.kills
            /\ th' = [th EXCEPT ![i] = [pc |-> Next3(R.wake, R.L.dead), byte |-> "none",
                                        done |-> R.L.dead]]
            /\ meant' \in Meanings /\ FollowsAll(meant', R)
<1> DEFINE R == feed_byte(Disc, th[i].byte)
<1>1. Disc \in Discs /\ Disc.L = line /\ Disc.lossy = lossy /\ Disc.wake = FALSE
  BY FaithfulParts, Zenon DEF Disc, Discs
<1>2. Fitting(Disc.L) /\ FollowsAll(meant, Disc)
  BY <1>1, FaithfulParts, Zenon DEF FollowsAll, Follows, Meant
<1>3. th[i].byte \in Keys
  BY FaithfulParts, Zenon DEF Tasks, ThreadFeeds
<1>4. meant' = Step(meant, Mode(Disc.L), th[i].byte, Disc.L.intr # Nobody)
  BY <1>1, Zenon DEF ThreadFeeds, Mode
<1>5. Keeps(Disc, R) /\ meant' \in Meanings /\ FollowsAll(meant', R)
  BY <1>1, <1>2, <1>3, <1>4, FeedFacts, FaithfulParts, Zenon
<1>6. /\ line' = R.L /\ lossy' = (R.lossy \/ (R.L.dead /\ ~R.wake))
      /\ alive' = alive \ R.kills
      /\ th' = [th EXCEPT ![i] = [pc |-> Next3(R.wake, R.L.dead), byte |-> "none",
                                  done |-> R.L.dead]]
  BY Zenon DEF ThreadFeeds, Disc
<1> HIDE DEF R
<1> QED
  BY <1>1, <1>5, <1>6, Zenon DEF R

LEMMA FeedsFaithful ==
  ASSUME Faithful, NEW i \in Threads, ThreadFeeds(i)
  PROVE  Faithful'
<1> DEFINE R == feed_byte(Disc, th[i].byte)
<1>1. /\ Keeps(Disc, R)
      /\ line' = R.L /\ lossy' = (R.lossy \/ (R.L.dead /\ ~R.wake))
      /\ alive' = alive \ R.kills
      /\ th' = [th EXCEPT ![i] = [pc |-> Next3(R.wake, R.L.dead), byte |-> "none",
                                  done |-> R.L.dead]]
      /\ meant' \in Meanings /\ FollowsAll(meant', R)
  BY FedFacts, Zenon
<1>2. UNCHANGED <<fifo, con, cl, gone, script, moves>>
  BY Zenon DEF ThreadFeeds
<1> HIDE DEF R
<1>3. R \in Discs /\ Fitting(R.L)
  BY <1>1, Zenon DEF Keeps
<1>4. R.L \in Lines /\ R.lossy \in BOOLEAN /\ R.wake \in BOOLEAN /\ R.L.dead \in BOOLEAN
  BY <1>3, PartsOfDisc, Zenon
<1>5. Meant'
  <2>1. ~lossy' => ~R.lossy
    BY <1>1, Zenon
  <2> QED
    BY <1>1, <2>1, Zenon DEF Meant, FollowsAll, Follows, Tels
<1>6. Tasks(th', cl')
  <2> DEFINE s == [pc |-> Next3(R.wake, R.L.dead), byte |-> "none", done |-> R.L.dead]
  <2>1. s \in ThreadStates /\ s.pc # "has"
    BY <1>4, Zenon DEF ThreadStates, Pcs, Next3
  <2> HIDE DEF s
  <2>2. Tasks([th EXCEPT ![i] = s], cl)
    BY <2>1, ThreadOn, FaithfulParts, Zenon
  <2> QED
    BY <1>1, <1>2, <2>2, Zenon DEF s
<1>7. alive' \subseteq Programs /\ moves' \in Nat
  BY <1>1, <1>2, FaithfulParts, Zenon
<1>8. line' \in Lines /\ Fitting(line') /\ lossy' \in BOOLEAN
  BY <1>1, <1>3, <1>4, Zenon
<1> QED
  BY <1>1, <1>2, <1>5, <1>6, <1>7, <1>8, FaithfulLine, Zenon

\* The line is changed, but neither what is typed nor what is queued.
LEMMA LineOn ==
  ASSUME Faithful, NEW L \in Lines, line' = L,
         L.buf = line.buf, L.q = line.q, L.cr = line.cr, L.tstate = line.tstate,
         UNCHANGED <<meant, lossy>>
  PROVE  line' \in Lines /\ Fitting(line') /\ Meant' /\ meant' \in Meanings /\ lossy' \in BOOLEAN
<1>1. Fitting(line)
  BY FaithfulParts, Zenon
<1>2. Fitting(line')
  BY <1>1, Zenon DEF Fitting
<1>3. Meant'
  BY FaithfulParts, Zenon DEF Meant, Tels
<1> QED
  BY <1>2, <1>3, FaithfulParts, Zenon

LEMMA HangsUpFaithful ==
  ASSUME Faithful, NEW i \in Threads, ThreadHangsUp(i)
  PROVE  Faithful'
<1> DEFINE L == [line EXCEPT !.intr = Nobody, !.dead = TRUE]
           s == [[th[i] EXCEPT !.pc = "poke"] EXCEPT !.done = TRUE]
<1>1. line \in Lines /\ th[i] \in ThreadStates /\ Tasks(th, cl)
  BY FaithfulParts, Zenon DEF Tasks
<1>2. L \in Lines /\ L.buf = line.buf /\ L.q = line.q /\ L.cr = line.cr /\ L.tstate = line.tstate
  BY <1>1, Zenon DEF Lines, Whom
<1>3. s \in ThreadStates /\ s.pc = "poke"
  BY <1>1, Zenon DEF ThreadStates, Pcs
<1>4. /\ line' = L /\ alive' = alive \ {line.intr} /\ th' = [th EXCEPT ![i] = s]
      /\ UNCHANGED <<fifo, con, cl, gone, script, moves, meant, lossy>>
  <2>1. th' = [th EXCEPT ![i].pc = "poke", ![i].done = TRUE]
    BY Zenon DEF ThreadHangsUp
  <2>2. th' = [th EXCEPT ![i] = s]
    BY <1>1, <2>1, Zenon DEF Tasks
  <2> QED
    BY <2>2, Zenon DEF ThreadHangsUp
<1> HIDE DEF L, s
<1>5. line' \in Lines /\ Fitting(line') /\ Meant' /\ meant' \in Meanings /\ lossy' \in BOOLEAN
  BY <1>2, <1>4, LineOn, Zenon
<1>6. Tasks(th', cl')
  BY <1>1, <1>3, <1>4, ThreadOn, Zenon
<1>7. alive' \subseteq Programs /\ moves' \in Nat
  BY <1>4, FaithfulParts, Zenon
<1> QED
  BY <1>4, <1>5, <1>6, <1>7, FaithfulLine, Zenon

\* A reader is told: what it gets is what is due.
LEMMA AnswerFaithful ==
  ASSUME Faithful, NEW want \in Nat, NEW L \in Lines, line' = L,
         LET T == Taken(line, take(line, want))
         IN L.buf = T.buf /\ L.q = T.q /\ L.cr = T.cr /\ L.tstate = T.tstate,
         meant' = Read(meant, SubSeq(line.q, 1, take(line, want))), lossy' = lossy
  PROVE  line' \in Lines /\ Fitting(line') /\ Meant' /\ meant' \in Meanings /\ lossy' \in BOOLEAN
<1> DEFINE n == take(line, want)
           T == Taken(line, n)
<1>1. line \in Lines /\ Fitting(line) /\ line.q \in Seq(Bytes) /\ meant \in Meanings
      /\ lossy \in BOOLEAN /\ Meant
  BY FaithfulParts, Zenon DEF Lines
<1>2. n \in Nat /\ n <= Len(line.q)
  BY <1>1, TakeFacts, Zenon
<1>3. L.buf = T.buf /\ L.q = T.q /\ L.cr = T.cr /\ L.tstate = T.tstate
  BY Zenon
<1>4. meant' = Read(meant, SubSeq(line.q, 1, n))
  BY Zenon
<1> HIDE DEF n
<1>5. /\ T \in Lines /\ Fitting(T) /\ T.q = SubSeq(line.q, n + 1, Len(line.q))
      /\ T.buf = line.buf /\ T.cr = line.cr /\ T.tstate = line.tstate
  BY <1>1, <1>2, TakenFacts, Zenon
<1>6. /\ meant' \in Meanings /\ meant'.t = meant.t /\ meant'.line = meant.line
      /\ meant'.cr = meant.cr
      /\ meant.due = line.q => meant'.due = SubSeq(line.q, n + 1, Len(line.q))
  <2> DEFINE N == Read(meant, SubSeq(line.q, 1, n))
  <2>1. /\ N \in Meanings /\ N.t = meant.t /\ N.line = meant.line /\ N.cr = meant.cr
        /\ meant.due = line.q => N.due = SubSeq(line.q, n + 1, Len(line.q))
    BY <1>1, <1>2, ReadFacts, Zenon
  <2>2. meant' = N
    BY <1>4, Zenon
  <2> HIDE DEF N
  <2> QED
    BY <2>1, <2>2, Zenon
<1> HIDE DEF T
<1>7. Fitting(line')
  BY <1>3, <1>5, Zenon DEF Fitting
<1>8. Meant'
  BY <1>1, <1>3, <1>5, <1>6, Zenon DEF Meant, Tels
<1> QED
  BY <1>1, <1>6, <1>7, <1>8, Zenon

LEMMA ServeFaithful ==
  ASSUME Faithful, NEW i, serve_parked(i)
  PROVE  /\ line' \in Lines /\ Fitting(line') /\ Meant' /\ meant' \in Meanings /\ lossy' \in BOOLEAN
         /\ cl' \in [Programs -> ClientStates]
<1> DEFINE n == take(line, line.want)
           T == Taken(line, n)
<1>1. /\ line \in Lines /\ Fitting(line) /\ line.want \in Nat /\ cl \in [Programs -> ClientStates]
      /\ alive \subseteq Programs /\ Nobody \in Whom /\ meant \in Meanings
  BY FaithfulParts, Zenon DEF Lines, Tasks, Whom
<1>2. n \in Nat /\ n <= Len(line.q)
  BY <1>1, TakeFacts, Zenon
<1>3. CASE UNCHANGED <<line, cl, meant, lossy>>
  BY <1>1, <1>3, SameLine, Zenon
<1>4. CASE line' = [line EXCEPT !.waiter = Nobody] /\ UNCHANGED <<cl, meant, lossy>>
  <2> DEFINE L == [line EXCEPT !.waiter = Nobody]
  <2>1. L \in Lines /\ L.buf = line.buf /\ L.q = line.q /\ L.cr = line.cr /\ L.tstate = line.tstate
    BY <1>1, Zenon DEF Lines
  <2> HIDE DEF L
  <2>2. line' = L
    BY <1>4, Zenon DEF L
  <2> QED
    BY <1>1, <1>4, <2>1, <2>2, LineOn, Zenon
<1>5. CASE /\ line' = [T EXCEPT !.waiter = Nobody]
           /\ line.waiter \in alive
           /\ cl' = [cl EXCEPT ![line.waiter] = "run"]
           /\ meant' = Read(meant, SubSeq(line.q, 1, n))
           /\ UNCHANGED lossy
  <2> DEFINE L == [T EXCEPT !.waiter = Nobody]
  <2> HIDE DEF n
  <2>1. T \in Lines
    BY <1>1, <1>2, TakenFacts, Zenon
  <2>2. L \in Lines /\ L.buf = T.buf /\ L.q = T.q /\ L.cr = T.cr /\ L.tstate = T.tstate
    <3> HIDE DEF T
    <3> QED
      BY <1>1, <2>1, Zenon DEF Lines
  <2>3. line' = L
    BY <1>5, Zenon
  <2> HIDE DEF L
  <2>4. line' \in Lines /\ Fitting(line') /\ Meant' /\ meant' \in Meanings /\ lossy' \in BOOLEAN
    BY <1>1, <1>5, <2>2, <2>3, AnswerFaithful, Zenon DEF n
  <2>5. cl' \in [Programs -> ClientStates]
    BY <1>1, <1>5, Zenon DEF ClientStates
  <2> QED
    BY <2>4, <2>5, Zenon
<1>6. CASE line' = T /\ lossy' = TRUE /\ UNCHANGED <<cl, meant>>
  <2> HIDE DEF n
  <2>1. T \in Lines /\ Fitting(T)
    BY <1>1, <1>2, TakenFacts, Zenon
  <2>2. Meant'
    BY <1>6, Zenon DEF Meant
  <2> QED
    BY <1>1, <1>6, <2>1, <2>2, Zenon
<1>7. \/ UNCHANGED <<line, cl, meant, lossy>>
      \/ line' = [line EXCEPT !.waiter = Nobody] /\ UNCHANGED <<cl, meant, lossy>>
      \/ /\ line' = [T EXCEPT !.waiter = Nobody]
         /\ line.waiter \in alive
         /\ cl' = [cl EXCEPT ![line.waiter] = "run"]
         /\ meant' = Read(meant, SubSeq(line.q, 1, n))
         /\ UNCHANGED lossy
      \/ line' = T /\ lossy' = TRUE /\ UNCHANGED <<cl, meant>>
  BY Zenon DEF serve_parked
<1> QED
  BY <1>3, <1>4, <1>5, <1>6, <1>7, Zenon

LEMMA PokeFaithful ==
  ASSUME Faithful, NEW i \in Threads, Poke(i)
  PROVE  Faithful'
<1> DEFINE s == IF th[i].done THEN "exited" ELSE "read"
<1>1. /\ th' = [th EXCEPT ![i].pc = s] /\ UNCHANGED <<fifo, con, alive, gone, script, moves>>
      /\ serve_parked(i) \/ UNCHANGED <<line, cl, meant, lossy>>
  BY Zenon DEF Poke
<1>2. s \in Pcs /\ s # "has"
  BY Zenon DEF Pcs
<1> HIDE DEF s
<1>3. Tasks(th, cl)
  BY FaithfulParts, Zenon
<1>4. /\ line' \in Lines /\ Fitting(line') /\ Meant' /\ meant' \in Meanings /\ lossy' \in BOOLEAN
      /\ cl' \in [Programs -> ClientStates]
  BY <1>1, <1>3, ServeFaithful, SameLine, Zenon DEF Tasks
<1>5. Tasks(th', cl)
  BY <1>1, <1>2, <1>3, ThreadPc, Zenon
<1>6. Tasks(th', cl')
  BY <1>4, <1>5, Zenon DEF Tasks
<1>7. alive' \subseteq Programs /\ moves' \in Nat
  BY <1>1, FaithfulParts, Zenon
<1> QED
  BY <1>1, <1>4, <1>6, <1>7, FaithfulLine, Zenon

LEMMA TtyReadFaithful ==
  ASSUME Faithful, NEW p \in Programs, NEW want \in Lens, TtyRead(p, want)
  PROVE  Faithful'
<1> DEFINE n == take(line, want)
           T == Taken(line, n)
<1>1. want \in Nat /\ line \in Lines /\ Fitting(line) /\ Tasks(th, cl) /\ p \in Whom
  BY FaithfulParts, TerminalAssumption, Zenon DEF Whom
<1>2. UNCHANGED <<fifo, con, th, alive, gone, script, lossy>> /\ Moves
  BY Zenon DEF TtyRead
<1>3. /\ line' \in Lines /\ Fitting(line') /\ Meant' /\ meant' \in Meanings /\ lossy' \in BOOLEAN
      /\ Tasks(th', cl')
  <2>1. CASE line' = T /\ meant' = Read(meant, SubSeq(line.q, 1, n)) /\ cl' = cl
    <3>1. n \in Nat /\ n <= Len(line.q)
      BY <1>1, TakeFacts, Zenon
    <3>2. T \in Lines
      <4> HIDE DEF n
      <4> QED
        BY <1>1, <3>1, TakenFacts, Zenon
    <3>3. line' \in Lines /\ Fitting(line') /\ Meant' /\ meant' \in Meanings /\ lossy' \in BOOLEAN
      BY <1>1, <1>2, <2>1, <3>2, AnswerFaithful, Zenon
    <3> QED
      BY <1>1, <1>2, <2>1, <3>3, Zenon
  <2>2. CASE line' = [line EXCEPT !.waiter = p, !.want = want] /\ cl' = [cl EXCEPT ![p] = "sent"]
             /\ meant' = meant
    <3> DEFINE L == [line EXCEPT !.waiter = p, !.want = want]
    <3>1. L \in Lines /\ L.buf = line.buf /\ L.q = line.q /\ L.cr = line.cr /\ L.tstate = line.tstate
      BY <1>1, Zenon DEF Lines
    <3>2. line' = L
      BY <2>2, Zenon
    <3> HIDE DEF L
    <3>3. line' \in Lines /\ Fitting(line') /\ Meant' /\ meant' \in Meanings /\ lossy' \in BOOLEAN
      BY <1>2, <2>2, <3>1, <3>2, LineOn, Zenon
    <3>4. Tasks(th', cl')
      BY <1>1, <1>2, <2>2, ClientOn, Zenon DEF ClientStates
    <3> QED
      BY <3>3, <3>4, Zenon
  <2> QED
    BY <2>1, <2>2, Zenon DEF TtyRead
<1>4. alive' \subseteq Programs /\ moves' \in Nat
  BY <1>2, FaithfulParts, MoveFaithful, Zenon
<1> QED
  BY <1>2, <1>3, <1>4, FaithfulLine, Zenon

\* The calls that change the line and not the tasks.
LEMMA CallsFaithful ==
  ASSUME Faithful, \/ \E whom \in {Child, Nobody} : TtyIntr(Shell, whom)
                   \/ TtyWrite(Shell)
                   \/ line_close(Shell)
  PROVE  Faithful'
<1> DEFINE Same(L) == L \in Lines /\ L.buf = line.buf /\ L.q = line.q /\ L.cr = line.cr
                      /\ L.tstate = line.tstate
<1>1. line \in Lines /\ gone \in BOOLEAN /\ Tasks(th, cl) /\ line.dead \in BOOLEAN
  BY FaithfulParts, Zenon DEF Lines
<1>2. UNCHANGED <<fifo, con, th, cl, alive, gone, script, meant, lossy>> /\ Moves
  BY Zenon DEF TtyIntr, TtyWrite, line_close
<1>3. \E L : Same(L) /\ line' = L
  <2>1. ASSUME NEW whom \in {Child, Nobody}, TtyIntr(Shell, whom) PROVE \E L : Same(L) /\ line' = L
    <3>1. line' = [line EXCEPT !.intr = whom, !.fired = FALSE] /\ whom \in Whom
      BY <2>1, Zenon DEF TtyIntr, Whom, Programs
    <3>2. Same([line EXCEPT !.intr = whom, !.fired = FALSE])
      BY <1>1, <3>1, Zenon DEF Lines
    <3> QED
      BY <3>1, <3>2, Zenon
  <2>2. CASE TtyWrite(Shell)
    <3> DEFINE d == line.dead \/ gone
    <3>1. line' = [line EXCEPT !.dead = d]
      BY <2>2, Zenon DEF TtyWrite
    <3>2. d \in BOOLEAN
      BY <1>1, Zenon
    <3> HIDE DEF d
    <3>3. Same([line EXCEPT !.dead = d])
      BY <1>1, <3>2, Zenon DEF Lines
    <3> QED
      BY <3>1, <3>3, Zenon
  <2>3. CASE line_close(Shell)
    <3>1. line' = [line EXCEPT !.used = FALSE, !.dead = TRUE]
      BY <2>3, Zenon DEF line_close
    <3>2. Same([line EXCEPT !.used = FALSE, !.dead = TRUE])
      BY <1>1, Zenon DEF Lines
    <3> QED
      BY <3>1, <3>2, Zenon
  <2> QED
    BY <2>1, <2>2, <2>3, Zenon
<1>4. line' \in Lines /\ Fitting(line') /\ Meant' /\ meant' \in Meanings /\ lossy' \in BOOLEAN
  BY <1>2, <1>3, LineOn, Zenon
<1>5. alive' \subseteq Programs /\ moves' \in Nat /\ Tasks(th', cl')
  BY <1>1, <1>2, FaithfulParts, MoveFaithful, Zenon
<1> QED
  BY <1>2, <1>4, <1>5, FaithfulLine, Zenon

\* A change of mode drops the line being typed.
LEMMA ModeFaithful ==
  ASSUME Faithful, NEW raw \in BOOLEAN, TtyMode(Shell, raw)
  PROVE  Faithful'
<1> DEFINE L == [line EXCEPT !.raw = raw, !.buf = <<>>]
           N == [meant EXCEPT !.line = <<>>]
<1>1. /\ line \in Lines /\ Fitting(line) /\ <<>> \in Seq(Bytes) /\ Len(<<>>) <= TTY_LINE - 1
      /\ meant \in Meanings /\ Meant /\ Tasks(th, cl) /\ lossy \in BOOLEAN
  BY FaithfulParts, TerminalAssumption
<1>2. /\ line' = L /\ meant' = N /\ UNCHANGED <<fifo, con, th, cl, alive, gone, script, lossy>> /\ Moves
  BY Zenon DEF TtyMode
<1>3. L \in Lines /\ L.buf = <<>> /\ L.q = line.q /\ L.cr = line.cr /\ L.tstate = line.tstate
  BY <1>1, Zenon DEF Lines
<1>4. N \in Meanings /\ N.line = <<>> /\ N.due = meant.due /\ N.cr = meant.cr /\ N.t = meant.t
  BY <1>1, Zenon DEF Meanings
<1> HIDE DEF L, N
<1>5. Fitting(line') /\ line' \in Lines /\ meant' \in Meanings
  BY <1>1, <1>2, <1>3, <1>4, Zenon DEF Fitting
<1>6. Meant'
  BY <1>1, <1>2, <1>3, <1>4, Zenon DEF Meant, Tels
<1>7. alive' \subseteq Programs /\ moves' \in Nat /\ Tasks(th', cl') /\ lossy' \in BOOLEAN
  BY <1>1, <1>2, FaithfulParts, MoveFaithful, Zenon
<1> QED
  BY <1>2, <1>5, <1>6, <1>7, FaithfulLine, Zenon

\* A new line: the first thread number that was never used is somebody's.
LEMMA NewFacts ==
  ASSUME Faithful, NEW p \in Programs, NEW opens \in BOOLEAN, line_new(p, opens)
  PROVE  \E i \in Threads :
           /\ th[i].pc = "none"
           /\ line' = IF opens THEN [NoLine EXCEPT !.used = TRUE, !.owner = p, !.thread = i] ELSE NoLine
           /\ th' = IF opens THEN [th EXCEPT ![i].pc = "read"] ELSE th
<1> DEFINE fresh == {i \in Threads : th[i].pc = "none"}
           i == CHOOSE k \in fresh : \A o \in fresh : k <= o
<1>1. fresh # {} /\ fresh \in SUBSET Nat
  BY TerminalAssumption, Zenon DEF line_new
<1>2. i \in fresh
  <2> HIDE DEF fresh
  <2> QED
    BY <1>1, HasLeast, Zenon
<1>3. /\ line' = IF opens THEN [NoLine EXCEPT !.used = TRUE, !.owner = p, !.thread = i] ELSE NoLine
      /\ th' = IF opens THEN [th EXCEPT ![i].pc = "read"] ELSE th
  BY Zenon DEF line_new
<1> HIDE DEF i
<1> QED
  BY <1>2, <1>3, Zenon

LEMMA NoLineFacts ==
  ASSUME NEW p \in Programs, NEW i \in Threads
  PROVE  LET L == [NoLine EXCEPT !.used = TRUE, !.owner = p, !.thread = i]
         IN /\ NoLine \in Lines /\ Fitting(NoLine) /\ NoLine.used = FALSE /\ NoLine.waiter = Nobody
            /\ NoLine.buf = <<>> /\ NoLine.q = <<>> /\ NoLine.cr = FALSE /\ NoLine.tstate = "data"
            /\ L \in Lines /\ Fitting(L) /\ L.used /\ L.thread = i /\ L.waiter = Nobody /\ L.dead = FALSE
            /\ L.buf = <<>> /\ L.q = <<>> /\ L.cr = FALSE /\ L.tstate = "data"
<1> DEFINE L == [NoLine EXCEPT !.used = TRUE, !.owner = p, !.thread = i]
<1>1. <<>> \in Seq(Bytes) /\ Len(<<>>) = 0 /\ p \in Whom /\ i \in Nat /\ Nobody \in Whom
  BY TerminalAssumption DEF Whom
<1>2. /\ NoLine \in Lines /\ NoLine.used = FALSE /\ NoLine.waiter = Nobody
      /\ NoLine.buf = <<>> /\ NoLine.q = <<>> /\ NoLine.cr = FALSE /\ NoLine.tstate = "data"
      /\ NoLine.dead = FALSE
  BY <1>1, Zenon DEF NoLine, Lines
<1>3. /\ L \in Lines /\ L.used /\ L.thread = i /\ L.waiter = NoLine.waiter /\ L.dead = NoLine.dead
      /\ L.buf = NoLine.buf /\ L.q = NoLine.q /\ L.cr = NoLine.cr /\ L.tstate = NoLine.tstate
  BY <1>1, <1>2, Zenon DEF Lines
<1> HIDE DEF L
<1>4. Fitting(NoLine) /\ Fitting(L)
  BY <1>1, <1>2, <1>3, TerminalAssumption DEF Fitting
<1> QED
  BY <1>2, <1>3, <1>4, Zenon DEF L

LEMMA NewFaithful ==
  ASSUME Faithful, NEW p \in Programs, NEW opens \in BOOLEAN, line_new(p, opens)
  PROVE  Faithful'
<1>1. PICK i \in Threads :
        /\ line' = IF opens THEN [NoLine EXCEPT !.used = TRUE, !.owner = p, !.thread = i] ELSE NoLine
        /\ th' = IF opens THEN [th EXCEPT ![i].pc = "read"] ELSE th
  BY NewFacts, Zenon
<1>2. /\ line' \in Lines /\ Fitting(line')
      /\ line'.buf = <<>> /\ line'.q = <<>> /\ line'.cr = FALSE /\ line'.tstate = "data"
  BY <1>1, NoLineFacts, Zenon
<1>3. /\ meant' = NothingMeant /\ lossy' = FALSE /\ Moves
      /\ UNCHANGED <<fifo, con, cl, alive, gone, script>>
  BY Zenon DEF line_new
<1>4. meant' \in Meanings
  <2>1. <<>> \in Seq(Bytes) /\ <<>> \in Seq(Bytes \cup {"wrong"})
    OBVIOUS
  <2> QED
    BY <1>3, <2>1, Zenon DEF NothingMeant, Meanings
<1>5. Meant'
  BY <1>2, <1>3, Zenon DEF Meant, Tels, NothingMeant
<1>6. Tasks(th', cl')
  <2>1. Tasks(th, cl) /\ "read" \in Pcs
    BY FaithfulParts, Zenon DEF Pcs
  <2> QED
    BY <1>1, <1>3, <2>1, ThreadPc, Zenon
<1>7. alive' \subseteq Programs /\ moves' \in Nat /\ lossy' \in BOOLEAN
  BY <1>3, FaithfulParts, MoveFaithful, Zenon
<1> QED
  BY <1>2, <1>3, <1>4, <1>5, <1>6, <1>7, FaithfulLine, Zenon

LEMMA FaithfulNext ==
  ASSUME Faithful, [Next]_vars
  PROVE  Faithful'
<1>1. CASE Type
  BY <1>1, TypeFaithful, Zenon
<1>2. CASE ConsoleIrq
  BY <1>2, IrqFaithful, Zenon
<1>3. CASE \E p \in Programs : \E want \in Lens : TtyRead(p, want)
  BY <1>3, TtyReadFaithful, Zenon
<1>4. CASE \E p \in Programs : Waits(p) \/ Dies(p)
  BY <1>4, ConsoleFaithful, Zenon
<1>5. CASE \E whom \in {Child, Nobody} : ConsoleIntr(Shell, whom)
  BY <1>5, ConsoleFaithful, Zenon
<1>6. CASE \E whom \in {Child, Nobody} : TtyIntr(Shell, whom)
  BY <1>6, CallsFaithful, Zenon
<1>7. CASE \E raw \in BOOLEAN : TtyMode(Shell, raw)
  BY <1>7, ModeFaithful, Zenon
<1>8. CASE \E p \in Programs, opens \in BOOLEAN : line_new(p, opens)
  BY <1>8, NewFaithful, Zenon
<1>9. CASE line_close(Shell) \/ TtyWrite(Shell)
  BY <1>9, CallsFaithful, Zenon
<1>10. CASE DirectRead(Child) \/ DeviceEnds
  BY <1>10, ConsoleFaithful, Zenon
<1>11. CASE \E i \in Threads : ThreadReads(i)
  BY <1>11, ConsoleFaithful, Zenon
<1>12. CASE \E i \in Threads : ThreadFeeds(i)
  BY <1>12, FeedsFaithful, Zenon
<1>13. CASE \E i \in Threads : ThreadHangsUp(i)
  BY <1>13, HangsUpFaithful, Zenon
<1>14. CASE \E i \in Threads : Poke(i)
  BY <1>14, PokeFaithful, Zenon
<1>15. CASE UNCHANGED vars
  BY <1>15, Zenon DEF vars, Faithful, Types, Meant, Tels, Fitting
<1> QED
  BY <1>1, <1>2, <1>3, <1>4, <1>5, <1>6, <1>7, <1>8, <1>9, <1>10, <1>11, <1>12, <1>13, <1>14, <1>15, Zenon
  DEF Next

LEMMA AlwaysFaithful == Spec => []Faithful
<1>1. Init => Faithful
  BY FaithfulInit, Zenon
<1>2. Faithful /\ [Next]_vars => Faithful'
  BY FaithfulNext, Zenon
<1> QED
  BY <1>1, <1>2, PTL DEF Spec

\* The ring of the console, the line being typed and the queue of finished bytes
\* never hold more than their arrays, and every field keeps to its values
\* (ring_put, q_put, the editing of feed_byte).
THEOREM TerminalTypeCorrect == Spec => []TypeOK
<1>1. Faithful => TypeOK
  BY Zenon DEF Faithful, Types, TypeOK, Fitting, Consoles, Lines, Whom, Pcs
<1> QED
  BY <1>1, AlwaysFaithful, PTL

\* What readers got and what still waits for them is what was typed: telnet
\* commands cut out, editing done, each byte once and in order, for any typing,
\* any sizes of the buffers and any interleaving of threads, readers and mode
\* changes, as long as no queue was full and no answer refused (feed_byte,
\* line_done, take).
THEOREM EverythingTypedOnce == Spec => []TypedOnce
<1>1. Faithful => TypedOnce
  BY Zenon DEF Faithful, Meant, TypedOnce
<1> QED
  BY <1>1, AlwaysFaithful, PTL

-----------------------------------------------------------------------------
(* Nobody waits in vain                                                    *)

Active(i) == th[i].pc \notin {"none", "exited"}
Looks(i) == th[i].pc \in {"read", "has", "eof"}

\* Nobody is parked at the console before a key, a thread that is kept there says
\* so, and a console that is gone keeps nobody.
Parked ==
  /\ Exists(con.waiter) => con.ring = <<>>
  /\ con.waiter \in Threads => th[con.waiter].pc = "parked"
  /\ gone => con.waiter = Nobody /\ \A i \in Threads : th[i].pc # "parked"

\* Somebody is about to tell a reader that waits for what is there.
Told ==
  (line.used /\ line.waiter # Nobody /\ ~lossy)
    => /\ line.q # <<>> => \E i \in Threads : th[i].pc = "poke"
       /\ line.dead => \E i \in Threads : th[i].pc = "poke" \/ (gone /\ Looks(i))

\* When slots are used again only after their threads have gone, a line has one
\* thread; and a line without one is dead and has no reader.
Sole ==
  /\ \A i, j \in Threads : Active(i) /\ Active(j) => i = j
  /\ \A i \in Threads : line.used /\ Active(i) => line.thread = i
  /\ \A i \in Threads : line.used /\ Active(i) /\ th[i].done => line.dead
  /\ \A i \in Threads : th[i].pc = "none" => ~th[i].done
  /\ line.used /\ ~lossy => (\E i \in Threads : Active(i)) \/ (line.dead /\ line.waiter = Nobody)

LEMMA NobodyExists == ASSUME Faithful PROVE ~Exists(Nobody)
BY FaithfulParts, TerminalAssumption, Zenon DEF Exists

\* The state of a thread, as far as these say something of it.
LEMMA ThreadParts ==
  ASSUME Faithful, NEW i \in Threads
  PROVE  /\ th[i].pc \in Pcs /\ th[i].done \in BOOLEAN /\ th[i] \in ThreadStates
         /\ th \in [Threads -> ThreadStates]
BY FaithfulParts, Zenon DEF Tasks, ThreadStates

LEMMA WaitInit == Init => Parked /\ Sole /\ Told
<1> SUFFICES ASSUME Init PROVE Parked /\ Sole /\ Told
  BY Zenon
<1>1. /\ \A i \in Threads : th[i].pc = (IF i = 1 THEN "read" ELSE "none") /\ th[i].done = FALSE
      /\ con.waiter = Nobody /\ con.ring = <<>> /\ gone = FALSE /\ 1 \in Threads
  BY TerminalAssumption, Zenon DEF Init
<1>2. line.used /\ line.waiter = Nobody /\ line.thread = 1 /\ line.dead = FALSE
  BY Zenon DEF Init, NoLine
<1>3. Nobody \notin Threads
  BY TerminalAssumption, Zenon
<1>4. Parked
  BY <1>1, <1>3, Zenon DEF Parked
<1>5. Sole
  BY <1>1, <1>2, Zenon DEF Sole, Active
<1>6. Told
  BY <1>2, Zenon DEF Told
<1> QED
  BY <1>4, <1>5, <1>6, Zenon

\* A step that leaves the line alone, and every thread as active as it was.
LEMMA QuietStep ==
  ASSUME Sole, Told, UNCHANGED <<line, lossy>>, gone => gone',
         \A i \in Threads : /\ Active(i)' <=> Active(i)
                            /\ th'[i].done = th[i].done
                            /\ th'[i].pc = "none" => th[i].pc = "none"
                            /\ th[i].pc = "poke" => th'[i].pc = "poke"
                            /\ gone /\ Looks(i) => Looks(i)'
  PROVE  Sole' /\ Told'
<1>1. line' = line /\ lossy' = lossy
  BY Zenon
<1>2. (\A i, j \in Threads : Active(i) /\ Active(j) => i = j)'
  BY Zenon DEF Sole
<1>3. (\A i \in Threads : line.used /\ Active(i) => line.thread = i)'
  BY <1>1, Zenon DEF Sole
<1>4. (\A i \in Threads : line.used /\ Active(i) /\ th[i].done => line.dead)'
  BY <1>1, Zenon DEF Sole
<1>5. (\A i \in Threads : th[i].pc = "none" => ~th[i].done)'
  BY Zenon DEF Sole
<1>6. (line.used /\ ~lossy => (\E i \in Threads : Active(i)) \/ (line.dead /\ line.waiter = Nobody))'
  <2>1. line.used /\ ~lossy => (\E i \in Threads : Active(i)) \/ (line.dead /\ line.waiter = Nobody)
    BY Zenon DEF Sole
  <2>2. (\E i \in Threads : Active(i)) => (\E i \in Threads : Active(i)')
    BY Zenon
  <2> QED
    BY <1>1, <2>1, <2>2
<1>7. Sole'
  BY <1>2, <1>3, <1>4, <1>5, <1>6, Zenon DEF Sole
<1>8. Told'
  <2>1. /\ (\E i \in Threads : th[i].pc = "poke") => (\E i \in Threads : th'[i].pc = "poke")
        /\ (\E i \in Threads : th[i].pc = "poke" \/ (gone /\ Looks(i)))
             => (\E i \in Threads : th'[i].pc = "poke" \/ (gone' /\ Looks(i)'))
    BY Zenon
  <2>2. (line.used /\ line.waiter # Nobody /\ ~lossy)
          => /\ line.q # <<>> => \E i \in Threads : th'[i].pc = "poke"
             /\ line.dead => \E i \in Threads : th'[i].pc = "poke" \/ (gone' /\ Looks(i)')
    BY <2>1, Zenon DEF Told
  <2> QED
    BY <1>1, <2>2 DEF Told
<1> QED
  BY <1>7, <1>8, Zenon

\* A step that leaves threads alone.
LEMMA SameThreads ==
  ASSUME Sole, Told, UNCHANGED <<line, lossy, th>>, gone => gone'
  PROVE  Sole' /\ Told'
BY QuietStep, Zenon DEF Active, Looks

\* Nothing changes at the console, and no thread parks or leaves it.
LEMMA ParkedThread ==
  ASSUME Faithful, Parked, con'.waiter = con.waiter, con'.ring = con.ring, gone' = gone,
         alive' \subseteq alive, NEW i \in Threads, th[i].pc # "parked", NEW s, s.pc # "parked",
         th' = [th EXCEPT ![i] = s]
  PROVE  Parked'
<1>1. th \in [Threads -> ThreadStates]
  BY ThreadParts, Zenon
<1>2. \A j \in Threads : th'[j] = IF j = i THEN s ELSE th[j]
  BY <1>1, Zenon
<1>3. con.waiter \in Threads => con.waiter # i /\ th'[con.waiter] = th[con.waiter]
  BY <1>2, Zenon DEF Parked
<1>4. Exists(con.waiter)' => Exists(con.waiter)
  BY <1>3, Zenon DEF Exists
<1>5. (Exists(con.waiter) => con.ring = <<>>)'
  BY <1>4, Zenon DEF Parked
<1>6. (con.waiter \in Threads => th[con.waiter].pc = "parked")'
  BY <1>3, Zenon DEF Parked
<1>7. (gone => con.waiter = Nobody /\ \A j \in Threads : th[j].pc # "parked")'
  BY <1>2, Zenon DEF Parked
<1> QED
  BY <1>5, <1>6, <1>7, Zenon DEF Parked

LEMMA ParkedSame ==
  ASSUME Parked, con'.waiter = con.waiter, con'.ring = con.ring, gone' = gone,
         alive' \subseteq alive, th' = th
  PROVE  Parked'
BY Zenon DEF Parked, Exists

\* An interrupt gives a key to whoever is parked, or leaves the ring empty.
LEMMA IrqParked ==
  ASSUME Faithful, Parked, ConsoleIrq
  PROVE  Parked' /\ (Sole /\ Told => Sole' /\ Told')
<1> DEFINE K == Drain([ring |-> con.ring, intr |-> con.intr, fired |-> con.fired, kills |-> {}], fifo)
           still == con.waiter \in alive \ K.kills \/ (con.waiter \in Threads /\ Exists(con.waiter))
           w == IF still THEN con.waiter ELSE Nobody
           gives == w # Nobody /\ K.ring # <<>>
<1>1. /\ alive' = alive \ K.kills /\ ~gone
      /\ con' = [ring |-> IF gives THEN Tail(K.ring) ELSE K.ring,
                 waiter |-> IF gives THEN Nobody ELSE w,
                 intr |-> K.intr, fired |-> K.fired]
      /\ IF gives THEN Handed(w, Head(K.ring)) ELSE UNCHANGED <<th, cl>>
      /\ UNCHANGED <<line, gone, lossy>>
  BY Zenon DEF ConsoleIrq
<1>2. con'.ring = (IF gives THEN Tail(K.ring) ELSE K.ring) /\ con'.waiter = (IF gives THEN Nobody ELSE w)
  BY <1>1, Zenon
<1>3. /\ Faithful' /\ ~Exists(Nobody)' /\ Nobody \notin Threads
      /\ th \in [Threads -> ThreadStates]
  <2>1. Faithful'
    BY IrqFaithful, Zenon
  <2>2. (Faithful => ~Exists(Nobody))'
    BY NobodyExists, PTL
  <2> QED
    BY <2>1, <2>2, FaithfulParts, TerminalAssumption, Zenon DEF Tasks
<1>4. w = Nobody \/ w = con.waiter
  BY Zenon
<1> HIDE DEF w, K
<1>5. CASE gives
  <2>1. Handed(w, Head(K.ring)) /\ w = con.waiter /\ con'.waiter = Nobody /\ gone' = FALSE
    BY <1>1, <1>2, <1>4, <1>5, FaithfulParts, Zenon
  <2>2. Parked'
    BY <1>3, <2>1, Zenon DEF Parked
  <2>3. th' = th \/ (/\ w \in Threads /\ th[w].pc = "parked"
                     /\ th' = [th EXCEPT ![w].pc = "has", ![w].byte = Head(K.ring)])
    BY <2>1, Zenon DEF Handed, Parked
  <2>4. CASE th' = th
    BY <1>1, <2>2, <2>4, SameThreads, Zenon
  <2>5. CASE /\ w \in Threads /\ th[w].pc = "parked"
             /\ th' = [th EXCEPT ![w].pc = "has", ![w].byte = Head(K.ring)]
    <3>1. ASSUME NEW i \in Threads, i # w PROVE th'[i] = th[i]
      BY <1>3, <2>5, <3>1, Zenon
    <3>2. th'[w].pc = "has" /\ th'[w].done = th[w].done
      <4>1. th[w] \in ThreadStates
        BY <1>3, <2>5, Zenon
      <4> QED
        BY <1>3, <2>5, <4>1, Zenon DEF ThreadStates
    <3>3. \A i \in Threads : /\ Active(i)' <=> Active(i)
                             /\ th'[i].done = th[i].done
                             /\ th'[i].pc = "none" => th[i].pc = "none"
                             /\ th[i].pc = "poke" => th'[i].pc = "poke"
                             /\ gone /\ Looks(i) => Looks(i)'
      BY <1>1, <2>5, <3>1, <3>2, Zenon DEF Active, Looks
    <3>4. Sole /\ Told => Sole' /\ Told'
      BY <1>1, <3>3, QuietStep, Zenon
    <3> QED
      BY <2>2, <3>4, Zenon
  <2> QED
    BY <2>3, <2>4, <2>5, Zenon
<1>6. CASE ~gives
  <2>1. th' = th /\ con'.ring = K.ring /\ con'.waiter = w /\ gone' = gone
    BY <1>1, <1>2, <1>6, Zenon
  <2>2. w = Nobody \/ K.ring = <<>>
    BY <1>6, Zenon
  <2>3. Parked'
    BY <1>1, <1>3, <1>4, <2>1, <2>2 DEF Parked
  <2> QED
    BY <1>1, <2>1, <2>3, SameThreads, Zenon
<1> QED
  BY <1>5, <1>6, Zenon

\* A reader asks the console: it parks only before an empty ring, and where
\* nobody else does.
LEMMA ReadParked ==
  ASSUME Faithful, Faithful', Parked, NEW x \in Programs \cup Threads, ConsoleRead(x),
         x \in Threads => th[x].pc = "read", UNCHANGED <<alive, gone>>
  PROVE  /\ Parked'
         /\ \A i \in Threads : /\ i # x => th'[i] = th[i]
                               /\ i = x => /\ th'[i].pc \in {"has", "parked", "eof"}
                                           /\ th'[i].done = th[i].done
                                           /\ gone => th'[i].pc = "eof"
<1>1. th \in [Threads -> ThreadStates] /\ con \in Consoles
  BY FaithfulParts, Zenon DEF Tasks
<1>2. CASE con' = con /\ th' = (IF x \in Threads THEN [th EXCEPT ![x].pc = "eof"] ELSE th)
  <2>1. CASE x \in Threads
    <3> DEFINE s == [th[x] EXCEPT !.pc = "eof"]
    <3>1. th[x] \in ThreadStates
      BY <1>1, <2>1, Zenon
    <3>2. s.pc = "eof" /\ s.done = th[x].done
      BY <3>1, Zenon DEF ThreadStates
    <3>3. th' = [th EXCEPT ![x] = s]
      BY <1>2, <2>1, Zenon
    <3> HIDE DEF s
    <3>4. Parked'
      BY <1>2, <2>1, <3>2, <3>3, ParkedThread, Zenon
    <3> QED
      BY <1>1, <2>1, <3>2, <3>3, <3>4, Zenon
  <2>2. CASE x \notin Threads
    <3>1. th' = th
      BY <1>2, <2>2, Zenon
    <3>2. Parked'
      BY <1>2, <3>1, ParkedSame, Zenon
    <3> QED
      BY <2>2, <3>1, <3>2, Zenon
  <2> QED
    BY <2>1, <2>2, Zenon
<1>3. CASE ConsoleGives(x) /\ ~gone
  <2>1. /\ con' = [con EXCEPT !.ring = Tail(con.ring)] /\ Handed(x, Head(con.ring))
        /\ con.ring # <<>>
    BY <1>3, Zenon DEF ConsoleGives
  <2>2. con'.waiter = con.waiter /\ ~Exists(con.waiter)
    BY <1>1, <2>1, Zenon DEF Parked, Consoles
  <2>3. CASE x \in Threads
    <3>1. th' = [th EXCEPT ![x].pc = "has", ![x].byte = Head(con.ring)]
      BY <2>1, <2>3, Zenon DEF Handed
    <3>2. th[x] \in ThreadStates
      BY <1>1, <2>3, Zenon
    <3>3. th'[x].pc = "has" /\ th'[x].done = th[x].done
      BY <1>1, <2>3, <3>1, <3>2, Zenon DEF ThreadStates
    <3>4. \A i \in Threads : i # x => th'[i] = th[i]
      BY <1>1, <2>3, <3>1, Zenon
    <3>5. con.waiter \in Threads => con.waiter # x /\ th'[con.waiter] = th[con.waiter]
      BY <2>3, <3>4, Zenon DEF Parked
    <3>6. ~Exists(con.waiter)'
      BY <2>2, <3>5, Zenon DEF Exists
    <3>7. Parked'
      BY <1>3, <2>2, <3>5, <3>6, Zenon DEF Parked
    <3> QED
      BY <1>3, <3>3, <3>4, <3>7, Zenon
  <2>4. CASE x \notin Threads
    <3>1. th' = th
      BY <2>1, <2>4, Zenon DEF Handed
    <3>2. ~Exists(con.waiter)'
      BY <2>2, <3>1, Zenon DEF Exists
    <3>3. Parked'
      BY <1>3, <2>2, <3>1, <3>2, Zenon DEF Parked
    <3> QED
      BY <2>4, <3>1, <3>3, Zenon
  <2> QED
    BY <2>3, <2>4, Zenon
<1>4. CASE ConsoleKeeps(x) /\ ~gone
  <2>1. /\ con' = [con EXCEPT !.waiter = x] /\ con.ring = <<>>
        /\ th' = IF x \in Threads THEN [th EXCEPT ![x].pc = "parked"] ELSE th
    BY <1>4, Zenon DEF ConsoleKeeps
  <2>2. con'.waiter = x /\ con'.ring = <<>>
    BY <1>1, <2>1, Zenon DEF Consoles
  <2>3. CASE x \in Threads
    <3>1. th[x] \in ThreadStates
      BY <1>1, <2>3, Zenon
    <3>2. th'[x].pc = "parked" /\ th'[x].done = th[x].done
      BY <1>1, <2>1, <2>3, <3>1, Zenon DEF ThreadStates
    <3>3. \A i \in Threads : i # x => th'[i] = th[i]
      BY <1>1, <2>1, <2>3, Zenon
    <3>4. Parked'
      BY <1>4, <2>2, <3>2, Zenon DEF Parked
    <3> QED
      BY <1>4, <3>2, <3>3, <3>4, Zenon
  <2>4. CASE x \notin Threads
    <3>1. th' = th
      BY <2>1, <2>4, Zenon
    <3>2. Parked'
      BY <1>4, <2>2, <2>4, Zenon DEF Parked
    <3> QED
      BY <2>4, <3>1, <3>2, Zenon
  <2> QED
    BY <2>3, <2>4, Zenon
<1> QED
  BY <1>2, <1>3, <1>4, Zenon DEF ConsoleRead, ConsoleFails, ConsoleTellsZero

\* What the invariants say together.
Waiting == Parked /\ (Patient => Sole /\ Told)

\* The steps of the console and its clients.
LEMMA ConsoleWaiting ==
  ASSUME Faithful, Faithful', Waiting,
         \/ Type
         \/ ConsoleIrq
         \/ DirectRead(Child)
         \/ \E i \in Threads : ThreadReads(i)
         \/ \E whom \in {Child, Nobody} : ConsoleIntr(Shell, whom)
         \/ DeviceEnds
         \/ \E p \in Programs : Waits(p) \/ Dies(p)
  PROVE  Waiting'
<1> SUFFICES Parked' /\ (Sole /\ Told => Sole' /\ Told')
  BY Zenon DEF Waiting
<1>0. Parked /\ con \in Consoles
  BY FaithfulParts, Zenon DEF Waiting
<1>1. CASE Type
  <2>1. UNCHANGED <<con, line, th, alive, gone, lossy>>
    BY <1>1, Zenon DEF Type
  <2> QED
    BY <1>0, <2>1, ParkedSame, SameThreads, Zenon
<1>2. CASE ConsoleIrq
  BY <1>0, <1>2, IrqParked, Zenon
<1>3. CASE DirectRead(Child)
  <2>1. /\ ConsoleRead(Child) /\ Child \in Programs \cup Threads /\ Child \notin Threads
        /\ UNCHANGED <<line, alive, gone, lossy>>
    BY <1>3, TerminalAssumption, Zenon DEF DirectRead, Programs
  <2>2. Parked' /\ \A i \in Threads : th'[i] = th[i]
    BY <1>0, <2>1, ReadParked, Zenon
  <2>3. \A i \in Threads : /\ Active(i)' <=> Active(i)
                           /\ th'[i].done = th[i].done
                           /\ th'[i].pc = "none" => th[i].pc = "none"
                           /\ th[i].pc = "poke" => th'[i].pc = "poke"
                           /\ gone /\ Looks(i) => Looks(i)'
    BY <2>2, Zenon DEF Active, Looks
  <2>4. Sole /\ Told => Sole' /\ Told'
    BY <2>1, <2>3, QuietStep, Zenon
  <2> QED
    BY <2>2, <2>4, Zenon
<1>4. ASSUME NEW k \in Threads, ThreadReads(k) PROVE Parked' /\ (Sole /\ Told => Sole' /\ Told')
  <2>1. /\ ConsoleRead(k) /\ k \in Programs \cup Threads /\ th[k].pc = "read"
        /\ UNCHANGED <<line, alive, gone, lossy>>
    BY <1>4, Zenon DEF ThreadReads
  <2>2. /\ Parked'
        /\ \A i \in Threads : /\ i # k => th'[i] = th[i]
                              /\ i = k => /\ th'[i].pc \in {"has", "parked", "eof"}
                                          /\ th'[i].done = th[i].done
                                          /\ gone => th'[i].pc = "eof"
    BY <1>0, <2>1, ReadParked, Zenon
  <2>3. ASSUME NEW i \in Threads
        PROVE  /\ Active(i)' <=> Active(i)
               /\ th'[i].done = th[i].done
               /\ th'[i].pc = "none" => th[i].pc = "none"
               /\ th[i].pc = "poke" => th'[i].pc = "poke"
               /\ gone /\ Looks(i) => Looks(i)'
    <3>1. CASE i = k
      BY <2>1, <2>2, <3>1, Zenon DEF Active, Looks
    <3>2. CASE i # k
      BY <2>2, <3>2, Zenon DEF Active, Looks
    <3> QED
      BY <3>1, <3>2, Zenon
  <2>4. Sole /\ Told => Sole' /\ Told'
    BY <2>1, <2>3, QuietStep, Zenon
  <2> QED
    BY <2>2, <2>4, Zenon
<1>5. ASSUME NEW whom \in {Child, Nobody}, ConsoleIntr(Shell, whom)
      PROVE  Parked' /\ (Sole /\ Told => Sole' /\ Told')
  <2>1. /\ con' = [con EXCEPT !.intr = whom, !.fired = FALSE]
        /\ UNCHANGED <<line, th, alive, gone, lossy>>
    BY <1>5, Zenon DEF ConsoleIntr
  <2>2. con'.waiter = con.waiter /\ con'.ring = con.ring
    BY <1>0, <2>1, Zenon DEF Consoles
  <2> QED
    BY <1>0, <2>1, <2>2, ParkedSame, SameThreads, Zenon
<1>6. CASE DeviceEnds
  <2>1. /\ con' = [con EXCEPT !.waiter = Nobody] /\ ~gone /\ gone' = TRUE
        /\ th' = [i \in Threads |-> IF th[i].pc = "parked" THEN [th[i] EXCEPT !.pc = "eof"] ELSE th[i]]
        /\ UNCHANGED <<line, lossy>>
    BY <1>6, Zenon DEF DeviceEnds
  <2>2. con'.waiter = Nobody
    BY <1>0, <2>1, Zenon DEF Consoles
  <2>3. ASSUME NEW i \in Threads
        PROVE  /\ th[i].pc = "parked" => th'[i].pc = "eof"
               /\ th[i].pc # "parked" => th'[i].pc = th[i].pc
               /\ th'[i].done = th[i].done
    <3>1. th[i] \in ThreadStates
      BY ThreadParts, Zenon
    <3> QED
      BY <2>1, <3>1, Zenon DEF ThreadStates
  <2>4. Parked'
    <3>1. (Faithful => ~Exists(Nobody))'
      BY NobodyExists, PTL
    <3>2. ~Exists(con.waiter)'
      BY <2>2, <3>1, Zenon DEF Exists
    <3>3. \A i \in Threads : th'[i].pc # "parked"
      BY <2>3, Zenon
    <3>4. Nobody \notin Threads
      BY TerminalAssumption, Zenon
    <3> QED
      BY <2>2, <3>2, <3>3, <3>4, Zenon DEF Parked
  <2>5. \A i \in Threads : /\ Active(i)' <=> Active(i)
                           /\ th'[i].done = th[i].done
                           /\ th'[i].pc = "none" => th[i].pc = "none"
                           /\ th[i].pc = "poke" => th'[i].pc = "poke"
                           /\ gone /\ Looks(i) => Looks(i)'
    BY <2>1, <2>3, Zenon DEF Active, Looks
  <2>6. Sole /\ Told => Sole' /\ Told'
    BY <2>1, <2>5, QuietStep, Zenon
  <2> QED
    BY <2>4, <2>6, Zenon
<1>7. ASSUME NEW p \in Programs, Waits(p) \/ Dies(p)
      PROVE  Parked' /\ (Sole /\ Told => Sole' /\ Told')
  <2>1. UNCHANGED <<con, line, th, gone, lossy>> /\ alive' \subseteq alive
    BY <1>7, Zenon DEF Waits, Dies
  <2> QED
    BY <1>0, <2>1, ParkedSame, SameThreads, Zenon
<1> QED
  BY <1>1, <1>2, <1>3, <1>4, <1>5, <1>6, <1>7, Zenon

\* A byte is fed: something that became readable is announced.
LEMMA FeedsWaiting ==
  ASSUME Faithful, Waiting, NEW i \in Threads, ThreadFeeds(i)
  PROVE  Waiting'
<1> DEFINE R == feed_byte(Disc, th[i].byte)
           s == [pc |-> Next3(R.wake, R.L.dead), byte |-> "none", done |-> R.L.dead]
<1>1. /\ Keeps(Disc, R) /\ Disc.L = line /\ Disc.lossy = lossy /\ ~Disc.wake
      /\ line' = R.L /\ lossy' = (R.lossy \/ (R.L.dead /\ ~R.wake))
      /\ alive' = alive \ R.kills
      /\ th' = [th EXCEPT ![i] = s]
  BY FedFacts, Zenon
<1>2. UNCHANGED <<con, gone>> /\ th[i].pc = "has" /\ Parked
  BY Zenon DEF ThreadFeeds, Waiting
<1> HIDE DEF R
<1>3. R \in Discs /\ R.L.dead \in BOOLEAN /\ R.wake \in BOOLEAN
  BY <1>1, PartsOfDisc, Zenon DEF Keeps
<1>4. /\ s.done = R.L.dead
      /\ R.wake => s.pc = "poke"
      /\ ~R.wake /\ ~R.L.dead => s.pc = "read"
      /\ ~R.wake /\ R.L.dead => s.pc = "exited"
  BY <1>3, Zenon DEF Next3
<1>5. s.pc # "parked" /\ s.pc # "none"
  BY <1>3, <1>4, Zenon
<1> HIDE DEF s
<1>6. Parked'
  BY <1>1, <1>2, <1>5, ParkedThread, Zenon
<1>7. /\ line'.used = line.used /\ line'.waiter = line.waiter /\ line'.thread = line.thread
      /\ line'.dead = R.L.dead /\ (R.wake \/ line'.q = line.q) /\ (lossy => lossy')
  BY <1>1, Zenon DEF Keeps
<1>8. \A j \in Threads : th'[j] = IF j = i THEN s ELSE th[j]
  BY <1>1, ThreadParts, Zenon
<1>9. ASSUME Sole, Told PROVE Sole' /\ Told'
  <2>1. \A j \in Threads : Active(j)' => Active(j)
    BY <1>2, <1>8, Zenon DEF Active
  <2>2. Active(i) /\ \A j \in Threads : Active(j) => j = i
    BY <1>2, <1>9, Zenon DEF Active, Sole
  <2>3. Sole'
    <3>1. (\A j, k \in Threads : Active(j) /\ Active(k) => j = k)'
      BY <2>1, <2>2, Zenon
    <3>2. (\A j \in Threads : line.used /\ Active(j) => line.thread = j)'
      BY <1>7, <1>9, <2>1, Zenon DEF Sole
    <3>3. (\A j \in Threads : line.used /\ Active(j) /\ th[j].done => line.dead)'
      BY <1>4, <1>7, <1>8, <2>1, <2>2, Zenon
    <3>4. (\A j \in Threads : th[j].pc = "none" => ~th[j].done)'
      BY <1>5, <1>8, <1>9, Zenon DEF Sole
    <3>5. lossy' \/ Active(i)'
      BY <1>1, <1>4, <1>8, Zenon DEF Active
    <3> QED
      BY <3>1, <3>2, <3>3, <3>4, <3>5, Zenon DEF Sole
  <2>4. Told'
    <3>1. CASE R.wake
      <4>1. th'[i].pc = "poke"
        BY <1>4, <1>8, <3>1, Zenon
      <4> QED
        BY <4>1, Zenon DEF Told
    <3>2. CASE ~R.wake /\ R.L.dead
      BY <1>1, <3>2, Zenon DEF Told
    <3>3. CASE ~R.wake /\ ~R.L.dead
      <4>1. line'.q = line.q /\ ~line'.dead
        BY <1>7, <3>3, Zenon
      <4>2. \A j \in Threads : th[j].pc # "poke"
        BY <1>2, <2>2, Zenon DEF Active
      <4>3. line.used /\ line.waiter # Nobody /\ ~lossy => line.q = <<>>
        BY <1>9, <4>2, Zenon DEF Told
      <4> QED
        BY <1>7, <4>1, <4>3, Zenon DEF Told
    <3> QED
      BY <1>3, <3>1, <3>2, <3>3, Zenon
  <2> QED
    BY <2>3, <2>4, Zenon
<1> QED
  BY <1>6, <1>9, Zenon DEF Waiting

\* The end of the device is announced.
LEMMA HangsUpWaiting ==
  ASSUME Faithful, Waiting, NEW i \in Threads, ThreadHangsUp(i)
  PROVE  Waiting'
<1> DEFINE s == [[th[i] EXCEPT !.pc = "poke"] EXCEPT !.done = TRUE]
<1>1. /\ th[i].pc = "eof" /\ alive' \subseteq alive /\ UNCHANGED <<con, gone, lossy>>
      /\ line' = [line EXCEPT !.intr = Nobody, !.dead = TRUE] /\ Parked
      /\ th' = [th EXCEPT ![i].pc = "poke", ![i].done = TRUE]
  BY Zenon DEF ThreadHangsUp, Waiting
<1>2. th[i] \in ThreadStates /\ th \in [Threads -> ThreadStates] /\ line \in Lines
  BY ThreadParts, FaithfulParts, Zenon
<1>3. s.pc = "poke" /\ s.done = TRUE
  BY <1>2, Zenon DEF ThreadStates
<1>4. th' = [th EXCEPT ![i] = s]
  BY <1>1, <1>2, Zenon
<1> HIDE DEF s
<1>5. Parked'
  BY <1>1, <1>3, <1>4, ParkedThread, Zenon
<1>6. /\ line'.used = line.used /\ line'.waiter = line.waiter /\ line'.thread = line.thread
      /\ line'.dead = TRUE
  BY <1>1, <1>2, Zenon DEF Lines
<1>7. \A j \in Threads : th'[j] = IF j = i THEN s ELSE th[j]
  BY <1>2, <1>4, Zenon
<1>8. ASSUME Sole PROVE Sole' /\ Told'
  <2>1. \A j \in Threads : Active(j)' => Active(j)
    BY <1>1, <1>3, <1>7, Zenon DEF Active
  <2>2. Active(i)' /\ th'[i].pc = "poke"
    BY <1>3, <1>7, Zenon DEF Active
  <2>3. (\A j, k \in Threads : Active(j) /\ Active(k) => j = k)'
    BY <1>8, <2>1, Zenon DEF Sole
  <2>4. (\A j \in Threads : line.used /\ Active(j) => line.thread = j)'
    BY <1>6, <1>8, <2>1, Zenon DEF Sole
  <2>5. (\A j \in Threads : th[j].pc = "none" => ~th[j].done)'
    BY <1>3, <1>7, <1>8, Zenon DEF Sole
  <2>6. Sole'
    BY <1>6, <2>2, <2>3, <2>4, <2>5, Zenon DEF Sole
  <2>7. Told'
    BY <2>2, Zenon DEF Told
  <2> QED
    BY <2>6, <2>7, Zenon
<1> QED
  BY <1>5, <1>8, Zenon DEF Waiting

\* A poke: whoever waited for what is there is answered, or the answer is lost.
LEMMA PokeWaiting ==
  ASSUME Faithful, Waiting, NEW i \in Threads, Poke(i)
  PROVE  Waiting'
<1> DEFINE t == IF th[i].done THEN "exited" ELSE "read"
           s == [th[i] EXCEPT !.pc = t]
           n == take(line, line.want)
<1>1. /\ th[i].pc = "poke" /\ UNCHANGED <<con, alive, gone>> /\ Parked
      /\ th' = [th EXCEPT ![i].pc = t]
      /\ IF line.used /\ line.thread = i THEN serve_parked(i) ELSE UNCHANGED <<line, cl, meant, lossy>>
  BY Zenon DEF Poke, Waiting
<1>2. /\ th[i] \in ThreadStates /\ th \in [Threads -> ThreadStates] /\ line \in Lines
      /\ Fitting(line) /\ line.want \in Nat
  BY ThreadParts, FaithfulParts, Zenon DEF Lines
<1>3. s.pc = t /\ s.done = th[i].done /\ t \in {"exited", "read"}
  BY <1>2, Zenon DEF ThreadStates
<1>4. th' = [th EXCEPT ![i] = s]
  BY <1>1, <1>2, Zenon
<1> HIDE DEF s
<1>5. Parked'
  BY <1>1, <1>3, <1>4, ParkedThread, Zenon
<1>6. \A j \in Threads : th'[j] = IF j = i THEN s ELSE th[j]
  BY <1>2, <1>4, Zenon
<1>7. n \in Nat /\ n <= Len(line.q)
  BY <1>2, TakeFacts, Zenon
<1>8. /\ line'.used = line.used /\ line'.thread = line.thread /\ line'.dead = line.dead
      /\ lossy => lossy'
      /\ line.used /\ line.thread = i /\ ~lossy'
           => line'.waiter = Nobody \/ (line' = line /\ line.q = <<>> /\ ~line.dead)
  <2> DEFINE T == Taken(line, n)
  <2>1. /\ T \in Lines /\ T.used = line.used /\ T.thread = line.thread /\ T.dead = line.dead
    <3> HIDE DEF n
    <3> QED
      BY <1>2, <1>7, TakenFacts, Zenon
  <2>2. CASE UNCHANGED <<line, lossy>> /\ (line.used /\ line.thread = i
                                             => line.waiter = Nobody \/ (line.q = <<>> /\ ~line.dead))
    BY <2>2, Zenon
  <2>3. CASE line' = [line EXCEPT !.waiter = Nobody] /\ UNCHANGED lossy
    BY <1>2, <2>3, Zenon DEF Lines
  <2>4. CASE line' = [T EXCEPT !.waiter = Nobody] /\ UNCHANGED lossy
    <3> HIDE DEF T
    <3>1. line'.waiter = Nobody /\ line'.used = T.used /\ line'.thread = T.thread /\ line'.dead = T.dead
      BY <2>1, <2>4, Zenon DEF Lines
    <3> QED
      BY <2>1, <2>4, <3>1, Zenon
  <2>5. CASE line' = T /\ lossy' = TRUE
    BY <2>1, <2>5, Zenon
  <2>6. \/ UNCHANGED <<line, lossy>> /\ (line.used /\ line.thread = i
                                           => line.waiter = Nobody \/ (line.q = <<>> /\ ~line.dead))
        \/ line' = [line EXCEPT !.waiter = Nobody] /\ UNCHANGED lossy
        \/ line' = [T EXCEPT !.waiter = Nobody] /\ UNCHANGED lossy
        \/ line' = T /\ lossy' = TRUE
    BY <1>1, Zenon DEF serve_parked
  <2> QED
    BY <2>2, <2>3, <2>4, <2>5, <2>6, Zenon
<1>9. ASSUME Sole, Told PROVE Sole' /\ Told'
  <2>1. \A j \in Threads : Active(j)' => Active(j)
    BY <1>1, <1>6, Zenon DEF Active
  <2>2. Active(i) /\ (line.used => line.thread = i) /\ (line.used /\ th[i].done => line.dead)
    <3>1. Active(i)
      BY <1>1, Zenon DEF Active
    <3> QED
      BY <1>9, <3>1, Zenon DEF Sole
  <2>3. \A j \in Threads : Active(j)' => th'[j].done = th[j].done
    BY <1>3, <1>6, Zenon
  <2>4. Sole'
    <3>1. (\A j, k \in Threads : Active(j) /\ Active(k) => j = k)'
      BY <1>9, <2>1, Zenon DEF Sole
    <3>2. (\A j \in Threads : line.used /\ Active(j) => line.thread = j)'
      BY <1>8, <1>9, <2>1, Zenon DEF Sole
    <3>3. (\A j \in Threads : line.used /\ Active(j) /\ th[j].done => line.dead)'
      BY <1>8, <1>9, <2>1, <2>3, Zenon DEF Sole
    <3>4. (\A j \in Threads : th[j].pc = "none" => ~th[j].done)'
      BY <1>3, <1>6, <1>9, Zenon DEF Sole
    <3>5. Active(i)' \/ (line.used /\ ~lossy' => line'.dead /\ line'.waiter = Nobody)
      <4>1. CASE th[i].done
        <5>1. line.used /\ ~lossy' => line'.dead /\ line'.waiter = Nobody
          BY <1>8, <2>2, <4>1, Zenon
        <5> QED
          BY <5>1, Zenon
      <4>2. CASE ~th[i].done
        BY <1>3, <1>6, <4>2, Zenon DEF Active
      <4> QED
        BY <4>1, <4>2, Zenon
    <3> QED
      BY <1>8, <3>1, <3>2, <3>3, <3>4, <3>5, Zenon DEF Sole
  <2>5. Told'
    BY <1>8, <2>2, Zenon DEF Told
  <2> QED
    BY <2>4, <2>5, Zenon
<1> QED
  BY <1>5, <1>9, Zenon DEF Waiting

\* A request is kept only if there is nothing to say.
LEMMA TtyReadWaiting ==
  ASSUME Faithful, Waiting, NEW p \in Programs, NEW want \in Lens, TtyRead(p, want)
  PROVE  Waiting'
<1> DEFINE n == take(line, want)
           T == Taken(line, n)
<1>1. UNCHANGED <<con, th, alive, gone, lossy>> /\ line.used /\ Parked
  BY Zenon DEF TtyRead, Waiting
<1>2. line \in Lines /\ Fitting(line) /\ want \in Nat
  BY FaithfulParts, TerminalAssumption, Zenon
<1>3. n \in Nat /\ n <= Len(line.q)
  BY <1>2, TakeFacts, Zenon
<1>4. Parked'
  BY <1>1, ParkedSame, Zenon
<1>5. /\ line'.used = line.used /\ line'.thread = line.thread /\ line'.dead = line.dead
      /\ \/ line'.waiter = line.waiter /\ (line.q = <<>> => line'.q = <<>>)
         \/ line'.q = <<>> /\ ~line.dead
  <2>1. CASE line' = T
    <3>1. /\ T.used = line.used /\ T.thread = line.thread /\ T.dead = line.dead
          /\ T.waiter = line.waiter /\ T.q = SubSeq(line.q, n + 1, Len(line.q))
      <4> HIDE DEF n
      <4> QED
        BY <1>2, <1>3, TakenFacts, Zenon
    <3>2. line.q = <<>> => SubSeq(line.q, n + 1, Len(line.q)) = <<>>
      <4> HIDE DEF n
      <4> QED
        BY <1>3
    <3> HIDE DEF T, n
    <3> QED
      BY <2>1, <3>1, <3>2, Zenon
  <2>2. CASE line' = [line EXCEPT !.waiter = p, !.want = want] /\ line.q = <<>> /\ ~line.dead
    BY <1>2, <2>2, Zenon DEF Lines
  <2> QED
    BY <2>1, <2>2, Zenon DEF TtyRead
<1>6. ASSUME Sole, Told PROVE Sole' /\ Told'
  <2>1. \A j \in Threads : /\ Active(j)' <=> Active(j)
                           /\ Looks(j)' <=> Looks(j)
    BY <1>1, Zenon DEF Active, Looks
  <2>2. (line.used /\ ~lossy => (\E j \in Threads : Active(j)) \/ (line.dead /\ line.waiter = Nobody))'
    <3>1. line.used /\ ~lossy => (\E j \in Threads : Active(j)) \/ (line.dead /\ line.waiter = Nobody)
      BY <1>6, Zenon DEF Sole
    <3> QED
      BY <1>1, <1>5, <2>1, <3>1, Zenon
  <2>3. Sole'
    BY <1>1, <1>5, <1>6, <2>1, <2>2, Zenon DEF Sole
  <2>4. Told'
    BY <1>1, <1>5, <1>6, <2>1, Zenon DEF Told
  <2> QED
    BY <2>3, <2>4, Zenon
<1> QED
  BY <1>4, <1>6, Zenon DEF Waiting

\* The other calls: a line found dead has a thread that will find out.
LEMMA CallsWaiting ==
  ASSUME Faithful, Waiting,
         \/ \E whom \in {Child, Nobody} : TtyIntr(Shell, whom)
         \/ \E raw \in BOOLEAN : TtyMode(Shell, raw)
         \/ TtyWrite(Shell)
         \/ line_close(Shell)
  PROVE  Waiting'
<1>1. UNCHANGED <<con, th, alive, gone, lossy>> /\ Parked
  BY Zenon DEF TtyIntr, TtyMode, TtyWrite, line_close, Waiting
<1>2. line \in Lines /\ gone \in BOOLEAN /\ \A i \in Threads : th[i].pc \in Pcs
  BY FaithfulParts, ThreadParts, Zenon
<1>3. Parked'
  BY <1>1, ParkedSame, Zenon
<1>4. \/ line'.used = FALSE
      \/ /\ line'.used = line.used /\ line'.thread = line.thread /\ line'.waiter = line.waiter
         /\ line'.q = line.q
         /\ line.dead => line'.dead
         /\ line'.dead => line.dead \/ gone
  <2>1. ASSUME NEW whom \in {Child, Nobody}, TtyIntr(Shell, whom)
        PROVE  /\ line'.used = line.used /\ line'.thread = line.thread /\ line'.waiter = line.waiter
               /\ line'.q = line.q /\ line'.dead = line.dead
    <3>1. line' = [line EXCEPT !.intr = whom, !.fired = FALSE]
      BY <2>1, Zenon DEF TtyIntr
    <3> QED
      BY <1>2, <3>1, Zenon DEF Lines
  <2>2. ASSUME NEW raw \in BOOLEAN, TtyMode(Shell, raw)
        PROVE  /\ line'.used = line.used /\ line'.thread = line.thread /\ line'.waiter = line.waiter
               /\ line'.q = line.q /\ line'.dead = line.dead
    <3>1. line' = [line EXCEPT !.raw = raw, !.buf = <<>>]
      BY <2>2, Zenon DEF TtyMode
    <3> QED
      BY <1>2, <3>1, Zenon DEF Lines
  <2>3. CASE TtyWrite(Shell)
    <3> DEFINE d == line.dead \/ gone
    <3>1. line' = [line EXCEPT !.dead = d]
      BY <2>3, Zenon DEF TtyWrite
    <3> HIDE DEF d
    <3>2. /\ line'.used = line.used /\ line'.thread = line.thread /\ line'.waiter = line.waiter
          /\ line'.q = line.q /\ line'.dead = d
      BY <1>2, <3>1, Zenon DEF Lines
    <3> QED
      BY <3>2, Zenon DEF d
  <2>4. CASE line_close(Shell)
    <3>1. line' = [line EXCEPT !.used = FALSE, !.dead = TRUE]
      BY <2>4, Zenon DEF line_close
    <3>2. line'.used = FALSE
      BY <1>2, <3>1, Zenon DEF Lines
    <3> QED
      BY <3>2, Zenon
  <2> QED
    BY <2>1, <2>2, <2>3, <2>4, Zenon
<1>5. ASSUME Sole, Told PROVE Sole' /\ Told'
  <2>1. \A j \in Threads : /\ Active(j)' <=> Active(j)
                           /\ Looks(j)' <=> Looks(j)
    BY <1>1, Zenon DEF Active, Looks
  <2>2. CASE line'.used = FALSE
    BY <1>1, <1>5, <2>1, <2>2, Zenon DEF Sole, Told
  <2>3. CASE /\ line'.used = line.used /\ line'.thread = line.thread /\ line'.waiter = line.waiter
             /\ line'.q = line.q
             /\ line.dead => line'.dead
             /\ line'.dead => line.dead \/ gone
    <3>1. (line.used /\ ~lossy => (\E j \in Threads : Active(j)) \/ (line.dead /\ line.waiter = Nobody))'
      <4>1. line.used /\ ~lossy => (\E j \in Threads : Active(j)) \/ (line.dead /\ line.waiter = Nobody)
        BY <1>5, Zenon DEF Sole
      <4> QED
        BY <1>1, <2>1, <2>3, <4>1, Zenon
    <3>2. Sole'
      BY <1>1, <1>5, <2>1, <2>3, <3>1, Zenon DEF Sole
    <3>3. gone => \A j \in Threads : Active(j) => th[j].pc = "poke" \/ Looks(j)
      BY <1>1, <1>2, Zenon DEF Parked, Active, Looks, Pcs
    <3>4. (line.used /\ line.waiter # Nobody /\ ~lossy)
            => (line'.dead => \E j \in Threads : th[j].pc = "poke" \/ (gone /\ Looks(j)))
      <4>1. line.used /\ line.waiter # Nobody /\ ~lossy => \E j \in Threads : Active(j)
        BY <1>5, Zenon DEF Sole
      <4> QED
        BY <1>5, <2>3, <3>3, <4>1, Zenon DEF Told
    <3>5. Told'
      BY <1>1, <1>5, <2>1, <2>3, <3>4, Zenon DEF Told
    <3> QED
      BY <3>2, <3>5, Zenon
  <2> QED
    BY <1>4, <2>2, <2>3, Zenon
<1> QED
  BY <1>3, <1>5, Zenon DEF Waiting

\* A new line has a thread of its own and no reader.
LEMMA NewWaiting ==
  ASSUME Faithful, Waiting, NEW p \in Programs, NEW opens \in BOOLEAN, line_new(p, opens)
  PROVE  Waiting'
<1>1. PICK i \in Threads :
        /\ th[i].pc = "none"
        /\ line' = IF opens THEN [NoLine EXCEPT !.used = TRUE, !.owner = p, !.thread = i] ELSE NoLine
        /\ th' = IF opens THEN [th EXCEPT ![i].pc = "read"] ELSE th
  BY NewFacts, Zenon
<1>2. /\ UNCHANGED <<con, alive, gone>> /\ Parked
      /\ Patient => \A j \in Threads : th[j].pc \in {"none", "exited"}
  BY Zenon DEF line_new, Waiting
<1>3. CASE opens
  <2> DEFINE s == [th[i] EXCEPT !.pc = "read"]
  <2>1. th[i] \in ThreadStates /\ th \in [Threads -> ThreadStates]
    BY ThreadParts, Zenon
  <2>2. s.pc = "read" /\ s.done = th[i].done
    BY <2>1, Zenon DEF ThreadStates
  <2>3. th' = [th EXCEPT ![i] = s]
    BY <1>1, <1>3, <2>1, Zenon
  <2> HIDE DEF s
  <2>4. Parked'
    BY <1>1, <1>2, <2>2, <2>3, ParkedThread, Zenon
  <2>5. line'.used /\ line'.thread = i /\ line'.waiter = Nobody
    BY <1>1, <1>3, NoLineFacts, Zenon
  <2>6. \A j \in Threads : th'[j] = IF j = i THEN s ELSE th[j]
    BY <2>1, <2>3, Zenon
  <2>7. ASSUME Patient, Sole PROVE Sole' /\ Told'
    <3>1. \A j \in Threads : Active(j)' <=> j = i
      BY <1>2, <2>2, <2>6, <2>7, Zenon DEF Active
    <3>2. \A j \in Threads : th'[j].done = th[j].done
      BY <2>2, <2>6, Zenon
    <3>3. ~th'[i].done /\ \A j \in Threads : th'[j].pc = "none" => ~th'[j].done
      BY <1>1, <2>2, <2>6, <2>7, <3>2, SMTT(30) DEF Sole
    <3>4. Sole'
      BY <2>5, <3>1, <3>3, Zenon DEF Sole
    <3>5. Told'
      BY <2>5, Zenon DEF Told
    <3> QED
      BY <3>4, <3>5, Zenon
  <2> QED
    BY <2>4, <2>7, Zenon DEF Waiting
<1>4. CASE ~opens
  <2>1. th' = th /\ line' = NoLine /\ ~NoLine.used
    BY <1>1, <1>4, NoLineFacts, Zenon
  <2>2. Parked'
    BY <1>2, <2>1, ParkedSame, Zenon
  <2>3. ASSUME Sole PROVE Sole' /\ Told'
    <3>1. \A j \in Threads : Active(j)' <=> Active(j)
      BY <2>1, Zenon DEF Active
    <3> QED
      BY <2>1, <2>3, <3>1, Zenon DEF Sole, Told
  <2> QED
    BY <2>2, <2>3, Zenon DEF Waiting
<1> QED
  BY <1>3, <1>4, Zenon

LEMMA WaitingNext ==
  ASSUME Faithful, Faithful', Waiting, [Next]_vars
  PROVE  Waiting'
<1>1. CASE \E i \in Threads : ThreadFeeds(i)
  BY <1>1, FeedsWaiting, Zenon
<1>2. CASE \E i \in Threads : ThreadHangsUp(i)
  BY <1>2, HangsUpWaiting, Zenon
<1>3. CASE \E i \in Threads : Poke(i)
  BY <1>3, PokeWaiting, Zenon
<1>4. CASE \E p \in Programs : \E want \in Lens : TtyRead(p, want)
  BY <1>4, TtyReadWaiting, Zenon
<1>5. CASE \/ \E whom \in {Child, Nobody} : TtyIntr(Shell, whom)
           \/ \E raw \in BOOLEAN : TtyMode(Shell, raw)
           \/ TtyWrite(Shell)
           \/ line_close(Shell)
  BY <1>5, CallsWaiting, Zenon
<1>6. CASE \E p \in Programs, opens \in BOOLEAN : line_new(p, opens)
  BY <1>6, NewWaiting, Zenon
<1>7. CASE \/ Type
           \/ ConsoleIrq
           \/ DirectRead(Child)
           \/ \E i \in Threads : ThreadReads(i)
           \/ \E whom \in {Child, Nobody} : ConsoleIntr(Shell, whom)
           \/ DeviceEnds
           \/ \E p \in Programs : Waits(p) \/ Dies(p)
  BY <1>7, ConsoleWaiting, Zenon
<1>8. CASE UNCHANGED vars
  <2>1. UNCHANGED <<con, line, th, alive, gone, lossy>>
    BY <1>8, Zenon DEF vars
  <2> QED
    BY <2>1, ParkedSame, SameThreads, Zenon DEF Waiting
<1> QED
  BY <1>1, <1>2, <1>3, <1>4, <1>5, <1>6, <1>7, <1>8, Zenon DEF Next

LEMMA AlwaysWaiting == Spec => []Waiting
<1>1. Init => Waiting
  BY WaitInit, Zenon DEF Waiting
<1>2. Faithful /\ Faithful' /\ Waiting /\ [Next]_vars => Waiting'
  BY WaitingNext, Zenon
<1> QED
  BY <1>1, <1>2, AlwaysFaithful, PTL DEF Spec

\* A key never sits in the console's ring while a living reader is parked there,
\* whatever the order of interrupts, reads and deaths, and whether or not lines
\* are closed under their threads (console_server, ring_put).
THEOREM NoKeyIsKeptBack == Spec => [](Exists(con.waiter) => con.ring = <<>>)
<1>1. Waiting => (Exists(con.waiter) => con.ring = <<>>)
  BY Zenon DEF Waiting, Parked
<1> QED
  BY <1>1, AlwaysWaiting, PTL

\* When the slot of a line is used again only after its thread has gone, nobody
\* is left parked before something to read: the thread of the line is about to
\* poke the main loop, or about to find its device gone, unless an answer was
\* refused or the thread ended without a word (reader, serve_parked).
THEOREM NobodyIsForgotten == Patient => (Spec => []NobodyWaitsInVain)
<1> SUFFICES ASSUME Patient PROVE Spec => []NobodyWaitsInVain
  BY Zenon
<1>1. Waiting => NobodyWaitsInVain
  <2> SUFFICES ASSUME Waiting PROVE NobodyWaitsInVain
    BY Zenon
  <2>1. Parked /\ Told
    BY Zenon DEF Waiting
  <2> QED
    BY <2>1, Zenon DEF Parked, Told, Looks, NobodyWaitsInVain
<1> QED
  BY <1>1, AlwaysWaiting, PTL

=============================================================================
