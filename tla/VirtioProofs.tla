---------------------------- MODULE VirtioProofs ----------------------------
(***************************************************************************)
(* What holds of the drivers for any sizes of the rings, any number of     *)
(* buffers and any number of frames: frames go up and out in order, none   *)
(* is forgotten, and the disk holds what was written.                      *)
(***************************************************************************)
EXTENDS Virtio, TLAPS

-----------------------------------------------------------------------------
(* Indices                                                                 *)

\* Division with remainder.
LEMMA Remainder ==
  ASSUME NEW a \in Nat, NEW d \in Nat \ {0}
  PROVE  /\ a \div d \in Nat /\ a % d \in 0 .. d - 1
         /\ a = d * (a \div d) + (a % d)
OBVIOUS

\* No multiple of d lies between 0 and d.
LEMMA NoMultiple ==
  ASSUME NEW z \in Int, NEW d \in Nat \ {0}, d * z > 0 PROVE d * z >= d
<1>1. z >= 1
  OBVIOUS
<1> QED
  BY <1>1

LEMMA TheRemainder ==
  ASSUME NEW a \in Nat, NEW d \in Nat \ {0}, NEW q \in Nat, NEW r \in 0 .. d - 1,
         a = d * q + r
  PROVE  a % d = r
<1> DEFINE p == a \div d
           t == a % d
<1>1. p \in Nat /\ t \in 0 .. d - 1 /\ a = d * p + t
  BY Remainder, Zenon
<1> HIDE DEF p, t
<1>2. /\ p - q \in Int /\ d * (p - q) = r - t
      /\ q - p \in Int /\ d * (q - p) = t - r
  BY <1>1
<1>3. CASE r > t
  <2>1. d * (p - q) >= d
    BY <1>1, <1>2, <1>3, NoMultiple
  <2> QED
    BY <1>1, <1>2, <2>1
<1>4. CASE t > r
  <2>1. d * (q - p) >= d
    BY <1>1, <1>2, <1>4, NoMultiple
  <2> QED
    BY <1>1, <1>2, <2>1
<1> QED
  BY <1>1, <1>3, <1>4 DEF t

\* Indices that wrap at a multiple of d still tell apart what is less than d
\* apart.
LEMMA Spread ==
  ASSUME NEW d \in Nat \ {0}, IDX % d = 0,
         NEW j \in Nat, NEW k \in Nat, j < k, k - j < d
  PROVE  (j % IDX) % d # (k % IDX) % d
<1> DEFINE m == IDX \div d
           a == j \div IDX
           b == k \div IDX
           r == j % IDX
           s == k % IDX
           c == r \div d
           e == s \div d
<1>1. IDX \in Nat \ {0}
  BY VirtioAssumption
<1>2. m \in Nat /\ IDX = d * m
  BY <1>1, Remainder
<1>3. /\ a \in Nat /\ r \in Nat /\ j = IDX * a + r
      /\ b \in Nat /\ s \in Nat /\ k = IDX * b + s
  BY <1>1, Remainder
<1> HIDE DEF m, a, b, r, s
<1>4. c \in Nat /\ r % d \in 0 .. d - 1 /\ r = d * c + (r % d)
  BY <1>3, Remainder, Zenon
<1>5. e \in Nat /\ s % d \in 0 .. d - 1 /\ s = d * e + (s % d)
  BY <1>3, Remainder, Zenon
<1> SUFFICES ASSUME r % d = s % d PROVE FALSE
  BY Zenon DEF r, s
<1> HIDE DEF c, e
<1>6. /\ IDX * a = d * (m * a) /\ m * a \in Nat
      /\ IDX * b = d * (m * b) /\ m * b \in Nat
  BY <1>2, <1>3
<1> DEFINE z == m * b - m * a + e - c
<1>7. z \in Int /\ d * z = d * (m * b) - d * (m * a) + d * e - d * c
  BY <1>4, <1>6, <1>5
<1>8. k - j = d * z
  BY <1>3, <1>4, <1>6, <1>7, <1>5
<1> QED
  BY <1>7, <1>8, NoMultiple

\* One more.
LEMMA IncFacts ==
  ASSUME NEW k \in Nat PROVE Inc(k % IDX) = (k + 1) % IDX /\ k % IDX \in 0 .. IDX - 1
<1> DEFINE q == k \div IDX
           r == k % IDX
<1>1. IDX \in Nat \ {0} /\ IDX > 1
  BY VirtioAssumption
<1>2. q \in Nat /\ r \in 0 .. IDX - 1 /\ k = IDX * q + r
  BY <1>1, Remainder, Zenon
<1> HIDE DEF q, r
<1>3. CASE r + 1 < IDX
  <2>1. k + 1 = IDX * q + (r + 1) /\ r + 1 \in 0 .. IDX - 1
    BY <1>1, <1>2, <1>3
  <2>2. (k + 1) % IDX = r + 1 /\ (r + 1) % IDX = r + 1
    BY <1>1, <1>2, <2>1, TheRemainder
  <2> QED
    BY <1>2, <2>2, Zenon DEF Inc, r
<1>4. CASE r + 1 = IDX
  <2>1. k + 1 = IDX * (q + 1) + 0 /\ IDX = IDX * 1 + 0
    BY <1>1, <1>2, <1>4
  <2>2. (k + 1) % IDX = 0 /\ IDX % IDX = 0
    BY <1>1, <1>2, <2>1, TheRemainder
  <2> QED
    BY <1>2, <1>4, <2>2, Zenon DEF Inc, r
<1> QED
  BY <1>1, <1>2, <1>3, <1>4

-----------------------------------------------------------------------------
(* The invariant                                                           *)

Index == 0 .. IDX - 1
Ring == 0 .. VQ_SIZE - 1
Data == Values \cup {0}
Flag == [owed : BOOLEAN, raised : BOOLEAN, claimed : BOOLEAN, told : BOOLEAN]
Queues(k) ==
  [avail : [Ring -> Bufs(k)], aidx : Index, used : [Ring -> Bufs(k)], uidx : Index,
   seen : Index, buf : [Bufs(k) -> Nat]]

Nets ==
  [pc : {"setup", "exit", "loop", "drain", "input", "ack"}, stage : 1 .. 7,
   live : BOOLEAN, rx_last : Index, tx_next : Index, id : Bufs(NRX), filled : BOOLEAN]
Calls ==
  [pc : {"idle", "build", "poll"}, ready : BOOLEAN, last_used : Index,
   req : Requests \cup {NoRequest}, result : {0, -1}, out : Data]
Chains ==
  [aidx : Index, uidx : Index, seen : Index, hdr : Requests \cup {NoRequest},
   data : Data, status : {"ok", "error", "untouched"},
   ph : {"idle", "work", "done"}, doing : Requests \cup {NoRequest}]
Counts ==
  [came : Nat, up : Nat, last : Nat, sent : Nat, gone : Nat, onwire : Nat,
   calls : Nat, givenUp : Nat, asked : [Sectors -> Data]]
Types ==
  /\ which \in {"net", "blk"}
  /\ net \in Nets /\ rx \in Queues(NRX) /\ tx \in Queues(NTX) /\ irq \in Flag
  /\ blk \in Calls /\ bq \in Chains /\ disk \in [Sectors -> Data] /\ n \in Counts

\* The frames net_input is done with or at work on.
Begun == IF net.pc = "input" THEN n.up + 1 ELSE n.up

\* Where the buffers of the receive queue are.  Frame k + 1 is in buffer Place(k);
\* what is not a frame yet is in the order in which the card will use it.
Place(k) ==
  IF k >= n.came THEN rx.avail[At(k % IDX)]
  ELSE IF k >= Begun THEN rx.used[At(k % IDX)] ELSE net.id
Window == n.up .. n.up + NRX - 1

Coming ==
  /\ n.last = n.up
  /\ rx.seen = n.came % IDX /\ rx.uidx = n.came % IDX /\ net.rx_last = Begun % IDX
  /\ net.live <=> net.pc \notin {"setup", "exit"}
  /\ net.live => net.stage = 7
  /\ net.stage <= 5 => rx.aidx = 0
  /\ ~net.live => n.came = 0 /\ n.up = 0
  /\ net.stage > 5 =>
       /\ rx.aidx = (n.up + NRX) % IDX
       /\ Begun <= n.came /\ n.came <= n.up + NRX
       /\ \A j, k \in Window : j # k => Place(j) # Place(k)
       /\ \A k \in Window : k < n.came => rx.buf[Place(k)] = k + 1

\* Frames in the transmit queue.
Posted == IF net.filled THEN n.sent - 1 ELSE n.sent
Going ==
  /\ n.onwire = n.gone
  /\ tx.aidx = Posted % IDX /\ net.tx_next = Posted % IDX
  /\ tx.seen = n.gone % IDX /\ tx.uidx = n.gone % IDX
  /\ n.gone <= Posted /\ n.sent - n.gone <= NTX
  /\ \A k \in n.gone .. Posted - 1 : tx.avail[At(k % IDX)] = TxSlot(k % IDX)
  /\ \A k \in n.gone .. n.sent - 1 : tx.buf[TxSlot(k % IDX)] = k + 1

\* Between its last look at the ring and its next sys_recv, too, the driver will
\* hear of a frame.
Heard ==
  (net.pc \in {"loop", "ack"} /\ rx.uidx # net.rx_last)
    => irq.owed \/ irq.raised \/ irq.told

\* One request on its way: the disk has answered it.
Served ==
  IF bq.status # "ok" THEN disk = n.asked
  ELSE IF blk.req.type = "OUT" THEN disk = [n.asked EXCEPT ![blk.req.lba] = blk.req.v]
  ELSE disk = n.asked /\ bq.data = disk[blk.req.lba]
Carried == disk = n.asked /\ (blk.req.type = "OUT" => bq.data = blk.req.v)
Quiet == bq.seen = bq.aidx /\ bq.uidx = blk.last_used

Asked ==
  /\ blk.pc # "idle" => blk.req \in Requests
  /\ n.givenUp = 0 =>
       /\ blk.pc = "idle" => Quiet /\ bq.ph = "idle" /\ disk = n.asked
       /\ (blk.pc = "idle" /\ blk.result = 0 /\ blk.req.type = "IN")
            => blk.out = disk[blk.req.lba]
       /\ blk.pc = "build" => Quiet /\ bq.ph = "idle" /\ Carried
       /\ blk.pc = "poll" =>
            \/ /\ bq.ph = "idle" /\ bq.aidx = Inc(bq.seen) /\ bq.uidx = blk.last_used
               /\ bq.hdr = blk.req /\ Carried
            \/ bq.ph = "work" /\ Quiet /\ bq.doing = blk.req /\ Carried
            \/ bq.ph = "done" /\ Quiet /\ Served
            \/ /\ bq.ph = "idle" /\ bq.seen = bq.aidx /\ bq.uidx = Inc(blk.last_used)
               /\ Served

VInv == Types /\ Coming /\ Going /\ Heard /\ Asked

\* An index is one, and points into the ring and at a buffer.
LEMMA IndexFacts ==
  /\ IDX \in Nat \ {0} /\ IDX > 1 /\ VQ_SIZE \in Nat \ {0} /\ IDX % VQ_SIZE = 0
  /\ NRX \in Nat \ {0} /\ NTX \in Nat \ {0} /\ NRX <= VQ_SIZE /\ NTX <= VQ_SIZE
  /\ \A k \in Nat : k % IDX \in Index
  /\ \A i \in Index : Inc(i) \in Index /\ Inc(i) # i
                     /\ At(i) \in Ring /\ TxSlot(i) \in Bufs(NTX)
<1>1. /\ IDX \in Nat \ {0} /\ IDX > 1 /\ VQ_SIZE \in Nat \ {0} /\ IDX % VQ_SIZE = 0
      /\ NRX \in Nat \ {0} /\ NTX \in Nat \ {0} /\ NRX <= VQ_SIZE /\ NTX <= VQ_SIZE
  BY VirtioAssumption
<1>2. \A k \in Nat : k % IDX \in Index
  BY <1>1, Remainder, Zenon DEF Index
<1>3. ASSUME NEW i \in Index PROVE Inc(i) \in Index /\ Inc(i) # i
  <2>1. i \in Nat /\ i + 1 \in Nat
    BY <1>1 DEF Index
  <2>2. CASE i + 1 < IDX
    <3>1. i + 1 = IDX * 0 + (i + 1) /\ i + 1 \in 0 .. IDX - 1
      BY <1>1, <2>1, <2>2
    <3> QED
      BY <1>1, <2>1, <3>1, TheRemainder DEF Inc, Index
  <2>3. CASE i + 1 = IDX
    <3>1. IDX = IDX * 1 + 0 /\ 0 \in 0 .. IDX - 1
      BY <1>1
    <3>2. IDX % IDX = 0
      BY <1>1, <3>1, TheRemainder
    <3> QED
      BY <1>1, <2>1, <2>3, <3>2 DEF Inc, Index
  <2> QED
    BY <1>1, <2>1, <2>2, <2>3 DEF Index
<1>4. ASSUME NEW i \in Index PROVE At(i) \in Ring /\ TxSlot(i) \in Bufs(NTX)
  <2>1. i \in Nat
    BY <1>1 DEF Index
  <2> QED
    BY <1>1, <2>1, Remainder, Zenon DEF At, TxSlot, Ring, Bufs
<1> QED
  BY <1>1, <1>2, <1>3, <1>4, Zenon

LEMMA EntryFacts ==
  ASSUME NEW k \in Nat PROVE At(k % IDX) \in Ring /\ TxSlot(k % IDX) \in Bufs(NTX)
BY IndexFacts, Zenon

\* Entries less than a ring apart are different entries.
LEMMA RingSpread ==
  ASSUME NEW j \in Nat, NEW k \in Nat, j # k, j - k < VQ_SIZE, k - j < VQ_SIZE
  PROVE  At(j % IDX) # At(k % IDX)
<1>1. VQ_SIZE \in Nat \ {0} /\ IDX % VQ_SIZE = 0
  BY IndexFacts, Zenon
<1>2. CASE j < k
  BY <1>1, <1>2, Spread, Zenon DEF At
<1>3. CASE k < j
  BY <1>1, <1>3, Spread, Zenon DEF At
<1> QED
  BY <1>2, <1>3

\* The same of the transmit buffers.
LEMMA SlotSpread ==
  ASSUME NEW j \in Nat, NEW k \in Nat, j < k, k - j < NTX
  PROVE  TxSlot(j % IDX) # TxSlot(k % IDX)
BY IndexFacts, TurnsAssumption, Spread, Zenon DEF TxSlot

-----------------------------------------------------------------------------
(* Types                                                                   *)

\* What is offered and given back keeps the types of a queue.
LEMMA QueueTypes ==
  ASSUME NEW m, NEW q \in Queues(m), NEW b \in Bufs(m)
  PROVE  Offer(q, b) \in Queues(m) /\ GiveBack(q, b) \in Queues(m)
BY IndexFacts, Zenon DEF Queues, Offer, GiveBack

LEMMA TypesInit == ASSUME Init PROVE Types
<1>1. 0 \in Index /\ 0 \in Bufs(NRX) /\ 0 \in Bufs(NTX) /\ 0 \in Data
  BY IndexFacts DEF Index, Bufs, Data
<1>2. EmptyQueue(Bufs(NRX)) \in Queues(NRX) /\ EmptyQueue(Bufs(NTX)) \in Queues(NTX)
  BY <1>1, Zenon DEF EmptyQueue, Queues, Ring
<1>3. net \in Nets /\ irq \in Flag
  BY <1>1 DEF Init, Nets, Flag
<1>4. blk \in Calls /\ bq \in Chains
  BY <1>1, Zenon DEF Init, Calls, Chains
<1>5. n \in Counts
  BY <1>1, Zenon DEF Init, Counts
<1> QED
  BY <1>1, <1>2, <1>3, <1>4, <1>5, Zenon DEF Init, Types

LEMMA NetTypes == ASSUME Types, NetNext PROVE Types'
<1>0. /\ net \in Nets /\ rx \in Queues(NRX) /\ tx \in Queues(NTX) /\ irq \in Flag
      /\ n \in Counts
  BY Zenon DEF Types
<1> SUFFICES /\ net' \in Nets /\ rx' \in Queues(NRX) /\ tx' \in Queues(NTX)
             /\ irq' \in Flag /\ n' \in Counts
  BY Zenon DEF Types, NetNext, blkVars
<1>1. ASSUME NEW ok \in BOOLEAN, NetSetup(ok)
      PROVE  /\ net' \in Nets /\ rx' \in Queues(NRX) /\ tx' \in Queues(NTX)
             /\ irq' \in Flag /\ n' \in Counts
  <2>1. setup_rx(rx) \in Queues(NRX)
    <3>1. NRX \in Index /\ \A i \in Ring : i < NRX => i \in Bufs(NRX)
      BY VirtioAssumption, IndexFacts DEF Index, Ring, Bufs
    <3>2. 0 \in Bufs(NRX)
      BY IndexFacts DEF Bufs
    <3> QED
      BY <1>0, <3>1, <3>2, Zenon DEF setup_rx, Queues
  <2>2. Len(Setup) = 7
    BY Zenon DEF Setup
  <2>3. net' \in Nets
    <3>1. CASE ~ok
      BY <1>0, <1>1, <3>1, Zenon DEF NetSetup, Nets
    <3>2. CASE ok /\ net.stage = 7
      BY <1>0, <1>1, <2>2, <3>2, Zenon DEF NetSetup, Nets
    <3>3. CASE ok /\ net.stage # 7
      <4>1. net.stage + 1 \in 1 .. 7
        BY <1>0, <3>3 DEF Nets
      <4>2. net' = [net EXCEPT !.stage = @ + 1]
        BY <1>1, <2>2, <3>3, Zenon DEF NetSetup
      <4> QED
        BY <1>0, <4>1, <4>2, Zenon DEF Nets
    <3> QED
      BY <3>1, <3>2, <3>3, Zenon
  <2> QED
    BY <1>0, <1>1, <2>1, <2>3, ZenonT(30) DEF NetSetup
<1>2. CASE NetIrq
  BY <1>0, <1>2, Zenon DEF NetIrq, Nets, Flag
<1>3. CASE NetTake
  <2>1. rx.used[At(net.rx_last)] \in Bufs(NRX) /\ Inc(net.rx_last) \in Index
    BY <1>0, IndexFacts, Zenon DEF Nets, Queues
  <2>2. net' \in Nets /\ rx' = rx
    BY <1>0, <1>3, <2>1, Zenon DEF NetTake, RecycleNow, Nets
  <2> QED
    BY <1>0, <1>3, <2>2, Zenon DEF NetTake
<1>4. CASE NetInput
  <2>1. net.id \in Bufs(NRX) /\ rx.buf[net.id] \in Nat
    BY <1>0, Zenon DEF Nets, Queues
  <2>2. rx' = Offer(rx, net.id) /\ net' \in Nets
    BY <1>0, <1>4, Zenon DEF NetInput, RecycleNow, rx_recycle, Nets
  <2>3. n' \in Counts
    <3>1. n' = [n EXCEPT !.up = @ + 1, !.last = rx.buf[net.id]] /\ n.up + 1 \in Nat
      BY <1>0, <1>4 DEF NetInput, Counts
    <3> QED
      BY <1>0, <2>1, <3>1, Zenon DEF Counts
  <2> QED
    BY <1>0, <1>4, <2>1, <2>2, <2>3, QueueTypes, Zenon DEF NetInput
<1>5. CASE NetDrained
  BY <1>0, <1>5, Zenon DEF NetDrained, Nets
<1>6. CASE NetIrqDone
  BY <1>0, <1>6, Zenon DEF NetIrqDone, IrqDone, Nets, Flag
<1>7. CASE NetPublish
  <2>1. TxSlot(net.tx_next) \in Bufs(NTX) /\ Inc(net.tx_next) \in Index
    BY <1>0, IndexFacts, Zenon DEF Nets
  <2>2. net' \in Nets
    BY <1>0, <1>7, <2>1, Zenon DEF NetPublish, Nets
  <2> QED
    BY <1>0, <1>7, <2>1, <2>2, QueueTypes, Zenon DEF NetPublish
<1>8. CASE NetFill
  <2>1. n.sent + 1 \in Nat
    BY <1>0 DEF Counts
  <2>2. [tx EXCEPT !.buf[TxSlot(net.tx_next)] = n.sent + 1] \in Queues(NTX)
    BY <1>0, <2>1, Zenon DEF Queues
  <2>3. net' \in Nets
    BY <1>0, <1>8, Zenon DEF NetFill, Nets
  <2>4. n' \in Counts
    BY <1>0, <1>8 DEF NetFill, Counts
  <2> QED
    BY <1>0, <1>8, <2>2, <2>3, <2>4, Zenon DEF NetFill
<1>9. CASE CardReceives
  <2>1. NextOffered(rx) \in Bufs(NRX)
    BY <1>0, IndexFacts, Zenon DEF NextOffered, Queues
  <2>2. n.came + 1 \in Nat
    BY <1>0 DEF Counts
  <2> DEFINE q == [rx EXCEPT !.buf[NextOffered(rx)] = n.came + 1]
  <2>3. q \in Queues(NRX)
    BY <1>0, <2>2, Zenon DEF Queues
  <2>4. GiveBack(q, NextOffered(rx)) \in Queues(NRX)
    BY <2>1, <2>3, QueueTypes, Zenon
  <2>5. irq' \in Flag
    BY <1>0, <1>9, Zenon DEF CardReceives, Flag
  <2>6. n' = [n EXCEPT !.came = @ + 1]
    BY <1>9, Zenon DEF CardReceives
  <2>7. n' \in Counts
    BY <1>0, <2>2, <2>6, Zenon DEF Counts
  <2> QED
    BY <1>0, <1>9, <2>4, <2>5, <2>7, Zenon DEF CardReceives
<1>10. CASE CardSends
  <2>1. NextOffered(tx) \in Bufs(NTX)
    BY <1>0, IndexFacts, Zenon DEF NextOffered, Queues
  <2>2. GiveBack(tx, NextOffered(tx)) \in Queues(NTX) /\ tx.buf[NextOffered(tx)] \in Nat
    BY <1>0, <2>1, QueueTypes, Zenon DEF Queues
  <2>3. irq' \in Flag
    BY <1>0, <1>10, Zenon DEF CardSends, Flag
  <2>4. /\ n' = [n EXCEPT !.gone = @ + 1, !.onwire = tx.buf[NextOffered(tx)]]
        /\ n.gone + 1 \in Nat
    BY <1>0, <1>10 DEF CardSends, Counts
  <2>5. n' \in Counts
    BY <1>0, <2>2, <2>4, Zenon DEF Counts
  <2> QED
    BY <1>0, <1>10, <2>2, <2>3, <2>5, Zenon DEF CardSends
<1>11. CASE CardRaises \/ Interrupt
  BY <1>0, <1>11, Zenon DEF CardRaises, Interrupt, Flag
<1> QED
  BY <1>1, <1>2, <1>3, <1>4, <1>5, <1>6, <1>7, <1>8, <1>9, <1>10, <1>11, Zenon
     DEF NetNext, NetDriver

LEMMA BlkTypes == ASSUME Types, BlkNext PROVE Types'
<1>0. /\ blk \in Calls /\ bq \in Chains /\ disk \in [Sectors -> Data] /\ n \in Counts
  BY Zenon DEF Types
<1>1. ASSUME NEW r \in Requests
      PROVE  r.type \in {"IN", "OUT"} /\ r.lba \in Sectors /\ r.v \in Data
  BY <1>1, Zenon DEF Requests, Data
<1> SUFFICES /\ blk' \in Calls /\ bq' \in Chains /\ disk' \in [Sectors -> Data]
             /\ n' \in Counts
  BY Zenon DEF Types, BlkNext, netVars
<1>2. ASSUME NEW req \in Requests, NEW ok \in BOOLEAN, BlkCall(req, ok)
      PROVE  /\ blk' \in Calls /\ bq' \in Chains /\ disk' \in [Sectors -> Data]
             /\ n' \in Counts
  <2>1. blk' \in Calls
    BY <1>0, <1>2, ZenonT(30) DEF BlkCall, Calls
  <2>2. bq' \in Chains
    BY <1>0, <1>1, <1>2, Zenon DEF BlkCall, Chains
  <2>3. n' \in Counts
    BY <1>0, <1>2 DEF BlkCall, Counts
  <2> QED
    BY <1>0, <1>2, <2>1, <2>2, <2>3, Zenon DEF BlkCall
<1>3. CASE BlkBuild
  <2>1. blk.req \in Requests \cup {NoRequest} /\ Inc(bq.aidx) \in Index
    BY <1>0, IndexFacts, Zenon DEF Calls, Chains
  <2>2. bq' \in Chains
    BY <1>0, <1>3, <2>1, Zenon DEF BlkBuild, Chains
  <2>3. blk' \in Calls
    BY <1>0, <1>3, Zenon DEF BlkBuild, Calls
  <2> QED
    BY <1>0, <1>3, <2>2, <2>3, Zenon DEF BlkBuild
<1>4. CASE BlkPoll
  <2>1. bq.data \in Data /\ bq.uidx \in Index
    BY <1>0, Zenon DEF Chains
  <2>2. blk' \in Calls
    BY <1>0, <1>4, <2>1, Zenon DEF BlkPoll, Done, Reported, Calls
  <2>3. blk.req.type = "OUT" => blk.req.v \in Data
    <3>1. blk.req \in Requests \cup {NoRequest}
      BY <1>0, Zenon DEF Calls
    <3> QED
      BY <1>1, <3>1 DEF NoRequest
  <2>4. n' \in Counts
    BY <1>0, <1>4, <2>3, Zenon DEF BlkPoll, Done, Counts
  <2> QED
    BY <1>0, <1>4, <2>2, <2>4, Zenon DEF BlkPoll
<1>5. CASE BlkGivesUp
  <2>1. blk' \in Calls
    BY <1>0, <1>5, Zenon DEF BlkGivesUp, Calls
  <2>2. n' \in Counts
    BY <1>0, <1>5 DEF BlkGivesUp, Counts
  <2> QED
    BY <1>0, <1>5, <2>1, <2>2, Zenon DEF BlkGivesUp
<1>6. CASE DiskFetches
  BY <1>0, <1>6, IndexFacts, Zenon DEF DiskFetches, Chains
<1>7. ASSUME NEW ok \in BOOLEAN, DiskWorks(ok)
      PROVE  /\ blk' \in Calls /\ bq' \in Chains /\ disk' \in [Sectors -> Data]
             /\ n' \in Counts
  <2>1. bq.doing.type = "IN" => disk[bq.doing.lba] \in Data
    <3>1. bq.doing \in Requests \cup {NoRequest}
      BY <1>0, Zenon DEF Chains
    <3> QED
      BY <1>0, <1>1, <3>1 DEF NoRequest
  <2>2. bq' \in Chains
    BY <1>0, <1>7, <2>1, Zenon DEF DiskWorks, Chains
  <2>3. bq.data \in Data
    BY <1>0, Zenon DEF Chains
  <2> QED
    BY <1>0, <1>7, <2>2, <2>3, Zenon DEF DiskWorks
<1>8. CASE DiskAnswers
  BY <1>0, <1>8, IndexFacts, Zenon DEF DiskAnswers, Chains
<1> QED
  BY <1>2, <1>3, <1>4, <1>5, <1>6, <1>7, <1>8, Zenon DEF BlkNext

-----------------------------------------------------------------------------
(* Frames that come                                                        *)

\* Everything that Coming is about is as it was.
Still ==
  /\ rx' = rx /\ n'.came = n.came /\ n'.up = n.up /\ n'.last = n.last
  /\ net'.rx_last = net.rx_last /\ net'.id = net.id
  /\ net'.stage = net.stage /\ net'.live = net.live
  /\ net'.pc = "input" <=> net.pc = "input"
  /\ net'.pc \in {"setup", "exit"} <=> net.pc \in {"setup", "exit"}

LEMMA ComingSame == ASSUME Coming, Still PROVE Coming'
<1>1. Begun' = Begun /\ Window' = Window
  BY Zenon DEF Still, Begun, Window
<1>2. \A k : Place(k)' = Place(k)
  BY <1>1, Zenon DEF Still, Place
<1> QED
  BY <1>1, <1>2, Zenon DEF Still, Coming

\* The numbers are numbers.
LEMMA NumberFacts ==
  ASSUME Types
  PROVE  /\ n.came \in Nat /\ n.up \in Nat /\ n.sent \in Nat /\ n.gone \in Nat
         /\ Begun \in Nat /\ NRX \in Nat /\ Window \subseteq Nat
         /\ net.id \in Bufs(NRX) /\ n.up <= Begun /\ Begun <= n.up + 1
         /\ \A k \in Nat : Place(k) \in Bufs(NRX)
<1>1. n \in Counts /\ net \in Nets /\ rx \in Queues(NRX)
  BY Zenon DEF Types
<1>2. n.came \in Nat /\ n.up \in Nat /\ n.sent \in Nat /\ n.gone \in Nat
  BY <1>1, Zenon DEF Counts
<1>3. net.id \in Bufs(NRX)
  BY <1>1, Zenon DEF Nets
<1>4. ASSUME NEW k \in Nat PROVE Place(k) \in Bufs(NRX)
  BY <1>1, <1>3, EntryFacts, Zenon DEF Place, Queues
<1> QED
  BY <1>2, <1>3, <1>4, IndexFacts DEF Begun, Window

\* A frame arrives: the next buffer the card has is filled and given back.
LEMMA ComingReceives == ASSUME Types, Coming, CardReceives PROVE Coming'
<1> DEFINE c == n.came
           b == NextOffered(rx)
<1>1. rx \in Queues(NRX) /\ n \in Counts /\ net \in Nets
  BY Zenon DEF Types
<1>2. /\ c \in Nat /\ n.up \in Nat /\ Begun \in Nat /\ Window \subseteq Nat /\ NRX \in Nat
      /\ \A k \in Nat : Place(k) \in Bufs(NRX)
  BY NumberFacts, Zenon
<1>3. /\ net.live /\ net.stage > 5 /\ rx.seen # rx.aidx
      /\ rx.seen = c % IDX /\ rx.uidx = c % IDX /\ rx.aidx = (n.up + NRX) % IDX
      /\ Begun <= c /\ c <= n.up + NRX
  BY DEF Coming, CardReceives, Offered
<1>4. c < n.up + NRX /\ c \in Window
  BY <1>2, <1>3, NumberFacts DEF Window
<1>5. b = rx.avail[At(c % IDX)] /\ b = Place(c)
  BY <1>2, <1>3 DEF NextOffered, Place
<1> DEFINE q == [rx EXCEPT !.buf[b] = c + 1]
<1>6. /\ q \in Queues(NRX) /\ q.avail = rx.avail /\ q.aidx = rx.aidx /\ q.used = rx.used
      /\ q.uidx = rx.uidx /\ q.seen = rx.seen /\ q.buf = [rx.buf EXCEPT ![b] = c + 1]
  BY <1>1, <1>2 DEF Queues
<1>7. rx' = GiveBack(q, b) /\ net' = net /\ n' = [n EXCEPT !.came = c + 1]
  BY Zenon DEF CardReceives
<1> HIDE DEF q
<1>8. /\ rx'.avail = rx.avail /\ rx'.aidx = rx.aidx
      /\ rx'.used = [rx.used EXCEPT ![At(c % IDX)] = b]
      /\ rx'.uidx = (c + 1) % IDX /\ rx'.seen = (c + 1) % IDX
      /\ rx'.buf = [rx.buf EXCEPT ![b] = c + 1]
  <2>1. Inc(rx.uidx) = (c + 1) % IDX /\ Inc(rx.seen) = (c + 1) % IDX
    BY <1>2, <1>3, IncFacts, Zenon
  <2>2. /\ rx'.avail = q.avail /\ rx'.aidx = q.aidx /\ rx'.buf = q.buf
        /\ rx'.used = [q.used EXCEPT ![At(q.uidx)] = b]
        /\ rx'.uidx = Inc(q.uidx) /\ rx'.seen = Inc(q.seen)
    BY <1>6, <1>7, Zenon DEF Queues, GiveBack
  <2> QED
    BY <1>3, <1>6, <2>1, <2>2
<1>9. n'.came = c + 1 /\ n'.up = n.up /\ n'.last = n.last
  BY <1>1, <1>7, Zenon DEF Counts
<1>10. Begun' = Begun /\ Window' = Window
  BY <1>7, <1>9 DEF Begun, Window
<1>11. rx.used \in [Ring -> Bufs(NRX)] /\ At(c % IDX) \in Ring
  BY <1>1, <1>2, EntryFacts, Zenon DEF Queues
<1>12. ASSUME NEW k \in Window PROVE Place(k)' = Place(k)
  <2>1. k \in Nat /\ k - c < VQ_SIZE /\ c - k < VQ_SIZE
    <3>1. NRX <= VQ_SIZE /\ VQ_SIZE \in Nat
      BY IndexFacts, Zenon
    <3>2. k \in n.up .. n.up + NRX - 1 /\ c \in n.up .. n.up + NRX - 1
      BY <1>4, Zenon DEF Window
    <3> HIDE DEF c
    <3> QED
      BY <1>2, <3>1, <3>2
  <2>2. CASE k > c
    BY <1>2, <1>8, <1>9, <2>1, <2>2 DEF Place
  <2>3. CASE k = c
    BY <1>2, <1>3, <1>5, <1>8, <1>9, <1>10, <1>11, <2>3, Zenon DEF Place
  <2>4. CASE k < c
    <3>1. At(k % IDX) # At(c % IDX)
      BY <1>2, <2>1, <2>4, RingSpread
    <3>2. rx'.used[At(k % IDX)] = rx.used[At(k % IDX)]
      BY <1>8, <1>11, <3>1, <2>1, EntryFacts, Zenon
    <3> QED
      BY <1>2, <1>7, <1>9, <1>10, <2>1, <2>4, <3>2 DEF Place
  <2> QED
    BY <1>2, <2>1, <2>2, <2>3, <2>4
<1>13. \A j, k \in Window : j # k => Place(j) # Place(k)
  BY <1>3, Zenon DEF Coming
<1>14. ASSUME NEW k \in Window, k < c + 1 PROVE rx'.buf[Place(k)] = k + 1
  <2>1. k \in Nat /\ Place(k) \in Bufs(NRX) /\ rx.buf \in [Bufs(NRX) -> Nat]
    BY <1>1, <1>2, Zenon DEF Queues
  <2>2. CASE k = c
    BY <1>5, <1>8, <2>1, <2>2, Zenon
  <2>3. CASE k < c
    <3>1. rx.buf[Place(k)] = k + 1
      BY <1>3, <2>3, Zenon DEF Coming
    <3>2. Place(k) # b
      BY <1>2, <1>4, <1>5, <1>13, <2>1, <2>3
    <3> QED
      BY <1>8, <2>1, <3>1, <3>2, Zenon
  <2> QED
    BY <1>2, <1>14, <2>1, <2>2, <2>3
<1>15. \A j, k \in Window' : j # k => Place(j)' # Place(k)'
  BY <1>10, <1>12, <1>13
<1>16. \A k \in Window' : k < n'.came => rx'.buf[Place(k)'] = k + 1
  BY <1>9, <1>10, <1>12, <1>14, Zenon
<1> QED
  BY <1>2, <1>3, <1>4, <1>7, <1>8, <1>9, <1>10, <1>15, <1>16 DEF Coming

\* drain_rx takes the oldest frame out of the ring.
LEMMA ComingTake == ASSUME Types, Coming, NetTake PROVE Coming'
<1>1. rx \in Queues(NRX) /\ n \in Counts /\ net \in Nets
  BY Zenon DEF Types
<1>2. /\ n.came \in Nat /\ n.up \in Nat /\ Window \subseteq Nat /\ NRX \in Nat
      /\ \A k \in Nat : Place(k) \in Bufs(NRX)
  BY NumberFacts, Zenon
<1>3. net.pc = "drain" /\ rx.uidx # net.rx_last /\ rx' = rx /\ n' = n
  BY Zenon DEF NetTake, RecycleNow
<1>4. Begun = n.up /\ Begun' = n.up + 1
  BY <1>1, <1>3, Zenon DEF Begun, NetTake, Nets
<1>5. net.live /\ net.stage = 7 /\ net.rx_last = n.up % IDX /\ n.up < n.came
  BY <1>1, <1>2, <1>3, <1>4 DEF Coming, Nets
<1>6. n.up \in Window /\ Place(n.up) = rx.used[At(n.up % IDX)] /\ Window' = Window
  <2>1. n.up \in Window
    BY <1>2, IndexFacts DEF Window
  <2> QED
    BY <1>2, <1>3, <1>4, <1>5, <2>1 DEF Place, Window
<1>7. /\ net'.pc = "input" /\ net'.id = Place(n.up) /\ net'.rx_last = (n.up + 1) % IDX
      /\ net'.live = net.live /\ net'.stage = net.stage
  <2>1. Inc(n.up % IDX) = (n.up + 1) % IDX
    BY <1>2, IncFacts, Zenon
  <2> QED
    BY <1>1, <1>5, <1>6, <2>1, Zenon DEF NetTake, Nets
<1>8. ASSUME NEW k \in Window PROVE Place(k)' = Place(k)
  <2>1. k \in Nat /\ k >= n.up
    BY <1>2 DEF Window
  <2>2. CASE k = n.up
    BY <1>2, <1>3, <1>4, <1>5, <1>7, <2>2 DEF Place
  <2>3. CASE k > n.up
    BY <1>2, <1>3, <1>4, <2>1, <2>3 DEF Place
  <2> QED
    BY <1>2, <2>1, <2>2, <2>3
<1>9. /\ \A j, k \in Window' : j # k => Place(j)' # Place(k)'
      /\ \A k \in Window' : k < n'.came => rx'.buf[Place(k)'] = k + 1
  BY <1>3, <1>5, <1>6, <1>8 DEF Coming
<1> QED
  BY <1>2, <1>3, <1>4, <1>5, <1>7, <1>9 DEF Coming

\* net_input is done with it, and the buffer is offered again.
LEMMA ComingInput == ASSUME Types, Coming, NetInput PROVE Coming'
<1>0. PICK u \in Nat, w \in Nat : u = n.up /\ w = n.up + NRX
  <2>1. n.up \in Nat /\ n.up + NRX \in Nat
    BY NumberFacts
  <2> QED
    BY <2>1, Zenon
<1>1. rx \in Queues(NRX) /\ n \in Counts /\ net \in Nets
  BY Zenon DEF Types
<1>2. /\ n.came \in Nat /\ u \in Nat /\ Window \subseteq Nat /\ NRX \in Nat \ {0}
      /\ w = u + NRX /\ net.id \in Bufs(NRX) /\ \A k \in Nat : Place(k) \in Bufs(NRX)
  BY <1>0, NumberFacts, IndexFacts, Zenon
<1>3. /\ net.pc = "input" /\ rx' = Offer(rx, net.id) /\ net' = [net EXCEPT !.pc = "drain"]
      /\ n' = [n EXCEPT !.up = u + 1, !.last = rx.buf[net.id]]
  BY <1>0, Zenon DEF NetInput, RecycleNow, rx_recycle
<1>4. /\ net'.pc = "drain" /\ net'.id = net.id /\ net'.rx_last = net.rx_last
      /\ net'.live = net.live /\ net'.stage = net.stage
      /\ n'.up = u + 1 /\ n'.last = rx.buf[net.id] /\ n'.came = n.came
  BY <1>1, <1>3, Zenon DEF Nets, Counts
<1>5. Begun = u + 1 /\ Begun' = u + 1 /\ Window' = u + 1 .. w
  BY <1>0, <1>2, <1>3, <1>4 DEF Begun, Window
<1>6. /\ net.live /\ net.stage = 7 /\ net.rx_last = (u + 1) % IDX /\ u + 1 <= n.came
      /\ rx.aidx = w % IDX /\ n.came <= w
  BY <1>0, <1>1, <1>2, <1>3, <1>5 DEF Coming, Nets
<1>7. u \in Window /\ Place(u) = net.id
  BY <1>0, <1>2, <1>5, <1>6 DEF Place, Window
<1>8. n'.last = u + 1
  BY <1>2, <1>4, <1>6, <1>7 DEF Coming
<1>9. /\ rx'.avail = [rx.avail EXCEPT ![At(w % IDX)] = net.id] /\ rx'.used = rx.used
      /\ rx'.aidx = (w + 1) % IDX /\ rx'.uidx = rx.uidx /\ rx'.seen = rx.seen
      /\ rx'.buf = rx.buf
  <2>1. Inc(rx.aidx) = (w + 1) % IDX
    BY <1>2, <1>6, IncFacts, Zenon
  <2> QED
    <3>1. /\ rx'.avail = [rx.avail EXCEPT ![At(rx.aidx)] = net.id]
          /\ rx'.aidx = Inc(rx.aidx) /\ rx'.used = rx.used /\ rx'.uidx = rx.uidx
          /\ rx'.seen = rx.seen /\ rx'.buf = rx.buf
      BY <1>1, <1>3, Zenon DEF Queues, Offer
    <3> QED
      BY <1>6, <2>1, <3>1, Zenon
<1>10. rx.avail \in [Ring -> Bufs(NRX)] /\ At(w % IDX) \in Ring
  BY <1>1, <1>2, EntryFacts, Zenon DEF Queues
<1>11. Place(w)' = Place(u)
  BY <1>2, <1>4, <1>6, <1>7, <1>9, <1>10, Zenon DEF Place
<1>12. ASSUME NEW k \in u + 1 .. w - 1 PROVE k \in Window /\ k # u /\ Place(k)' = Place(k)
  <2>1. k \in Nat /\ k > u /\ k < w /\ w - k < NRX
    BY <1>2
  <2>2. k \in Window /\ k # u
    BY <1>0, <1>2, <2>1 DEF Window
  <2>3. CASE k >= n.came
    <3>1. NRX <= VQ_SIZE /\ VQ_SIZE \in Nat
      BY IndexFacts, Zenon
    <3>2. k # w /\ k - w < VQ_SIZE /\ w - k < VQ_SIZE
      BY <1>2, <2>1, <3>1
    <3>3. At(k % IDX) # At(w % IDX)
      BY <1>2, <2>1, <3>2, RingSpread, Zenon
    <3>4. At(k % IDX) \in Ring
      BY <2>1, EntryFacts, Zenon
    <3>5. rx'.avail[At(k % IDX)] = rx.avail[At(k % IDX)]
      BY <1>9, <1>10, <3>3, <3>4, Zenon
    <3> QED
      BY <1>2, <1>4, <2>1, <2>2, <2>3, <3>5, Zenon DEF Place
  <2>4. CASE k < n.came
    BY <1>2, <1>4, <1>5, <1>9, <2>1, <2>2, <2>4 DEF Place
  <2> QED
    BY <1>2, <2>1, <2>2, <2>3, <2>4
<1>13. \A j, k \in Window : j # k => Place(j) # Place(k)
  BY <1>6 DEF Coming
<1>14. ASSUME NEW j \in Window', NEW k \in Window', j # k PROVE Place(j)' # Place(k)'
  <2>1. j \in u + 1 .. w /\ k \in u + 1 .. w
    BY <1>5, Zenon
  <2>2. CASE j = w
    <3>1. k \in u + 1 .. w - 1
      BY <1>2, <1>14, <2>1, <2>2
    <3> QED
      BY <1>7, <1>11, <1>12, <1>13, <2>2, <3>1, Zenon
  <2>3. CASE k = w
    <3>1. j \in u + 1 .. w - 1
      BY <1>2, <1>14, <2>1, <2>3
    <3> QED
      BY <1>7, <1>11, <1>12, <1>13, <2>3, <3>1, Zenon
  <2>4. CASE j # w /\ k # w
    <3>1. j \in u + 1 .. w - 1 /\ k \in u + 1 .. w - 1
      BY <1>2, <2>1, <2>4
    <3> QED
      BY <1>12, <1>13, <1>14, <3>1, Zenon
  <2> QED
    BY <2>2, <2>3, <2>4, Zenon
<1>15. ASSUME NEW k \in Window', k < n'.came PROVE rx'.buf[Place(k)'] = k + 1
  <2>1. k \in u + 1 .. w - 1 /\ k < n.came
    BY <1>2, <1>4, <1>5, <1>6, <1>15
  <2>2. rx.buf[Place(k)] = k + 1
    BY <1>6, <1>12, <2>1 DEF Coming
  <2> QED
    BY <1>9, <1>12, <2>1, <2>2, Zenon
<1>16. rx'.aidx = (n'.up + NRX) % IDX /\ n'.came <= n'.up + NRX
  <2>1. u + 1 + NRX = w + 1
    BY <1>2
  <2> QED
    BY <1>2, <1>4, <1>6, <1>9, <2>1
<1>17. rx'.seen = n'.came % IDX /\ rx'.uidx = n'.came % IDX
  BY <1>4, <1>9, Zenon DEF Coming
<1> QED
  BY <1>4, <1>5, <1>6, <1>8, <1>14, <1>15, <1>16, <1>17 DEF Coming

\* The driver is not yet at work: setup_rx hands all buffers to the card.
LEMMA ComingSetup == ASSUME Types, Coming, NEW ok \in BOOLEAN, NetSetup(ok) PROVE Coming'
<1>1. rx \in Queues(NRX) /\ net \in Nets
  BY Zenon DEF Types
<1>2. /\ net.pc = "setup" /\ n' = n /\ Len(Setup) = 7
      /\ net.stage \in 1 .. 7 /\ (Setup[net.stage] = "rx buffers" <=> net.stage = 5)
  <2>1. /\ Len(Setup) = 7 /\ Setup[5] = "rx buffers"
        /\ \A i \in {1, 2, 3, 4, 6, 7} : Setup[i] # "rx buffers"
    BY DEF Setup
  <2>2. net.stage \in 1 .. 7 /\ (net.stage = 5 \/ net.stage \in {1, 2, 3, 4, 6, 7})
    BY <1>1 DEF Nets
  <2> QED
    BY <2>1, <2>2, Zenon DEF NetSetup
<1>3. ~net.live /\ n.came = 0 /\ n.up = 0 /\ net.stage \in 1 .. 7 /\ n'.came = 0
  BY <1>1, <1>2, Zenon DEF Coming, Nets
<1>4. CASE ~ok
  <2>1. rx' = rx /\ net' = [net EXCEPT !.pc = "exit"]
    BY <1>4, Zenon DEF NetSetup
  <2>2. Still
    BY <1>1, <1>2, <2>1, Zenon DEF Still, Nets
  <2> QED
    BY <2>2, ComingSame, Zenon
<1>5. CASE ok /\ net.stage = 7
  <2>1. /\ rx' = rx /\ net'.pc = "loop" /\ net'.live /\ net'.stage = 7 /\ net'.id = net.id
        /\ net'.rx_last = net.rx_last
    <3>0. Setup[net.stage] # "rx buffers"
      <4>1. net.stage # 5
        BY <1>5
      <4> QED
        BY <1>2, <4>1, Zenon
    <3>1. rx' = rx
      BY <3>0, Zenon DEF NetSetup
    <3>2. net' = [net EXCEPT !.pc = "loop", !.live = TRUE]
      BY <1>2, <1>5, Zenon DEF NetSetup
    <3> QED
      BY <1>1, <1>5, <3>1, <3>2, Zenon DEF Nets
  <2>2. Begun' = Begun /\ Window' = Window
    BY <1>2, <2>1, Zenon DEF Begun, Window
  <2>3. \A k : Place(k)' = Place(k)
    BY <1>2, <2>1, <2>2, Zenon DEF Place
  <2> QED
    BY <1>2, <1>5, <2>1, <2>2, <2>3, Zenon DEF Coming
<1>6. CASE ok /\ net.stage = 5
  <2>1. /\ rx' = setup_rx(rx) /\ net'.pc = "setup" /\ net'.live = net.live
        /\ net'.stage = 6 /\ net'.rx_last = net.rx_last
    <3>0. Setup[net.stage] = "rx buffers" /\ net.stage # Len(Setup) /\ net.stage + 1 = 6
      <4>1. net.stage # 7 /\ net.stage + 1 = 6
        BY <1>6
      <4> QED
        BY <1>2, <1>6, <4>1, Zenon
    <3>1. rx' = setup_rx(rx) /\ net' = [net EXCEPT !.stage = @ + 1]
      BY <1>6, <3>0, Zenon DEF NetSetup
    <3> QED
      BY <1>1, <1>2, <3>0, <3>1, Zenon DEF Nets
  <2>2. /\ rx'.seen = rx.seen /\ rx'.uidx = rx.uidx /\ rx'.aidx = NRX
        /\ \A i \in Ring : i < NRX => rx'.avail[i] = i
    BY <1>1, <2>1, Zenon DEF setup_rx, Queues
  <2>3. Begun = 0 /\ Begun' = 0 /\ Window' = 0 .. NRX - 1 /\ n' = n
    <3>1. Begun = 0 /\ Begun' = 0
      BY <1>2, <1>3, <2>1, Zenon DEF Begun
    <3>2. NRX \in Nat /\ 0 + NRX - 1 = NRX - 1
      BY VirtioAssumption
    <3> QED
      BY <1>2, <1>3, <3>1, <3>2, Zenon DEF Window
  <2>4. ASSUME NEW k \in 0 .. NRX - 1 PROVE Place(k)' = k
    <3>1. /\ k \in Nat /\ k < VQ_SIZE /\ VQ_SIZE < IDX /\ VQ_SIZE \in Nat \ {0}
          /\ IDX \in Nat \ {0} /\ k < NRX
      BY VirtioAssumption
    <3>2. k = IDX * 0 + k /\ k = VQ_SIZE * 0 + k
      BY <3>1
    <3>3. k % IDX = k /\ k % VQ_SIZE = k
      BY <3>1, <3>2, TheRemainder
    <3> QED
      <4>1. k \in Ring /\ At(k % IDX) = k
        BY <3>1, <3>3 DEF Ring, At
      <4>2. k >= n'.came
        BY <1>3, <3>1
      <4> QED
        BY <2>2, <3>1, <4>1, <4>2, Zenon DEF Place
  <2>5. NRX % IDX = NRX /\ NRX \in Nat
    <3>1. NRX \in Nat /\ NRX < IDX /\ IDX \in Nat \ {0} /\ NRX = IDX * 0 + NRX
      BY VirtioAssumption
    <3> QED
      BY <3>1, TheRemainder
  <2>6. rx'.aidx = (n'.up + NRX) % IDX
    BY <1>3, <2>2, <2>3, <2>5
  <2> QED
    <3>1. /\ n'.last = n'.up /\ rx'.seen = n'.came % IDX /\ rx'.uidx = n'.came % IDX
          /\ net'.rx_last = Begun' % IDX /\ n'.came = 0 /\ n'.up = 0 /\ ~net'.live
      BY <1>2, <1>3, <2>1, <2>2, <2>3, Zenon DEF Coming
    <3>2. \A j, k \in Window' : j # k => Place(j)' # Place(k)'
      BY <2>3, <2>4, Zenon
    <3>3. \A k \in Window' : ~(k < n'.came)
      BY <2>3, <2>5, <3>1
    <3> QED
      BY <2>1, <2>3, <2>5, <2>6, <3>1, <3>2, <3>3 DEF Coming
<1>7. CASE ok /\ net.stage # 5 /\ net.stage # 7
  <2>1. /\ rx' = rx /\ net'.pc = "setup" /\ net'.live = net.live
        /\ net'.stage = net.stage + 1 /\ net'.id = net.id /\ net'.rx_last = net.rx_last
    <3>0. Setup[net.stage] # "rx buffers" /\ net.stage # Len(Setup)
      BY <1>2, <1>3, <1>7, Zenon
    <3>1. rx' = rx /\ net' = [net EXCEPT !.stage = @ + 1]
      BY <1>7, <3>0, Zenon DEF NetSetup
    <3> QED
      BY <1>1, <1>2, <3>1, Zenon DEF Nets
  <2>2. Begun' = Begun /\ Window' = Window
    BY <1>2, <2>1, Zenon DEF Begun, Window
  <2>3. \A k : Place(k)' = Place(k)
    BY <1>2, <2>1, <2>2, Zenon DEF Place
  <2> QED
    <3>1. net'.stage <= 5 => net.stage <= 5
      BY <1>3, <2>1
    <3>2. net'.stage > 5 => net.stage > 5
      BY <1>3, <1>7, <2>1
    <3> QED
      BY <1>2, <1>3, <2>1, <2>2, <2>3, <3>1, <3>2, Zenon DEF Coming
<1> QED
  BY <1>4, <1>5, <1>6, <1>7, Zenon

LEMMA ComingInit == ASSUME Init PROVE Coming
<1>1. 0 % IDX = 0 /\ NRX \in Nat
  <2>1. IDX \in Nat \ {0} /\ 0 = IDX * 0 + 0 /\ 0 \in 0 .. IDX - 1 /\ NRX \in Nat
    BY VirtioAssumption
  <2> QED
    BY <2>1, TheRemainder, Zenon
<1> QED
  BY <1>1 DEF Init, Coming, Begun, EmptyQueue

LEMMA ComingStep == ASSUME Types, Coming, NetNext PROVE Coming'
<1>1. net \in Nets /\ n \in Counts
  BY Zenon DEF Types
<1>2. CASE NetIrq
  <2>1. Still
    BY <1>1, <1>2, Zenon DEF NetIrq, Still, Nets
  <2> QED
    BY <2>1, ComingSame, Zenon
<1>3. CASE NetDrained
  <2>1. Still
    BY <1>1, <1>3, Zenon DEF NetDrained, Still, Nets
  <2> QED
    BY <2>1, ComingSame, Zenon
<1>4. CASE NetIrqDone
  <2>1. Still
    BY <1>1, <1>4, Zenon DEF NetIrqDone, Still, Nets
  <2> QED
    BY <2>1, ComingSame, Zenon
<1>5. CASE NetPublish
  <2>1. Still
    BY <1>1, <1>5, Zenon DEF NetPublish, Still, Nets
  <2> QED
    BY <2>1, ComingSame, Zenon
<1>6. CASE NetFill
  <2>1. Still
    BY <1>1, <1>6, Zenon DEF NetFill, Still, Nets, Counts
  <2> QED
    BY <2>1, ComingSame, Zenon
<1>7. CASE CardSends
  <2>1. Still
    BY <1>1, <1>7, Zenon DEF CardSends, Still, Counts
  <2> QED
    BY <2>1, ComingSame, Zenon
<1>8. CASE CardRaises \/ Interrupt
  <2>1. Still
    BY <1>8, Zenon DEF CardRaises, Interrupt, Still
  <2> QED
    BY <2>1, ComingSame, Zenon
<1> QED
  BY <1>2, <1>3, <1>4, <1>5, <1>6, <1>7, <1>8, ComingSetup, ComingTake, ComingInput,
     ComingReceives, Zenon DEF NetNext, NetDriver

-----------------------------------------------------------------------------
(* Frames that go                                                          *)

\* Everything that Going is about is as it was.
Stays ==
  /\ tx' = tx /\ n'.onwire = n.onwire /\ n'.gone = n.gone /\ n'.sent = n.sent
  /\ net'.filled = net.filled /\ net'.tx_next = net.tx_next
LEMMA GoingSame == ASSUME Going, Stays PROVE Going'
<1>1. Posted' = Posted
  BY Zenon DEF Stays, Posted
<1> QED
  BY <1>1, Zenon DEF Stays, Going

LEMMA GoingFacts ==
  ASSUME Types, Going
  PROVE  /\ n.sent \in Nat /\ n.gone \in Nat /\ Posted \in Nat /\ n.gone <= Posted
         /\ Posted <= n.sent /\ n.sent <= Posted + 1 /\ n.sent - n.gone <= NTX
         /\ NTX \in Nat \ {0} /\ NTX <= VQ_SIZE /\ VQ_SIZE \in Nat
         /\ tx \in Queues(NTX) /\ net \in Nets /\ n \in Counts
<1>1. tx \in Queues(NTX) /\ net \in Nets /\ n \in Counts
  BY Zenon DEF Types
<1>2. n.sent \in Nat /\ n.gone \in Nat
  BY NumberFacts, Zenon
<1>3. n.gone <= Posted /\ n.sent - n.gone <= NTX
  BY Zenon DEF Going
<1>4. Posted = n.sent - 1 \/ Posted = n.sent
  BY Zenon DEF Posted
<1>5. Posted \in Nat /\ Posted <= n.sent /\ n.sent <= Posted + 1
  BY <1>2, <1>3, <1>4
<1>6. NTX \in Nat \ {0} /\ NTX <= VQ_SIZE /\ VQ_SIZE \in Nat
  BY IndexFacts, Zenon
<1> QED
  BY <1>1, <1>2, <1>3, <1>5, <1>6, Zenon

\* A buffer is filled, of which the card has no frame any more.
LEMMA GoingFill == ASSUME Types, Going, NetFill PROVE Going'
<1>0. PICK s \in Nat, g \in Nat : s = n.sent /\ g = n.gone
  BY GoingFacts, Zenon
<1>1. /\ ~net.filled /\ s - g < NTX /\ net' = [net EXCEPT !.filled = TRUE]
      /\ tx' = [tx EXCEPT !.buf[TxSlot(net.tx_next)] = s + 1]
      /\ n' = [n EXCEPT !.sent = s + 1]
  BY <1>0, Zenon DEF NetFill
<1>2. tx \in Queues(NTX) /\ net \in Nets /\ n \in Counts /\ NTX \in Nat /\ g <= s
  BY <1>0, GoingFacts
<1>3. Posted = s /\ net.tx_next = s % IDX
  BY <1>0, <1>1, Zenon DEF Posted, Going
<1>4. /\ net'.filled /\ net'.tx_next = net.tx_next
      /\ n'.sent = s + 1 /\ n'.gone = n.gone /\ n'.onwire = n.onwire
      /\ tx'.avail = tx.avail /\ tx'.aidx = tx.aidx /\ tx'.uidx = tx.uidx
      /\ tx'.seen = tx.seen /\ tx'.buf = [tx.buf EXCEPT ![TxSlot(s % IDX)] = s + 1]
  <2>1. net'.filled /\ net'.tx_next = net.tx_next
    BY <1>1, <1>2, Zenon DEF Nets
  <2>2. n'.sent = s + 1 /\ n'.gone = n.gone /\ n'.onwire = n.onwire
    BY <1>1, <1>2, Zenon DEF Counts
  <2>3. /\ tx'.avail = tx.avail /\ tx'.aidx = tx.aidx /\ tx'.uidx = tx.uidx
        /\ tx'.seen = tx.seen /\ tx'.buf = [tx.buf EXCEPT ![TxSlot(s % IDX)] = s + 1]
    BY <1>1, <1>2, <1>3, Zenon DEF Queues
  <2> QED
    BY <2>1, <2>2, <2>3, Zenon
<1>5. Posted' = s
  BY <1>4 DEF Posted
<1>6. ASSUME NEW k \in g .. s PROVE tx'.buf[TxSlot(k % IDX)] = k + 1
  <2>0. k \in Nat /\ tx.buf \in [Bufs(NTX) -> Nat]
    BY <1>2 DEF Queues
  <2>1. k \in Nat /\ TxSlot(k % IDX) \in Bufs(NTX) /\ tx.buf \in [Bufs(NTX) -> Nat]
    BY <2>0, EntryFacts, Zenon
  <2>2. CASE k = s
    BY <1>4, <2>1, <2>2, Zenon
  <2>3. CASE k < s
    <3>1. k \in n.gone .. n.sent - 1
      BY <1>0, <1>2, <2>3
    <3>2. tx.buf[TxSlot(k % IDX)] = k + 1
      BY <3>1, Zenon DEF Going
    <3>3. TxSlot(k % IDX) # TxSlot(s % IDX)
      <4>1. s - k < NTX
        BY <1>1, <1>2
      <4> QED
        BY <2>1, <2>3, <4>1, SlotSpread, Zenon
    <3> QED
      BY <1>4, <2>1, <3>2, <3>3, Zenon
  <2> QED
    BY <2>1, <2>2, <2>3
<1>7. n'.gone .. n'.sent - 1 = g .. s /\ n'.gone .. Posted' - 1 = n.gone .. Posted - 1
  BY <1>0, <1>3, <1>4, <1>5
<1>8. n'.gone <= Posted' /\ n'.sent - n'.gone <= NTX
  BY <1>0, <1>1, <1>2, <1>4, <1>5
<1> QED
  BY <1>3, <1>4, <1>5, <1>6, <1>7, <1>8, Zenon DEF Going

\* Its entry is written, and then the index.
LEMMA GoingPublish == ASSUME Types, Going, NetPublish PROVE Going'
<1>0. PICK s \in Nat, g \in Nat, p \in Nat : s = n.sent /\ g = n.gone /\ p = Posted
  BY GoingFacts, Zenon
<1>1. /\ net.filled /\ n' = n /\ tx' = Offer(tx, TxSlot(net.tx_next))
      /\ net' = [net EXCEPT !.filled = FALSE, !.tx_next = Inc(@)]
  BY Zenon DEF NetPublish
<1>2. /\ tx \in Queues(NTX) /\ net \in Nets /\ NTX \in Nat /\ NTX <= VQ_SIZE
      /\ VQ_SIZE \in Nat /\ g <= p /\ s - g <= NTX
  BY <1>0, GoingFacts, Zenon
<1>3. p + 1 = s /\ net.tx_next = p % IDX /\ tx.aidx = p % IDX
  BY <1>0, <1>1 DEF Posted, Going
<1>4. /\ ~net'.filled /\ net'.tx_next = s % IDX
      /\ tx'.avail = [tx.avail EXCEPT ![At(p % IDX)] = TxSlot(p % IDX)]
      /\ tx'.aidx = s % IDX /\ tx'.uidx = tx.uidx /\ tx'.seen = tx.seen /\ tx'.buf = tx.buf
  <2>1. Inc(p % IDX) = s % IDX
    BY <1>3, IncFacts, Zenon
  <2>2. ~net'.filled /\ net'.tx_next = Inc(net.tx_next)
    BY <1>1, <1>2, Zenon DEF Nets
  <2>3. /\ tx'.avail = [tx.avail EXCEPT ![At(tx.aidx)] = TxSlot(net.tx_next)]
        /\ tx'.aidx = Inc(tx.aidx) /\ tx'.uidx = tx.uidx /\ tx'.seen = tx.seen
        /\ tx'.buf = tx.buf
    BY <1>1, <1>2, Zenon DEF Queues, Offer
  <2> QED
    BY <1>3, <2>1, <2>2, <2>3, Zenon
<1>5. Posted' = s
  BY <1>0, <1>1, <1>4, Zenon DEF Posted
<1>6. ASSUME NEW k \in g .. s - 1 PROVE tx'.avail[At(k % IDX)] = TxSlot(k % IDX)
  <2>0. k \in Nat /\ tx.avail \in [Ring -> Bufs(NTX)]
    BY <1>2 DEF Queues
  <2>1. /\ k \in Nat /\ At(k % IDX) \in Ring /\ At(p % IDX) \in Ring
        /\ tx.avail \in [Ring -> Bufs(NTX)]
    BY <2>0, EntryFacts, Zenon
  <2>2. CASE k = p
    BY <1>4, <2>1, <2>2, Zenon
  <2>3. CASE k < p
    <3>1. k \in n.gone .. Posted - 1
      BY <1>0, <1>2, <2>3
    <3>2. tx.avail[At(k % IDX)] = TxSlot(k % IDX)
      BY <3>1, Zenon DEF Going
    <3>3. k # p /\ k - p < VQ_SIZE /\ p - k < VQ_SIZE
      BY <1>2, <1>3, <2>3
    <3>4. At(k % IDX) # At(p % IDX)
      BY <2>1, <3>3, RingSpread, Zenon
    <3> QED
      BY <1>4, <2>1, <3>2, <3>4, Zenon
  <2> QED
    BY <1>3, <2>1, <2>2, <2>3
<1>7. n'.gone .. Posted' - 1 = g .. s - 1 /\ n'.gone <= Posted'
  BY <1>0, <1>1, <1>2, <1>3, <1>5
<1> QED
  BY <1>1, <1>4, <1>5, <1>6, <1>7, Zenon DEF Going

\* The card sends what is in the buffer that it finds in the ring.
LEMMA GoingSends == ASSUME Types, Going, CardSends PROVE Going'
<1>0. PICK s \in Nat, g \in Nat, p \in Nat : s = n.sent /\ g = n.gone /\ p = Posted
  BY GoingFacts, Zenon
<1>1. /\ tx.seen # tx.aidx /\ net' = net /\ tx' = GiveBack(tx, NextOffered(tx))
      /\ n' = [n EXCEPT !.gone = g + 1, !.onwire = tx.buf[NextOffered(tx)]]
  BY <1>0, Zenon DEF CardSends, Offered
<1>2. tx \in Queues(NTX) /\ n \in Counts /\ NTX \in Nat /\ g <= p /\ p <= s /\ s - g <= NTX
  BY <1>0, GoingFacts, Zenon
<1>3. tx.seen = g % IDX /\ tx.uidx = g % IDX /\ tx.aidx = p % IDX
  BY <1>0, Zenon DEF Going
<1>4. g < p
  BY <1>1, <1>2, <1>3
<1>5. g \in n.gone .. Posted - 1 /\ g \in n.gone .. n.sent - 1
  BY <1>0, <1>2, <1>4
<1>6. NextOffered(tx) = TxSlot(g % IDX) /\ tx.buf[NextOffered(tx)] = g + 1
  BY <1>3, <1>5, Zenon DEF NextOffered, Going
<1>7. /\ n'.gone = g + 1 /\ n'.onwire = g + 1 /\ n'.sent = s
      /\ tx'.avail = tx.avail /\ tx'.aidx = tx.aidx /\ tx'.buf = tx.buf
      /\ tx'.seen = (g + 1) % IDX /\ tx'.uidx = (g + 1) % IDX
  <2>1. Inc(g % IDX) = (g + 1) % IDX
    BY IncFacts, Zenon
  <2>2. n'.gone = g + 1 /\ n'.onwire = g + 1 /\ n'.sent = s
    BY <1>0, <1>1, <1>2, <1>6, Zenon DEF Counts
  <2>3. /\ tx'.avail = tx.avail /\ tx'.aidx = tx.aidx /\ tx'.buf = tx.buf
        /\ tx'.seen = Inc(tx.seen) /\ tx'.uidx = Inc(tx.uidx)
    BY <1>1, <1>2, Zenon DEF Queues, GiveBack
  <2> QED
    BY <1>3, <2>1, <2>2, <2>3, Zenon
<1>8. Posted' = p
  BY <1>0, <1>1, <1>7 DEF Posted
<1>9. \A k : (k \in n'.gone .. Posted' - 1 => k \in n.gone .. Posted - 1)
           /\ (k \in n'.gone .. n'.sent - 1 => k \in n.gone .. n.sent - 1)
  BY <1>0, <1>2, <1>7, <1>8
<1>10. n'.gone <= Posted' /\ n'.sent - n'.gone <= NTX
  BY <1>2, <1>4, <1>7, <1>8
<1> QED
  BY <1>0, <1>1, <1>3, <1>7, <1>8, <1>9, <1>10, Zenon DEF Going

LEMMA GoingInit == ASSUME Init PROVE Going
<1>1. 0 % IDX = 0 /\ NTX \in Nat
  <2>1. IDX \in Nat \ {0} /\ 0 = IDX * 0 + 0 /\ 0 \in 0 .. IDX - 1 /\ NTX \in Nat
    BY VirtioAssumption
  <2> QED
    BY <2>1, TheRemainder, Zenon
<1> QED
  BY <1>1 DEF Init, Going, Posted, EmptyQueue

LEMMA GoingStep == ASSUME Types, Going, NetNext PROVE Going'
<1>1. net \in Nets /\ n \in Counts
  BY Zenon DEF Types
<1>2. ASSUME NEW ok \in BOOLEAN, NetSetup(ok) PROVE Stays
  BY <1>1, <1>2, Zenon DEF NetSetup, Stays, Nets
<1>3. CASE NetIrq
  <2>1. Stays
    BY <1>1, <1>3, Zenon DEF NetIrq, Stays, Nets
  <2> QED
    BY <2>1, GoingSame, Zenon
<1>4. CASE NetTake
  <2>1. Stays
    BY <1>1, <1>4, Zenon DEF NetTake, Stays, Nets
  <2> QED
    BY <2>1, GoingSame, Zenon
<1>5. CASE NetInput
  <2>1. Stays
    BY <1>1, <1>5, Zenon DEF NetInput, Stays, Nets, Counts
  <2> QED
    BY <2>1, GoingSame, Zenon
<1>6. CASE NetDrained \/ NetIrqDone
  <2>1. Stays
    BY <1>1, <1>6, Zenon DEF NetDrained, NetIrqDone, Stays, Nets
  <2> QED
    BY <2>1, GoingSame, Zenon
<1>7. CASE CardReceives
  <2>1. Stays
    BY <1>1, <1>7, Zenon DEF CardReceives, Stays, Counts
  <2> QED
    BY <2>1, GoingSame, Zenon
<1>8. CASE CardRaises \/ Interrupt
  <2>1. Stays
    BY <1>8, Zenon DEF CardRaises, Interrupt, Stays
  <2> QED
    BY <2>1, GoingSame, Zenon
<1> QED
  BY <1>2, <1>3, <1>4, <1>5, <1>6, <1>7, <1>8, GoingSame, GoingFill, GoingPublish,
     GoingSends, Zenon DEF NetNext, NetDriver

-----------------------------------------------------------------------------
(* Frames that are heard of                                                *)

\* A frame that came after the last look at the ring came with an interrupt that
\* has not been acknowledged since.
LEMMA HeardStep == ASSUME Types, Coming, Heard, NetNext PROVE Heard'
<1>1. net \in Nets /\ rx \in Queues(NRX) /\ irq \in Flag
  BY Zenon DEF Types
<1>2. ASSUME NEW ok \in BOOLEAN, NetSetup(ok) PROVE Heard'
  <2>1. rx'.uidx = rx.uidx /\ net'.rx_last = net.rx_last
    BY <1>1, <1>2, Zenon DEF NetSetup, setup_rx, Nets, Queues
  <2>2. net.pc = "setup" /\ n.came = 0 /\ n.up = 0
    BY <1>1, <1>2, Zenon DEF NetSetup, Coming, Nets
  <2>3. rx.uidx = net.rx_last
    BY <1>2, <2>2, Zenon DEF Coming, Begun
  <2> QED
    BY <2>1, <2>3, Zenon DEF Heard
<1>3. CASE NetIrq
  BY <1>1, <1>3, Zenon DEF NetIrq, Heard, Nets
<1>4. CASE NetTake
  BY <1>1, <1>4, Zenon DEF NetTake, Heard, Nets
<1>5. CASE NetInput
  BY <1>1, <1>5, Zenon DEF NetInput, Heard, Nets
<1>6. CASE NetDrained
  BY <1>1, <1>6, Zenon DEF NetDrained, Heard, Nets
<1>7. CASE NetIrqDone
  BY <1>1, <1>7, Zenon DEF NetIrqDone, IrqDone, Heard, Nets, Flag
<1>8. CASE NetPublish
  BY <1>1, <1>8, Zenon DEF NetPublish, Heard, Nets
<1>9. CASE NetFill
  BY <1>1, <1>9, Zenon DEF NetFill, Heard, Nets
<1>10. CASE CardReceives \/ CardSends
  BY <1>1, <1>10, Zenon DEF CardReceives, CardSends, Heard, Flag
<1>11. CASE CardRaises \/ Interrupt
  BY <1>1, <1>11, Zenon DEF CardRaises, Interrupt, Heard, Flag
<1> QED
  BY <1>2, <1>3, <1>4, <1>5, <1>6, <1>7, <1>8, <1>9, <1>10, <1>11, Zenon
     DEF NetNext, NetDriver

-----------------------------------------------------------------------------
(* The disk                                                                *)

\* The four places of a request the driver waits for: offered, in the disk's hands,
\* done there, and answered.
Awaited ==
  bq.ph = "idle" /\ bq.aidx = Inc(bq.seen) /\ bq.uidx = blk.last_used
    /\ bq.hdr = blk.req /\ Carried
AtWork == bq.ph = "work" /\ Quiet /\ bq.doing = blk.req /\ Carried
Finished == bq.ph = "done" /\ Quiet /\ Served
Answered ==
  bq.ph = "idle" /\ bq.seen = bq.aidx /\ bq.uidx = Inc(blk.last_used) /\ Served

\* Asked, while no request has been given up.
LEMMA AskedFacts ==
  ASSUME Types, Asked, n.givenUp = 0
  PROVE  /\ blk.pc = "idle" => Quiet /\ bq.ph = "idle" /\ disk = n.asked
         /\ blk.pc = "build" => Quiet /\ bq.ph = "idle" /\ Carried
         /\ blk.pc = "poll" => Awaited \/ AtWork \/ Finished \/ Answered
         /\ blk.pc \in {"idle", "build", "poll"}
         /\ blk.pc # "idle" => blk.req \in Requests
BY Zenon DEF Types, Asked, Awaited, AtWork, Finished, Answered, Calls

LEMMA AskedPoll ==
  ASSUME blk'.pc = "poll", blk'.req \in Requests,
         n'.givenUp = 0 => Awaited' \/ AtWork' \/ Finished' \/ Answered'
  PROVE  Asked'
BY Zenon DEF Asked, Awaited, AtWork, Finished, Answered

LEMMA AskedCall ==
  ASSUME Types, Asked, NEW req \in Requests, NEW ok \in BOOLEAN, BlkCall(req, ok)
  PROVE  Asked'
<1>1. blk \in Calls /\ bq \in Chains /\ n \in Counts
  BY Zenon DEF Types
<1>2. /\ blk.pc = "idle" /\ disk' = disk /\ n' = [n EXCEPT !.calls = @ + 1]
      /\ n'.givenUp = n.givenUp /\ n'.asked = n.asked
  BY <1>1, Zenon DEF BlkCall, Counts
<1>3. CASE ~blk_init(ok)
  <2>1. bq' = bq /\ blk' = [blk EXCEPT !.req = req, !.result = -1]
    BY <1>3, Zenon DEF BlkCall
  <2>2. blk'.pc = "idle" /\ blk'.result = -1 /\ blk'.last_used = blk.last_used
    BY <1>1, <1>2, <2>1, Zenon DEF Calls
  <2>3. n.givenUp = 0 => Quiet' /\ bq'.ph = "idle" /\ disk' = n'.asked
    BY <1>2, <2>1, <2>2, AskedFacts, Zenon DEF Quiet
  <2> QED
    BY <1>2, <2>2, <2>3 DEF Asked
<1>4. CASE blk_init(ok)
  <2>1. /\ blk' = [blk EXCEPT !.pc = "build", !.ready = TRUE, !.req = req]
        /\ bq' = IF req.type = "OUT" THEN [bq EXCEPT !.data = req.v] ELSE bq
    BY <1>4, Zenon DEF BlkCall
  <2>2. blk'.pc = "build" /\ blk'.req = req /\ blk'.last_used = blk.last_used
    BY <1>1, <2>1, Zenon DEF Calls
  <2>3. /\ bq'.aidx = bq.aidx /\ bq'.seen = bq.seen /\ bq'.uidx = bq.uidx /\ bq'.ph = bq.ph
        /\ req.type = "OUT" => bq'.data = req.v
    BY <1>1, <2>1, Zenon DEF Chains
  <2>4. n.givenUp = 0 => Quiet' /\ bq'.ph = "idle" /\ Carried'
    BY <1>2, <2>2, <2>3, AskedFacts, Zenon DEF Quiet, Carried
  <2> QED
    BY <1>2, <2>2, <2>4, Zenon DEF Asked
<1> QED
  BY <1>3, <1>4, Zenon

LEMMA AskedBuild == ASSUME Types, Asked, BlkBuild PROVE Asked'
<1>1. blk \in Calls /\ bq \in Chains
  BY Zenon DEF Types
<1>2. /\ blk.pc = "build" /\ disk' = disk /\ n' = n /\ blk' = [blk EXCEPT !.pc = "poll"]
      /\ bq' = [bq EXCEPT !.hdr = blk.req, !.status = "untouched", !.aidx = Inc(@)]
  BY Zenon DEF BlkBuild
<1>3. blk'.pc = "poll" /\ blk'.req = blk.req /\ blk'.last_used = blk.last_used
  BY <1>1, <1>2, Zenon DEF Calls
<1>4. /\ bq'.aidx = Inc(bq.aidx) /\ bq'.seen = bq.seen /\ bq'.uidx = bq.uidx
      /\ bq'.ph = bq.ph /\ bq'.data = bq.data /\ bq'.hdr = blk.req
  BY <1>1, <1>2, Zenon DEF Chains
<1>5. n.givenUp = 0 => Awaited'
  BY <1>2, <1>3, <1>4, AskedFacts, Zenon DEF Awaited, Quiet, Carried
<1>6. blk.req \in Requests
  BY <1>2, Zenon DEF Asked
<1> QED
  BY <1>2, <1>3, <1>5, <1>6, AskedPoll, Zenon

LEMMA AskedDone == ASSUME Types, Asked, BlkPoll PROVE Asked'
<1>1. blk \in Calls /\ bq \in Chains /\ n \in Counts
  BY Zenon DEF Types
<1>2. /\ blk.pc = "poll" /\ bq.uidx # blk.last_used /\ Done(Reported(bq.status))
      /\ bq' = bq /\ disk' = disk
  BY Zenon DEF BlkPoll
<1>3. /\ blk'.pc = "idle" /\ blk'.result = Reported(bq.status) /\ blk'.last_used = bq.uidx
      /\ blk'.req = blk.req
      /\ (blk'.result = 0 /\ blk.req.type = "IN") => blk'.out = bq.data
  BY <1>1, <1>2, Zenon DEF Done, Calls
<1>4. /\ n'.givenUp = n.givenUp
      /\ (blk'.result = 0 /\ blk.req.type = "OUT")
           => n'.asked = [n.asked EXCEPT ![blk.req.lba] = blk.req.v]
      /\ ~(blk'.result = 0 /\ blk.req.type = "OUT") => n'.asked = n.asked
  BY <1>1, <1>2, <1>3, Zenon DEF Done, Counts
<1>5. blk'.result = 0 <=> bq.status = "ok"
  BY <1>3, SMTT(30) DEF Reported
<1>6. ASSUME n.givenUp = 0
      PROVE  /\ Quiet' /\ bq'.ph = "idle" /\ disk' = n'.asked
             /\ (blk'.result = 0 /\ blk'.req.type = "IN")
                  => blk'.out = disk'[blk'.req.lba]
  <2>1. Answered
    BY <1>2, <1>6, AskedFacts, Zenon DEF Awaited, AtWork, Finished, Quiet
  <2> QED
    BY <1>2, <1>3, <1>4, <1>5, <2>1, Zenon DEF Answered, Served, Quiet
<1> QED
  BY <1>3, <1>4, <1>6, Zenon DEF Asked

LEMMA AskedGivesUp == ASSUME Types, Asked, BlkGivesUp PROVE Asked'
<1>1. blk \in Calls /\ n \in Counts
  BY Zenon DEF Types
<1>2. blk'.pc = "idle" /\ n'.givenUp = n.givenUp + 1 /\ n.givenUp \in Nat
  BY <1>1, Zenon DEF BlkGivesUp, Calls, Counts
<1> QED
  BY <1>2 DEF Asked

LEMMA AskedFetches == ASSUME Types, Asked, DiskFetches PROVE Asked'
<1>1. bq \in Chains
  BY Zenon DEF Types
<1>2. /\ bq.ph = "idle" /\ bq.seen # bq.aidx /\ blk' = blk /\ disk' = disk /\ n' = n
      /\ bq' = [bq EXCEPT !.ph = "work", !.doing = bq.hdr, !.seen = Inc(@)]
  BY Zenon DEF DiskFetches
<1>3. /\ bq'.ph = "work" /\ bq'.doing = bq.hdr /\ bq'.seen = Inc(bq.seen)
      /\ bq'.aidx = bq.aidx /\ bq'.uidx = bq.uidx /\ bq'.data = bq.data
  BY <1>1, <1>2, Zenon DEF Chains
<1>4. CASE n.givenUp = 0
  <2>1. blk.pc = "poll" /\ Awaited /\ blk.req \in Requests
    BY <1>2, <1>4, AskedFacts, Zenon DEF Quiet, AtWork, Finished, Answered
  <2>2. AtWork'
    BY <1>2, <1>3, <2>1, Zenon DEF Awaited, AtWork, Quiet, Carried
  <2> QED
    BY <1>2, <2>1, <2>2, AskedPoll, Zenon
<1>5. CASE n.givenUp # 0
  BY <1>2, <1>5, Zenon DEF Asked
<1> QED
  BY <1>4, <1>5, Zenon

LEMMA AskedWorks ==
  ASSUME Types, Asked, NEW ok \in BOOLEAN, DiskWorks(ok) PROVE Asked'
<1>1. bq \in Chains
  BY Zenon DEF Types
<1>2. bq.ph = "work" /\ blk' = blk /\ n' = n
  BY Zenon DEF DiskWorks
<1>3. /\ bq'.ph = "done" /\ bq'.status = IF ok THEN "ok" ELSE "error"
      /\ bq'.aidx = bq.aidx /\ bq'.uidx = bq.uidx /\ bq'.seen = bq.seen
      /\ bq'.data = IF ok /\ bq.doing.type = "IN" THEN disk[bq.doing.lba] ELSE bq.data
  BY <1>1, Zenon DEF DiskWorks, Chains
<1>4. disk' = IF ok /\ bq.doing.type = "OUT"
              THEN [disk EXCEPT ![bq.doing.lba] = bq.data] ELSE disk
  BY Zenon DEF DiskWorks
<1>5. CASE n.givenUp = 0
  <2>1. blk.pc = "poll" /\ AtWork /\ blk.req \in Requests
    BY <1>2, <1>5, AskedFacts, Zenon DEF Awaited, Finished, Answered
  <2>2. blk.req.type = "IN" \/ blk.req.type = "OUT"
    BY <2>1, Zenon DEF Requests
  <2>3. Served'
    BY <1>2, <1>3, <1>4, <2>1, <2>2, Zenon DEF AtWork, Carried, Served
  <2>4. Finished'
    BY <1>2, <1>3, <2>1, <2>3, Zenon DEF AtWork, Finished, Quiet
  <2> QED
    BY <1>2, <2>1, <2>4, AskedPoll, Zenon
<1>6. CASE n.givenUp # 0
  BY <1>2, <1>6, Zenon DEF Asked
<1> QED
  BY <1>5, <1>6, Zenon

LEMMA AskedAnswers == ASSUME Types, Asked, DiskAnswers PROVE Asked'
<1>1. bq \in Chains
  BY Zenon DEF Types
<1>2. /\ bq.ph = "done" /\ blk' = blk /\ disk' = disk /\ n' = n
      /\ bq' = [bq EXCEPT !.ph = "idle", !.uidx = Inc(@)]
  BY Zenon DEF DiskAnswers
<1>3. /\ bq'.ph = "idle" /\ bq'.uidx = Inc(bq.uidx) /\ bq'.aidx = bq.aidx
      /\ bq'.seen = bq.seen /\ bq'.status = bq.status /\ bq'.data = bq.data
  BY <1>1, <1>2, Zenon DEF Chains
<1>4. CASE n.givenUp = 0
  <2>1. blk.pc = "poll" /\ Finished /\ blk.req \in Requests
    BY <1>2, <1>4, AskedFacts, Zenon DEF Awaited, AtWork, Answered
  <2>2. Answered'
    BY <1>2, <1>3, <2>1, Zenon DEF Finished, Answered, Quiet, Served
  <2> QED
    BY <1>2, <2>1, <2>2, AskedPoll, Zenon
<1>5. CASE n.givenUp # 0
  BY <1>2, <1>5, Zenon DEF Asked
<1> QED
  BY <1>4, <1>5, Zenon

LEMMA AskedStep == ASSUME Types, Asked, BlkNext PROVE Asked'
BY AskedCall, AskedBuild, AskedDone, AskedGivesUp, AskedFetches, AskedWorks, AskedAnswers, Zenon
   DEF BlkNext

-----------------------------------------------------------------------------
(* The drivers                                                             *)

\* The drivers share nothing but the record of the counters.
LEMMA NetKeepsDisk == ASSUME Types, Asked, NetNext PROVE Asked'
<1>1. n \in Counts
  BY Zenon DEF Types
<1>2. blk' = blk /\ bq' = bq /\ disk' = disk
  BY Zenon DEF NetNext, blkVars
<1>3. n'.givenUp = n.givenUp /\ n'.asked = n.asked
  BY <1>1, Zenon DEF NetNext, NetDriver, NetSetup, NetIrq, NetTake, NetInput, NetDrained, NetIrqDone,
     NetPublish, NetFill, CardReceives, CardSends, CardRaises, Interrupt, Counts
<1> QED
  BY <1>2, <1>3, Zenon DEF Asked, Quiet, Carried, Served

LEMMA BlkKeepsFrames ==
  ASSUME Types, Coming, Going, Heard, BlkNext PROVE Coming' /\ Going' /\ Heard'
<1>1. n \in Counts
  BY Zenon DEF Types
<1>2. net' = net /\ rx' = rx /\ tx' = tx /\ irq' = irq
  BY Zenon DEF BlkNext, netVars
<1>3. /\ n'.came = n.came /\ n'.up = n.up /\ n'.last = n.last
      /\ n'.sent = n.sent /\ n'.gone = n.gone /\ n'.onwire = n.onwire
  BY <1>1, Zenon DEF BlkNext, BlkCall, BlkBuild, BlkPoll, Done, BlkGivesUp, DiskFetches, DiskWorks,
     DiskAnswers, Counts
<1>4. Still /\ Stays /\ Heard'
  BY <1>2, <1>3, Zenon DEF Still, Stays, Heard
<1> QED
  BY <1>4, ComingSame, GoingSame, Zenon

LEMMA VInvInit == ASSUME Init PROVE VInv
<1>1. Heard
  BY Zenon DEF Init, Heard
<1>2. Asked
  BY Zenon DEF Init, Asked, Quiet, NoRequest
<1> QED
  BY <1>1, <1>2, TypesInit, ComingInit, GoingInit, Zenon DEF VInv

LEMMA VInvStep == ASSUME VInv, [Next]_vars PROVE VInv'
<1>1. Types /\ Coming /\ Going /\ Heard /\ Asked
  BY Zenon DEF VInv
<1>2. CASE NetNext
  BY <1>1, <1>2, NetTypes, ComingStep, GoingStep, HeardStep, NetKeepsDisk, Zenon DEF VInv
<1>3. CASE BlkNext
  BY <1>1, <1>3, BlkTypes, BlkKeepsFrames, AskedStep, Zenon DEF VInv
<1>4. CASE UNCHANGED vars
  <2>1. Types'
    BY <1>1, <1>4, Zenon DEF Types, vars
  <2>2. Still /\ Stays /\ Heard'
    BY <1>1, <1>4, Zenon DEF Still, Stays, Heard, vars
  <2>3. Asked'
    BY <1>1, <1>4, Zenon DEF Asked, Quiet, Carried, Served, vars
  <2> QED
    BY <1>1, <2>1, <2>2, <2>3, ComingSame, GoingSame, Zenon DEF VInv
<1> QED
  BY <1>2, <1>3, <1>4, Zenon DEF Next

LEMMA VInvHolds == Spec => []VInv
BY VInvInit, VInvStep, PTL DEF Spec

\* The difference of two indices is that of the counts, as long as that is small.
LEMMA Behind ==
  ASSUME NEW a \in Nat, NEW b \in Nat, b <= a, a - b < IDX
  PROVE  ((a % IDX) - (b % IDX)) % IDX = a - b
<1> DEFINE p == a \div IDX
           q == b \div IDX
           r == a % IDX
           t == b % IDX
<1>1. IDX \in Nat \ {0}
  BY VirtioAssumption
<1>2. /\ p \in Nat /\ r \in 0 .. IDX - 1 /\ a = IDX * p + r
      /\ q \in Nat /\ t \in 0 .. IDX - 1 /\ b = IDX * q + t
  BY <1>1, Remainder, Zenon
<1> HIDE DEF p, q, r, t
<1> DEFINE x == r - t
           z == x \div IDX
           y == x % IDX
<1>3. x \in Int /\ z \in Int /\ y \in 0 .. IDX - 1 /\ x = IDX * z + y
  BY <1>1, <1>2
<1> HIDE DEF z, y
<1> DEFINE d == z + p - q
<1>4. d \in Int /\ IDX * d = IDX * z + IDX * p - IDX * q /\ -d \in Int
  BY <1>1, <1>2, <1>3
<1>5. (a - b) - y = IDX * d
  <2>1. PICK u \in Int, v \in Int, w \in Int, o \in Int :
          u = IDX * p /\ v = IDX * q /\ w = IDX * z /\ o = IDX * d
    BY <1>1, <1>2, <1>3, <1>4
  <2>2. a = u + r /\ b = v + t /\ r - t = w + y /\ o = w + u - v
    BY <1>2, <1>3, <1>4, <2>1, Zenon
  <2> HIDE DEF d
  <2> QED
    BY <1>2, <1>3, <2>1, <2>2
<1>6. ~(IDX * d > 0)
  BY <1>1, <1>3, <1>4, <1>5, NoMultiple
<1>7. IDX * (-d) = y - (a - b)
  BY <1>1, <1>3, <1>4, <1>5
<1>8. ~(IDX * (-d) > 0)
  BY <1>1, <1>3, <1>4, <1>7, NoMultiple
<1>9. y = a - b
  BY <1>3, <1>4, <1>5, <1>6, <1>7, <1>8
<1> QED
  BY <1>9, Zenon DEF y, r, t

LEMMA RingsBounded == ASSUME VInv PROVE TypeOK
<1>1. Types /\ Coming /\ Going
  BY Zenon DEF VInv
<1>2. /\ IDX \in Nat \ {0} /\ VQ_SIZE \in Nat /\ NRX \in Nat /\ NTX \in Nat
      /\ NRX <= VQ_SIZE /\ NTX <= VQ_SIZE /\ VQ_SIZE < IDX
  BY VirtioAssumption
<1>3. /\ n.came \in Nat /\ n.up \in Nat /\ Begun \in Nat /\ n.up <= Begun
      /\ n.sent \in Nat /\ n.gone \in Nat /\ Posted \in Nat /\ n.gone <= Posted
      /\ Posted <= n.sent /\ n.sent - n.gone <= NTX
  BY <1>1, NumberFacts, GoingFacts, Zenon
<1>4. \A q \in {rx, tx} : {q.aidx, q.uidx, q.seen} \subseteq 0 .. IDX - 1
  <2>1. rx \in Queues(NRX) /\ tx \in Queues(NTX)
    BY <1>1, Zenon DEF Types
  <2> QED
    BY <2>1, Zenon DEF Queues, Index
<1>5. (tx.aidx - tx.seen) % IDX <= VQ_SIZE
  <2>1. tx.aidx = Posted % IDX /\ tx.seen = n.gone % IDX
    BY <1>1, Zenon DEF Going
  <2>2. Posted - n.gone <= VQ_SIZE /\ Posted - n.gone < IDX
    BY <1>2, <1>3
  <2>3. ((Posted % IDX) - (n.gone % IDX)) % IDX = Posted - n.gone
    BY <1>3, <2>2, Behind, Zenon
  <2> QED
    BY <2>1, <2>2, <2>3, Zenon
<1>6. 0 % IDX = 0
  BY <1>2
<1>7. /\ (rx.aidx - rx.seen) % IDX <= VQ_SIZE
      /\ (rx.uidx - net.rx_last) % IDX <= VQ_SIZE /\ n.up <= n.came
  <2>0. net.stage \in 1 .. 7
    BY <1>1, Zenon DEF Types, Nets
  <2>1. CASE net.stage > 5
    <3>1. /\ rx.aidx = (n.up + NRX) % IDX /\ rx.seen = n.came % IDX
          /\ rx.uidx = n.came % IDX /\ net.rx_last = Begun % IDX
          /\ Begun <= n.came /\ n.came <= n.up + NRX
      BY <1>1, <2>1, Zenon DEF Coming
    <3>2. /\ n.up + NRX \in Nat
          /\ (n.up + NRX) - n.came <= VQ_SIZE /\ (n.up + NRX) - n.came < IDX
          /\ n.came - Begun <= VQ_SIZE /\ n.came - Begun < IDX
      BY <1>2, <1>3, <3>1
    <3>3. (((n.up + NRX) % IDX) - (n.came % IDX)) % IDX = (n.up + NRX) - n.came
      BY <1>3, <3>1, <3>2, Behind, Zenon
    <3>4. ((n.came % IDX) - (Begun % IDX)) % IDX = n.came - Begun
      BY <1>3, <3>1, <3>2, Behind, Zenon
    <3> QED
      BY <1>3, <3>1, <3>2, <3>3, <3>4
  <2>2. CASE net.stage <= 5
    <3>1. ~net.live /\ net.pc # "input" /\ n.came = 0 /\ n.up = 0
      BY <1>1, <2>2 DEF Coming
    <3>2. rx.aidx = 0 /\ rx.seen = 0 /\ rx.uidx = 0 /\ net.rx_last = 0
      BY <1>1, <1>6, <2>2, <3>1, Zenon DEF Coming, Begun
    <3> QED
      BY <1>2, <1>6, <3>1, <3>2
  <2> QED
    BY <2>0, <2>1, <2>2
<1>8. n.gone <= n.sent /\ blk.result \in {0, -1}
  <2>1. blk.result \in {0, -1}
    BY <1>1, Zenon DEF Types, Calls
  <2> QED
    BY <1>3, <2>1
<1> QED
  BY <1>4, <1>5, <1>7, <1>8, Zenon DEF TypeOK

\* No index leaves its range, and the 16-bit difference by which driver and card
\* see how far the other is (drain_rx, rx_recycle, net_transmit) never exceeds a
\* ring: neither overruns the other, however often the indices wrap.
THEOREM RingsAreNotOverrun == Spec => []TypeOK
BY VInvHolds, RingsBounded, PTL

\* For rings, buffers and frames in any number: frames are passed up in the order
\* in which they came, each once and unharmed, and leave in the order in which
\* net_transmit got them, although it reuses buffers without asking the card
\* (srv_net.c).
THEOREM FramesKeepOrder == Spec => []FramesInOrder
<1>1. VInv => FramesInOrder
  BY Zenon DEF VInv, Coming, Going, FramesInOrder
<1> QED
  BY <1>1, VInvHolds, PTL

\* No frame is left in the ring with the driver asleep and no interrupt to come:
\* net_server acknowledges the card before it drains the ring.
THEOREM NoFrameIsForgotten == Spec => []NoFrameForgotten
<1>1. VInv => NoFrameForgotten
  BY Zenon DEF VInv, Heard, NoFrameForgotten
<1> QED
  BY <1>1, VInvHolds, PTL

\* As long as no request has been given up, the disk holds what the successful
\* writes wrote, and a successful read got what its sector holds (transact,
\* blk_read, blk_write).
THEOREM DiskHoldsWhatWasAsked == Spec => []DiskAsAsked
<1>1. VInv => DiskAsAsked
  BY Zenon DEF VInv, Asked, DiskAsAsked
<1> QED
  BY <1>1, VInvHolds, PTL
=============================================================================
