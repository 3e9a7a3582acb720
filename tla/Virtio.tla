------------------------------- MODULE Virtio -------------------------------
(***************************************************************************)
(* The two drivers in user mode: srv_net.c, which waits for the interrupts  *)
(* of a network card, and srv_blk.c, which polls a disk.  Each shares rings *)
(* with a device that works beside it: the driver's outbox is `avail`, the  *)
(* device's `used`, and both are read by their 16-bit indices alone.        *)
(*                                                                          *)
(* A queue is a record: ring and idx of avail and of used, `seen`, the      *)
(* entries of avail the device has taken, and what the buffers hold.  The   *)
(* devices, the interrupt controller and the kernel's part in interrupts    *)
(* are modelled from how the drivers use them.                              *)
(*                                                                          *)
(* The drivers belong to different tasks and devices and share nothing: a   *)
(* behaviour is one of the network driver or one of the block driver.       *)
(***************************************************************************)
EXTENDS Integers, Sequences, FiniteSets

CONSTANTS
  VQ_SIZE,          \* entries of a ring
  IDX,              \* values of an index: a multiple of VQ_SIZE
  NRX, NTX,         \* receive and transmit buffers
  MaxFrames,        \* bound: frames that arrive, and frames that are sent
  Sectors, Values,  \* of the disk
  MaxCalls,         \* bound: blk_read and blk_write
  MaxGivenUp        \* bound: requests the block driver stops waiting for

ASSUME VirtioAssumption ==
  /\ VQ_SIZE \in Nat /\ IDX \in Nat
  /\ NRX \in 1 .. VQ_SIZE /\ NTX \in 1 .. VQ_SIZE
  /\ IDX > VQ_SIZE /\ IDX % VQ_SIZE = 0

\* tx_next wraps with the index, so that slots stay in turn.
ASSUME TurnsAssumption == IDX % NTX = 0

VARIABLES
  which,    \* the driver this behaviour is about
  net,      \* srv_net.c
  rx, tx,   \* its queues
  irq,      \* the card's interrupt: raised, claimed by the kernel, told
  blk,      \* srv_blk.c
  bq,       \* its queue
  disk,     \* the sectors
  n         \* history and counters

netVars == <<net, rx, tx, irq>>
blkVars == <<blk, bq, disk>>
vars == <<which, net, rx, tx, irq, blk, bq, disk, n>>

Inc(i) == (i + 1) % IDX
At(i) == i % VQ_SIZE

EmptyQueue(bufs) ==
  [avail |-> [i \in 0 .. VQ_SIZE - 1 |-> 0], aidx |-> 0,
   used |-> [i \in 0 .. VQ_SIZE - 1 |-> 0], uidx |-> 0,
   seen |-> 0, buf |-> [b \in bufs |-> 0]]

\* The driver offers buffer b; the device takes what is next and gives it back.
Offer(q, b) == [q EXCEPT !.avail[At(q.aidx)] = b, !.aidx = Inc(@)]
Offered(q) == q.seen # q.aidx
NextOffered(q) == q.avail[At(q.seen)]
GiveBack(q, b) ==
  [q EXCEPT !.seen = Inc(@), !.used[At(q.uidx)] = b, !.uidx = Inc(@)]

-----------------------------------------------------------------------------
\* The network driver.

Bufs(k) == 0 .. k - 1

\* What net_server does before its loop, in order; each may fail.
Setup == <<"find_device", "negotiate", "tx queue", "rx queue", "rx buffers", "tx buffers",
           "DRIVER_OK">>

\* setup_rx: all buffers are offered, the index is written last.
setup_rx(q) ==
  [q EXCEPT !.avail = [i \in DOMAIN @ |-> IF i < NRX THEN i ELSE 0], !.aidx = NRX]

NetSetup(ok) ==
  /\ net.pc = "setup"
  /\ net' = IF ~ok THEN [net EXCEPT !.pc = "exit"]
            ELSE IF net.stage = Len(Setup) THEN [net EXCEPT !.pc = "loop", !.live = TRUE]
            ELSE [net EXCEPT !.stage = @ + 1]
  /\ rx' = IF ok /\ Setup[net.stage] = "rx buffers" THEN setup_rx(rx) ELSE rx
  /\ UNCHANGED <<tx, irq, n>>

\* IRQ_SENDER: the card's interrupt is acknowledged before the ring is looked at.
NetIrq ==
  /\ net.pc = "loop" /\ ~net.filled /\ irq.told
  /\ irq' = [irq EXCEPT !.told = FALSE, !.raised = FALSE]
  /\ net' = [net EXCEPT !.pc = "drain"]
  /\ UNCHANGED <<rx, tx, n>>

\* Hand a consumed buffer back.
rx_recycle(q, id) == Offer(q, id)

\* When that is: after net_input.  Mutant: before it.
RecycleEarly(pc) == pc = "drain"
RecycleNow(pc) == pc = "input"

\* drain_rx: the next frame goes to net_input, which works in the buffer.
NetTake ==
  /\ net.pc = "drain" /\ rx.uidx # net.rx_last
  /\ LET id == rx.used[At(net.rx_last)]
     IN /\ net' = [net EXCEPT !.pc = "input", !.id = id, !.rx_last = Inc(@)]
        /\ rx' = IF RecycleNow(net.pc) THEN rx_recycle(rx, id) ELSE rx
  /\ UNCHANGED <<tx, irq, n>>

\* net_input has read the frame to its end; the buffer goes back.
NetInput ==
  /\ net.pc = "input" /\ ~net.filled
  /\ n' = [n EXCEPT !.up = @ + 1, !.last = rx.buf[net.id]]
  /\ rx' = IF RecycleNow(net.pc) THEN rx_recycle(rx, net.id) ELSE rx
  /\ net' = [net EXCEPT !.pc = "drain"]
  /\ UNCHANGED <<tx, irq>>

\* Nothing more in the ring, when it was looked at.
NetDrained ==
  /\ net.pc = "drain" /\ rx.uidx = net.rx_last
  /\ net' = [net EXCEPT !.pc = "ack"]
  /\ UNCHANGED <<rx, tx, irq, n>>

\* sys_irq_ack completes the line.  Mutant: the card is acknowledged here,
\* too.
IrqDoneClears(i) == [i EXCEPT !.claimed = FALSE, !.raised = FALSE]
IrqDone(i) == [i EXCEPT !.claimed = FALSE]
NetIrqDone ==
  /\ net.pc = "ack"
  /\ irq' = IrqDone(irq)
  /\ net' = [net EXCEPT !.pc = "loop"]
  /\ UNCHANGED <<rx, tx, n>>

TxSlot(k) == k % NTX

\* net_transmit, from the loop or out of net_input: a buffer is filled, in turn
\* and without a look whether the card is done with it.  That the card is less
\* than NTX frames behind is an assumption about the card.
NetFill ==
  /\ net.pc \in {"loop", "input"} /\ ~net.filled
  /\ n.sent < MaxFrames /\ n.sent - n.gone < NTX
  /\ tx' = [tx EXCEPT !.buf[TxSlot(net.tx_next)] = n.sent + 1]
  /\ net' = [net EXCEPT !.filled = TRUE]
  /\ n' = [n EXCEPT !.sent = @ + 1]
  /\ UNCHANGED <<rx, irq>>

\* Its entry and then the index are written, and the bell is rung.
NetPublish ==
  /\ net.filled
  /\ tx' = Offer(tx, TxSlot(net.tx_next))
  /\ net' = [net EXCEPT !.filled = FALSE, !.tx_next = Inc(@)]
  /\ UNCHANGED <<rx, irq, n>>

-----------------------------------------------------------------------------
\* The card, the interrupt controller and the kernel.

\* A frame arrives and is put into a buffer, if there is one.
CardReceives ==
  /\ net.live /\ Offered(rx) /\ n.came < MaxFrames
  /\ rx' = GiveBack([rx EXCEPT !.buf[NextOffered(rx)] = n.came + 1], NextOffered(rx))
  /\ irq' = [irq EXCEPT !.owed = TRUE]
  /\ n' = [n EXCEPT !.came = @ + 1]
  /\ UNCHANGED <<net, tx>>

CardSends ==
  /\ net.live /\ Offered(tx)
  /\ tx' = GiveBack(tx, NextOffered(tx))
  /\ irq' = [irq EXCEPT !.owed = TRUE]
  /\ n' = [n EXCEPT !.gone = @ + 1, !.onwire = tx.buf[NextOffered(tx)]]
  /\ UNCHANGED <<net, rx>>

\* The interrupt follows the index.
CardRaises ==
  /\ irq.owed
  /\ irq' = [irq EXCEPT !.owed = FALSE, !.raised = TRUE]
  /\ UNCHANGED <<net, rx, tx, n>>

\* device_interrupt: the line is claimed, and the driver will be told.
Interrupt ==
  /\ irq.raised /\ ~irq.claimed
  /\ irq' = [irq EXCEPT !.claimed = TRUE, !.told = TRUE]
  /\ UNCHANGED <<net, rx, tx, n>>

-----------------------------------------------------------------------------
\* The block driver.

\* blk_init: done once, and tried again by every call until it works.
blk_init(ok) == blk.ready \/ ok

\* blk_read and blk_write, up to the request: a write's data is copied first.
BlkCall(req, ok) ==
  /\ blk.pc = "idle" /\ n.calls < MaxCalls
  /\ blk.ready => ok
  /\ n' = [n EXCEPT !.calls = @ + 1]
  /\ IF ~blk_init(ok)
     THEN /\ blk' = [blk EXCEPT !.req = req, !.result = -1]
          /\ UNCHANGED bq
     ELSE /\ blk' = [blk EXCEPT !.pc = "build", !.ready = TRUE, !.req = req]
          /\ bq' = IF req.type = "OUT" THEN [bq EXCEPT !.data = req.v] ELSE bq
  /\ UNCHANGED disk

\* transact: the chain is built and offered; an untouched status is no success.
BlkBuild ==
  /\ blk.pc = "build"
  /\ bq' = [bq EXCEPT !.hdr = blk.req, !.status = "untouched", !.aidx = Inc(@)]
  /\ blk' = [blk EXCEPT !.pc = "poll"]
  /\ UNCHANGED <<disk, n>>

\* Mutant: any answer is success.
ReportedAny(status) == 0
Reported(status) == IF status = "ok" THEN 0 ELSE -1

\* What was read is copied out of the buffer; what was written is on the disk.
Done(result) ==
  /\ blk' = [blk EXCEPT !.pc = "idle", !.result = result, !.last_used = bq.uidx,
                        !.out = IF result = 0 /\ blk.req.type = "IN" THEN bq.data ELSE @]
  /\ n' = IF result = 0 /\ blk.req.type = "OUT"
          THEN [n EXCEPT !.asked[blk.req.lba] = blk.req.v] ELSE n

BlkPoll ==
  /\ blk.pc = "poll" /\ bq.uidx # blk.last_used
  /\ Done(Reported(bq.status))
  /\ UNCHANGED <<bq, disk>>

\* The device never answered.
BlkGivesUp ==
  /\ blk.pc = "poll" /\ bq.uidx = blk.last_used
  /\ n.givenUp < MaxGivenUp
  /\ blk' = [blk EXCEPT !.pc = "idle", !.result = -1]
  /\ n' = [n EXCEPT !.givenUp = @ + 1]
  /\ UNCHANGED <<bq, disk>>

\* The disk: it reads the header, does what it says or fails, and says so.
DiskFetches ==
  /\ bq.ph = "idle" /\ bq.seen # bq.aidx
  /\ bq' = [bq EXCEPT !.ph = "work", !.doing = bq.hdr, !.seen = Inc(@)]
  /\ UNCHANGED <<blk, disk, n>>
DiskWorks(ok) ==
  /\ bq.ph = "work"
  /\ bq' = [bq EXCEPT !.ph = "done", !.status = IF ok THEN "ok" ELSE "error",
                      !.data = IF ok /\ bq.doing.type = "IN" THEN disk[bq.doing.lba] ELSE @]
  /\ disk' = IF ok /\ bq.doing.type = "OUT"
             THEN [disk EXCEPT ![bq.doing.lba] = bq.data] ELSE disk
  /\ UNCHANGED <<blk, n>>
DiskAnswers ==
  /\ bq.ph = "done"
  /\ bq' = [bq EXCEPT !.ph = "idle", !.uidx = Inc(@)]
  /\ UNCHANGED <<blk, disk, n>>

-----------------------------------------------------------------------------
NoRequest == [type |-> "none", lba |-> 0, v |-> 0]
Requests == [type : {"IN"}, lba : Sectors, v : {0}] \cup [type : {"OUT"}, lba : Sectors, v : Values]

Init ==
  /\ which \in {"net", "blk"}
  /\ net = [pc |-> "setup", stage |-> 1, live |-> FALSE, rx_last |-> 0, tx_next |-> 0, id |-> 0,
            filled |-> FALSE]
  /\ rx = EmptyQueue(Bufs(NRX)) /\ tx = EmptyQueue(Bufs(NTX))
  /\ irq = [owed |-> FALSE, raised |-> FALSE, claimed |-> FALSE, told |-> FALSE]
  /\ blk = [pc |-> "idle", ready |-> FALSE, last_used |-> 0, req |-> NoRequest, result |-> 0,
            out |-> 0]
  /\ bq = [aidx |-> 0, uidx |-> 0, seen |-> 0, hdr |-> NoRequest, data |-> 0, status |-> "ok",
           ph |-> "idle", doing |-> NoRequest]
  /\ disk = [s \in Sectors |-> 0]
  /\ n = [came |-> 0, up |-> 0, last |-> 0, sent |-> 0, gone |-> 0, onwire |-> 0,
          calls |-> 0, givenUp |-> 0, asked |-> [s \in Sectors |-> 0]]

NetDriver == NetIrq \/ NetTake \/ NetInput \/ NetDrained \/ NetIrqDone \/ NetPublish
NetNext ==
  /\ which = "net"
  /\ \/ \E ok \in BOOLEAN : NetSetup(ok)
     \/ NetDriver \/ NetFill
     \/ CardReceives \/ CardSends \/ CardRaises \/ Interrupt
  /\ UNCHANGED <<which, blkVars>>

BlkNext ==
  /\ which = "blk"
  /\ \/ \E req \in Requests, ok \in BOOLEAN : BlkCall(req, ok)
     \/ BlkBuild \/ BlkPoll \/ BlkGivesUp
     \/ DiskFetches \/ DiskAnswers \/ \E ok \in BOOLEAN : DiskWorks(ok)
  /\ UNCHANGED <<which, netVars>>

Next == NetNext \/ BlkNext

Spec == Init /\ [][Next]_vars

-----------------------------------------------------------------------------
\* Indices are indices, and no more is offered or given back than a ring holds.
TypeOK ==
  /\ \A q \in {rx, tx} :
       /\ {q.aidx, q.uidx, q.seen} \subseteq 0 .. IDX - 1
       /\ (q.aidx - q.seen) % IDX <= VQ_SIZE
  /\ (rx.uidx - net.rx_last) % IDX <= VQ_SIZE
  /\ n.up <= n.came /\ n.gone <= n.sent
  /\ blk.result \in {0, -1}

\* Frames stay frames.  Those passed up are those that came, each once and in
\* order, and nobody writes into one while net_input reads it; those on the wire
\* are those handed to net_transmit, whole, once and in order, although buffers
\* are used again without asking the card.
FramesInOrder == n.last = n.up /\ n.onwire = n.gone

\* No frame lies in the ring with the driver asleep and nobody about to wake it:
\* the card is acknowledged before the ring is drained, not after (net_server).
NoFrameForgotten ==
  (net.pc = "loop" /\ rx.uidx # net.rx_last) => irq.owed \/ irq.raised \/ irq.told

\* "Returns 0 if the device reported success" (transact): between calls the disk
\* holds what the writes that returned 0 wrote, and a read that returned 0 got
\* what its sector holds, as long as no request has been given up.
DiskAsAsked ==
  (n.givenUp = 0 /\ blk.pc = "idle") =>
    /\ disk = n.asked
    /\ (blk.result = 0 /\ blk.req.type = "IN") => blk.out = disk[blk.req.lba]

=============================================================================
