-------------------------------- MODULE Tcp --------------------------------
(***************************************************************************)
(* A TCP connection of net_ip.c: the same code at both ends of a network   *)
(* that loses, repeats and reorders.  One end calls, the other listens.    *)
(*                                                                         *)
(* A host is a control block (or FREE), and what its programs wrote and    *)
(* what its end of the connection took in.  Every operation of the code    *)
(* maps a pair of a block and the segments put on the wire to another.     *)
(* Time is abstract: a timer that runs may go off at any moment, so the    *)
(* estimate of the round-trip time, which only chooses that moment, is     *)
(* left out.  Sequence numbers wrap at SEQ, which stands for 2^32.         *)
(***************************************************************************)
EXTENDS Integers, Sequences, FiniteSets

CONSTANTS
  Caller, Listener,  \* the two hosts
  SEQ,               \* the modulus of sequence numbers
  MSS,               \* the largest segment
  RXQ,               \* bytes of the read queue
  NOOO,              \* segments held aside
  RTO_TRIES,         \* retransmissions before giving up
  ISS,               \* the first sequence number of each host
  Writers,           \* the hosts whose programs write
  MaxBytes,          \* bytes a program writes
  Sizes,             \* bytes asked for in one write or read
  MaxNet,            \* segments on the way to a host at once
  MaxFaults          \* segments lost, repeated or overtaken, and timers that
                     \* go off while segments are on the way

Hosts == {Caller, Listener}
SNDBUF == 2 * MSS

ASSUME TcpAssumption ==
  /\ Caller # Listener /\ Writers \subseteq Hosts
  /\ SEQ \in Nat /\ SEQ > 4 * SNDBUF
  /\ MSS \in Nat \ {0} /\ RXQ \in Nat \ {0} /\ NOOO \in Nat
  /\ RTO_TRIES \in Nat /\ MaxBytes \in Nat /\ MaxNet \in Nat
  /\ Sizes \subseteq Nat \ {0}
  /\ MaxFaults \in Nat
  /\ ISS \in [Hosts -> 0 .. SEQ - 1]

VARIABLES
  tcb,    \* per host: its control block
  net,    \* per host: the segments on the way to it
  arp,    \* per host: whether it knows the peer's hardware address
  wrote,  \* per host: bytes its program has written
  got,    \* per host: the bytes its programs have read
  taken,  \* per host: the most bytes one connection has taken in
  ended,  \* per host: how its latest connection ended
  clock,  \* per host: the next initial sequence number
  faults  \* faults so far

vars == <<tcb, net, arp, wrote, got, taken, ended, clock, faults>>

Peer(h) == IF h = Caller THEN Listener ELSE Caller

-----------------------------------------------------------------------------
(* Sequence numbers: the sign of the difference.                           *)

Plus(a, n) == (a + n) % SEQ
Diff(a, b) == (a - b) % SEQ
seq_gt(a, b) == Diff(a, b) \in 1 .. (SEQ \div 2) - 1
seq_lt(a, b) == Diff(a, b) >= SEQ \div 2
seq_le(a, b) == ~seq_gt(a, b)

-----------------------------------------------------------------------------
(* Control blocks.                                                         *)

FREE == [state |-> "FREE"]
Synchronizing == {"SYN_SENT", "SYN_RCVD"}

\* tcb_alloc, and what tcp_connect and a listener put in the block.  cwnd is
\* clamped at SNDBUF: a larger one allows nothing more.
Block(state, iss, rcv_nxt, wnd, held) ==
  [state |-> state, iss |-> iss, snd_una |-> iss, snd_nxt |-> iss,
   snd_base |-> Plus(iss, 1), snd_wnd |-> wnd, snd_buf |-> << >>,
   snd_fin |-> FALSE, fin_sent |-> FALSE, cwnd |-> 2 * MSS,
   slow |-> TRUE, rt |-> FALSE, rt_tries |-> 0, rt_pending |-> {},
   dupacks |-> 0, rcv_nxt |-> rcv_nxt, rxq |-> << >>, ooo |-> {},
   tw |-> FALSE, held |-> held]

rcv_window(c) == RXQ - Len(c.rxq)
SndEnd(c) == Plus(c.snd_base, Len(c.snd_buf))
all_acked(c) == c.snd_una = c.snd_nxt

\* A block and what it put on the wire while it was changed.
At(h, c) == [host |-> h, c |-> c, out |-> << >>]
With(x, c) == [x EXCEPT !.c = c]

Segment(x, flags, seq, data) ==
  [flags |-> flags, seq |-> seq, ack |-> x.c.rcv_nxt,
   wnd |-> rcv_window(x.c), data |-> data]

\* seg_xmit of several segments: all go, or the address is not known.
Xmit(x, segs) ==
  [x EXCEPT !.out = @ \o segs, !.c.rt_pending = {}]
Unaddressed(x, flags) ==
  [x EXCEPT !.c.rt_pending = flags, !.c.rt = TRUE]

send_ack(x) ==
  IF arp[x.host] THEN Xmit(x, <<Segment(x, {"ACK"}, x.c.snd_nxt, << >>)>>)
  ELSE Unaddressed(x, {"ACK"})

-----------------------------------------------------------------------------
(* Output.                                                                 *)

OutputSyn(x) ==
  LET c == x.c
      flags == IF c.state = "SYN_RCVD" THEN {"SYN", "ACK"} ELSE {"SYN"}
  IN IF ~seq_lt(c.snd_nxt, c.snd_base) THEN x
     ELSE IF ~arp[x.host] THEN Unaddressed(x, flags)
     ELSE [Xmit(x, <<Segment(x, flags, c.iss, << >>)>>)
             EXCEPT !.c.snd_nxt = c.snd_base, !.c.rt = TRUE]

\* The bytes that the window and the congestion window let go now.
Lowest(S) == CHOOSE n \in S : \A m \in S : n <= m
Usable(c) ==
  LET allowed == Lowest({c.snd_wnd, c.cwnd})
      inflight == Diff(c.snd_nxt, c.snd_una)
  IN IF allowed > inflight THEN allowed - inflight ELSE 0
Unsent(c) ==
  IF seq_lt(c.snd_nxt, c.snd_base) THEN 0
  ELSE Len(c.snd_buf) - Diff(c.snd_nxt, c.snd_base)
Going(c) ==
  IF Unsent(c) <= 0 THEN 0 ELSE Lowest({Unsent(c), Usable(c)})

OutputData(x) ==
  LET c == x.c
      off == Diff(c.snd_nxt, c.snd_base)
      n == Going(c)
      chunk(k) == SubSeq(c.snd_buf, off + (k - 1) * MSS + 1,
                         off + Lowest({k * MSS, n}))
  IN IF n = 0 \/ ~arp[x.host] THEN x
     ELSE [Xmit(x, [k \in 1 .. (n + MSS - 1) \div MSS |->
                      Segment(x, {"ACK"}, Plus(c.snd_nxt, (k - 1) * MSS), chunk(k))])
             EXCEPT !.c.snd_nxt = Plus(@, n), !.c.rt = TRUE]

OutputFin(x) ==
  LET c == x.c
  IN IF ~(c.snd_fin /\ ~c.fin_sent /\ c.snd_nxt = SndEnd(c)) THEN x
     ELSE IF ~arp[x.host] THEN Unaddressed(x, {"ACK", "FIN"})
     ELSE [Xmit(x, <<Segment(x, {"ACK", "FIN"}, c.snd_nxt, << >>)>>)
             EXCEPT !.c.fin_sent = TRUE, !.c.snd_nxt = Plus(@, 1), !.c.rt = TRUE]

tcp_output(x) ==
  IF x.c.state \in Synchronizing THEN OutputSyn(x)
  ELSE IF x.c.state \in {"FREE", "TIME_WAIT"} THEN x
  ELSE OutputFin(OutputData(x))

\* Nothing more to send: the FIN queues behind what was written.  SYN_RCVD and
\* the states after a close are left as they are.
tcp_close(x) ==
  CASE x.c.state = "ESTABLISHED" ->
         tcp_output([x EXCEPT !.c.snd_fin = TRUE, !.c.state = "FIN_WAIT_1"])
    [] x.c.state = "CLOSE_WAIT" ->
         tcp_output([x EXCEPT !.c.snd_fin = TRUE, !.c.state = "LAST_ACK"])
    [] x.c.state = "SYN_SENT" -> With(x, FREE)
    [] OTHER -> x

-----------------------------------------------------------------------------
(* Reassembly.                                                             *)

\* As many bytes as there is room for.
rcv_accept(c, data) ==
  LET n == Lowest({Len(data), rcv_window(c)})
  IN [c EXCEPT !.rxq = @ \o SubSeq(data, 1, n), !.rcv_nxt = Plus(@, n)]

\* Held segments that the stream has reached: the overtaken ones go, of the
\* others what fits is taken.
Reached(c) == {s \in c.ooo : ~seq_gt(s.seq, c.rcv_nxt)}
Fold(c, s) ==
  LET skip == Diff(c.rcv_nxt, s.seq)
      took == rcv_accept(c, SubSeq(s.data, skip + 1, Len(s.data)))
      done == Len(s.data) <= Diff(took.rcv_nxt, s.seq)
  IN IF skip >= Len(s.data) THEN [c EXCEPT !.ooo = @ \ {s}]
     ELSE IF done THEN [took EXCEPT !.ooo = @ \ {s}] ELSE took

ooo_drain(c) ==
  LET pass[k \in 0 .. NOOO * (NOOO + 1)] ==
        IF k = 0 THEN c
        ELSE LET d == pass[k - 1]
             IN IF Reached(d) = {} THEN d
                ELSE Fold(d, CHOOSE s \in Reached(d) : TRUE)
  IN pass[NOOO * (NOOO + 1)]

ooo_store(c, seq, data) ==
  IF (\E s \in c.ooo : s.seq = seq) \/ Cardinality(c.ooo) >= NOOO THEN c
  ELSE [c EXCEPT !.ooo = @ \cup {[seq |-> seq, data |-> data]}]

\* Mutant: the front of a segment that is partly old is not trimmed.
rcv_dataUntrimmed(c, seq, data) ==
  IF seq_le(Plus(seq, Len(data)), c.rcv_nxt) THEN c
  ELSE IF seq_le(seq, c.rcv_nxt) THEN ooo_drain(rcv_accept(c, data))
  ELSE ooo_store(c, seq, data)

rcv_data(c, seq, data) ==
  LET skip == IF seq_lt(seq, c.rcv_nxt) THEN Diff(c.rcv_nxt, seq) ELSE 0
      rest == SubSeq(data, skip + 1, Len(data))
  IN IF seq_le(Plus(seq, Len(data)), c.rcv_nxt) THEN c
     ELSE IF Plus(seq, skip) = c.rcv_nxt THEN ooo_drain(rcv_accept(c, rest))
     ELSE ooo_store(c, seq, data)

-----------------------------------------------------------------------------
(* Acknowledgements.                                                       *)

\* Back to the oldest byte that is not acknowledged.
GoBack(c, cwnd) ==
  [c EXCEPT !.cwnd = cwnd, !.slow = FALSE, !.snd_nxt = c.snd_una,
            !.fin_sent = FALSE]

\* Slow start to ssthresh, which is 2 * MSS after a loss (half of what can be in
\* flight is less), then congestion avoidance.
Wider(c) ==
  Lowest({SNDBUF, IF c.slow \/ c.cwnd < 2 * MSS THEN c.cwnd + MSS
                  ELSE c.cwnd + (MSS * MSS) \div c.cwnd})

\* Mutant: an acknowledgement is taken for all that was sent.
AckedSent(c, ack) ==
  LET d == Lowest({Diff(c.snd_nxt, c.snd_base), Len(c.snd_buf)})
  IN [c EXCEPT !.snd_buf = SubSeq(@, d + 1, Len(@)), !.snd_base = Plus(@, d),
               !.snd_una = ack, !.dupacks = 0, !.cwnd = Wider(c),
               !.rt = (ack # c.snd_nxt), !.rt_tries = 0]

\* Mutant: any acknowledgement stops the timer.
AckedStops(c, ack) ==
  LET past == IF seq_gt(ack, c.snd_base) THEN Diff(ack, c.snd_base) ELSE 0
      d == Lowest({past, Len(c.snd_buf)})
  IN [c EXCEPT !.snd_buf = SubSeq(@, d + 1, Len(@)), !.snd_base = Plus(@, d),
               !.snd_una = ack, !.dupacks = 0, !.cwnd = Wider(c),
               !.rt = FALSE, !.rt_tries = 0]

\* The acknowledged bytes leave the buffer; SYN and FIN are not in it.
Acked(c, ack) ==
  LET past == IF seq_gt(ack, c.snd_base) THEN Diff(ack, c.snd_base) ELSE 0
      d == Lowest({past, Len(c.snd_buf)})
  IN [c EXCEPT !.snd_buf = SubSeq(@, d + 1, Len(@)), !.snd_base = Plus(@, d),
               !.snd_una = ack, !.dupacks = 0, !.cwnd = Wider(c),
               !.rt = (ack # c.snd_nxt), !.rt_tries = 0]

\* dupacks counts to four: only the third has an effect.
ack_input(x, ack) ==
  LET c == x.c
      again == ack = c.snd_una /\ c.snd_una # c.snd_nxt
      count == [c EXCEPT !.dupacks = Lowest({@ + 1, 4})]
  IN IF seq_gt(ack, c.snd_nxt) THEN x
     ELSE IF seq_gt(ack, c.snd_una) THEN With(x, Acked(c, ack))
     ELSE IF ~again THEN x
     ELSE IF c.dupacks # 2 THEN With(x, count)
     ELSE tcp_output(With(x, GoBack(count, 2 * MSS)))

-----------------------------------------------------------------------------
(* Input.                                                                  *)

tcp_reset(seg) ==
  IF "ACK" \in seg.flags
  THEN [flags |-> {"RST"}, seq |-> seg.ack, ack |-> 0, wnd |-> 0, data |-> << >>]
  ELSE [flags |-> {"RST", "ACK"}, seq |-> 0, wnd |-> 0, data |-> << >>,
        ack |-> Plus(seg.seq, Len(seg.data)
                              + IF seg.flags \cap {"SYN", "FIN"} = {} THEN 0 ELSE 1)]
Refuse(x, seg) ==
  IF "RST" \in seg.flags \/ ~arp[x.host] THEN x
  ELSE [x EXCEPT !.out = Append(@, tcp_reset(seg))]

\* No connection: a listener answers a SYN with a block of its own.
InputFree(x, seg) ==
  IF x.host = Listener /\ "SYN" \in seg.flags /\ "RST" \notin seg.flags
  THEN tcp_output(With(x, Block("SYN_RCVD", clock[x.host], Plus(seg.seq, 1),
                                seg.wnd, FALSE)))
  ELSE Refuse(x, seg)

InputSynSent(x, seg) ==
  LET c == [x.c EXCEPT !.rcv_nxt = Plus(seg.seq, 1), !.snd_wnd = seg.wnd]
      y == ack_input(With(x, c), seg.ack)
  IN IF "SYN" \notin seg.flags THEN x
     ELSE IF "ACK" \notin seg.flags
     THEN tcp_output(With(x, [c EXCEPT !.state = "SYN_RCVD", !.snd_nxt = c.iss]))
     ELSE IF seq_le(seg.ack, c.iss) \/ seq_gt(seg.ack, c.snd_nxt)
     THEN Refuse(With(x, c), seg)
     ELSE send_ack([y EXCEPT !.c.state = "ESTABLISHED"])

\* What an acknowledgement of everything sent means to a closing connection.
\* "stop": the segment is done with.
TimeWait(x) == [x EXCEPT !.c.state = "TIME_WAIT", !.c.rt = FALSE, !.c.tw = TRUE]
FinTaken(c) == c.fin_sent /\ all_acked(c)

Stop(x) == [x |-> x, stop |-> TRUE]
Go(x) == [x |-> x, stop |-> FALSE]
InputState(x, seg) ==
  LET c == x.c
      to(state) == [x EXCEPT !.c.state = state]
  IN CASE c.state = "SYN_RCVD" ->
            IF "ACK" \in seg.flags THEN Go(to("ESTABLISHED")) ELSE Stop(x)
       [] c.state = "FIN_WAIT_1" /\ FinTaken(c) -> Go(to("FIN_WAIT_2"))
       [] c.state = "CLOSING" /\ FinTaken(c) -> Stop(TimeWait(x))
       [] c.state = "LAST_ACK" /\ FinTaken(c) -> Stop(With(x, FREE))
       [] c.state = "TIME_WAIT" ->
            Stop(IF "FIN" \in seg.flags THEN send_ack(x) ELSE x)
       [] OTHER -> Go(x)

\* A segment that was held aside ends here: no FIN can follow it yet.
InputData(x, seg) ==
  LET c == rcv_data(x.c, seg.seq, seg.data)
      y == send_ack(With(x, c))
  IN IF seg.data = << >> THEN Go(x)
     ELSE IF c.rcv_nxt = x.c.rcv_nxt /\ seg.seq # c.rcv_nxt THEN Stop(y)
     ELSE Go(y)

FinFits(c, seg) ==
  "FIN" \in seg.flags /\ Plus(seg.seq, Len(seg.data)) = c.rcv_nxt
InputFin(x, seg) ==
  LET y == [x EXCEPT !.c.rcv_nxt = Plus(@, 1)]
      to(state) == [y EXCEPT !.c.state = state]
  IN CASE ~FinFits(x.c, seg) -> x
       [] x.c.state = "ESTABLISHED" ->
            IF x.c.held THEN send_ack(to("CLOSE_WAIT"))
            ELSE tcp_close(send_ack(to("CLOSE_WAIT")))
       [] x.c.state = "FIN_WAIT_1" ->
            LET z == send_ack(y)
            IN IF FinTaken(y.c) THEN TimeWait(z)
               ELSE [z EXCEPT !.c.state = "CLOSING"]
       [] x.c.state = "FIN_WAIT_2" -> TimeWait(send_ack(y))
       [] OTHER -> y

InputConnected(x, seg) ==
  LET a == IF "ACK" \in seg.flags
           THEN ack_input([x EXCEPT !.c.snd_wnd = seg.wnd], seg.ack) ELSE x
      b == InputState(a, seg)
      d == InputData(b.x, seg)
  IN IF b.stop THEN b.x ELSE IF d.stop THEN d.x ELSE InputFin(d.x, seg)

tcp_segment(x, seg) ==
  CASE x.c.state = "FREE" -> InputFree(x, seg)
    [] x.c.state # "FREE" /\ "RST" \in seg.flags -> With(x, FREE)
    [] x.c.state = "SYN_SENT" /\ "RST" \notin seg.flags -> InputSynSent(x, seg)
    [] OTHER -> InputConnected(x, seg)

-----------------------------------------------------------------------------
(* Steps.  What a host puts on the wire is lost or arrives, in part or all. *)

\* Bytes a connection has taken in: read by programs or waiting for them.
Took(h) == got[h] \o (IF tcb[h].state = "FREE" THEN << >> ELSE tcb[h].rxq)
Subsequences(q) ==
  {[i \in 1 .. Cardinality(S) |->
      q[CHOOSE k \in S : Cardinality({j \in S : j <= k}) = i]] :
   S \in SUBSET (1 .. Len(q))}

\* The host of x goes on with x; `inbox` is what is still on the way to it, and
\* `bad` faults have happened to it.
Wire(x, inbox, bad) ==
  \E sent \in Subsequences(x.out) :
    /\ Len(net[Peer(x.host)]) + Len(sent) <= MaxNet
    /\ net' = [net EXCEPT ![x.host] = inbox, ![Peer(x.host)] = @ \o sent]
    /\ faults' = faults + bad
                 + IF Len(net[Peer(x.host)]) + Len(x.out) > MaxNet THEN 0
                   ELSE Len(x.out) - Len(sent)
    /\ faults' <= MaxFaults
Becomes(x, inbox, bad) ==
  LET h == x.host
      new == tcb[h].state = "FREE" /\ x.c.state # "FREE"
  IN /\ tcb' = [tcb EXCEPT ![h] = x.c]
     /\ clock' = IF new THEN [clock EXCEPT ![h] = Plus(@, SNDBUF + 2)] ELSE clock
     /\ got' = IF new THEN [got EXCEPT ![h] = << >>] ELSE got
     /\ Wire(x, inbox, bad)

\* What is remembered of a host's connection when it is in state c.
Remember(h, c, how) ==
  /\ taken' = [taken EXCEPT ![h] =
                 IF c.state = "FREE" \/ Len(got'[h]) + Len(c.rxq) < @ THEN @
                 ELSE Len(got'[h]) + Len(c.rxq)]
  /\ ended' = [ended EXCEPT ![h] = IF c.state = "FREE" THEN how ELSE "no"]

\* connect, of a program: it holds the connection from the moment it exists.
tcp_connect ==
  LET x == tcp_output(At(Caller, Block("SYN_SENT", clock[Caller], 0, 0, TRUE)))
  IN /\ tcb[Caller].state = "FREE" /\ ended[Caller] = "no"
     /\ Becomes(x, net[Caller], 0)
     /\ Remember(Caller, x.c, "closed")
     /\ UNCHANGED <<arp, wrote>>

\* accept and open, of a program at the listener.
accept ==
  /\ tcb[Listener].state = "ESTABLISHED" /\ ~tcb[Listener].held
  /\ tcb' = [tcb EXCEPT ![Listener].held = TRUE]
  /\ UNCHANGED <<net, arp, wrote, got, taken, ended, clock, faults>>

\* A program writes the next n bytes; byte k of a program is the number k.
tcp_write(h, n) ==
  LET c == tcb[h]
      k == Lowest({n, SNDBUF - Len(c.snd_buf)})
      x == tcp_output(At(h, [c EXCEPT !.snd_buf = @ \o [i \in 1 .. k |-> wrote[h] + i]]))
  IN /\ c.state \in {"ESTABLISHED", "CLOSE_WAIT"} /\ c.held
     /\ k > 0 /\ wrote[h] + k <= MaxBytes
     /\ wrote' = [wrote EXCEPT ![h] = @ + k]
     /\ Becomes(x, net[h], 0)
     /\ UNCHANGED <<arp, taken, ended>>

\* A read, at once or of a parked reader: conn_drop tells a peer that was shut
\* out.
conn_drop(h, want) ==
  LET c == tcb[h]
      n == Lowest({want, Len(c.rxq)})
      x == At(h, [c EXCEPT !.rxq = SubSeq(@, n + 1, Len(@))])
      y == IF rcv_window(c) = 0 /\ c.state = "ESTABLISHED" THEN send_ack(x) ELSE x
  IN /\ c.state # "FREE" /\ c.held /\ c.rxq # << >>
     /\ tcb' = [tcb EXCEPT ![h] = y.c]
     /\ Wire(y, net[h], 0)
     /\ got' = [got EXCEPT ![h] = @ \o SubSeq(c.rxq, 1, n)]
     /\ UNCHANGED <<arp, wrote, taken, ended, clock>>

\* The last holder closes, or dies.
Close(h) ==
  LET x == tcp_close(At(h, [tcb[h] EXCEPT !.held = FALSE]))
  IN /\ tcb[h].state # "FREE" /\ tcb[h].held
     /\ Becomes(x, net[h], 0)
     /\ Remember(h, x.c, "closed")
     /\ UNCHANGED <<arp, wrote>>

\* A segment arrives, perhaps before others and perhaps again later.
Left(q, i) == SubSeq(q, 1, i - 1) \o SubSeq(q, i + 1, Len(q))
Deliver(h, i, again) ==
  LET seg == net[h][i]
      x == tcp_segment(At(h, tcb[h]), seg)
  IN /\ i \in 1 .. Len(net[h])
     /\ Becomes(x, IF again THEN net[h] ELSE Left(net[h], i),
                (IF again THEN 1 ELSE 0) + (IF i > 1 THEN 1 ELSE 0))
     /\ IF tcb[h].state = "FREE" /\ x.c.state = "FREE" THEN UNCHANGED <<taken, ended>>
        ELSE Remember(h, x.c, IF "RST" \in seg.flags THEN "reset" ELSE "closed")
     /\ UNCHANGED <<arp, wrote>>

\* The address of the peer becomes known.
arp_learn(h) ==
  /\ ~arp[h]
  /\ arp' = [arp EXCEPT ![h] = TRUE]
  /\ UNCHANGED <<tcb, net, wrote, got, taken, ended, clock, faults>>

\* net_timeout: TIME-WAIT is over.
time_wait(h) ==
  /\ tcb[h].state # "FREE" /\ tcb[h].tw
  /\ Becomes(At(h, FREE), net[h], 0)
  /\ Remember(h, FREE, "closed")
  /\ UNCHANGED <<arp, wrote>>

\* net_timeout: the retransmission timer of a connection has gone off.
Retransmit(c, h) ==
  LET tried == [c EXCEPT !.rt_tries = @ + 1, !.rt = FALSE]
      plain == [tried EXCEPT !.rt_pending = {}]
      y == IF c.rt_pending = {} THEN tcp_output(At(h, GoBack(tried, MSS)))
           ELSE IF "SYN" \in c.rt_pending THEN tcp_output(At(h, plain))
           ELSE send_ack(At(h, plain))
  IN [y EXCEPT !.c.rt = TRUE]

Hasty == IF \A h \in Hosts : net[h] = << >> THEN 0 ELSE 1
net_timeout(h) ==
  LET c == tcb[h]
      x == Retransmit(c, h)
  IN /\ c.state # "FREE" /\ ~c.tw /\ c.rt
     /\ IF c.rt_tries >= RTO_TRIES
        THEN Becomes(At(h, FREE), net[h], Hasty) /\ Remember(h, FREE, "gave up")
        ELSE Becomes(x, net[h], Hasty) /\ UNCHANGED <<taken, ended>>
     /\ UNCHANGED <<arp, wrote>>

-----------------------------------------------------------------------------
Init ==
  /\ tcb = [h \in Hosts |-> FREE]
  /\ net = [h \in Hosts |-> << >>]
  /\ arp = [h \in Hosts |-> h = Listener]
  /\ wrote = [h \in Hosts |-> 0]
  /\ got = [h \in Hosts |-> << >>]
  /\ taken = [h \in Hosts |-> 0]
  /\ ended = [h \in Hosts |-> "no"]
  /\ clock = ISS
  /\ faults = 0

\* ooo_drain goes round for ever: it has reached a held segment that it cannot
\* take whole.
Hung(h) == tcb[h].state # "FREE" /\ Reached(tcb[h]) # {}

Host(h) ==
  \/ h \in Writers /\ \E n \in Sizes : tcp_write(h, n)
  \/ \E n \in Sizes : conn_drop(h, n)
  \/ Close(h)
  \/ \E i \in 1 .. MaxNet, again \in BOOLEAN : Deliver(h, i, again)
  \/ arp_learn(h)
  \/ time_wait(h)
  \/ net_timeout(h)

Next ==
  \/ tcp_connect
  \/ accept
  \/ \E h \in Hosts : ~Hung(h) /\ Host(h)

\* Segments arrive, timers go off, addresses become known and readers read: weak
\* fairness, each as what it waits for and what the step does.
Waits(h) == ~Hung(h) /\ tcb[h].state # "FREE"
Patient(h) == Hasty = 0 \/ faults < MaxFaults
Fairness ==
  \A h \in Hosts :
    /\ \/ []<>(net[h] = << >> \/ Hung(h))
       \/ []<><<Len(net'[h]) < Len(net[h])>>_vars
    /\ \/ []<>~(Waits(h) /\ ~tcb[h].tw /\ tcb[h].rt /\ Patient(h))
       \/ []<><<net_timeout(h)>>_vars
    /\ []<>~(Waits(h) /\ tcb[h].tw) \/ []<><<time_wait(h)>>_vars
    /\ []<>arp[h]
    /\ \/ []<>~(Waits(h) /\ tcb[h].held /\ tcb[h].rxq # << >>)
       \/ []<><<Len(got'[h]) > Len(got[h])>>_vars

Spec == Init /\ [][Next]_vars /\ Fairness

-----------------------------------------------------------------------------
(* Properties.                                                             *)

Stream(n) == [i \in 1 .. n |-> i]

\* Every variable has its type, queues within their bounds.
TypeOK ==
  /\ arp \in [Hosts -> BOOLEAN] /\ wrote \in [Hosts -> 0 .. MaxBytes]
  /\ ended \in [Hosts -> {"no", "closed", "reset", "gave up"}]
  /\ clock \in [Hosts -> 0 .. SEQ - 1]
  /\ \A h \in Hosts :
       /\ Len(net[h]) <= MaxNet
       /\ tcb[h].state # "FREE" =>
            /\ Len(tcb[h].rxq) <= RXQ /\ Cardinality(tcb[h].ooo) <= NOOO
            /\ Len(tcb[h].snd_buf) <= SNDBUF
            /\ tcb[h].rt_tries \in 0 .. RTO_TRIES

\* What a program reads is what the other program wrote, in order, nothing
\* twice and nothing left out, whatever the network did (rcv_data, ooo_drain);
\* and a connection whose peer is done has all of it: end of file is never early
\* (tcp_segment, FIN).
StreamInOrder ==
  \A h \in Hosts :
    /\ Len(Took(h)) <= wrote[Peer(h)]
    /\ Took(h) = Stream(Len(Took(h)))
    /\ tcb[h].state \in {"CLOSE_WAIT", "LAST_ACK", "CLOSING", "TIME_WAIT"}
         => Len(Took(h)) = wrote[Peer(h)]

\* What counts as acknowledged has arrived: a byte leaves the send buffer only
\* when the peer has it (ack_input), and FIN-WAIT-2 is entered only when the peer
\* has taken everything written before our FIN (tcp_segment, T_FIN_WAIT_1).
AckedIsTaken ==
  \A h \in Hosts :
    /\ tcb[h].state # "FREE" => wrote[h] - Len(tcb[h].snd_buf) <= taken[Peer(h)]
    /\ tcb[h].state = "FIN_WAIT_2" => taken[Peer(h)] = wrote[h]

\* Unsent bytes, and no timer that would ever send them.
Stalled(h) == tcb[h].state # "FREE" /\ Unsent(tcb[h]) > 0 /\ ~tcb[h].rt

\* What a program wrote reaches the peer, unless the connection ends by a reset
\* or is given up, an end hangs, or output waits for a program to write again.
WrittenArrives ==
  \A h \in Writers : \A n \in {1, MaxBytes} :
    wrote[h] >= n ~> \/ taken[Peer(h)] >= n \/ Stalled(h)
                     \/ ended[h] \in {"reset", "gave up"}
                     \/ \E g \in Hosts : Hung(g)

=============================================================================
