----------------------------- MODULE NetServer -----------------------------
(***************************************************************************)
(* The control side of the network server, net_ip.c behind srv_net.c: the  *)
(* files /net/ctl and /net/tcp/N, the requests it parks, the replies a     *)
(* busy client refuses and the deadline that offers them again, the        *)
(* references that keep a connection open, the resolver's one question and *)
(* the address cache.                                                      *)
(*                                                                         *)
(* The server handles one message at a time: a client's request, a frame,  *)
(* or the clock.  Each is a step, and each operation of the code maps the  *)
(* server's state S to another.  What happens inside a connection is the   *)
(* module Tcp; here it is the state that the control side looks at and the *)
(* queue of bytes for readers.  Byte k of a connection is the number k.    *)
(***************************************************************************)
EXTENDS Integers, Sequences, FiniteSets

CONSTANTS
  Clients,    \* tasks that use the network
  Nobody,     \* no task
  Mortal,     \* the clients that may be killed
  Does,       \* per client: the commands that it gives
  NTCB,       \* connections
  NPFD,       \* open control files
  NREF,       \* holders of a connection
  DNS_TRIES,  \* questions before the resolver gives up
  Lens,       \* bytes a read asks for
  MaxInputs   \* connections made and opened, questions asked, bytes arrived

ASSUME NetServerAssumption ==
  /\ IsFiniteSet(Clients) /\ Nobody \notin Clients /\ Mortal \subseteq Clients
  /\ Does \in [Clients -> SUBSET {"resolve", "connect", "listen", "accept", "close"}]
  /\ NTCB \in Nat \ {0} /\ NPFD \in Nat \ {0} /\ NREF \in Nat \ {0}
  /\ DNS_TRIES \in Nat \ {0}
  /\ Lens \subseteq Nat \ {0} /\ MaxInputs \in Nat

VARIABLES
  conn,   \* per slot: a connection
  pfd,    \* per slot: an open control file and the answer in it
  cl,     \* per client: what it is doing
  dns,    \* the resolver's question and who asked
  retry,  \* a refused reply has a deadline
  inputs  \* how many of those so far

vars == <<conn, pfd, cl, dns, retry, inputs>>

Slots == 0 .. NTCB - 1
Files == 0 .. NPFD - 1

-----------------------------------------------------------------------------
(* Connections, and requests parked on them.                               *)

Empty == [task |-> Nobody, file |-> 0, len |-> 0]
Parked(t, i, n) == [task |-> t, file |-> i, len |-> n]
Used(p) == p.task # Nobody

\* `arrived`, `given` and `told` count bytes that came, bytes that readers got
\* and accepts that were told of the connection.  A reference is <<task, n>>, the
\* task's nth.
tcb(state, inbound, refs, opener) ==
  [state |-> state, inbound |-> inbound, rxq |-> << >>, arrived |-> 0, given |-> 0,
   reader |-> Empty, opener |-> opener, accepted |-> FALSE, told |-> 0,
   refs |-> refs]
FREE == tcb("FREE", FALSE, {}, Empty)


Held(t) == {<<t, 1>>}
Own(c, t) == Cardinality({r \in c.refs : r[1] = t})
ref_count(c) == Cardinality(c.refs)

\* No change: there are holders enough.
ref_add(c, t) ==
  IF ref_count(c) >= NREF THEN c
  ELSE [c EXCEPT !.refs = @ \cup {<<t, Own(c, t) + 1>>}]
ref_drop(c, t) == [c EXCEPT !.refs = @ \ {<<t, Own(c, t)>>}]

Synchronizing == {"SYN_SENT", "SYN_RCVD"}
conn_eof(c) ==
  c.rxq = << >> /\ c.state \in {"CLOSE_WAIT", "LAST_ACK", "CLOSING", "TIME_WAIT"}

\* FIN_WAIT_1 and FIN_WAIT_2 are one state here.
tcp_close(c) ==
  CASE c.state = "ESTABLISHED" -> [c EXCEPT !.state = "FIN_WAIT"]
    [] c.state = "CLOSE_WAIT" -> [c EXCEPT !.state = "LAST_ACK"]
    [] c.state \in {"LISTEN", "SYN_SENT"} -> FREE
    [] OTHER -> c

-----------------------------------------------------------------------------
(* Replies.  A client takes one only while it is in sys_recv.              *)

Server ==
  [conn |-> conn, pfd |-> pfd, cl |-> cl, dns |-> dns, retry |-> retry,
   inputs |-> inputs, refused |-> FALSE]

Nothing == <<"nothing", 0>>
Wait(S, t, what) ==
  [S EXCEPT !.cl[t].phase = "sent", !.cl[t].wants = what]
sys_alive(S, t) == S.cl[t].phase # "dead"
Takes(S, p) == S.cl[p.task].phase = "recv"
Taken(S, p) ==
  [S EXCEPT !.cl[p.task].phase = "idle", !.cl[p.task].wants = Nothing]

\* Answers are told apart by whether they are the resolver's.
NoAnswer == [to |-> Nobody, about |-> "none"]
Answer(S, t, i, what) ==
  [S EXCEPT !.pfd[i].answer = [to |-> t, about |-> what]]

\* The answer is in the file whether or not the reply is taken.  A request that
\* came in on another file is dropped.
ctl_answer(S, p, what) ==
  LET put == Answer(S, p.task, p.file, what)
  IN IF p.file \notin Files THEN S
     ELSE IF Takes(S, p) THEN Taken(put, p) ELSE put
Still(S, p) == IF Takes(S, p) \/ p.file \notin Files THEN Empty ELSE p

reply_read(S, i) ==
  LET p == S.conn[i].reader
  IN IF Takes(S, p) THEN [Taken(S, p) EXCEPT !.conn[i].reader = Empty] ELSE S

conn_drop(c, n) ==
  [c EXCEPT !.rxq = SubSeq(@, n + 1, Len(@)), !.given = c.rxq[n]]

WakeOpener(S, i) ==
  LET c == S.conn[i]
  IN IF c.state = "FREE" \/ ~Used(c.opener) \/ c.state \in Synchronizing THEN S
     ELSE [ctl_answer(S, c.opener, "command")
             EXCEPT !.conn[i].opener = Still(S, c.opener)]

Fewer(m, n) == IF m < n THEN m ELSE n

\* Mutant: the bytes leave the queue even if the reply was refused.
WakeReaderEats(S, i) ==
  LET c == S.conn[i]
      n == Fewer(Len(c.rxq), c.reader.len)
  IN IF c.state \in {"FREE", "LISTEN"} \/ ~Used(c.reader) THEN S
     ELSE IF c.rxq # << >>
     THEN [reply_read(S, i) EXCEPT !.conn[i].rxq = SubSeq(@, n + 1, Len(@)),
             !.conn[i].given = IF Takes(S, c.reader) THEN c.rxq[n] ELSE @,
             !.refused = ~Takes(S, c.reader)]
     ELSE IF conn_eof(c) THEN reply_read(S, i) ELSE S

\* Copied, offered, and only then consumed.  A refused end of file counts for
\* nothing.
WakeReader(S, i) ==
  LET c == S.conn[i]
      n == Fewer(Len(c.rxq), c.reader.len)
  IN IF c.state \in {"FREE", "LISTEN"} \/ ~Used(c.reader) THEN S
     ELSE IF c.rxq # << >>
     THEN IF Takes(S, c.reader)
          THEN [reply_read(S, i) EXCEPT !.conn[i] = conn_drop(@, n)]
          ELSE [S EXCEPT !.refused = TRUE]
     ELSE IF conn_eof(c) THEN reply_read(S, i) ELSE S

Unclaimed(S) ==
  {k \in Slots : /\ S.conn[k].state = "ESTABLISHED" /\ S.conn[k].inbound
                 /\ ~S.conn[k].accepted}

\* The first connection on the port that nobody was given, to the request that
\* waits at the listener; it is claimed once that request no longer waits.
WakeAcceptor(S, i) ==
  LET l == S.conn[i]
      k == CHOOSE k \in Unclaimed(S) : \A j \in Unclaimed(S) : k <= j
      T == ctl_answer(S, l.reader, "command")
      told == IF T.cl = S.cl THEN 0 ELSE 1
  IN IF l.state # "LISTEN" \/ ~Used(l.reader) \/ Unclaimed(S) = {} THEN S
     ELSE IF Used(Still(S, l.reader)) THEN [T EXCEPT !.refused = TRUE]
     ELSE [T EXCEPT !.conn[i].reader = Empty, !.conn[k].accepted = TRUE,
                    !.conn[k].told = @ + told]

\* `due`: the retry deadline has passed.
net_wakeups(S, due) ==
  LET conns[i \in 0 .. NTCB] ==
        IF i = 0 THEN S
        ELSE LET T == conns[i - 1] IN WakeReader(WakeOpener(T, i - 1), i - 1)
      accepts[i \in 0 .. NTCB] ==
        IF i = 0 THEN conns[NTCB]
        ELSE LET T == accepts[i - 1] IN WakeAcceptor(T, i - 1)
      done == accepts[NTCB]
  IN [done EXCEPT !.refused = FALSE,
                  !.retry = done.refused \/ (S.retry /\ ~due)]

-----------------------------------------------------------------------------
(* Clients that died, and connections that did.                            *)

Reclaimed(S, p) == IF Used(p) /\ ~sys_alive(S, p.task) THEN Empty ELSE p

\* Mutant: the connect of a dead client stays parked.
ReapedConnKeepsOpener(S, c) ==
  LET left == [c EXCEPT !.reader = Reclaimed(S, @),
                        !.refs = {r \in @ : sys_alive(S, r[1])}]
  IN IF c.state = "FREE" THEN c
     ELSE IF ref_count(c) > 0 /\ ref_count(left) = 0 THEN tcp_close(left) ELSE left

\* Mutant: the last holder is gone and nobody closes.
ReapedConnOpen(S, c) ==
  IF c.state = "FREE" THEN c
  ELSE [c EXCEPT !.reader = Reclaimed(S, @), !.opener = Reclaimed(S, @),
                 !.refs = {r \in @ : sys_alive(S, r[1])}]

ReapedConn(S, c) ==
  LET left == [c EXCEPT !.reader = Reclaimed(S, @), !.opener = Reclaimed(S, @),
                        !.refs = {r \in @ : sys_alive(S, r[1])}]
  IN IF c.state = "FREE" THEN c
     ELSE IF ref_count(c) > 0 /\ ref_count(left) = 0 THEN tcp_close(left) ELSE left

NoFile == [owner |-> Nobody, answer |-> NoAnswer]
reap_dead_clients(S) ==
  [S EXCEPT !.pfd = [i \in Files |->
                       IF S.pfd[i].owner # Nobody /\ ~sys_alive(S, S.pfd[i].owner)
                       THEN NoFile ELSE S.pfd[i]],
            !.conn = [i \in Slots |-> ReapedConn(S, S.conn[i])]]

\* Whoever waits is told once; the block is wiped whether or not they heard.
abort_waiters(S, i) ==
  LET p == S.conn[i].opener
      T == IF Used(p) THEN ctl_answer(S, p, "command") ELSE S
  IN IF Used(S.conn[i].reader) THEN reply_read(T, i) ELSE T
tcb_free(S, i) == [S EXCEPT !.conn[i] = FREE]
Dropped(S, i) == tcb_free(abort_waiters(S, i), i)

-----------------------------------------------------------------------------
(* Requests of clients.  A command that cannot be answered now is parked;  *)
(* one that is refused, a write and a report change nothing more than the  *)
(* reaping and the wake-ups that every request starts with.                *)

Becomes(S) ==
  \E T \in {S} :
    /\ conn' = T.conn /\ pfd' = T.pfd /\ cl' = T.cl /\ dns' = T.dns
    /\ retry' = T.retry /\ inputs' = T.inputs

Request(t, op(_)) ==
  /\ cl[t].phase = "idle"
  /\ \E due \in {FALSE, retry} :
       Becomes(op(net_wakeups(reap_dead_clients(Server), due)))

HasFile(t) == cl[t].file \in Files
Gives(t, command) == HasFile(t) /\ command \in Does[t]
\* The lowest free slot, or -1.
FreeSlot(S) ==
  LET free == {i \in Slots : S.conn[i].state = "FREE"}
  IN IF free = {} THEN -1 ELSE CHOOSE i \in free : \A j \in free : i <= j
New(S, i, c) == [S EXCEPT !.conn[i] = c, !.inputs = @ + 1]

OpenCtl(t) ==
  LET open(S) ==
        LET free == {i \in Files : S.pfd[i].owner = Nobody}
            i == CHOOSE i \in free : \A j \in free : i <= j
        IN IF free = {} THEN S
           ELSE [S EXCEPT !.pfd[i] = [owner |-> t, answer |-> NoAnswer],
                          !.cl[t].file = i]
  IN ~HasFile(t) /\ Request(t, open)

CloseCtl(t) ==
  LET close(S) == [S EXCEPT !.pfd[cl[t].file] = NoFile, !.cl[t].file = -1]
  IN HasFile(t) /\ Request(t, close)

\* A question in the air is busy, whoever asked.
resolve(t) ==
  LET ask(S) ==
        IF S.dns.at THEN Answer(S, t, cl[t].file, "resolve")
        ELSE Wait([S EXCEPT !.inputs = @ + 1, !.dns = [at |-> TRUE, tries |-> 0,
                                       waiter |-> Parked(t, cl[t].file, 0)]],
                  t, <<"dns", 0>>)
  IN Gives(t, "resolve") /\ inputs < MaxInputs /\ Request(t, ask)

\* Whoever asked for a connection holds it from the moment it exists.
connect(t) ==
  LET call(S) ==
        LET i == FreeSlot(S)
        IN IF i = -1 THEN Answer(S, t, cl[t].file, "command")
           ELSE Wait(New(S, i, tcb("SYN_SENT", FALSE, Held(t),
                                   Parked(t, cl[t].file, 0))), t, <<"opener", i>>)
  IN Gives(t, "connect") /\ inputs < MaxInputs /\ Request(t, call)

listen(t) ==
  LET open(S) ==
        LET i == FreeSlot(S)
            T == Answer(S, t, cl[t].file, "command")
        IN IF i = -1 THEN T
           ELSE New(T, i, tcb("LISTEN", FALSE, Held(t), Empty))
  IN Gives(t, "listen") /\ inputs < MaxInputs /\ Request(t, open)

\* Parked, then looked at: a connection may be there already.
accept(t, i) ==
  LET park(S) ==
        IF S.conn[i].state # "LISTEN" \/ Used(S.conn[i].reader)
        THEN Answer(S, t, cl[t].file, "command")
        ELSE net_wakeups(Wait([S EXCEPT !.conn[i].reader = Parked(t, cl[t].file, 0)],
                              t, <<"reader", i>>), FALSE)
  IN Gives(t, "accept") /\ Request(t, park)

close(t, i) ==
  LET shut(S) ==
        Answer([S EXCEPT !.conn[i] = tcp_close(@)], t, cl[t].file, "command")
  IN Gives(t, "close") /\ Request(t, shut)

\* /net/tcp/i: one more holder.
OpenConn(t, i) ==
  LET open(S) ==
        IF S.conn[i].state = "FREE" \/ ref_add(S.conn[i], t) = S.conn[i] THEN S
        ELSE [S EXCEPT !.conn[i] = ref_add(@, t), !.cl[t].fds = @ \cup {i},
                       !.inputs = @ + 1]
  IN i \notin cl[t].fds /\ inputs < MaxInputs /\ Request(t, open)

ReadConn(t, i, n) ==
  LET read(S) ==
        LET c == S.conn[i]
        IN IF c.state # "FREE" /\ c.rxq # << >>
           THEN [S EXCEPT !.conn[i] = conn_drop(@, Fewer(n, Len(c.rxq)))]
           ELSE IF c.state = "FREE" \/ conn_eof(c) \/ Used(c.reader) THEN S
           ELSE Wait([S EXCEPT !.conn[i].reader = Parked(t, -1, n)], t, <<"reader", i>>)
  IN i \in cl[t].fds /\ Request(t, read)

\* The last descriptor closes the connection.
Released(c, t) ==
  LET left == ref_drop(c, t)
  IN IF ref_count(left) = 0 THEN tcp_close(left) ELSE left
CloseConn(t, i) ==
  LET drop(S) ==
        [S EXCEPT !.conn[i] = IF @.state = "FREE" THEN @ ELSE Released(@, t),
                  !.cl[t].fds = @ \ {i}]
  IN i \in cl[t].fds /\ Request(t, drop)

\* The client goes on to sys_recv; a client is killed.
EnterRecv(t) ==
  /\ cl[t].phase = "sent"
  /\ cl' = [cl EXCEPT ![t].phase = "recv"]
  /\ UNCHANGED <<conn, pfd, dns, retry, inputs>>
Killed(t) ==
  /\ t \in Mortal /\ cl[t].phase # "dead"
  /\ cl' = [cl EXCEPT ![t] = [phase |-> "dead", file |-> -1, fds |-> {},
                              wants |-> Nothing]]
  /\ UNCHANGED <<conn, pfd, dns, retry, inputs>>

-----------------------------------------------------------------------------
(* Frames.  What a segment does to a connection, then the wake-ups.        *)

Segment(op(_)) ==
  /\ \E due \in {FALSE, retry} : Becomes(net_wakeups(op(Server), due))

Syn ==
  LET call(S) ==
        LET i == FreeSlot(S)
        IN IF i = -1 THEN S ELSE New(S, i, tcb("SYN_RCVD", TRUE, {}, Empty))
  IN /\ \E l \in Slots : conn[l].state = "LISTEN"
     /\ inputs < MaxInputs /\ Segment(call)

Established(i) ==
  LET up(S) == [S EXCEPT !.conn[i].state = "ESTABLISHED"]
  IN /\ conn[i].state \in Synchronizing
     /\ Segment(up)

Data(i) ==
  LET more(S) == [S EXCEPT !.inputs = @ + 1, !.conn[i].arrived = @ + 1,
                           !.conn[i].rxq = Append(@, S.conn[i].arrived + 1)]
  IN /\ conn[i].state \in {"ESTABLISHED", "FIN_WAIT"}
     /\ inputs < MaxInputs /\ Segment(more)

\* The peer has nothing more to say; if nobody holds the connection, nor do we.
Fin(i) ==
  LET c == conn[i]
      half == [c EXCEPT !.state = "CLOSE_WAIT"]
      to(state) == [c EXCEPT !.state = state]
      next(d) == LET put(S) == [S EXCEPT !.conn[i] = d] IN Segment(put)
  IN \/ c.state = "ESTABLISHED"
        /\ next(IF ref_count(c) = 0 THEN tcp_close(half) ELSE half)
     \/ c.state = "FIN_WAIT" /\ \E s \in {"CLOSING", "TIME_WAIT"} : next(to(s))

\* Our FIN was taken.
FinTaken(i) ==
  LET forget(S) == tcb_free(S, i)
      wait(S) == [S EXCEPT !.conn[i].state = "TIME_WAIT"]
  IN \/ conn[i].state = "LAST_ACK" /\ Segment(forget)
     \/ conn[i].state = "CLOSING" /\ Segment(wait)

Reset(i) ==
  LET drop(S) == Dropped(S, i)
  IN conn[i].state \notin {"FREE", "LISTEN"} /\ Segment(drop)

\* An answer to the question that was sent last; others are ignored.
dns_input ==
  LET p == dns.waiter
      S == [Server EXCEPT !.dns.at = FALSE]
      T == [ctl_answer(S, p, "resolve") EXCEPT !.dns.waiter = Still(S, p)]
  IN /\ dns.at
     /\ Becomes(IF Used(p) THEN T ELSE S)

-----------------------------------------------------------------------------
(* The clock.                                                              *)

\* Asks again, or says that there was no answer.
dns_retry(S) ==
  LET p == S.dns.waiter
      over == [S EXCEPT !.dns.at = FALSE]
      told == [ctl_answer(over, p, "resolve") EXCEPT !.dns.waiter = Still(S, p)]
  IN IF S.dns.tries + 1 < DNS_TRIES
     THEN [S EXCEPT !.dns.tries = @ + 1]
     ELSE IF Used(p) THEN told ELSE over

\* Connections with a deadline: something is not acknowledged, or TIME-WAIT.
Armed == {i \in Slots : conn[i].state \notin {"FREE", "LISTEN"}}

\* TIME-WAIT is over, or the retransmissions are.
Expired(S, i) ==
  IF S.conn[i].state = "FREE" THEN S
  ELSE IF S.conn[i].state = "TIME_WAIT" THEN tcb_free(S, i) ELSE Dropped(S, i)

\* Mutant: the clock does not offer refused replies again.
PassedSilent(dnsDue, due, gone) ==
  LET S == reap_dead_clients(Server)
      asked == IF dnsDue /\ S.dns.at THEN dns_retry(S) ELSE S
      each[i \in 0 .. NTCB] ==
        IF i = 0 THEN asked
        ELSE LET T == each[i - 1] IN IF i - 1 \in gone THEN Expired(T, i - 1) ELSE T
  IN each[NTCB]

\* `dnsDue`, `due`: the deadlines of the resolver and of refused replies have
\* passed; `gone`: those of connections for the last time.
Passed(dnsDue, due, gone) ==
  LET S == net_wakeups(reap_dead_clients(Server), due)
      asked == IF dnsDue /\ S.dns.at THEN dns_retry(S) ELSE S
      each[i \in 0 .. NTCB] ==
        IF i = 0 THEN asked
        ELSE LET T == each[i - 1] IN IF i - 1 \in gone THEN Expired(T, i - 1) ELSE T
  IN each[NTCB]

net_timeout(dnsDue, due, gone) ==
  /\ dnsDue => dns.at
  /\ due => retry
  /\ dns.at \/ retry \/ Armed # {}
  /\ Becomes(Passed(dnsDue, due, gone))

-----------------------------------------------------------------------------
Init ==
  /\ conn = [i \in Slots |-> FREE]
  /\ pfd = [i \in Files |-> NoFile]
  /\ cl = [t \in Clients |-> [phase |-> "idle", file |-> -1, fds |-> {},
                              wants |-> Nothing]]
  /\ dns = [at |-> FALSE, tries |-> 0, waiter |-> Empty]
  /\ retry = FALSE
  /\ inputs = 0

Client(t) ==
  \/ OpenCtl(t) \/ CloseCtl(t) \/ resolve(t) \/ connect(t) \/ listen(t)
  \/ \E i \in Slots :
       \/ accept(t, i) \/ close(t, i) \/ OpenConn(t, i) \/ CloseConn(t, i)
       \/ \E n \in Lens : ReadConn(t, i, n)
  \/ EnterRecv(t) \/ Killed(t)

Network ==
  \/ Syn
  \/ \E i \in Slots : Established(i) \/ Data(i) \/ Fin(i) \/ FinTaken(i) \/ Reset(i)
  \/ dns_input

Clock ==
  \E dnsDue, due \in BOOLEAN, gone \in SUBSET Armed : net_timeout(dnsDue, due, gone)

Next == (\E t \in Clients : Client(t)) \/ Network \/ Clock

\* The clock goes on: a deadline that stays armed passes, at some time by itself,
\* if that makes a difference.  A client that has sent reaches its sys_recv.
Fairness ==
  /\ \/ []<>(~retry \/ Passed(FALSE, TRUE, {}) = Server)
     \/ []<><<net_timeout(FALSE, TRUE, {})>>_vars
  /\ \/ []<>(~dns.at \/ Passed(TRUE, FALSE, {}) = Server)
     \/ []<><<net_timeout(TRUE, FALSE, {})>>_vars
  /\ \A t \in Clients : []<>(cl[t].phase # "sent")

Spec == Init /\ [][Next]_vars /\ Fairness

-----------------------------------------------------------------------------
(* Properties.                                                             *)

TypeOK ==
  /\ \A i \in Slots :
       /\ conn[i].state \in {"FREE", "LISTEN", "SYN_SENT", "SYN_RCVD", "ESTABLISHED",
                             "FIN_WAIT", "CLOSING", "TIME_WAIT", "CLOSE_WAIT", "LAST_ACK"}
       /\ conn[i].refs \subseteq Clients \X (1 .. NREF) /\ ref_count(conn[i]) <= NREF
       /\ conn[i].reader.task \in Clients \cup {Nobody}
       /\ conn[i].opener.task \in Clients \cup {Nobody}
  /\ \A i \in Files : pfd[i].owner \in Clients \cup {Nobody}
  /\ \A t \in Clients : /\ cl[t].phase \in {"idle", "sent", "recv", "dead"}
                        /\ cl[t].file \in Files \cup {-1}
                        /\ cl[t].fds \subseteq Slots
  /\ dns.tries \in 0 .. DNS_TRIES - 1
  /\ retry \in BOOLEAN
  /\ inputs \in 0 .. MaxInputs

\* What arrives is handed on once: readers get the bytes of a connection in order,
\* and those they got and those in the queue are all that came, however often a
\* reply was refused (net_wakeups and conn_drop); and no connection is given to
\* two accepts (the accept loop of net_wakeups).
DeliveredOnce ==
  \A i \in Slots :
    /\ conn[i].rxq = [k \in 1 .. conn[i].arrived - conn[i].given |-> conn[i].given + k]
    /\ conn[i].told <= 1 /\ (conn[i].told = 1 => conn[i].accepted)

\* Answers reach those who asked.  A parked request is that of a client that
\* waits for exactly this answer, or of a dead one (struct parked).  What a client
\* finds in its control file answers a command of its own, also when the file was
\* another's before and that client died while it was connecting or accepting
\* (reap_dead_clients).  The resolver's answers are the exception: its waiter is
\* not reclaimed.
AnswerIsOwn ==
  LET waits(p, what) ==
        Used(p) => cl[p.task].phase = "dead" \/ cl[p.task].wants = what
  IN /\ \A i \in Slots : /\ waits(conn[i].reader, <<"reader", i>>)
                         /\ waits(conn[i].opener, <<"opener", i>>)
     /\ waits(dns.waiter, <<"dns", 0>>)
     /\ \A i \in Files :
          LET f == pfd[i]
          IN f.owner # Nobody /\ f.answer.about \notin {"none", "resolve"}
               => f.answer.to = f.owner

\* A connection that was placed from here, one whose peer has closed and a port
\* that is listened on have a holder: when the last one closes or is found dead
\* the connection is closed (CLOSE, FIN and reap_dead_clients).
NoOrphan ==
  \A i \in Slots :
    LET c == conn[i]
    IN \/ c.state \in {"LISTEN", "SYN_SENT", "CLOSE_WAIT"}
       \/ c.state = "ESTABLISHED" /\ ~c.inbound
       => ref_count(c) > 0

\* A client whose read has bytes waiting gets them, however often it was too busy
\* (retry_at and net_timeout).
Offered(t) ==
  \E i \in Slots : /\ conn[i].state # "LISTEN" /\ conn[i].reader.task = t
                   /\ conn[i].rxq # << >>
ReaderServed == \A t \in Clients : Offered(t) ~> ~Offered(t)

=============================================================================
