------------------------------- MODULE Remote -------------------------------
(***************************************************************************)
(* A namespace over a wire: prog/import.c, a server whose clients' calls go *)
(* down a connection, prog/exportfs.c, which performs them in its own       *)
(* namespace, and the messages of src/fsproto.h between them.               *)
(*                                                                          *)
(* The connection is two streams of units with small buffers; the network   *)
(* server is modelled from how the two programs use it.  A message is one   *)
(* unit of header and one for a path or for data; "open" stands for create, *)
(* too, and "read" for ioctl.  `id` names the call a message is about: no   *)
(* program looks at it, properties do.                                      *)
(*                                                                          *)
(* Each turn of import's loop is one step: a message received and all that  *)
(* is done about it.  exportfs is sequential: it reads, serves a message,   *)
(* writes the answer piece by piece, and so on.                             *)
(***************************************************************************)
EXTENDS Integers, Sequences, FiniteSets

CONSTANTS
  Clients,
  None,
  NPEND,            \* calls import keeps in flight
  OUTQ,             \* units import's queue holds
  VFS_DATA_MAX,     \* units a read or write of the connection moves
  NETBUF,           \* units each direction of the connection holds
  NFD,              \* exportfs: open files
  TAGS,             \* bound: tags before they repeat
  MaxCalls,         \* bound: calls made
  MaxFaults         \* bound: times the connection breaks or a client is killed

VARIABLES
  imp,      \* import
  exp,      \* exportfs
  net,      \* the connection: state, up (to exportfs) and down (to import)
  cl,       \* clients: their call and how it ended, the handle they hold
  served,   \* history: how often each call was performed
  n         \* counters for the bounds

vars == <<imp, exp, net, cl, served, n>>

Slots == 1 .. NPEND
Handles == 1 .. NFD

Ops == {"open", "read", "write", "close"}
Calls == [tag : Nat, client : Clients \cup {None}, op : Ops]

\* The sizes are numbers, and no client and no call is None.  Tags are 16 bits
\* wide: within the calls a behaviour makes they do not come round again.
ASSUME RemoteAssumption ==
  /\ IsFiniteSet(Clients) /\ None \notin Clients /\ None \notin Calls
  /\ {NPEND, OUTQ, VFS_DATA_MAX, NETBUF, NFD, TAGS, MaxCalls, MaxFaults} \subseteq Nat
  /\ MaxCalls < TAGS

\* fsproto.h.  What a message takes on the wire, unit by unit.
HasBody(m) ==
  \/ m.kind = "request" /\ m.op \in {"open", "write"}
  \/ m.kind = "reply" /\ m.op = "read" /\ m.result # -1
fs_size(m) == IF HasBody(m) THEN 2 ELSE 1
fs_encode(m) == [i \in 1 .. fs_size(m) |-> [m |-> m, i |-> i]]

\* Units consumed: 0 if the message is not whole yet, -1 if this is not one.
fs_decode(in) ==
  IF in = <<>> THEN 0
  ELSE IF in[1].i # 1 THEN -1
  ELSE IF Len(in) < fs_size(in[1].m) THEN 0
  ELSE IF SubSeq(in, 1, fs_size(in[1].m)) = fs_encode(in[1].m) THEN fs_size(in[1].m)
  ELSE -1

Drop(s, k) == SubSeq(s, k + 1, Len(s))
Least2(a, b) == IF a < b THEN a ELSE b

-----------------------------------------------------------------------------
NewImport == [alive |-> TRUE, outq |-> <<>>, busy |-> 0, in |-> <<>>,
              pend |-> [s \in Slots |-> None], tag |-> 0]
NewConn == [up |-> TRUE, there |-> <<>>, back |-> <<>>]
AllClosed == [h \in Handles |-> 0]

Init ==
  /\ imp = NewImport
  /\ exp = [ph |-> "read", in |-> <<>>, out |-> <<>>, tab |-> AllClosed]
  /\ net = NewConn
  /\ cl = [c \in Clients |-> [ph |-> "run", op |-> "none", id |-> 0, got |-> 0, holds |-> 0,
                              file |-> 0]]
  /\ served = [i \in 1 .. MaxCalls |-> 0]
  /\ n = [calls |-> 0, faults |-> 0]

-----------------------------------------------------------------------------
\* Clients.

\* The call is sent: until import receives it the client is in import's queue.
Call(c, op) ==
  /\ imp.alive
  /\ cl[c].ph = "run"
  /\ n.calls < MaxCalls
  /\ (op = "open") = (cl[c].holds = 0)
  /\ n' = [n EXCEPT !.calls = @ + 1]
  /\ cl' = [cl EXCEPT ![c].ph = "sending", ![c].op = op, ![c].id = n.calls + 1, ![c].got = 0]
  /\ UNCHANGED <<imp, exp, net, served>>

\* What a client makes of the answer to its call.
Answered(k, result, id) ==
  [k EXCEPT !.ph = "run", !.got = id,
            !.holds = IF k.op = "open" /\ result # -1 THEN result
                      ELSE IF k.op = "close" THEN 0 ELSE @,
            !.file = IF k.op = "open" THEN k.id ELSE @]

\* A client is killed, and another program takes its place.
Dies(c) ==
  /\ n.faults < MaxFaults
  /\ n' = [n EXCEPT !.faults = @ + 1]
  /\ cl' = [cl EXCEPT ![c] = [ph |-> "run", op |-> "none", id |-> 0, got |-> 0, holds |-> 0,
                              file |-> 0]]
  /\ imp' = [imp EXCEPT !.pend = [s \in Slots |-> IF @[s] # None /\ @[s].client = c
                                                  THEN [@[s] EXCEPT !.client = None] ELSE @[s]]]
  /\ UNCHANGED <<exp, net, served>>

-----------------------------------------------------------------------------
\* import.

\* A write of the connection is in flight; `busy` is how many units it offers.
kick_write(I) ==
  IF I.busy # 0 \/ I.outq = <<>> THEN I
  ELSE [I EXCEPT !.busy = Least2(Len(I.outq), VFS_DATA_MAX)]

write_done(I, k) == [I EXCEPT !.busy = 0, !.outq = Drop(@, k)]

queue(I, m) ==
  IF Len(I.outq) + fs_size(m) > OUTQ THEN [ok |-> FALSE, I |-> I]
  ELSE [ok |-> TRUE, I |-> kick_write([I EXCEPT !.outq = @ \o fs_encode(m)])]

FreeSlots(I) == {s \in Slots : I.pend[s] = None}
FirstFree(I) == CHOOSE s \in FreeSlots(I) : \A o \in FreeSlots(I) : s <= o

\* A client's call: forwarded and remembered, or refused.  A tag is used up
\* even if there is no room.
Forward(c, Q, s, tag) ==
  /\ imp' = IF Q.ok THEN [Q.I EXCEPT !.tag = tag,
                                     !.pend[s] = [tag |-> tag, client |-> c, op |-> cl[c].op]]
            ELSE [Q.I EXCEPT !.tag = tag]
  /\ cl' = IF Q.ok THEN [cl EXCEPT ![c].ph = "waiting"]
           ELSE [cl EXCEPT ![c] = Answered(@, -1, 0)]

from_client(c) ==
  /\ imp.alive
  /\ cl[c].ph = "sending"
  /\ IF FreeSlots(imp) = {}
     THEN /\ cl' = [cl EXCEPT ![c] = Answered(@, -1, 0)]
          /\ UNCHANGED imp
     ELSE LET tag == (imp.tag + 1) % TAGS
          IN Forward(c, queue(imp, [kind |-> "request", tag |-> tag, op |-> cl[c].op,
                                    h |-> cl[c].holds, result |-> -1, id |-> cl[c].id]),
                     FirstFree(imp), tag)
  /\ UNCHANGED <<exp, net, served, n>>

\* The network server has taken what fits of the write.  If nothing fits, the
\* same bytes are offered again: nothing changes.
WriteReply ==
  /\ imp.alive /\ imp.busy # 0
  /\ net.up /\ Len(net.there) < NETBUF
  /\ LET k == Least2(imp.busy, NETBUF - Len(net.there))
     IN /\ net' = [net EXCEPT !.there = @ \o SubSeq(imp.outq, 1, k)]
        /\ LET I == write_done(imp, k) IN imp' = kick_write(I)
  /\ UNCHANGED <<exp, cl, served, n>>

\* Mutant: the first call in flight gets the answer.
WhoseAny(I, m) == {s \in Slots : I.pend[s] # None}
Whose(I, m) == {s \in Slots : I.pend[s] # None /\ I.pend[s].tag = m.tag}

\* One reply: find whose it was and hand it over.  A dead client is not there,
\* and a tag nobody waits for is dropped.
from_wire(S, m) ==
  LET whose == Whose(S.I, m)
      s == CHOOSE x \in whose : \A o \in whose : x <= o
      c == S.I.pend[s].client
  IN IF whose = {} THEN S
     ELSE [I |-> [S.I EXCEPT !.pend[s] = None],
           cl |-> IF c = None THEN S.cl
                  ELSE [S.cl EXCEPT ![c] = Answered(@, m.result, m.id)]]

\* Every whole message in the buffer; `bad` if what is there is not one.
drain_in(I, k) ==
  LET after[i \in 0 .. Len(I.in)] ==
        IF i = 0 THEN [I |-> I, cl |-> k, bad |-> FALSE]
        ELSE LET P == after[i - 1]
                 used == fs_decode(P.I.in)
             IN IF used = 0 \/ P.bad THEN P
                ELSE IF used = -1 THEN [P EXCEPT !.bad = TRUE]
                ELSE LET F == from_wire([I |-> [P.I EXCEPT !.in = Drop(@, used)], cl |-> P.cl],
                                        P.I.in[1].m)
                     IN [I |-> F.I, cl |-> F.cl, bad |-> FALSE]
  IN after[Len(I.in)]

\* Mutant: those who wait are not told.
StoppedSilent(I, k) ==
  [c \in Clients |-> IF k[c].ph = "sending" THEN [Answered(k[c], -1, 0) EXCEPT !.holds = 0]
                     ELSE [k[c] EXCEPT !.holds = 0]]

\* The end of import: those in `pend` get an error, those in its queue one from
\* the kernel, and descriptors on it are worth nothing any more.
Stopped(I, k) ==
  [c \in Clients |->
     IF k[c].ph = "sending" \/ \E s \in Slots : I.pend[s] # None /\ I.pend[s].client = c
     THEN [Answered(k[c], -1, 0) EXCEPT !.holds = 0]
     ELSE [k[c] EXCEPT !.holds = 0]]

HungUp(C) == [C EXCEPT !.up = FALSE, !.back = <<>>]

\* The posted read is answered with what has come in, or with the hang-up.
ReadReply(k) ==
  /\ imp.alive
  /\ k <= Len(net.back)
  /\ LET D == drain_in([imp EXCEPT !.in = @ \o SubSeq(net.back, 1, k)], cl)
     IN /\ imp' = IF D.bad THEN [NewImport EXCEPT !.alive = FALSE] ELSE D.I
        /\ cl' = IF D.bad THEN Stopped(D.I, D.cl) ELSE D.cl
        /\ net' = IF D.bad THEN HungUp(net) ELSE [net EXCEPT !.back = Drop(@, k)]
  /\ UNCHANGED <<exp, served, n>>

ReadEnds ==
  /\ imp.alive
  /\ ~net.up
  /\ imp' = [NewImport EXCEPT !.alive = FALSE]
  /\ cl' = Stopped(imp, cl)
  /\ net' = HungUp(net)
  /\ UNCHANGED <<exp, served, n>>

-----------------------------------------------------------------------------
\* exportfs.

Turn(E) == IF E.out # <<>> THEN "write" ELSE IF fs_decode(E.in) = 0 THEN "read" ELSE "serve"

ExportReads(k) ==
  /\ exp.ph = "read"
  /\ k <= Len(net.there)
  /\ net' = [net EXCEPT !.there = Drop(@, k)]
  /\ LET E == [exp EXCEPT !.in = @ \o SubSeq(net.there, 1, k)]
     IN exp' = [E EXCEPT !.ph = Turn(E)]
  /\ UNCHANGED <<imp, cl, served, n>>

\* Mutant: a slot is taken without looking if it is free.
tab_allocAny(tab) == {1}
tab_alloc(tab) == {h \in Handles : tab[h] = 0 /\ \A o \in 1 .. h - 1 : tab[o] # 0}

\* One request, performed; a name may not be there (`found`).  An open handle
\* holds the id of the call that opened it.
OpenedAs(E, m, free) ==
  IF free = {} THEN [E |-> E, result |-> -1]
  ELSE LET h == CHOOSE h \in free : TRUE
       IN [E |-> [E EXCEPT !.tab[h] = m.id], result |-> h]
serve(E, m, found) ==
  CASE m.op = "open" -> IF found THEN OpenedAs(E, m, tab_alloc(E.tab))
                        ELSE [E |-> E, result |-> -1]
    [] m.op \in {"read", "write"} ->
         [E |-> E, result |-> IF m.h \in Handles /\ E.tab[m.h] # 0 THEN 0 ELSE -1]
    [] m.op = "close" ->
         IF m.h \in Handles /\ E.tab[m.h] # 0
         THEN [E |-> [E EXCEPT !.tab[m.h] = 0], result |-> 0]
         ELSE [E |-> E, result |-> -1]

Consumed(E, used) == [E EXCEPT !.in = Drop(@, used)]

ExportServes(found) ==
  /\ exp.ph = "serve" /\ fs_decode(exp.in) > 0
  /\ LET m == exp.in[1].m
         R == serve(Consumed(exp, fs_decode(exp.in)), m, found)
     IN /\ exp' = [R.E EXCEPT !.ph = "write",
                              !.out = fs_encode([m EXCEPT !.kind = "reply", !.result = R.result])]
        /\ served' = [served EXCEPT ![m.id] = @ + 1]
  /\ UNCHANGED <<imp, net, cl, n>>

\* wr_all: what fits, and again.
ExportWrites ==
  /\ exp.ph = "write" /\ net.up /\ Len(net.back) < NETBUF
  /\ LET k == Least2(Len(exp.out), NETBUF - Len(net.back))
         E == [exp EXCEPT !.out = Drop(@, k)]
     IN /\ net' = [net EXCEPT !.back = @ \o SubSeq(exp.out, 1, k)]
        /\ exp' = [E EXCEPT !.ph = Turn(E)]
  /\ UNCHANGED <<imp, cl, served, n>>

\* The client is gone, seen by a read or by a write, or sent what is no message:
\* its files are closed, and the next one is accepted.
ExportEnds ==
  /\ exp.ph # "accept"
  /\ IF exp.ph = "serve" THEN fs_decode(exp.in) = -1 ELSE ~net.up
  /\ exp' = [ph |-> "accept", in |-> <<>>, out |-> <<>>, tab |-> AllClosed]
  /\ net' = [net EXCEPT !.up = FALSE, !.there = <<>>]
  /\ UNCHANGED <<imp, cl, served, n>>

\* A new import connects and is mounted.
Reconnects ==
  /\ ~imp.alive /\ exp.ph = "accept"
  /\ imp' = NewImport /\ net' = NewConn
  /\ exp' = [exp EXCEPT !.ph = "read"]
  /\ UNCHANGED <<cl, served, n>>

Breaks ==
  /\ net.up
  /\ n.faults < MaxFaults
  /\ n' = [n EXCEPT !.faults = @ + 1]
  /\ net' = [net EXCEPT !.up = FALSE]
  /\ UNCHANGED <<imp, exp, cl, served>>

-----------------------------------------------------------------------------
Pieces == 1 .. VFS_DATA_MAX

ImportReads == ReadEnds \/ \E k \in Pieces : ReadReply(k)
Export ==
  \/ \E k \in Pieces : ExportReads(k)
  \/ \E found \in BOOLEAN : ExportServes(found)
  \/ ExportWrites \/ ExportEnds

Next ==
  \/ \E c \in Clients :
       \/ \E op \in Ops : Call(c, op)
       \/ from_client(c)
       \/ Dies(c)
  \/ WriteReply \/ ImportReads \/ Export
  \/ Reconnects \/ Breaks

\* Weak fairness is written out: all steps of these actions change the state, and
\* the predicates say when there is one.
WriteCan == imp.alive /\ imp.busy # 0 /\ net.up /\ Len(net.there) < NETBUF
ReadCan == imp.alive /\ (net.back # <<>> \/ ~net.up)
ExportCan ==
  CASE exp.ph = "read" -> net.there # <<>> \/ ~net.up
    [] exp.ph = "serve" -> TRUE
    [] exp.ph = "write" -> Len(net.back) < NETBUF \/ ~net.up
    [] exp.ph = "accept" -> FALSE

\* Both programs and the network server go on; nobody has to call, and the
\* connection need not break or come back.
Fairness ==
  /\ \A c \in Clients :
       []<>~(imp.alive /\ cl[c].ph = "sending") \/ []<><<from_client(c)>>_vars
  /\ []<>~WriteCan \/ []<><<WriteReply>>_vars
  /\ []<>~ReadCan \/ []<><<ImportReads>>_vars
  /\ []<>~ExportCan \/ []<><<Export>>_vars

Spec == Init /\ [][Next]_vars /\ Fairness

-----------------------------------------------------------------------------
\* What the buffers hold, and that none is overrun.
TypeOK ==
  /\ Len(imp.outq) <= OUTQ /\ imp.busy <= Len(imp.outq)
  /\ Len(net.there) <= NETBUF /\ Len(net.back) <= NETBUF
  /\ Len(imp.in) < 2 /\ Len(exp.in) <= 1 + VFS_DATA_MAX
  /\ \A c \in Clients : cl[c].holds \in 0 .. NFD

\* "Find whose it was and hand it over" (from_wire): a client gets the answer to
\* the call it is in, never that of another client or of an earlier call, also
\* when clients are killed and slots and tags are used again; and a call is
\* performed at most once, and exactly once if the far end answered it.
AnswerIsOwn ==
  /\ \A c \in Clients : cl[c].got \in {0, cl[c].id}
  /\ \A i \in 1 .. MaxCalls : served[i] <= 1
  /\ \A c \in Clients : cl[c].got # 0 => served[cl[c].got] = 1

\* A handle a client holds names the file its own open opened, until it closes
\* it or the connection is gone.
HandleIsTheirs ==
  \A c \in Clients :
    (net.up /\ imp.alive /\ cl[c].holds # 0 /\ ~(cl[c].op = "close" /\ cl[c].ph = "waiting"))
       => exp.tab[cl[c].holds] = cl[c].file

\* "Whoever is still waiting gets an error rather than silence" (import): a call
\* ends, with its answer or with an error.
EveryCallEnds == \A c \in Clients : (cl[c].ph # "run") ~> (cl[c].ph = "run")

=============================================================================
