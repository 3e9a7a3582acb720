------------------------------ MODULE Terminal ------------------------------
(***************************************************************************)
(* A terminal, from the key to the program that reads a line: the console   *)
(* server of src/srv_console.c (a ring filled by interrupts, one parked     *)
(* reader), the line discipline of src/srv_tty.c (a thread per line that    *)
(* blocks on the device and edits, a main loop that answers parked readers) *)
(* and their clients.                                                       *)
(*                                                                          *)
(* One line slot.  A call of the console is one step unless it is parked;   *)
(* what is done under tty_lock is one step; a handler of the main loop is   *)
(* one step.  Between its request and its sys_recv a client is "sent" and   *)
(* cannot be answered by sys_trysend.  A byte is a name of what it is.      *)
(***************************************************************************)
EXTENDS Integers, Sequences

CONSTANTS
  Shell, Child,     \* programs that read the terminal; Child may be killed
  Nobody,
  Keys,             \* bytes that can be typed
  Scripts,          \* bound: sequences of them, one of which is typed, or its beginning
  FIFO,             \* bound: bytes typed before the interrupt is taken
  RING,             \* console: one more than the script the ring holds
  TTY_LINE,         \* one more than the bytes of a line being typed
  TTY_QUEUE,        \* bytes finished and not yet read
  Lens,             \* lengths clients ask for
  Threads,          \* bound: 1 .. lines made in the life of the server; 1 is there at first
  Patient,          \* a slot is used again only after its old thread has exited
  MaxMoves          \* bound: events other than typing

Programs == {Shell, Child}

ASSUME TerminalAssumption ==
  /\ Shell # Child /\ Nobody \notin Programs \cup Threads /\ Programs \cap Threads = {}
  /\ Threads \subseteq Nat \ {0} /\ 1 \in Threads /\ Patient \in BOOLEAN
  /\ Scripts \subseteq Seq(Keys) /\ Lens \subseteq Nat \ {0}
  /\ RING \in Nat \ {0} /\ TTY_LINE \in Nat \ {0} /\ TTY_QUEUE \in Nat \ {0}
  /\ FIFO \in Nat /\ MaxMoves \in Nat

VARIABLES
  fifo,     \* bytes in the UART, for which an interrupt is pending
  con,      \* console_server: ring, waiter, intr_task, intr_fired
  line,     \* lines[0]
  th,       \* the reader threads
  cl,       \* clients: "run", "sent", "recv", or "keyboard": in the console's keeping
  gone,     \* the console server has ended: calls to it fail
  alive,
  script,   \* what is still to be typed
  moves,
  meant,    \* history: what was typed means, as a reader of the line reads it:
            \* the line so far, what is due to readers, and where in a telnet
            \* command or a CR pair it is
  lossy     \* history: something was dropped: by a full queue, by a refused
            \* answer, or by a thread that ended without a word

vars == <<fifo, con, line, th, cl, alive, gone, script, moves, meant, lossy>>

NoLine ==
  [used |-> FALSE, owner |-> Nobody, raw |-> FALSE, dead |-> FALSE, buf |-> <<>>, q |-> <<>>,
   waiter |-> Nobody, want |-> 0, intr |-> Nobody, fired |-> FALSE,
   tstate |-> "data", cr |-> FALSE, thread |-> 0]

NothingMeant == [t |-> "data", cr |-> FALSE, line |-> <<>>, due |-> <<>>]

\* The console's line has been made.
Init ==
  /\ fifo = <<>>
  /\ con = [ring |-> <<>>, waiter |-> Nobody, intr |-> Nobody, fired |-> FALSE]
  /\ line = [NoLine EXCEPT !.used = TRUE, !.owner = Shell, !.thread = 1]
  /\ th = [i \in Threads |-> [pc |-> IF i = 1 THEN "read" ELSE "none", byte |-> "none",
                             done |-> FALSE]]
  /\ cl = [p \in Programs |-> "run"]
  /\ alive = Programs /\ gone = FALSE
  /\ script \in Scripts /\ moves = 0
  /\ meant = NothingMeant /\ lossy = FALSE

Moves == moves < MaxMoves /\ moves' = moves + 1
Runs(p) == p \in alive /\ cl[p] = "run"
Exists(x) == x \in alive \/ (x \in Threads /\ th[x].pc \notin {"none", "exited"})

-----------------------------------------------------------------------------
\* The console server.

Type ==
  /\ script # <<>> /\ ~gone /\ Len(fifo) < FIFO
  /\ script' = Tail(script)
  /\ fifo' = Append(fifo, Head(script))
  /\ UNCHANGED <<con, line, th, cl, alive, gone, moves, meant, lossy>>

ring_put(K, c) == IF Len(K.ring) = RING - 1 THEN K ELSE [K EXCEPT !.ring = Append(@, c)]

\* One byte drained: the interrupt character kills whoever is nominated.
Drained(K, c) ==
  IF c = "intr" /\ K.intr # Nobody
  THEN [K EXCEPT !.intr = Nobody, !.fired = TRUE, !.kills = @ \cup {K.intr}]
  ELSE ring_put(K, c)

Drain(K, bytes) ==
  LET after[i \in 0 .. Len(bytes)] ==
        IF i = 0 THEN K ELSE LET P == after[i - 1] IN Drained(P, bytes[i])
  IN after[Len(bytes)]

\* A byte reaches whoever reads the console: a thread of the tty, or a program.
Handed(x, c) ==
  /\ th' = IF x \in Threads THEN [th EXCEPT ![x].pc = "has", ![x].byte = c] ELSE th
  /\ cl' = IF x \in Programs THEN [cl EXCEPT ![x] = "run"] ELSE cl

\* The interrupt: everything in the UART goes to the ring, and one key to the
\* parked reader if it is still there.
ConsoleIrq ==
  /\ fifo # <<>> /\ ~gone
  /\ LET K == Drain([ring |-> con.ring, intr |-> con.intr, fired |-> con.fired,
                     kills |-> {}], fifo)
         still == con.waiter \in alive \ K.kills \/ (con.waiter \in Threads /\ Exists(con.waiter))
         w == IF still THEN con.waiter ELSE Nobody
         gives == w # Nobody /\ K.ring # <<>>
     IN /\ alive' = alive \ K.kills
        /\ con' = [ring |-> IF gives THEN Tail(K.ring) ELSE K.ring,
                   waiter |-> IF gives THEN Nobody ELSE w,
                   intr |-> K.intr, fired |-> K.fired]
        /\ IF gives THEN Handed(w, Head(K.ring)) ELSE UNCHANGED <<th, cl>>
  /\ fifo' = <<>>
  /\ UNCHANGED <<line, gone, script, moves, meant, lossy>>

\* VFS_READ at the console by x: a key, or the request is kept, or 0.
ConsoleGives(x) ==
  /\ con.ring # <<>>
  /\ con' = [con EXCEPT !.ring = Tail(@)]
  /\ Handed(x, Head(con.ring))
ConsoleKeeps(x) ==
  /\ con.ring = <<>>
  /\ ~Exists(con.waiter)
  /\ con' = [con EXCEPT !.waiter = x]
  /\ th' = IF x \in Threads THEN [th EXCEPT ![x].pc = "parked"] ELSE th
  /\ cl' = IF x \in Programs THEN [cl EXCEPT ![x] = "keyboard"] ELSE cl
ConsoleTellsZero(x) ==
  /\ con.ring = <<>>
  /\ Exists(con.waiter)
  /\ th' = IF x \in Threads THEN [th EXCEPT ![x].pc = "eof"] ELSE th
  /\ UNCHANGED <<con, cl>>
\* Mutant: a failed call is made again and again.
ConsoleFailsRetry(x) == UNCHANGED <<con, th, cl>>

ConsoleFails(x) ==
  /\ th' = IF x \in Threads THEN [th EXCEPT ![x].pc = "eof"] ELSE th
  /\ UNCHANGED <<con, cl>>
ConsoleRead(x) ==
  IF gone THEN ConsoleFails(x)
  ELSE ConsoleGives(x) \/ ConsoleKeeps(x) \/ ConsoleTellsZero(x)

\* A program that has the device bound to its console reads it directly.
DirectRead(p) ==
  /\ Moves
  /\ Runs(p)
  /\ ConsoleRead(p)
  /\ UNCHANGED <<fifo, line, alive, gone, script, meant, lossy>>

\* IOCTL_INTR at the console: nominate, or take back and learn if it fired.
ConsoleIntr(p, whom) ==
  /\ Moves
  /\ Runs(p)
  /\ con' = [con EXCEPT !.intr = whom, !.fired = FALSE]
  /\ UNCHANGED <<fifo, line, th, cl, alive, gone, script, meant, lossy>>

-----------------------------------------------------------------------------
\* The discipline: R.L is the line, R.wake says something became readable,
\* R.kills who was killed and R.lossy that the queue was full.

q_put(R, bytes) ==
  LET room == TTY_QUEUE - Len(R.L.q)
      n == IF Len(bytes) > room THEN room ELSE Len(bytes)
  IN [R EXCEPT !.L.q = @ \o SubSeq(bytes, 1, n), !.lossy = @ \/ n < Len(bytes)]

\* dev_write: a device that is gone makes the line a dead one.
echo(R) == [R EXCEPT !.L.dead = @ \/ gone]

line_done(R) ==
  echo([q_put(q_put(R, R.L.buf), <<"nl">>) EXCEPT !.L.buf = <<>>, !.wake = TRUE])

\* The longest beginning of a line that does not end in one of `these`.
CutBack(buf, these) ==
  LET ends == {k \in 0 .. Len(buf) : k > 0 => buf[k] \notin these}
  IN SubSeq(buf, 1, CHOOSE k \in ends : \A o \in ends : o <= k)

Bytes == Keys \cup {"nl"}
LastWordCut(buf) == CutBack(CutBack(buf, {"space"}), Bytes \ {"space"})

\* Every character erased is unprinted.
ErasedTo(R, buf) == IF buf = R.L.buf THEN R ELSE echo([R EXCEPT !.L.buf = buf])
erase_one(R) == ErasedTo(R, SubSeq(R.L.buf, 1, Len(R.L.buf) - 1))
erase_word(R) == ErasedTo(R, LastWordCut(R.L.buf))

\* ^C with somebody nominated, in both modes.
Interrupted(R) ==
  echo([R EXCEPT !.kills = {R.L.intr}, !.L.intr = Nobody, !.L.fired = TRUE,
                 !.L.buf = <<>>])

\* One press of Enter is one byte, even if the device sent CR NUL or CR LF.
RawByte(R, c) ==
  IF R.L.cr /\ c \in {"nul", "lf"} THEN [R EXCEPT !.L.cr = FALSE]
  ELSE [q_put(R, <<c>>) EXCEPT !.L.cr = (c = "cr"), !.wake = TRUE]

CookedByte(R, c) ==
  CASE c \in {"cr", "lf"} -> line_done(R)
    [] c = "nul" -> R
    [] c = "intr" -> echo([R EXCEPT !.L.buf = <<>>])
    [] c = "kill" -> ErasedTo(R, <<>>)
    [] c = "eof" -> IF R.L.buf # <<>>
                    THEN [q_put(R, R.L.buf) EXCEPT !.L.buf = <<>>, !.wake = TRUE]
                    ELSE [R EXCEPT !.L.dead = TRUE, !.wake = TRUE]
    [] c = "bs" -> erase_one(R)
    [] c = "word" -> erase_word(R)
    [] OTHER -> IF Len(R.L.buf) < TTY_LINE - 1
                THEN echo([R EXCEPT !.L.buf = Append(@, c)]) ELSE R

DataByte(R, c) ==
  IF c = "intr" /\ R.L.intr # Nobody THEN Interrupted(R)
  ELSE IF R.L.raw THEN RawByte(R, c) ELSE CookedByte(R, c)

\* Mutant: what follows an escaped IAC is taken for its command as well.
feed_byteStays(R, c) ==
  CASE R.L.tstate = "iac" /\ c = "iac" -> DataByte(R, c)
    [] R.L.tstate = "iac" /\ c = "will" -> [R EXCEPT !.L.tstate = "opt"]
    [] R.L.tstate = "iac" /\ c \notin {"iac", "will"} ->
         [R EXCEPT !.L.tstate = IF c = "sb" THEN "sb" ELSE "data"]
    [] R.L.tstate = "opt" -> echo([R EXCEPT !.L.tstate = "data"])
    [] R.L.tstate = "sb" -> [R EXCEPT !.L.tstate = IF c = "iac" THEN "sb_iac" ELSE "sb"]
    [] R.L.tstate = "sb_iac" -> [R EXCEPT !.L.tstate = IF c = "se" THEN "data" ELSE "sb"]
    [] R.L.tstate = "data" /\ c = "iac" -> [R EXCEPT !.L.tstate = "iac"]
    [] R.L.tstate = "data" /\ c # "iac" -> DataByte(R, c)

\* One byte from the device: telnet first, then the discipline.  "will" stands
\* for WILL and DO, the commands whose option is refused in an answer.
feed_byte(R, c) ==
  CASE R.L.tstate = "iac" /\ c = "iac" -> DataByte([R EXCEPT !.L.tstate = "data"], c)
    [] R.L.tstate = "iac" /\ c = "will" -> [R EXCEPT !.L.tstate = "opt"]
    [] R.L.tstate = "iac" /\ c \notin {"iac", "will"} ->
         [R EXCEPT !.L.tstate = IF c = "sb" THEN "sb" ELSE "data"]
    [] R.L.tstate = "opt" -> echo([R EXCEPT !.L.tstate = "data"])
    [] R.L.tstate = "sb" -> [R EXCEPT !.L.tstate = IF c = "iac" THEN "sb_iac" ELSE "sb"]
    [] R.L.tstate = "sb_iac" -> [R EXCEPT !.L.tstate = IF c = "se" THEN "data" ELSE "sb"]
    [] R.L.tstate = "data" /\ c = "iac" -> [R EXCEPT !.L.tstate = "iac"]
    [] R.L.tstate = "data" /\ c # "iac" -> DataByte(R, c)

-----------------------------------------------------------------------------
\* What the bytes typed mean, apart from how the server goes about it: telnet
\* commands cut out, editing done, lines in order.

Control == {"cr", "lf", "nul", "intr", "eof", "kill", "bs", "word"}

Command(t, c) ==
  CASE t = "data" -> IF c = "iac" THEN "iac" ELSE "data"
    [] t = "iac" -> IF c = "will" THEN "opt" ELSE IF c = "sb" THEN "sb" ELSE "data"
    [] t = "opt" -> "data"
    [] t = "sb" -> IF c = "iac" THEN "end?" ELSE "sb"
    [] t = "end?" -> IF c = "se" THEN "data" ELSE "sb"

Typed(m, mode, c, nominated) ==
  CASE c = "intr" /\ (nominated \/ mode = "cooked") -> [m EXCEPT !.line = <<>>]
    [] mode = "raw" /\ ~(c = "intr" /\ nominated) ->
         IF m.cr /\ c \in {"nul", "lf"} THEN [m EXCEPT !.cr = FALSE]
         ELSE [m EXCEPT !.due = Append(@, c), !.cr = (c = "cr")]
    [] mode = "cooked" /\ c \in {"cr", "lf"} ->
         [m EXCEPT !.due = @ \o m.line \o <<"nl">>, !.line = <<>>]
    [] mode = "cooked" /\ c = "eof" -> [m EXCEPT !.due = @ \o m.line, !.line = <<>>]
    [] mode = "cooked" /\ c = "kill" -> [m EXCEPT !.line = <<>>]
    [] mode = "cooked" /\ c = "bs" -> [m EXCEPT !.line = SubSeq(@, 1, Len(@) - 1)]
    [] mode = "cooked" /\ c = "word" -> [m EXCEPT !.line = LastWordCut(@)]
    [] mode = "cooked" /\ c \notin Control /\ Len(m.line) < TTY_LINE - 1 ->
         [m EXCEPT !.line = Append(@, c)]
    [] OTHER -> m

Step(m, mode, c, nominated) ==
  IF (m.t = "data" /\ c # "iac") \/ (m.t = "iac" /\ c = "iac")
  THEN [Typed(m, mode, c, nominated) EXCEPT !.t = "data"]
  ELSE [m EXCEPT !.t = Command(@, c)]

\* A reader gets `bytes`: they must be the first that are due.
Read(m, bytes) ==
  [m EXCEPT !.due = IF Len(bytes) <= Len(@) /\ bytes = SubSeq(@, 1, Len(bytes))
                    THEN SubSeq(@, Len(bytes) + 1, Len(@)) ELSE <<"wrong">>]

-----------------------------------------------------------------------------
\* The reader thread of a line.

\* vfs_read on the device.
ThreadReads(i) ==
  /\ th[i].pc = "read"
  /\ ConsoleRead(i)
  /\ UNCHANGED <<fifo, line, alive, gone, script, moves, meant, lossy>>

\* The console server ends: whoever it kept waiting is told.
DeviceEnds ==
  /\ Moves
  /\ ~gone
  /\ gone' = TRUE
  /\ con' = [con EXCEPT !.waiter = Nobody]
  /\ th' = [i \in Threads |-> IF th[i].pc = "parked" THEN [th[i] EXCEPT !.pc = "eof"] ELSE th[i]]
  /\ cl' = [p \in Programs |-> IF cl[p] = "keyboard" THEN "run" ELSE cl[p]]
  /\ UNCHANGED <<fifo, line, alive, script, meant, lossy>>

\* What the thread does next: poke the main loop, read again, or exit.
Next3(wake, done) == IF wake THEN "poke" ELSE IF done THEN "exited" ELSE "read"

\* Under the lock, a byte goes through the discipline.
ThreadFeeds(i) ==
  /\ th[i].pc = "has"
  /\ LET R == feed_byte([L |-> line, wake |-> FALSE, kills |-> {}, lossy |-> lossy], th[i].byte)
     IN /\ line' = R.L
        /\ lossy' = (R.lossy \/ (R.L.dead /\ ~R.wake))
        /\ alive' = alive \ R.kills
        /\ th' = [th EXCEPT ![i] = [pc |-> Next3(R.wake, R.L.dead), byte |-> "none",
                                    done |-> R.L.dead]]
  /\ meant' = Step(meant, IF line.raw THEN "raw" ELSE "cooked", th[i].byte, line.intr # Nobody)
  /\ UNCHANGED <<fifo, con, cl, gone, script, moves>>

\* Under the lock, the end of the device: whoever is in front of it goes.
ThreadHangsUp(i) ==
  /\ th[i].pc = "eof"
  /\ alive' = alive \ {line.intr}
  /\ line' = [line EXCEPT !.intr = Nobody, !.dead = TRUE]
  /\ th' = [th EXCEPT ![i].pc = "poke", ![i].done = TRUE]
  /\ UNCHANGED <<fifo, con, cl, gone, script, moves, meant, lossy>>

-----------------------------------------------------------------------------
\* The main loop.

\* What a read takes: at most one line of it in cooked mode.
take(L, want) ==
  LET nls == {k \in 1 .. Len(L.q) : L.q[k] = "nl"}
      one == IF L.raw \/ nls = {} THEN Len(L.q) ELSE CHOOSE k \in nls : \A o \in nls : k <= o
  IN IF one > want THEN want ELSE one
Taken(L, n) == [L EXCEPT !.q = SubSeq(@, n + 1, Len(@))]

\* Answers the parked reader if there is anything to say.  What it is told is
\* taken from the queue before sys_trysend, which fails unless the client waits.
serve_parked(i) ==
  LET n == take(line, line.want)
  IN IF line.waiter = Nobody \/ (line.q = <<>> /\ ~line.dead)
     THEN UNCHANGED <<line, cl, meant, lossy>>
     ELSE IF line.waiter \notin alive
     THEN /\ line' = [line EXCEPT !.waiter = Nobody]
          /\ UNCHANGED <<cl, meant, lossy>>
     ELSE IF cl[line.waiter] = "recv"
     THEN /\ line' = [Taken(line, n) EXCEPT !.waiter = Nobody]
          /\ cl' = [cl EXCEPT ![line.waiter] = "run"]
          /\ meant' = Read(meant, SubSeq(line.q, 1, n))
          /\ UNCHANGED lossy
     ELSE /\ line' = Taken(line, n)
          /\ lossy' = TRUE
          /\ UNCHANGED <<cl, meant>>

\* A poke.  One from a thread that no line knows any more is taken for a
\* request, and what comes of it goes to nobody.
Poke(i) ==
  /\ th[i].pc = "poke"
  /\ th' = [th EXCEPT ![i].pc = IF th[i].done THEN "exited" ELSE "read"]
  /\ IF line.used /\ line.thread = i THEN serve_parked(i)
     ELSE UNCHANGED <<line, cl, meant, lossy>>
  /\ UNCHANGED <<fifo, con, alive, gone, script, moves>>

\* Mutant: a request is kept without looking at what is there.
TtyReadKeeps(p, want) ==
  /\ Moves
  /\ Runs(p)
  /\ line.used
  /\ line' = [line EXCEPT !.waiter = p, !.want = want]
  /\ cl' = [cl EXCEPT ![p] = "sent"]
  /\ UNCHANGED <<fifo, con, th, alive, gone, script, meant, lossy>>

\* VFS_READ on the line: what is there, or the request is kept.
TtyRead(p, want) ==
  /\ Moves
  /\ Runs(p)
  /\ line.used
  /\ LET n == take(line, want)
     IN IF line.q # <<>> \/ line.dead
        THEN /\ line' = Taken(line, n)
             /\ meant' = Read(meant, SubSeq(line.q, 1, n))
             /\ UNCHANGED cl
        ELSE /\ line' = [line EXCEPT !.waiter = p, !.want = want]
             /\ cl' = [cl EXCEPT ![p] = "sent"]
             /\ UNCHANGED meant
  /\ UNCHANGED <<fifo, con, th, alive, gone, script, lossy>>

\* The client gets from its sys_send to its sys_recv.
Waits(p) ==
  /\ cl[p] = "sent"
  /\ p \in alive
  /\ cl' = [cl EXCEPT ![p] = "recv"]
  /\ UNCHANGED <<fifo, con, line, th, alive, gone, script, moves, meant, lossy>>

\* IOCTL_INTR and IOCTL_TTYMODE on the line.
TtyIntr(p, whom) ==
  /\ Moves
  /\ Runs(p) /\ line.used
  /\ line' = [line EXCEPT !.intr = whom, !.fired = FALSE]
  /\ UNCHANGED <<fifo, con, th, cl, alive, gone, script, meant, lossy>>

TtyMode(p, raw) ==
  /\ Moves
  /\ Runs(p) /\ line.used
  /\ line' = [line EXCEPT !.raw = raw, !.buf = <<>>]
  /\ meant' = [meant EXCEPT !.line = <<>>]
  /\ UNCHANGED <<fifo, con, th, cl, alive, gone, script, lossy>>

\* VFS_WRITE on the line: straight through to the device.
TtyWrite(p) ==
  /\ Moves
  /\ Runs(p) /\ line.used
  /\ line' = [line EXCEPT !.dead = @ \/ gone]
  /\ UNCHANGED <<fifo, con, th, cl, alive, gone, script, meant, lossy>>

\* "new <path>" written to ctl.  `opens`: the device opens and a thread starts.
line_new(p, opens) ==
  /\ Moves
  /\ Runs(p)
  /\ line.used => line.owner \notin alive
  /\ opens => ~gone
  /\ Patient => \A i \in Threads : th[i].pc \in {"none", "exited"}
  /\ LET fresh == {i \in Threads : th[i].pc = "none"}
         i == CHOOSE k \in fresh : \A o \in fresh : k <= o
     IN /\ fresh # {}
        /\ line' = IF opens THEN [NoLine EXCEPT !.used = TRUE, !.owner = p, !.thread = i] ELSE NoLine
        /\ th' = IF opens THEN [th EXCEPT ![i].pc = "read"] ELSE th
  /\ meant' = NothingMeant /\ lossy' = FALSE
  /\ UNCHANGED <<fifo, con, cl, alive, gone, script>>

\* "close <n>" written to ctl.  The console does not fail a read it has kept.
line_close(p) ==
  /\ Moves
  /\ Runs(p)
  /\ line.used
  /\ line' = [line EXCEPT !.used = FALSE, !.dead = TRUE]
  /\ UNCHANGED <<fifo, con, th, cl, alive, gone, script, meant, lossy>>

Dies(p) ==
  /\ Moves
  /\ p = Child /\ p \in alive
  /\ alive' = alive \ {p}
  /\ UNCHANGED <<fifo, con, line, th, cl, gone, script, meant, lossy>>

Next ==
  \/ Type
  \/ ConsoleIrq
  \/ \E p \in Programs :
       \/ \E want \in Lens : TtyRead(p, want)
       \/ Waits(p)
       \/ Dies(p)
  \/ \E whom \in {Child, Nobody} : ConsoleIntr(Shell, whom) \/ TtyIntr(Shell, whom)
  \/ \E raw \in BOOLEAN : TtyMode(Shell, raw)
  \/ \E p \in Programs, opens \in BOOLEAN : line_new(p, opens)
  \/ line_close(Shell)
  \/ TtyWrite(Shell)
  \/ DirectRead(Child)
  \/ DeviceEnds
  \/ \E i \in Threads :
       ThreadReads(i) \/ ThreadFeeds(i) \/ ThreadHangsUp(i) \/ Poke(i)

\* The scheduler runs every ready task: interrupts are taken, threads go on, the
\* main loop receives, a client reaches its sys_recv.  Nobody has to type.
Fairness ==
  /\ WF_vars(ConsoleIrq)
  /\ \A i \in Threads : WF_vars(ThreadReads(i) \/ ThreadFeeds(i) \/ ThreadHangsUp(i) \/ Poke(i))
  /\ \A p \in Programs : WF_vars(Waits(p))

Spec == Init /\ [][Next]_vars /\ Fairness

-----------------------------------------------------------------------------
\* What the fields of the servers and threads can be.
TypeOK ==
  /\ fifo \in Seq(Keys)
  /\ Len(con.ring) <= RING - 1
  /\ Len(line.buf) <= TTY_LINE - 1 /\ Len(line.q) <= TTY_QUEUE
  /\ con.waiter \in Programs \cup Threads \cup {Nobody}
  /\ line.waiter \in Programs \cup {Nobody}
  /\ line.tstate \in {"data", "iac", "opt", "sb", "sb_iac"}
  /\ \A i \in Threads : th[i].pc \in {"none", "read", "parked", "has", "eof", "poke", "exited"}

\* Nobody waits for what is there.  A key never sits in the console's ring while a
\* living reader is parked, whatever the order of interrupts, reads and deaths.
\* "When something becomes readable it pokes the main loop" (reader): a reader is
\* parked on a line with something to read, or on a dead one, only while the
\* thread is about to poke or, its device gone, about to find out; unless an
\* answer was refused or the thread ended without a word.
NobodyWaitsInVain ==
  /\ Exists(con.waiter) => con.ring = <<>>
  /\ (line.used /\ line.waiter # Nobody /\ ~lossy)
       => /\ line.q # <<>> => \E i \in Threads : th[i].pc = "poke"
          /\ line.dead => \E i \in Threads :
                            \/ th[i].pc = "poke"
                            \/ gone /\ th[i].pc \in {"read", "has", "eof"}

\* "read - a whole line, with the editing already done" (tty_doc): what readers
\* get, and what still waits for them, is what the bytes typed mean, each once
\* and in order, as long as no queue was full and no answer refused.
TypedOnce == ~lossy => meant.due = line.q

\* A living reader is not left parked for ever on a line that has something to
\* read, or on a dead one, unless an answer was refused or the thread ended
\* without a word.
ReaderAnswered ==
  \A p \in Programs :
    []<>~(/\ line.used /\ line.waiter = p /\ p \in alive
          /\ line.q # <<>> \/ line.dead
          /\ ~lossy)

=============================================================================
