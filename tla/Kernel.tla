------------------------------- MODULE Kernel -------------------------------
(***************************************************************************)
(* The rvos kernel core: the task table, the scheduler, rendezvous IPC,    *)
(* alarms, device interrupts and the retirement of tasks, from task.c,     *)
(* ipc.c and trap.c.                                                       *)
(*                                                                         *)
(* The kernel runs with interrupts masked on one hart, so a trap handler   *)
(* is atomic: every action below is one whole trap, from entry.S saving    *)
(* the context to the return into whichever task schedule() chose.         *)
(*                                                                         *)
(* The fields of struct task are functions over the slots of the table.    *)
(* Message bytes are not modelled; who may receive from whom, and what     *)
(* each blocked call finally returns in a0, are.  An address space is      *)
(* reduced to pt[s], whether slot s has one.                               *)
(***************************************************************************)
EXTENDS Integers, Sequences

CONSTANTS
  NTASK,      \* slots in the task table
  NBoot,      \* tasks kmain creates, in slots 0 .. NBoot - 1
  Idle,       \* the slot of the boot task that only ever yields
  Irqs,       \* interrupt lines
  MaxGen,     \* bound: a slot is handed out only while its gen is <= MaxGen
  Calls,      \* the system calls programs make, besides SYS_YIELD
  Mortal,     \* slots whose task may exit or fault
  Killable,   \* slots programs name in SYS_KILL
  WaitIds,    \* ids programs pass to SYS_WAIT
  BadBuffers  \* may a program hand recv() a buffer that is not mapped?

Slots == 0 .. NTASK - 1
TaskId(s, g) == s + 256 * g
TASK_SLOT(x) == x % 256
Ids == {TaskId(s, g) : s \in Slots, g \in 0 .. MaxGen}

ASSUME KernelAssumption ==
  /\ NTASK \in 1 .. 256 /\ NBoot \in 1 .. NTASK
  /\ Idle \in 0 .. NBoot - 1
  /\ MaxGen \in Nat
  /\ Mortal \subseteq Slots /\ Killable \subseteq Slots
  /\ WaitIds \subseteq Ids
  /\ BadBuffers \in BOOLEAN

\* What a trap may write into a task's a0: 0, a task id, or one of these.
FAIL == -1
IRQ_SENDER == -2
TIMER_SENDER == -3
None == -4    \* not written by the latest trap

Nil == -1     \* no task: the null struct task *

VARIABLES
  state,          \* T_UNUSED, T_RUNNABLE, T_RUNNING or T_BLOCKED, per slot
  pt,             \* has an address space
  id, gen,        \* the task's id, and how many tasks the slot has been
  queue,          \* wait_sender / send_next: senders blocked on this task
  waiting_recv, recv_closed, recv_from,   \* what a blocked receive waits for
  wait_for,       \* id a blocked SYS_WAIT names, or 0
  irq_pending, timer_pending,             \* sticky events
  alarm_at,       \* an alarm is armed
  a0,             \* what the latest trap wrote into each task's a0
  current,        \* the slot of the task on the hart
  parked,         \* schedule() found nobody and entered its wfi loop
  irq_owner,      \* the slot registered for each line, or Nil
  masked          \* lines claimed from the PLIC and not completed

vars == <<state, pt, id, gen, queue, waiting_recv, recv_closed, recv_from,
          wait_for, irq_pending, timer_pending, alarm_at, a0, current, parked,
          irq_owner, masked>>

tableVars == <<pt, id, gen>>
recvVars == <<waiting_recv, recv_closed, recv_from>>
eventVars == <<irq_pending, timer_pending, alarm_at>>
irqVars == <<irq_owner, masked>>
schedVars == <<state, current, parked>>

-----------------------------------------------------------------------------
(* Lists of senders, linked through send_next.                             *)

Members(q) == {q[i] : i \in DOMAIN q}

\* The list without its i-th entry, and without the first that is t.
Without(q, i) ==
  [j \in 1 .. Len(q) - 1 |-> IF j < i THEN q[j] ELSE q[j + 1]]
Unlinked(q, t) ==
  IF \E i \in DOMAIN q : q[i] = t
  THEN Without(q, CHOOSE i \in DOMAIN q :
                    q[i] = t /\ \A j \in 1 .. i - 1 : q[j] # t)
  ELSE q

-----------------------------------------------------------------------------
(* Helpers of task.c                                                       *)

Occupied(s) == state[s] # "UNUSED" \/ pt[s]

task_by_id(x) ==
  IF TASK_SLOT(x) \in Slots /\ Occupied(TASK_SLOT(x)) /\ id[TASK_SLOT(x)] = x
  THEN TASK_SLOT(x)
  ELSE Nil

\* The running program made a system call; the idle task makes only SYS_YIELD.
Syscall(call) == ~parked /\ id[current] # Idle /\ call \in Calls

\* The trap answers r to the tasks of S, and to nobody else.
Answers(S, r) == [s \in Slots |-> IF s \in S THEN r ELSE None]
Return(r) == a0' = Answers({current}, r)
Silent == a0' = Answers({}, 0)

\* A call that only answers.
Answer(r) ==
  /\ Return(r)
  /\ UNCHANGED <<schedVars, tableVars, queue, recvVars, wait_for, eventVars,
                 irqVars>>

PutBack(st) ==
  [s \in Slots |-> IF s = current /\ st[s] = "RUNNING" THEN "RUNNABLE"
                                                       ELSE st[s]]

\* The i-th slot schedule() looks at; it starts after the id, not the slot, of
\* the current task.
Scan(i) == (id[current] + i) % NTASK

\* schedule(), entered with the run states st: put the current task back if it
\* was running, then take the first runnable task of the scan.
schedule(st) ==
  LET put == PutBack(st)
  IN \/ /\ \A s \in Slots : put[s] # "RUNNABLE"
        /\ state' = put
        /\ parked' = TRUE
        /\ UNCHANGED current
     \/ \E i \in 1 .. NTASK :
        /\ put[Scan(i)] = "RUNNABLE"
        /\ \A j \in 1 .. i - 1 : put[Scan(j)] # "RUNNABLE"
        /\ state' = [s \in Slots |-> IF s = Scan(i) THEN "RUNNING" ELSE put[s]]
        /\ current' = Scan(i)
        /\ UNCHANGED parked

-----------------------------------------------------------------------------
(* IPC: ipc.c                                                              *)

\* Mutants: a receiver taken for available whatever it is doing; one in a
\* closed receive taken for available to everybody.
wantsAlways(d, s) == recv_closed[d] => recv_from[d] = id[s]
wantsAnyone(d, s) == state[d] = "BLOCKED" /\ waiting_recv[d]

wants(d, s) ==
  /\ state[d] = "BLOCKED" /\ waiting_recv[d]
  /\ recv_closed[d] => recv_from[d] = id[s]

\* ipc_send, up to the point where send and trysend differ.
SendRefused(x) ==
  LET d == task_by_id(x)
  IN d = Nil \/ state[d] = "UNUSED" \/ d = current

\* deliver() copies straight into the receiver parked in recv().
SendDelivers(d) ==
  /\ wants(d, current)
  /\ a0' = [Answers({current}, 0) EXCEPT ![d] = id[current]]
  /\ waiting_recv' = [waiting_recv EXCEPT ![d] = FALSE]
  /\ recv_closed' = [recv_closed EXCEPT ![d] = FALSE]
  /\ state' = [state EXCEPT ![d] = "RUNNABLE"]
  /\ UNCHANGED <<current, parked, tableVars, queue, recv_from, wait_for,
                 eventVars, irqVars>>

\* Mutant: the newcomer is linked at the head.
enqueue_senderFirst(q, s) == <<s>> \o q
enqueue_sender(q, s) == Append(q, s)

SendParks(d) ==
  /\ ~wants(d, current)
  /\ waiting_recv' = [waiting_recv EXCEPT ![current] = FALSE]
  /\ queue' = [queue EXCEPT ![d] = enqueue_sender(@, current)]
  /\ Silent
  /\ schedule([state EXCEPT ![current] = "BLOCKED"])
  /\ UNCHANGED <<tableVars, recv_closed, recv_from, wait_for, eventVars,
                 irqVars>>

Send(x) ==
  /\ Syscall("send")
  /\ IF SendRefused(x) THEN Answer(FAIL)
     ELSE LET d == task_by_id(x)
          IN \/ SendDelivers(d)
             \/ SendParks(d)
             \/ BadBuffers /\ wants(d, current) /\ Answer(FAIL)

TrySend(x) ==
  /\ Syscall("trysend")
  /\ IF SendRefused(x) THEN Answer(FAIL)
     ELSE LET d == task_by_id(x)
          IN \/ SendDelivers(d)
             \/ ~wants(d, current) /\ Answer(FAIL)
             \/ BadBuffers /\ wants(d, current) /\ Answer(FAIL)

-----------------------------------------------------------------------------
\* dequeue_sender: the first entry for an open receive, the first from `want`
\* for a closed one.
Matches(closed, want, s) == closed => id[s] = want

\* The rendezvous completes with the i-th sender in the queue, or deliver()
\* fails with that sender already unlinked.
RecvTakes(closed, want, i) ==
  LET q == queue[current]
      s == q[i]
  IN /\ Matches(closed, want, s)
     /\ \A j \in 1 .. i - 1 : ~Matches(closed, want, q[j])
     /\ queue' = [queue EXCEPT ![current] = Without(q, i)]
     /\ \/ /\ a0' = [Answers({current}, id[s]) EXCEPT ![s] = 0]
           /\ state' = [state EXCEPT ![s] = "RUNNABLE"]
        \/ /\ BadBuffers
           /\ Return(FAIL)
           /\ UNCHANGED state
     /\ UNCHANGED <<current, parked, tableVars, recvVars, wait_for, eventVars,
                    irqVars>>

RecvParks(closed, want) ==
  /\ \A i \in DOMAIN queue[current] : ~Matches(closed, want, queue[current][i])
  /\ waiting_recv' = [waiting_recv EXCEPT ![current] = TRUE]
  /\ recv_closed' = [recv_closed EXCEPT ![current] = closed]
  /\ recv_from' = [recv_from EXCEPT ![current] = want]
  /\ Silent
  /\ schedule([state EXCEPT ![current] = "BLOCKED"])
  /\ UNCHANGED <<tableVars, queue, wait_for, eventVars, irqVars>>

RecvIrq ==
  /\ irq_pending[current]
  /\ irq_pending' = [irq_pending EXCEPT ![current] = FALSE]
  /\ Return(IRQ_SENDER)
  /\ UNCHANGED <<schedVars, tableVars, queue, recvVars, wait_for,
                 timer_pending, alarm_at, irqVars>>

RecvTimer ==
  /\ ~irq_pending[current] /\ timer_pending[current]
  /\ timer_pending' = [timer_pending EXCEPT ![current] = FALSE]
  /\ Return(TIMER_SENDER)
  /\ UNCHANGED <<schedVars, tableVars, queue, recvVars, wait_for,
                 irq_pending, alarm_at, irqVars>>

\* Mutant: only interrupts are looked at.
NoEventIrqOnly == ~irq_pending[current]
NoEvent == ~irq_pending[current] /\ ~timer_pending[current]

Recv ==
  /\ Syscall("recv")
  /\ \/ RecvIrq
     \/ RecvTimer
     \/ /\ NoEvent
        /\ \/ \E i \in DOMAIN queue[current] : RecvTakes(FALSE, 0, i)
           \/ RecvParks(FALSE, 0)

RecvFrom(x) ==
  /\ Syscall("recvfrom")
  /\ IF task_by_id(x) = Nil
     THEN Answer(FAIL)
     ELSE \/ \E i \in DOMAIN queue[current] : RecvTakes(TRUE, x, i)
          \/ RecvParks(TRUE, x)

-----------------------------------------------------------------------------
(* Retirement: task_retire                                                 *)

\* Who a retirement of t wakes: its queued senders, then the tasks blocked
\* with wait_for equal to its id, then those in a closed receive from it.
Failed(t) == Members(queue[t])
Waiters(t) ==
  {s \in Slots \ Failed(t) : state[s] = "BLOCKED" /\ wait_for[s] = id[t]}
\* Mutant: nobody remembers the closed receivers.
OrphansForgotten(t) == {}

Orphans(t) ==
  {s \in Slots \ (Failed(t) \cup Waiters(t) \cup {t}) :
     /\ state[s] = "BLOCKED"
     /\ waiting_recv[s] /\ recv_closed[s] /\ recv_from[s] = id[t]}

\* Mutant: the queued senders are dropped but stay blocked.
RetiredStateHang(t) ==
  [s \in Slots |-> CASE s = t -> "UNUSED"
                     [] s # t /\ s \in Waiters(t) \cup Orphans(t) -> "RUNNABLE"
                     [] OTHER -> state[s]]

RetiredState(t) ==
  [s \in Slots |-> CASE s = t -> "UNUSED"
                     [] s # t /\ s \in Failed(t) \cup Waiters(t) \cup Orphans(t)
                          -> "RUNNABLE"
                     [] OTHER -> state[s]]

RetiredA0(t) ==
  [s \in Slots |-> CASE s \in Failed(t) \cup Orphans(t) -> FAIL
                     [] s \in Waiters(t) -> 0
                     [] OTHER -> None]

\* Mutant: the dead task stays in the queue it was standing in.
RetiredQueueStale(t) == [queue EXCEPT ![t] = << >>]
RetiredQueue(t) ==
  [d \in Slots |-> IF d = t THEN << >> ELSE Unlinked(queue[d], t)]

RetiredGen(t) == [gen EXCEPT ![t] = @ + 1]

\* Everything task_retire(t) does except to the run states and a0, which the
\* caller may change once more.
Retire(t) ==
  /\ queue' = RetiredQueue(t)
  /\ waiting_recv' = [s \in Slots |-> /\ s \notin Orphans(t) \cup {t}
                                      /\ waiting_recv[s]]
  /\ recv_closed' = [s \in Slots |-> s \notin Orphans(t) /\ recv_closed[s]]
  /\ wait_for' = [s \in Slots |-> IF s \in Waiters(t) THEN 0 ELSE wait_for[s]]
  /\ pt' = [pt EXCEPT ![t] = FALSE]
  /\ gen' = RetiredGen(t)
  /\ UNCHANGED <<id, recv_from, eventVars, irqVars>>

\* SYS_EXIT
Exit ==
  /\ Syscall("exit") /\ current \in Mortal
  /\ Retire(current)
  /\ a0' = RetiredA0(current)
  /\ schedule(RetiredState(current))

\* strap_handler on an exception that is not an ecall
Fault ==
  /\ ~parked /\ current \in Mortal
  /\ Retire(current)
  /\ a0' = RetiredA0(current)
  /\ schedule(RetiredState(current))

\* SYS_KILL
Kill(x) ==
  LET t == task_by_id(x)
  IN /\ Syscall("kill")
     /\ TASK_SLOT(x) \in Killable
     /\ IF t \in {Nil, current, 0}
        THEN Answer(FAIL)
        ELSE /\ Retire(t)
             /\ a0' = [RetiredA0(t) EXCEPT ![current] = 0]
             /\ state' = RetiredState(t)
             /\ UNCHANGED <<current, parked>>

\* SYS_WAIT
Wait(x) ==
  /\ Syscall("wait")
  /\ IF task_by_id(x) = Nil
     THEN Answer(0)
     ELSE /\ wait_for' = [wait_for EXCEPT ![current] = x]
          /\ Silent
          /\ schedule([state EXCEPT ![current] = "BLOCKED"])
          /\ UNCHANGED <<tableVars, queue, recvVars, eventVars, irqVars>>

-----------------------------------------------------------------------------
(* Creation: alloc_slot and the calls that use it                          *)

FreeSlot(i) == ~Occupied(i)
NoSlot == \A i \in Slots : ~FreeSlot(i)

\* alloc_slot: the first free slot, zeroed but for its generation.
alloc_slot(i) ==
  /\ FreeSlot(i) /\ \A j \in Slots : j < i => ~FreeSlot(j)
  /\ gen[i] <= MaxGen
  /\ id' = [id EXCEPT ![i] = TaskId(i, gen[i])]
  /\ queue' = [queue EXCEPT ![i] = << >>]
  /\ waiting_recv' = [waiting_recv EXCEPT ![i] = FALSE]
  /\ recv_closed' = [recv_closed EXCEPT ![i] = FALSE]
  /\ recv_from' = [recv_from EXCEPT ![i] = 0]
  /\ wait_for' = [wait_for EXCEPT ![i] = 0]
  /\ irq_pending' = [irq_pending EXCEPT ![i] = FALSE]
  /\ timer_pending' = [timer_pending EXCEPT ![i] = FALSE]
  /\ alarm_at' = [alarm_at EXCEPT ![i] = FALSE]
  /\ UNCHANGED <<gen, current, parked, irqVars>>

\* SYS_NEWTASK: task_new_empty leaves the task unused until SYS_START; ok is
\* whether there was memory for its page table.
NewTask(ok) ==
  /\ Syscall("newtask")
  /\ \/ NoSlot /\ Answer(FAIL)
     \/ \E i \in Slots :
        /\ alloc_slot(i)
        /\ pt' = [pt EXCEPT ![i] = ok]
        /\ Return(IF ok THEN TaskId(i, gen[i]) ELSE FAIL)
        /\ UNCHANGED state

\* SYS_THREAD: ok is whether the caller named an entry point and a stack.
Thread(ok) ==
  /\ Syscall("thread")
  /\ \/ NoSlot /\ Answer(FAIL)
     \/ \E i \in Slots :
        /\ alloc_slot(i)
        /\ pt' = [pt EXCEPT ![i] = ok]
        /\ Return(IF ok THEN TaskId(i, gen[i]) ELSE FAIL)
        /\ state' = [state EXCEPT ![i] = IF ok THEN "RUNNABLE" ELSE @]

\* SYS_START
Start(x) ==
  LET t == task_by_id(x)
  IN /\ Syscall("start")
     /\ IF t \in {Nil, 0} \/ state[t] # "UNUSED"
        THEN Answer(FAIL)
        ELSE /\ state' = [state EXCEPT ![t] = "RUNNABLE"]
             /\ Return(0)
             /\ UNCHANGED <<current, parked, tableVars, queue, recvVars,
                            wait_for, eventVars, irqVars>>

-----------------------------------------------------------------------------
(* Events: trap.c                                                          *)

\* SYS_YIELD; the idle task does nothing else.
Yield ==
  /\ ~parked
  /\ Silent
  /\ schedule(state)
  /\ UNCHANGED <<tableVars, queue, recvVars, wait_for, eventVars, irqVars>>

\* SYS_ALARM, arming or disarming
Alarm(on) ==
  /\ Syscall("alarm")
  /\ alarm_at' = [alarm_at EXCEPT ![current] = on]
  /\ Return(0)
  /\ UNCHANGED <<schedVars, tableVars, queue, recvVars, wait_for, irq_pending,
                 timer_pending, irqVars>>

InRecv(s) == state[s] = "BLOCKED" /\ waiting_recv[s]

\* Mutant: an alarm whose task is not receiving is forgotten.
AlarmFlagsLost(due) == timer_pending
AlarmFlags(due) ==
  [s \in Slots |-> timer_pending[s] \/ (s \in due /\ ~InRecv(s))]

\* The timer interrupt: alarms_check for the tasks whose alarm is due, then
\* preemption.
TimerTick(due) ==
  /\ ~parked
  /\ due \subseteq {s \in Slots : state[s] # "UNUSED" /\ alarm_at[s]}
  /\ alarm_at' = [s \in Slots |-> alarm_at[s] /\ s \notin due]
  /\ a0' = Answers({s \in due : InRecv(s)}, TIMER_SENDER)
  /\ waiting_recv' = [s \in Slots |-> waiting_recv[s] /\
                                      ~(s \in due /\ InRecv(s))]
  /\ timer_pending' = AlarmFlags(due)
  /\ schedule([s \in Slots |-> IF s \in due /\ InRecv(s) THEN "RUNNABLE"
                                                        ELSE state[s]])
  /\ UNCHANGED <<tableVars, queue, recv_closed, recv_from, wait_for,
                 irq_pending, irqVars>>

Tick == \E due \in SUBSET Slots : TimerTick(due)

\* SYS_IRQ_REG
IrqRegister(irq) ==
  /\ Syscall("irq_reg")
  /\ irq_owner' = [irq_owner EXCEPT ![irq] = current]
  /\ Return(0)
  /\ UNCHANGED <<schedVars, tableVars, queue, recvVars, wait_for, eventVars,
                 masked>>

\* SYS_IRQ_ACK
IrqAck(irq) ==
  /\ Syscall("irq_ack")
  /\ IF irq_owner[irq] = current
     THEN /\ masked' = masked \ {irq}
          /\ Return(0)
          /\ UNCHANGED <<schedVars, tableVars, queue, recvVars, wait_for,
                         eventVars, irq_owner>>
     ELSE Answer(FAIL)

IrqFlags(t) == [irq_pending EXCEPT ![t] = TRUE]

\* device_interrupt: claim the line and tell its owner, who is not scheduled
\* for it.
DeviceInterrupt(irq) ==
  LET t == irq_owner[irq]
  IN /\ ~parked /\ irq \notin masked
     /\ t # Nil /\ state[t] # "UNUSED"    \* otherwise claimed and completed
     /\ masked' = masked \cup {irq}
     /\ IF InRecv(t)
        THEN /\ a0' = Answers({t}, IRQ_SENDER)
             /\ waiting_recv' = [waiting_recv EXCEPT ![t] = FALSE]
             /\ state' = [state EXCEPT ![t] = "RUNNABLE"]
             /\ UNCHANGED irq_pending
        ELSE /\ irq_pending' = IrqFlags(t)
             /\ Silent
             /\ UNCHANGED <<waiting_recv, state>>
     /\ UNCHANGED <<current, parked, tableVars, queue, recv_closed, recv_from,
                    wait_for, timer_pending, alarm_at, irq_owner>>

-----------------------------------------------------------------------------
\* kmain created the boot tasks and scheduler_start switched to the first.
Init ==
  /\ state = [s \in Slots |-> CASE s = 0 -> "RUNNING"
                                [] s \in 1 .. NBoot - 1 -> "RUNNABLE"
                                [] OTHER -> "UNUSED"]
  /\ pt = [s \in Slots |-> s < NBoot]
  /\ id = [s \in Slots |-> IF s < NBoot THEN s ELSE 0]
  /\ gen = [s \in Slots |-> 0]
  /\ queue = [s \in Slots |-> << >>]
  /\ waiting_recv = [s \in Slots |-> FALSE]
  /\ recv_closed = [s \in Slots |-> FALSE]
  /\ recv_from = [s \in Slots |-> 0]
  /\ wait_for = [s \in Slots |-> 0]
  /\ irq_pending = [s \in Slots |-> FALSE]
  /\ timer_pending = [s \in Slots |-> FALSE]
  /\ alarm_at = [s \in Slots |-> FALSE]
  /\ a0 = Answers({}, 0)
  /\ current = 0
  /\ parked = FALSE
  /\ irq_owner = [i \in Irqs |-> Nil]
  /\ masked = {}

Next ==
  \/ Yield \/ Recv \/ Exit \/ Fault
  \/ \E x \in Ids : Send(x) \/ TrySend(x) \/ RecvFrom(x) \/ Kill(x) \/ Start(x)
  \/ \E x \in WaitIds : Wait(x)
  \/ \E b \in BOOLEAN : NewTask(b) \/ Thread(b) \/ Alarm(b)
  \/ Tick
  \/ \E irq \in Irqs : IrqRegister(irq) \/ IrqAck(irq) \/ DeviceInterrupt(irq)

Spec == Init /\ [][Next]_vars

\* The timer keeps ticking: timer_rearm sets the next tick in every tick.
FairSpec == Spec /\ WF_vars(Tick)

-----------------------------------------------------------------------------
(* Properties                                                              *)

\* Every variable has its type; a0 holds 0, an id or one of the codes.
TypeOK ==
  /\ state \in [Slots -> {"UNUSED", "RUNNABLE", "RUNNING", "BLOCKED"}]
  /\ pt \in [Slots -> BOOLEAN]
  /\ id \in [Slots -> Ids] /\ gen \in [Slots -> 0 .. MaxGen + 1]
  /\ queue \in [Slots -> Seq(Slots)]
  /\ waiting_recv \in [Slots -> BOOLEAN] /\ recv_closed \in [Slots -> BOOLEAN]
  /\ recv_from \in [Slots -> Ids] /\ wait_for \in [Slots -> Ids]
  /\ irq_pending \in [Slots -> BOOLEAN] /\ timer_pending \in [Slots -> BOOLEAN]
  /\ alarm_at \in [Slots -> BOOLEAN]
  /\ a0 \in [Slots -> Ids \cup {FAIL, IRQ_SENDER, TIMER_SENDER, None}]
  /\ current \in Slots /\ parked \in BOOLEAN
  /\ irq_owner \in [Irqs -> Slots \cup {Nil}] /\ masked \subseteq Irqs

\* schedule() never runs out of tasks while the idle task lives, and the one
\* RUNNING task is the current one.
HartBusy ==
  /\ ~parked
  /\ \A s \in Slots : state[s] = "RUNNING" <=> s = current

Queued(s) == \E d \in Slots : s \in Members(queue[d])

\* A task stands in at most one queue of senders, once; it is blocked, neither
\* receiving nor waiting, and the queue is that of another, live task.  The
\* links are intrusive, so anything else would corrupt a list (ipc.c:20-53,
\* task.c:131-152).
QueueSound ==
  /\ \A d \in Slots : \A i \in DOMAIN queue[d] :
       LET s == queue[d][i]
       IN /\ s # d /\ state[d] # "UNUSED"
          /\ state[s] = "BLOCKED" /\ ~waiting_recv[s] /\ wait_for[s] = 0
  /\ \A d, e \in Slots : \A i \in DOMAIN queue[d], j \in DOMAIN queue[e] :
       queue[d][i] = queue[e][j] => d = e /\ i = j

\* A blocked task is receiving, waiting, or in somebody's queue of senders
\* (task.c:376): it has a reason to be woken.
BlockedHasReason ==
  \A s \in Slots :
    state[s] = "BLOCKED" => waiting_recv[s] \/ wait_for[s] # 0 \/ Queued(s)

\* No rendezvous is missed: while a task is blocked in a receive, no sender it
\* would accept stands in its queue, and in an open receive no event is
\* pending for it.
NoMissedRendezvous ==
  \A d \in Slots : InRecv(d) =>
    /\ \A i \in DOMAIN queue[d] :
         recv_closed[d] /\ id[queue[d][i]] # recv_from[d]
    /\ ~recv_closed[d] => ~irq_pending[d] /\ ~timer_pending[d]

\* A closed receive and a SYS_WAIT never outlast the task they name
\* (task.c:153-170).
NobodyWaitsForTheDead ==
  \A s \in Slots : state[s] = "BLOCKED" =>
    /\ waiting_recv[s] /\ recv_closed[s] => task_by_id(recv_from[s]) # Nil
    /\ wait_for[s] # 0 => task_by_id(wait_for[s]) # Nil

\* A trap writes a0 only for the task that trapped and for tasks it unblocks:
\* an answer not yet seen by its task is never overwritten.
AnsweredOnce ==
  [][\A s \in Slots : a0'[s] # None =>
       s = current \/ (state[s] = "BLOCKED" /\ state'[s] # "BLOCKED")]_vars

Position(q, s) == CHOOSE i \in DOMAIN q : q[i] = s

\* A queued sender never moves back: later senders do not overtake it.
NoOvertaking ==
  [][\A d, s \in Slots :
       s \in Members(queue[d]) /\ s \in Members(queue'[d])
         => Position(queue'[d], s) <= Position(queue[d], s)]_vars

\* Events are not lost: a sticky flag is cleared only by telling its task, and
\* an alarm that goes off is told at once or leaves its flag (trap.c:38-104,
\* ipc.c:166-181).
FlagsTold(s) ==
  /\ irq_pending[s] /\ ~irq_pending'[s] => a0'[s] = IRQ_SENDER
  /\ timer_pending[s] /\ ~timer_pending'[s] => a0'[s] = TIMER_SENDER
  /\ alarm_at[s] /\ ~alarm_at'[s] =>
       \/ timer_pending'[s] \/ a0'[s] = TIMER_SENDER
       \/ (s = current /\ a0'[s] = 0)

\* A line is claimed only to tell its owner: the step that masks it answers
\* IRQ_SENDER or leaves irq_pending set (trap.c:83-104).
OwnerTold(irq) ==
  \/ a0'[irq_owner[irq]] = IRQ_SENDER
  \/ irq_pending'[irq_owner[irq]]

\* No alarm and no interrupt is lost, whatever its task is doing when it comes:
\* both of the above, in every step.
EventKept ==
  [][/\ \A s \in Slots : Occupied(s) => FlagsTold(s)
     /\ \A irq \in masked' \ masked : OwnerTold(irq)]_vars

\* Round robin: whoever is runnable gets the hart (task.c:71,
\* doc/kernel.ru.md:339).
RunnableRuns ==
  \A s \in Slots : state[s] = "RUNNABLE" ~> state[s] # "RUNNABLE"

=============================================================================
