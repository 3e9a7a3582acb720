-------------------------- MODULE KernelInvariant ---------------------------
(***************************************************************************)
(* The inductive invariant of Kernel, for tables of any size.  First the   *)
(* steps that keep it and neither create nor retire a task: answers,       *)
(* yields, alarms, interrupts, the calls that block their caller, and the  *)
(* receives that take a sender out of a queue.  Then the steps that hand   *)
(* slots out and retire tasks, provided that slot 0, whose id is the 0 that *)
(* wait_for uses for nobody, never dies; what follows from the invariant,  *)
(* and that the hart never halts.                                          *)
(***************************************************************************)
EXTENDS Kernel, TLAPS

\* A remainder is below its divisor (the scan of schedule()).
LEMMA ModRange == ASSUME NEW a \in Int, NEW n \in Nat \ {0}
                  PROVE a % n \in 0 .. n - 1
OBVIOUS

\* An id gives its slot back, whatever the generation (task.h).
LEMMA SlotOfId == ASSUME NEW s \in Slots, NEW g \in Nat
                  PROVE TASK_SLOT(TaskId(s, g)) = s
BY KernelAssumption DEF Slots, TASK_SLOT, TaskId

\* A list with one more entry at its end (enqueue_sender).
LEMMA AppendFacts ==
  ASSUME NEW S, NEW q \in Seq(S), NEW e \in S
  PROVE  /\ Append(q, e) \in Seq(S)
         /\ Len(Append(q, e)) = Len(q) + 1
         /\ \A i \in 1 .. Len(q) : Append(q, e)[i] = q[i]
         /\ Append(q, e)[Len(q) + 1] = e
OBVIOUS

\* A list with its i-th entry taken out (dequeue_sender).
LEMMA WithoutFacts ==
  ASSUME NEW S, NEW q \in Seq(S), NEW i \in 1 .. Len(q)
  PROVE  /\ Without(q, i) \in Seq(S)
         /\ Len(Without(q, i)) = Len(q) - 1
         /\ \A j \in 1 .. Len(q) - 1 :
              Without(q, i)[j] = IF j < i THEN q[j] ELSE q[j + 1]
<1>1. Len(q) \in Nat /\ \A j \in 1 .. Len(q) : q[j] \in S
  OBVIOUS
<1>2. Without(q, i) \in [1 .. Len(q) - 1 -> S]
  BY <1>1 DEF Without
<1>3. Len(q) - 1 \in Nat
  BY <1>1
<1>4. Without(q, i) \in Seq(S)
  BY <1>2, <1>3
<1>5. Len(Without(q, i)) = Len(q) - 1
  BY <1>2, <1>3, <1>4
<1> QED
  BY <1>4, <1>5, Zenon DEF Without

\* A list in which a task stands at most once loses that one entry, or
\* nothing (task_retire).
LEMMA UnlinkedFacts ==
  ASSUME NEW S, NEW q \in Seq(S), NEW e,
         \A i, j \in 1 .. Len(q) : q[i] = e /\ q[j] = e => i = j
  PROVE  \/ Unlinked(q, e) = q /\ \A i \in 1 .. Len(q) : q[i] # e
         \/ \E i \in 1 .. Len(q) : q[i] = e /\ Unlinked(q, e) = Without(q, i)
<1>1. CASE \A i \in 1 .. Len(q) : q[i] # e
  <2>1. DOMAIN q = 1 .. Len(q)
    OBVIOUS
  <2>2. Unlinked(q, e) = q
    BY <1>1, <2>1, Zenon DEF Unlinked
  <2> QED
    BY <1>1, <2>2, Zenon
<1>2. CASE \E i \in 1 .. Len(q) : q[i] = e
  <2>1. PICK i \in 1 .. Len(q) : q[i] = e
    BY <1>2, Zenon
  <2>2. i \in DOMAIN q /\ \A j \in 1 .. i - 1 : q[j] # e
    BY <2>1
  <2>3. \A k \in DOMAIN q : q[k] = e => k = i
    BY <2>1
  <2>4. (CHOOSE k \in DOMAIN q : q[k] = e /\ \A j \in 1 .. k - 1 : q[j] # e) = i
    BY <2>1, <2>2, <2>3, Zenon
  <2> QED
    BY <2>1, <2>2, <2>4, Zenon DEF Unlinked
<1> QED
  BY <1>1, <1>2, Zenon

-----------------------------------------------------------------------------
(* Sequences that lose entries                                             *)

\* p is q with some entries left out.
Thins(p, q) ==
  \E f \in [DOMAIN p -> DOMAIN q] :
     /\ \A i \in DOMAIN p : p[i] = q[f[i]]
     /\ \A i, j \in DOMAIN p : f[i] = f[j] => i = j

\* A list thins itself.
LEMMA ThinsItself == ASSUME NEW q PROVE Thins(q, q)
<1> DEFINE f == [i \in DOMAIN q |-> i]
<1>1. f \in [DOMAIN q -> DOMAIN q]
  BY Zenon
<1> QED
  BY <1>1, Zenon DEF Thins

\* The empty list thins any list.
LEMMA EmptyThins == ASSUME NEW S, NEW q \in Seq(S) PROVE Thins(<< >>, q)
<1> DEFINE f == [i \in DOMAIN << >> |-> 1]
<1>1. DOMAIN << >> = {}
  OBVIOUS
<1>2. f \in [DOMAIN << >> -> DOMAIN q]
  BY <1>1, Zenon
<1> QED
  BY <1>1, <1>2, Zenon DEF Thins

\* Taking an entry out thins a list, and that entry is not in what is left.
LEMMA WithoutThins ==
  ASSUME NEW S, NEW q \in Seq(S), NEW i \in 1 .. Len(q)
  PROVE  /\ Thins(Without(q, i), q)
         /\ \A j \in DOMAIN Without(q, i) :
              \E k \in DOMAIN q : k # i /\ Without(q, i)[j] = q[k]
<1> DEFINE p == Without(q, i)
           f == [j \in 1 .. Len(q) - 1 |-> IF j < i THEN j ELSE j + 1]
<1>1. p \in Seq(S) /\ Len(p) = Len(q) - 1
      /\ \A j \in 1 .. Len(q) - 1 : p[j] = IF j < i THEN q[j] ELSE q[j + 1]
  BY WithoutFacts, Zenon
<1>2. DOMAIN p = 1 .. Len(q) - 1 /\ DOMAIN q = 1 .. Len(q) /\ Len(q) \in Nat
  BY <1>1
<1> HIDE DEF p
<1>3. f \in [DOMAIN p -> DOMAIN q]
  BY <1>2
<1>4. \A j \in DOMAIN p : p[j] = q[f[j]] /\ f[j] # i
  BY <1>1, <1>2
<1>5. \A j, k \in DOMAIN p : f[j] = f[k] => j = k
  BY <1>2
<1>6. Thins(p, q)
  BY <1>3, <1>4, <1>5, Zenon DEF Thins
<1>7. \A j \in DOMAIN p : \E k \in DOMAIN q : k # i /\ p[j] = q[k]
  BY <1>3, <1>4, Zenon
<1> QED
  BY <1>6, <1>7, Zenon DEF p

-----------------------------------------------------------------------------
(* The inductive invariant                                                 *)

States == {"UNUSED", "RUNNABLE", "RUNNING", "BLOCKED"}

\* A task's id is its slot and the slot's generation, which is within bounds.
Names ==
  \A s \in Slots : Occupied(s) => id[s] = TaskId(s, gen[s]) /\ gen[s] <= MaxGen

\* Slot 0 is never retired, so that id 0 names it and wait_for = 0 nobody.
FirstLives == state[0] # "UNUSED"

\* Only the current task is RUNNING, and it is unless schedule() is halted.
OneRunning ==
  /\ \A s \in Slots : state[s] = "RUNNING" => s = current
  /\ ~parked => state[current] = "RUNNING"

\* A task that is not blocked waits for nothing, a blocked one for one thing.
Unblocked ==
  \A s \in Slots : Occupied(s) /\ state[s] # "BLOCKED"
                     => ~waiting_recv[s] /\ wait_for[s] = 0
OneReason ==
  \A s \in Slots : state[s] = "BLOCKED" => ~waiting_recv[s] \/ wait_for[s] = 0

IInv ==
  /\ TypeOK /\ Names /\ FirstLives /\ OneRunning /\ Unblocked /\ OneReason
  /\ QueueSound /\ NoMissedRendezvous /\ NobodyWaitsForTheDead

-----------------------------------------------------------------------------
(* Facts about ids and slots                                               *)

\* What the assumptions on the constants say of slots.
LEMMA SlotFacts ==
  /\ 0 \in Slots /\ Nil \notin Slots /\ NTASK \in Nat \ {0} /\ MaxGen \in Nat
  /\ \A s \in Slots : s \in Nat /\ s < 256
  /\ Idle \in Slots
BY KernelAssumption DEF Slots, Nil

\* Ids are natural numbers, 0 among them, and every task has one.
LEMMA IdFacts ==
  /\ 0 \in Ids
  /\ \A x \in Ids : x \in Nat
  /\ \A s \in Slots, g \in Nat : g <= MaxGen => TaskId(s, g) \in Ids
<1>1. \A s \in Slots, g \in Nat : g <= MaxGen => TaskId(s, g) \in Ids
  BY SlotFacts DEF Ids
<1>2. TaskId(0, 0) = 0
  BY DEF TaskId
<1>3. \A x \in Ids : x \in Nat
  BY SlotFacts DEF Ids, TaskId
<1> QED
  BY <1>1, <1>2, <1>3, SlotFacts

\* Only the task of slot 0 can have the id 0.
LEMMA NonzeroId ==
  ASSUME NEW s \in Slots \ {0}, NEW g \in Nat PROVE TaskId(s, g) # 0
BY SlotFacts DEF TaskId

\* What task_by_id finds is a task with that id, in the slot the id names.
LEMMA TaskById ==
  ASSUME NEW x, task_by_id(x) # Nil
  PROVE  /\ task_by_id(x) \in Slots /\ Occupied(task_by_id(x))
         /\ id[task_by_id(x)] = x /\ task_by_id(x) = TASK_SLOT(x)
BY Zenon DEF task_by_id

\* Where task_by_id finds somebody, and where it still does after a step.
LEMMA FoundById ==
  ASSUME IInv, NEW s \in Slots, Occupied(s) PROVE task_by_id(id[s]) = s
<1>1. id[s] = TaskId(s, gen[s]) /\ gen[s] \in Nat
  BY SlotFacts DEF IInv, Names, TypeOK
<1>2. TASK_SLOT(id[s]) = s
  BY <1>1, SlotOfId, Zenon
<1> QED
  BY <1>2, Zenon DEF task_by_id

\* What schedule() does to the run states: it only changes who is running.
LEMMA ScheduleFacts ==
  ASSUME TypeOK, NEW st \in [Slots -> States], schedule(st), ~parked,
         \A s \in Slots : st[s] = "RUNNING" => s = current
  PROVE  /\ state' \in [Slots -> States] /\ current' \in Slots
         /\ parked' \in BOOLEAN
         /\ \A s \in Slots : /\ state'[s] = "BLOCKED" <=> st[s] = "BLOCKED"
                             /\ state'[s] = "UNUSED" <=> st[s] = "UNUSED"
         /\ OneRunning'
         /\ parked' => \A s \in Slots : st[s] \in {"BLOCKED", "UNUSED"}
<1> DEFINE put == PutBack(st)
<1>1. put \in [Slots -> States]
  BY Zenon DEF PutBack, States
<1>2. \A s \in Slots : /\ put[s] = "BLOCKED" <=> st[s] = "BLOCKED"
                       /\ put[s] = "UNUSED" <=> st[s] = "UNUSED"
                       /\ put[s] # "RUNNING"
  BY Zenon DEF PutBack, States
<1>3. \A i \in 1 .. NTASK : Scan(i) \in Slots
  <2> TAKE i \in 1 .. NTASK
  <2>1. id[current] \in Nat
    BY IdFacts, Zenon DEF TypeOK
  <2>2. id[current] + i \in Int
    BY <2>1
  <2> QED
    BY <2>2, ModRange, SlotFacts, Zenon DEF Scan, Slots
<1> HIDE DEF put
<1>4. CASE /\ \A s \in Slots : put[s] # "RUNNABLE"
           /\ state' = put /\ parked' = TRUE /\ UNCHANGED current
  BY <1>1, <1>2, <1>4, Zenon DEF TypeOK, OneRunning, States
<1>5. ASSUME NEW i \in 1 .. NTASK, put[Scan(i)] = "RUNNABLE",
             state' = [s \in Slots |-> IF s = Scan(i) THEN "RUNNING" ELSE put[s]],
             current' = Scan(i), UNCHANGED parked
      PROVE  /\ state' \in [Slots -> States] /\ current' \in Slots
             /\ \A s \in Slots : /\ state'[s] = "BLOCKED" <=> st[s] = "BLOCKED"
                                 /\ state'[s] = "UNUSED" <=> st[s] = "UNUSED"
             /\ OneRunning' /\ ~parked'
  <2>1. Scan(i) \in Slots
    BY <1>3, Zenon
  <2> QED
    BY <1>1, <1>2, <1>5, <2>1, Zenon DEF OneRunning, States
<1> QED
  BY <1>4, <1>5, Zenon DEF schedule, put, TypeOK

-----------------------------------------------------------------------------
(* Steps that touch no queue and wake at most receivers                    *)

\* A step that ends the receives of W.
Wakes(W) ==
  /\ \A s \in W : InRecv(s)
  /\ UNCHANGED <<tableVars, queue, recv_from, wait_for>>
  /\ \A s \in Slots :
       /\ waiting_recv'[s] <=> waiting_recv[s] /\ s \notin W
       /\ s \notin W => recv_closed'[s] = recv_closed[s]
       /\ state'[s] = "BLOCKED" <=> state[s] = "BLOCKED" /\ s \notin W
       /\ state'[s] = "UNUSED" => state[s] = "UNUSED"
       /\ Occupied(s)' <=> Occupied(s)
       /\ InRecv(s) /\ s \notin W => /\ irq_pending'[s] => irq_pending[s]
                                     /\ timer_pending'[s] => timer_pending[s]

\* A step that ends some receives and touches no queue keeps the invariant.
LEMMA WakeReceivers ==
  ASSUME IInv, TypeOK', OneRunning', NEW W \in SUBSET Slots, Wakes(W)
  PROVE  IInv'
<1> USE DEF tableVars, Wakes
<1>1. Names' /\ FirstLives'
  BY SlotFacts, Zenon DEF IInv, Names, FirstLives
<1>2. Unblocked'
  BY Zenon DEF IInv, Unblocked, OneReason, InRecv, TypeOK
<1>3. OneReason'
  BY Zenon DEF IInv, OneReason
<1>4. QueueSound'
  <2>1. ASSUME NEW d \in Slots, NEW i \in DOMAIN queue[d]
        PROVE queue[d][i] \in Slots \ W
    BY DEF IInv, QueueSound, InRecv, TypeOK
  <2> QED
    BY <2>1 DEF IInv, QueueSound, TypeOK
<1>5. NoMissedRendezvous'
  BY Zenon DEF IInv, NoMissedRendezvous, InRecv
<1>6. NobodyWaitsForTheDead'
  <2>1. \A x \in Ids : task_by_id(x)' = task_by_id(x)
    BY Zenon DEF task_by_id
  <2> QED
    BY <2>1, SMTT(30) DEF IInv, NobodyWaitsForTheDead, TypeOK
<1> QED
  BY <1>1, <1>2, <1>3, <1>4, <1>5, <1>6, Zenon DEF IInv

\* The calls that answer at once.
LEMMA AnswerStep ==
  ASSUME IInv, NEW r \in Ids \cup {FAIL, IRQ_SENDER, TIMER_SENDER, None},
         Answer(r)
  PROVE  IInv'
<1> USE DEF Answer, schedVars, tableVars, recvVars, eventVars, irqVars
<1>1. TypeOK'
  BY Zenon DEF IInv, TypeOK, Return, Answers
<1>2. OneRunning'
  BY Zenon DEF IInv, OneRunning
<1>3. Wakes({})
  BY <1>1, Zenon DEF Wakes, IInv, TypeOK, Occupied
<1> QED
  BY <1>1, <1>2, <1>3, WakeReceivers, Zenon

\* The task on the hart waits for nothing.
LEMMA CurrentFacts ==
  ASSUME IInv, ~parked
  PROVE  /\ current \in Slots /\ state[current] = "RUNNING" /\ Occupied(current)
         /\ ~InRecv(current) /\ ~waiting_recv[current] /\ wait_for[current] = 0
         /\ id[current] \in Ids
BY Zenon DEF IInv, OneRunning, TypeOK, Occupied, InRecv, Unblocked

\* SYS_YIELD keeps the invariant.
LEMMA YieldStep == ASSUME IInv, Yield PROVE IInv'
<1> USE DEF Yield, tableVars, recvVars, eventVars, irqVars
<1>1. /\ state' \in [Slots -> States] /\ current' \in Slots
      /\ parked' \in BOOLEAN /\ OneRunning'
      /\ \A s \in Slots : /\ state'[s] = "BLOCKED" <=> state[s] = "BLOCKED"
                          /\ state'[s] = "UNUSED" <=> state[s] = "UNUSED"
  BY ScheduleFacts, Zenon DEF IInv, OneRunning, TypeOK, States
<1>2. TypeOK'
  BY <1>1, Zenon DEF IInv, TypeOK, Silent, Answers, States
<1>3. Wakes({})
  BY <1>1, Zenon DEF Wakes, IInv, TypeOK, Occupied
<1> QED
  BY <1>1, <1>2, <1>3, WakeReceivers, Zenon

\* SYS_ALARM keeps the invariant.
LEMMA AlarmStep == ASSUME IInv, NEW on \in BOOLEAN, Alarm(on) PROVE IInv'
<1> USE DEF Alarm, schedVars, tableVars, recvVars, irqVars
<1>1. TypeOK'
  BY IdFacts, Zenon DEF IInv, TypeOK, Return, Answers
<1>2. OneRunning'
  BY Zenon DEF IInv, OneRunning
<1>3. Wakes({})
  BY <1>1, Zenon DEF Wakes, IInv, TypeOK, Occupied
<1> QED
  BY <1>1, <1>2, <1>3, WakeReceivers, Zenon

\* irq_register and irq_ack keep the invariant.
LEMMA IrqCallStep ==
  ASSUME IInv, NEW irq \in Irqs, IrqRegister(irq) \/ IrqAck(irq) PROVE IInv'
<1> USE DEF schedVars, tableVars, recvVars, eventVars, irqVars
<1>1. CASE IrqAck(irq) /\ irq_owner[irq] # current
  BY <1>1, AnswerStep, Zenon DEF IrqAck
<1>2. CASE IrqRegister(irq) \/ (IrqAck(irq) /\ irq_owner[irq] = current)
  <2>1. /\ UNCHANGED <<schedVars, tableVars, queue, recvVars, wait_for, eventVars>>
        /\ Return(0)
    BY <1>2, Zenon DEF IrqRegister, IrqAck
  <2>2. irq_owner' \in [Irqs -> Slots \cup {Nil}] /\ masked' \subseteq Irqs
    BY <1>2, Zenon DEF IrqRegister, IrqAck, IInv, TypeOK
  <2>3. TypeOK'
    BY <2>1, <2>2, IdFacts, Zenon DEF IInv, TypeOK, Return, Answers
  <2>4. OneRunning'
    BY <2>1, Zenon DEF IInv, OneRunning
  <2>5. Wakes({})
    BY <2>1, Zenon DEF Wakes, IInv, TypeOK, Occupied
  <2> QED
    BY <2>3, <2>4, <2>5, WakeReceivers, Zenon
<1> QED
  BY <1>1, <1>2, Zenon

\* A receive that takes a sticky event keeps the invariant (ipc_recv).
LEMMA RecvEventStep ==
  ASSUME IInv, ~parked, RecvIrq \/ RecvTimer PROVE IInv'
<1> USE DEF schedVars, tableVars, recvVars, irqVars
<1>1. /\ UNCHANGED <<schedVars, tableVars, queue, recvVars, wait_for, alarm_at,
                     irqVars>>
      /\ Return(IRQ_SENDER) \/ Return(TIMER_SENDER)
      /\ irq_pending' \in {irq_pending, [irq_pending EXCEPT ![current] = FALSE]}
      /\ timer_pending' \in
           {timer_pending, [timer_pending EXCEPT ![current] = FALSE]}
  BY Zenon DEF RecvIrq, RecvTimer
<1>2. TypeOK'
  BY <1>1, Zenon DEF IInv, TypeOK, Return, Answers
<1>3. OneRunning'
  BY <1>1, Zenon DEF IInv, OneRunning
<1>4. Wakes({})
  BY <1>1, Zenon DEF Wakes, IInv, TypeOK, Occupied
<1> QED
  BY <1>2, <1>3, <1>4, WakeReceivers, Zenon

\* A send to a waiting receiver keeps the invariant (ipc_send).
LEMMA SendDeliversStep ==
  ASSUME IInv, ~parked, NEW d \in Slots, SendDelivers(d) PROVE IInv'
<1> USE DEF SendDelivers, tableVars, eventVars, irqVars
<1>1. d # current /\ InRecv(d) /\ id[current] \in Ids
  BY CurrentFacts, Zenon DEF wants, InRecv
<1>2. a0' \in [Slots -> Ids \cup {FAIL, IRQ_SENDER, TIMER_SENDER, None}]
  BY <1>1, IdFacts, Zenon DEF Answers
<1>3. TypeOK'
  BY <1>2, Zenon DEF IInv, TypeOK
<1>4. OneRunning'
  BY <1>1, Zenon DEF IInv, OneRunning, TypeOK
<1>5. Wakes({d})
  BY <1>1, Zenon DEF Wakes, IInv, TypeOK, Occupied, InRecv
<1> QED
  BY <1>3, <1>4, <1>5, WakeReceivers, Zenon

\* SYS_START keeps the invariant.
LEMMA StartStep ==
  ASSUME IInv, NEW x \in Ids, Start(x) PROVE IInv'
<1> DEFINE t == task_by_id(x)
<1> USE DEF tableVars, recvVars, eventVars, irqVars
<1>1. CASE t \in {Nil, 0} \/ state[t] # "UNUSED"
  BY <1>1, AnswerStep, Zenon DEF Start
<1>2. CASE ~(t \in {Nil, 0} \/ state[t] # "UNUSED")
  <2>1. t \in Slots /\ state[t] = "UNUSED" /\ Occupied(t)
    BY <1>2, TaskById, Zenon
  <2> HIDE DEF t
  <2>2. /\ state' = [state EXCEPT ![t] = "RUNNABLE"] /\ Return(0)
        /\ UNCHANGED <<current, parked, tableVars, queue, recvVars, wait_for,
                       eventVars, irqVars>>
    BY <1>2, Zenon DEF Start, t
  <2>3. TypeOK'
    BY <2>1, <2>2, IdFacts, Zenon DEF IInv, TypeOK, Return, Answers
  <2>4. OneRunning'
    BY <2>1, <2>2, Zenon DEF IInv, OneRunning, TypeOK, Start, Syscall
  <2>5. Wakes({})
    BY <2>1, <2>2, Zenon DEF Wakes, IInv, TypeOK, Occupied
  <2> QED
    BY <2>3, <2>4, <2>5, WakeReceivers, Zenon
<1> QED
  BY <1>1, <1>2, Zenon

\* The timer interrupt, alarms_check included, keeps the invariant.
LEMMA TimerTickStep ==
  ASSUME IInv, NEW due \in SUBSET Slots, TimerTick(due) PROVE IInv'
<1> DEFINE W == {s \in due : InRecv(s)}
           st == [s \in Slots |-> IF s \in due /\ InRecv(s) THEN "RUNNABLE"
                                                            ELSE state[s]]
<1> USE DEF tableVars, irqVars
<1>1. st \in [Slots -> States]
      /\ \A s \in Slots : st[s] = "RUNNING" => s = current
  BY Zenon DEF IInv, TypeOK, States, OneRunning
<1>2. schedule(st) /\ ~parked
  BY Zenon DEF TimerTick
<1>3. \A s \in Slots : /\ st[s] = "BLOCKED" <=> state[s] = "BLOCKED" /\ s \notin W
                       /\ st[s] = "UNUSED" <=> state[s] = "UNUSED"
  BY Zenon DEF InRecv
<1> HIDE DEF st
<1>4. /\ state' \in [Slots -> States] /\ current' \in Slots
      /\ parked' \in BOOLEAN /\ OneRunning'
      /\ \A s \in Slots : /\ state'[s] = "BLOCKED" <=> st[s] = "BLOCKED"
                          /\ state'[s] = "UNUSED" <=> st[s] = "UNUSED"
  BY <1>1, <1>2, ScheduleFacts, Zenon DEF IInv
<1>5. /\ waiting_recv' = [s \in Slots |-> waiting_recv[s] /\
                                          ~(s \in due /\ InRecv(s))]
      /\ timer_pending' = [s \in Slots |-> timer_pending[s] \/
                                           (s \in due /\ ~InRecv(s))]
      /\ alarm_at' = [s \in Slots |-> alarm_at[s] /\ s \notin due]
      /\ a0' = Answers(W, TIMER_SENDER)
      /\ UNCHANGED <<tableVars, queue, recv_closed, recv_from, wait_for,
                     irq_pending, irqVars>>
  BY Zenon DEF TimerTick, AlarmFlags
<1>6. TypeOK'
  BY <1>4, <1>5, Zenon DEF IInv, TypeOK, Answers, States
<1>7. Wakes(W)
  BY <1>3, <1>4, <1>5, ZenonT(30) DEF Wakes, Occupied
<1> QED
  BY <1>4, <1>6, <1>7, WakeReceivers, Zenon

\* device_interrupt keeps the invariant.
LEMMA DeviceInterruptStep ==
  ASSUME IInv, NEW irq \in Irqs, DeviceInterrupt(irq) PROVE IInv'
<1> DEFINE t == irq_owner[irq]
<1> USE DEF tableVars
<1>1. t \in Slots /\ masked' \subseteq Irqs /\ ~parked
      /\ UNCHANGED <<current, parked, tableVars, queue, recv_closed, recv_from,
                    wait_for, timer_pending, alarm_at, irq_owner>>
  BY Zenon DEF DeviceInterrupt, IInv, TypeOK
<1>2. CASE InRecv(t)
  <2>1. /\ a0' = Answers({t}, IRQ_SENDER)
        /\ waiting_recv' = [waiting_recv EXCEPT ![t] = FALSE]
        /\ state' = [state EXCEPT ![t] = "RUNNABLE"]
        /\ UNCHANGED irq_pending
    BY <1>2, Zenon DEF DeviceInterrupt
  <2> HIDE DEF t
  <2>2. TypeOK'
    BY <1>1, <2>1, Zenon DEF IInv, TypeOK, Answers
  <2>3. OneRunning'
    BY <1>1, <1>2, <2>1, CurrentFacts, Zenon DEF IInv, OneRunning, TypeOK
  <2>4. Wakes({t})
    BY <1>1, <1>2, <2>1, Zenon DEF Wakes, Occupied, InRecv, IInv, TypeOK
  <2> QED
    BY <1>1, <2>2, <2>3, <2>4, WakeReceivers, Zenon
<1>3. CASE ~InRecv(t)
  <2>1. /\ irq_pending' = [irq_pending EXCEPT ![t] = TRUE]
        /\ Silent
        /\ UNCHANGED <<waiting_recv, state>>
    BY <1>3, Zenon DEF DeviceInterrupt, IrqFlags
  <2> HIDE DEF t
  <2>2. TypeOK'
    BY <1>1, <2>1, Zenon DEF IInv, TypeOK, Silent, Answers
  <2>3. OneRunning'
    BY <1>1, <2>1, Zenon DEF IInv, OneRunning
  <2>4. Wakes({})
    BY <1>1, <1>3, <2>1, Zenon DEF Wakes, Occupied, InRecv, IInv, TypeOK
  <2> QED
    BY <2>2, <2>3, <2>4, WakeReceivers, Zenon
<1> QED
  BY <1>2, <1>3, Zenon

-----------------------------------------------------------------------------
(* Steps that block the current task                                       *)

\* What blocking the current task and schedule() do to the run states.
LEMMA BlockFacts ==
  ASSUME IInv, ~parked, schedule([state EXCEPT ![current] = "BLOCKED"])
  PROVE  /\ state' \in [Slots -> States] /\ current' \in Slots
         /\ parked' \in BOOLEAN /\ OneRunning'
         /\ \A s \in Slots :
              /\ state'[s] = "BLOCKED" <=> state[s] = "BLOCKED" \/ s = current
              /\ state'[s] = "UNUSED" <=> state[s] = "UNUSED"
<1> DEFINE st == [state EXCEPT ![current] = "BLOCKED"]
<1>1. st \in [Slots -> States]
      /\ \A s \in Slots : st[s] = "RUNNING" => s = current
  BY Zenon DEF IInv, TypeOK, States, OneRunning
<1>2. \A s \in Slots : /\ st[s] = "BLOCKED" <=> state[s] = "BLOCKED" \/ s = current
                       /\ st[s] = "UNUSED" <=> state[s] = "UNUSED"
  BY CurrentFacts, Zenon DEF IInv, TypeOK
<1> HIDE DEF st
<1>3. /\ state' \in [Slots -> States] /\ current' \in Slots
      /\ parked' \in BOOLEAN /\ OneRunning'
      /\ \A s \in Slots : /\ state'[s] = "BLOCKED" <=> st[s] = "BLOCKED"
                          /\ state'[s] = "UNUSED" <=> st[s] = "UNUSED"
  BY <1>1, ScheduleFacts, ZenonT(30) DEF IInv, st
<1> QED
  BY <1>2, <1>3, Zenon

\* A send that queues its caller keeps the invariant (ipc_send).
LEMMA SendParksStep ==
  ASSUME IInv, ~parked, NEW d \in Slots, d # current, state[d] # "UNUSED",
         SendParks(d)
  PROVE  IInv'
<1> USE DEF tableVars, eventVars, irqVars
<1> DEFINE c == current
<1>1. /\ state' \in [Slots -> States] /\ current' \in Slots
      /\ parked' \in BOOLEAN /\ OneRunning'
      /\ \A s \in Slots :
           /\ state'[s] = "BLOCKED" <=> state[s] = "BLOCKED" \/ s = c
           /\ state'[s] = "UNUSED" <=> state[s] = "UNUSED"
  BY BlockFacts, Zenon DEF SendParks
<1>2. /\ c \in Slots /\ state[c] = "RUNNING" /\ ~waiting_recv[c]
      /\ wait_for[c] = 0
  BY CurrentFacts, Zenon
<1>3. /\ queue' = [queue EXCEPT ![d] = Append(queue[d], c)]
      /\ UNCHANGED <<tableVars, recv_closed, recv_from, wait_for, eventVars,
                     irqVars>>
      /\ Silent /\ ~wants(d, c)
  BY Zenon DEF SendParks, enqueue_sender
<1>4. waiting_recv' = waiting_recv
  BY <1>2, Zenon DEF SendParks, IInv, TypeOK
<1> HIDE DEF c
<1>5. /\ queue'[d] \in Seq(Slots) /\ Len(queue'[d]) = Len(queue[d]) + 1
      /\ Len(queue[d]) \in Nat
      /\ \A i \in 1 .. Len(queue[d]) : queue'[d][i] = queue[d][i]
      /\ queue'[d][Len(queue[d]) + 1] = c
      /\ DOMAIN queue'[d] = 1 .. Len(queue[d]) + 1
      /\ DOMAIN queue[d] = 1 .. Len(queue[d])
  BY <1>2, <1>3, AppendFacts, SMTT(30) DEF IInv, TypeOK
<1>6. \A e \in Slots : e # d => queue'[e] = queue[e]
  BY <1>3, Zenon DEF IInv, TypeOK
<1>7. TypeOK'
  BY <1>1, <1>2, <1>3, <1>4, SMTT(30) DEF IInv, TypeOK, States, Silent, Answers
<1>8. Names' /\ FirstLives' /\ Unblocked' /\ OneReason'
  BY <1>1, <1>2, <1>3, <1>4, SlotFacts, Zenon
     DEF IInv, Names, FirstLives, Unblocked, OneReason, Occupied
<1>9. QueueSound'
  <2>1. \A e \in Slots : \A i \in DOMAIN queue'[e] :
           \/ e = d /\ i = Len(queue[d]) + 1 /\ queue'[e][i] = c
           \/ i \in DOMAIN queue[e] /\ queue'[e][i] = queue[e][i]
    BY <1>5, <1>6, SMTT(30)
  <2>2. \A e \in Slots : \A i \in DOMAIN queue[e] : queue[e][i] \in Slots \ {c}
    BY <1>2, SMTT(30) DEF IInv, QueueSound, TypeOK
  <2>3. ASSUME NEW e \in Slots, NEW i \in DOMAIN queue'[e]
        PROVE  /\ queue'[e][i] # e /\ state'[e] # "UNUSED"
               /\ state'[queue'[e][i]] = "BLOCKED"
               /\ ~waiting_recv'[queue'[e][i]] /\ wait_for'[queue'[e][i]] = 0
    <3>1. CASE e = d /\ queue'[e][i] = c
      BY <3>1, <1>1, <1>2, <1>3, <1>4, Zenon DEF c
    <3>2. CASE i \in DOMAIN queue[e] /\ queue'[e][i] = queue[e][i]
      BY <3>2, <1>1, <1>2, <1>3, <1>4, <2>2, SMTT(30) DEF IInv, QueueSound
    <3> QED
      BY <3>1, <3>2, <2>1, Zenon
  <2>4. ASSUME NEW e \in Slots, NEW f \in Slots, NEW i \in DOMAIN queue'[e],
               NEW j \in DOMAIN queue'[f], queue'[e][i] = queue'[f][j]
        PROVE  e = f /\ i = j
    BY <2>1, <2>2, <2>4, SMTT(30) DEF IInv, QueueSound
  <2> QED
    BY <2>3, <2>4, Zenon DEF QueueSound
<1>10. NoMissedRendezvous'
  <2> SUFFICES ASSUME NEW e \in Slots, InRecv(e)'
               PROVE  /\ \A i \in DOMAIN queue'[e] :
                           recv_closed'[e] /\ id'[queue'[e][i]] # recv_from'[e]
                      /\ ~recv_closed'[e] => ~irq_pending'[e] /\ ~timer_pending'[e]
    BY Zenon DEF NoMissedRendezvous
  <2>1. InRecv(e)
    BY <1>1, <1>2, <1>4, Zenon DEF InRecv
  <2>2. \A i \in DOMAIN queue'[e] :
          recv_closed'[e] /\ id'[queue'[e][i]] # recv_from'[e]
    <3>1. CASE e = d
      BY <3>1, <2>1, <1>3, <1>5, SMTT(30)
         DEF wants, InRecv, IInv, NoMissedRendezvous
    <3>2. CASE e # d
      BY <3>2, <2>1, <1>3, <1>6, SMTT(30) DEF IInv, NoMissedRendezvous
    <3> QED
      BY <3>1, <3>2, Zenon
  <2> QED
    BY <2>1, <2>2, <1>3, Zenon DEF IInv, NoMissedRendezvous
<1>11. NobodyWaitsForTheDead'
  <2>1. \A x \in Ids : task_by_id(x)' = task_by_id(x)
    BY <1>1, <1>3, Zenon DEF task_by_id, Occupied, Slots
  <2> QED
    BY <2>1, <1>1, <1>2, <1>3, <1>4, Zenon DEF IInv, NobodyWaitsForTheDead, TypeOK
<1> QED
  BY <1>1, <1>7, <1>8, <1>9, <1>10, <1>11, Zenon DEF IInv

\* A receive that blocks its caller keeps the invariant (ipc_recv).
LEMMA RecvParksStep ==
  ASSUME IInv, ~parked, NEW closed \in BOOLEAN, NEW want \in Ids,
         RecvParks(closed, want),
         IF closed THEN task_by_id(want) # Nil ELSE NoEvent
  PROVE  IInv'
<1> USE DEF tableVars, eventVars, irqVars
<1> DEFINE c == current
<1>1. /\ state' \in [Slots -> States] /\ current' \in Slots
      /\ parked' \in BOOLEAN /\ OneRunning'
      /\ \A s \in Slots :
           /\ state'[s] = "BLOCKED" <=> state[s] = "BLOCKED" \/ s = c
           /\ state'[s] = "UNUSED" <=> state[s] = "UNUSED"
  BY BlockFacts, Zenon DEF RecvParks
<1>2. /\ c \in Slots /\ state[c] = "RUNNING" /\ wait_for[c] = 0
  BY CurrentFacts, Zenon
<1>3. /\ waiting_recv' = [waiting_recv EXCEPT ![c] = TRUE]
      /\ recv_closed' = [recv_closed EXCEPT ![c] = closed]
      /\ recv_from' = [recv_from EXCEPT ![c] = want]
      /\ UNCHANGED <<tableVars, queue, wait_for, eventVars, irqVars>>
      /\ Silent
      /\ \A i \in DOMAIN queue[c] : closed /\ id[queue[c][i]] # want
      /\ ~closed => ~irq_pending[c] /\ ~timer_pending[c]
  BY Zenon DEF RecvParks, Matches, NoEvent
<1> HIDE DEF c
<1>4. TypeOK'
  BY <1>1, <1>2, <1>3, Zenon DEF IInv, TypeOK, States, Silent, Answers
<1>5. Names' /\ FirstLives' /\ Unblocked' /\ OneReason'
  BY <1>1, <1>2, <1>3, SlotFacts, ZenonT(30)
     DEF IInv, Names, FirstLives, Unblocked, OneReason, Occupied, TypeOK
<1>6. QueueSound'
  <2>1. \A e \in Slots : \A i \in DOMAIN queue[e] : queue[e][i] \in Slots \ {c}
    BY <1>2, SMTT(20) DEF IInv, QueueSound, TypeOK
  <2> QED
    BY <2>1, <1>1, <1>2, <1>3, SMTT(30) DEF IInv, QueueSound, TypeOK
<1>7. NoMissedRendezvous'
  <2> SUFFICES ASSUME NEW e \in Slots, InRecv(e)'
               PROVE  /\ \A i \in DOMAIN queue'[e] :
                           recv_closed'[e] /\ id'[queue'[e][i]] # recv_from'[e]
                      /\ ~recv_closed'[e] => ~irq_pending'[e] /\ ~timer_pending'[e]
    BY ZenonT(30) DEF NoMissedRendezvous
  <2>1. CASE e = c
    BY <2>1, <1>2, <1>3, Zenon DEF IInv, TypeOK
  <2>2. CASE e # c
    <3>1. InRecv(e)
      BY <2>2, <1>1, <1>3, Zenon DEF InRecv, IInv, TypeOK
    <3> QED
      BY <3>1, <2>2, <1>3, Zenon DEF IInv, NoMissedRendezvous, TypeOK
  <2> QED
    BY <2>1, <2>2, ZenonT(30)
<1>8. NobodyWaitsForTheDead'
  <2>1. \A x \in Ids : task_by_id(x)' = task_by_id(x)
    BY <1>1, <1>3, Zenon DEF task_by_id, Occupied, Slots
  <2> QED
    BY <2>1, <1>1, <1>2, <1>3, Zenon DEF IInv, NobodyWaitsForTheDead, TypeOK
<1> QED
  BY <1>1, <1>4, <1>5, <1>6, <1>7, <1>8, Zenon DEF IInv

\* SYS_WAIT keeps the invariant.
LEMMA WaitStep ==
  ASSUME IInv, NEW x \in WaitIds, Wait(x) PROVE IInv'
<1> USE DEF tableVars, recvVars, eventVars, irqVars
<1> DEFINE c == current
<1>0. ~parked /\ x \in Ids /\ 0 \in Ids
  BY KernelAssumption, IdFacts, Zenon DEF Wait, Syscall
<1>1. CASE task_by_id(x) = Nil
  BY <1>0, <1>1, AnswerStep, Zenon DEF Wait
<1>2. CASE task_by_id(x) # Nil
  <2>1. /\ state' \in [Slots -> States] /\ current' \in Slots
        /\ parked' \in BOOLEAN /\ OneRunning'
        /\ \A s \in Slots :
             /\ state'[s] = "BLOCKED" <=> state[s] = "BLOCKED" \/ s = c
             /\ state'[s] = "UNUSED" <=> state[s] = "UNUSED"
    BY <1>0, <1>2, BlockFacts, Zenon DEF Wait
  <2>2. /\ c \in Slots /\ state[c] = "RUNNING" /\ ~waiting_recv[c]
    BY <1>0, CurrentFacts, Zenon
  <2>3. /\ wait_for' = [wait_for EXCEPT ![c] = x]
        /\ UNCHANGED <<tableVars, queue, recvVars, eventVars, irqVars>>
        /\ Silent
    BY <1>2, Zenon DEF Wait
  <2> HIDE DEF c
  <2>4. TypeOK'
    BY <1>0, <2>1, <2>2, <2>3, Zenon DEF IInv, TypeOK, States, Silent, Answers
  <2>5. Names' /\ FirstLives' /\ Unblocked' /\ OneReason'
    BY <2>1, <2>2, <2>3, SlotFacts, ZenonT(30)
       DEF IInv, Names, FirstLives, Unblocked, OneReason, Occupied, TypeOK
  <2>6. QueueSound'
    <3>1. \A e \in Slots : \A i \in DOMAIN queue[e] : queue[e][i] \in Slots \ {c}
      BY <2>2, SMTT(20) DEF IInv, QueueSound, TypeOK
    <3> QED
      BY <3>1, <2>1, <2>2, <2>3, SMTT(30) DEF IInv, QueueSound, TypeOK
  <2>7. NoMissedRendezvous'
    BY <2>1, <2>2, <2>3, ZenonT(30) DEF IInv, NoMissedRendezvous, InRecv
  <2>8. NobodyWaitsForTheDead'
    <3>1. \A y \in Ids : task_by_id(y)' = task_by_id(y)
      BY <2>1, <2>3, Zenon DEF task_by_id, Occupied, Slots
    <3>2. /\ recv_from \in [Slots -> Ids] /\ wait_for \in [Slots -> Ids]
          /\ NobodyWaitsForTheDead
      BY Zenon DEF IInv, TypeOK
    <3> SUFFICES ASSUME NEW s \in Slots, state'[s] = "BLOCKED"
                 PROVE  /\ waiting_recv'[s] /\ recv_closed'[s]
                             => task_by_id(recv_from[s])' # Nil
                        /\ wait_for'[s] # 0 => task_by_id(wait_for[s])' # Nil
      BY Zenon DEF NobodyWaitsForTheDead
    <3>3. CASE s = c
      <4>1. wait_for'[s] = x /\ ~waiting_recv'[s]
        BY <2>2, <2>3, <3>2, <3>3, Zenon
      <4> QED
        BY <1>0, <1>2, <3>1, <4>1, Zenon
    <3>4. CASE s # c
      <4>1. /\ state[s] = "BLOCKED" /\ wait_for'[s] = wait_for[s] /\ wait_for[s] \in Ids
            /\ recv_from[s] \in Ids
        BY <2>1, <2>3, <3>2, <3>4, Zenon
      <4>2. /\ waiting_recv[s] /\ recv_closed[s] => task_by_id(recv_from[s]) # Nil
            /\ wait_for[s] # 0 => task_by_id(wait_for[s]) # Nil
        BY <3>2, <4>1, Zenon DEF NobodyWaitsForTheDead
      <4> QED
        BY <2>3, <3>1, <4>1, <4>2, Zenon
    <3> QED
      BY <3>3, <3>4, Zenon
  <2> QED
    BY <2>1, <2>4, <2>5, <2>6, <2>7, <2>8, Zenon DEF IInv
<1> QED
  BY <1>1, <1>2, Zenon

-----------------------------------------------------------------------------
(* Steps that shorten a queue                                              *)

\* Queues that only lose entries keep every task in one place.
LEMMA ThinnedQueues ==
  ASSUME IInv, queue' \in [Slots -> Seq(Slots)],
         \A d \in Slots : Thins(queue'[d], queue[d])
  PROVE  /\ \A d \in Slots : \A i \in DOMAIN queue'[d] :
              /\ queue'[d][i] \in Slots
              /\ \E k \in DOMAIN queue[d] : queue'[d][i] = queue[d][k]
         /\ \A d, e \in Slots : \A i \in DOMAIN queue'[d], j \in DOMAIN queue'[e] :
              queue'[d][i] = queue'[e][j] => d = e /\ i = j
<1>1. \A d \in Slots : \A i \in DOMAIN queue'[d] : queue'[d][i] \in Slots
  OBVIOUS
<1>2. \A d \in Slots : \A i \in DOMAIN queue'[d] :
         \E k \in DOMAIN queue[d] : queue'[d][i] = queue[d][k]
  BY ZenonT(30) DEF Thins
<1>3. ASSUME NEW d \in Slots, NEW e \in Slots, NEW i \in DOMAIN queue'[d],
             NEW j \in DOMAIN queue'[e], queue'[d][i] = queue'[e][j]
      PROVE  d = e /\ i = j
  <2>1. PICK f \in [DOMAIN queue'[d] -> DOMAIN queue[d]] :
           /\ \A k \in DOMAIN queue'[d] : queue'[d][k] = queue[d][f[k]]
           /\ \A k, l \in DOMAIN queue'[d] : f[k] = f[l] => k = l
    BY Zenon DEF Thins
  <2>2. PICK g \in [DOMAIN queue'[e] -> DOMAIN queue[e]] :
           \A k \in DOMAIN queue'[e] : queue'[e][k] = queue[e][g[k]]
    BY ZenonT(30) DEF Thins
  <2>3. f[i] \in DOMAIN queue[d] /\ g[j] \in DOMAIN queue[e]
        /\ queue[d][f[i]] = queue[e][g[j]]
    BY <1>3, <2>1, <2>2, Zenon
  <2>4. d = e
    BY <2>3, SMTT(30) DEF IInv, QueueSound
  <2>5. f[j] \in DOMAIN queue[d] /\ queue[d][f[i]] = queue[d][f[j]]
    BY <1>3, <2>1, <2>4, Zenon
  <2>6. f[i] = f[j]
    BY <2>3, <2>5, SMTT(30) DEF IInv, QueueSound
  <2> QED
    BY <2>1, <2>4, <2>6, Zenon
<1> QED
  BY <1>1, <1>2, <1>3, ZenonT(30)

\* A receive that unlinks a sender keeps the invariant (dequeue_sender).
LEMMA RecvTakesStep ==
  ASSUME IInv, ~parked, NEW closed, NEW want, NEW i \in DOMAIN queue[current],
         RecvTakes(closed, want, i)
  PROVE  IInv'
<1> USE DEF tableVars, recvVars, eventVars, irqVars
<1> DEFINE c == current
           s == queue[c][i]
<1>1. /\ c \in Slots /\ state[c] = "RUNNING" /\ ~waiting_recv[c]
      /\ wait_for[c] = 0 /\ ~InRecv(c)
  BY CurrentFacts, Zenon
<1>2. /\ queue' = [queue EXCEPT ![c] = Without(queue[c], i)]
      /\ UNCHANGED <<current, parked, tableVars, recvVars, wait_for, eventVars,
                     irqVars>>
      /\ \/ /\ a0' = [Answers({c}, id[s]) EXCEPT ![s] = 0]
            /\ state' = [state EXCEPT ![s] = "RUNNABLE"]
         \/ Return(FAIL) /\ UNCHANGED state
  BY Zenon DEF RecvTakes
<1>3. /\ s \in Slots /\ s # c /\ state[s] = "BLOCKED" /\ ~waiting_recv[s]
      /\ wait_for[s] = 0 /\ id[s] \in Ids
  <2>1. queue \in [Slots -> Seq(Slots)] /\ id \in [Slots -> Ids] /\ QueueSound
    BY Zenon DEF IInv, TypeOK
  <2>2. queue[c] \in Seq(Slots) /\ i \in DOMAIN queue[c]
    BY <1>1, <2>1, Zenon
  <2>3. s \in Slots
    <3> HIDE DEF c
    <3> QED
      BY <2>2
  <2>4. s # c /\ state[s] = "BLOCKED" /\ ~waiting_recv[s] /\ wait_for[s] = 0
    BY <1>1, <2>1, <2>2, Zenon DEF QueueSound
  <2> QED
    BY <2>1, <2>3, <2>4, Zenon
<1>4. queue[c] \in Seq(Slots) /\ i \in 1 .. Len(queue[c])
  BY <1>1 DEF IInv, TypeOK
<1>5. /\ Without(queue[c], i) \in Seq(Slots)
      /\ Thins(Without(queue[c], i), queue[c])
      /\ \A j \in DOMAIN Without(queue[c], i) :
           \E k \in DOMAIN queue[c] : k # i /\ Without(queue[c], i)[j] = queue[c][k]
  <2> HIDE DEF c
  <2>1. Without(queue[c], i) \in Seq(Slots)
    BY <1>4, WithoutFacts, Zenon
  <2> QED
    BY <1>4, <2>1, WithoutThins, ZenonT(30)
<1> HIDE DEF c
<1>6. /\ queue' \in [Slots -> Seq(Slots)]
      /\ queue'[c] = Without(queue[c], i)
      /\ \A d \in Slots : d # c => queue'[d] = queue[d]
  BY <1>1, <1>2, <1>5, ZenonT(30) DEF IInv, TypeOK
<1>7. \A d \in Slots : Thins(queue'[d], queue[d])
  BY <1>5, <1>6, ThinsItself, Zenon
<1>8. /\ \A d \in Slots : \A j \in DOMAIN queue'[d] :
           /\ queue'[d][j] \in Slots
           /\ \E k \in DOMAIN queue[d] : queue'[d][j] = queue[d][k]
      /\ \A d, e \in Slots : \A j \in DOMAIN queue'[d], k \in DOMAIN queue'[e] :
           queue'[d][j] = queue'[e][k] => d = e /\ j = k
  BY <1>6, <1>7, ThinnedQueues, ZenonT(30)
<1>9. \A d \in Slots : \A j \in DOMAIN queue'[d] : queue'[d][j] # s
  <2> SUFFICES ASSUME NEW d \in Slots, NEW j \in DOMAIN queue'[d]
               PROVE queue'[d][j] # s
    BY Zenon
  <2>1. CASE d = c
    <3>1. PICK k \in DOMAIN queue[c] : k # i /\ queue'[c][j] = queue[c][k]
      BY <2>1, <1>5, <1>6, ZenonT(30)
    <3> QED
      BY <2>1, <3>1, <1>1, <1>4, SMTT(30) DEF IInv, QueueSound
  <2>2. CASE d # c
    <3>1. j \in DOMAIN queue[d] /\ queue'[d][j] = queue[d][j]
      BY <2>2, <1>6, Zenon
    <3>2. i \in DOMAIN queue[c]
      BY Zenon DEF c
    <3> QED
      BY <2>2, <3>1, <3>2, <1>1, SMTT(30) DEF IInv, QueueSound
  <2> QED
    BY <2>1, <2>2, Zenon
<1> HIDE DEF s
<1>10. /\ state' \in [Slots -> States]
       /\ \A u \in Slots : /\ u # s => state'[u] = state[u]
                           /\ state'[u] = "UNUSED" <=> state[u] = "UNUSED"
                           /\ state'[u] = "BLOCKED" => state[u] = "BLOCKED"
                           /\ state'[u] = "RUNNING" <=> state[u] = "RUNNING"
  BY <1>2, <1>3, Zenon DEF IInv, TypeOK, States
<1>11. a0' \in [Slots -> Ids \cup {FAIL, IRQ_SENDER, TIMER_SENDER, None}]
  BY <1>2, <1>3, IdFacts, ZenonT(30) DEF Return, Answers
<1>12. TypeOK'
  BY <1>2, <1>6, <1>10, <1>11, ZenonT(30) DEF IInv, TypeOK, States
<1>13. Names' /\ FirstLives' /\ OneReason' /\ OneRunning'
  BY <1>1, <1>2, <1>10, SlotFacts, ZenonT(30)
     DEF IInv, Names, FirstLives, OneReason, OneRunning, Occupied, TypeOK
<1>14. Unblocked'
  BY <1>2, <1>3, <1>10, ZenonT(30) DEF IInv, Unblocked, Occupied
<1>15. QueueSound'
  <2> SUFFICES ASSUME NEW d \in Slots, NEW j \in DOMAIN queue'[d]
               PROVE  /\ queue'[d][j] # d /\ state'[d] # "UNUSED"
                      /\ state'[queue'[d][j]] = "BLOCKED"
                      /\ ~waiting_recv'[queue'[d][j]] /\ wait_for'[queue'[d][j]] = 0
    BY <1>8, SMTT(30) DEF QueueSound
  <2>1. PICK k \in DOMAIN queue[d] : queue'[d][j] = queue[d][k]
    BY <1>8, Zenon
  <2>2. PICK u \in Slots : u = queue[d][k]
    BY <1>8, <2>1, Zenon
  <2>3. /\ u # d /\ state[d] # "UNUSED" /\ state[u] = "BLOCKED" /\ ~waiting_recv[u]
        /\ wait_for[u] = 0
    BY <2>2, ZenonT(20) DEF IInv, QueueSound
  <2>4. u # s /\ queue'[d][j] = u
    BY <1>9, <2>1, <2>2, Zenon
  <2>5. state'[u] = state[u] /\ (state'[d] = "UNUSED" <=> state[d] = "UNUSED")
    BY <1>10, <2>4, Zenon
  <2> QED
    BY <1>2, <2>3, <2>4, <2>5, Zenon
<1>16. NoMissedRendezvous'
  <2> SUFFICES ASSUME NEW d \in Slots, InRecv(d)'
               PROVE  /\ \A j \in DOMAIN queue'[d] :
                           recv_closed'[d] /\ id'[queue'[d][j]] # recv_from'[d]
                      /\ ~recv_closed'[d] => ~irq_pending'[d] /\ ~timer_pending'[d]
    BY ZenonT(30) DEF NoMissedRendezvous
  <2>1. InRecv(d)
    BY <1>2, <1>10, Zenon DEF InRecv
  <2>2. /\ \A k \in DOMAIN queue[d] :
             recv_closed[d] /\ id[queue[d][k]] # recv_from[d]
        /\ ~recv_closed[d] => ~irq_pending[d] /\ ~timer_pending[d]
    BY <2>1, Zenon DEF IInv, NoMissedRendezvous
  <2>3. ASSUME NEW j \in DOMAIN queue'[d]
        PROVE  recv_closed[d] /\ id[queue'[d][j]] # recv_from[d]
    <3>1. PICK k \in DOMAIN queue[d] : queue'[d][j] = queue[d][k]
      BY <1>8, Zenon
    <3> QED
      BY <2>2, <3>1, Zenon
  <2> QED
    BY <1>2, <2>2, <2>3, Zenon
<1>17. NobodyWaitsForTheDead'
  <2>1. \A x \in Ids : task_by_id(x)' = task_by_id(x)
    BY <1>2, <1>10, ZenonT(30) DEF task_by_id, Occupied
  <2> QED
    BY <2>1, <1>2, <1>10, ZenonT(30) DEF IInv, NobodyWaitsForTheDead, TypeOK
<1> QED
  BY <1>12, <1>13, <1>14, <1>15, <1>16, <1>17, Zenon DEF IInv

\* A queue of the next state is sound if its members are and none is in two
\* places.
LEMMA QueueSoundNext ==
  ASSUME \A d \in Slots : \A i \in DOMAIN queue'[d] :
           /\ queue'[d][i] # d /\ state'[d] # "UNUSED"
           /\ state'[queue'[d][i]] = "BLOCKED"
           /\ ~waiting_recv'[queue'[d][i]] /\ wait_for'[queue'[d][i]] = 0,
         \A d, e \in Slots : \A i \in DOMAIN queue'[d], j \in DOMAIN queue'[e] :
           queue'[d][i] = queue'[e][j] => d = e /\ i = j
  PROVE  QueueSound'
BY Zenon DEF QueueSound

-----------------------------------------------------------------------------
(* Creation                                                                *)

\* A slot i has been handed out, to a task that was given an address space or
\* not, and that may run already.
Created(i, ok) ==
  /\ alloc_slot(i)
  /\ pt' = [pt EXCEPT ![i] = ok]
  /\ Return(IF ok THEN TaskId(i, gen[i]) ELSE FAIL)
  /\ \/ UNCHANGED state
     \/ state' = [state EXCEPT ![i] = IF ok THEN "RUNNABLE" ELSE @]

\* alloc_slot and what follows it keep the invariant: the slot starts with
\* nothing in it, and nobody else is touched.
LEMMA AllocStep ==
  ASSUME IInv, ~parked, NEW i \in Slots, NEW ok \in BOOLEAN, Created(i, ok)
  PROVE  IInv'
<1> USE DEF irqVars
<1>1. state[i] = "UNUSED" /\ ~pt[i] /\ gen[i] \in Nat /\ gen[i] <= MaxGen
  BY SlotFacts, SMTT(30) DEF Created, alloc_slot, FreeSlot, Occupied, IInv, TypeOK
<1>2. TaskId(i, gen[i]) \in Ids /\ 0 \in Ids
  BY <1>1, IdFacts, Zenon
<1>3. /\ id' = [id EXCEPT ![i] = TaskId(i, gen[i])]
      /\ queue' = [queue EXCEPT ![i] = << >>]
      /\ waiting_recv' = [waiting_recv EXCEPT ![i] = FALSE]
      /\ recv_closed' = [recv_closed EXCEPT ![i] = FALSE]
      /\ recv_from' = [recv_from EXCEPT ![i] = 0]
      /\ wait_for' = [wait_for EXCEPT ![i] = 0]
      /\ irq_pending' = [irq_pending EXCEPT ![i] = FALSE]
      /\ timer_pending' = [timer_pending EXCEPT ![i] = FALSE]
      /\ alarm_at' = [alarm_at EXCEPT ![i] = FALSE]
      /\ UNCHANGED <<gen, current, parked, irqVars>>
  BY Zenon DEF Created, alloc_slot
<1>4. /\ state' \in [Slots -> States] /\ pt' \in [Slots -> BOOLEAN]
      /\ state'[i] \in {"UNUSED", "RUNNABLE"}
      /\ \A s \in Slots : s # i => state'[s] = state[s] /\ pt'[s] = pt[s]
  BY <1>1, ZenonT(30) DEF Created, IInv, TypeOK, States
<1>5. a0' \in [Slots -> Ids \cup {FAIL, IRQ_SENDER, TIMER_SENDER, None}]
  BY <1>2, Zenon DEF Created, Return, Answers
<1>6. TypeOK'
  <2>1. /\ id' \in [Slots -> Ids] /\ recv_from' \in [Slots -> Ids]
        /\ wait_for' \in [Slots -> Ids] /\ queue' \in [Slots -> Seq(Slots)]
    BY <1>2, <1>3, SMTT(30) DEF IInv, TypeOK
  <2>2. /\ waiting_recv' \in [Slots -> BOOLEAN]
        /\ recv_closed' \in [Slots -> BOOLEAN]
        /\ irq_pending' \in [Slots -> BOOLEAN]
        /\ timer_pending' \in [Slots -> BOOLEAN]
        /\ alarm_at' \in [Slots -> BOOLEAN]
    BY <1>3, Zenon DEF IInv, TypeOK
  <2>3. /\ gen' \in [Slots -> 0 .. MaxGen + 1] /\ current' \in Slots
        /\ parked' \in BOOLEAN /\ irq_owner' \in [Irqs -> Slots \cup {Nil}]
        /\ masked' \subseteq Irqs
    BY <1>3, Zenon DEF IInv, TypeOK
  <2> QED
    BY <1>4, <1>5, <2>1, <2>2, <2>3, ZenonT(30) DEF TypeOK, States
<1>7. /\ id'[i] = TaskId(i, gen[i]) /\ queue'[i] = << >>
      /\ waiting_recv'[i] = FALSE /\ wait_for'[i] = 0
      /\ gen' = gen /\ current' = current /\ parked' = parked
  BY <1>3, Zenon DEF IInv, TypeOK
<1>8. \A s \in Slots : s # i =>
        /\ id'[s] = id[s] /\ queue'[s] = queue[s]
        /\ waiting_recv'[s] = waiting_recv[s] /\ wait_for'[s] = wait_for[s]
        /\ recv_closed'[s] = recv_closed[s] /\ recv_from'[s] = recv_from[s]
        /\ irq_pending'[s] = irq_pending[s]
        /\ timer_pending'[s] = timer_pending[s]
  BY <1>3, Zenon DEF IInv, TypeOK
<1>9. \A s \in Slots : s # i => (Occupied(s)' <=> Occupied(s))
  BY <1>4, Zenon DEF Occupied
<1>10. Names' /\ FirstLives'
  <2>1. Names'
    BY <1>1, <1>7, <1>8, <1>9, ZenonT(30) DEF IInv, Names
  <2>2. i # 0
    BY <1>1, Zenon DEF IInv, FirstLives
  <2> QED
    BY <1>4, <2>1, <2>2, SlotFacts, Zenon DEF IInv, FirstLives
<1>11. OneRunning'
  <2>1. current \in Slots /\ state[current] = "RUNNING" /\ current # i
    BY <1>1, CurrentFacts, Zenon
  <2> QED
    BY <1>4, <1>7, <2>1, Zenon DEF IInv, OneRunning
<1>12. Unblocked' /\ OneReason'
  BY <1>4, <1>7, <1>8, <1>9, SMTT(30) DEF IInv, Unblocked, OneReason
<1>13. \A d \in Slots : \A k \in DOMAIN queue'[d] :
         /\ d # i /\ queue'[d] = queue[d] /\ k \in DOMAIN queue[d]
         /\ queue[d][k] \in Slots \ {i}
  <2> SUFFICES ASSUME NEW d \in Slots, NEW k \in DOMAIN queue'[d]
               PROVE  /\ d # i /\ queue'[d] = queue[d] /\ k \in DOMAIN queue[d]
                      /\ queue[d][k] \in Slots \ {i}
    BY Zenon
  <2>1. d # i
    BY <1>7
  <2>2. queue'[d] = queue[d] /\ k \in DOMAIN queue[d]
    BY <1>8, <2>1, Zenon
  <2>3. queue[d][k] \in Slots
    BY <2>2, SMTT(30) DEF IInv, TypeOK
  <2>4. state[queue[d][k]] = "BLOCKED"
    BY <2>2, Zenon DEF IInv, QueueSound
  <2> QED
    BY <1>1, <2>1, <2>2, <2>3, <2>4, Zenon
<1>14. QueueSound'
  <2>1. ASSUME NEW d \in Slots, NEW k \in DOMAIN queue'[d]
        PROVE  /\ queue'[d][k] # d /\ state'[d] # "UNUSED"
               /\ state'[queue'[d][k]] = "BLOCKED"
               /\ ~waiting_recv'[queue'[d][k]] /\ wait_for'[queue'[d][k]] = 0
    <3>1. /\ d # i /\ queue'[d] = queue[d] /\ k \in DOMAIN queue[d]
          /\ queue[d][k] \in Slots \ {i}
      BY <1>13, Zenon
    <3>2. /\ queue[d][k] # d /\ state[d] # "UNUSED"
          /\ state[queue[d][k]] = "BLOCKED"
          /\ ~waiting_recv[queue[d][k]] /\ wait_for[queue[d][k]] = 0
      BY <3>1, ZenonT(30) DEF IInv, QueueSound
    <3> QED
      BY <1>4, <1>8, <3>1, <3>2, SMTT(30)
  <2>2. ASSUME NEW d \in Slots, NEW e \in Slots, NEW k \in DOMAIN queue'[d],
               NEW j \in DOMAIN queue'[e], queue'[d][k] = queue'[e][j]
        PROVE  d = e /\ k = j
    <3>1. queue'[d] = queue[d] /\ queue'[e] = queue[e]
      BY <1>13, Zenon
    <3> QED
      BY <2>2, <3>1, SMTT(30) DEF IInv, QueueSound
  <2> QED
    BY <2>1, <2>2, QueueSoundNext, ZenonT(30)
<1>15. NoMissedRendezvous'
  <2> SUFFICES ASSUME NEW d \in Slots, InRecv(d)'
               PROVE  /\ \A k \in DOMAIN queue'[d] :
                           recv_closed'[d] /\ id'[queue'[d][k]] # recv_from'[d]
                      /\ ~recv_closed'[d] => ~irq_pending'[d] /\ ~timer_pending'[d]
    BY ZenonT(30) DEF NoMissedRendezvous
  <2>1. d # i /\ InRecv(d)
    BY <1>4, <1>7, <1>8, Zenon DEF InRecv
  <2>2. /\ \A k \in DOMAIN queue[d] :
             recv_closed[d] /\ id[queue[d][k]] # recv_from[d]
        /\ ~recv_closed[d] => ~irq_pending[d] /\ ~timer_pending[d]
    BY <2>1, Zenon DEF IInv, NoMissedRendezvous
  <2>3. ASSUME NEW k \in DOMAIN queue'[d]
        PROVE  recv_closed'[d] /\ id'[queue'[d][k]] # recv_from'[d]
    <3>1. /\ queue'[d] = queue[d] /\ k \in DOMAIN queue[d]
          /\ queue[d][k] \in Slots \ {i}
      BY <1>13, Zenon
    <3> QED
      BY <1>8, <2>1, <2>2, <3>1, SMTT(30)
  <2> QED
    BY <1>8, <2>1, <2>2, <2>3, Zenon
<1>16. NobodyWaitsForTheDead'
  <2>1. ASSUME NEW x \in Ids, task_by_id(x) # Nil PROVE task_by_id(x)' # Nil
    <3>1. /\ TASK_SLOT(x) \in Slots /\ Occupied(TASK_SLOT(x))
          /\ id[TASK_SLOT(x)] = x
      BY <2>1, TaskById, Zenon
    <3>2. TASK_SLOT(x) # i
      BY <1>1, <3>1, Zenon DEF Occupied
    <3>3. Occupied(TASK_SLOT(x))' /\ id'[TASK_SLOT(x)] = x
      BY <1>8, <1>9, <3>1, <3>2, Zenon
    <3>4. task_by_id(x)' = TASK_SLOT(x)
      BY <3>1, <3>3, Zenon DEF task_by_id
    <3> QED
      BY <3>1, <3>4, SlotFacts, Zenon
  <2> SUFFICES ASSUME NEW s \in Slots, state'[s] = "BLOCKED"
               PROVE  /\ waiting_recv'[s] /\ recv_closed'[s]
                           => task_by_id(recv_from[s])' # Nil
                      /\ wait_for'[s] # 0 => task_by_id(wait_for[s])' # Nil
    BY Zenon DEF NobodyWaitsForTheDead
  <2>2. s # i /\ state[s] = "BLOCKED"
    BY <1>4, Zenon
  <2>3. /\ recv_from[s] \in Ids /\ wait_for[s] \in Ids
        /\ waiting_recv[s] /\ recv_closed[s] => task_by_id(recv_from[s]) # Nil
        /\ wait_for[s] # 0 => task_by_id(wait_for[s]) # Nil
    BY <2>2, Zenon DEF IInv, NobodyWaitsForTheDead, TypeOK
  <2>4. PICK x \in Ids, y \in Ids : x = recv_from[s] /\ y = wait_for[s]
    BY <2>3, Zenon
  <2>5. recv_from'[s] = x /\ wait_for'[s] = y
    BY <1>8, <2>2, <2>4, Zenon
  <2>6. waiting_recv'[s] = waiting_recv[s] /\ recv_closed'[s] = recv_closed[s]
    BY <1>8, <2>2, Zenon
  <2>7. /\ waiting_recv[s] /\ recv_closed[s] => task_by_id(x)' # Nil
        /\ wait_for[s] # 0 => task_by_id(y)' # Nil
    BY <2>1, <2>3, <2>4, Zenon
  <2> QED
    BY <2>4, <2>5, <2>6, <2>7, ZenonT(30) DEF task_by_id
<1> QED
  BY <1>6, <1>10, <1>11, <1>12, <1>14, <1>15, <1>16, ZenonT(30) DEF IInv

-----------------------------------------------------------------------------
(* Retirement                                                              *)

\* After a retirement the dead task stands in no queue and has none.
LEMMA RetiredQueueFacts ==
  ASSUME IInv, NEW t \in Slots, queue' = RetiredQueue(t)
  PROVE  /\ queue' \in [Slots -> Seq(Slots)]
         /\ \A d \in Slots : Thins(queue'[d], queue[d])
         /\ \A d \in Slots : \A i \in DOMAIN queue'[d] : d # t /\ queue'[d][i] # t
<1>1. \A d \in Slots : queue[d] \in Seq(Slots)
  BY Zenon DEF IInv, TypeOK
<1>2. /\ queue'[t] = << >>
      /\ \A d \in Slots : d # t => queue'[d] = Unlinked(queue[d], t)
      /\ queue' = [d \in Slots |-> queue'[d]]
  BY Zenon DEF RetiredQueue
<1>3. ASSUME NEW d \in Slots
      PROVE  /\ queue'[d] \in Seq(Slots) /\ Thins(queue'[d], queue[d])
             /\ \A i \in DOMAIN queue'[d] : d # t /\ queue'[d][i] # t
  <2> DEFINE q == queue[d]
  <2>1. CASE d = t
    <3>1. << >> \in Seq(Slots) /\ DOMAIN << >> = {}
      OBVIOUS
    <3> QED
      BY <2>1, <3>1, <1>1, <1>2, EmptyThins, ZenonT(30)
  <2>2. CASE d # t
    <3>1. q \in Seq(Slots) /\ DOMAIN q = 1 .. Len(q)
      BY <1>1, SMTT(30)
    <3>2. \A i, j \in 1 .. Len(q) : q[i] = t /\ q[j] = t => i = j
      BY <3>1, SMTT(30) DEF IInv, QueueSound
    <3> HIDE DEF q
    <3>0. ASSUME NEW k \in 1 .. Len(q)
          PROVE  /\ Thins(Without(q, k), q)
                 /\ \A i \in DOMAIN Without(q, k) :
                      \E j \in DOMAIN q : j # k /\ Without(q, k)[i] = q[j]
      <4>1. q \in Seq(Slots)
        BY <3>1, Zenon
      <4> QED
        BY <4>1, WithoutThins, SMTT(30)
    <3>3. \/ Unlinked(q, t) = q /\ \A i \in 1 .. Len(q) : q[i] # t
          \/ \E i \in 1 .. Len(q) : q[i] = t /\ Unlinked(q, t) = Without(q, i)
      BY <3>1, <3>2, UnlinkedFacts, Zenon
    <3>4. CASE Unlinked(q, t) = q /\ \A i \in 1 .. Len(q) : q[i] # t
      BY <3>1, <3>4, <2>2, <1>2, ThinsItself, ZenonT(30) DEF q
    <3>5. ASSUME NEW k \in 1 .. Len(q), q[k] = t,
                 Unlinked(q, t) = Without(q, k)
          PROVE  /\ queue'[d] \in Seq(Slots) /\ Thins(queue'[d], q)
                 /\ \A i \in DOMAIN queue'[d] : d # t /\ queue'[d][i] # t
      <4>1. queue'[d] = Without(q, k)
        BY <3>5, <2>2, <1>2, Zenon DEF q
      <4>2. queue'[d] \in Seq(Slots)
        BY <4>1, <3>1, WithoutFacts, ZenonT(30)
      <4>3. /\ Thins(queue'[d], q)
            /\ \A i \in DOMAIN queue'[d] :
                 \E j \in DOMAIN q : j # k /\ queue'[d][i] = q[j]
        BY <4>1, <3>0
      <4> QED
        BY <4>2, <4>3, <2>2, <3>1, <3>2, <3>5, SMTT(30)
    <3> QED
      BY <3>3, <3>4, <3>5, ZenonT(30) DEF q
  <2> QED
    BY <2>1, <2>2, Zenon
<1>4. queue' \in [Slots -> Seq(Slots)]
  BY <1>2, <1>3, Zenon
<1> QED
  BY <1>3, <1>4, Zenon

\* Whom a retirement wakes.
Woken(t) == Failed(t) \cup Waiters(t) \cup Orphans(t)

\* Whoever a retirement wakes was blocked, the senders in a send.
LEMMA WokenFacts ==
  ASSUME IInv, NEW t \in Slots
  PROVE  /\ Woken(t) \subseteq Slots
         /\ \A s \in Woken(t) : state[s] = "BLOCKED"
         /\ \A s \in Failed(t) : ~waiting_recv[s] /\ wait_for[s] = 0 /\ s # t
<1>1. \A s \in Failed(t) : \E i \in DOMAIN queue[t] : s = queue[t][i]
  BY Zenon DEF Failed, Members
<1>2. \A i \in DOMAIN queue[t] : queue[t][i] \in Slots
  BY DEF IInv, TypeOK
<1> QED
  BY <1>1, <1>2, SMTT(30) DEF Woken, Waiters, Orphans, IInv, QueueSound

\* What a retirement does to the run states.
LEMMA RetiredStateFacts ==
  ASSUME IInv, NEW t \in Slots
  PROVE  /\ RetiredState(t) \in [Slots -> States]
         /\ \A s \in Slots :
              /\ RetiredState(t)[s] = "RUNNING" => s # t /\ state[s] = "RUNNING"
              /\ state[s] = "RUNNING" /\ s # t => RetiredState(t)[s] = "RUNNING"
              /\ RetiredState(t)[s] = "UNUSED" <=> state[s] = "UNUSED" \/ s = t
              /\ RetiredState(t)[s] = "BLOCKED"
                   <=> state[s] = "BLOCKED" /\ s \notin Woken(t) \cup {t}
<1> DEFINE W == Failed(t) \cup Waiters(t) \cup Orphans(t)
<1>1. RetiredState(t) = [s \in Slots |-> CASE s = t -> "UNUSED"
                                           [] s # t /\ s \in W -> "RUNNABLE"
                                           [] OTHER -> state[s]]
  BY ZenonT(30) DEF RetiredState
<1>2. W = Woken(t) /\ W \subseteq Slots /\ \A s \in W : state[s] = "BLOCKED"
  BY WokenFacts, Zenon DEF Woken
<1> HIDE DEF W
<1>3. \A s \in Slots : /\ s = t => RetiredState(t)[s] = "UNUSED"
                       /\ s # t /\ s \in W => RetiredState(t)[s] = "RUNNABLE"
                       /\ s # t /\ s \notin W => RetiredState(t)[s] = state[s]
  BY <1>1, Zenon
<1>4. RetiredState(t) \in [Slots -> States]
  <2>1. RetiredState(t) = [s \in Slots |-> RetiredState(t)[s]]
    BY <1>1, Zenon
  <2>2. \A s \in Slots : RetiredState(t)[s] \in States
    BY <1>3, Zenon DEF IInv, TypeOK, States
  <2> QED
    BY <2>1, <2>2, Zenon
<1> QED
  BY <1>2, <1>3, <1>4, Zenon

\* What a retirement answers.
LEMMA RetiredA0Type ==
  ASSUME NEW t \in Slots
  PROVE  RetiredA0(t) \in
           [Slots -> Ids \cup {FAIL, IRQ_SENDER, TIMER_SENDER, None}]
<1> DEFINE F == Failed(t) \cup Orphans(t)
           W == Waiters(t)
<1>1. RetiredA0(t) = [s \in Slots |-> CASE s \in F -> FAIL
                                        [] s \in W -> 0
                                        [] OTHER -> None]
  BY Zenon DEF RetiredA0
<1>2. F \cap W = {}
  BY Zenon DEF Waiters, Orphans
<1> HIDE DEF F, W
<1>3. \A s \in Slots : RetiredA0(t)[s] \in {FAIL, 0, None}
  BY <1>1, <1>2, Zenon
<1>4. RetiredA0(t) = [s \in Slots |-> RetiredA0(t)[s]]
  BY <1>1, Zenon
<1> QED
  BY <1>3, <1>4, IdFacts, Zenon

\* task_retire adds one to a generation that had not passed its bound.
LEMMA GenNext ==
  ASSUME NEW S, NEW N \in Nat, NEW f \in [S -> 0 .. N + 1], NEW t \in S,
         f[t] <= N
  PROVE  [f EXCEPT ![t] = @ + 1] \in [S -> 0 .. N + 1]
OBVIOUS

\* The common part of Exit, Fault and Kill.
LEMMA RetireStep ==
  ASSUME IInv, NEW t \in Slots \ {0}, Occupied(t), Retire(t), OneRunning',
         state' \in [Slots -> States], current' \in Slots, parked' \in BOOLEAN,
         a0' \in [Slots -> Ids \cup {FAIL, IRQ_SENDER, TIMER_SENDER, None}],
         \A s \in Slots :
           /\ state'[s] = "UNUSED" <=> state[s] = "UNUSED" \/ s = t
           /\ state'[s] = "BLOCKED"
                <=> state[s] = "BLOCKED" /\ s \notin Woken(t) \cup {t}
  PROVE  IInv'
<1> USE DEF eventVars, irqVars
<1>1. /\ gen[t] \in Nat /\ gen[t] <= MaxGen /\ id[t] = TaskId(t, gen[t])
      /\ id[t] # 0
  BY SlotFacts, NonzeroId, SMTT(30) DEF IInv, TypeOK, Names
<1>2. /\ queue' = RetiredQueue(t)
      /\ waiting_recv' = [s \in Slots |-> /\ s \notin Orphans(t) \cup {t}
                                          /\ waiting_recv[s]]
      /\ recv_closed' = [s \in Slots |-> s \notin Orphans(t) /\ recv_closed[s]]
      /\ wait_for' = [s \in Slots |-> IF s \in Waiters(t) THEN 0 ELSE wait_for[s]]
      /\ pt' = [pt EXCEPT ![t] = FALSE]
      /\ gen' = [gen EXCEPT ![t] = @ + 1]
      /\ UNCHANGED <<id, recv_from, eventVars, irqVars>>
  BY Zenon DEF Retire, RetiredGen
<1>3. /\ queue' \in [Slots -> Seq(Slots)]
      /\ \A d \in Slots : Thins(queue'[d], queue[d])
      /\ \A d \in Slots : \A i \in DOMAIN queue'[d] : d # t /\ queue'[d][i] # t
  BY <1>2, RetiredQueueFacts, Zenon
<1>4. /\ \A d \in Slots : \A i \in DOMAIN queue'[d] :
           /\ queue'[d][i] \in Slots
           /\ \E k \in DOMAIN queue[d] : queue'[d][i] = queue[d][k]
      /\ \A d, e \in Slots : \A i \in DOMAIN queue'[d], j \in DOMAIN queue'[e] :
           queue'[d][i] = queue'[e][j] => d = e /\ i = j
  BY <1>3, ThinnedQueues, Zenon
<1>5. /\ Woken(t) \subseteq Slots
      /\ \A s \in Woken(t) : state[s] = "BLOCKED"
      /\ \A s \in Failed(t) : ~waiting_recv[s] /\ wait_for[s] = 0 /\ s # t
  BY WokenFacts, Zenon
<1>6. gen' \in [Slots -> 0 .. MaxGen + 1]
  <2>1. gen \in [Slots -> 0 .. MaxGen + 1] /\ MaxGen \in Nat
    BY SlotFacts, Zenon DEF IInv, TypeOK
  <2> QED
    BY <1>1, <1>2, <2>1, GenNext, ZenonT(30)
<1>7. TypeOK'
  BY <1>2, <1>3, <1>6, IdFacts, ZenonT(30) DEF IInv, TypeOK, States
<1>8. /\ \A s \in Slots : s # t => gen'[s] = gen[s] /\ pt'[s] = pt[s]
      /\ pt'[t] = FALSE
  BY <1>2, Zenon DEF IInv, TypeOK
<1>9. \A s \in Slots :
         /\ waiting_recv'[s] <=> s \notin Orphans(t) \cup {t} /\ waiting_recv[s]
         /\ recv_closed'[s] <=> s \notin Orphans(t) /\ recv_closed[s]
         /\ wait_for'[s] = IF s \in Waiters(t) THEN 0 ELSE wait_for[s]
         /\ id'[s] = id[s] /\ recv_from'[s] = recv_from[s]
         /\ irq_pending'[s] = irq_pending[s]
         /\ timer_pending'[s] = timer_pending[s]
  BY <1>2, ZenonT(30)
<1>10. \A s \in Slots : Occupied(s)' <=> Occupied(s) /\ s # t
  BY <1>8, Zenon DEF Occupied
<1>11. Names' /\ FirstLives'
  <2>1. Names'
    BY <1>10, <1>8, <1>9, SMTT(30) DEF IInv, Names
  <2> QED
    BY <2>1, SlotFacts, Zenon DEF IInv, FirstLives
<1>12. \A s \in Waiters(t) : s \in Slots /\ ~waiting_recv[s]
  BY <1>1, Zenon DEF Waiters, IInv, OneReason
<1>13. Unblocked'
  <2> SUFFICES ASSUME NEW s \in Slots, Occupied(s)', state'[s] # "BLOCKED"
               PROVE  ~waiting_recv'[s] /\ wait_for'[s] = 0
    BY ZenonT(30) DEF Unblocked
  <2>1. CASE s \in Failed(t)
    BY <2>1, <1>5, <1>9, Zenon
  <2>2. CASE s \in Waiters(t)
    BY <2>2, <1>12, <1>9, Zenon
  <2>3. CASE s \in Orphans(t)
    <3>1. state[s] = "BLOCKED" /\ waiting_recv[s]
      BY <2>3, ZenonT(30) DEF Orphans
    <3>2. wait_for[s] = 0
      BY <3>1, Zenon DEF IInv, OneReason
    <3> QED
      BY <2>3, <3>2, <1>9, Zenon
  <2>4. CASE s \notin Woken(t)
    <3>1. state[s] # "BLOCKED" /\ Occupied(s)
      BY <2>4, <1>10, Zenon
    <3>2. ~waiting_recv[s] /\ wait_for[s] = 0
      BY <3>1, Zenon DEF IInv, Unblocked
    <3> QED
      BY <3>2, <1>9, Zenon
  <2> QED
    BY <2>1, <2>2, <2>3, <2>4, ZenonT(30) DEF Woken
<1>14. OneReason'
  <2> SUFFICES ASSUME NEW s \in Slots, state'[s] = "BLOCKED", waiting_recv'[s]
               PROVE  wait_for'[s] = 0
    BY ZenonT(30) DEF OneReason
  <2>1. state[s] = "BLOCKED" /\ waiting_recv[s]
    BY <1>9, Zenon
  <2>2. wait_for[s] = 0
    BY <2>1, Zenon DEF IInv, OneReason
  <2> QED
    BY <2>2, <1>9, Zenon
<1>15. QueueSound'
  <2>1. ASSUME NEW d \in Slots, NEW i \in DOMAIN queue'[d]
        PROVE  /\ queue'[d][i] # d /\ state'[d] # "UNUSED"
               /\ state'[queue'[d][i]] = "BLOCKED"
               /\ ~waiting_recv'[queue'[d][i]] /\ wait_for'[queue'[d][i]] = 0
    <3>1. PICK k \in DOMAIN queue[d], s \in Slots :
            s = queue'[d][i] /\ s = queue[d][k]
      BY <1>4, SMTT(30)
    <3>2. d # t /\ s # t
      BY <1>3, <3>1, Zenon
    <3>3. /\ s # d /\ state[d] # "UNUSED" /\ state[s] = "BLOCKED"
          /\ ~waiting_recv[s] /\ wait_for[s] = 0
      BY <3>1, SMTT(30) DEF IInv, QueueSound
    <3>4. s \notin Failed(t)
      <4> SUFFICES ASSUME NEW j \in DOMAIN queue[t], s = queue[t][j] PROVE FALSE
        BY Zenon DEF Failed, Members
      <4>1. queue[d][k] = queue[t][j]
        BY <3>1, Zenon
      <4> QED
        BY <4>1, <3>2 DEF IInv, QueueSound
    <3>5. s \notin Woken(t)
      BY <1>1, <3>3, <3>4, Zenon DEF Woken, Waiters, Orphans
    <3>6. /\ state'[d] # "UNUSED" /\ state'[s] = "BLOCKED"
          /\ ~waiting_recv'[s] /\ wait_for'[s] = 0
      BY <3>2, <3>3, <3>5, <1>9, Zenon
    <3> QED
      BY <3>1, <3>3, <3>6, Zenon
  <2> QED
    BY <2>1, <1>4, QueueSoundNext, ZenonT(30)
<1>16. NoMissedRendezvous'
  <2> SUFFICES ASSUME NEW d \in Slots, InRecv(d)'
               PROVE  /\ \A i \in DOMAIN queue'[d] :
                           recv_closed'[d] /\ id'[queue'[d][i]] # recv_from'[d]
                      /\ ~recv_closed'[d] => ~irq_pending'[d] /\ ~timer_pending'[d]
    BY ZenonT(30) DEF NoMissedRendezvous
  <2>1. InRecv(d) /\ d \notin Orphans(t)
    BY <1>9, Zenon DEF InRecv
  <2>2. /\ \A k \in DOMAIN queue[d] :
             recv_closed[d] /\ id[queue[d][k]] # recv_from[d]
        /\ ~recv_closed[d] => ~irq_pending[d] /\ ~timer_pending[d]
    BY <2>1, Zenon DEF IInv, NoMissedRendezvous
  <2>3. ASSUME NEW i \in DOMAIN queue'[d]
        PROVE  recv_closed'[d] /\ id'[queue'[d][i]] # recv_from'[d]
    <3>1. PICK k \in DOMAIN queue[d], s \in Slots :
            s = queue'[d][i] /\ s = queue[d][k]
      BY <1>4, SMTT(30)
    <3> QED
      BY <3>1, <2>1, <2>2, <1>9, SMTT(30)
  <2> QED
    BY <2>1, <2>2, <2>3, <1>9, Zenon
<1>17. NobodyWaitsForTheDead'
  <2> SUFFICES ASSUME NEW s \in Slots, state'[s] = "BLOCKED"
               PROVE  /\ waiting_recv'[s] /\ recv_closed'[s]
                           => task_by_id(recv_from[s])' # Nil
                      /\ wait_for'[s] # 0 => task_by_id(wait_for[s])' # Nil
                      /\ recv_from'[s] = recv_from[s] /\ wait_for'[s] = wait_for[s]
    BY Zenon DEF NobodyWaitsForTheDead, task_by_id
  <2>1. state[s] = "BLOCKED" /\ s \notin Woken(t) /\ s # t
    BY Zenon
  <2>2. /\ recv_from'[s] = recv_from[s] /\ wait_for'[s] = wait_for[s]
        /\ waiting_recv'[s] => waiting_recv[s]
        /\ recv_closed'[s] => recv_closed[s]
    BY <1>2, <2>1, ZenonT(30) DEF Woken
  <2>3. ASSUME NEW x \in Ids, task_by_id(x) # Nil, x # id[t]
        PROVE  task_by_id(x)' # Nil
    <3>1. /\ TASK_SLOT(x) \in Slots /\ Occupied(TASK_SLOT(x))
          /\ id[TASK_SLOT(x)] = x
      BY <2>3, TaskById, Zenon
    <3>2. TASK_SLOT(x) # t
      BY <2>3, <3>1, Zenon
    <3>3. Occupied(TASK_SLOT(x))' /\ id'[TASK_SLOT(x)] = x
      BY <1>2, <1>10, <3>1, <3>2, Zenon
    <3>4. task_by_id(x)' = TASK_SLOT(x)
      BY <3>1, <3>3, Zenon DEF task_by_id
    <3> QED
      BY <3>1, <3>4, SlotFacts, Zenon
  <2>4. ASSUME waiting_recv'[s], recv_closed'[s]
        PROVE  task_by_id(recv_from[s])' # Nil
    <3>1. task_by_id(recv_from[s]) # Nil /\ recv_from[s] \in Ids
      BY <2>1, <2>2, <2>4, Zenon DEF IInv, NobodyWaitsForTheDead, TypeOK
    <3>2. recv_from[s] # id[t]
      BY <2>1, <2>2, <2>4, Zenon DEF Woken, Orphans
    <3>3. PICK x \in Ids : x = recv_from[s]
      BY <3>1, Zenon
    <3>4. task_by_id(x)' # Nil
      BY <2>3, <3>1, <3>2, <3>3, Zenon
    <3> QED
      BY <2>2, <3>3, <3>4, Zenon DEF task_by_id
  <2>5. ASSUME wait_for'[s] # 0
        PROVE  task_by_id(wait_for[s])' # Nil
    <3>1. task_by_id(wait_for[s]) # Nil /\ wait_for[s] \in Ids
      BY <2>1, <2>2, <2>5, Zenon DEF IInv, NobodyWaitsForTheDead, TypeOK
    <3>2. wait_for[s] # id[t]
      BY <2>1, <2>2, <2>5, Zenon DEF Woken, Waiters
    <3>3. PICK x \in Ids : x = wait_for[s]
      BY <3>1, Zenon
    <3>4. task_by_id(x)' # Nil
      BY <2>3, <3>1, <3>2, <3>3, Zenon
    <3> QED
      BY <2>2, <3>3, <3>4, Zenon DEF task_by_id
  <2> QED
    BY <2>2, <2>4, <2>5, Zenon
<1> QED
  BY <1>7, <1>11, <1>13, <1>14, <1>15, <1>16, <1>17, Zenon DEF IInv

\* SYS_EXIT and a fault keep the invariant.
LEMMA DeathStep ==
  ASSUME IInv, 0 \notin Mortal, Exit \/ Fault PROVE IInv'
<1> DEFINE t == current
           st == RetiredState(t)
<1>1. ~parked /\ t \in Mortal /\ Retire(t) /\ a0' = RetiredA0(t) /\ schedule(st)
  BY Zenon DEF Exit, Fault, Syscall
<1>2. t \in Slots \ {0} /\ Occupied(t)
  BY <1>1, CurrentFacts, Zenon
<1>3. /\ st \in [Slots -> States]
      /\ \A s \in Slots :
           /\ st[s] = "RUNNING" => s = current
           /\ st[s] = "UNUSED" <=> state[s] = "UNUSED" \/ s = t
           /\ st[s] = "BLOCKED"
                <=> state[s] = "BLOCKED" /\ s \notin Woken(t) \cup {t}
  BY <1>2, RetiredStateFacts, Zenon DEF IInv, OneRunning
<1> HIDE DEF st
<1>4. /\ state' \in [Slots -> States] /\ current' \in Slots
      /\ parked' \in BOOLEAN /\ OneRunning'
      /\ \A s \in Slots : /\ state'[s] = "BLOCKED" <=> st[s] = "BLOCKED"
                          /\ state'[s] = "UNUSED" <=> st[s] = "UNUSED"
  BY <1>1, <1>3, ScheduleFacts, Zenon DEF IInv
<1>5. a0' \in [Slots -> Ids \cup {FAIL, IRQ_SENDER, TIMER_SENDER, None}]
  BY <1>1, <1>2, RetiredA0Type, Zenon
<1> HIDE DEF t
<1> QED
  BY <1>1, <1>2, <1>3, <1>4, <1>5, RetireStep, Zenon

\* SYS_KILL keeps the invariant.
LEMMA KillStep ==
  ASSUME IInv, NEW x \in Ids, Kill(x) PROVE IInv'
<1> DEFINE t == task_by_id(x)
<1>0. ~parked
  BY Zenon DEF Kill, Syscall
<1>1. CASE t \in {Nil, current, 0}
  BY <1>1, AnswerStep, Zenon DEF Kill
<1>2. CASE t \notin {Nil, current, 0}
  <2>1. t \in Slots \ {0} /\ Occupied(t) /\ t # current
    BY <1>2, TaskById, Zenon
  <2>2. /\ Retire(t)
        /\ a0' = [RetiredA0(t) EXCEPT ![current] = 0]
        /\ state' = RetiredState(t)
        /\ UNCHANGED <<current, parked>>
    BY <1>2, Zenon DEF Kill
  <2> HIDE DEF t
  <2>3. /\ state' \in [Slots -> States]
        /\ \A s \in Slots :
             /\ state'[s] = "RUNNING" => s # t /\ state[s] = "RUNNING"
             /\ state[s] = "RUNNING" /\ s # t => state'[s] = "RUNNING"
             /\ state'[s] = "UNUSED" <=> state[s] = "UNUSED" \/ s = t
             /\ state'[s] = "BLOCKED"
                  <=> state[s] = "BLOCKED" /\ s \notin Woken(t) \cup {t}
    BY <2>1, <2>2, RetiredStateFacts, Zenon
  <2>4. OneRunning' /\ current' \in Slots /\ parked' \in BOOLEAN
    BY <1>0, <2>1, <2>2, <2>3, CurrentFacts, ZenonT(30) DEF IInv, OneRunning, TypeOK
  <2>5. a0' \in [Slots -> Ids \cup {FAIL, IRQ_SENDER, TIMER_SENDER, None}]
    BY <2>1, <2>2, RetiredA0Type, IdFacts, ZenonT(30)
  <2> QED
    BY <2>1, <2>2, <2>3, <2>4, <2>5, RetireStep, Zenon
<1> QED
  BY <1>1, <1>2, Zenon

-----------------------------------------------------------------------------
(* The whole kernel                                                        *)

\* ipc_send, blocking or not, keeps the invariant.
LEMMA SendStep ==
  ASSUME IInv, NEW x \in Ids, Send(x) \/ TrySend(x) PROVE IInv'
<1> DEFINE d == task_by_id(x)
<1>1. ~parked
  BY Zenon DEF Send, TrySend, Syscall
<1>2. CASE Answer(FAIL)
  BY <1>2, AnswerStep, Zenon
<1>3. CASE ~SendRefused(x) /\ (SendDelivers(d) \/ SendParks(d))
  <2>1. d \in Slots /\ state[d] # "UNUSED" /\ d # current
    BY <1>3, TaskById, Zenon DEF SendRefused
  <2> HIDE DEF d
  <2> QED
    BY <1>1, <1>3, <2>1, SendDeliversStep, SendParksStep, Zenon
<1> QED
  BY <1>2, <1>3, Zenon DEF Send, TrySend

\* ipc_recv, open or closed, keeps the invariant.
LEMMA RecvStep ==
  ASSUME IInv, Recv \/ \E x \in Ids : RecvFrom(x) PROVE IInv'
<1>1. ~parked
  BY Zenon DEF Recv, RecvFrom, Syscall
<1>2. CASE Recv
  <2>1. CASE RecvIrq \/ RecvTimer
    BY <1>1, <2>1, RecvEventStep, Zenon
  <2>2. CASE NoEvent /\ \E i \in DOMAIN queue[current] : RecvTakes(FALSE, 0, i)
    BY <1>1, <2>2, RecvTakesStep, ZenonT(30)
  <2>3. CASE NoEvent /\ RecvParks(FALSE, 0)
    BY <1>1, <2>3, RecvParksStep, IdFacts, ZenonT(30)
  <2> QED
    BY <1>2, <2>1, <2>2, <2>3, ZenonT(30) DEF Recv
<1>3. ASSUME NEW x \in Ids, RecvFrom(x) PROVE IInv'
  <2>1. CASE task_by_id(x) = Nil
    BY <1>3, <2>1, AnswerStep, Zenon DEF RecvFrom
  <2>2. CASE task_by_id(x) # Nil /\ \E i \in DOMAIN queue[current] : RecvTakes(TRUE, x, i)
    BY <1>1, <2>2, RecvTakesStep, ZenonT(30)
  <2>3. CASE task_by_id(x) # Nil /\ RecvParks(TRUE, x)
    BY <1>1, <2>3, RecvParksStep, ZenonT(30)
  <2> QED
    BY <1>3, <2>1, <2>2, <2>3, ZenonT(30) DEF RecvFrom
<1> QED
  BY <1>2, <1>3, Zenon

\* SYS_NEWTASK and SYS_THREAD keep the invariant.
LEMMA CreateStep ==
  ASSUME IInv, NEW ok \in BOOLEAN, NewTask(ok) \/ Thread(ok) PROVE IInv'
<1>1. ~parked
  BY Zenon DEF NewTask, Thread, Syscall
<1>2. CASE Answer(FAIL)
  BY <1>2, AnswerStep, Zenon
<1>3. ASSUME NEW i \in Slots, Created(i, ok) PROVE IInv'
  BY <1>1, <1>3, AllocStep, ZenonT(30)
<1> QED
  BY <1>2, <1>3, Zenon DEF NewTask, Thread, Created

\* The invariant holds when scheduler_start has picked the first task.
LEMMA InitIInv == Init => IInv
<1> SUFFICES ASSUME Init PROVE IInv
  BY Zenon
<1>0. /\ pt = [s \in Slots |-> s < NBoot]
      /\ id = [s \in Slots |-> IF s < NBoot THEN s ELSE 0]
      /\ gen = [s \in Slots |-> 0] /\ queue = [s \in Slots |-> << >>]
      /\ waiting_recv = [s \in Slots |-> FALSE]
      /\ recv_closed = [s \in Slots |-> FALSE]
      /\ recv_from = [s \in Slots |-> 0] /\ wait_for = [s \in Slots |-> 0]
      /\ irq_pending = [s \in Slots |-> FALSE]
      /\ timer_pending = [s \in Slots |-> FALSE]
      /\ alarm_at = [s \in Slots |-> FALSE]
      /\ a0 = Answers({}, 0) /\ current = 0 /\ parked = FALSE
      /\ irq_owner = [i \in Irqs |-> Nil] /\ masked = {}
  BY Zenon DEF Init
<1>1. \A s \in Slots : TaskId(s, 0) = s /\ s \in Ids /\ s \in Nat
  <2>1. \A s \in Slots : TaskId(s, 0) = s
    BY SlotFacts DEF TaskId
  <2> QED
    BY <2>1, SlotFacts, IdFacts, SMTT(30)
<1>2. /\ state \in [Slots -> States] /\ state[0] = "RUNNING"
      /\ \A s \in Slots : /\ state[s] # "BLOCKED" /\ (state[s] = "RUNNING" => s = 0)
                          /\ state[s] # "UNUSED" => s < NBoot
  <2>1. ASSUME NEW s \in Slots
        PROVE  state[s] = IF s = 0 THEN "RUNNING"
                          ELSE IF s < NBoot THEN "RUNNABLE" ELSE "UNUSED"
    BY KernelAssumption, SlotFacts, SMTT(30) DEF Init
  <2>2. state = [s \in Slots |-> state[s]]
    BY DEF Init
  <2>3. NBoot \in Nat \ {0}
    BY KernelAssumption, SMTT(30)
  <2> QED
    BY <2>1, <2>2, <2>3, SlotFacts, SMTT(30) DEF States
<1>3. TypeOK
  <2>1. id \in [Slots -> Ids] /\ gen \in [Slots -> 0 .. MaxGen + 1]
    BY <1>0, <1>1, IdFacts, SlotFacts, SMTT(30)
  <2>2. queue \in [Slots -> Seq(Slots)]
    BY <1>0
  <2>3. recv_from \in [Slots -> Ids] /\ wait_for \in [Slots -> Ids]
    BY <1>0, IdFacts, Zenon
  <2>4. a0 \in [Slots -> Ids \cup {FAIL, IRQ_SENDER, TIMER_SENDER, None}]
    BY <1>0, Zenon DEF Answers
  <2>5. current \in Slots /\ parked \in BOOLEAN /\ masked \subseteq Irqs
        /\ irq_owner \in [Irqs -> Slots \cup {Nil}]
    BY <1>0, SlotFacts, ZenonT(30)
  <2>6. pt \in [Slots -> BOOLEAN] /\ alarm_at \in [Slots -> BOOLEAN]
        /\ waiting_recv \in [Slots -> BOOLEAN] /\ recv_closed \in [Slots -> BOOLEAN]
        /\ irq_pending \in [Slots -> BOOLEAN] /\ timer_pending \in [Slots -> BOOLEAN]
    BY <1>0, SMTT(30)
  <2> QED
    BY <1>2, <2>1, <2>2, <2>3, <2>4, <2>5, <2>6, Zenon DEF TypeOK, States
<1>4. Names /\ FirstLives /\ OneRunning /\ Unblocked /\ OneReason
  <2>1. ASSUME NEW s \in Slots, Occupied(s)
        PROVE  id[s] = TaskId(s, gen[s]) /\ gen[s] <= MaxGen
    <3>1. s < NBoot /\ gen[s] = 0
      BY <1>0, <1>2, <2>1, ZenonT(30) DEF Occupied
    <3>2. id[s] = s
      BY <1>0, <3>1, Zenon
    <3> QED
      BY <1>1, <3>1, <3>2, SlotFacts, SMTT(30)
  <2>2. FirstLives /\ OneRunning
    BY <1>0, <1>2, Zenon DEF FirstLives, OneRunning
  <2>3. Unblocked /\ OneReason
    BY <1>0, <1>2, Zenon DEF Unblocked, OneReason
  <2> QED
    BY <2>1, <2>2, <2>3, Zenon DEF Names
<1>5. QueueSound /\ NoMissedRendezvous /\ NobodyWaitsForTheDead
  BY <1>0, <1>2, SMTT(30) DEF QueueSound, NoMissedRendezvous, NobodyWaitsForTheDead, InRecv
<1> QED
  BY <1>3, <1>4, <1>5, Zenon DEF IInv

\* Every step of the kernel keeps the invariant.
LEMMA NextIInv ==
  ASSUME IInv, 0 \notin Mortal, [Next]_vars PROVE IInv'
<1>1. CASE Yield
  BY <1>1, YieldStep, Zenon
<1>2. CASE Recv \/ \E x \in Ids : RecvFrom(x)
  BY <1>2, RecvStep, Zenon
<1>3. CASE Exit \/ Fault
  BY <1>3, DeathStep, Zenon
<1>4. ASSUME NEW x \in Ids, Send(x) \/ TrySend(x) PROVE IInv'
  BY <1>4, SendStep, Zenon
<1>5. ASSUME NEW x \in Ids, Kill(x) PROVE IInv'
  BY <1>5, KillStep, Zenon
<1>6. ASSUME NEW x \in Ids, Start(x) PROVE IInv'
  BY <1>6, StartStep, Zenon
<1>7. ASSUME NEW x \in WaitIds, Wait(x) PROVE IInv'
  BY <1>7, WaitStep, Zenon
<1>8. ASSUME NEW b \in BOOLEAN, NewTask(b) \/ Thread(b) PROVE IInv'
  BY <1>8, CreateStep, Zenon
<1>9. ASSUME NEW b \in BOOLEAN, Alarm(b) PROVE IInv'
  BY <1>9, AlarmStep, Zenon
<1>10. CASE Tick
  BY <1>10, TimerTickStep, Zenon DEF Tick
<1>11. ASSUME NEW irq \in Irqs, IrqRegister(irq) \/ IrqAck(irq) PROVE IInv'
  BY <1>11, IrqCallStep, Zenon
<1>12. ASSUME NEW irq \in Irqs, DeviceInterrupt(irq) PROVE IInv'
  BY <1>12, DeviceInterruptStep, Zenon
<1>13. CASE UNCHANGED vars
  <2>1. TypeOK'
    BY <1>13, Zenon DEF vars, IInv, TypeOK
  <2>2. OneRunning'
    BY <1>13, Zenon DEF vars, IInv, OneRunning
  <2>3. Wakes({})
    BY <1>13, Zenon DEF vars, Wakes, tableVars, Occupied
  <2> QED
    BY <2>1, <2>2, <2>3, WakeReceivers, Zenon
<1> QED
  BY <1>1, <1>2, <1>3, <1>4, <1>5, <1>6, <1>7, <1>8, <1>9, <1>10, <1>11, <1>12, Zenon,
     <1>13 DEF Next

\* The strengthened invariant holds for every number of slots, boot tasks and
\* generations and whatever buffers programs pass, provided the task of slot 0
\* never dies: task_retire takes wait_for = 0 for a wait on that task.
THEOREM Invariance == ASSUME 0 \notin Mortal PROVE Spec => []IInv
<1>1. IInv /\ [Next]_vars => IInv'
  BY NextIInv, Zenon
<1> QED
  BY <1>1, InitIInv, PTL DEF Spec

-----------------------------------------------------------------------------
(* What the invariant says                                                 *)

\* Every variable keeps its type, a0 its range, and a slot's generation its
\* bound.
THEOREM TypeCorrect == ASSUME 0 \notin Mortal PROVE Spec => []TypeOK
<1>1. IInv => TypeOK
  BY Zenon DEF IInv
<1> QED
  BY <1>1, Invariance, PTL

\* The intrusive lists of senders are never corrupted (ipc.c:20-53,
\* task.c:131-152), whatever buffers programs pass to recv.
THEOREM QueuesSound == ASSUME 0 \notin Mortal PROVE Spec => []QueueSound
<1>1. IInv => QueueSound
  BY Zenon DEF IInv
<1> QED
  BY <1>1, Invariance, PTL

\* A task blocked in recv has nobody in its queue it would accept, and no event
\* pending when it would take one: no wakeup is lost between ipc_send, ipc_recv,
\* alarms_check and device_interrupt.
THEOREM NoRendezvousMissed ==
  ASSUME 0 \notin Mortal PROVE Spec => []NoMissedRendezvous
<1>1. IInv => NoMissedRendezvous
  BY Zenon DEF IInv
<1> QED
  BY <1>1, Invariance, PTL

\* task_retire releases everybody who named the task: a closed receive and a
\* SYS_WAIT never outlast it (task.c:153-170).
THEOREM TheDeadAreNotAwaited ==
  ASSUME 0 \notin Mortal PROVE Spec => []NobodyWaitsForTheDead
<1>1. IInv => NobodyWaitsForTheDead
  BY Zenon DEF IInv
<1> QED
  BY <1>1, Invariance, PTL

-----------------------------------------------------------------------------
(* The hart never halts                                                    *)

IdleReady ==
  state[Idle] \in {"RUNNABLE", "RUNNING"} /\ id[Idle] = Idle /\ ~parked

\* While the idle task is ready, schedule() finds somebody.
LEMMA IdleScheduled ==
  ASSUME IInv, IdleReady, NEW st \in [Slots -> States], schedule(st),
         \A s \in Slots : st[s] = "RUNNING" => s = current,
         st[Idle] \in {"RUNNABLE", "RUNNING"}, id'[Idle] = id[Idle]
  PROVE  IdleReady'
<1>1. /\ state' \in [Slots -> States]
      /\ parked' \in BOOLEAN
      /\ \A s \in Slots : /\ state'[s] = "BLOCKED" <=> st[s] = "BLOCKED"
                          /\ state'[s] = "UNUSED" <=> st[s] = "UNUSED"
      /\ parked' => \A s \in Slots : st[s] \in {"BLOCKED", "UNUSED"}
  BY ScheduleFacts, Zenon DEF IInv, IdleReady
<1> QED
  BY <1>1, SlotFacts, Zenon DEF IdleReady, States

\* A call that blocks was not made by the idle task.
LEMMA IdleNotBlocked ==
  ASSUME IInv, IdleReady, id[current] # Idle, id'[Idle] = id[Idle],
         schedule([state EXCEPT ![current] = "BLOCKED"])
  PROVE  IdleReady'
<1> DEFINE st == [state EXCEPT ![current] = "BLOCKED"]
<1>1. st \in [Slots -> States]
      /\ \A s \in Slots : st[s] = "RUNNING" => s = current
  BY Zenon DEF IInv, TypeOK, States, OneRunning
<1>2. st[Idle] \in {"RUNNABLE", "RUNNING"}
  BY SlotFacts, Zenon DEF IInv, TypeOK, IdleReady
<1> HIDE DEF st
<1>3. schedule(st)
  BY Zenon DEF st
<1> QED
  BY <1>1, <1>2, <1>3, IdleScheduled, Zenon

\* A retirement of another task leaves the idle task alone.
LEMMA IdleNotRetired ==
  ASSUME IInv, IdleReady, NEW t \in Slots \ {Idle}
  PROVE  RetiredState(t)[Idle] \in {"RUNNABLE", "RUNNING"}
BY RetiredStateFacts, SlotFacts DEF IdleReady, States

\* No step blocks or retires the idle task.
LEMMA IdleStep ==
  ASSUME IInv, IdleReady, Next, Idle \notin Mortal \cup Killable
  PROVE  IdleReady'
<1> USE DEF schedVars, tableVars, recvVars, eventVars, irqVars
<1>0. Idle \in Slots /\ ~parked /\ current \in Slots
  BY SlotFacts, CurrentFacts, Zenon DEF IdleReady
<1>1. ASSUME NEW r, Answer(r) PROVE IdleReady'
  BY <1>1, Zenon DEF Answer, IdleReady
<1>2. CASE Yield
  <2>1. /\ state \in [Slots -> States]
        /\ \A s \in Slots : state[s] = "RUNNING" => s = current
    BY Zenon DEF IInv, TypeOK, OneRunning, States
  <2>2. schedule(state) /\ id' = id
    BY <1>2, Zenon DEF Yield
  <2> QED
    BY <2>1, <2>2, IdleScheduled, Zenon DEF IdleReady
<1>3. ASSUME NEW x \in Ids, Send(x) \/ TrySend(x) PROVE IdleReady'
  <2>1. ASSUME NEW d, ~SendRefused(x), d = task_by_id(x), SendDelivers(d)
        PROVE  IdleReady'
    <3>1. d \in Slots /\ state[d] = "BLOCKED"
      BY <2>1, TaskById, Zenon DEF SendRefused, SendDelivers, wants
    <3> QED
      BY <1>0, <2>1, <3>1, Zenon DEF SendDelivers, IdleReady, IInv, TypeOK
  <2>2. ASSUME NEW d, SendParks(d), id[current] # Idle PROVE IdleReady'
    BY <2>2, IdleNotBlocked, Zenon DEF SendParks
  <2> QED
    BY <1>1, <1>3, <2>1, <2>2, Zenon DEF Send, TrySend, Syscall
<1>4. ASSUME Recv \/ \E x \in Ids : RecvFrom(x) PROVE IdleReady'
  <2>1. CASE RecvIrq \/ RecvTimer
    BY <2>1, SMTT(30) DEF RecvIrq, RecvTimer, IdleReady
  <2>2. ASSUME NEW c, NEW w, NEW i \in DOMAIN queue[current], RecvTakes(c, w, i)
        PROVE  IdleReady'
    <3>1. queue[current][i] \in Slots /\ state[queue[current][i]] = "BLOCKED"
      BY <1>0, SMTT(30) DEF IInv, QueueSound, TypeOK
    <3> QED
      BY <1>0, <2>2, <3>1, Zenon DEF RecvTakes, IdleReady, IInv, TypeOK
  <2>3. ASSUME NEW c, NEW w, RecvParks(c, w), id[current] # Idle PROVE IdleReady'
    BY <2>3, IdleNotBlocked, Zenon DEF RecvParks
  <2> QED
    BY <1>1, <1>4, <2>1, <2>2, <2>3, Zenon DEF Recv, RecvFrom, Syscall
<1>5. ASSUME NEW x \in WaitIds, Wait(x) PROVE IdleReady'
  <2>1. CASE task_by_id(x) # Nil
    BY <1>5, <2>1, IdleNotBlocked, Zenon DEF Wait, Syscall
  <2> QED
    BY <1>1, <1>5, <2>1, Zenon DEF Wait
<1>6. CASE Exit \/ Fault
  <2>1. /\ current # Idle /\ id' = id /\ schedule(RetiredState(current))
    BY <1>6, Zenon DEF Exit, Fault, Retire
  <2>2. /\ RetiredState(current) \in [Slots -> States]
        /\ \A s \in Slots : RetiredState(current)[s] = "RUNNING" => s = current
    BY <1>0, RetiredStateFacts, Zenon DEF IInv, OneRunning
  <2>3. RetiredState(current)[Idle] \in {"RUNNABLE", "RUNNING"}
    BY <1>0, <2>1, IdleNotRetired, Zenon
  <2> QED
    BY <2>1, <2>2, <2>3, IdleScheduled, Zenon
<1>7. ASSUME NEW x \in Ids, Kill(x) PROVE IdleReady'
  <2>1. CASE task_by_id(x) \notin {Nil, current, 0}
    <3> DEFINE t == task_by_id(x)
    <3>1. /\ t \in Slots \ {Idle} /\ state' = RetiredState(t)
          /\ UNCHANGED <<id, parked>>
      BY <1>7, <2>1, TaskById, Zenon DEF Kill, Retire
    <3> QED
      BY <3>1, IdleNotRetired, Zenon DEF IdleReady
  <2> QED
    BY <1>1, <1>7, <2>1, Zenon DEF Kill
<1>8. ASSUME NEW x \in Ids, Start(x) PROVE IdleReady'
  <2>1. CASE ~(task_by_id(x) \in {Nil, 0} \/ state[task_by_id(x)] # "UNUSED")
    <3>1. task_by_id(x) \in Slots
      BY <2>1, TaskById, Zenon
    <3> QED
      BY <1>0, <1>8, <2>1, <3>1, Zenon DEF Start, IdleReady, IInv, TypeOK
  <2> QED
    BY <1>1, <1>8, <2>1, Zenon DEF Start
<1>9. ASSUME NEW ok \in BOOLEAN, NewTask(ok) \/ Thread(ok) PROVE IdleReady'
  <2>1. ASSUME NEW i \in Slots, alloc_slot(i),
               \/ UNCHANGED state
               \/ state' = [state EXCEPT ![i] = IF ok THEN "RUNNABLE" ELSE @]
        PROVE  IdleReady'
    <3>1. i # Idle
      BY <2>1, Zenon DEF alloc_slot, FreeSlot, Occupied, IdleReady
    <3> QED
      BY <1>0, <2>1, <3>1, Zenon DEF alloc_slot, IdleReady, IInv, TypeOK
  <2> QED
    BY <1>1, <1>9, <2>1, Zenon DEF NewTask, Thread
<1>10. ASSUME NEW b \in BOOLEAN, Alarm(b) PROVE IdleReady'
  BY <1>10, Zenon DEF Alarm, IdleReady
<1>11. ASSUME NEW due \in SUBSET Slots, TimerTick(due) PROVE IdleReady'
  <2> DEFINE st == [s \in Slots |-> IF s \in due /\ InRecv(s) THEN "RUNNABLE"
                                                              ELSE state[s]]
  <2>1. /\ st \in [Slots -> States]
        /\ \A s \in Slots : st[s] = "RUNNING" => s = current
        /\ st[Idle] \in {"RUNNABLE", "RUNNING"}
    BY <1>0, Zenon DEF IInv, TypeOK, States, OneRunning, IdleReady
  <2>2. schedule(st) /\ id' = id
    BY <1>11, Zenon DEF TimerTick
  <2> HIDE DEF st
  <2> QED
    BY <2>1, <2>2, IdleScheduled, Zenon
<1>12. ASSUME NEW irq \in Irqs, IrqRegister(irq) \/ IrqAck(irq) PROVE IdleReady'
  BY <1>1, <1>12, Zenon DEF IrqRegister, IrqAck, IdleReady
<1>13. ASSUME NEW irq \in Irqs, DeviceInterrupt(irq) PROVE IdleReady'
  <2>1. /\ UNCHANGED <<id, parked>>
        /\ state' \in {state, [state EXCEPT ![irq_owner[irq]] = "RUNNABLE"]}
    BY <1>13, Zenon DEF DeviceInterrupt
  <2> QED
    BY <1>0, <2>1, Zenon DEF IdleReady, IInv, TypeOK
<1> QED
  BY <1>2, <1>3, <1>4, <1>5, <1>6, <1>7, <1>8, <1>9, <1>10, <1>11, <1>12, <1>13,
     Zenon DEF Next, Tick

\* While the idle task and the task of slot 0 live, schedule() always finds
\* somebody to run and the one RUNNING task is the current one: the wfi loop of
\* task.c:286-293 is never entered.
THEOREM HartNeverHalts ==
  ASSUME 0 \notin Mortal, Idle \notin Mortal \cup Killable
  PROVE  Spec => []HartBusy
<1>1. Init => IdleReady
  BY KernelAssumption, SlotFacts DEF Init, IdleReady
<1>2. IInv /\ IdleReady /\ [Next]_vars => IdleReady'
  BY IdleStep DEF vars, IdleReady
<1>3. IInv /\ IdleReady => HartBusy
  BY Zenon DEF IInv, IdleReady, OneRunning, HartBusy
<1> QED
  BY <1>1, <1>2, <1>3, Invariance, PTL DEF Spec
=============================================================================
