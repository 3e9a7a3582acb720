---------------------------- MODULE KernelProofs ----------------------------
(***************************************************************************)
(* Properties that need more than the inductive invariant of Kernel: a     *)
(* blocked task has a reason to be woken, and no step overwrites an answer, *)
(* loses an event or lets a sender be overtaken.  Then that the kernel     *)
(* implements Rendezvous: what a task looks like under the mapping of      *)
(* KernelRendezvous, what must happen to each task for a step to be a given *)
(* step of Rendezvous, and that every step of the kernel is such a step or *)
(* a stutter.                                                              *)
(***************************************************************************)
EXTENDS KernelInvariant, KernelRendezvous

-----------------------------------------------------------------------------
(* A blocked task has a reason to be woken                                 *)

\* Taking the i-th entry out of a list keeps the others.
LEMMA WithoutKeeps ==
  ASSUME NEW S, NEW q \in Seq(S), NEW i \in 1 .. Len(q)
  PROVE  \A k \in DOMAIN q : k # i =>
           \E j \in DOMAIN Without(q, i) : Without(q, i)[j] = q[k]
<1> DEFINE p == Without(q, i)
<1>1. p \in Seq(S) /\ Len(p) = Len(q) - 1
      /\ \A j \in 1 .. Len(q) - 1 : p[j] = IF j < i THEN q[j] ELSE q[j + 1]
  BY WithoutFacts, Zenon
<1>2. DOMAIN p = 1 .. Len(q) - 1 /\ DOMAIN q = 1 .. Len(q) /\ Len(q) \in Nat
  BY <1>1
<1> HIDE DEF p
<1>3. ASSUME NEW k \in DOMAIN q, k # i PROVE \E j \in DOMAIN p : p[j] = q[k]
  <2>1. CASE k < i
    <3>1. k \in DOMAIN p /\ p[k] = q[k]
      BY <1>1, <1>2, <2>1
    <3> QED
      BY <3>1, Zenon
  <2>2. CASE k > i
    <3>1. k - 1 \in DOMAIN p /\ p[k - 1] = q[k]
      BY <1>1, <1>2, <2>2
    <3> QED
      BY <3>1, Zenon
  <2> QED
    BY <1>2, <1>3, <2>1, <2>2
<1> QED
  BY <1>3, Zenon DEF p

\* s stands in d's queue, without the set.
In(s, d) == \E i \in DOMAIN queue[d] : queue[d][i] = s

\* A queued task stands in some queue.
LEMMA QueuedIn == \A s : Queued(s) <=> \E d \in Slots : In(s, d)
BY Zenon DEF Queued, In, Members

\* The reason in a form the step proofs can use.
Reason(s) == waiting_recv[s] \/ wait_for[s] # 0 \/ \E d \in Slots : In(s, d)

\* Blocking for a reason implies BlockedHasReason.
LEMMA ReasonInv ==
  BlockedHasReason <=> \A s \in Slots : state[s] = "BLOCKED" => Reason(s)
BY QueuedIn, Zenon DEF BlockedHasReason, Reason

\* A step that keeps the reasons of everybody who stays blocked.
LEMMA ReasonKept ==
  ASSUME BlockedHasReason,
         \A s \in Slots : state'[s] = "BLOCKED" =>
           Reason(s)' \/ (state[s] = "BLOCKED" /\ (Reason(s) => Reason(s)'))
  PROVE  BlockedHasReason'
<1>1. \A s \in Slots : state[s] = "BLOCKED" => Reason(s)
  BY ReasonInv, Zenon
<1>2. \A s \in Slots : state'[s] = "BLOCKED" => Reason(s)'
  BY <1>1, Zenon
<1>3. (\A s \in Slots : state[s] = "BLOCKED" => Reason(s))' => BlockedHasReason'
  BY ReasonInv, PTL
<1> QED
  BY <1>2, <1>3, Zenon

\* A step that blocks nobody and touches no wait keeps the reasons.
LEMMA ReasonUnchanged ==
  ASSUME BlockedHasReason, UNCHANGED <<waiting_recv, wait_for, queue>>,
         \A s \in Slots : state'[s] = "BLOCKED" => state[s] = "BLOCKED"
  PROVE  BlockedHasReason'
BY ReasonKept, Zenon DEF Reason, In

\* A retirement wakes everybody whose reason was the dead task.
LEMMA ReasonRetire ==
  ASSUME IInv, BlockedHasReason, NEW t \in Slots, Retire(t),
         \A s \in Slots : state'[s] = "BLOCKED" =>
                            state[s] = "BLOCKED" /\ s \notin Woken(t) \cup {t}
  PROVE  BlockedHasReason'
<1> SUFFICES ASSUME NEW s \in Slots, state'[s] = "BLOCKED", Reason(s)
             PROVE  Reason(s)'
  BY ReasonKept, Zenon
<1>1. s \notin Woken(t) /\ s # t
  BY Zenon
<1>2. CASE waiting_recv[s] \/ wait_for[s] # 0
  BY <1>1, <1>2, Zenon DEF Retire, Reason, Woken
<1>3. ASSUME NEW d \in Slots, NEW i \in DOMAIN queue[d], queue[d][i] = s
      PROVE  Reason(s)'
  <2>1. d # t
    BY <1>1, <1>3, Zenon DEF Woken, Failed, Members
  <2> DEFINE q == queue[d]
  <2>2. q \in Seq(Slots) /\ DOMAIN q = 1 .. Len(q)
    BY DEF IInv, TypeOK
  <2>3. \A j, k \in 1 .. Len(q) : q[j] = t /\ q[k] = t => j = k
    BY <2>2 DEF IInv, QueueSound
  <2>4. queue'[d] = Unlinked(q, t)
    BY <2>1, Zenon DEF Retire, RetiredQueue
  <2>5. i \in DOMAIN q /\ q[i] = s
    BY <1>3, Zenon
  <2> HIDE DEF q
  <2>6. \/ Unlinked(q, t) = q
        \/ \E k \in 1 .. Len(q) : q[k] = t /\ Unlinked(q, t) = Without(q, k)
    BY <2>2, <2>3, UnlinkedFacts, Zenon
  <2>7. CASE Unlinked(q, t) = q
    BY <2>4, <2>5, <2>7, Zenon DEF Reason, In
  <2>8. ASSUME NEW k \in 1 .. Len(q), q[k] = t, Unlinked(q, t) = Without(q, k)
        PROVE  Reason(s)'
    <3>1. k # i
      BY <1>1, <2>5, <2>8, Zenon
    <3>2. \E j \in DOMAIN Without(q, k) : Without(q, k)[j] = q[i]
      BY <2>2, <2>5, <3>1, WithoutKeeps
    <3>3. \E j \in DOMAIN queue'[d] : queue'[d][j] = s
      BY <2>4, <2>5, <2>8, <3>2, Zenon
    <3> QED
      BY <3>3, Zenon DEF Reason, In
  <2> QED
    BY <2>6, <2>7, <2>8, Zenon
<1> QED
  BY <1>2, <1>3, Zenon DEF Reason, In

\* Every step keeps the reasons.
LEMMA ReasonStep ==
  ASSUME IInv, BlockedHasReason, Next, ~BadBuffers, 0 \notin WaitIds
  PROVE  BlockedHasReason'
<1> USE DEF schedVars, tableVars, recvVars, eventVars, irqVars
<1>1. ASSUME NEW r, Answer(r) PROVE BlockedHasReason'
  BY <1>1, ReasonUnchanged, Zenon DEF Answer
<1>2. CASE Yield
  <2>1. /\ state \in [Slots -> States] /\ schedule(state) /\ ~parked
        /\ \A s \in Slots : state[s] = "RUNNING" => s = current
    BY <1>2, Zenon DEF Yield, IInv, TypeOK, OneRunning, States
  <2>2. \A s \in Slots : state'[s] = "BLOCKED" => state[s] = "BLOCKED"
    BY <2>1, ScheduleFacts, Zenon DEF IInv
  <2> QED
    BY <1>2, <2>2, ReasonUnchanged, Zenon DEF Yield
<1>3. ASSUME NEW x \in Ids, Send(x) \/ TrySend(x) PROVE BlockedHasReason'
  <2>0. ~parked
    BY <1>3, Zenon DEF Send, TrySend, Syscall
  <2>1. ASSUME NEW d \in Slots, SendDelivers(d) PROVE BlockedHasReason'
    <3>1. \A s \in Slots : state'[s] = "BLOCKED" => state[s] = "BLOCKED" /\ s # d
      BY <2>1, Zenon DEF SendDelivers, IInv, TypeOK
    <3>2. \A s \in Slots : s # d => waiting_recv'[s] = waiting_recv[s]
      BY <2>1, Zenon DEF SendDelivers, IInv, TypeOK
    <3> QED
      BY <2>1, <3>1, <3>2, ReasonKept, Zenon DEF Reason, In, SendDelivers
  <2>2. ASSUME NEW d \in Slots, SendParks(d) PROVE BlockedHasReason'
    <3>1. PICK c \in Slots : c = current /\ ~waiting_recv[c]
      BY <2>0, CurrentFacts, Zenon
    <3>2. \A s \in Slots : state'[s] = "BLOCKED" <=> state[s] = "BLOCKED" \/ s = c
      BY <2>0, <2>2, <3>1, BlockFacts, Zenon DEF SendParks
    <3>3. waiting_recv' = waiting_recv /\ wait_for' = wait_for
      BY <2>2, <3>1, Zenon DEF SendParks, IInv, TypeOK
    <3>4. /\ queue'[d] = Append(queue[d], c) /\ queue[d] \in Seq(Slots)
          /\ \A e \in Slots : e # d => queue'[e] = queue[e]
      BY <2>2, <3>1, Zenon DEF SendParks, enqueue_sender, IInv, TypeOK
    <3>5. /\ \A i \in DOMAIN queue[d] : i \in DOMAIN queue'[d]
                                        /\ queue'[d][i] = queue[d][i]
          /\ Len(queue[d]) + 1 \in DOMAIN queue'[d]
          /\ queue'[d][Len(queue[d]) + 1] = c
      BY <3>1, <3>4, AppendFacts
    <3>6. In(c, d)' /\ \A s, e \in Slots : In(s, e) => In(s, e)'
      BY <3>4, <3>5, Zenon DEF In
    <3> QED
      BY <3>2, <3>3, <3>6, ReasonKept, Zenon DEF Reason
  <2>3. ~SendRefused(x) => task_by_id(x) \in Slots
    BY TaskById, Zenon DEF SendRefused
  <2> QED
    BY <1>1, <1>3, <2>1, <2>2, <2>3, Zenon DEF Send, TrySend
<1>4. ASSUME Recv \/ \E x \in Ids : RecvFrom(x) PROVE BlockedHasReason'
  <2>0. ~parked
    BY <1>4, Zenon DEF Recv, RecvFrom, Syscall
  <2>1. CASE RecvIrq \/ RecvTimer
    BY <2>1, ReasonUnchanged, Zenon DEF RecvIrq, RecvTimer
  <2>2. ASSUME NEW cl, NEW w, NEW i \in DOMAIN queue[current], RecvTakes(cl, w, i)
        PROVE  BlockedHasReason'
    <3> DEFINE c == current
               q == queue[c]
               u == q[i]
    <3>1. /\ c \in Slots /\ q \in Seq(Slots) /\ i \in 1 .. Len(q) /\ u \in Slots
      BY <2>0, CurrentFacts DEF IInv, TypeOK
    <3>2. /\ state' = [state EXCEPT ![u] = "RUNNABLE"]
          /\ queue' = [queue EXCEPT ![c] = Without(q, i)]
          /\ UNCHANGED <<waiting_recv, wait_for>>
      BY <2>2, Zenon DEF RecvTakes
    <3>3. \A s \in Slots : state'[s] = "BLOCKED" => state[s] = "BLOCKED" /\ s # u
      BY <3>1, <3>2, Zenon DEF IInv, TypeOK
    <3>4. \A k \in DOMAIN q : k # i =>
             \E j \in DOMAIN Without(q, i) : Without(q, i)[j] = q[k]
      <4> HIDE DEF q
      <4> QED
        BY <3>1, WithoutKeeps, Zenon
    <3>5. ASSUME NEW s \in Slots, NEW d \in Slots, s # u, In(s, d) PROVE In(s, d)'
      <4>1. CASE d = c
        <5>1. PICK k \in DOMAIN q : q[k] = s
          BY <3>5, <4>1, Zenon DEF In
        <5>2. queue'[d] = Without(q, i)
          BY <3>1, <3>2, <4>1, Zenon DEF IInv, TypeOK
        <5>3. \E j \in DOMAIN Without(q, i) : Without(q, i)[j] = s
          BY <3>4, <3>5, <5>1, Zenon
        <5> QED
          BY <5>2, <5>3, Zenon DEF In
      <4>2. CASE d # c
        BY <3>2, <3>5, <4>2, Zenon DEF In, IInv, TypeOK
      <4> QED
        BY <4>1, <4>2, Zenon
    <3> HIDE DEF u
    <3> QED
      BY <3>2, <3>3, <3>5, ReasonKept, Zenon DEF Reason
  <2>3. ASSUME NEW cl, NEW w, RecvParks(cl, w) PROVE BlockedHasReason'
    <3> DEFINE c == current
    <3>1. c \in Slots
      BY <2>0, CurrentFacts, Zenon
    <3>2. \A s \in Slots : state'[s] = "BLOCKED" <=> state[s] = "BLOCKED" \/ s = c
      BY <2>0, <2>3, BlockFacts, Zenon DEF RecvParks
    <3>3. /\ waiting_recv'[c] = TRUE
          /\ \A s \in Slots : s # c => waiting_recv'[s] = waiting_recv[s]
          /\ UNCHANGED <<wait_for, queue>>
      BY <2>3, <3>1, Zenon DEF RecvParks, IInv, TypeOK
    <3> HIDE DEF c
    <3> QED
      BY <3>1, <3>2, <3>3, ReasonKept DEF Reason, In
  <2> QED
    BY <1>1, <1>4, <2>1, <2>2, <2>3, Zenon DEF Recv, RecvFrom
<1>5. ASSUME NEW x \in WaitIds, Wait(x) PROVE BlockedHasReason'
  <2>1. CASE task_by_id(x) # Nil
    <3> DEFINE c == current
    <3>0. ~parked /\ c \in Slots
      BY <1>5, CurrentFacts, Zenon DEF Wait, Syscall
    <3>1. \A s \in Slots : state'[s] = "BLOCKED" <=> state[s] = "BLOCKED" \/ s = c
      BY <1>5, <2>1, <3>0, BlockFacts, Zenon DEF Wait
    <3>2. /\ wait_for'[c] = x /\ x # 0
          /\ \A s \in Slots : s # c => wait_for'[s] = wait_for[s]
          /\ UNCHANGED <<waiting_recv, queue>>
      BY <1>5, <2>1, <3>0, Zenon DEF Wait, IInv, TypeOK
    <3> HIDE DEF c
    <3> QED
      BY <3>0, <3>1, <3>2, ReasonKept, Zenon DEF Reason, In
  <2> QED
    BY <1>1, <1>5, <2>1, Zenon DEF Wait
<1>6. CASE Exit \/ Fault
  <2> DEFINE t == current
             st == RetiredState(t)
  <2>1. ~parked /\ t \in Slots /\ Retire(t) /\ schedule(st)
    BY <1>6, CurrentFacts, Zenon DEF Exit, Fault, Syscall
  <2>2. /\ st \in [Slots -> States]
        /\ \A s \in Slots :
             /\ st[s] = "RUNNING" => s = current
             /\ st[s] = "BLOCKED" => state[s] = "BLOCKED" /\ s \notin Woken(t) \cup {t}
    BY <2>1, RetiredStateFacts, Zenon DEF IInv, OneRunning
  <2> HIDE DEF st
  <2>3. \A s \in Slots : state'[s] = "BLOCKED" <=> st[s] = "BLOCKED"
    BY <2>1, <2>2, ScheduleFacts, Zenon DEF IInv
  <2> QED
    BY <2>1, <2>2, <2>3, ReasonRetire, Zenon
<1>7. ASSUME NEW x \in Ids, Kill(x) PROVE BlockedHasReason'
  <2>1. CASE task_by_id(x) \notin {Nil, current, 0}
    <3> DEFINE t == task_by_id(x)
    <3>1. t \in Slots /\ Retire(t) /\ state' = RetiredState(t)
      BY <1>7, <2>1, TaskById, Zenon DEF Kill
    <3> HIDE DEF t
    <3> QED
      BY <3>1, RetiredStateFacts, ReasonRetire, Zenon
  <2> QED
    BY <1>1, <1>7, <2>1, Zenon DEF Kill
<1>8. ASSUME NEW x \in Ids, Start(x) PROVE BlockedHasReason'
  <2>1. CASE ~(task_by_id(x) \in {Nil, 0} \/ state[task_by_id(x)] # "UNUSED")
    <3>1. /\ state' = [state EXCEPT ![task_by_id(x)] = "RUNNABLE"]
          /\ UNCHANGED <<waiting_recv, wait_for, queue>>
      BY <1>8, <2>1, Zenon DEF Start
    <3> QED
      BY <3>1, ReasonUnchanged, Zenon DEF IInv, TypeOK
  <2> QED
    BY <1>1, <1>8, <2>1, Zenon DEF Start
<1>9. ASSUME NEW ok \in BOOLEAN, NewTask(ok) \/ Thread(ok) PROVE BlockedHasReason'
  <2>1. ASSUME NEW i \in Slots, alloc_slot(i),
               \/ UNCHANGED state
               \/ state' = [state EXCEPT ![i] = IF ok THEN "RUNNABLE" ELSE @]
        PROVE  BlockedHasReason'
    <3>1. state[i] = "UNUSED"
      BY <2>1, Zenon DEF alloc_slot, FreeSlot, Occupied
    <3>2. \A k \in DOMAIN queue[i] : FALSE
      BY <3>1, Zenon DEF IInv, QueueSound
    <3>3. \A s \in Slots : state'[s] = "BLOCKED" => state[s] = "BLOCKED" /\ s # i
      BY <2>1, <3>1, Zenon DEF IInv, TypeOK
    <3>4. \A s \in Slots : s # i => /\ waiting_recv'[s] = waiting_recv[s]
                                    /\ wait_for'[s] = wait_for[s]
                                    /\ queue'[s] = queue[s]
      BY <2>1, Zenon DEF alloc_slot, IInv, TypeOK
    <3>5. \A s, d \in Slots : In(s, d) => In(s, d)'
      BY <3>2, <3>4, Zenon DEF In
    <3> QED
      BY <3>3, <3>4, <3>5, ReasonKept, Zenon DEF Reason
  <2> QED
    BY <1>1, <1>9, <2>1, Zenon DEF NewTask, Thread
<1>10. ASSUME NEW b \in BOOLEAN, Alarm(b) PROVE BlockedHasReason'
  BY <1>10, ReasonUnchanged, Zenon DEF Alarm
<1>11. ASSUME NEW due \in SUBSET Slots, TimerTick(due) PROVE BlockedHasReason'
  <2> DEFINE st == [s \in Slots |-> IF s \in due /\ InRecv(s) THEN "RUNNABLE"
                                                              ELSE state[s]]
  <2>1. /\ st \in [Slots -> States]
        /\ \A s \in Slots : /\ st[s] = "RUNNING" => s = current
                            /\ st[s] = "BLOCKED" => state[s] = "BLOCKED"
                                                    /\ ~(s \in due /\ InRecv(s))
    BY Zenon DEF IInv, TypeOK, States, OneRunning
  <2>2. schedule(st) /\ ~parked
    BY <1>11, Zenon DEF TimerTick
  <2> HIDE DEF st
  <2>3. \A s \in Slots : state'[s] = "BLOCKED" <=> st[s] = "BLOCKED"
    BY <2>1, <2>2, ScheduleFacts, Zenon DEF IInv
  <2>4. /\ waiting_recv' = [s \in Slots |-> waiting_recv[s] /\
                                            ~(s \in due /\ InRecv(s))]
        /\ UNCHANGED <<queue, wait_for>>
    BY <1>11, Zenon DEF TimerTick
  <2> QED
    BY <2>1, <2>3, <2>4, ReasonKept, ZenonT(30) DEF Reason, In
<1>12. ASSUME NEW irq \in Irqs, IrqRegister(irq) \/ IrqAck(irq)
       PROVE  BlockedHasReason'
  <2>1. \/ Answer(FAIL)
        \/ UNCHANGED <<state, waiting_recv, wait_for, queue>>
    BY <1>12, Zenon DEF IrqRegister, IrqAck
  <2> QED
    BY <1>1, <2>1, ReasonUnchanged, Zenon
<1>13. ASSUME NEW irq \in Irqs, DeviceInterrupt(irq) PROVE BlockedHasReason'
  <2> DEFINE t == irq_owner[irq]
  <2>1. UNCHANGED <<queue, wait_for>>
    BY <1>13, Zenon DEF DeviceInterrupt
  <2>2. CASE InRecv(t)
    <3>1. /\ waiting_recv' = [waiting_recv EXCEPT ![t] = FALSE]
          /\ state' = [state EXCEPT ![t] = "RUNNABLE"]
      BY <1>13, <2>2, Zenon DEF DeviceInterrupt
    <3> HIDE DEF t
    <3>2. \A s \in Slots : /\ state'[s] = "BLOCKED" => state[s] = "BLOCKED" /\ s # t
                           /\ s # t => waiting_recv'[s] = waiting_recv[s]
      BY <3>1, ZenonT(30) DEF IInv, TypeOK
    <3> QED
      BY <2>1, <3>2, ReasonKept, Zenon DEF Reason, In
  <2>3. CASE ~InRecv(t)
    <3>1. UNCHANGED <<state, waiting_recv>>
      BY <1>13, <2>3, Zenon DEF DeviceInterrupt
    <3> QED
      BY <2>1, <3>1, ReasonUnchanged, Zenon
  <2> QED
    BY <2>2, <2>3, Zenon
<1> QED
  BY <1>2, <1>3, <1>4, <1>5, <1>6, <1>7, <1>8, <1>9, <1>10, <1>11, <1>12, <1>13,
     Zenon DEF Next, Tick

\* SYS_TASKINFO's reading of a blocked task is sound (task.c:376-378): it is in
\* a receive, in a wait or in a queue of senders, provided every buffer passed
\* to recv is mapped and nobody waits for the task with the id 0.
THEOREM BlockedForAReason ==
  ASSUME 0 \notin Mortal, 0 \notin WaitIds, ~BadBuffers
  PROVE  Spec => []BlockedHasReason
<1>1. Init => BlockedHasReason
  <2>1. Init => \A s \in Slots : state[s] # "BLOCKED"
    BY Zenon DEF Init
  <2> QED
    BY <2>1, Zenon DEF BlockedHasReason
<1>2. IInv /\ BlockedHasReason /\ [Next]_vars => BlockedHasReason'
  <2>1. ASSUME BlockedHasReason, UNCHANGED vars PROVE BlockedHasReason'
    BY <2>1, ReasonUnchanged, Zenon DEF vars
  <2> QED
    BY <2>1, ReasonStep, Zenon
<1> QED
  BY <1>1, <1>2, Invariance, PTL DEF Spec
-----------------------------------------------------------------------------
(* An answer is never overwritten                                          *)

\* The trap answers only its caller and tasks it wakes.
Heard ==
  \A s \in Slots : a0'[s] # None =>
    s = current \/ (state[s] = "BLOCKED" /\ state'[s] # "BLOCKED")

\* A step that answers only the current task is heard.
LEMMA HeardAlone ==
  ASSUME NEW r, Return(r) \/ Silent PROVE Heard
BY Zenon DEF Return, Silent, Answers, Heard

\* The answers of a retirement are heard.
LEMMA HeardRetired ==
  ASSUME IInv, NEW t \in Slots,
         \/ a0' = RetiredA0(t)
         \/ a0' = [RetiredA0(t) EXCEPT ![current] = 0],
         \A s \in Slots : state'[s] = "BLOCKED" => s \notin Woken(t) \cup {t}
  PROVE  Heard
<1> DEFINE F == Failed(t) \cup Orphans(t)
           W == Waiters(t)
<1>1. RetiredA0(t) = [s \in Slots |-> CASE s \in F -> FAIL
                                        [] s \in W -> 0
                                        [] OTHER -> None]
  BY Zenon DEF RetiredA0
<1>2. F \cup W = Woken(t) /\ \A s \in F \cup W : state[s] = "BLOCKED"
  BY WokenFacts, Zenon DEF Woken
<1> HIDE DEF F, W
<1>3. \A s \in Slots : s \notin F \cup W => RetiredA0(t)[s] = None
  BY <1>1, Zenon
<1>4. DOMAIN RetiredA0(t) = Slots
  BY <1>1, Zenon
<1>5. \A s \in Slots : s # current => a0'[s] = RetiredA0(t)[s]
  BY <1>4, Zenon
<1> QED
  BY <1>2, <1>3, <1>5, Zenon DEF Heard

\* Every step of the kernel is heard.
LEMMA HeardStep == ASSUME IInv, Next PROVE Heard
<1> USE DEF schedVars, tableVars, recvVars, eventVars, irqVars
<1>1. ASSUME NEW r, Answer(r) PROVE Heard
  BY <1>1, HeardAlone, Zenon DEF Answer
<1>2. CASE Yield
  BY <1>2, HeardAlone, Zenon DEF Yield
<1>3. ASSUME NEW x \in Ids, Send(x) \/ TrySend(x) PROVE Heard
  <2>1. ASSUME NEW d \in Slots, SendDelivers(d) PROVE Heard
    BY <2>1, Zenon DEF SendDelivers, wants, Answers, Heard, IInv, TypeOK
  <2>2. ASSUME NEW d, SendParks(d) PROVE Heard
    BY <2>2, HeardAlone, Zenon DEF SendParks
  <2>3. ~SendRefused(x) => task_by_id(x) \in Slots
    BY TaskById, Zenon DEF SendRefused
  <2> QED
    BY <1>1, <1>3, <2>1, <2>2, <2>3, Zenon DEF Send, TrySend
<1>4. ASSUME Recv \/ \E x \in Ids : RecvFrom(x) PROVE Heard
  <2>0. ~parked
    BY <1>4, Zenon DEF Recv, RecvFrom, Syscall
  <2>1. CASE RecvIrq \/ RecvTimer
    BY <2>1, HeardAlone, Zenon DEF RecvIrq, RecvTimer
  <2>2. ASSUME NEW c, NEW w, NEW i \in DOMAIN queue[current], RecvTakes(c, w, i)
        PROVE  Heard
    <3> DEFINE u == queue[current][i]
    <3>1. u \in Slots /\ state[u] = "BLOCKED"
      BY <2>0, CurrentFacts, SMTT(30) DEF IInv, QueueSound, TypeOK
    <3>2. \/ /\ a0' = [Answers({current}, id[u]) EXCEPT ![u] = 0]
             /\ state' = [state EXCEPT ![u] = "RUNNABLE"]
          \/ Return(FAIL)
      BY <2>2, Zenon DEF RecvTakes
    <3> HIDE DEF u
    <3> QED
      BY <3>1, <3>2, HeardAlone, ZenonT(30) DEF Answers, Heard, IInv, TypeOK
  <2>3. ASSUME NEW c, NEW w, RecvParks(c, w) PROVE Heard
    BY <2>3, HeardAlone, Zenon DEF RecvParks
  <2> QED
    BY <1>1, <1>4, <2>1, <2>2, <2>3, Zenon DEF Recv, RecvFrom
<1>5. ASSUME NEW x \in WaitIds, Wait(x) PROVE Heard
  BY <1>1, <1>5, HeardAlone, Zenon DEF Wait
<1>6. CASE Exit \/ Fault
  <2> DEFINE t == current
             st == RetiredState(t)
  <2>1. ~parked /\ t \in Slots /\ a0' = RetiredA0(t) /\ schedule(st)
    BY <1>6, CurrentFacts, Zenon DEF Exit, Fault, Syscall
  <2>2. /\ st \in [Slots -> States]
        /\ \A s \in Slots : /\ st[s] = "RUNNING" => s = current
                            /\ st[s] = "BLOCKED" => s \notin Woken(t) \cup {t}
    BY <2>1, RetiredStateFacts, Zenon DEF IInv, OneRunning
  <2> HIDE DEF st
  <2>3. \A s \in Slots : state'[s] = "BLOCKED" <=> st[s] = "BLOCKED"
    BY <2>1, <2>2, ScheduleFacts, Zenon DEF IInv
  <2> QED
    BY <2>1, <2>2, <2>3, HeardRetired, Zenon
<1>7. ASSUME NEW x \in Ids, Kill(x) PROVE Heard
  <2>1. CASE task_by_id(x) \notin {Nil, current, 0}
    <3> DEFINE t == task_by_id(x)
    <3>1. /\ t \in Slots /\ a0' = [RetiredA0(t) EXCEPT ![current] = 0]
          /\ state' = RetiredState(t)
      BY <1>7, <2>1, TaskById, Zenon DEF Kill
    <3> HIDE DEF t
    <3> QED
      BY <3>1, RetiredStateFacts, HeardRetired, Zenon
  <2> QED
    BY <1>1, <1>7, <2>1, Zenon DEF Kill
<1>8. ASSUME NEW x \in Ids, Start(x) PROVE Heard
  BY <1>1, <1>8, HeardAlone, Zenon DEF Start
<1>9. ASSUME NEW ok \in BOOLEAN, NewTask(ok) \/ Thread(ok) PROVE Heard
  BY <1>1, <1>9, HeardAlone, Zenon DEF NewTask, Thread
<1>10. ASSUME NEW b \in BOOLEAN, Alarm(b) PROVE Heard
  BY <1>10, HeardAlone, Zenon DEF Alarm
<1>11. ASSUME NEW due \in SUBSET Slots, TimerTick(due) PROVE Heard
  <2> DEFINE st == [s \in Slots |-> IF s \in due /\ InRecv(s) THEN "RUNNABLE"
                                                              ELSE state[s]]
  <2>1. /\ st \in [Slots -> States]
        /\ \A s \in Slots : /\ st[s] = "RUNNING" => s = current
                            /\ st[s] = "BLOCKED" => ~(s \in due /\ InRecv(s))
    BY Zenon DEF IInv, TypeOK, States, OneRunning
  <2>2. schedule(st) /\ ~parked
    BY <1>11, ZenonT(30) DEF TimerTick
  <2> HIDE DEF st
  <2>3. \A s \in Slots : state'[s] = "BLOCKED" <=> st[s] = "BLOCKED"
    BY <2>1, <2>2, ScheduleFacts, Zenon DEF IInv
  <2>4. a0' = Answers({s \in due : InRecv(s)}, TIMER_SENDER)
    BY <1>11, Zenon DEF TimerTick
  <2> QED
    BY <2>1, <2>3, <2>4, Zenon DEF Heard, Answers, InRecv
<1>12. ASSUME NEW irq \in Irqs, IrqRegister(irq) \/ IrqAck(irq) PROVE Heard
  BY <1>1, <1>12, HeardAlone, Zenon DEF IrqRegister, IrqAck
<1>13. ASSUME NEW irq \in Irqs, DeviceInterrupt(irq) PROVE Heard
  <2> DEFINE t == irq_owner[irq]
  <2>1. CASE InRecv(t)
    <3>1. /\ a0' = Answers({t}, IRQ_SENDER)
          /\ state' = [state EXCEPT ![t] = "RUNNABLE"]
          /\ state[t] = "BLOCKED"
      BY <1>13, <2>1, Zenon DEF DeviceInterrupt, InRecv
    <3> HIDE DEF t
    <3> QED
      BY <3>1, Zenon DEF Heard, Answers, IInv, TypeOK
  <2>2. CASE ~InRecv(t)
    BY <1>13, <2>2, HeardAlone, Zenon DEF DeviceInterrupt
  <2> QED
    BY <2>1, <2>2, Zenon
<1> QED
  BY <1>2, <1>3, <1>4, <1>5, <1>6, <1>7, <1>8, <1>9, <1>10, <1>11, <1>12, <1>13,
     Zenon DEF Next, Tick

\* ipc_send, ipc_recv, task_retire, alarms_check and device_interrupt write
\* ctx.x[10] of another task only while they unblock it: a result a task has
\* not yet seen is never replaced.
THEOREM AnswersAreFinal == ASSUME 0 \notin Mortal PROVE Spec => AnsweredOnce
<1>1. IInv /\ [Next]_vars =>
        [\A s \in Slots : a0'[s] # None =>
           s = current \/ (state[s] = "BLOCKED" /\ state'[s] # "BLOCKED")]_vars
  BY HeardStep, Zenon DEF Heard
<1> QED
  BY <1>1, Invariance, PTL DEF Spec, AnsweredOnce

-----------------------------------------------------------------------------
(* No event is lost                                                        *)

Told ==
  /\ \A s \in Slots : Occupied(s) => FlagsTold(s)
  /\ \A irq \in masked' \ masked : OwnerTold(irq)

\* Most steps leave the flags and the interrupt controller alone.
LEMMA ToldNothing ==
  ASSUME IInv, UNCHANGED eventVars, masked' \subseteq masked PROVE Told
BY Zenon DEF eventVars, Told, FlagsTold

\* The flag of the caller is cleared by an answer (ipc_recv).
LEMMA ToldRecv == ASSUME IInv, ~parked, RecvIrq \/ RecvTimer PROVE Told
<1> USE DEF irqVars, Told, FlagsTold, Return, Answers
<1>1. current \in Slots
  BY CurrentFacts, Zenon
<1>2. CASE RecvIrq
  BY <1>1, <1>2, Zenon DEF RecvIrq, IInv, TypeOK
<1>3. CASE RecvTimer
  BY <1>1, <1>3, Zenon DEF RecvTimer, IInv, TypeOK
<1> QED
  BY <1>2, <1>3, Zenon

\* An alarm that goes off is told or leaves its flag (alarms_check).
LEMMA ToldTick ==
  ASSUME IInv, NEW due \in SUBSET Slots, TimerTick(due) PROVE Told
<1>1. /\ alarm_at' = [s \in Slots |-> alarm_at[s] /\ s \notin due]
      /\ a0' = Answers({s \in due : InRecv(s)}, TIMER_SENDER)
      /\ timer_pending' = AlarmFlags(due)
      /\ UNCHANGED <<irq_pending, masked>>
  BY Zenon DEF TimerTick, irqVars
<1>2. \A s \in Slots : s \in due /\ InRecv(s) => a0'[s] = TIMER_SENDER
  BY <1>1, Zenon DEF Answers
<1>3. \A s \in Slots : timer_pending'[s] <=>
                         timer_pending[s] \/ (s \in due /\ ~InRecv(s))
  BY <1>1, Zenon DEF AlarmFlags
<1>4. \A s \in Slots : alarm_at'[s] <=> alarm_at[s] /\ s \notin due
  BY <1>1, Zenon
<1> QED
  BY <1>1, <1>2, <1>3, <1>4, Zenon DEF Told, FlagsTold

\* A line is claimed for its owner, who is told or flagged (device_interrupt).
LEMMA ToldDevice ==
  ASSUME IInv, NEW irq \in Irqs, DeviceInterrupt(irq) PROVE Told
<1> DEFINE t == irq_owner[irq]
<1>1. /\ masked' = masked \cup {irq} /\ t # Nil
      /\ UNCHANGED <<timer_pending, alarm_at>>
  BY Zenon DEF DeviceInterrupt
<1>2. t \in Slots
  BY <1>1, Zenon DEF IInv, TypeOK
<1>3. CASE InRecv(t) /\ a0' = Answers({t}, IRQ_SENDER) /\ UNCHANGED irq_pending
  <2>1. a0'[t] = IRQ_SENDER
    BY <1>2, <1>3, Zenon DEF Answers
  <2> QED
    BY <1>1, <1>3, <2>1, Zenon DEF Told, FlagsTold, OwnerTold
<1>4. CASE irq_pending' = IrqFlags(t)
  <2>1. irq_pending'[t] /\ \A s \in Slots : irq_pending[s] => irq_pending'[s]
    BY <1>2, <1>4, Zenon DEF IrqFlags, IInv, TypeOK
  <2> QED
    BY <1>1, <2>1, Zenon DEF Told, FlagsTold, OwnerTold
<1> QED
  BY <1>3, <1>4, Zenon DEF DeviceInterrupt

\* A slot that is handed out had no task to be told anything (alloc_slot).
LEMMA ToldAlloc == ASSUME IInv, NEW i \in Slots, alloc_slot(i) PROVE Told
<1>1. ~Occupied(i) /\ UNCHANGED masked
  BY Zenon DEF alloc_slot, FreeSlot, irqVars
<1>2. \A s \in Slots : s # i => /\ irq_pending'[s] = irq_pending[s]
                                /\ timer_pending'[s] = timer_pending[s]
                                /\ alarm_at'[s] = alarm_at[s]
  BY Zenon DEF alloc_slot, IInv, TypeOK
<1> QED
  BY <1>1, <1>2, Zenon DEF Told, FlagsTold

\* SYS_ALARM disarms only for its caller, and answers 0.
LEMMA ToldAlarm == ASSUME IInv, NEW on \in BOOLEAN, Alarm(on) PROVE Told
<1>1. /\ alarm_at' = [alarm_at EXCEPT ![current] = on]
      /\ a0' = Answers({current}, 0) /\ ~parked
      /\ UNCHANGED <<irq_pending, timer_pending, masked>>
  BY Zenon DEF Alarm, Return, irqVars, Syscall
<1>2. current \in Slots /\ a0'[current] = 0
  BY <1>1, CurrentFacts, Zenon DEF Answers
<1>3. \A s \in Slots : s # current => alarm_at'[s] = alarm_at[s]
  BY <1>1, Zenon DEF IInv, TypeOK
<1> QED
  BY <1>1, <1>2, <1>3, Zenon DEF Told, FlagsTold

\* Every step tells what it takes away.
LEMMA ToldStep == ASSUME IInv, Next PROVE Told
<1> USE DEF irqVars
<1>1. ASSUME NEW r, Answer(r) PROVE Told
  BY <1>1, ToldNothing, Zenon DEF Answer
<1>2. CASE Yield \/ Exit \/ Fault
  BY <1>2, ToldNothing, Zenon DEF Yield, Exit, Fault, Retire
<1>3. ASSUME NEW x \in Ids, Send(x) \/ TrySend(x) PROVE Told
  <2>1. ASSUME NEW d, SendDelivers(d) \/ SendParks(d) PROVE Told
    BY <2>1, ToldNothing, Zenon DEF SendDelivers, SendParks
  <2> QED
    BY <1>1, <1>3, <2>1, Zenon DEF Send, TrySend
<1>4. ASSUME Recv \/ \E x \in Ids : RecvFrom(x) PROVE Told
  <2>1. ASSUME NEW c, NEW w, NEW i, RecvTakes(c, w, i) PROVE Told
    BY <2>1, ToldNothing, Zenon DEF RecvTakes
  <2>2. ASSUME NEW c, NEW w, RecvParks(c, w) PROVE Told
    BY <2>2, ToldNothing, Zenon DEF RecvParks
  <2>3. ~parked
    BY <1>4, Zenon DEF Recv, RecvFrom, Syscall
  <2> QED
    BY <1>1, <1>4, <2>1, <2>2, <2>3, ToldRecv, ZenonT(30) DEF Recv, RecvFrom
<1>5. ASSUME NEW x \in Ids, Kill(x) \/ Start(x) PROVE Told
  <2>1. ASSUME NEW t, Retire(t) PROVE Told
    BY <2>1, ToldNothing, Zenon DEF Retire
  <2> QED
    BY <1>1, <1>5, <2>1, ToldNothing, Zenon DEF Kill, Start
<1>6. ASSUME NEW x \in WaitIds, Wait(x) PROVE Told
  BY <1>1, <1>6, ToldNothing, Zenon DEF Wait
<1>7. ASSUME NEW b \in BOOLEAN, NewTask(b) \/ Thread(b) PROVE Told
  BY <1>1, <1>7, ToldAlloc, Zenon DEF NewTask, Thread
<1>8. ASSUME NEW irq \in Irqs, IrqRegister(irq) \/ IrqAck(irq) PROVE Told
  BY <1>1, <1>8, ToldNothing, Zenon DEF IrqRegister, IrqAck
<1> QED
  BY <1>2, <1>3, <1>4, <1>5, <1>6, <1>7, <1>8, ToldTick, ToldDevice, ToldAlarm, Zenon
     DEF Next, Tick

\* An interrupt or an alarm reaches its task, whatever that task is doing when
\* it comes: a flag is cleared only by the answer that reports it, an alarm goes
\* off only into an answer or a flag, and a line is claimed only for an owner
\* who is told (alarms_check, device_interrupt, ipc_recv).
THEOREM EventsAreKept == ASSUME 0 \notin Mortal PROVE Spec => EventKept
<1>1. IInv /\ [Next]_vars =>
        [/\ \A s \in Slots : Occupied(s) => FlagsTold(s)
         /\ \A irq \in masked' \ masked : OwnerTold(irq)]_vars
  BY ToldStep, Zenon DEF Told
<1> QED
  BY <1>1, Invariance, PTL DEF Spec, EventKept

-----------------------------------------------------------------------------
(* Nobody is overtaken                                                     *)

\* Whoever stands in both q and r is no further back in r.
NotBack(q, r) == \A i \in DOMAIN q, j \in DOMAIN r : q[i] = r[j] => j <= i

\* Each entry of the list is another task.
Single(q) == \A i, j \in DOMAIN q : q[i] = q[j] => i = j

\* A queue is such a list.
LEMMA QueueSingle ==
  ASSUME IInv, NEW d \in Slots
  PROVE  Single(queue[d]) /\ queue[d] \in Seq(Slots)
BY DEF IInv, TypeOK, QueueSound, Single

\* A list that stays, or is emptied, moves nobody.
LEMMA SameNotBack ==
  ASSUME NEW q \in Seq(Slots), Single(q)
  PROVE  NotBack(q, q) /\ NotBack(q, << >>)
BY DEF NotBack, Single

\* A newcomer at the end moves nobody (enqueue_sender).
LEMMA AppendNotBack ==
  ASSUME NEW q \in Seq(Slots), Single(q), NEW e \in Slots,
         \A i \in DOMAIN q : q[i] # e
  PROVE  NotBack(q, Append(q, e))
<1>1. /\ Len(Append(q, e)) = Len(q) + 1
      /\ DOMAIN Append(q, e) = 1 .. Len(q) + 1 /\ DOMAIN q = 1 .. Len(q)
      /\ \A i \in 1 .. Len(q) : Append(q, e)[i] = q[i]
      /\ Append(q, e)[Len(q) + 1] = e /\ Len(q) \in Nat
  BY AppendFacts
<1> QED
  BY <1>1 DEF NotBack, Single

\* An entry taken out moves those behind it forward (dequeue_sender).
LEMMA WithoutNotBack ==
  ASSUME NEW q \in Seq(Slots), Single(q), NEW i \in 1 .. Len(q)
  PROVE  NotBack(q, Without(q, i))
<1> DEFINE p == Without(q, i)
<1>1. /\ p \in Seq(Slots) /\ Len(p) = Len(q) - 1
      /\ \A j \in 1 .. Len(q) - 1 : p[j] = IF j < i THEN q[j] ELSE q[j + 1]
  BY WithoutFacts, Zenon
<1>2. DOMAIN p = 1 .. Len(q) - 1 /\ DOMAIN q = 1 .. Len(q) /\ Len(q) \in Nat
  BY <1>1
<1> HIDE DEF p
<1> SUFFICES NotBack(q, p)
  BY Zenon DEF p
<1>3. ASSUME NEW k \in DOMAIN q, NEW j \in DOMAIN p, q[k] = p[j] PROVE j <= k
  <2>1. j \in DOMAIN q /\ j + 1 \in DOMAIN q /\ (q[k] = q[j] \/ q[k] = q[j + 1])
    BY <1>1, <1>2, <1>3
  <2>2. k = j \/ k = j + 1
    BY <2>1, Zenon DEF Single
  <2> QED
    BY <1>2, <2>2
<1> QED
  BY <1>3, Zenon DEF NotBack

\* So does the retirement of a task that stood there (task_retire).
LEMMA UnlinkedNotBack ==
  ASSUME NEW q \in Seq(Slots), Single(q), NEW t \in Slots
  PROVE  NotBack(q, Unlinked(q, t))
<1>1. \A i, j \in 1 .. Len(q) : q[i] = t /\ q[j] = t => i = j
  BY DEF Single
<1>2. \/ Unlinked(q, t) = q
      \/ \E i \in 1 .. Len(q) : Unlinked(q, t) = Without(q, i)
  BY <1>1, UnlinkedFacts, Zenon
<1> QED
  BY <1>2, SameNotBack, WithoutNotBack, Zenon

NoneBack == \A d \in Slots : NotBack(queue[d], queue'[d])

\* Most steps leave the queues alone.
LEMMA NoneBackSame == ASSUME IInv, UNCHANGED queue PROVE NoneBack
BY QueueSingle, SameNotBack, Zenon DEF NoneBack

\* The steps that change one queue.
LEMMA NoneBackOne ==
  ASSUME IInv, NEW d \in Slots, NEW q, queue' = [queue EXCEPT ![d] = q],
         NotBack(queue[d], q)
  PROVE  NoneBack
<1>1. queue'[d] = q /\ \A e \in Slots : e # d => queue'[e] = queue[e]
  BY Zenon DEF IInv, TypeOK
<1>2. \A e \in Slots : NotBack(queue[e], queue[e])
  BY QueueSingle, SameNotBack, Zenon
<1> QED
  BY <1>1, <1>2, Zenon DEF NoneBack

\* A retirement shortens them.
LEMMA NoneBackRetire == ASSUME IInv, NEW t \in Slots, Retire(t) PROVE NoneBack
<1>1. \A d \in Slots : queue'[d] = IF d = t THEN << >> ELSE Unlinked(queue[d], t)
  BY Zenon DEF Retire, RetiredQueue
<1>2. \A d \in Slots : /\ NotBack(queue[d], << >>)
                       /\ NotBack(queue[d], Unlinked(queue[d], t))
  BY QueueSingle, SameNotBack, UnlinkedNotBack, Zenon
<1> QED
  BY <1>1, <1>2, Zenon DEF NoneBack

\* No step moves a queued sender back.
LEMMA NoneBackStep == ASSUME IInv, Next PROVE NoneBack
<1> USE NoneBackSame
<1>1. ASSUME NEW r, Answer(r) PROVE NoneBack
  BY <1>1, Zenon DEF Answer
<1>2. ASSUME NEW x \in Ids, Send(x) \/ TrySend(x) PROVE NoneBack
  <2>1. ASSUME NEW d, SendDelivers(d) PROVE NoneBack
    BY <2>1, Zenon DEF SendDelivers
  <2>2. ASSUME NEW d \in Slots, SendParks(d) PROVE NoneBack
    <3>1. current \in Slots /\ state[current] = "RUNNING"
      BY <1>2, CurrentFacts, Zenon DEF Send, TrySend, Syscall
    <3>2. \A i \in DOMAIN queue[d] : queue[d][i] # current
      BY <3>1, Zenon DEF IInv, QueueSound
    <3>3. NotBack(queue[d], Append(queue[d], current))
      BY <3>1, <3>2, QueueSingle, AppendNotBack, Zenon
    <3> QED
      BY <2>2, <3>3, NoneBackOne, ZenonT(30) DEF SendParks, enqueue_sender
  <2>3. ~SendRefused(x) => task_by_id(x) \in Slots
    BY TaskById, Zenon DEF SendRefused
  <2> QED
    BY <1>1, <1>2, <2>1, <2>2, <2>3, Zenon DEF Send, TrySend
<1>3. ASSUME Recv \/ \E x \in Ids : RecvFrom(x) PROVE NoneBack
  <2>0. current \in Slots
    BY Zenon DEF IInv, TypeOK
  <2>1. CASE RecvIrq \/ RecvTimer
    BY <2>1, Zenon DEF RecvIrq, RecvTimer
  <2>2. ASSUME NEW c, NEW w, NEW i \in DOMAIN queue[current], RecvTakes(c, w, i)
        PROVE  NoneBack
    <3>1. i \in 1 .. Len(queue[current])
      BY <2>0, QueueSingle, SMTT(30)
    <3>2. NotBack(queue[current], Without(queue[current], i))
      BY <2>0, <3>1, QueueSingle, WithoutNotBack, Zenon
    <3> QED
      BY <2>0, <2>2, <3>2, NoneBackOne, Zenon DEF RecvTakes
  <2>3. ASSUME NEW c, NEW w, RecvParks(c, w) PROVE NoneBack
    BY <2>3, Zenon DEF RecvParks
  <2> QED
    BY <1>1, <1>3, <2>1, <2>2, <2>3, Zenon DEF Recv, RecvFrom
<1>4. CASE Exit \/ Fault
  BY <1>4, NoneBackRetire, Zenon DEF Exit, Fault, IInv, TypeOK
<1>5. ASSUME NEW x \in Ids, Kill(x) PROVE NoneBack
  BY <1>1, <1>5, TaskById, NoneBackRetire, Zenon DEF Kill
<1>6. ASSUME NEW b \in BOOLEAN, NewTask(b) \/ Thread(b) PROVE NoneBack
  <2>1. ASSUME NEW i \in Slots, alloc_slot(i) PROVE NoneBack
    <3>1. NotBack(queue[i], << >>)
      BY QueueSingle, SameNotBack, Zenon
    <3> QED
      BY <2>1, <3>1, NoneBackOne, Zenon DEF alloc_slot
  <2> QED
    BY <1>1, <1>6, <2>1, Zenon DEF NewTask, Thread
<1>7. ASSUME NEW x \in WaitIds, Wait(x) PROVE NoneBack
  BY <1>1, <1>7, Zenon DEF Wait
<1>8. CASE Yield \/ \E x \in Ids : Start(x)
  BY <1>1, <1>8, Zenon DEF Yield, Start
<1>9. CASE Tick \/ \E b \in BOOLEAN : Alarm(b)
  BY <1>9, Zenon DEF Tick, TimerTick, Alarm
<1>10. CASE \E irq \in Irqs : IrqRegister(irq) \/ IrqAck(irq) \/ DeviceInterrupt(irq)
  BY <1>1, <1>10, Zenon DEF IrqRegister, IrqAck, DeviceInterrupt
<1> QED
  BY <1>2, <1>3, <1>4, <1>5, <1>6, <1>7, <1>8, <1>9, <1>10, Zenon DEF Next

\* Where a list says somebody stands, they stand.
LEMMA PositionFacts ==
  ASSUME NEW q, NEW s, s \in Members(q)
  PROVE  Position(q, s) \in DOMAIN q /\ q[Position(q, s)] = s
BY Zenon DEF Members, Position

\* First come, first served: between two steps a queued sender keeps its place or
\* moves forward, through later senders, closed receives that pick from the
\* middle, and the death of those before it (enqueue_sender, dequeue_sender,
\* task_retire).
THEOREM NobodyIsOvertaken == ASSUME 0 \notin Mortal PROVE Spec => NoOvertaking
<1> DEFINE Ahead == \A d, s \in Slots :
             s \in Members(queue[d]) /\ s \in Members(queue'[d])
               => Position(queue'[d], s) <= Position(queue[d], s)
<1>1. NoneBack => Ahead
  BY PositionFacts DEF NoneBack, NotBack
<1>2. IInv /\ [Next]_vars => [Ahead]_vars
  BY <1>1, NoneBackStep, Zenon
<1> QED
  BY <1>2, Invariance, PTL DEF Spec, NoOvertaking

-----------------------------------------------------------------------------
(* The mapping, case by case                                               *)

\* What Rendezvous sees of the task in slot s.
Seen(s) ==
  /\ state[s] \in {"RUNNABLE", "RUNNING"} => phases[s] = "ready" /\ peers[s] = Nil
  /\ state[s] = "UNUSED" => /\ phases[s] = IF pt[s] THEN "unborn" ELSE "gone"
                            /\ peers[s] = Nil
  /\ InRecv(s) => /\ phases[s] = "recv"
                  /\ peers[s] = IF recv_closed[s] THEN recv_from[s] ELSE Nil
  /\ state[s] = "BLOCKED" /\ wait_for[s] # 0 =>
       phases[s] = "wait" /\ peers[s] = wait_for[s]
  /\ \A d \in Slots : In(s, d) => phases[s] = "send" /\ peers[s] = id[d]

View ==
  /\ phases = [s \in Slots |-> phases[s]] /\ peers = [s \in Slots |-> peers[s]]
  /\ names = [s \in Slots |-> TaskId(s, gen[s])]
  /\ \A s \in Slots : Seen(s)

\* The mapping says so: in particular a queued sender has one peer.
LEMMA Viewed == ASSUME IInv PROVE View
<1>1. \A s \in Slots : phases[s] = PhaseOf(s) /\ peers[s] = PeerOf(s)
  BY Zenon DEF phases, peers
<1>2. ASSUME NEW s \in Slots PROVE Seen(s)
  <2>1. state[s] # "BLOCKED" =>
          /\ state[s] \in {"RUNNABLE", "RUNNING"} =>
               phases[s] = "ready" /\ peers[s] = Nil
          /\ state[s] = "UNUSED" =>
               phases[s] = (IF pt[s] THEN "unborn" ELSE "gone") /\ peers[s] = Nil
    BY <1>1, Zenon DEF PhaseOf, PeerOf, InRecv
  <2>2. InRecv(s) => /\ phases[s] = "recv"
                     /\ peers[s] = IF recv_closed[s] THEN recv_from[s] ELSE Nil
    BY <1>1, Zenon DEF PhaseOf, PeerOf, InRecv
  <2>3. state[s] = "BLOCKED" /\ wait_for[s] # 0 =>
          phases[s] = "wait" /\ peers[s] = wait_for[s]
    BY <1>1, Zenon DEF PhaseOf, PeerOf, InRecv, IInv, OneReason
  <2>4. ASSUME NEW d \in Slots, In(s, d)
        PROVE  phases[s] = "send" /\ peers[s] = id[d]
    <3>1. state[s] = "BLOCKED" /\ ~waiting_recv[s] /\ wait_for[s] = 0
      BY <2>4 DEF In, IInv, QueueSound
    <3>2. \A e \in Slots : s \in Members(queue[e]) <=> e = d
      BY <2>4 DEF In, Members, IInv, QueueSound
    <3>3. (CHOOSE e \in Slots : s \in Members(queue[e])) = d
      BY <3>2, Zenon
    <3> QED
      BY <1>1, <3>1, <3>3, Zenon DEF PhaseOf, PeerOf, InRecv
  <2> QED
    BY <2>1, <2>2, <2>3, <2>4, Zenon DEF Seen, InRecv
<1> QED
  BY <1>2, Zenon DEF View, phases, peers, names

\* A task that stays blocked as it was, or stays unblocked, looks the same.
Undisturbed(s) ==
  /\ state'[s] = "BLOCKED" <=> state[s] = "BLOCKED"
  /\ state'[s] = "UNUSED" <=> state[s] = "UNUSED"
  /\ state[s] = "UNUSED" => pt'[s] = pt[s]
  /\ state[s] = "BLOCKED" => /\ waiting_recv'[s] = waiting_recv[s]
                             /\ recv_closed'[s] = recv_closed[s]
                             /\ recv_from'[s] = recv_from[s]
                             /\ wait_for'[s] = wait_for[s]
  /\ \A d \in Slots : In(s, d) => In(s, d)' /\ id'[d] = id[d]

LooksSame(s) == phases'[s] = phases[s] /\ peers'[s] = peers[s]

\* The hypotheses of every step below.
Before == IInv /\ BlockedHasReason /\ View
Stepped == Before /\ IInv' /\ BlockedHasReason' /\ View'

\* An undisturbed task looks the same.
LEMMA UndisturbedSame ==
  ASSUME Stepped, NEW s \in Slots, Undisturbed(s) PROVE LooksSame(s)
<1>1. state[s] \in States /\ state'[s] \in States /\ Seen(s) /\ Seen(s)'
  BY Zenon DEF Stepped, Before, View, IInv, TypeOK, States
<1>2. CASE state[s] # "BLOCKED"
  BY <1>1, <1>2, Zenon DEF Undisturbed, LooksSame, Seen, States
<1>3. CASE InRecv(s)
  BY <1>1, <1>3, Zenon DEF Undisturbed, LooksSame, Seen, InRecv
<1>4. CASE state[s] = "BLOCKED" /\ wait_for[s] # 0
  BY <1>1, <1>4, Zenon DEF Undisturbed, LooksSame, Seen
<1>5. ASSUME NEW d \in Slots, In(s, d) PROVE LooksSame(s)
  <2>1. In(s, d)' /\ id'[d] = id[d]
    BY <1>5, Zenon DEF Undisturbed
  <2>2. phases[s] = "send" /\ peers[s] = id[d] /\ phases'[s] = "send" /\ peers'[s] = id'[d]
    BY <1>1, <1>5, <2>1, Zenon DEF Seen
  <2> QED
    BY <2>1, <2>2, Zenon DEF LooksSame
<1>6. state[s] = "BLOCKED" => Reason(s)
  BY ReasonInv, Zenon DEF Stepped, Before
<1> QED
  BY <1>2, <1>3, <1>4, <1>5, <1>6, Zenon DEF Reason, InRecv

\* A ready task and one that is ready after the step.
LEMMA ReadySeen ==
  ASSUME View, NEW s \in Slots, state[s] \in {"RUNNABLE", "RUNNING"}
  PROVE  phases[s] = "ready" /\ peers[s] = Nil
BY Zenon DEF View, Seen

\* The task on the hart is ready.
LEMMA CurrentReady ==
  ASSUME Stepped, ~parked
  PROVE  /\ current \in Slots /\ phases[current] = "ready" /\ peers[current] = Nil
         /\ id[current] = names[current]
<1>1. current \in Slots /\ state[current] = "RUNNING" /\ Occupied(current)
  BY CurrentFacts, Zenon DEF Stepped, Before
<1> QED
  BY <1>1, ReadySeen, Zenon DEF Stepped, Before, IInv, Names, View

\* An occupied slot goes by its id.
LEMMA NamedById ==
  ASSUME Stepped, NEW s \in Slots, Occupied(s) PROVE names[s] = id[s]
BY Zenon DEF Stepped, Before, IInv, Names, View

-----------------------------------------------------------------------------
(* The steps of Rendezvous, from what happens to each task                 *)

\* A call that does not block.
LEMMA IsCall ==
  ASSUME Stepped, \A s \in Slots : LooksSame(s), UNCHANGED gen,
         \A s \in Slots : a0'[s] # None => phases[s] = "ready"
  PROVE  R!Call
<1>1. phases' = phases /\ peers' = peers /\ names' = names
  BY Zenon DEF Stepped, Before, View, LooksSame
<1> QED
  BY <1>1, Zenon DEF R!Call, R!OnlyReadyHear, R!None, None
\* What each phase says of the kernel's state.
LEMMA PhaseCases ==
  ASSUME Before, NEW s \in Slots
  PROVE  /\ phases[s] = "gone" <=> ~Occupied(s)
         /\ phases[s] = "unborn" <=> state[s] = "UNUSED" /\ pt[s]
         /\ phases[s] = "ready" <=> state[s] \in {"RUNNABLE", "RUNNING"}
         /\ phases[s] = "recv" <=> InRecv(s)
         /\ phases[s] = "wait" <=> state[s] = "BLOCKED" /\ wait_for[s] # 0
         /\ phases[s] = "send" <=> \E d \in Slots : In(s, d)
<1>1. state[s] \in States /\ Seen(s) /\ (state[s] = "BLOCKED" => Reason(s))
  BY ReasonInv, Zenon DEF Before, View, IInv, TypeOK, States
<1>2. \A d \in Slots : In(s, d) =>
         state[s] = "BLOCKED" /\ ~waiting_recv[s] /\ wait_for[s] = 0
  <2>1. QueueSound
    BY Zenon DEF Before, IInv
  <2>2. ASSUME NEW d \in Slots, In(s, d)
        PROVE  state[s] = "BLOCKED" /\ ~waiting_recv[s] /\ wait_for[s] = 0
    <3>1. PICK i \in DOMAIN queue[d] : queue[d][i] = s
      BY <2>2, Zenon DEF In
    <3>2. LET u == queue[d][i]
          IN  state[u] = "BLOCKED" /\ ~waiting_recv[u] /\ wait_for[u] = 0
      BY <2>1, Zenon DEF QueueSound
    <3> QED
      BY <3>1, <3>2, Zenon
  <2> QED
    BY <2>2, Zenon
<1>3. CASE state[s] # "BLOCKED"
  BY <1>1, <1>2, <1>3, Zenon DEF Seen, States, Occupied, InRecv
<1>4. CASE InRecv(s)
  BY <1>1, <1>2, <1>4, Zenon DEF Seen, Occupied, InRecv, Before, IInv, OneReason
<1>5. CASE state[s] = "BLOCKED" /\ wait_for[s] # 0
  BY <1>1, <1>2, <1>5, Zenon DEF Seen, Occupied, InRecv, Before, IInv, OneReason
<1>6. ASSUME NEW d \in Slots, In(s, d) PROVE phases[s] = "send"
  BY <1>1, <1>6, Zenon DEF Seen
<1>7. CASE \E d \in Slots : In(s, d)
  BY <1>2, <1>6, <1>7, Zenon DEF Occupied, InRecv
<1> QED
  BY <1>1, <1>3, <1>4, <1>5, <1>7, Zenon DEF Reason, InRecv

\* No two slots go by the same name, and no name is Nil.
LEMMA NamesDiffer ==
  ASSUME View, IInv
  PROVE  /\ \A s \in Slots : names[s] \in Nat /\ names[s] # Nil
         /\ \A s, u \in Slots : names[s] = names[u] => s = u
<1>1. \A s \in Slots : gen[s] \in Nat /\ names[s] = TaskId(s, gen[s])
  BY SlotFacts, SMTT(30) DEF View, IInv, TypeOK
<1>2. \A s \in Slots : TASK_SLOT(names[s]) = s
  BY <1>1, SlotOfId, Zenon
<1>3. \A s \in Slots : names[s] \in Nat
  BY <1>1, SlotFacts DEF TaskId
<1> QED
  BY <1>2, <1>3 DEF Nil

\* The current task blocks on a live task, or in an open receive.
LEMMA IsBlock ==
  ASSUME Stepped, NEW t \in Slots, phases[t] = "ready", UNCHANGED gen, Silent,
         \A s \in Slots : s # t => LooksSame(s),
         NEW p \in {"send", "recv", "wait"}, phases'[t] = p,
         \/ peers'[t] = Nil /\ p = "recv"
         \/ \E u \in Slots : /\ peers'[t] = names[u] /\ Occupied(u)
                             /\ p = "send" => state[u] # "UNUSED"
  PROVE  R!Block(t)
<1>0. Before /\ View /\ View' /\ IInv
  BY Zenon DEF Stepped, Before
<1>1. /\ phases' = [phases EXCEPT ![t] = p]
      /\ peers' = [peers EXCEPT ![t] = peers'[t]]
      /\ names' = names
  BY <1>0, Zenon DEF View, LooksSame
<1>2. a0' = R!Quiet
  BY Zenon DEF Silent, Answers, R!Quiet, R!None, None
<1> DEFINE n == peers'[t]
<1>3. n \in {names[u] : u \in Slots} \cup {Nil}
  BY Zenon
<1>4. IF n = Nil THEN p = "recv" ELSE R!Called(n) # {}
  <2>1. ASSUME NEW u \in Slots, n = names[u], Occupied(u)
        PROVE  n # Nil /\ u \in R!Called(n)
    BY <1>0, <2>1, PhaseCases, NamesDiffer, Zenon DEF R!Called
  <2> QED
    BY <2>1, Zenon
<1>5. p = "send" => \A u \in R!Called(n) \ {t} : phases[u] # "unborn"
  <2>1. ASSUME NEW u \in Slots, n = names[u], state[u] # "UNUSED",
               NEW v \in R!Called(n)
        PROVE  phases[v] # "unborn"
    <3>1. v \in Slots /\ names[v] = n
      BY Zenon DEF R!Called
    <3>2. v = u
      BY <1>0, <2>1, <3>1, NamesDiffer, Zenon
    <3> QED
      BY <1>0, <2>1, <3>2, PhaseCases, Zenon
  <2> QED
    BY <2>1, Zenon
<1> HIDE DEF n
<1>6. peers' = [peers EXCEPT ![t] = n]
  BY <1>1, Zenon DEF n
<1> QED
  BY <1>1, <1>2, <1>3, <1>4, <1>5, <1>6, Zenon DEF R!Block, R!Blocked

\* The tasks of W become ready, and nobody else is disturbed.
LEMMA IsWake ==
  ASSUME Stepped, NEW W \in SUBSET Slots,
         \A s \in Slots \ W : LooksSame(s),
         \A s \in W : state'[s] \in {"RUNNABLE", "RUNNING"}
  PROVE  R!Wake(W)
<1>1. View /\ View'
  BY Zenon DEF Stepped, Before
<1>2. \A s \in W : phases'[s] = "ready" /\ peers'[s] = Nil
  BY <1>1, Zenon DEF View, Seen
<1>3. /\ phases' = [s \in Slots |-> phases'[s]]
      /\ peers' = [s \in Slots |-> peers'[s]]
  BY <1>1, Zenon DEF View
<1> QED
  BY <1>2, <1>3, Zenon DEF R!Wake, LooksSame

-----------------------------------------------------------------------------
(* Births and deaths, from what happens to each task                       *)

\* A slot that held nobody, or a task being built, changes its phase.
LEMMA IsBorn ==
  ASSUME Stepped, NEW t \in Slots, UNCHANGED gen,
         \A s \in Slots : s # t => LooksSame(s),
         \A s \in Slots : a0'[s] # None => phases[s] = "ready",
         state[t] = "UNUSED",
         \/ ~pt[t] /\ state'[t] = "UNUSED" /\ pt'[t]
         \/ state'[t] = "RUNNABLE"
  PROVE  R!Born(t) \/ R!Begin(t)
<1>1. View /\ View' /\ names' = names
  BY Zenon DEF Stepped, Before, View
<1>2. phases[t] = (IF pt[t] THEN "unborn" ELSE "gone") /\ peers[t] = Nil
  BY <1>1, Zenon DEF View, Seen
<1>3. /\ peers'[t] = Nil
      /\ phases'[t] = IF state'[t] = "UNUSED" THEN "unborn" ELSE "ready"
  BY <1>1, Zenon DEF View, Seen
<1>4. /\ phases' = [phases EXCEPT ![t] = phases'[t]]
      /\ peers' = peers
  BY <1>1, <1>2, <1>3 DEF View, LooksSame
<1>5. R!OnlyReadyHear
  BY Zenon DEF R!OnlyReadyHear, R!None, None
<1> QED
  BY <1>1, <1>2, <1>3, <1>4, <1>5, Zenon DEF R!Born, R!Begin
\* Everybody blocked on t is woken, and nobody else (task_retire).
LEMMA BlockedOn ==
  ASSUME Before, NEW t \in Slots \ {0}, Occupied(t), NEW u \in Slots \ {t}
  PROVE  /\ u \in Failed(t) <=> phases[u] = "send" /\ peers[u] = names[t]
         /\ u \in Waiters(t) <=> phases[u] = "wait" /\ peers[u] = names[t]
         /\ u \in Orphans(t) <=> phases[u] = "recv" /\ peers[u] = names[t]
<1>1. /\ \A s \in Slots : Occupied(s) => names[s] = id[s]
      /\ \A s \in Slots : names[s] # Nil
      /\ \A s, v \in Slots : names[s] = names[v] => s = v
  BY NamesDiffer, Zenon DEF Before, IInv, Names, View
<1>2. names[t] = id[t] /\ id[t] # 0 /\ id[t] # Nil
  <2>1. id[t] = TaskId(t, gen[t]) /\ gen[t] \in Nat
    BY SlotFacts DEF Before, IInv, Names, TypeOK
  <2> QED
    BY <1>1, <2>1, NonzeroId, Zenon
<1>3. Seen(u)
  BY Zenon DEF Before, View
<1>4. u \in Failed(t) <=> In(u, t)
  BY Zenon DEF Failed, Members, In
<1>5. \A d \in Slots : In(u, d) => Occupied(d)
  BY Zenon DEF In, Occupied, Before, IInv, QueueSound
<1>6. u \in Failed(t) <=> phases[u] = "send" /\ peers[u] = names[t]
  <2>1. ASSUME NEW d \in Slots, In(u, d), peers[u] = names[t] PROVE In(u, t)
    <3>1. peers[u] = id[d] /\ names[d] = id[d]
      BY <1>1, <1>3, <1>5, <2>1, Zenon DEF Seen
    <3>2. d = t
      BY <1>1, <2>1, <3>1, Zenon
    <3> QED
      BY <2>1, <3>2, Zenon
  <2>2. phases[u] = "send" <=> \E d \in Slots : In(u, d)
    BY PhaseCases, Zenon
  <2>3. In(u, t) => peers[u] = names[t]
    BY <1>2, <1>3, Zenon DEF Seen
  <2> QED
    BY <1>4, <2>1, <2>2, <2>3, Zenon
<1>7. In(u, t) => wait_for[u] = 0 /\ ~waiting_recv[u]
  BY DEF In, Before, IInv, QueueSound
<1>8. u \in Waiters(t) <=> phases[u] = "wait" /\ peers[u] = names[t]
  <2>1. u \in Waiters(t) <=> state[u] = "BLOCKED" /\ wait_for[u] = id[t]
    BY <1>2, <1>4, <1>7, Zenon DEF Waiters
  <2>2. phases[u] = "wait" <=> state[u] = "BLOCKED" /\ wait_for[u] # 0
    BY PhaseCases, Zenon
  <2> QED
    BY <1>2, <1>3, <2>1, <2>2, Zenon DEF Seen
<1>9. u \in Orphans(t) <=> phases[u] = "recv" /\ peers[u] = names[t]
  <2>1. InRecv(u) => wait_for[u] = 0
    BY Zenon DEF InRecv, Before, IInv, OneReason
  <2>2. u \in Orphans(t) <=> InRecv(u) /\ recv_closed[u] /\ recv_from[u] = id[t]
    BY <1>2, <1>4, <1>7, <2>1, Zenon DEF Orphans, Waiters, InRecv
  <2>3. phases[u] = "recv" <=> InRecv(u)
    BY PhaseCases, Zenon
  <2> QED
    BY <1>2, <1>3, <2>2, <2>3, Zenon DEF Seen
<1> QED
  BY <1>6, <1>8, <1>9, Zenon

\* What a retirement tells everybody.
Tells(t) ==
  \A s \in Slots \ {t} :
    /\ s \in Waiters(t) => a0'[s] = 0
    /\ s \in Failed(t) \cup Orphans(t) => a0'[s] = FAIL
    /\ s \notin Woken(t) /\ a0'[s] # None => phases[s] = "ready"

\* A retirement is a Die.
LEMMA IsDie ==
  ASSUME Stepped, NEW t \in Slots \ {0}, Occupied(t), Retire(t), Tells(t),
         \A s \in Slots :
           /\ state'[s] = "UNUSED" <=> state[s] = "UNUSED" \/ s = t
           /\ state'[s] = "BLOCKED"
                <=> state[s] = "BLOCKED" /\ s \notin Woken(t) \cup {t}
  PROVE  R!Die(t)
<1>0. Before /\ View /\ View' /\ IInv /\ IInv'
  BY Zenon DEF Stepped, Before
<1> DEFINE On(p) == {u \in Slots \ {t} : phases[u] = p /\ peers[u] = names[t]}
           Up == On("send") \cup On("recv") \cup On("wait")
<1>1. ASSUME NEW u \in Slots \ {t}
      PROVE  /\ u \in On("send") <=> u \in Failed(t)
             /\ u \in On("wait") <=> u \in Waiters(t)
             /\ u \in On("recv") <=> u \in Orphans(t)
             /\ u \in Up <=> u \in Woken(t)
  BY <1>0, BlockedOn, Zenon DEF Woken
<1>2. phases[t] # "gone"
  BY <1>0, PhaseCases, Zenon
<1>3. names'[t] > names[t] /\ \A u \in Slots \ {t} : names'[u] = names[u]
  <2>1. gen' = [gen EXCEPT ![t] = @ + 1] /\ gen[t] \in Nat
    BY <1>0, SlotFacts DEF Retire, RetiredGen, IInv, TypeOK
  <2>2. gen'[t] = gen[t] + 1 /\ \A u \in Slots \ {t} : gen'[u] = gen[u]
    BY <1>0, <2>1, Zenon DEF IInv, TypeOK
  <2>3. \A u \in Slots : names[u] = TaskId(u, gen[u]) /\ names'[u] = TaskId(u, gen'[u])
    BY <1>0, Zenon DEF View
  <2> QED
    BY <2>1, <2>2, <2>3, SlotFacts, SMTT(30) DEF TaskId
<1>4. phases'[t] = "gone" /\ peers'[t] = Nil
  <2>1. state'[t] = "UNUSED" /\ ~pt'[t]
    BY <1>0, Zenon DEF Retire, IInv, TypeOK
  <2> QED
    BY <1>0, <2>1, Zenon DEF View, Seen
<1>5. ASSUME NEW u \in Slots \ {t}, u \in Woken(t)
      PROVE  phases'[u] = "ready" /\ peers'[u] = Nil
  <2>1. state[u] = "BLOCKED"
    BY <1>0, <1>5, WokenFacts, Zenon
  <2>2. state'[u] \in {"RUNNABLE", "RUNNING"}
    BY <1>0, <1>5, <2>1, Zenon DEF IInv, TypeOK
  <2> QED
    BY <1>0, <2>2, Zenon DEF View, Seen
<1>6. ASSUME NEW u \in Slots \ {t}, u \notin Woken(t) PROVE LooksSame(u)
  <2>1. /\ state'[u] = "BLOCKED" <=> state[u] = "BLOCKED"
        /\ state'[u] = "UNUSED" <=> state[u] = "UNUSED"
    BY <1>6, Zenon
  <2>2. /\ pt'[u] = pt[u] /\ waiting_recv'[u] = waiting_recv[u]
        /\ recv_closed'[u] = recv_closed[u] /\ recv_from'[u] = recv_from[u]
        /\ wait_for'[u] = wait_for[u] /\ id' = id
    <3>1. u \notin Orphans(t) /\ u \notin Waiters(t) /\ u # t
      BY <1>6, Zenon DEF Woken
    <3>2. waiting_recv[u] \in BOOLEAN /\ recv_closed[u] \in BOOLEAN
      BY <1>0, Zenon DEF IInv, TypeOK
    <3>3. waiting_recv'[u] = waiting_recv[u] /\ recv_closed'[u] = recv_closed[u]
      BY <3>1, <3>2, Zenon DEF Retire
    <3>4. pt'[u] = pt[u]
      BY <1>0, <3>1, Zenon DEF Retire, IInv, TypeOK
    <3> QED
      BY <3>1, <3>3, <3>4, Zenon DEF Retire
  <2>3. ASSUME NEW d \in Slots, In(u, d) PROVE In(u, d)'
    <3>1. d # t
      BY <1>6, <2>3, Zenon DEF Woken, Failed, Members, In
    <3>2. state[u] = "BLOCKED" /\ ~waiting_recv[u] /\ wait_for[u] = 0
      BY <1>0, <2>3 DEF In, IInv, QueueSound
    <3>3. \E e \in Slots : In(u, e)'
      <4>1. Reason(u)'
        <5>1. state'[u] = "BLOCKED"
          BY <2>1, <3>2, Zenon
        <5>2. BlockedHasReason' => (\A s \in Slots : state[s] = "BLOCKED" => Reason(s))'
          BY ReasonInv, PTL
        <5> QED
          BY <5>1, <5>2, Zenon DEF Stepped
      <4> QED
        BY <2>2, <3>2, <4>1, Zenon DEF Reason
    <3>4. PICK e \in Slots : In(u, e)'
      BY <3>3, Zenon
    <3>5. In(u, e)
      <4>1. \A c \in Slots : Thins(queue'[c], queue[c])
        BY <1>0, RetiredQueueFacts, Zenon DEF Retire
      <4> QED
        BY <3>4, <4>1 DEF In, Thins
    <3>6. e = d
      BY <1>0, <2>3, <3>5, SMTT(30) DEF In, IInv, QueueSound
    <3> QED
      BY <3>4, <3>6, Zenon
  <2>4. Undisturbed(u)
    BY <2>1, <2>2, <2>3, Zenon DEF Undisturbed
  <2> QED
    BY <2>4, UndisturbedSame, Zenon
<1>7. /\ phases' = [s \in Slots |-> phases'[s]]
      /\ peers' = [s \in Slots |-> peers'[s]]
  BY <1>0, Zenon DEF View
<1>8. ASSUME NEW u \in Slots \ {t}
      PROVE  /\ u \in On("wait") => a0'[u] = 0
             /\ u \in On("send") \cup On("recv") => a0'[u] = FAIL
             /\ u \notin Up /\ phases[u] # "ready" => a0'[u] = None
  BY <1>1, Zenon DEF Tells
<1>9. /\ \A u \in Up : u \in Slots \ {t} /\ phases'[u] = "ready" /\ peers'[u] = Nil
      /\ \A u \in Slots \ {t} : u \notin Up => LooksSame(u)
  BY <1>1, <1>5, <1>6, Zenon
<1> HIDE DEF On
<1>10. phases' = [u \in Slots |-> IF u = t THEN "gone"
                                  ELSE IF u \in Up THEN "ready" ELSE phases[u]]
  BY <1>4, <1>7, <1>9, Zenon DEF LooksSame
<1>11. peers' = [u \in Slots |-> IF u \in Up \cup {t} THEN Nil ELSE peers[u]]
  BY <1>4, <1>7, <1>9, Zenon DEF LooksSame
<1> QED
  BY <1>2, <1>3, <1>8, <1>10, <1>11, Zenon
     DEF On, R!Die, R!OK, R!FAIL, R!None, FAIL, None

-----------------------------------------------------------------------------
(* The steps of the kernel                                                 *)

\* A step that blocks, unblocks, creates and retires nobody looks like none.
LEMMA NothingSeen ==
  ASSUME Stepped, UNCHANGED <<tableVars, queue, recvVars, wait_for>>,
         \A s \in Slots : /\ state'[s] = "BLOCKED" <=> state[s] = "BLOCKED"
                          /\ state'[s] = "UNUSED" <=> state[s] = "UNUSED"
  PROVE  UNCHANGED gen /\ \A s \in Slots : LooksSame(s)
<1>1. \A s \in Slots : Undisturbed(s)
  BY Zenon DEF Undisturbed, In, tableVars, recvVars
<1> QED
  BY <1>1, UndisturbedSame, Zenon DEF tableVars

\* Such a step, when it answers nobody but the task that trapped, is a Call.
LEMMA CallStep ==
  ASSUME Stepped, ~parked, UNCHANGED <<tableVars, queue, recvVars, wait_for>>,
         \A s \in Slots : /\ state'[s] = "BLOCKED" <=> state[s] = "BLOCKED"
                          /\ state'[s] = "UNUSED" <=> state[s] = "UNUSED",
         NEW r, Return(r) \/ Silent
  PROVE  R!Call
<1>1. \A s \in Slots : a0'[s] # None => s = current
  BY Zenon DEF Return, Silent, Answers
<1>2. \A s \in Slots : a0'[s] # None => phases[s] = "ready"
  BY <1>1, CurrentReady, Zenon
<1>3. UNCHANGED gen /\ \A s \in Slots : LooksSame(s)
  BY NothingSeen, Zenon
<1> QED
  BY <1>2, <1>3, IsCall, Zenon

\* The calls that only answer, or change flags and lines.
LEMMA AnswerIsCall ==
  ASSUME Stepped, ~parked,
         \/ \E r : Answer(r)
         \/ RecvIrq \/ RecvTimer
         \/ \E on \in BOOLEAN : Alarm(on)
         \/ \E irq \in Irqs : IrqRegister(irq) \/ IrqAck(irq)
         \/ \E irq \in Irqs : DeviceInterrupt(irq) /\ ~InRecv(irq_owner[irq])
  PROVE  R!Call
<1>1. /\ UNCHANGED <<tableVars, queue, recvVars, wait_for>> /\ UNCHANGED state
      /\ \E r : Return(r) \/ Silent
  <2>1. ASSUME NEW r, Answer(r)
        PROVE  /\ UNCHANGED <<tableVars, queue, recvVars, wait_for>>
               /\ UNCHANGED state /\ \E q : Return(q) \/ Silent
    BY <2>1, Zenon DEF Answer, schedVars
  <2>2. CASE RecvIrq \/ RecvTimer
    BY <2>2, Zenon DEF RecvIrq, RecvTimer, schedVars
  <2>3. ASSUME NEW on \in BOOLEAN, Alarm(on)
        PROVE  /\ UNCHANGED <<tableVars, queue, recvVars, wait_for>>
               /\ UNCHANGED state /\ \E q : Return(q) \/ Silent
    BY <2>3, Zenon DEF Alarm, schedVars
  <2>4. ASSUME NEW irq \in Irqs, IrqRegister(irq) \/ IrqAck(irq)
        PROVE  /\ UNCHANGED <<tableVars, queue, recvVars, wait_for>>
               /\ UNCHANGED state /\ \E q : Return(q) \/ Silent
    BY <2>1, <2>4, Zenon DEF IrqRegister, IrqAck, schedVars
  <2>5. ASSUME NEW irq \in Irqs, DeviceInterrupt(irq), ~InRecv(irq_owner[irq])
        PROVE  /\ UNCHANGED <<tableVars, queue, recvVars, wait_for>>
               /\ UNCHANGED state /\ Silent
    BY <2>5, Zenon DEF DeviceInterrupt, recvVars
  <2> QED
    BY <2>1, <2>2, <2>3, <2>4, <2>5, Zenon
<1> QED
  BY <1>1, CallStep, Zenon

\* SYS_YIELD blocks nobody.
LEMMA YieldIsCall == ASSUME Stepped, Yield PROVE R!Call
<1>1. /\ state \in [Slots -> States] /\ schedule(state) /\ ~parked /\ TypeOK
      /\ \A s \in Slots : state[s] = "RUNNING" => s = current
  BY Zenon DEF Yield, Stepped, Before, IInv, TypeOK, OneRunning, States
<1>2. \A s \in Slots : /\ state'[s] = "BLOCKED" <=> state[s] = "BLOCKED"
                       /\ state'[s] = "UNUSED" <=> state[s] = "UNUSED"
  BY <1>1, ScheduleFacts, Zenon
<1> QED
  BY <1>1, <1>2, CallStep, Zenon DEF Yield

\* deliver(): the caller's message reaches a task parked in recv.
LEMMA DeliversIsMeet ==
  ASSUME Stepped, ~parked, NEW d \in Slots, SendDelivers(d), d # current
  PROVE  R!Meet(current, d)
<1>0. Before /\ IInv /\ IInv'
  BY Zenon DEF Stepped, Before
<1> DEFINE c == current
<1>1. c \in Slots /\ phases[c] = "ready" /\ id[c] = names[c]
  BY CurrentReady, Zenon
<1>2. InRecv(d) /\ (recv_closed[d] => recv_from[d] = id[c])
  BY Zenon DEF SendDelivers, wants, InRecv
<1>3. phases[d] = "recv" /\ peers[d] \in {Nil, names[c]}
  BY <1>0, <1>1, <1>2, Zenon DEF Before, View, Seen
<1>4. state' = [state EXCEPT ![d] = "RUNNABLE"]
  BY Zenon DEF SendDelivers
<1>5. \A s \in Slots \ {c, d} : LooksSame(s)
  <2>1. ASSUME NEW s \in Slots, s # d PROVE Undisturbed(s)
    <3>1. state'[s] = state[s] /\ waiting_recv'[s] = waiting_recv[s]
          /\ recv_closed'[s] = recv_closed[s]
      BY <1>0, <2>1, Zenon DEF SendDelivers, IInv, TypeOK
    <3>2. UNCHANGED <<tableVars, queue, recv_from, wait_for>>
      BY Zenon DEF SendDelivers
    <3> QED
      BY <3>1, <3>2, Zenon DEF Undisturbed, In, tableVars
  <2> QED
    BY <2>1, UndisturbedSame, Zenon
<1>6. state'[c] \in {"RUNNABLE", "RUNNING"} /\ state'[d] \in {"RUNNABLE", "RUNNING"}
  <2>1. state[c] = "RUNNING" /\ state \in [Slots -> States]
    BY <1>0, CurrentFacts, Zenon DEF IInv, TypeOK, States
  <2> QED
    BY <1>1, <1>4, <2>1, Zenon
<1>7. R!Wake({c, d})
  BY <1>1, <1>5, <1>6, IsWake, Zenon
<1>8. a0' = [R!Quiet EXCEPT ![c] = 0, ![d] = names[c]]
  BY <1>1, Zenon DEF SendDelivers, Answers, R!Quiet, R!None, None
<1>9. names' = names
  BY Zenon DEF SendDelivers, tableVars, names
<1> QED
  BY <1>1, <1>3, <1>7, <1>8, <1>9, Zenon DEF R!Meet, R!OK

\* dequeue_sender: a parked sender's message reaches the caller.
LEMMA TakesIsMeet ==
  ASSUME Stepped, ~parked, ~BadBuffers, NEW cl, NEW w,
         NEW i \in DOMAIN queue[current], RecvTakes(cl, w, i)
  PROVE  R!Meet(queue[current][i], current)
<1>0. Before /\ IInv /\ IInv' /\ BlockedHasReason'
  BY Zenon DEF Stepped, Before
<1> DEFINE c == current
           q == queue[c]
           u == q[i]
<1>1. c \in Slots /\ phases[c] = "ready" /\ id[c] = names[c] /\ Occupied(c)
  BY <1>0, CurrentReady, CurrentFacts, Zenon
<1>2. /\ u \in Slots /\ u # c /\ In(u, c) /\ q \in Seq(Slots) /\ i \in 1 .. Len(q)
      /\ state[u] = "BLOCKED"
  <2>1. q \in Seq(Slots) /\ i \in DOMAIN q
    BY <1>0, <1>1, Zenon DEF IInv, TypeOK
  <2>2. u \in Slots /\ i \in 1 .. Len(q)
    BY <2>1, SMTT(30)
  <2>3. u # c /\ state[u] = "BLOCKED"
    BY <1>0, <1>1, <2>1 DEF IInv, QueueSound
  <2>4. In(u, c)
    BY <2>1, Zenon DEF In
  <2> QED
    BY <2>1, <2>2, <2>3, <2>4, Zenon
<1>3. phases[u] = "send" /\ peers[u] = names[c]
  BY <1>0, <1>1, <1>2, Zenon DEF Before, View, Seen
<1>4. id[u] = names[u]
  BY <1>2, NamedById, Zenon DEF Occupied
<1>5. /\ a0' = [Answers({c}, id[u]) EXCEPT ![u] = 0]
      /\ state' = [state EXCEPT ![u] = "RUNNABLE"]
      /\ queue' = [queue EXCEPT ![c] = Without(q, i)]
      /\ UNCHANGED <<tableVars, recvVars, wait_for>>
  BY Zenon DEF RecvTakes
<1>6. ASSUME NEW s \in Slots, s # u PROVE Undisturbed(s)
  <2>1. state'[s] = state[s]
    BY <1>0, <1>5, <1>6, Zenon DEF IInv, TypeOK
  <2>2. ASSUME NEW d \in Slots, In(s, d) PROVE In(s, d)'
    <3>1. CASE d # c
      BY <1>0, <1>5, <2>2, <3>1, Zenon DEF In, IInv, TypeOK
    <3>2. CASE d = c
      <4>1. PICK k \in DOMAIN q : q[k] = s /\ k # i
        BY <1>6, <2>2, <3>2, Zenon DEF In
      <4>2. queue'[c] = Without(q, i)
        BY <1>0, <1>1, <1>5, Zenon DEF IInv, TypeOK
      <4>3. \E j \in DOMAIN Without(q, i) : Without(q, i)[j] = q[k]
        BY <1>2, <4>1, WithoutKeeps, Zenon
      <4> QED
        BY <3>2, <4>1, <4>2, <4>3, Zenon DEF In
    <3> QED
      BY <3>1, <3>2, Zenon
  <2> QED
    BY <1>5, <2>1, <2>2, Zenon DEF Undisturbed, tableVars, recvVars
<1>7. \A s \in Slots \ {u, c} : LooksSame(s)
  BY <1>6, UndisturbedSame, Zenon
<1>8. state'[c] \in {"RUNNABLE", "RUNNING"} /\ state'[u] \in {"RUNNABLE", "RUNNING"}
  <2>1. state[c] = "RUNNING" /\ state \in [Slots -> States]
    BY <1>0, CurrentFacts, Zenon DEF IInv, TypeOK, States
  <2> QED
    BY <1>1, <1>2, <1>5, <2>1, Zenon
<1> HIDE DEF u
<1>9. R!Wake({u, c})
  BY <1>1, <1>2, <1>7, <1>8, IsWake, Zenon
<1>10. a0' = [R!Quiet EXCEPT ![u] = 0, ![c] = names[u]]
  <2> DEFINE f == [s \in Slots |-> IF s = u THEN 0
                                  ELSE IF s = c THEN names[u] ELSE None]
  <2>1. a0' = f
    BY <1>2, <1>4, <1>5, Zenon DEF Answers
  <2>2. f = [R!Quiet EXCEPT ![u] = 0, ![c] = names[u]]
    BY <1>2, Zenon DEF R!Quiet, R!None, None
  <2> QED
    BY <2>1, <2>2, Zenon
<1>11. names' = names
  BY <1>5, Zenon DEF tableVars, names
<1>12. R!Meet(u, c)
  BY <1>1, <1>2, <1>3, <1>9, <1>10, <1>11, Zenon DEF R!Meet, R!OK
<1> QED
  BY <1>12, Zenon DEF u
\* The three calls that block leave everybody else as they were.
LEMMA OthersSame ==
  ASSUME Stepped, ~parked, schedule([state EXCEPT ![current] = "BLOCKED"]),
         UNCHANGED tableVars,
         \A s \in Slots : s # current =>
           /\ waiting_recv'[s] = waiting_recv[s] /\ recv_closed'[s] = recv_closed[s]
           /\ recv_from'[s] = recv_from[s] /\ wait_for'[s] = wait_for[s]
           /\ \A d \in Slots : In(s, d) => In(s, d)'
  PROVE  /\ state'[current] = "BLOCKED" /\ UNCHANGED gen
         /\ \A s \in Slots : s # current => LooksSame(s)
<1>1. \A s \in Slots :
        /\ state'[s] = "BLOCKED" <=> state[s] = "BLOCKED" \/ s = current
        /\ state'[s] = "UNUSED" <=> state[s] = "UNUSED"
  BY BlockFacts, Zenon DEF Stepped, Before
<1>2. \A s \in Slots : s # current => Undisturbed(s)
  BY <1>1, Zenon DEF Undisturbed, tableVars
<1> QED
  BY <1>1, <1>2, CurrentReady, UndisturbedSame, Zenon DEF tableVars

\* ipc_send parks its caller behind the task it names.
LEMMA SendParksIsBlock ==
  ASSUME Stepped, ~parked, NEW d \in Slots, d # current, state[d] # "UNUSED",
         SendParks(d)
  PROVE  R!Block(current)
<1>0. Before /\ IInv /\ IInv' /\ View'
  BY Zenon DEF Stepped, Before
<1>1. PICK c \in Slots : c = current /\ phases[c] = "ready"
  BY CurrentReady, Zenon
<1>2. /\ queue'[d] = Append(queue[d], c) /\ queue[d] \in Seq(Slots)
      /\ \A e \in Slots : e # d => queue'[e] = queue[e]
  BY <1>0, <1>1, Zenon DEF SendParks, enqueue_sender, IInv, TypeOK
<1>3. /\ \A k \in DOMAIN queue[d] : k \in DOMAIN queue'[d]
                                    /\ queue'[d][k] = queue[d][k]
      /\ Len(queue[d]) + 1 \in DOMAIN queue'[d]
      /\ queue'[d][Len(queue[d]) + 1] = c
  BY <1>1, <1>2, AppendFacts
<1>4. In(c, d)' /\ \A s, e \in Slots : In(s, e) => In(s, e)'
  BY <1>2, <1>3, Zenon DEF In
<1>5. \A s \in Slots : s # c => waiting_recv'[s] = waiting_recv[s]
  BY <1>1, <1>0, Zenon DEF SendParks, IInv, TypeOK
<1>6. /\ schedule([state EXCEPT ![current] = "BLOCKED"]) /\ Silent
      /\ UNCHANGED <<tableVars, recv_closed, recv_from, wait_for>>
  BY Zenon DEF SendParks
<1>7. UNCHANGED gen /\ \A s \in Slots : s # c => LooksSame(s)
  BY <1>1, <1>4, <1>5, <1>6, OthersSame, Zenon
<1>8. Occupied(d) /\ names[d] = id[d] /\ id'[d] = id[d]
  BY <1>6, NamedById, Zenon DEF Occupied, tableVars
<1>9. phases'[c] = "send" /\ peers'[c] = names[d]
  <2>1. Seen(c)'
    BY <1>0, <1>1, Zenon DEF View
  <2> QED
    BY <1>4, <1>8, <2>1, Zenon DEF Seen
<1>10. R!Block(c)
  BY <1>1, <1>6, <1>7, <1>8, <1>9, IsBlock, Zenon
<1> QED
  BY <1>1, <1>10, Zenon

\* ipc_recv parks its caller, open or for one live task.
LEMMA RecvParksIsBlock ==
  ASSUME Stepped, ~parked, NEW cl \in BOOLEAN, NEW w \in Ids, RecvParks(cl, w),
         cl => task_by_id(w) # Nil
  PROVE  R!Block(current)
<1>0. Before /\ IInv /\ IInv' /\ View'
  BY Zenon DEF Stepped, Before
<1>1. PICK c \in Slots : c = current /\ phases[c] = "ready"
  BY CurrentReady, Zenon
<1>2. /\ schedule([state EXCEPT ![current] = "BLOCKED"]) /\ Silent
      /\ UNCHANGED <<tableVars, queue, wait_for>>
      /\ waiting_recv' = [waiting_recv EXCEPT ![c] = TRUE]
      /\ recv_closed' = [recv_closed EXCEPT ![c] = cl]
      /\ recv_from' = [recv_from EXCEPT ![c] = w]
  BY <1>1, Zenon DEF RecvParks
<1>3. \A s \in Slots : s # c => /\ waiting_recv'[s] = waiting_recv[s]
                                /\ recv_closed'[s] = recv_closed[s]
                                /\ recv_from'[s] = recv_from[s]
  BY <1>0, <1>2, Zenon DEF IInv, TypeOK
<1>4. waiting_recv'[c] /\ recv_closed'[c] = cl /\ recv_from'[c] = w
  BY <1>0, <1>1, <1>2, Zenon DEF IInv, TypeOK
<1>5. \A s, e \in Slots : In(s, e) => In(s, e)'
  BY <1>2, Zenon DEF In
<1>6. /\ state'[c] = "BLOCKED" /\ UNCHANGED gen
      /\ \A s \in Slots : s # c => LooksSame(s)
  BY <1>1, <1>2, <1>3, <1>5, OthersSame, ZenonT(30)
<1>7. phases'[c] = "recv" /\ peers'[c] = IF cl THEN w ELSE Nil
  <2>1. Seen(c)'
    BY <1>0, <1>1, Zenon DEF View
  <2>2. InRecv(c)'
    BY <1>4, <1>6, Zenon DEF InRecv
  <2> QED
    BY <1>4, <2>1, <2>2, Zenon DEF Seen
<1>8. cl => \E u \in Slots : w = names[u] /\ Occupied(u)
  BY TaskById, NamedById, Zenon
<1>9. R!Block(c)
  BY <1>1, <1>2, <1>6, <1>7, <1>8, IsBlock, Zenon
<1> QED
  BY <1>1, <1>9, Zenon

\* SYS_WAIT parks its caller until a live task goes away.
LEMMA WaitIsBlock ==
  ASSUME Stepped, NEW x \in WaitIds, x # 0, Wait(x), task_by_id(x) # Nil
  PROVE  R!Block(current)
<1>0. Before /\ IInv /\ IInv' /\ View' /\ ~parked
  BY Zenon DEF Stepped, Before, Wait, Syscall
<1>1. PICK c \in Slots : c = current /\ phases[c] = "ready"
  BY <1>0, CurrentReady, Zenon
<1>2. /\ schedule([state EXCEPT ![current] = "BLOCKED"]) /\ Silent
      /\ UNCHANGED <<tableVars, queue, recvVars>>
      /\ wait_for' = [wait_for EXCEPT ![c] = x]
  BY <1>1, Zenon DEF Wait
<1>3. wait_for'[c] = x /\ \A s \in Slots : s # c => wait_for'[s] = wait_for[s]
  BY <1>0, <1>1, <1>2, Zenon DEF IInv, TypeOK
<1>4. \A s, e \in Slots : In(s, e) => In(s, e)'
  BY <1>2, Zenon DEF In
<1>5. /\ state'[c] = "BLOCKED" /\ UNCHANGED gen
      /\ \A s \in Slots : s # c => LooksSame(s)
  BY <1>1, <1>0, <1>2, <1>3, <1>4, OthersSame, Zenon DEF recvVars
<1>6. phases'[c] = "wait" /\ peers'[c] = x
  <2>1. Seen(c)'
    BY <1>0, <1>1, Zenon DEF View
  <2> QED
    BY <1>3, <1>5, <2>1, Zenon DEF Seen
<1>7. \E u \in Slots : x = names[u] /\ Occupied(u)
  BY TaskById, NamedById, Zenon
<1>8. R!Block(c)
  BY <1>1, <1>2, <1>5, <1>6, <1>7, IsBlock, Zenon
<1> QED
  BY <1>1, <1>8, Zenon
\* What task_retire answers is what Die answers.
LEMMA RetiredTells ==
  ASSUME Before, NEW t \in Slots,
         \/ a0' = RetiredA0(t)
         \/ /\ a0' = [RetiredA0(t) EXCEPT ![current] = 0]
            /\ state[current] = "RUNNING" /\ current \in Slots
  PROVE  Tells(t)
<1>1. ASSUME NEW s \in Slots
      PROVE  /\ s \in Failed(t) \cup Orphans(t) => RetiredA0(t)[s] = FAIL
             /\ s \in Waiters(t) => RetiredA0(t)[s] = 0
             /\ s \notin Woken(t) => RetiredA0(t)[s] = None
  <2>1. s \in Waiters(t) => s \notin Failed(t) \cup Orphans(t)
    BY Zenon DEF Waiters, Orphans
  <2> QED
    BY <2>1, Zenon DEF RetiredA0, Woken
<1>2. CASE a0' = RetiredA0(t)
  BY <1>1, <1>2, Zenon DEF Tells
<1>3. CASE /\ a0' = [RetiredA0(t) EXCEPT ![current] = 0]
           /\ state[current] = "RUNNING" /\ current \in Slots
  <2>1. current \notin Woken(t) /\ phases[current] = "ready"
    BY <1>3, WokenFacts, ReadySeen, Zenon DEF Before
  <2>2. \A s \in Slots : s # current => a0'[s] = RetiredA0(t)[s]
    BY <1>3, Zenon DEF RetiredA0
  <2> QED
    BY <1>1, <2>1, <2>2, Zenon DEF Tells, Woken
<1> QED
  BY <1>2, <1>3, Zenon

\* SYS_EXIT and a fault retire the current task.
LEMMA DeathIsDie ==
  ASSUME Stepped, 0 \notin Mortal, Exit \/ Fault PROVE R!Die(current)
<1>0. Before /\ IInv /\ TypeOK
  BY Zenon DEF Stepped, Before, IInv
<1> DEFINE t == current
           st == RetiredState(t)
<1>1. /\ ~parked /\ t \in Slots \ {0} /\ Occupied(t) /\ Retire(t)
      /\ schedule(st) /\ a0' = RetiredA0(t)
  BY <1>0, CurrentFacts, Zenon DEF Exit, Fault, Syscall
<1>2. /\ st \in [Slots -> States]
      /\ \A s \in Slots :
           /\ st[s] = "RUNNING" => s = current
           /\ st[s] = "UNUSED" <=> state[s] = "UNUSED" \/ s = t
           /\ st[s] = "BLOCKED" <=> state[s] = "BLOCKED" /\ s \notin Woken(t) \cup {t}
  BY <1>0, <1>1, RetiredStateFacts, Zenon DEF IInv, OneRunning
<1> HIDE DEF st
<1>3. \A s \in Slots : /\ state'[s] = "BLOCKED" <=> st[s] = "BLOCKED"
                       /\ state'[s] = "UNUSED" <=> st[s] = "UNUSED"
  BY <1>0, <1>1, <1>2, ScheduleFacts, Zenon
<1>4. \A s \in Slots :
        /\ state'[s] = "UNUSED" <=> state[s] = "UNUSED" \/ s = t
        /\ state'[s] = "BLOCKED" <=> state[s] = "BLOCKED" /\ s \notin Woken(t) \cup {t}
  BY <1>2, <1>3, Zenon
<1>5. Tells(t)
  BY <1>0, <1>1, RetiredTells, Zenon
<1> QED
  BY <1>1, <1>4, <1>5, IsDie, Zenon

\* SYS_KILL retires another.
LEMMA KillIsDie ==
  ASSUME Stepped, NEW x \in Ids, Kill(x), task_by_id(x) \notin {Nil, current, 0}
  PROVE  R!Die(task_by_id(x))
<1>0. Before /\ IInv /\ ~parked
  BY Zenon DEF Stepped, Before, Kill, Syscall
<1> DEFINE t == task_by_id(x)
<1>1. /\ t \in Slots \ {0} /\ Occupied(t) /\ Retire(t) /\ state' = RetiredState(t)
      /\ a0' = [RetiredA0(t) EXCEPT ![current] = 0]
  BY TaskById, Zenon DEF Kill
<1> HIDE DEF t
<1>2. state[current] = "RUNNING" /\ current \in Slots
  BY <1>0, CurrentFacts, Zenon
<1>3. Tells(t)
  BY <1>0, <1>1, <1>2, RetiredTells, Zenon
<1>4. \A s \in Slots :
        /\ state'[s] = "UNUSED" <=> state[s] = "UNUSED" \/ s = t
        /\ state'[s] = "BLOCKED" <=> state[s] = "BLOCKED" /\ s \notin Woken(t) \cup {t}
  BY <1>0, <1>1, RetiredStateFacts, Zenon
<1>5. R!Die(t)
  BY <1>1, <1>3, <1>4, IsDie, Zenon
<1> QED
  BY <1>5, Zenon DEF t

\* alloc_slot touches nobody but its slot.
LEMMA CreateSeen ==
  ASSUME Stepped, ~parked, NEW ok \in BOOLEAN, NEW i \in Slots, alloc_slot(i),
         pt' = [pt EXCEPT ![i] = ok],
         NEW r, Return(r),
         \/ UNCHANGED state
         \/ state' = [state EXCEPT ![i] = IF ok THEN "RUNNABLE" ELSE @]
  PROVE  R!Call \/ R!Born(i) \/ R!Begin(i)
<1>0. Before /\ IInv /\ IInv'
  BY Zenon DEF Stepped, Before
<1>1. state[i] = "UNUSED" /\ ~pt[i] /\ UNCHANGED gen
  BY Zenon DEF alloc_slot, FreeSlot, Occupied
<1>2. \A s \in Slots : In(s, i) => FALSE
  BY <1>0, <1>1, Zenon DEF IInv, QueueSound, In
<1>3. \A d \in Slots : In(i, d) => FALSE
  BY <1>0, <1>1 DEF IInv, QueueSound, In
<1>4. ASSUME NEW s \in Slots, s # i PROVE LooksSame(s)
  <2>1. state'[s] = state[s] /\ pt'[s] = pt[s]
    BY <1>0, <1>4, Zenon DEF IInv, TypeOK
  <2>2. /\ waiting_recv'[s] = waiting_recv[s] /\ recv_closed'[s] = recv_closed[s]
        /\ recv_from'[s] = recv_from[s] /\ wait_for'[s] = wait_for[s]
    BY <1>0, <1>4, Zenon DEF alloc_slot, IInv, TypeOK
  <2>3. \A d \in Slots : d # i => queue'[d] = queue[d] /\ id'[d] = id[d]
    BY <1>0, Zenon DEF alloc_slot, IInv, TypeOK
  <2>4. \A d \in Slots : In(s, d) => In(s, d)' /\ id'[d] = id[d]
    BY <1>2, <2>3, Zenon DEF In
  <2>5. Undisturbed(s)
    BY <2>1, <2>2, <2>4, ZenonT(30) DEF Undisturbed
  <2> QED
    BY <2>5, UndisturbedSame, Zenon
<1>5. \A s \in Slots : a0'[s] # None => phases[s] = "ready"
  <2>1. \A s \in Slots : a0'[s] # None => s = current
    BY Zenon DEF Return, Answers
  <2> QED
    BY <2>1, CurrentReady, Zenon
<1>6. pt'[i] = ok /\ state'[i] \in {"UNUSED", IF ok THEN "RUNNABLE" ELSE "UNUSED"}
  BY <1>0, <1>1, Zenon DEF IInv, TypeOK
<1>7. CASE ok
  BY <1>1, <1>4, <1>5, <1>6, <1>7, IsBorn, ZenonT(30)
<1>8. CASE ~ok
  <2>0. pt'[i] = FALSE /\ pt[i] = FALSE
    BY <1>0, <1>1, <1>6, <1>8, SMTT(30) DEF IInv, TypeOK
  <2>1. Undisturbed(i)
    BY <1>1, <1>3, <1>6, <1>8, <2>0, Zenon DEF Undisturbed
  <2>2. \A s \in Slots : LooksSame(s)
    BY <1>4, <2>1, UndisturbedSame, Zenon
  <2> QED
    BY <1>1, <1>5, <2>2, IsCall, ZenonT(30)
<1> QED
  BY <1>7, <1>8, Zenon

\* SYS_START makes a built task ready.
LEMMA StartSeen ==
  ASSUME Stepped, NEW x \in Ids, Start(x),
         ~(task_by_id(x) \in {Nil, 0} \/ state[task_by_id(x)] # "UNUSED")
  PROVE  \E t \in Slots : R!Born(t) \/ R!Begin(t)
<1>0. Before /\ IInv /\ IInv' /\ ~parked
  BY Zenon DEF Stepped, Before, Start, Syscall
<1>1. PICK t \in Slots : t = task_by_id(x) /\ state[t] = "UNUSED"
  BY TaskById, Zenon
<1>2. /\ state' = [state EXCEPT ![t] = "RUNNABLE"] /\ Return(0)
      /\ UNCHANGED <<tableVars, queue, recvVars, wait_for>>
  BY <1>1, Zenon DEF Start
<1>3. state'[t] = "RUNNABLE" /\ \A s \in Slots : s # t => state'[s] = state[s]
  BY <1>0, <1>1, <1>2, Zenon DEF IInv, TypeOK
<1>4. \A s \in Slots : s # t => Undisturbed(s)
  BY <1>2, <1>3, Zenon DEF Undisturbed, In, tableVars, recvVars
<1>5. \A s \in Slots : s # t => LooksSame(s)
  BY <1>4, UndisturbedSame, Zenon
<1>6. \A s \in Slots : a0'[s] # None => phases[s] = "ready"
  <2>1. \A s \in Slots : a0'[s] # None => s = current
    BY <1>2, Zenon DEF Return, Answers
  <2> QED
    BY <1>0, <2>1, CurrentReady, Zenon
<1>7. R!Born(t) \/ R!Begin(t)
  BY <1>1, <1>2, <1>3, <1>5, <1>6, IsBorn, Zenon DEF tableVars
<1> QED
  BY <1>7, Zenon
\* The timer ends the receives of the tasks whose alarm is due.
LEMMA TickSeen ==
  ASSUME Stepped, NEW due \in SUBSET Slots, TimerTick(due)
  PROVE  \E W \in SUBSET R!Receivers : R!Event(W)
<1>0. Before /\ IInv /\ IInv' /\ TypeOK /\ ~parked
  BY Zenon DEF Stepped, Before, TimerTick, IInv
<1> DEFINE W == {s \in due : InRecv(s)}
           st == [s \in Slots |-> IF s \in due /\ InRecv(s) THEN "RUNNABLE"
                                                            ELSE state[s]]
<1>1. /\ W \subseteq Slots /\ \A s \in Slots : s \in W <=> s \in due /\ InRecv(s)
      /\ a0' = Answers(W, TIMER_SENDER)
  BY Zenon DEF TimerTick
<1>2. W \in SUBSET R!Receivers
  BY <1>0, PhaseCases, Zenon DEF R!Receivers
<1>3. /\ st \in [Slots -> States]
      /\ \A s \in Slots : /\ st[s] = "RUNNING" => s = current
                          /\ s \notin W => st[s] = state[s]
                          /\ s \in W => st[s] = "RUNNABLE" /\ state[s] = "BLOCKED"
  BY <1>0, Zenon DEF IInv, TypeOK, States, OneRunning, InRecv
<1>4. schedule(st) /\ UNCHANGED <<tableVars, queue, recv_closed, recv_from, wait_for>>
  BY Zenon DEF TimerTick
<1>5. \A s \in Slots : s \notin W => waiting_recv'[s] = waiting_recv[s]
  <2>1. waiting_recv' = [s \in Slots |-> waiting_recv[s] /\ ~(s \in due /\ InRecv(s))]
    BY Zenon DEF TimerTick
  <2>2. \A s \in Slots : waiting_recv[s] \in BOOLEAN
    BY <1>0, Zenon DEF TypeOK
  <2> QED
    BY <1>1, <2>1, <2>2, Zenon
<1> HIDE DEF W, st
<1>6. /\ state' \in [Slots -> States]
      /\ \A s \in Slots : /\ state'[s] = "BLOCKED" <=> st[s] = "BLOCKED"
                          /\ state'[s] = "UNUSED" <=> st[s] = "UNUSED"
  BY <1>0, <1>3, <1>4, ScheduleFacts, Zenon
<1>7. \A s \in Slots \ W : Undisturbed(s)
  BY <1>3, <1>4, <1>5, <1>6, Zenon DEF Undisturbed, In, tableVars
<1>8. \A s \in Slots \ W : LooksSame(s)
  BY <1>7, UndisturbedSame, Zenon
<1>9. \A s \in W : state'[s] \in {"RUNNABLE", "RUNNING"}
  BY <1>1, <1>3, <1>6, Zenon DEF States
<1>10. R!Wake(W)
  BY <1>1, <1>8, <1>9, IsWake, Zenon
<1>11. names' = names
  BY <1>4, Zenon DEF tableVars, names
<1>12. R!Event(W)
  BY <1>1, <1>10, <1>11, Zenon
     DEF R!Event, R!Events, Answers, TIMER_SENDER, R!None, None
<1> QED
  BY <1>2, <1>12, Zenon

\* A device ends the receive of the task that owns its line.
LEMMA DeviceSeen ==
  ASSUME Stepped, NEW irq \in Irqs, DeviceInterrupt(irq), InRecv(irq_owner[irq])
  PROVE  \E W \in SUBSET R!Receivers : R!Event(W)
<1>0. Before /\ IInv /\ IInv'
  BY Zenon DEF Stepped, Before
<1>1. PICK t \in Slots : t = irq_owner[irq]
  BY <1>0, Zenon DEF DeviceInterrupt, IInv, TypeOK
<1>2. /\ a0' = Answers({t}, IRQ_SENDER) /\ InRecv(t)
      /\ waiting_recv' = [waiting_recv EXCEPT ![t] = FALSE]
      /\ state' = [state EXCEPT ![t] = "RUNNABLE"]
      /\ UNCHANGED <<tableVars, queue, recv_closed, recv_from, wait_for>>
  BY <1>1, Zenon DEF DeviceInterrupt
<1>3. /\ state'[t] = "RUNNABLE"
      /\ \A s \in Slots : s # t => /\ state'[s] = state[s]
                                   /\ waiting_recv'[s] = waiting_recv[s]
  BY <1>0, <1>2, Zenon DEF IInv, TypeOK
<1>4. \A s \in Slots \ {t} : Undisturbed(s)
  BY <1>2, <1>3, Zenon DEF Undisturbed, In, tableVars
<1>5. \A s \in Slots \ {t} : LooksSame(s)
  BY <1>4, UndisturbedSame, Zenon
<1>6. R!Wake({t})
  BY <1>3, <1>5, IsWake, Zenon
<1>7. names' = names
  BY <1>2, Zenon DEF tableVars, names
<1>8. R!Event({t})
  BY <1>2, <1>6, <1>7, Zenon DEF R!Event, R!Events, Answers, IRQ_SENDER, R!None, None
<1>9. {t} \in SUBSET R!Receivers
  BY <1>0, <1>2, PhaseCases, Zenon DEF R!Receivers
<1> QED
  BY <1>8, <1>9, Zenon

-----------------------------------------------------------------------------
\* Every step of the kernel is a step of Rendezvous.
LEMMA StepRefines ==
  ASSUME Stepped, Next, 0 \notin Mortal, 0 \notin WaitIds, ~BadBuffers
  PROVE  R!RNext
<1>0. IInv /\ current \in Slots
  BY Zenon DEF Stepped, Before, IInv, TypeOK
<1>1. ASSUME ~parked, NEW r, Answer(r) PROVE R!RNext
  BY <1>1, AnswerIsCall, Zenon DEF R!RNext
<1>2. CASE Yield
  BY <1>2, YieldIsCall, Zenon DEF R!RNext
<1>3. ASSUME NEW x \in Ids, Send(x) \/ TrySend(x) PROVE R!RNext
  <2>0. ~parked
    BY <1>3, Zenon DEF Send, TrySend, Syscall
  <2>1. ASSUME NEW d \in Slots, d # current, SendDelivers(d) PROVE R!RNext
    BY <1>0, <2>0, <2>1, DeliversIsMeet, Zenon DEF R!RNext
  <2>2. ASSUME NEW d \in Slots, d # current, state[d] # "UNUSED", SendParks(d)
        PROVE  R!RNext
    BY <1>0, <2>0, <2>2, SendParksIsBlock, Zenon DEF R!RNext
  <2>3. ~SendRefused(x) => /\ task_by_id(x) \in Slots /\ task_by_id(x) # current
                           /\ state[task_by_id(x)] # "UNUSED"
    BY TaskById, Zenon DEF SendRefused
  <2> QED
    BY <1>1, <1>3, <2>0, <2>1, <2>2, <2>3, ZenonT(30) DEF Send, TrySend
<1>4. ASSUME Recv \/ \E x \in Ids : RecvFrom(x) PROVE R!RNext
  <2>0. ~parked
    BY <1>4, Zenon DEF Recv, RecvFrom, Syscall
  <2>1. CASE RecvIrq \/ RecvTimer
    BY <2>0, <2>1, AnswerIsCall, Zenon DEF R!RNext
  <2>2. ASSUME NEW c, NEW w, NEW i \in DOMAIN queue[current], RecvTakes(c, w, i)
        PROVE  R!RNext
    <3>1. queue[current][i] \in Slots
      BY <1>0 DEF IInv, TypeOK
    <3>2. R!Meet(queue[current][i], current)
      BY <2>0, <2>2, TakesIsMeet, Zenon
    <3> QED
      BY <1>0, <3>1, <3>2, Zenon DEF R!RNext
  <2>3. ASSUME NEW c \in BOOLEAN, NEW w \in Ids, RecvParks(c, w),
               c => task_by_id(w) # Nil
        PROVE  R!RNext
    BY <1>0, <2>0, <2>3, RecvParksIsBlock, Zenon DEF R!RNext
  <2>4. ASSUME NEW i \in DOMAIN queue[current], RecvTakes(FALSE, 0, i)
        PROVE  R!RNext
    BY <2>2, <2>4, Zenon
  <2>5. RecvParks(FALSE, 0) => R!RNext
    BY <2>3, IdFacts, Zenon
  <2>6. CASE Recv
    BY <2>1, <2>4, <2>5, <2>6, Zenon DEF Recv
  <2>7. ASSUME NEW x \in Ids, RecvFrom(x) PROVE R!RNext
    <3>1. RecvParks(TRUE, x) /\ task_by_id(x) # Nil => R!RNext
      BY <2>3, Zenon
    <3>2. ASSUME NEW i \in DOMAIN queue[current], RecvTakes(TRUE, x, i)
          PROVE  R!RNext
      BY <2>2, <3>2, Zenon
    <3> QED
      BY <1>1, <2>0, <2>7, <3>1, <3>2, Zenon DEF RecvFrom
  <2> QED
    BY <1>4, <2>6, <2>7, Zenon
<1>5. ASSUME NEW x \in WaitIds, Wait(x) PROVE R!RNext
  <2>0. ~parked /\ x # 0
    BY <1>5, Zenon DEF Wait, Syscall
  <2>1. task_by_id(x) # Nil => R!Block(current)
    BY <1>5, <2>0, WaitIsBlock, Zenon
  <2>2. task_by_id(x) = Nil => Answer(0)
    BY <1>5, Zenon DEF Wait
  <2> QED
    BY <1>0, <1>1, <2>0, <2>1, <2>2, ZenonT(30) DEF R!RNext
<1>6. CASE Exit \/ Fault
  BY <1>0, <1>6, DeathIsDie, Zenon DEF R!RNext
<1>7. ASSUME NEW x \in Ids, Kill(x) PROVE R!RNext
  <2>0. ~parked
    BY <1>7, Zenon DEF Kill, Syscall
  <2>1. CASE task_by_id(x) \notin {Nil, current, 0}
    <3>1. task_by_id(x) \in Slots
      BY <2>1, TaskById, Zenon
    <3> QED
      BY <1>7, <2>1, <3>1, KillIsDie, Zenon DEF R!RNext
  <2>2. CASE task_by_id(x) \in {Nil, current, 0}
    BY <1>1, <1>7, <2>0, <2>2, Zenon DEF Kill
  <2> QED
    BY <2>1, <2>2, Zenon
<1>8. ASSUME NEW x \in Ids, Start(x) PROVE R!RNext
  <2>0. ~parked
    BY <1>8, Zenon DEF Start, Syscall
  <2>1. CASE task_by_id(x) \in {Nil, 0} \/ state[task_by_id(x)] # "UNUSED"
    BY <1>1, <1>8, <2>0, <2>1, Zenon DEF Start
  <2>2. CASE ~(task_by_id(x) \in {Nil, 0} \/ state[task_by_id(x)] # "UNUSED")
    BY <1>8, <2>2, StartSeen, Zenon DEF R!RNext
  <2> QED
    BY <2>1, <2>2, Zenon
<1>9. ASSUME NEW ok \in BOOLEAN, NewTask(ok) \/ Thread(ok) PROVE R!RNext
  <2>0. ~parked
    BY <1>9, Zenon DEF NewTask, Thread, Syscall
  <2>1. ASSUME NEW i \in Slots, alloc_slot(i), pt' = [pt EXCEPT ![i] = ok],
               NEW r, Return(r),
               \/ UNCHANGED state
               \/ state' = [state EXCEPT ![i] = IF ok THEN "RUNNABLE" ELSE @]
        PROVE  R!RNext
    BY <2>0, <2>1, CreateSeen, Zenon DEF R!RNext
  <2>2. ~(NoSlot /\ Answer(FAIL)) =>
          \E i \in Slots :
            /\ alloc_slot(i) /\ pt' = [pt EXCEPT ![i] = ok]
            /\ Return(IF ok THEN TaskId(i, gen[i]) ELSE FAIL)
            /\ \/ UNCHANGED state
               \/ state' = [state EXCEPT ![i] = IF ok THEN "RUNNABLE" ELSE @]
    BY <1>9, Zenon DEF NewTask, Thread
  <2> QED
    BY <1>1, <2>0, <2>1, <2>2, Zenon
<1>10. ASSUME NEW b \in BOOLEAN, Alarm(b) PROVE R!RNext
  BY <1>10, AnswerIsCall, Zenon DEF R!RNext, Alarm, Syscall
<1>11. ASSUME NEW due \in SUBSET Slots, TimerTick(due) PROVE R!RNext
  BY <1>11, TickSeen, ZenonT(30) DEF R!RNext
<1>12. ASSUME NEW irq \in Irqs, IrqRegister(irq) \/ IrqAck(irq) PROVE R!RNext
  BY <1>12, AnswerIsCall, Zenon DEF R!RNext, IrqRegister, IrqAck, Syscall
<1>13. ASSUME NEW irq \in Irqs, DeviceInterrupt(irq) PROVE R!RNext
  <2>1. CASE InRecv(irq_owner[irq])
    BY <1>13, <2>1, DeviceSeen, Zenon DEF R!RNext
  <2>2. CASE ~InRecv(irq_owner[irq])
    <3>1. ~parked
      BY <1>13, Zenon DEF DeviceInterrupt
    <3> QED
      BY <1>13, <2>2, <3>1, AnswerIsCall, ZenonT(30) DEF R!RNext
  <2> QED
    BY <2>1, <2>2, Zenon
<1> QED
  BY <1>2, <1>3, <1>4, <1>5, <1>6, <1>7, <1>8, <1>9, <1>10, <1>11, <1>12, <1>13, ZenonT(30),
     Zenon DEF Next, Tick

\* At boot everybody is ready or absent, and nobody waits.
LEMMA InitRefines == ASSUME Init PROVE R!RInit
<1>1. IInv /\ View
  BY InitIInv, Viewed, Zenon
<1>2. \A s \in Slots : phases[s] \in {"gone", "ready"} /\ peers[s] = Nil
  <2>1. \A s \in Slots : state[s] # "BLOCKED" /\ (state[s] = "UNUSED" => ~pt[s])
    <3> TAKE s \in Slots
    <3>1. /\ state[s] = CASE s = 0 -> "RUNNING"
                         [] s \in 1 .. NBoot - 1 -> "RUNNABLE"
                         [] OTHER -> "UNUSED"
          /\ pt[s] = (s < NBoot)
      BY Zenon DEF Init
    <3>2. s \in Nat /\ NBoot \in Nat \ {0}
      BY KernelAssumption, SlotFacts
    <3>3. s < NBoot => s = 0 \/ s \in 1 .. NBoot - 1
      BY <3>2
    <3>4. s = 0 => s \notin 1 .. NBoot - 1
      OBVIOUS
    <3> QED
      BY <3>1, <3>3, <3>4, Zenon
  <2>2. \A s \in Slots : state[s] \in States
    BY <1>1, Zenon DEF IInv, TypeOK, States
  <2> QED
    BY <1>1, <2>1, <2>2, Zenon DEF View, Seen, States
<1>3. \A s \in Slots : names[s] \in Nat
  BY <1>1, NamesDiffer, Zenon
<1>4. phases \in [Slots -> {"gone", "ready"}] /\ peers = [s \in Slots |-> Nil]
  BY <1>1, <1>2, Zenon DEF View
<1>5. names \in [Slots -> Nat]
  BY <1>1, <1>3, Zenon DEF names
<1>6. a0 = R!Quiet
  BY Zenon DEF Init, Answers, R!Quiet, R!None, None
<1> QED
  BY <1>4, <1>5, <1>6, Zenon DEF R!RInit

\* With its queues, flags, preemption and reuse of slots, the kernel keeps the
\* promises of Rendezvous: a blocked send, receive or wait ends only in the ways
\* given there, and with the answer given there (ipc_send, ipc_recv, task_retire,
\* alarms_check, device_interrupt).  Programs pass mapped buffers to recv, wait
\* for ids other than 0, and the first task does not die.
THEOREM KernelImplementsRendezvous ==
  ASSUME 0 \notin Mortal, 0 \notin WaitIds, ~BadBuffers
  PROVE  Spec => ImplementsRendezvous
<1>1. Spec => []BlockedHasReason
  BY BlockedForAReason, Zenon
<1>2. Init => R!RInit
  BY InitRefines, Zenon
<1>3. IInv => View
  BY Viewed, Zenon
<1>4. Stepped /\ [Next]_vars => [R!RNext]_(R!rvars)
  <2>1. UNCHANGED vars => UNCHANGED R!rvars
    BY DEF vars, R!rvars, phases, names, peers, PhaseOf, PeerOf, InRecv
  <2> QED
    BY <2>1, StepRefines, Zenon
<1> QED
  BY <1>1, <1>2, <1>3, <1>4, Invariance, PTL
     DEF Spec, ImplementsRendezvous, R!RSpec, Stepped, Before
=============================================================================
