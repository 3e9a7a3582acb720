-------------------------- MODULE KernelRendezvous --------------------------
(***************************************************************************)
(* The kernel seen as the abstract Rendezvous: a task's phase is read off  *)
(* its run state and receive flags, the peer of a sender off the queues,   *)
(* and a slot's name off its generation, so that a slot has its next name  *)
(* from the moment its task is retired.                                    *)
(***************************************************************************)
EXTENDS Kernel

PhaseOf(s) ==
  CASE state[s] \in {"RUNNABLE", "RUNNING"} -> "ready"
    [] state[s] = "UNUSED" -> IF pt[s] THEN "unborn" ELSE "gone"
    [] InRecv(s) -> "recv"
    [] state[s] = "BLOCKED" /\ ~waiting_recv[s] ->
         IF wait_for[s] # 0 THEN "wait" ELSE "send"

PeerOf(s) ==
  CASE state[s] # "BLOCKED" -> Nil
    [] InRecv(s) -> IF recv_closed[s] THEN recv_from[s] ELSE Nil
    [] state[s] = "BLOCKED" /\ ~waiting_recv[s] ->
         IF wait_for[s] # 0 THEN wait_for[s]
         ELSE id[CHOOSE d \in Slots : s \in Members(queue[d])]

phases == [s \in Slots |-> PhaseOf(s)]
names == [s \in Slots |-> TaskId(s, gen[s])]
peers == [s \in Slots |-> PeerOf(s)]

R == INSTANCE Rendezvous WITH
       Tasks <- Slots, Any <- Nil,
       phase <- phases, name <- names, peer <- peers, answer <- a0

\* The kernel implements the rendezvous: with queues, flags, preemption and
\* slot reuse, every blocked call still ends only as Rendezvous allows.
ImplementsRendezvous == R!RSpec
=============================================================================
