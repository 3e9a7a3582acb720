------------------------------ MODULE MCKernel ------------------------------
(***************************************************************************)
(* Small kernels for TLC.  Slot 0 is the file system's, as at boot, and    *)
(* Idle is a boot task too; the other slots run programs that make any of  *)
(* the calls of the run, in any order, naming any id there has been.       *)
(***************************************************************************)
EXTENDS KernelRendezvous

Programs == Slots \ {0, Idle}
NotFirst == Slots \ {0}

\* The ids sys_wait is called with: those sys_thread and spawn returned.
Spawned == Ids \ {TaskId(s, 0) : s \in 0 .. NBoot - 1}

IpcCalls == {"send", "trysend", "recv", "recvfrom", "wait", "exit", "kill",
             "thread"}
EventCalls == {"recv", "recvfrom", "send", "trysend", "alarm", "irq_reg",
               "irq_ack", "kill"}
LoaderCalls == IpcCalls \cup {"newtask", "start"}
RoundCalls == {"send", "recv", "recvfrom", "thread", "exit", "kill"}
=============================================================================
