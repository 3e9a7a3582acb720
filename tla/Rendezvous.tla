----------------------------- MODULE Rendezvous -----------------------------
(***************************************************************************)
(* What the kernel's message passing promises, without queues, flags,      *)
(* scheduling or slots being zeroed: what every task is blocked on, and    *)
(* the only ways in which a blocked call ends.                             *)
(*                                                                         *)
(*   - a send ends with 0 in the very step in which the task it names      *)
(*     receives from it, and with -1 only when that task goes away;        *)
(*   - a receive ends with the id of a sender it admits, with an event, or *)
(*     with -1 when the one task it names goes away;                       *)
(*   - a wait ends with 0 when the task it names goes away;                *)
(*   - nobody stays blocked on a task that has gone away, and a name that  *)
(*     has been used is never used again.                                  *)
(***************************************************************************)
EXTENDS Integers

CONSTANTS Tasks,    \* places a task can live in
          Any       \* the peer of an open receive

VARIABLES phase,    \* what the task in each place is doing
          name,     \* its name
          peer,     \* the name it is blocked on, or Any
          answer    \* what the latest step told each task, None if nothing

Blocked == {"send", "recv", "wait"}

OK == 0
FAIL == -1
Events == {-2, -3}
None == -4

rvars == <<phase, name, peer, answer>>

Called(n) == {t \in Tasks : phase[t] # "gone" /\ name[t] = n}

\* Nobody hears anything but the tasks of S, who are no longer blocked.
Quiet == [t \in Tasks |-> None]
Wake(S) ==
  /\ phase' = [t \in Tasks |-> IF t \in S THEN "ready" ELSE phase[t]]
  /\ peer' = [t \in Tasks |-> IF t \in S THEN Any ELSE peer[t]]

\* Only tasks that are not blocked hear anything.
OnlyReadyHear == \A t \in Tasks : answer'[t] # None => phase[t] = "ready"

RInit ==
  /\ phase \in [Tasks -> {"gone", "ready"}]
  /\ name \in [Tasks -> Nat]
  /\ peer = [t \in Tasks |-> Any]
  /\ answer = Quiet

\* A ready task blocks on a live task, or in an open receive.
Block(t) ==
  /\ phase[t] = "ready"
  /\ answer' = Quiet
  /\ \E p \in Blocked :
       /\ phase' = [phase EXCEPT ![t] = p]
       /\ \E n \in {name[u] : u \in Tasks} \cup {Any} :
            /\ peer' = [peer EXCEPT ![t] = n]
            /\ IF n = Any THEN p = "recv" ELSE Called(n) # {}
            /\ p = "send" => \A u \in Called(n) \ {t} : phase[u] # "unborn"
  /\ UNCHANGED name

\* s's message reaches r: one of them was ready, the other may have waited.
Meet(s, r) ==
  /\ s # r
  /\ answer' = [Quiet EXCEPT ![s] = OK, ![r] = name[s]]
  /\ phase[s] = "ready" \/ (phase[s] = "send" /\ peer[s] = name[r])
  /\ phase[r] = "ready" \/ (phase[r] = "recv" /\ peer[r] \in {Any, name[s]})
  /\ "ready" \in {phase[s], phase[r]}
  /\ Wake({s, r})
  /\ UNCHANGED name

\* An interrupt or an alarm ends receives.
Receivers == {t \in Tasks : phase[t] = "recv"}
Event(R) ==
  /\ \E e \in Events : answer' = [t \in Tasks |-> IF t \in R THEN e ELSE None]
  /\ Wake(R)
  /\ UNCHANGED name

\* The task in t goes away for good, which answers everybody blocked on it.
Die(t) ==
  LET On(p) == {u \in Tasks \ {t} : phase[u] = p /\ peer[u] = name[t]}
      Woken == On("send") \cup On("recv") \cup On("wait")
  IN /\ phase[t] # "gone"
     /\ name'[t] > name[t]
     /\ phase' = [u \in Tasks |-> IF u = t THEN "gone"
                                  ELSE IF u \in Woken THEN "ready"
                                  ELSE phase[u]]
     /\ peer' = [u \in Tasks |-> IF u \in Woken \cup {t} THEN Any ELSE peer[u]]
     /\ \A u \in Tasks \ {t} :
        /\ name'[u] = name[u]
        /\ u \in On("wait") => answer'[u] = OK
        /\ u \in On("send") \cup On("recv") => answer'[u] = FAIL
        /\ u \notin Woken /\ phase[u] # "ready" => answer'[u] = None

\* A new task; it runs at once or is started later.
Born(t) ==
  /\ phase[t] = "gone"
  /\ phase' \in {[phase EXCEPT ![t] = p] : p \in {"unborn", "ready"}}
  /\ OnlyReadyHear
  /\ UNCHANGED <<name, peer>>

Begin(t) ==
  /\ phase[t] = "unborn"
  /\ phase' = [phase EXCEPT ![t] = "ready"]
  /\ OnlyReadyHear
  /\ UNCHANGED <<name, peer>>

\* A call that does not block.
Call == OnlyReadyHear /\ UNCHANGED <<phase, name, peer>>

RNext ==
  \/ Call
  \/ \E t \in Tasks : Block(t) \/ Die(t) \/ Born(t) \/ Begin(t)
  \/ \E s, r \in Tasks : Meet(s, r)
  \/ \E R \in SUBSET Receivers : Event(R)

RSpec == RInit /\ [][RNext]_rvars
=============================================================================
