----------------------------- MODULE AbstractSem -----------------------------
(***************************************************************************)
(* What the semaphores of the kernel promise their callers, without lists, *)
(* priorities, ticks or interrupts.  A call of krhino_sem_take either      *)
(* takes a unit at once or waits; a wait ends exactly once, by a grant, a  *)
(* timeout or the deletion of the semaphore, and what the call returns is  *)
(* the way its wait ended.                                                 *)
(***************************************************************************)
EXTENDS Naturals

CONSTANTS Sem, Task, SemMax, SemCounts

VARIABLES
  alive,    \* semaphores that exist
  units,    \* units available
  wait      \* for each task, where its wait has got to

vars == <<alive, units, wait>>

Out  == <<"out">>    \* in no call
Dead == <<"dead">>   \* deleted

Waiting(s) == {t \in Task : wait[t] = <<"waiting", s>>}

Init ==
  /\ alive = {}
  /\ units = [s \in Sem |-> 0]
  /\ wait  = [t \in Task |-> Out]

Create(s) ==
  /\ s \notin alive /\ Waiting(s) = {}
  /\ alive' = alive \cup {s}
  /\ \E n \in SemCounts : units' = [units EXCEPT ![s] = n]
  /\ UNCHANGED wait

Delete(s) == s \in alive /\ alive' = alive \ {s} /\ UNCHANGED <<units, wait>>

\* A unit is added only when nobody waits for one.
Give(s) ==
  /\ s \in alive /\ Waiting(s) = {} /\ units[s] < SemMax
  /\ units' = [units EXCEPT ![s] = @ + 1]
  /\ UNCHANGED <<alive, wait>>

SetCount(s) ==
  /\ s \in alive /\ Waiting(s) = {}
  /\ \E n \in SemCounts : units' = [units EXCEPT ![s] = n]
  /\ UNCHANGED <<alive, wait>>

Take(s) ==
  /\ s \in alive /\ units[s] > 0
  /\ units' = [units EXCEPT ![s] = @ - 1]
  /\ UNCHANGED <<alive, wait>>

Move(t, from, to) ==
  /\ wait[t] = from
  /\ wait' = [wait EXCEPT ![t] = to]
  /\ UNCHANGED <<alive, units>>

\* A task waits only when there is no unit.
Wait(t, s)   == s \in alive /\ units[s] = 0 /\ Move(t, Out, <<"waiting", s>>)
Grant(t, s)  == s \in alive    /\ Move(t, <<"waiting", s>>, <<"granted", s>>)
Expire(t, s) == s \in alive    /\ Move(t, <<"waiting", s>>, <<"expired", s>>)
Cancel(t, s) == s \notin alive /\ Move(t, <<"waiting", s>>, <<"cancelled", s>>)
\* The call returns once its wait has ended, and not before.
Return(t, s) == \E how \in {"granted", "expired", "cancelled"} : Move(t, <<how, s>>, Out)
\* A task that is deleted never returns from its call; created again it is in none.
Kill(t)   == wait[t] # Dead /\ Move(t, wait[t], Dead)
Revive(t) == Move(t, Dead, Out)

Next ==
  \/ \E s \in Sem :
       \/ Create(s) \/ Delete(s) \/ Give(s) \/ SetCount(s) \/ Take(s)
       \/ \E t \in Task : \/ Wait(t, s) \/ Grant(t, s) \/ Expire(t, s) \/ Cancel(t, s)
                          \/ Return(t, s)
  \/ \E t \in Task : Kill(t) \/ Revive(t)

Spec == Init /\ [][Next]_vars
=============================================================================
