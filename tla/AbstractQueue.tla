---------------------------- MODULE AbstractQueue ----------------------------
(***************************************************************************)
(* What message queues promise, without rings, lists, priorities, ticks or *)
(* interrupts: messages come out in the order they went in, each once.  A  *)
(* message goes past the queue only to tasks that wait because the queue   *)
(* is empty; a wait ends exactly once, and what the call returns is how it *)
(* ended.                                                                  *)
(***************************************************************************)
EXTENDS Sequences

CONSTANTS Queue, Task, Msg, NULL, NoRet

VARIABLES
  alive,   \* the queues that exist
  q,       \* the messages in each
  wait,    \* for each task, where its wait has got to
  ret      \* what the call that returned in the last step returned

Out == <<"out">>
Waiting(o) == {t \in Task : wait[t] = <<"waiting", o>>}
Returned(by, o, val) == [by |-> by, obj |-> o, val |-> val]

Init ==
  /\ alive = {} /\ q = [o \in Queue |-> << >>]
  /\ wait = [t \in Task |-> Out] /\ ret = NoRet

Create(o) ==
  /\ o \notin alive /\ Waiting(o) = {}
  /\ alive' = alive \cup {o} /\ q' = [q EXCEPT ![o] = << >>]
  /\ ret' = NoRet /\ UNCHANGED wait

Delete(o) ==
  /\ o \in alive
  /\ alive' = alive \ {o} /\ q' = [q EXCEPT ![o] = << >>]
  /\ ret' = NoRet /\ UNCHANGED wait

Flush(o) ==
  /\ o \in alive /\ q' = [q EXCEPT ![o] = << >>]
  /\ ret' = NoRet /\ UNCHANGED <<alive, wait>>

\* A message is queued only when nobody waits for one.
Send(o, m) ==
  /\ o \in alive /\ Waiting(o) = {}
  /\ q' = [q EXCEPT ![o] = Append(@, m)]
  /\ ret' = NoRet /\ UNCHANGED <<alive, wait>>

\* The message is handed to the tasks W that wait, without overtaking any.
Hand(o, m, W) ==
  /\ o \in alive /\ q[o] = << >> /\ W # {} /\ W \subseteq Waiting(o)
  /\ wait' = [t \in Task |-> IF t \in W THEN <<"got", o, m>> ELSE wait[t]]
  /\ ret' = NoRet /\ UNCHANGED <<alive, q>>

Receive(o, by) ==
  /\ o \in alive /\ q[o] # << >>
  /\ q' = [q EXCEPT ![o] = Tail(@)] /\ ret' = Returned(by, o, Head(q[o]))
  /\ UNCHANGED <<alive, wait>>

Move(t, to) == wait' = [wait EXCEPT ![t] = to] /\ UNCHANGED <<alive, q>>

\* A task waits only when there is no message.
Wait(t, o)   == o \in alive /\ q[o] = << >> /\ wait[t] = Out /\ Move(t, <<"waiting", o>>) /\ ret' = NoRet
Expire(t, o) == o \in alive /\ wait[t] = <<"waiting", o>> /\ Move(t, <<"expired", o>>) /\ ret' = NoRet
Cancel(t, o) == o \notin alive /\ wait[t] = <<"waiting", o>> /\ Move(t, <<"cancelled", o>>) /\ ret' = NoRet
\* The call returns the message it got, or NULL.
Return(t, o) ==
  /\ \/ \E m \in Msg : wait[t] = <<"got", o, m>> /\ ret' = Returned(t, o, m)
     \/ wait[t] \in {<<"expired", o>>, <<"cancelled", o>>} /\ ret' = Returned(t, o, NULL)
  /\ Move(t, Out)
\* A task that is deleted never returns.
Kill(t) == wait[t] # Out /\ Move(t, Out) /\ ret' = NoRet
Quiet   == ret' = NoRet /\ UNCHANGED <<alive, q, wait>>

Next ==
  \/ \E o \in Queue :
       \/ Create(o) \/ Delete(o) \/ Flush(o)
       \/ \E m \in Msg : Send(o, m) \/ (\E t \in Waiting(o) : Hand(o, m, {t})) \/ Hand(o, m, Waiting(o))
       \/ \E by \in Task \cup {"isr"} : Receive(o, by)
       \/ \E t \in Task : Wait(t, o) \/ Expire(t, o) \/ Cancel(t, o) \/ Return(t, o)
  \/ \E t \in Task : Kill(t)
  \/ Quiet

Spec == Init /\ [][Next]_<<alive, q, wait, ret>>
=============================================================================
