---------------------------- MODULE AbstractEvent ----------------------------
(***************************************************************************)
(* What event flags promise, without lists, loops, priorities, ticks or    *)
(* interrupts.  Setting flags is one step for everybody: each waiter whose *)
(* condition holds for the flags of that moment is released with those     *)
(* flags, the flags its options clear are cleared behind all of them, and  *)
(* nobody goes on waiting for what is set.                                 *)
(***************************************************************************)
CONSTANTS Event, Task, Flag, Options, NULL, NoRet

VARIABLES
  alive,   \* the events that exist
  flags,
  wait,    \* for each task, where its wait has got to
  ret      \* what the call that returned in the last step returned

Out == <<"out">>
Returned(by, o, val) == [by |-> by, obj |-> o, val |-> val]

\* A condition is a set of flags and an option.
Holds(f, c)   == IF c[2] \in {"AND", "AND_CLEAR"} THEN c[1] \subseteq f ELSE c[1] \cap f # {}
Cleared(c)    == IF c[2] \in {"AND_CLEAR", "OR_CLEAR"} THEN c[1] ELSE {}
Waits(t, o)   == \E c \in Options : wait[t] = <<"waiting", o, c>>
Cond(t)       == wait[t][3]

Init ==
  /\ alive = {} /\ flags = [o \in Event |-> {}]
  /\ wait = [t \in Task |-> Out] /\ ret = NoRet

Create(o) ==
  /\ o \notin alive /\ \A t \in Task : ~Waits(t, o)
  /\ alive' = alive \cup {o} /\ \E f \in SUBSET Flag : flags' = [flags EXCEPT ![o] = f]
  /\ ret' = NoRet /\ UNCHANGED wait

Delete(o) ==
  /\ o \in alive /\ alive' = alive \ {o} /\ flags' = [flags EXCEPT ![o] = {}]
  /\ ret' = NoRet /\ UNCHANGED wait

\* Flags are set, and every waiter whose condition now holds is released.
Set(o, f) ==
  LET now   == flags[o] \cup f
      freed == {t \in Task : Waits(t, o) /\ Holds(now, Cond(t))}
  IN  /\ o \in alive
      /\ wait'  = [t \in Task |-> IF t \in freed THEN <<"got", o, now>> ELSE wait[t]]
      /\ flags' = [flags EXCEPT ![o] = now \ UNION {Cleared(Cond(t)) : t \in freed}]
      /\ ret' = NoRet /\ UNCHANGED alive

Clear(o, f) ==
  /\ o \in alive /\ flags' = [flags EXCEPT ![o] = @ \cap f]
  /\ ret' = NoRet /\ UNCHANGED <<alive, wait>>

\* The condition holds already.
Get(t, o, c) ==
  /\ o \in alive /\ Holds(flags[o], c)
  /\ flags' = [flags EXCEPT ![o] = @ \ Cleared(c)]
  /\ ret' = Returned(t, o, flags[o]) /\ UNCHANGED <<alive, wait>>

Move(t, to) == wait' = [wait EXCEPT ![t] = to] /\ UNCHANGED <<alive, flags>>

Wait(t, o, c) ==
  o \in alive /\ ~Holds(flags[o], c) /\ wait[t] = Out /\ Move(t, <<"waiting", o, c>>) /\ ret' = NoRet
Expire(t, o) == o \in alive /\ Waits(t, o) /\ Move(t, <<"expired", o>>) /\ ret' = NoRet
Cancel(t, o) == o \notin alive /\ Waits(t, o) /\ Move(t, <<"cancelled", o>>) /\ ret' = NoRet
\* The call returns the flags that released it, or nothing.
Return(t, o) ==
  /\ \/ \E f \in SUBSET Flag : wait[t] = <<"got", o, f>> /\ ret' = Returned(t, o, f)
     \/ wait[t] \in {<<"expired", o>>, <<"cancelled", o>>} /\ ret' = Returned(t, o, NULL)
  /\ Move(t, Out)
Kill(t) == wait[t] # Out /\ Move(t, Out) /\ ret' = NoRet
Quiet   == ret' = NoRet /\ UNCHANGED <<alive, flags, wait>>

Next ==
  \/ \E o \in Event :
       \/ Create(o) \/ Delete(o)
       \/ \E f \in SUBSET Flag : Set(o, f) \/ Clear(o, f)
       \/ \E t \in Task : \/ \E c \in Options : Get(t, o, c) \/ Wait(t, o, c)
                          \/ Expire(t, o) \/ Cancel(t, o) \/ Return(t, o)
  \/ \E t \in Task : Kill(t)
  \/ Quiet

Spec == Init /\ [][Next]_<<alive, flags, wait, ret>>
=============================================================================
