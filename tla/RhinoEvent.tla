------------------------------ MODULE RhinoEvent ------------------------------
(***************************************************************************)
(* Event flags (k_event.c) on top of the core.  A word of flags is the set *)
(* of its bits.                                                            *)
(***************************************************************************)
EXTENDS RhinoBlkObj

CONSTANTS
  Flag,       \* the bits of a word of flags
  NewFlags,   \* the flags of each krhino_event_create and krhino_event_set call
  Options     \* the flags and the option of each krhino_event_get call

ASSUME FlagAssumption ==
  /\ NewFlags \subseteq SUBSET Flag
  /\ Options \subseteq (SUBSET Flag) \X {"AND", "OR", "AND_CLEAR", "OR_CLEAR"}

VARIABLES
  flags,       \* kevent_t.flags
  pend,        \* pend_flags and pend_option of each task, NULL outside a wait
  pend_info    \* what has been written to where pend_info of each task points

eventVars == <<flags, pend, pend_info>>

\* RHINO_FLAGS_AND_MASK and RHINO_FLAGS_CLEAR_MASK
Met(f, c)    == IF c[2] \in {"AND", "AND_CLEAR"} THEN f \cap c[1] = c[1] ELSE f \cap c[1] # {}
Cleared(c)   == IF c[2] \in {"AND_CLEAR", "OR_CLEAR"} THEN c[1] ELSE {}

event_create(o, f) ==
  /\ TaskCall("event_create")
  /\ obj_create(o, "event")
  /\ flags' = [flags EXCEPT ![o] = f]
  /\ UNCHANGED <<pend, pend_info>>

krhino_event_del(o) == TaskCall("event_del") /\ obj_del(o, "event") /\ UNCHANGED eventVars

event_del_done ==
  /\ obj_del_done /\ obj_kind[crit.obj] = "event"
  /\ flags' = [flags EXCEPT ![crit.obj] = {}]
  /\ UNCHANGED <<pend, pend_info>>

\* krhino_event_get: the condition is met at once, or the task blocks with it.
krhino_event_get(o, c, ticks) ==
  /\ TaskCall("event_get")
  /\ obj_kind[o] = "event" /\ obj_type[o]
  /\ \/ /\ Met(flags[o], c)
        /\ flags' = [flags EXCEPT ![o] = @ \ Cleared(c)]
        /\ ret' = Returned(Caller, o, flags[o])
        /\ UNCHANGED <<tcbVars, queueVars, callVars, pend, pend_info>>
     \/ /\ ~Met(flags[o], c)
        /\ Pend(o, ticks)
        /\ pend' = [pend EXCEPT ![g_active_task] = c]
        /\ ret' = NoRet
        /\ UNCHANGED <<flags, pend_info>>
  /\ UNCHANGED <<rrVars, g_tick_count, cpuVars, crit, objVars>>

\* event_set with RHINO_AND clears flags and looks for nobody.
event_set_and(o, f) ==
  /\ AnyCall("event_set_and")
  /\ obj_kind[o] = "event" /\ obj_type[o]
  /\ flags' = [flags EXCEPT ![o] = @ \cap f]
  /\ UNCHANGED <<coreVars, objVars, pend, pend_info>>

\* event_set with RHINO_OR: `flags' of the loop is cur_event_flags, `iter' the waiters the
\* loop has still to look at.
event_set_or(o, f) ==
  /\ AnyCall("event_set")
  /\ obj_kind[o] = "event" /\ obj_type[o]
  /\ flags' = [flags EXCEPT ![o] = @ \cup f]
  /\ crit'  = [op |-> "event_set", obj |-> o, flags |-> flags'[o], iter |-> blk_list[o]]
  /\ UNCHANGED <<tcbVars, rrVars, queueVars, g_tick_count, cpuVars, callVars, objVars,
                 pend, pend_info>>

\* Mutant: the waiter is tested against the flags the waiters before it have left.
event_set_met_left(t) == Met(flags[crit.obj], pend[t])

event_set_met(t) == Met(crit.flags, pend[t])

\* One turn of the loop: a waiter whose condition is met gets the flags and is woken, and
\* the flags it wants cleared are cleared.
event_set_turn(t) ==
  /\ crit.op = "event_set" /\ crit.iter # << >> /\ t = Head(crit.iter)
  /\ crit' = [crit EXCEPT !.iter = Tail(@)]
  /\ IF event_set_met(t)
     THEN /\ pend_info' = [pend_info EXCEPT ![t] = crit.flags]
          /\ pend_task_wakeup(t)
          /\ flags' = [flags EXCEPT ![crit.obj] = @ \ Cleared(pend[t])]
          /\ UNCHANGED <<prio, suspend_count, pend>>
     ELSE UNCHANGED <<tcbVars, queueVars, eventVars>>
  /\ UNCHANGED <<rrVars, g_tick_count, cpuVars, callVars, objVars>>

event_set_done == crit.op = "event_set" /\ crit.iter = << >> /\ LoopDone /\ UNCHANGED eventVars

\* The end of a krhino_event_get that blocked: *actl_flags is what event_set wrote.
get_result(t) == Returned(t, arg[t], IF blk_state[t] = "BLK_FINISH" THEN pend_info[t] ELSE NULL)
-----------------------------------------------------------------------------
EventInit ==
  /\ flags = [o \in Obj |-> {}]
  /\ pend = [t \in Task |-> NULL] /\ pend_info = [t \in Task |-> NULL]

EventService(o) ==
  /\ \/ krhino_event_del(o)
     \/ \E f \in NewFlags : event_create(o, f) \/ event_set_or(o, f) \/ event_set_and(o, f)
  /\ ret' = NoRet
EventLoop == (event_set_done \/ event_del_done \/ \E t \in Task : event_set_turn(t)) /\ ret' = NoRet
EventReceive(o) ==
  \E c \in Options, ticks \in Ticks \cup {WaitForever} : krhino_event_get(o, c, ticks)
-----------------------------------------------------------------------------
\* The promise of AbstractEvent is kept: event_set, which tests the waiters one by one while
\* those it has woken clear flags, acts on all of them as one step, and a task returns with
\* the flags that released it.  While the loop runs, the abstract step is done already: the
\* waiters it will still wake have their flags, and what they clear is cleared.
ToBeFreed ==
  IF crit.op = "event_set" THEN {t \in ToSet(crit.iter) : Met(crit.flags, pend[t])} ELSE {}
EventWait(t) ==
  IF ~InCall(t, {"event"}) THEN <<"out">>
  ELSE IF t \in ToBeFreed THEN <<"got", arg[t], crit.flags>>
  ELSE IF blk_obj[t] # NoObj THEN <<"waiting", arg[t], pend[t]>>
  ELSE WaitOn(t, pend_info[t])

AbsEvent == INSTANCE AbstractEvent WITH
  Event <- Obj,
  alive <- {o \in Obj : obj_type[o] /\ obj_kind[o] = "event"},
  flags <- [o \in Obj |-> IF ~obj_type[o] THEN {}
                          ELSE IF crit.op = "event_set" /\ crit.obj = o
                          THEN flags[o] \ UNION {Cleared(pend[t]) : t \in ToBeFreed}
                          ELSE flags[o]],
  wait  <- [t \in Task |-> EventWait(t)],
  ret   <- IF ret # NoRet /\ obj_kind[ret.obj] # "event" THEN NoRet ELSE ret

ImplementsAbstractEvent == AbsEvent!Spec
=============================================================================
