----------------------------- MODULE RhinoBlkObj -----------------------------
(***************************************************************************)
(* What queues and event flags have in common: the life of a blocking      *)
(* object and the end of a blocking call.  The memory of an object is used *)
(* for one kind of object only.  Objects allocated by the dyn variants of  *)
(* the services live and die in the same way; the heap is not modelled.    *)
(***************************************************************************)
EXTENDS RhinoCore

CONSTANTS
  NULL,    \* a NULL pointer, where a message or a result is expected
  NoRet    \* no call has returned in the last step

VARIABLES
  obj_kind,   \* "queue", "buf_queue" or "event"
  obj_type,   \* blk_obj.obj_type is the object's type, not RHINO_OBJ_TYPE_NONE
  ret         \* the result of the call that has returned in the last step

objVars == <<obj_kind, obj_type>>

\* A call has returned: who made it, on which object, and what was received.
Returned(by, o, val) == [by |-> by, obj |-> o, val |-> val]

\* Who makes the present call.
Caller == IF isr = "none" THEN g_active_task ELSE "isr"

\* The creation of an object that is not in use.  The application does not pass the object
\* to anybody before the call has returned.
obj_create(o, kind) ==
  /\ obj_kind[o] = kind /\ ~obj_type[o]
  /\ blk_list' = [blk_list EXCEPT ![o] = << >>]
  /\ obj_type' = [obj_type EXCEPT ![o] = TRUE]
  /\ UNCHANGED <<tcbVars, rrVars, g_ready_queue, g_tick_head, g_tick_count, cpuVars,
                 callVars, crit, obj_kind>>

\* The deletion starts: from here on calls are refused with RHINO_KOBJ_TYPE_ERR.
obj_del(o, kind) ==
  /\ obj_kind[o] = kind /\ obj_type[o]
  /\ obj_type' = [obj_type EXCEPT ![o] = FALSE]
  /\ crit'     = [op |-> "obj_del", obj |-> o]
  /\ UNCHANGED <<tcbVars, rrVars, queueVars, g_tick_count, cpuVars, callVars, obj_kind>>

\* One turn of its loop.
obj_del_turn(t) ==
  /\ crit.op = "obj_del" /\ blk_list[crit.obj] # << >> /\ t = Head(blk_list[crit.obj])
  /\ pend_task_rm(t)
  /\ UNCHANGED <<prio, suspend_count, rrVars, g_tick_count, cpuVars, callVars, crit, objVars>>

\* The end of a loop over the waiters in a critical section.
LoopDone ==
  /\ crit' = NoCrit
  /\ RHINO_CRITICAL_EXIT_SCHED
  /\ UNCHANGED <<tcbVars, rrVars, queueVars, g_tick_count, cpuVars, objVars>>

obj_del_done == crit.op = "obj_del" /\ blk_list[crit.obj] = << >> /\ LoopDone

\* The running task blocks on o.
Pend(o, ticks) ==
  /\ isr = "none" /\ ticks # 0 /\ MayStop(g_active_task)
  /\ pend_to_blk_obj(o, g_active_task, ticks)
  /\ PendExitSched(g_active_task, o)
  /\ UNCHANGED <<prio, suspend_count, blk_state>>

\* The wait of a task in a blocking call: still going on, or how it ended; `got' is
\* what the task got if it was woken.
WaitOn(t, got) ==
  CASE blk_obj[t] # NoObj -> <<"waiting", arg[t]>>
    [] blk_obj[t] = NoObj /\ blk_state[t] = "BLK_FINISH"  -> <<"got", arg[t], got>>
    [] blk_obj[t] = NoObj /\ blk_state[t] = "BLK_TIMEOUT" -> <<"expired", arg[t]>>
    [] blk_obj[t] = NoObj /\ blk_state[t] = "BLK_DEL"     -> <<"cancelled", arg[t]>>

\* t is inside a blocking call on an object of these kinds.
InCall(t, kinds) ==
  /\ task_state[t] # "K_DELETED" /\ pc[t] \in {"pend_sched", "pend_end"}
  /\ arg[t] \in Obj /\ obj_kind[arg[t]] \in kinds
=============================================================================
