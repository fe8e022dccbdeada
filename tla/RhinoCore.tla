------------------------------ MODULE RhinoCore ------------------------------
(***************************************************************************)
(* The core of the Rhino kernel (csi_kernel/rhino/core) on one CPU: tasks, *)
(* the ready queue, the tick list, scheduler locking, interrupts and the   *)
(* services of k_task.c.  Semaphores and mutexes extend this module.       *)
(*                                                                         *)
(* Granularity.  A critical section (RHINO_CRITICAL_ENTER..EXIT) runs with *)
(* interrupts disabled and is one action; a loop inside one is a series of *)
(* steps during which `crit' names the loop and nothing else can happen.   *)
(* RHINO_CRITICAL_EXIT_SCHED enables interrupts and then calls core_sched, *)
(* so interrupts can arrive in between: `pc' of the calling task is then   *)
(* "sched" (or "pend_sched" when the task has just blocked).  A call that  *)
(* fails changes no state and is a stuttering step.                        *)
(*                                                                         *)
(* An operator whose comment starts with "Mutant" is a faulty variant of   *)
(* the definition that follows it.  No specification uses it: the runs are *)
(* repeated with it in place of the definition, to see a property fail.    *)
(***************************************************************************)
EXTENDS KList, FiniteSets

CONSTANTS
  Task,         \* task control blocks, the idle task's included
  Idle,         \* g_idle_task
  Main,         \* the application task that exists when the system starts
  Obj,          \* blocking objects (blk_obj_t)
  NoObj,        \* the NULL object
  NoArg,        \* no call in progress
  PriMax,       \* RHINO_CONFIG_PRI_MAX
  MainPri,      \* priority of Main
  NewTask,      \* the task, priority and autorun flag of each task_create call
  NewPri,       \* the task and priority of each krhino_task_pri_change call
  TickMod,      \* number of values of tick_t
  Ticks,        \* the timeouts the application passes
  WaitForever,  \* RHINO_WAIT_FOREVER, (tick_t)-1
  TimeSlice,    \* RHINO_CONFIG_TIME_SLICE_DEFAULT
  MaxSuspend,   \* largest suspend_nested_t
  MaxLock,      \* SCHED_MAX_LOCK_COUNT
  Calls,        \* kernel services the tasks call
  IntrptCalls   \* kernel services the interrupt handlers call

ASSUME TaskAssumption ==
  /\ Idle \in Task /\ Main \in Task /\ Main # Idle
  /\ NoObj \notin Obj /\ NoArg \notin Obj
ASSUME PriAssumption ==
  /\ PriMax \in Nat /\ PriMax >= 2 /\ MainPri \in 0 .. PriMax - 2
  /\ NewTask \subseteq Task \X (0 .. PriMax - 1) \X BOOLEAN
  /\ NewPri \subseteq Task \X (0 .. PriMax - 1)
ASSUME TickAssumption ==
  /\ TickMod \in Nat /\ TickMod >= 2 /\ TickMod % 2 = 0
  /\ WaitForever = TickMod - 1
  /\ Ticks \subseteq 0 .. TickMod - 1
ASSUME BoundAssumption ==
  /\ TimeSlice \in Nat \ {0} /\ MaxSuspend \in Nat \ {0} /\ MaxLock \in Nat \ {0}

Prio      == 0 .. PriMax - 1
IDLE_PRI  == PriMax - 1
TaskState == {"K_SEED", "K_RDY", "K_PEND", "K_SUSPENDED", "K_PEND_SUSPENDED",
              "K_SLEEP", "K_SLEEP_SUSPENDED", "K_DELETED"}
BlkState  == {"BLK_FINISH", "BLK_TIMEOUT", "BLK_DEL"}
PendStates    == {"K_PEND", "K_PEND_SUSPENDED"}
SleepStates   == {"K_SLEEP", "K_SLEEP_SUSPENDED"}
SuspendStates == {"K_SUSPENDED", "K_PEND_SUSPENDED", "K_SLEEP_SUSPENDED"}

VARIABLES
  task_state,    \* ktask_t fields, one function of the task each
  prio,
  suspend_count,
  blk_state,
  blk_obj,
  tick_match,    \* 0 while the task is off the tick list (tick_head = NULL)
  time_slice,
  time_total,
  sched_policy,
  blk_list,      \* blk_obj_t.blk_list of each object
  g_ready_queue,
  g_tick_head,   \* the tick list
  g_tick_count,
  g_active_task,
  g_sched_lock,
  isr,           \* what the interrupt handler that is running has still to do
  intrpt_off,    \* tasks that run with interrupts disabled (mstatus.MIE clear)
  pc,            \* where each task is: user code, or inside a kernel call
  arg,           \* the argument of the kernel call each task is inside of
  crit           \* the loop an unfinished critical section is in

tcbVars   == <<task_state, prio, suspend_count, blk_state, blk_obj, tick_match>>
rrVars    == <<time_slice, time_total, sched_policy>>
queueVars == <<blk_list, g_ready_queue, g_tick_head>>
cpuVars   == <<g_active_task, g_sched_lock, isr, intrpt_off>>
callVars  == <<pc, arg>>
coreVars  == <<tcbVars, rrVars, queueVars, g_tick_count, cpuVars, callVars, crit>>

NoCrit  == [op |-> "none", obj |-> NoObj]
\* k_err_proc ends in soc_err_proc's while(1), here with interrupts disabled:
\* nothing happens any more.
ErrCrit == [op |-> "k_err_proc", obj |-> NoObj]
-----------------------------------------------------------------------------
(***************************************************************************)
(* The ready queue (k_sched.c).  The operators take the runqueue, the task *)
(* and its priority, and return the new runqueue.                          *)
(***************************************************************************)
is_ready_list_empty(rq, p) == rq.cur_list_item[p] = << >>

\* Mutant: highest_pri is not raised.
ready_list_init_keeps_highest(rq, t, p) ==
  [rq EXCEPT !.cur_list_item[p] = <<t>>, !.task_bit_map = @ \cup {p}]

ready_list_init(rq, t, p) ==
  [cur_list_item |-> [rq.cur_list_item EXCEPT ![p] = <<t>>],
   task_bit_map  |-> rq.task_bit_map \cup {p},
   highest_pri   |-> IF p < rq.highest_pri THEN p ELSE rq.highest_pri]

ready_list_add_tail(rq, t, p) ==
  IF is_ready_list_empty(rq, p)
  THEN ready_list_init(rq, t, p)
  ELSE [rq EXCEPT !.cur_list_item[p] = Append(@, t)]

ready_list_add_head(rq, t, p) ==
  IF is_ready_list_empty(rq, p)
  THEN ready_list_init(rq, t, p)
  ELSE [rq EXCEPT !.cur_list_item[p] = <<t>> \o @]

\* A task of the running task's priority goes to the end of its list, any
\* other one to the front.
ready_list_add(rq, t, p) ==
  IF p = prio[g_active_task] THEN ready_list_add_tail(rq, t, p)
                             ELSE ready_list_add_head(rq, t, p)

\* krhino_find_first_bit: the smallest number in the bitmap.
krhino_find_first_bit(bitmap) == Min(bitmap)

\* highest_pri is recomputed only when the list of that priority runs empty.
ready_list_rm(rq, t, p) ==
  IF Len(rq.cur_list_item[p]) > 1
  THEN [rq EXCEPT !.cur_list_item[p] = klist_rm(@, t)]
  ELSE LET bitmap == rq.task_bit_map \ {p}
       IN  [cur_list_item |-> [rq.cur_list_item EXCEPT ![p] = << >>],
            task_bit_map  |-> bitmap,
            highest_pri   |-> IF p # rq.highest_pri THEN rq.highest_pri
                              ELSE krhino_find_first_bit(bitmap)]

\* Mutant: the list stays as it is.
ready_list_head_to_tail_none(rq, p) == rq

ready_list_head_to_tail(rq, p) ==
  [rq EXCEPT !.cur_list_item[p] = klist_rotate(@)]

preferred_cpu_ready_task_get(rq) == Head(rq.cur_list_item[rq.highest_pri])
-----------------------------------------------------------------------------
(***************************************************************************)
(* Waiter lists and the tick list (k_pend.c, k_tick.c).                    *)
(***************************************************************************)
\* pend_list_add: before the first waiter of lower priority (BLK_POLICY_PRI,
\* the only policy the kernel's objects are created with); pri gives the
\* priorities.
pend_list_add(s, t, pri) ==
  klist_insert(s, ScanStop(s, {i \in DOMAIN s : pri[s[i]] > pri[t]}), t)

\* Mutant: the waiter stays where it was.
pend_list_reorder_none(t, pri) == blk_list

\* pend_list_reorder: t, whose priority has changed to pri[t], moves to its new
\* place among the waiters.
pend_list_reorder(t, pri) ==
  [blk_list EXCEPT ![blk_obj[t]] = pend_list_add(klist_rm(@, t), t, pri)]

\* tick_t arithmetic: unsigned distance, and its sign as a tick_i_t.
TicksUntil(match) == (match - g_tick_count) % TickMod

\* Mutant: absolute comparison, wrong when the counter wraps around.
Expired_absolute(match) == match <= g_tick_count

Expired(match)    == LET delta == TicksUntil(match)
                     IN  delta = 0 \/ delta >= TickMod \div 2

\* Mutant: the scan compares wake-up times, not remaining times.
tick_list_insert_absolute(t, time) ==
  LET match == (g_tick_count + time) % TickMod
      later == {i \in DOMAIN g_tick_head : tick_match[g_tick_head[i]] > match}
  IN  /\ tick_match'  = [tick_match EXCEPT ![t] = match]
      /\ g_tick_head' = klist_insert(g_tick_head, ScanStop(g_tick_head, later), t)

\* tick_list_insert with time > 0: before the first task whose remaining time
\* is longer.
tick_list_insert(t, time) ==
  /\ tick_match' = [tick_match EXCEPT ![t] = (g_tick_count + time) % TickMod]
  /\ g_tick_head' =
       klist_insert(g_tick_head,
                    ScanStop(g_tick_head, {i \in DOMAIN g_tick_head :
                               TicksUntil(tick_match[g_tick_head[i]]) > time}),
                    t)

\* Mutant: the task stays on the list.
tick_list_rm_none(t) == UNCHANGED <<g_tick_head, tick_match>>

tick_list_rm(t) ==
  IF t \in ToSet(g_tick_head)
  THEN /\ g_tick_head' = klist_rm(g_tick_head, t)
       /\ tick_match'  = [tick_match EXCEPT ![t] = 0]
  ELSE UNCHANGED <<g_tick_head, tick_match>>

\* pend_to_blk_obj: the running task blocks on object o.
pend_to_blk_obj(o, t, timeout) ==
  /\ blk_obj' = [blk_obj EXCEPT ![t] = o]
  /\ IF timeout # WaitForever THEN tick_list_insert(t, timeout)
                              ELSE UNCHANGED <<g_tick_head, tick_match>>
  /\ task_state'    = [task_state EXCEPT ![t] = "K_PEND"]
  /\ g_ready_queue' = ready_list_rm(g_ready_queue, t, prio[t])
  /\ blk_list'      = [blk_list EXCEPT ![o] = pend_list_add(@, t, prio)]

\* The end of a wait for an object: off the waiter list and, unless it is
\* suspended, back on the ready list.  (In any other state the code calls
\* k_err_proc; the action is then disabled.)
unpend(t) ==
  /\ task_state[t] \in PendStates
  /\ blk_list' = [blk_list EXCEPT ![blk_obj[t]] = klist_rm(@, t)]
  /\ \/ /\ task_state[t] = "K_PEND"
        /\ g_ready_queue' = ready_list_add(g_ready_queue, t, prio[t])
        /\ task_state'    = [task_state EXCEPT ![t] = "K_RDY"]
     \/ /\ task_state[t] = "K_PEND_SUSPENDED"
        /\ task_state' = [task_state EXCEPT ![t] = "K_SUSPENDED"]
        /\ UNCHANGED g_ready_queue
  /\ tick_list_rm(t)
  /\ blk_obj' = [blk_obj EXCEPT ![t] = NoObj]

\* Mutant: blk_state keeps the result of an earlier wait.
pend_task_wakeup_stale(t) == unpend(t) /\ UNCHANGED blk_state

pend_task_wakeup(t) == unpend(t) /\ blk_state' = [blk_state EXCEPT ![t] = "BLK_FINISH"]
pend_task_rm(t)     == unpend(t) /\ blk_state' = [blk_state EXCEPT ![t] = "BLK_DEL"]
-----------------------------------------------------------------------------
(***************************************************************************)
(* Calls, scheduling and interrupts.                                       *)
(***************************************************************************)
\* The running task, in user code, calls a kernel service; the idle task
\* calls none.
TaskCall(api) ==
  /\ crit = NoCrit /\ isr = "none"
  /\ g_active_task # Idle /\ pc[g_active_task] = "user"
  /\ api \in Calls

\* A device's interrupt handler calls a kernel service.
IntrptCall(api) ==
  /\ crit = NoCrit /\ isr = "dev"
  /\ api \in IntrptCalls

\* Services without INTRPT_NESTED_LEVEL_CHK are called from both.
AnyCall(api) == TaskCall(api) \/ IntrptCall(api)

\* Mutant: nothing is refused because of a locked scheduler.
MayStop_always(t) == TRUE

\* Whether t may stop being ready: the running task must not while it has the
\* scheduler locked (RHINO_SCHED_DISABLE).
MayStop(t) == t = g_active_task => g_sched_lock = 0

\* RHINO_CRITICAL_EXIT_SCHED: core_sched is still to come; in an interrupt it
\* returns at once.
RHINO_CRITICAL_EXIT_SCHED ==
  /\ pc' = IF isr = "none" THEN [pc EXCEPT ![g_active_task] = "sched"] ELSE pc
  /\ UNCHANGED arg

\* The same at the end of a call in which the task blocks on o.
PendExitSched(t, o) ==
  /\ pc'  = [pc EXCEPT ![t] = "pend_sched"]
  /\ arg' = [arg EXCEPT ![t] = o]

\* The task that runs next, for core_sched and krhino_intrpt_exit.
SwitchTo == IF g_sched_lock > 0 THEN g_active_task
            ELSE preferred_cpu_ready_task_get(g_ready_queue)

\* core_sched: switch to the preferred task unless the scheduler is locked.
core_sched ==
  /\ crit = NoCrit /\ isr = "none"
  /\ pc[g_active_task] \in {"sched", "pend_sched"}
  /\ pc' = [pc EXCEPT ![g_active_task] = IF @ = "sched" THEN "user" ELSE "pend_end"]
  /\ g_active_task' = SwitchTo
  /\ UNCHANGED <<tcbVars, rrVars, queueVars, g_tick_count, g_sched_lock, isr,
                 intrpt_off, arg, crit>>

\* The end of a blocking call: pend_state_end_proc turns blk_state into the
\* call's return value.
pend_state_end_proc ==
  /\ crit = NoCrit /\ isr = "none"
  /\ pc[g_active_task] = "pend_end"
  /\ pc'  = [pc EXCEPT ![g_active_task] = "user"]
  /\ arg' = [arg EXCEPT ![g_active_task] = NoArg]
  /\ UNCHANGED <<tcbVars, rrVars, queueVars, g_tick_count, cpuVars, crit>>

\* An interrupt: the tick timer's or a device's.  Handlers run with interrupts
\* disabled, so they do not nest.
krhino_intrpt_enter(kind) ==
  /\ crit = NoCrit /\ isr = "none"
  /\ g_active_task \notin intrpt_off
  /\ isr' = kind
  /\ UNCHANGED <<tcbVars, rrVars, queueVars, g_tick_count, g_active_task,
                 g_sched_lock, intrpt_off, callVars, crit>>

krhino_intrpt_exit ==
  /\ crit = NoCrit /\ isr \in {"dev", "exit"}
  /\ isr' = "none"
  /\ g_active_task' = SwitchTo
  /\ UNCHANGED <<tcbVars, rrVars, queueVars, g_tick_count, g_sched_lock,
                 intrpt_off, callVars, crit>>

\* Mutant: the counter stops at its largest value.
tick_list_update_saturates ==
  /\ crit = NoCrit /\ isr = "tick"
  /\ g_tick_count' = IF g_tick_count = TickMod - 1 THEN g_tick_count ELSE g_tick_count + 1
  /\ crit' = [op |-> "tick", obj |-> NoObj]
  /\ UNCHANGED <<tcbVars, rrVars, queueVars, cpuVars, callVars>>

\* krhino_tick_proc, first half: tick_list_update(1) enters its loop.
tick_list_update ==
  /\ crit = NoCrit /\ isr = "tick"
  /\ g_tick_count' = (g_tick_count + 1) % TickMod
  /\ crit' = [op |-> "tick", obj |-> NoObj]
  /\ UNCHANGED <<tcbVars, rrVars, queueVars, cpuVars, callVars>>

TickDue == g_tick_head # << >> /\ Expired(tick_match[Head(g_tick_head)])

\* One turn of the loop: the first task of the list has expired in a wait for
\* an object ...
tick_pend_timeout(t) ==
  /\ crit.op = "tick" /\ TickDue /\ t = Head(g_tick_head)
  /\ unpend(t)
  /\ blk_state' = [blk_state EXCEPT ![t] = "BLK_TIMEOUT"]
  /\ UNCHANGED <<prio, suspend_count, rrVars, g_tick_count, cpuVars, callVars>>

\* Mutant: a sleep that ends wakes a suspended task as well.
tick_sleep_end_wakes(t) ==
  /\ crit.op = "tick" /\ TickDue /\ t = Head(g_tick_head)
  /\ task_state[t] \in SleepStates
  /\ blk_state' = [blk_state EXCEPT ![t] = "BLK_FINISH"]
  /\ task_state' = [task_state EXCEPT ![t] = "K_RDY"]
  /\ tick_list_rm(t)
  /\ g_ready_queue' = ready_list_add(g_ready_queue, t, prio[t])
  /\ UNCHANGED <<prio, suspend_count, blk_obj, rrVars, blk_list, g_tick_count,
                 cpuVars, callVars, crit>>

\* ... or in a sleep.
tick_sleep_end(t) ==
  /\ crit.op = "tick" /\ TickDue /\ t = Head(g_tick_head)
  /\ task_state[t] \in SleepStates
  /\ blk_state' = [blk_state EXCEPT ![t] = "BLK_FINISH"]
  /\ task_state' = [task_state EXCEPT ![t] =
                      IF @ = "K_SLEEP" THEN "K_RDY" ELSE "K_SUSPENDED"]
  /\ tick_list_rm(t)
  /\ g_ready_queue' = IF task_state[t] = "K_SLEEP"
                      THEN ready_list_add(g_ready_queue, t, prio[t])
                      ELSE g_ready_queue
  /\ UNCHANGED <<prio, suspend_count, blk_obj, rrVars, blk_list, g_tick_count,
                 cpuVars, callVars, crit>>

\* The first task of the list has not expired: the loop and the first half end.
tick_list_done ==
  /\ crit.op = "tick" /\ ~TickDue
  /\ crit' = NoCrit
  /\ isr'  = "slice"
  /\ UNCHANGED <<tcbVars, rrVars, queueVars, g_tick_count, g_active_task,
                 g_sched_lock, intrpt_off, callVars>>

\* krhino_tick_proc, second half: one tick off the slice of the first task of
\* the running task's ready list, which goes to the end when none is left.
time_slice_update ==
  LET p    == prio[g_active_task]
      list == g_ready_queue.cur_list_item[p]
      t    == Head(list)
      left == IF time_slice[t] > 0 THEN time_slice[t] - 1 ELSE 0
  IN  /\ crit = NoCrit /\ isr = "slice"
      /\ isr' = "exit"
      /\ IF Len(list) < 2 \/ sched_policy[t] = "KSCHED_FIFO"
         THEN UNCHANGED <<time_slice, g_ready_queue>>
         ELSE /\ time_slice' = [time_slice EXCEPT ![t] =
                                  IF left > 0 THEN left ELSE time_total[t]]
              /\ g_ready_queue' = IF left > 0 THEN g_ready_queue
                                  ELSE ready_list_head_to_tail(g_ready_queue, p)
      /\ UNCHANGED <<tcbVars, time_total, sched_policy, blk_list, g_tick_head,
                     g_tick_count, g_active_task, g_sched_lock, intrpt_off, callVars, crit>>
-----------------------------------------------------------------------------
(***************************************************************************)
(* Task services (k_task.c) and scheduler locking (k_sched.c).             *)
(***************************************************************************)
\* Mutant: no limit to the nesting.
krhino_sched_disable_unlimited ==
  /\ TaskCall("sched_disable")
  /\ g_sched_lock' = g_sched_lock + 1
  /\ UNCHANGED <<tcbVars, rrVars, queueVars, g_tick_count, g_active_task, isr,
                 intrpt_off, callVars, crit>>

krhino_sched_disable ==
  /\ TaskCall("sched_disable")
  /\ g_sched_lock < MaxLock
  /\ g_sched_lock' = g_sched_lock + 1
  /\ UNCHANGED <<tcbVars, rrVars, queueVars, g_tick_count, g_active_task, isr,
                 intrpt_off, callVars, crit>>

\* The outermost krhino_sched_enable schedules.
krhino_sched_enable ==
  /\ TaskCall("sched_enable")
  /\ g_sched_lock > 0
  /\ g_sched_lock' = g_sched_lock - 1
  /\ IF g_sched_lock = 1 THEN RHINO_CRITICAL_EXIT_SCHED ELSE UNCHANGED callVars
  /\ UNCHANGED <<tcbVars, rrVars, queueVars, g_tick_count, g_active_task, isr,
                 intrpt_off, crit>>

\* task_create on a control block that is not in use: all its fields are reset.
\* RHINO_IDLE_PRI is refused, the idle task having been created at start.
krhino_task_create(t, p, autorun) ==
  /\ TaskCall("task_create")
  /\ task_state[t] \in {"K_SEED", "K_DELETED"} /\ t # g_active_task
  /\ p < IDLE_PRI
  /\ task_state'    = [task_state EXCEPT ![t] = IF autorun THEN "K_RDY" ELSE "K_SUSPENDED"]
  /\ suspend_count' = [suspend_count EXCEPT ![t] = IF autorun THEN 0 ELSE 1]
  /\ prio'          = [prio EXCEPT ![t] = p]
  /\ blk_state'     = [blk_state EXCEPT ![t] = "BLK_FINISH"]
  /\ blk_obj'       = [blk_obj EXCEPT ![t] = NoObj]
  /\ tick_match'    = [tick_match EXCEPT ![t] = 0]
  /\ time_slice'    = [time_slice EXCEPT ![t] = TimeSlice]
  /\ time_total'    = [time_total EXCEPT ![t] = TimeSlice]
  /\ sched_policy'  = [sched_policy EXCEPT ![t] = "KSCHED_RR"]
  /\ g_ready_queue' = IF autorun THEN ready_list_add_tail(g_ready_queue, t, p)
                                 ELSE g_ready_queue
  /\ pc'  = [pc EXCEPT ![t] = "user",
                       ![g_active_task] = IF autorun THEN "sched" ELSE "user"]
  /\ arg' = [arg EXCEPT ![t] = NoArg]
  /\ intrpt_off' = intrpt_off \ {t}
  /\ UNCHANGED <<blk_list, g_tick_head, g_tick_count, g_active_task, g_sched_lock, isr, crit>>

krhino_task_sleep(ticks) ==
  /\ TaskCall("task_sleep")
  /\ ticks > 0
  /\ MayStop(g_active_task)
  /\ task_state' = [task_state EXCEPT ![g_active_task] = "K_SLEEP"]
  /\ tick_list_insert(g_active_task, ticks)
  /\ g_ready_queue' = ready_list_rm(g_ready_queue, g_active_task, prio[g_active_task])
  /\ PendExitSched(g_active_task, NoArg)
  /\ UNCHANGED <<prio, suspend_count, blk_state, blk_obj, rrVars, blk_list,
                 g_tick_count, cpuVars, crit>>

\* Mutant: the queue turns but nobody schedules.
krhino_task_yield_stays ==
  /\ TaskCall("task_yield")
  /\ g_ready_queue' = ready_list_head_to_tail(g_ready_queue, prio[g_active_task])
  /\ UNCHANGED <<tcbVars, rrVars, blk_list, g_tick_head, g_tick_count, cpuVars, callVars, crit>>

krhino_task_yield ==
  /\ TaskCall("task_yield")
  /\ g_ready_queue' = ready_list_head_to_tail(g_ready_queue, prio[g_active_task])
  /\ RHINO_CRITICAL_EXIT_SCHED
  /\ UNCHANGED <<tcbVars, rrVars, blk_list, g_tick_head, g_tick_count, cpuVars, crit>>

\* The state a task that was not suspended is suspended into.
Suspended(s) == CASE s = "K_RDY"   -> "K_SUSPENDED"
                  [] s = "K_SLEEP" -> "K_SLEEP_SUSPENDED"
                  [] s = "K_PEND"  -> "K_PEND_SUSPENDED"

\* Any task but the idle task; the running one only while the scheduler is
\* not locked.
krhino_task_suspend(t) ==
  /\ AnyCall("task_suspend")
  /\ prio[t] # IDLE_PRI
  /\ MayStop(t)
  /\ \/ /\ task_state[t] \in {"K_RDY", "K_SLEEP", "K_PEND"}
        /\ suspend_count' = [suspend_count EXCEPT ![t] = 1]
        /\ task_state'    = [task_state EXCEPT ![t] = Suspended(@)]
        /\ g_ready_queue' = IF task_state[t] = "K_RDY"
                            THEN ready_list_rm(g_ready_queue, t, prio[t])
                            ELSE g_ready_queue
     \/ /\ task_state[t] \in SuspendStates
        /\ suspend_count[t] < MaxSuspend
        /\ suspend_count' = [suspend_count EXCEPT ![t] = @ + 1]
        /\ UNCHANGED <<task_state, g_ready_queue>>
  /\ RHINO_CRITICAL_EXIT_SCHED
  /\ UNCHANGED <<prio, blk_state, blk_obj, tick_match, rrVars, blk_list,
                 g_tick_head, g_tick_count, cpuVars, crit>>

\* The state a suspended task goes on in after the last resume.
Resumed(s) == CASE s = "K_SUSPENDED"       -> "K_RDY"
                [] s = "K_SLEEP_SUSPENDED" -> "K_SLEEP"
                [] s = "K_PEND_SUSPENDED"  -> "K_PEND"

krhino_task_resume(t) ==
  /\ AnyCall("task_resume")
  /\ task_state[t] \in SuspendStates
  /\ suspend_count' = [suspend_count EXCEPT ![t] = @ - 1]
  /\ IF suspend_count[t] = 1
     THEN /\ task_state'    = [task_state EXCEPT ![t] = Resumed(@)]
          /\ g_ready_queue' = IF task_state[t] = "K_SUSPENDED"
                              THEN ready_list_add(g_ready_queue, t, prio[t])
                              ELSE g_ready_queue
     ELSE UNCHANGED <<task_state, g_ready_queue>>
  /\ RHINO_CRITICAL_EXIT_SCHED
  /\ UNCHANGED <<prio, blk_state, blk_obj, tick_match, rrVars, blk_list,
                 g_tick_head, g_tick_count, cpuVars, crit>>

\* krhino_task_pri_change, first part: the checks made before the critical
\* section is entered.
krhino_task_pri_change(t, p) ==
  /\ TaskCall("task_pri_change")
  /\ prio[t] < IDLE_PRI /\ p < IDLE_PRI
  /\ task_state[t] \notin {"K_SEED", "K_DELETED"}
  /\ pc'  = [pc EXCEPT ![g_active_task] = "pri_change"]
  /\ arg' = [arg EXCEPT ![g_active_task] = <<t, p>>]
  /\ UNCHANGED <<tcbVars, rrVars, queueVars, g_tick_count, cpuVars, crit>>

\* The second part starts: the running task is in front of RHINO_CRITICAL_ENTER.
PriChangeEnter(t, p) ==
  /\ crit = NoCrit /\ isr = "none"
  /\ pc[g_active_task] = "pri_change" /\ arg[g_active_task] = <<t, p>>

\* One turn of the loop of task_pri_change, for a task whose priority differs
\* from p.  A ready task moves to the list of p, to its front if it is the
\* running one; a waiting one moves to its new place among the waiters.
task_pri_change_turn(t, p) ==
  /\ prio' = [prio EXCEPT ![t] = p]
  /\ g_ready_queue' =
       IF task_state[t] = "K_RDY"
       THEN LET rq == ready_list_rm(g_ready_queue, t, prio[t])
            IN  IF t = g_active_task THEN ready_list_add_head(rq, t, p)
                                     ELSE ready_list_add_tail(rq, t, p)
       ELSE g_ready_queue
  /\ blk_list' = IF task_state[t] \in PendStates
                 THEN pend_list_reorder(t, prio')
                 ELSE blk_list

\* Second part when the task holds no mutex and waits for none.  A task
\* deleted in the meantime sends the system into k_err_proc.
pri_change_plain(t, p) ==
  /\ PriChangeEnter(t, p)
  /\ IF prio[t] # p /\ task_state[t] \in {"K_SEED", "K_DELETED"}
     THEN /\ crit' = ErrCrit
          /\ UNCHANGED <<prio, g_ready_queue, blk_list, callVars>>
     ELSE /\ IF prio[t] = p THEN UNCHANGED <<prio, g_ready_queue, blk_list>>
                            ELSE task_pri_change_turn(t, p)
          /\ pc'  = [pc EXCEPT ![g_active_task] = "sched"]
          /\ arg' = [arg EXCEPT ![g_active_task] = NoArg]
          /\ UNCHANGED crit
  /\ UNCHANGED <<task_state, suspend_count, blk_state, blk_obj, tick_match, rrVars,
                 g_tick_head, g_tick_count, cpuVars>>

\* krhino_task_del up to the release of the task's mutexes.
TaskDelEnter(t) ==
  /\ TaskCall("task_del")
  /\ prio[t] # IDLE_PRI
  /\ MayStop(t)

\* Mutant: the suspended variants of the states are forgotten.
task_unlink_unsuspended(t) ==
  /\ task_state[t] \notin {"K_SEED", "K_DELETED"}
  /\ task_state' = [task_state EXCEPT ![t] = "K_DELETED"]
  /\ g_ready_queue' = IF task_state[t] = "K_RDY"
                      THEN ready_list_rm(g_ready_queue, t, prio[t])
                      ELSE g_ready_queue
  /\ blk_list' = IF task_state[t] = "K_PEND"
                 THEN [blk_list EXCEPT ![blk_obj[t]] = klist_rm(@, t)]
                 ELSE blk_list
  /\ IF task_state[t] \in {"K_SLEEP", "K_PEND"} THEN tick_list_rm(t)
                                                ELSE UNCHANGED <<g_tick_head, tick_match>>

\* The switch of krhino_task_del: off whatever lists the task is on.
task_unlink(t) ==
  /\ task_state[t] \notin {"K_SEED", "K_DELETED"}
  /\ task_state' = [task_state EXCEPT ![t] = "K_DELETED"]
  /\ g_ready_queue' = IF task_state[t] = "K_RDY"
                      THEN ready_list_rm(g_ready_queue, t, prio[t])
                      ELSE g_ready_queue
  /\ blk_list' = IF task_state[t] \in PendStates
                 THEN [blk_list EXCEPT ![blk_obj[t]] = klist_rm(@, t)]
                 ELSE blk_list
  /\ tick_list_rm(t)

\* krhino_task_del of a task that holds no mutex and waits for none.
task_del_plain(t) ==
  /\ TaskDelEnter(t)
  /\ task_unlink(t)
  /\ RHINO_CRITICAL_EXIT_SCHED
  /\ UNCHANGED <<prio, suspend_count, blk_state, blk_obj, rrVars, g_tick_count,
                 cpuVars, crit>>

\* krhino_task_del of the idle task is refused by the one return of the function
\* that leaves out RHINO_CRITICAL_EXIT: the caller goes on with interrupts
\* disabled, and core_sched restores that whenever it comes back to the caller.
task_del_idle ==
  /\ TaskCall("task_del_idle")
  /\ intrpt_off' = intrpt_off \cup {g_active_task}
  /\ UNCHANGED <<tcbVars, rrVars, queueVars, g_tick_count, g_active_task, g_sched_lock,
                 isr, callVars, crit>>

krhino_task_time_slice_set(t, slice) ==
  /\ TaskCall("task_time_slice_set") /\ task_state[t] # "K_SEED"
  /\ time_total' = [time_total EXCEPT ![t] = IF slice > 0 THEN slice ELSE TimeSlice]
  /\ time_slice' = [time_slice EXCEPT ![t] = IF slice > 0 THEN slice ELSE TimeSlice]
  /\ UNCHANGED <<tcbVars, sched_policy, queueVars, g_tick_count, cpuVars, callVars, crit>>

krhino_sched_policy_set(t, policy) ==
  /\ TaskCall("sched_policy_set") /\ task_state[t] # "K_SEED"
  /\ sched_policy' = [sched_policy EXCEPT ![t] = policy]
  /\ UNCHANGED <<tcbVars, time_slice, time_total, queueVars, g_tick_count, cpuVars,
                 callVars, crit>>
-----------------------------------------------------------------------------
(***************************************************************************)
(* The specification of the core on its own: no blocking objects in use.   *)
(***************************************************************************)
\* After krhino_start: the idle task and Main are ready, Main runs.
CoreInit ==
  /\ task_state    = [t \in Task |-> IF t \in {Idle, Main} THEN "K_RDY" ELSE "K_SEED"]
  /\ prio          = [t \in Task |-> IF t = Idle THEN IDLE_PRI ELSE MainPri]
  /\ suspend_count = [t \in Task |-> 0]
  /\ blk_state     = [t \in Task |-> "BLK_FINISH"]
  /\ blk_obj       = [t \in Task |-> NoObj]
  /\ tick_match    = [t \in Task |-> 0]
  /\ time_slice    = [t \in Task |-> TimeSlice]
  /\ time_total    = [t \in Task |-> TimeSlice]
  /\ sched_policy  = [t \in Task |-> "KSCHED_RR"]
  /\ blk_list      = [o \in Obj |-> << >>]
  /\ g_ready_queue = [cur_list_item |-> [p \in Prio |-> IF p = MainPri THEN <<Main>>
                                                   ELSE IF p = IDLE_PRI THEN <<Idle>>
                                                   ELSE << >>],
                      task_bit_map  |-> {MainPri, IDLE_PRI},
                      highest_pri   |-> MainPri]
  /\ g_tick_head   = << >>
  /\ g_tick_count  = 0
  /\ g_active_task = Main
  /\ g_sched_lock  = 0
  /\ isr           = "none"
  /\ intrpt_off    = {}
  /\ pc            = [t \in Task |-> "user"]
  /\ arg           = [t \in Task |-> NoArg]
  /\ crit          = NoCrit

\* Interrupts and the scheduler.
KernelStep ==
  \/ core_sched
  \/ pend_state_end_proc
  \/ krhino_intrpt_enter("tick")
  \/ IntrptCalls # {} /\ krhino_intrpt_enter("dev")
  \/ krhino_intrpt_exit
  \/ tick_list_update
  \/ \E t \in Task : tick_sleep_end(t)
  \/ tick_list_done
  \/ time_slice_update

\* The services, by what they are about.
LockService    == krhino_sched_disable \/ krhino_sched_enable
SleepService   == krhino_task_yield \/ \E ticks \in Ticks : krhino_task_sleep(ticks)
SuspendService == \E t \in Task : krhino_task_suspend(t) \/ krhino_task_resume(t)
RRService ==
  \/ \E t \in Task, slice \in 0 .. TimeSlice : krhino_task_time_slice_set(t, slice)
  \/ \E t \in Task, policy \in {"KSCHED_FIFO", "KSCHED_RR"} :
        krhino_sched_policy_set(t, policy)
TaskService ==
  \/ \E new \in NewTask : krhino_task_create(new[1], new[2], new[3])
  \/ \E new \in NewPri : krhino_task_pri_change(new[1], new[2])
                      \/ pri_change_plain(new[1], new[2])
  \/ \E t \in Task : task_del_plain(t)
  \/ task_del_idle

CoreNext ==
  \/ KernelStep \/ LockService \/ SleepService \/ SuspendService \/ RRService
  \/ TaskService

CoreSpec == CoreInit /\ [][CoreNext]_coreVars

\* Fairness: the CPU executes the kernel code it has entered (WF), interrupt
\* handlers return, and the tick timer, being periodic, interrupts again and
\* again although critical sections and other handlers hold it off in between
\* (SF).  Application code owes nothing.
CoreTickHandler ==
  \/ tick_list_update \/ tick_list_done \/ time_slice_update
  \/ \E t \in Task : tick_sleep_end(t)
CoreFairSpec ==
  /\ CoreSpec
  /\ WF_coreVars(core_sched \/ pend_state_end_proc)
  /\ WF_coreVars(CoreTickHandler)
  /\ SF_coreVars(krhino_intrpt_exit)
  /\ SF_coreVars(krhino_intrpt_enter("tick"))
-----------------------------------------------------------------------------
(***************************************************************************)
(* Properties.                                                             *)
(***************************************************************************)
\* Type invariant.
CoreTypeOK ==
  /\ task_state    \in [Task -> TaskState]
  /\ prio          \in [Task -> Prio]
  /\ suspend_count \in [Task -> 0 .. MaxSuspend]
  /\ blk_state     \in [Task -> BlkState]
  /\ blk_obj       \in [Task -> Obj \cup {NoObj}]
  /\ tick_match    \in [Task -> 0 .. TickMod - 1]
  /\ time_slice    \in [Task -> 0 .. TimeSlice]
  /\ time_total    \in [Task -> 1 .. TimeSlice]
  /\ sched_policy  \in [Task -> {"KSCHED_FIFO", "KSCHED_RR"}]
  /\ blk_list      \in [Obj -> Seq(Task)]
  /\ g_ready_queue \in [cur_list_item : [Prio -> Seq(Task)],
                        task_bit_map  : SUBSET Prio,
                        highest_pri   : Prio]
  /\ g_tick_head   \in Seq(Task)
  /\ g_tick_count  \in 0 .. TickMod - 1
  /\ g_active_task \in Task
  /\ g_sched_lock  \in 0 .. MaxLock
  /\ isr           \in {"none", "tick", "slice", "dev", "exit"}
  /\ intrpt_off    \subseteq Task
  /\ pc            \in [Task -> {"user", "sched", "pend_sched", "pend_end", "pri_change"}]
  /\ arg           \in [Task -> Obj \cup {NoArg} \cup (Task \X Prio)]

\* The ready queue is what the scheduler takes it for: a task is on exactly one
\* ready list, once, if and only if it is K_RDY, and on the list of its own
\* priority; the bitmap and highest_pri agree with the lists (ready_list_rm
\* recomputes highest_pri only in one of its four cases).
ReadyQueueOK ==
  LET list == g_ready_queue.cur_list_item
  IN  /\ \A p \in Prio, t \in Task :
            t \in ToSet(list[p]) <=> task_state[t] = "K_RDY" /\ prio[t] = p
      /\ \A p \in Prio : IsInjective(list[p])
      /\ g_ready_queue.task_bit_map = {p \in Prio : list[p] # << >>}
      /\ g_ready_queue.highest_pri \in g_ready_queue.task_bit_map
      /\ \A p \in g_ready_queue.task_bit_map : g_ready_queue.highest_pri <= p

\* A task is on the waiter list of an object, once, if and only if it is
\* blocked on that object; so the default branches of pend_task_wakeup and
\* pend_task_rm (k_err_proc) are never taken.
WaitListsOK ==
  \A o \in Obj :
    /\ \A t \in Task :
         t \in ToSet(blk_list[o]) <=> task_state[t] \in PendStates /\ blk_obj[t] = o
    /\ IsInjective(blk_list[o])

\* The tick list holds sleeping and waiting tasks only, once each, and every
\* sleeping one: no task sleeps without a wake-up time, and none that has been
\* woken is left to be woken again.
TickListOK ==
  /\ \A t \in Task : t \in ToSet(g_tick_head) => task_state[t] \in PendStates \cup SleepStates
  /\ \A t \in Task : task_state[t] \in SleepStates => t \in ToSet(g_tick_head)
  /\ IsInjective(g_tick_head)

\* Outside tick_list_update the tick list is sorted by remaining time and
\* nothing on it is overdue (for timeouts below half the range of tick_t),
\* which is what lets tick_list_update stop at the first task not yet due.
TickListSorted ==
  crit.op # "tick" =>
    \A i, j \in DOMAIN g_tick_head :
      /\ ~Expired(tick_match[g_tick_head[i]])
      /\ i <= j => TicksUntil(tick_match[g_tick_head[i]]) <= TicksUntil(tick_match[g_tick_head[j]])

\* Waiters stay in order of their current priority, whatever changes it while
\* they wait.
WaitersByPriority ==
  \A o \in Obj : \A i, j \in DOMAIN blk_list[o] :
    i < j => prio[blk_list[o][i]] <= prio[blk_list[o][j]]

\* A task is suspended exactly while its nesting count is positive, although its sleep or
\* wait may begin, end or be cut short between any of the suspensions and resumptions
\* (tick_list_update and the services that end a wait keep K_SUSPENDED).
SuspendCountOK ==
  \A t \in Task : task_state[t] \notin {"K_SEED", "K_DELETED"} =>
    (suspend_count[t] > 0 <=> task_state[t] \in SuspendStates)

\* Strict priority scheduling: when a task runs its own code with the scheduler
\* unlocked, it is the first ready task of the highest ready priority.  The
\* interrupt window between a critical section and core_sched, and the
\* reschedule left to krhino_intrpt_exit, must not lose a preemption.
RunningCode == isr = "none" /\ crit = NoCrit /\ pc[g_active_task] \in {"user", "pri_change"}
RunsHighest ==
  RunningCode /\ g_sched_lock = 0 =>
    g_active_task = preferred_cpu_ready_task_get(g_ready_queue)

\* No task goes on running after it blocked, was suspended or deleted, and none
\* returns from a blocking call before the call has ended: with a stale
\* blk_state the call would report success.
RunsOnlyReady ==
  isr = "none" /\ crit = NoCrit /\ pc[g_active_task] \in {"user", "pri_change", "pend_end"} =>
    /\ task_state[g_active_task] = "K_RDY"
    /\ blk_obj[g_active_task] = NoObj
    /\ g_active_task \notin ToSet(g_tick_head)

\* The task that locked the scheduler can always go on to unlock it: nothing
\* makes it unready, not even an interrupt handler that suspends it.
LockHolderReady ==
  g_sched_lock > 0 => /\ task_state[g_active_task] = "K_RDY"
                      /\ pc[g_active_task] \in {"user", "sched", "pri_change"}

\* A timeout is handled in the very tick it was asked for, neither early nor
\* late, however many tasks expire in that tick and whatever is inserted
\* meanwhile.
WakesOnTime ==
  [][\A t \in ToSet(g_tick_head) :
       crit.op = "tick" /\ t \notin ToSet(g_tick_head)' => tick_match[t] = g_tick_count]_coreVars

\* A sleep ends: the ticks go on, whatever the other tasks do and whichever of
\* their calls are refused, locked scheduler and suspended sleepers included.
SleepsEnd == \A t \in Task :
  (task_state[t] \in SleepStates) ~> (task_state[t] \notin SleepStates)

\* Round robin: of the ready tasks of the highest priority each runs again and
\* again, whatever the others do with their slices, unless the application set
\* KSCHED_FIFO or keeps the scheduler locked.
InTurn(t) ==
  /\ task_state[t] = "K_RDY" /\ prio[t] = g_ready_queue.highest_pri
  /\ g_sched_lock = 0
  /\ \A u \in Task : prio[u] = prio[t] => sched_policy[u] = "KSCHED_RR"
RoundRobin == \A t \in Task : <>[]InTurn(t) => []<>(g_active_task = t)

\* The wait of a task for an object, as abstract specifications see it: going on, or how it
\* ended, until the call returns.
WaitOf(t) ==
  IF task_state[t] = "K_DELETED" THEN <<"dead">>
  ELSE IF pc[t] \notin {"pend_sched", "pend_end"} \/ arg[t] \notin Obj THEN <<"out">>
  ELSE <<CASE blk_obj[t] # NoObj -> "waiting"
           [] blk_obj[t] = NoObj /\ blk_state[t] = "BLK_FINISH"  -> "granted"
           [] blk_obj[t] = NoObj /\ blk_state[t] = "BLK_TIMEOUT" -> "expired"
           [] blk_obj[t] = NoObj /\ blk_state[t] = "BLK_DEL"     -> "cancelled", arg[t]>>

\* k_err_proc is never reached: the kernel does not stop the system.
NeverFatal == crit # ErrCrit
=============================================================================
