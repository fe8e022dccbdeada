------------------------------ MODULE RhinoSem ------------------------------
(***************************************************************************)
(* Counting semaphores (k_sem.c) on top of the core: every blocking object *)
(* is a semaphore, no mutex exists.                                        *)
(***************************************************************************)
EXTENDS RhinoCore

CONSTANTS
  SemMax,     \* largest sem_count_t
  SemCounts   \* the counts the application creates semaphores with or sets

ASSUME SemAssumption == SemMax \in Nat \ {0} /\ SemCounts \subseteq 0 .. SemMax

VARIABLES
  obj_type,   \* blk_obj.obj_type is RHINO_SEM_OBJ_TYPE
  count       \* ksem_t.count

semVars == <<obj_type, count>>
vars    == <<coreVars, semVars>>

\* krhino_sem_create on an object that is not in use.
krhino_sem_create(s, n) ==
  /\ TaskCall("sem_create")
  /\ ~obj_type[s]
  /\ blk_list' = [blk_list EXCEPT ![s] = << >>]
  /\ count'    = [count EXCEPT ![s] = n]
  /\ obj_type' = [obj_type EXCEPT ![s] = TRUE]
  /\ UNCHANGED <<tcbVars, rrVars, g_ready_queue, g_tick_head, g_tick_count, cpuVars,
                 callVars, crit>>

\* The critical sections that wake every waiter: krhino_sem_del with
\* pend_task_rm, krhino_sem_give_all with pend_task_wakeup.
krhino_sem_del(s) ==
  /\ TaskCall("sem_del")
  /\ obj_type[s]
  /\ obj_type' = [obj_type EXCEPT ![s] = FALSE]
  /\ crit'     = [op |-> "sem_del", obj |-> s]
  /\ UNCHANGED <<tcbVars, rrVars, queueVars, g_tick_count, cpuVars, callVars, count>>

sem_del_turn(t) ==
  /\ crit.op = "sem_del" /\ blk_list[crit.obj] # << >> /\ t = Head(blk_list[crit.obj])
  /\ pend_task_rm(t)
  /\ UNCHANGED <<prio, suspend_count, rrVars, g_tick_count, cpuVars, callVars, crit, semVars>>

\* Mutant: no limit.
sem_count_inc_unlimited(s) == count' = [count EXCEPT ![s] = @ + 1]

\* A unit is counted; a semaphore at its limit refuses it.
sem_count_inc(s) == count[s] < SemMax /\ count' = [count EXCEPT ![s] = @ + 1]

krhino_sem_give_all(s) ==
  /\ AnyCall("sem_give_all")
  /\ obj_type[s]
  /\ \/ /\ blk_list[s] = << >>
        /\ sem_count_inc(s)
        /\ UNCHANGED crit
     \/ /\ blk_list[s] # << >>
        /\ crit' = [op |-> "sem_give_all", obj |-> s]
        /\ UNCHANGED count
  /\ UNCHANGED <<tcbVars, rrVars, queueVars, g_tick_count, cpuVars, callVars, obj_type>>

sem_give_all_turn(t) ==
  /\ crit.op = "sem_give_all" /\ blk_list[crit.obj] # << >> /\ t = Head(blk_list[crit.obj])
  /\ pend_task_wakeup(t)
  /\ UNCHANGED <<prio, suspend_count, rrVars, g_tick_count, cpuVars, callVars, crit, semVars>>

\* Mutant: the loops end after any number of turns.
sem_loop_done_early ==
  /\ crit.op \in {"sem_del", "sem_give_all"}
  /\ crit' = NoCrit
  /\ RHINO_CRITICAL_EXIT_SCHED
  /\ UNCHANGED <<tcbVars, rrVars, queueVars, g_tick_count, cpuVars, semVars>>

\* The end of both loops.
sem_loop_done ==
  /\ crit.op \in {"sem_del", "sem_give_all"} /\ blk_list[crit.obj] = << >>
  /\ crit' = NoCrit
  /\ RHINO_CRITICAL_EXIT_SCHED
  /\ UNCHANGED <<tcbVars, rrVars, queueVars, g_tick_count, cpuVars, semVars>>

\* krhino_sem_give: the first waiter gets the unit without it being counted.
krhino_sem_give(s) ==
  /\ AnyCall("sem_give")
  /\ obj_type[s]
  /\ \/ /\ blk_list[s] = << >>
        /\ sem_count_inc(s)
        /\ UNCHANGED <<tcbVars, queueVars, callVars>>
     \/ /\ blk_list[s] # << >>
        /\ pend_task_wakeup(Head(blk_list[s]))
        /\ RHINO_CRITICAL_EXIT_SCHED
        /\ UNCHANGED <<prio, suspend_count, count>>
  /\ UNCHANGED <<rrVars, g_tick_count, cpuVars, crit, obj_type>>

\* krhino_sem_take: at count 0 the task blocks unless ticks is RHINO_NO_WAIT or
\* the scheduler is locked.
krhino_sem_take(s, ticks) ==
  /\ TaskCall("sem_take")
  /\ obj_type[s]
  /\ \/ /\ count[s] > 0
        /\ count' = [count EXCEPT ![s] = @ - 1]
        /\ UNCHANGED <<tcbVars, queueVars, callVars>>
     \/ /\ count[s] = 0 /\ ticks # 0 /\ MayStop(g_active_task)
        /\ pend_to_blk_obj(s, g_active_task, ticks)
        /\ PendExitSched(g_active_task, s)
        /\ UNCHANGED <<prio, suspend_count, blk_state, count>>
  /\ UNCHANGED <<rrVars, g_tick_count, cpuVars, crit, obj_type>>

\* krhino_sem_count_set: refused while tasks wait.
krhino_sem_count_set(s, n) ==
  /\ TaskCall("sem_count_set")
  /\ obj_type[s]
  /\ count[s] > 0 \/ blk_list[s] = << >>
  /\ count' = [count EXCEPT ![s] = n]
  /\ UNCHANGED <<coreVars, obj_type>>
-----------------------------------------------------------------------------
SemInit ==
  /\ CoreInit
  /\ obj_type = [s \in Obj |-> FALSE]
  /\ count    = [s \in Obj |-> 0]

\* The services of the core, which leave semaphores alone.  A wait that times
\* out is a wait for a semaphore, so mutex_task_pri_reset does nothing.
CoreStep ==
  /\ \/ CoreNext
     \/ \E t \in Task : tick_pend_timeout(t) /\ UNCHANGED crit
  /\ UNCHANGED semVars

SemService(s) ==
  \/ \E n \in SemCounts : krhino_sem_create(s, n) \/ krhino_sem_count_set(s, n)
  \/ krhino_sem_del(s)
  \/ krhino_sem_give(s)
  \/ krhino_sem_give_all(s)
  \/ \E ticks \in Ticks \cup {WaitForever} : krhino_sem_take(s, ticks)

SemLoop ==
  \/ \E t \in Task : sem_del_turn(t) \/ sem_give_all_turn(t)
  \/ sem_loop_done

Next == CoreStep \/ (\E s \in Obj : SemService(s)) \/ SemLoop

Spec == SemInit /\ [][Next]_vars

\* Fairness: the CPU executes the kernel code it has entered and the scheduler
\* it owes (WF), interrupt handlers return and the tick timer, being periodic,
\* interrupts again and again (SF, since critical sections and handlers hold
\* interrupts off in between).  Application code owes nothing.
TickHandler ==
  /\ \/ tick_list_update \/ tick_list_done \/ time_slice_update
     \/ \E t \in Task : tick_sleep_end(t) \/ (tick_pend_timeout(t) /\ UNCHANGED crit)
  /\ UNCHANGED semVars

Fairness ==
  /\ WF_vars(SemLoop)
  /\ WF_vars((core_sched \/ pend_state_end_proc) /\ UNCHANGED semVars)
  /\ WF_vars(TickHandler)
  /\ SF_vars(krhino_intrpt_exit /\ UNCHANGED semVars)
  /\ SF_vars(krhino_intrpt_enter("tick") /\ UNCHANGED semVars)

FairSpec == Spec /\ Fairness
-----------------------------------------------------------------------------
\* Type invariant.
TypeOK ==
  /\ CoreTypeOK
  /\ obj_type \in [Obj -> BOOLEAN]
  /\ count    \in [Obj -> 0 .. SemMax]
  /\ crit \in [op : {"none", "tick", "k_err_proc"}, obj : {NoObj}]
        \cup [op : {"sem_del", "sem_give_all"}, obj : Obj]

\* No lost wake-up: a semaphore that has units has no waiters, and outside the
\* loop that empties it a deleted one has none either.
NoLostWakeup ==
  \A s \in Obj :
    /\ count[s] > 0 => blk_list[s] = << >>
    /\ ~obj_type[s] /\ crit # [op |-> "sem_del", obj |-> s] => blk_list[s] = << >>

\* The promise of AbstractSem is kept: units are conserved (each successful take
\* uses exactly one unit, given or counted), a waiter is woken for exactly one
\* reason, and the reason reported when the call returns, possibly much later
\* and after further suspensions and interrupts, is the one it was woken for.
Abstract == INSTANCE AbstractSem WITH
  Sem <- Obj, alive <- {s \in Obj : obj_type[s]}, units <- count,
  wait <- [t \in Task |-> WaitOf(t)]

ImplementsAbstractSem == Abstract!Spec

\* A task with a timeout does not wait for ever, even if the semaphore is never
\* given, it is suspended or the scheduler stays locked.
TimeoutsExpire == \A t \in Task : (t \in ToSet(g_tick_head)) ~> (t \notin ToSet(g_tick_head))
=============================================================================
