----------------------------- MODULE RhinoMutex -----------------------------
(***************************************************************************)
(* Recursive mutexes with priority inheritance (k_mutex.c), and the task   *)
(* services that have to look after them: krhino_task_del releases what    *)
(* the task holds, krhino_task_pri_change and the end of a wait pass       *)
(* priorities along chains of owners (task_pri_change).  Every blocking    *)
(* object is a mutex.                                                      *)
(*                                                                         *)
(* The mutexes a task holds are a singly linked list: the head in the task *)
(* (mutex_head), the links in the mutexes (mutex_next).  Deleting a task   *)
(* or a mutex leaves stale pointers behind; they are part of the state.    *)
(***************************************************************************)
EXTENDS RhinoCore

CONSTANTS
  NoTask,       \* the NULL task
  MaxNested     \* bound: locks a task takes on one mutex (2^32 - 1 in the code,
                \* where one more ends in k_err_proc)

ASSUME MutexAssumption == MaxNested \in Nat \ {0} /\ NoTask \notin Task

VARIABLES
  b_prio,         \* ktask_t.b_prio, the priority without inheritance
  mutex_head,     \* ktask_t.mutex_list
  obj_type,       \* blk_obj.obj_type is RHINO_MUTEX_OBJ_TYPE
  mutex_task,     \* kmutex_t.mutex_task, the owner
  mutex_next,     \* kmutex_t.mutex_list
  owner_nested    \* kmutex_t.owner_nested

mutexVars == <<b_prio, mutex_head, obj_type, mutex_task, mutex_next, owner_nested>>
vars      == <<coreVars, mutexVars>>

Live(t) == task_state[t] \notin {"K_SEED", "K_DELETED"}

\* The mutexes on the list that starts at m, next being the links: the smallest set with m,
\* unless that is NULL, and with the next one of each of its members.
Chain(next, m) ==
  {x \in Obj : \A S \in SUBSET Obj :
     m \in S \cup {NoObj} /\ (\A y \in S : next[y] \in S \cup {NoObj}) => x \in S}
Held(t) == Chain(mutex_next, mutex_head[t])

\* The highest of pri and the priorities of the first waiters of the mutexes in
\* held; bl are the waiter lists, pr the priorities.
HighestOf(pri, held, bl, pr) ==
  Min({pri} \cup {pr[Head(bl[m])] : m \in {x \in held : bl[x] # << >>}})

\* mutex_pri_limit: a task cannot be set below the priority it inherits.
mutex_pri_limit(t, pri) == HighestOf(pri, Held(t), blk_list, prio)

\* mutex_pri_look: the priority task t is due when it does not hold rel.
mutex_pri_look(t, rel, bl, pr) == HighestOf(b_prio[t], Held(t) \ {rel}, bl, pr)

\* Mutant: rel stays on the list.
mutex_unlink_none(t, rel) == UNCHANGED <<mutex_head, mutex_next>>

\* The other effect of mutex_pri_look: rel is unlinked from the list of t.
mutex_unlink(t, rel) ==
  IF mutex_head[t] = rel
  THEN mutex_head' = [mutex_head EXCEPT ![t] = mutex_next[rel]] /\ UNCHANGED mutex_next
  ELSE /\ mutex_next' = [m \in Obj |-> IF m \in Held(t) /\ mutex_next[m] = rel
                                       THEN mutex_next[rel] ELSE mutex_next[m]]
       /\ UNCHANGED mutex_head

\* Mutant: the list is left out.
mutex_get_unlinked(m, t) ==
  mutex_task' = [mutex_task EXCEPT ![m] = t] /\ UNCHANGED <<mutex_next, mutex_head>>

\* The mutex goes to task t, at the front of its list.
mutex_get(m, t) ==
  /\ mutex_task' = [mutex_task EXCEPT ![m] = t]
  /\ mutex_next' = [mutex_next EXCEPT ![m] = mutex_head[t]]
  /\ mutex_head' = [mutex_head EXCEPT ![t] = m]

\* A task that gets the mutex holds it once.
nested_first(m) == owner_nested' = [owner_nested EXCEPT ![m] = 1]
-----------------------------------------------------------------------------
(***************************************************************************)
(* task_pri_change, a loop in the caller's critical section.  `task' and   *)
(* `pri' are its variables, `after' is what the caller does next.          *)
(***************************************************************************)
PriChange(t, p, after) == [op |-> "pri_change", task |-> t, pri |-> p, after |-> after]
After(op, m, n) == [op |-> op, obj |-> m, ticks |-> n]

\* mutex_release, and the same test in mutex_task_pri_reset: the priority of t
\* changes only if it is not the one it is due.
Release(t, due, after) == PriChange(IF due # prio[t] THEN t ELSE NoTask, due, after)

\* Mutant: inheritance stops at the first owner.
NextInChain_stops(t, p) == <<NoTask, p>>

\* Whose priority changes after that of t, which waits for a mutex.
NextInChain(t, p) ==
  LET m     == blk_obj[t]
      owner == mutex_task[m]
      due   == mutex_pri_look(owner, NoObj, blk_list', prio')
  IN  IF ~obj_type[m] THEN <<NoTask, p>>
      ELSE IF prio[owner] > p THEN <<owner, p>>
      ELSE IF prio[owner] = prio[t] /\ due # prio[owner] THEN <<owner, due>>
      ELSE <<NoTask, p>>

\* Mutant: a missing "task = NULL".
ChainEnds_missing(p) == crit

\* task = NULL: this was the last task to change.
ChainEnds(p) == PriChange(NoTask, p, crit.after)

task_pri_change ==
  LET t == crit.task
      p == crit.pri
  IN  /\ crit.op = "pri_change" /\ t # NoTask
      /\ \/ /\ prio[t] = p
            /\ crit' = ChainEnds(p)
            /\ UNCHANGED <<prio, g_ready_queue, blk_list>>
         \/ /\ prio[t] # p /\ task_state[t] \in PendStates
            /\ task_pri_change_turn(t, p)
            /\ LET next == NextInChain(t, p)
               IN  crit' = PriChange(next[1], next[2], crit.after)
         \/ /\ prio[t] # p /\ task_state[t] \notin PendStates
            /\ IF Live(t)
               THEN /\ task_pri_change_turn(t, p)
                    /\ crit' = ChainEnds(p)
               ELSE /\ crit' = ErrCrit
                    /\ UNCHANGED <<prio, g_ready_queue, blk_list>>
      /\ UNCHANGED <<task_state, suspend_count, blk_state, blk_obj, tick_match, rrVars,
                     g_tick_head, g_tick_count, cpuVars, callVars, mutexVars>>

\* The caller goes on.
PriChanged(op) == crit.op = "pri_change" /\ crit.task = NoTask /\ crit.after.op = op
-----------------------------------------------------------------------------
(***************************************************************************)
(* The mutex services.                                                     *)
(***************************************************************************)
\* (Applications create a deleted mutex again only when no task is left in a call
\* on it.)
krhino_mutex_create(m) ==
  /\ TaskCall("mutex_create")
  /\ ~obj_type[m] /\ \A t \in Task : Live(t) => arg[t] # m
  /\ blk_list'   = [blk_list EXCEPT ![m] = << >>]
  /\ mutex_task' = [mutex_task EXCEPT ![m] = NoTask]
  /\ mutex_next' = [mutex_next EXCEPT ![m] = NoObj]
  /\ obj_type'   = [obj_type EXCEPT ![m] = TRUE]
  /\ UNCHANGED <<tcbVars, rrVars, g_ready_queue, g_tick_head, g_tick_count, cpuVars,
                 callVars, crit, b_prio, mutex_head, owner_nested>>

\* krhino_mutex_lock: again by its owner, of a free mutex, or of another task's;
\* in the last case the owner inherits the caller's priority before the caller
\* blocks.
krhino_mutex_lock(m, ticks) ==
  LET owner == mutex_task[m]
  IN  /\ TaskCall("mutex_lock")
      /\ obj_type[m]
      /\ \/ /\ owner = g_active_task /\ owner_nested[m] < MaxNested
            /\ owner_nested' = [owner_nested EXCEPT ![m] = @ + 1]
            /\ UNCHANGED <<crit, mutex_task, mutex_next, mutex_head>>
         \/ /\ owner = NoTask
            /\ mutex_get(m, g_active_task)
            /\ nested_first(m)
            /\ UNCHANGED crit
         \/ /\ owner \notin {NoTask, g_active_task} /\ ticks # 0 /\ MayStop(g_active_task)
            /\ crit' = PriChange(IF prio[g_active_task] < prio[owner] THEN owner ELSE NoTask,
                                 prio[g_active_task], After("mutex_lock", m, ticks))
            /\ UNCHANGED <<owner_nested, mutex_task, mutex_next, mutex_head>>
      /\ UNCHANGED <<tcbVars, rrVars, queueVars, g_tick_count, cpuVars, callVars,
                     b_prio, obj_type>>

mutex_lock_pend ==
  /\ PriChanged("mutex_lock")
  /\ crit' = NoCrit
  /\ pend_to_blk_obj(crit.after.obj, g_active_task, crit.after.ticks)
  /\ PendExitSched(g_active_task, crit.after.obj)
  /\ UNCHANGED <<prio, suspend_count, blk_state, rrVars, g_tick_count, cpuVars, mutexVars>>

\* Mutant: anybody may unlock.
Unlockable_by_all(m, t) == obj_type[m] /\ mutex_task[m] # NoTask

\* The checks of krhino_mutex_unlock, and the test of its early return.
Unlockable(m, t) == obj_type[m] /\ mutex_task[m] = t
StillNested(m)   == owner_nested[m] > 1

\* krhino_mutex_unlock by the owner; the last one gives up the priority
\* inherited through this mutex ...
krhino_mutex_unlock(m) ==
  LET due == mutex_pri_look(g_active_task, m, blk_list, prio)
  IN  /\ TaskCall("mutex_unlock")
      /\ Unlockable(m, g_active_task)
      /\ owner_nested' = [owner_nested EXCEPT ![m] = @ - 1]
      /\ IF StillNested(m)
         THEN UNCHANGED <<crit, mutex_head, mutex_next>>
         ELSE /\ mutex_unlink(g_active_task, m)
              /\ crit' = Release(g_active_task, due, After("mutex_unlock", m, 0))
      /\ UNCHANGED <<tcbVars, rrVars, queueVars, g_tick_count, cpuVars, callVars,
                     b_prio, obj_type, mutex_task>>

\* ... and hands the mutex to the first waiter.
mutex_unlock_wake ==
  LET m == crit.after.obj
      t == Head(blk_list[m])
  IN  /\ PriChanged("mutex_unlock")
      /\ crit' = NoCrit
      /\ \/ /\ blk_list[m] = << >>
            /\ mutex_task' = [mutex_task EXCEPT ![m] = NoTask]
            /\ UNCHANGED <<tcbVars, queueVars, callVars, mutex_head, mutex_next, owner_nested>>
         \/ /\ blk_list[m] # << >>
            /\ pend_task_wakeup(t)
            /\ mutex_get(m, t)
            /\ nested_first(m)
            /\ RHINO_CRITICAL_EXIT_SCHED
            /\ UNCHANGED <<prio, suspend_count>>
      /\ UNCHANGED <<rrVars, g_tick_count, cpuVars, b_prio, obj_type>>

\* krhino_mutex_del: the owner loses the mutex and what it inherits through it,
\* then every waiter is woken.
krhino_mutex_del(m) ==
  LET owner == mutex_task[m]
  IN  /\ TaskCall("mutex_del")
      /\ obj_type[m]
      /\ obj_type' = [obj_type EXCEPT ![m] = FALSE]
      /\ IF owner = NoTask
         THEN /\ crit' = PriChange(NoTask, 0, After("mutex_del", m, 0))
              /\ UNCHANGED <<mutex_head, mutex_next>>
         ELSE /\ crit' = Release(owner, mutex_pri_look(owner, m, blk_list, prio),
                                 After("mutex_del", m, 0))
              /\ mutex_unlink(owner, m)
      /\ UNCHANGED <<tcbVars, rrVars, queueVars, g_tick_count, cpuVars, callVars,
                     b_prio, mutex_task, owner_nested>>

mutex_del_turn(t) ==
  /\ PriChanged("mutex_del") /\ blk_list[crit.after.obj] # << >>
  /\ t = Head(blk_list[crit.after.obj])
  /\ pend_task_rm(t)
  /\ UNCHANGED <<prio, suspend_count, rrVars, g_tick_count, cpuVars, callVars, crit,
                 mutexVars>>

mutex_del_done ==
  /\ PriChanged("mutex_del") /\ blk_list[crit.after.obj] = << >>
  /\ crit' = NoCrit
  /\ RHINO_CRITICAL_EXIT_SCHED
  /\ UNCHANGED <<tcbVars, rrVars, queueVars, g_tick_count, cpuVars, mutexVars>>
-----------------------------------------------------------------------------
(***************************************************************************)
(* The task services that touch mutexes.                                   *)
(***************************************************************************)
\* task_create resets the fields this module adds.
mutex_task_create(t, p, autorun) ==
  /\ krhino_task_create(t, p, autorun)
  /\ b_prio'     = [b_prio EXCEPT ![t] = p]
  /\ mutex_head' = [mutex_head EXCEPT ![t] = NoObj]
  /\ UNCHANGED <<obj_type, mutex_task, mutex_next, owner_nested>>

\* krhino_task_pri_change, the critical section.
pri_change_enter(t, p) ==
  /\ PriChangeEnter(t, p)
  /\ b_prio' = [b_prio EXCEPT ![t] = p]
  /\ crit'   = PriChange(t, mutex_pri_limit(t, p), After("task_pri_change", NoObj, 0))
  /\ UNCHANGED <<tcbVars, rrVars, queueVars, g_tick_count, cpuVars, callVars,
                 mutex_head, obj_type, mutex_task, mutex_next, owner_nested>>

pri_change_done ==
  /\ PriChanged("task_pri_change")
  /\ crit' = NoCrit
  /\ pc'   = [pc EXCEPT ![g_active_task] = "sched"]
  /\ arg'  = [arg EXCEPT ![g_active_task] = NoArg]
  /\ UNCHANGED <<tcbVars, rrVars, queueVars, g_tick_count, cpuVars, mutexVars>>

\* Mutant: the owner keeps the priority.
mutex_task_pri_reset_none(t, after) == PriChange(NoTask, 0, after)

\* mutex_task_pri_reset, for a task that no longer waits: if the owner ran at its
\* priority, the owner goes back to the one it is due.
mutex_task_pri_reset(t, after) ==
  LET m     == blk_obj[t]
      owner == mutex_task[m]
  IN  IF obj_type[m] /\ prio[owner] = prio[t]
      THEN Release(owner, mutex_pri_look(owner, NoObj, blk_list', prio), after)
      ELSE PriChange(NoTask, 0, after)

\* A wait for a mutex times out in tick_list_update.
mutex_pend_timeout(t) ==
  /\ tick_pend_timeout(t)
  /\ crit' = mutex_task_pri_reset(t, After("tick", NoObj, 0))
  /\ UNCHANGED mutexVars

mutex_timeout_done ==
  /\ PriChanged("tick")
  /\ crit' = [op |-> "tick", obj |-> NoObj]
  /\ UNCHANGED <<tcbVars, rrVars, queueVars, g_tick_count, cpuVars, callVars, mutexVars>>

\* krhino_task_del: task_mutex_free walks the list of the task, even if it has
\* been deleted before.  (Applications delete a task that held mutexes when it
\* was deleted once more only where Calls has "task_del_again".)
krhino_task_del(t) ==
  /\ TaskDelEnter(t)
  /\ task_state[t] # "K_SEED"
  /\ task_state[t] = "K_DELETED" => mutex_head[t] = NoObj \/ "task_del_again" \in Calls
  /\ crit' = [op |-> "mutex_free", task |-> t, obj |-> mutex_head[t]]
  /\ UNCHANGED <<tcbVars, rrVars, queueVars, g_tick_count, cpuVars, callVars, mutexVars>>

task_mutex_free ==
  LET m == crit.obj
      t == Head(blk_list[m])
  IN  /\ crit.op = "mutex_free" /\ m # NoObj
      /\ crit' = [crit EXCEPT !.obj = mutex_next[m]]
      /\ \/ /\ blk_list[m] # << >>
            /\ pend_task_wakeup(t)
            /\ mutex_get(m, t)
            /\ UNCHANGED <<prio, suspend_count>>
         \/ /\ blk_list[m] = << >>
            /\ mutex_task' = [mutex_task EXCEPT ![m] = NoTask]
            /\ UNCHANGED <<tcbVars, queueVars, mutex_head, mutex_next>>
      /\ UNCHANGED <<rrVars, g_tick_count, cpuVars, callVars, b_prio, obj_type, owner_nested>>

\* ... then the task is unlinked, or found to be deleted already and the call
\* refused.
task_del_unlink ==
  LET t == crit.task
  IN  /\ crit.op = "mutex_free" /\ crit.obj = NoObj
      /\ \/ /\ task_unlink(t)
            /\ crit' = IF task_state[t] \in PendStates
                       THEN mutex_task_pri_reset(t, After("task_del", NoObj, 0))
                       ELSE PriChange(NoTask, 0, After("task_del", NoObj, 0))
         \/ /\ task_state[t] = "K_DELETED"
            /\ crit' = NoCrit
            /\ UNCHANGED <<task_state, tick_match, queueVars>>
      /\ UNCHANGED <<prio, suspend_count, blk_state, blk_obj, rrVars, g_tick_count, cpuVars,
                     callVars, mutexVars>>

task_del_done ==
  /\ PriChanged("task_del")
  /\ crit' = NoCrit
  /\ RHINO_CRITICAL_EXIT_SCHED
  /\ UNCHANGED <<tcbVars, rrVars, queueVars, g_tick_count, cpuVars, mutexVars>>
-----------------------------------------------------------------------------
MutexInit ==
  /\ CoreInit
  /\ b_prio       = prio
  /\ mutex_head   = [t \in Task |-> NoObj]
  /\ obj_type     = [m \in Obj |-> FALSE]
  /\ mutex_task   = [m \in Obj |-> NoTask]
  /\ mutex_next   = [m \in Obj |-> NoObj]
  /\ owner_nested = [m \in Obj |-> 0]

\* The services of the core that leave mutexes alone.
CoreStep ==
  /\ KernelStep \/ LockService \/ SleepService \/ SuspendService \/ RRService
     \/ (\E new \in NewPri : krhino_task_pri_change(new[1], new[2]))
     \/ task_del_idle
  /\ UNCHANGED mutexVars

MutexService(m) ==
  \/ krhino_mutex_create(m)
  \/ \E ticks \in Ticks \cup {WaitForever} : krhino_mutex_lock(m, ticks)
  \/ krhino_mutex_unlock(m)
  \/ krhino_mutex_del(m)

MutexTaskService ==
  \/ \E new \in NewTask : mutex_task_create(new[1], new[2], new[3])
  \/ \E new \in NewPri : pri_change_enter(new[1], new[2])
  \/ \E t \in Task : krhino_task_del(t)

\* Steps inside critical sections.
MutexLoop ==
  \/ task_pri_change \/ mutex_lock_pend \/ mutex_unlock_wake
  \/ (\E t \in Task : mutex_del_turn(t)) \/ mutex_del_done
  \/ pri_change_done \/ mutex_timeout_done
  \/ task_mutex_free \/ task_del_unlink \/ task_del_done

Next ==
  \/ CoreStep
  \/ \E t \in Task : mutex_pend_timeout(t)
  \/ \E m \in Obj : MutexService(m)
  \/ MutexTaskService
  \/ MutexLoop

Spec == MutexInit /\ [][Next]_vars

\* The CPU executes the critical sections it has entered.
FairSpec == Spec /\ WF_vars(MutexLoop)
-----------------------------------------------------------------------------
\* Type invariant.
AfterType == [op : {"mutex_lock", "mutex_unlock", "mutex_del", "task_pri_change", "tick",
                    "task_del"},
              obj : Obj \cup {NoObj}, ticks : 0 .. TickMod - 1]
TypeOK ==
  /\ CoreTypeOK
  /\ b_prio       \in [Task -> Prio]
  /\ mutex_head   \in [Task -> Obj \cup {NoObj}]
  /\ obj_type     \in [Obj -> BOOLEAN]
  /\ mutex_task   \in [Obj -> Task \cup {NoTask}]
  /\ mutex_next   \in [Obj -> Obj \cup {NoObj}]
  /\ owner_nested \in [Obj -> 0 .. MaxNested]
  /\ crit \in [op : {"none", "tick", "k_err_proc"}, obj : {NoObj}]
        \cup [op : {"pri_change"}, task : Task \cup {NoTask}, pri : Prio, after : AfterType]
        \cup [op : {"mutex_free"}, task : Task, obj : Obj \cup {NoObj}]

\* Owners and lists agree: outside critical sections the list of every live task
\* holds exactly the mutexes that name it as their owner, an owned mutex has a
\* live owner that locked it, and nobody waits for a free one.
OwnershipOK ==
  crit = NoCrit =>
    /\ \A t \in Task : Live(t) => Held(t) = {m \in Obj : obj_type[m] /\ mutex_task[m] = t}
    /\ \A m \in Obj : obj_type[m] =>
         IF mutex_task[m] = NoTask
         THEN blk_list[m] = << >>
         ELSE Live(mutex_task[m]) /\ owner_nested[m] > 0

\* The types, the nesting counts among them, and OwnershipOK.
MutexInv == TypeOK /\ OwnershipOK

\* Priority inheritance is exact: outside critical sections every live task runs
\* at the highest of its own priority and those of the first waiters of the
\* mutexes it holds.  Locks, unlocks, timeouts, deletions and priority changes
\* anywhere in a chain of owners must neither miss a boost nor leave one behind.
InheritanceExact ==
  crit = NoCrit =>
    \A t \in Task : Live(t) => prio[t] = HighestOf(b_prio[t], Held(t), blk_list, prio)

\* What krhino_mutex_lock reports after a wait is true: the task woken with
\* success owns the mutex, one woken by a timeout does not.
LockReportsOwnership ==
  \A t \in Task :
    /\ Live(t) /\ pc[t] \in {"pend_sched", "pend_end"} /\ arg[t] \in Obj /\ blk_obj[t] = NoObj
    /\ crit = NoCrit
    => (blk_state[t] = "BLK_FINISH" <=> mutex_task[arg[t]] = t)

\* A mutex changes hands only when its owner releases it or is deleted
\* ("mutex must be released by itself", krhino_mutex_unlock).
ReleasedByItself ==
  [][\A m \in Obj :
       obj_type[m] /\ obj_type'[m] /\ mutex_task[m] # NoTask /\ mutex_task'[m] # mutex_task[m]
       => \/ PriChanged("mutex_unlock") /\ mutex_task[m] = g_active_task
          \/ crit.op = "mutex_free" /\ crit.task = mutex_task[m]]_vars

\* A change of priority that travels along owners ends, even around a cycle of
\* tasks that are deadlocked on each other's mutexes.
PriChangeEnds == (crit.op = "pri_change") ~> (crit.op # "pri_change")
=============================================================================
