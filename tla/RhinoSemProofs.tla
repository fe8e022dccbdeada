--------------------------- MODULE RhinoSemProofs ---------------------------
(***************************************************************************)
(* The invariant of the core survives the semaphore services, and no       *)
(* wake-up is lost, for any number of tasks and semaphores.                *)
(***************************************************************************)
EXTENDS RhinoSem, RhinoCoreProofs

-----------------------------------------------------------------------------
(***************************************************************************)
(* The invariant.                                                          *)
(***************************************************************************)
\* Whoever is in one of the loops is a task in user code, or a handler.
LoopCallerOK ==
  crit.op \in {"sem_del", "sem_give_all"} /\ isr = "none" => pc[g_active_task] = "user"

SemInv == CoreInv /\ TypeOK /\ NoLostWakeup /\ LoopCallerOK

\* The core leaves the promises of the semaphores alone.
LEMMA CoreStep_Sem ==
  ASSUME SemInv, CoreNext, UNCHANGED semVars PROVE SemInv'
<1>1. CoreInv'
  BY CoreNext_Inv DEF SemInv
<1>2. /\ \A u \in Task : task_state'[u] \in PendStates =>
                           task_state[u] \in PendStates /\ blk_obj'[u] = blk_obj[u]
      /\ crit' \in {crit, NoCrit, ErrCrit, [op |-> "tick", obj |-> NoObj]}
      /\ crit = NoCrit \/ crit.op = "tick"
  BY CoreNoWaiter DEF SemInv
<1>3. ASSUME NEW o \in Obj, blk_list[o] = << >> PROVE blk_list'[o] = << >>
  <2>1. blk_list[o] \in Seq(Task) /\ blk_list'[o] \in Seq(Task)
    BY <1>1 DEF SemInv, CoreInv, CoreTypeOK
  <2>2. \A u \in Task : ~(task_state[u] \in PendStates /\ blk_obj[u] = o)
    BY <1>3, <2>1, NoElements DEF SemInv, CoreInv, ListInv, WaitListsOK
  <2>3. \A u \in Task : u \notin ToSet(blk_list'[o])
    BY <1>1, <1>2, <2>2 DEF CoreInv, ListInv, WaitListsOK
  <2>4. ToSet(blk_list'[o]) = {}
    BY <2>1, <2>3, ToSetByIndex
  <2> QED
    BY <2>1, <2>4, NoElements
<1>4. crit'.op \in {"none", "tick", "k_err_proc"} /\ crit'.obj = NoObj /\ crit.op \in {"none", "tick"}
  BY <1>2 DEF SemInv, TypeOK, NoCrit, ErrCrit
<1>5. TypeOK'
  BY <1>1, <1>2 DEF SemInv, TypeOK, CoreInv, semVars, NoCrit, ErrCrit
<1>6. NoLostWakeup'
  BY <1>3, <1>4 DEF SemInv, NoLostWakeup, semVars
<1> QED
  BY <1>1, <1>4, <1>5, <1>6 DEF SemInv, LoopCallerOK

\* A turn of a loop that ends waits: the tick handler's, a deletion's or
\* krhino_sem_give_all's.
LEMMA LoopTurn ==
  ASSUME SemInv, NEW t \in Task, unpend(t), crit.op \in {"tick", "sem_del", "sem_give_all"},
         NEW b \in BlkState, blk_state' = [blk_state EXCEPT ![t] = b],
         UNCHANGED <<prio, suspend_count, rrVars, g_tick_count, cpuVars, callVars, crit, semVars>>
  PROVE  SemInv'
<1>1. CoreInv' /\ \A o \in Obj : blk_list[o] = << >> => blk_list'[o] = << >>
  <2>1. CoreInv /\ crit # NoCrit /\ crit' # NoCrit
    BY DEF SemInv, NoCrit
  <2> QED
    BY <2>1, UnpendInLoop
<1>2. TypeOK'
  BY <1>1 DEF SemInv, TypeOK, CoreInv, semVars
<1>3. NoLostWakeup'
  BY <1>1 DEF SemInv, NoLostWakeup, semVars
<1> QED
  BY <1>1, <1>2, <1>3 DEF SemInv, LoopCallerOK, cpuVars, callVars

\* The end of a loop: the list is empty, so a deleted semaphore has no waiters.
LEMMA sem_loop_done_Sem ==
  ASSUME SemInv, sem_loop_done PROVE SemInv'
<1>1. /\ crit.op \in {"sem_del", "sem_give_all"} /\ blk_list[crit.obj] = << >>
      /\ crit' = NoCrit /\ RHINO_CRITICAL_EXIT_SCHED
      /\ UNCHANGED <<tcbVars, rrVars, queueVars, g_tick_count, cpuVars, semVars>>
  BY DEF sem_loop_done
<1>2. ListInv'
  BY <1>1, ListsKept DEF SemInv, CoreInv
<1>3. /\ isr = "none" => pc' = [pc EXCEPT ![g_active_task] = "sched"] /\ pc[g_active_task] = "user"
      /\ isr # "none" => pc' = pc
      /\ arg' = arg
  BY <1>1 DEF RHINO_CRITICAL_EXIT_SCHED, SemInv, LoopCallerOK
<1>4. CoreTypeOK'
  BY <1>1, <1>3 DEF SemInv, CoreInv, CoreTypeOK, tcbVars, rrVars, queueVars, cpuVars
<1>5. CallInv'
  <2>1. /\ g_active_task \in Task /\ g_active_task' = g_active_task /\ isr' = isr
        /\ g_sched_lock' = g_sched_lock /\ task_state' = task_state
    BY <1>1 DEF SemInv, CoreInv, CoreTypeOK, cpuVars, tcbVars
  <2>2. /\ isr = "none" => pc'[g_active_task] = "sched"
        /\ \A u \in Task \ {g_active_task} : pc'[u] = pc[u]
    BY <1>3, <2>1 DEF SemInv, CoreInv, CoreTypeOK
  <2>3. RunsOnlyReady'
    BY <2>1, <2>2 DEF RunsOnlyReady
  <2>4. LockHolderReady'
    BY <1>3, <2>1, <2>2 DEF SemInv, CoreInv, CallInv, LockHolderReady
  <2>5. PriArgOK'
    BY <1>3, <2>1, <2>2 DEF SemInv, CoreInv, CallInv, PriArgOK
  <2> QED
    BY <2>3, <2>4, <2>5 DEF CallInv
<1>6. TypeOK'
  BY <1>1, <1>4 DEF SemInv, TypeOK, semVars, NoCrit
<1>7. NoLostWakeup'
  <2> SUFFICES ASSUME NEW s \in Obj, count[s] > 0 \/ ~obj_type[s] PROVE blk_list[s] = << >>
    BY <1>1 DEF NoLostWakeup, semVars, queueVars
  <2>1. CASE crit = [op |-> "sem_del", obj |-> s]
    BY <1>1, <2>1
  <2>2. CASE crit # [op |-> "sem_del", obj |-> s]
    BY <2>2 DEF SemInv, NoLostWakeup
  <2> QED
    BY <2>1, <2>2
<1> QED
  BY <1>1, <1>2, <1>4, <1>5, <1>6, <1>7 DEF SemInv, CoreInv, LoopCallerOK, NoCrit
-----------------------------------------------------------------------------
(***************************************************************************)
(* The services.                                                           *)
(***************************************************************************)
\* krhino_sem_create finds no waiters on an object that is not in use.
LEMMA krhino_sem_create_Sem ==
  ASSUME SemInv, NEW s \in Obj, NEW n \in SemCounts, krhino_sem_create(s, n) PROVE SemInv'
<1>1. /\ crit = NoCrit /\ ~obj_type[s]
      /\ blk_list' = [blk_list EXCEPT ![s] = << >>]
      /\ count'    = [count EXCEPT ![s] = n]
      /\ obj_type' = [obj_type EXCEPT ![s] = TRUE]
      /\ UNCHANGED <<tcbVars, rrVars, g_ready_queue, g_tick_head, g_tick_count, cpuVars, callVars, crit>>
  BY DEF krhino_sem_create, TaskCall
<1>2. blk_list[s] = << >>
  BY <1>1 DEF SemInv, NoLostWakeup, NoCrit
<1>3. blk_list' = blk_list
  BY <1>1, <1>2 DEF SemInv, CoreInv, CoreTypeOK
<1>4. /\ CoreInv' /\ crit' = crit /\ isr' = isr /\ pc' = pc /\ g_active_task' = g_active_task
  BY <1>1, <1>3, CoreKept DEF SemInv, coreVars, queueVars
<1>5. TypeOK'
  BY <1>1, <1>4, SemAssumption DEF SemInv, TypeOK, CoreInv
<1>6. NoLostWakeup'
  BY <1>1, <1>2, <1>3, <1>4 DEF SemInv, TypeOK, NoLostWakeup
<1> QED
  BY <1>4, <1>5, <1>6 DEF SemInv, LoopCallerOK

\* krhino_sem_count_set never gives units to a semaphore that is waited for.
LEMMA krhino_sem_count_set_Sem ==
  ASSUME SemInv, NEW s \in Obj, NEW n \in SemCounts, krhino_sem_count_set(s, n) PROVE SemInv'
<1>1. /\ count[s] > 0 \/ blk_list[s] = << >>
      /\ count' = [count EXCEPT ![s] = n]
      /\ UNCHANGED coreVars /\ obj_type' = obj_type
  BY DEF krhino_sem_count_set
<1>2. /\ CoreInv' /\ crit' = crit /\ isr' = isr /\ pc' = pc /\ g_active_task' = g_active_task
      /\ blk_list' = blk_list
  BY <1>1, CoreKept DEF SemInv
<1>3. TypeOK'
  BY <1>1, <1>2, SemAssumption DEF SemInv, TypeOK, CoreInv
<1>4. NoLostWakeup'
  BY <1>1, <1>2 DEF SemInv, TypeOK, NoLostWakeup
<1> QED
  BY <1>2, <1>3, <1>4 DEF SemInv, LoopCallerOK

\* krhino_sem_del: its own semaphore may keep waiters, for the loop to wake.
LEMMA krhino_sem_del_Sem ==
  ASSUME SemInv, NEW s \in Obj, krhino_sem_del(s) PROVE SemInv'
<1>1. /\ crit = NoCrit /\ isr = "none" /\ pc[g_active_task] = "user"
      /\ obj_type' = [obj_type EXCEPT ![s] = FALSE]
      /\ crit' = [op |-> "sem_del", obj |-> s]
      /\ UNCHANGED <<tcbVars, rrVars, queueVars, g_tick_count, cpuVars, callVars, count>>
  BY DEF krhino_sem_del, TaskCall
<1>2. CoreInv'
  BY <1>1, EnterLoop DEF SemInv, NoCrit
<1>3. TypeOK'
  BY <1>1, <1>2 DEF SemInv, TypeOK, CoreInv
<1>4. NoLostWakeup'
  <2> SUFFICES ASSUME NEW x \in Obj PROVE
               /\ count'[x] > 0 => blk_list'[x] = << >>
               /\ ~obj_type'[x] /\ crit' # [op |-> "sem_del", obj |-> x] => blk_list'[x] = << >>
    BY DEF NoLostWakeup
  <2>1. /\ count[x] > 0 => blk_list[x] = << >>
        /\ ~obj_type[x] => blk_list[x] = << >>
    BY <1>1 DEF SemInv, NoLostWakeup, NoCrit
  <2> QED
    BY <1>1, <2>1 DEF SemInv, TypeOK, queueVars
<1> QED
  BY <1>1, <1>2, <1>3, <1>4 DEF SemInv, LoopCallerOK, cpuVars, callVars

\* A unit is counted only where nobody waits.
LEMMA CountInc ==
  ASSUME SemInv, NEW s \in Obj, obj_type[s], blk_list[s] = << >>, sem_count_inc(s),
         UNCHANGED <<coreVars, obj_type>>
  PROVE  SemInv'
<1>1. /\ count[s] < SemMax /\ count' = [count EXCEPT ![s] = count[s] + 1] /\ obj_type' = obj_type
      /\ UNCHANGED coreVars
  BY DEF sem_count_inc
<1>2. /\ CoreInv' /\ crit' = crit /\ isr' = isr /\ pc' = pc /\ g_active_task' = g_active_task
      /\ blk_list' = blk_list
  BY <1>1, CoreKept DEF SemInv
<1>3. TypeOK'
  <2>1. count[s] + 1 \in 0 .. SemMax
    BY <1>1, SemAssumption DEF SemInv, TypeOK
  <2> QED
    BY <1>1, <1>2, <2>1 DEF SemInv, TypeOK, CoreInv
<1>4. NoLostWakeup'
  BY <1>1, <1>2 DEF SemInv, TypeOK, NoLostWakeup
<1> QED
  BY <1>2, <1>3, <1>4 DEF SemInv, LoopCallerOK

\* krhino_sem_give_all counts a unit or enters its loop.
LEMMA krhino_sem_give_all_Sem ==
  ASSUME SemInv, NEW s \in Obj, krhino_sem_give_all(s) PROVE SemInv'
<1>1. /\ crit = NoCrit /\ obj_type[s] /\ (isr = "none" => pc[g_active_task] = "user")
      /\ UNCHANGED <<tcbVars, rrVars, queueVars, g_tick_count, cpuVars, callVars, obj_type>>
  BY DEF krhino_sem_give_all, AnyCall, TaskCall, IntrptCall
<1>2. CASE blk_list[s] = << >> /\ sem_count_inc(s) /\ crit' = crit
  BY <1>1, <1>2, CountInc DEF coreVars
<1>3. CASE blk_list[s] # << >> /\ crit' = [op |-> "sem_give_all", obj |-> s] /\ count' = count
  <2>1. CoreInv'
    BY <1>1, <1>3, EnterLoop DEF SemInv, NoCrit
  <2>2. TypeOK'
    BY <1>1, <1>3, <2>1 DEF SemInv, TypeOK, CoreInv
  <2>3. NoLostWakeup'
    BY <1>1, <1>3 DEF SemInv, NoLostWakeup, NoCrit, queueVars
  <2> QED
    BY <1>1, <1>3, <2>1, <2>2, <2>3 DEF SemInv, LoopCallerOK, cpuVars, callVars
<1> QED
  BY <1>2, <1>3 DEF krhino_sem_give_all

\* krhino_sem_give counts a unit or hands it to the first waiter.
LEMMA krhino_sem_give_Sem ==
  ASSUME SemInv, NEW s \in Obj, krhino_sem_give(s) PROVE SemInv'
<1>1. /\ crit = NoCrit /\ obj_type[s] /\ (isr = "none" => pc[g_active_task] = "user")
      /\ UNCHANGED <<rrVars, g_tick_count, cpuVars, crit, obj_type>>
  BY DEF krhino_sem_give, AnyCall, TaskCall, IntrptCall
<1>2. CASE blk_list[s] = << >> /\ sem_count_inc(s) /\ UNCHANGED <<tcbVars, queueVars, callVars>>
  BY <1>1, <1>2, CountInc DEF coreVars
<1>3. CASE /\ blk_list[s] # << >> /\ pend_task_wakeup(Head(blk_list[s]))
           /\ RHINO_CRITICAL_EXIT_SCHED /\ UNCHANGED <<prio, suspend_count, count>>
  <2> DEFINE t == Head(blk_list[s])
  <2>0. blk_list[s] \in Seq(Task)
    BY DEF SemInv, CoreInv, CoreTypeOK
  <2>1. t \in Task
    BY <1>3, <2>0
  <2>2. unpend(t) /\ blk_state' = [blk_state EXCEPT ![t] = "BLK_FINISH"]
    BY <1>3 DEF pend_task_wakeup
  <2> HIDE DEF t
  <2>3. /\ ListInv'
        /\ task_state' \in [Task -> TaskState] /\ blk_obj' \in [Task -> Obj \cup {NoObj}]
        /\ tick_match' \in [Task -> 0 .. TickMod - 1] /\ g_tick_head' \in Seq(Task)
        /\ blk_list' \in [Obj -> Seq(Task)] /\ g_ready_queue' \in QueueType
        /\ task_state[t] # "K_RDY" /\ \A u \in Task \ {t} : task_state'[u] = task_state[u]
        /\ \A o \in Obj : ToSet(blk_list'[o]) = ToSet(blk_list[o]) \ {t}
    BY <1>3, <2>1, <2>2, Unpend DEF SemInv, CoreInv
  <2>4. g_sched_lock > 0 => task_state'[g_active_task] = task_state[g_active_task]
    BY <2>3 DEF SemInv, CoreInv, CoreTypeOK, CallInv, LockHolderReady
  <2>5. /\ CallInv' /\ arg' = arg
        /\ pc' \in [Task -> {"user", "sched", "pend_sched", "pend_end", "pri_change"}]
    BY <1>1, <1>3, <2>4, SchedOwed DEF SemInv, CoreInv
  <2>6. CoreTypeOK'
    BY <1>1, <1>3, <2>1, <2>2, <2>3, <2>5
       DEF SemInv, CoreInv, CoreTypeOK, QueueType, BlkState, rrVars, cpuVars
  <2>7. ASSUME NEW o \in Obj, blk_list[o] = << >> PROVE blk_list'[o] = << >>
    <3>1. blk_list[o] \in Seq(Task) /\ blk_list'[o] \in Seq(Task)
      BY <2>3 DEF SemInv, CoreInv, CoreTypeOK
    <3>2. ToSet(blk_list'[o]) = {}
      BY <2>3, <2>7, <3>1, NoElements
    <3> QED
      BY <3>1, <3>2, NoElements
  <2>8. NoLostWakeup'
    BY <1>1, <1>3, <2>7 DEF SemInv, NoLostWakeup
  <2>9. TypeOK'
    BY <1>1, <1>3, <2>6 DEF SemInv, TypeOK
  <2> QED
    BY <1>1, <2>3, <2>5, <2>6, <2>8, <2>9 DEF SemInv, CoreInv, LoopCallerOK, NoCrit
<1> QED
  BY <1>2, <1>3 DEF krhino_sem_give

\* krhino_sem_take takes a unit, or waits where there is none.
LEMMA krhino_sem_take_Sem ==
  ASSUME SemInv, NEW s \in Obj, NEW ticks \in 0 .. TickMod - 1, krhino_sem_take(s, ticks)
  PROVE  SemInv'
<1>1. /\ TaskCall("sem_take") /\ obj_type[s] /\ crit = NoCrit
      /\ UNCHANGED <<rrVars, g_tick_count, cpuVars, crit, obj_type>>
  BY DEF krhino_sem_take, TaskCall
<1>2. CASE /\ count[s] > 0 /\ count' = [count EXCEPT ![s] = count[s] - 1]
           /\ UNCHANGED <<tcbVars, queueVars, callVars>>
  <2>1. /\ CoreInv' /\ crit' = crit /\ isr' = isr /\ pc' = pc /\ g_active_task' = g_active_task
        /\ blk_list' = blk_list
    BY <1>1, <1>2, CoreKept DEF SemInv, coreVars
  <2>2. count[s] - 1 \in 0 .. SemMax
    BY <1>2, SemAssumption DEF SemInv, TypeOK
  <2>3. TypeOK'
    BY <1>1, <1>2, <2>1, <2>2 DEF SemInv, TypeOK, CoreInv
  <2>4. NoLostWakeup'
    BY <1>1, <1>2, <2>1 DEF SemInv, TypeOK, NoLostWakeup
  <2> QED
    BY <2>1, <2>3, <2>4 DEF SemInv, LoopCallerOK
<1>3. CASE /\ count[s] = 0 /\ MayStop(g_active_task) /\ pend_to_blk_obj(s, g_active_task, ticks)
           /\ PendExitSched(g_active_task, s) /\ UNCHANGED <<prio, suspend_count, blk_state, count>>
  <2> DEFINE t == g_active_task
  <2>1. t \in Task \ {Idle} /\ task_state[t] = "K_RDY" /\ g_sched_lock = 0
    <3>1. t \in Task \ {Idle} /\ isr = "none" /\ crit = NoCrit /\ pc[t] = "user"
      BY <1>1 DEF TaskCall, SemInv, CoreInv, CoreTypeOK
    <3> QED
      BY <1>3, <3>1 DEF MayStop, SemInv, CoreInv, CallInv, RunsOnlyReady
  <2>2. /\ ListInv'
        /\ task_state' \in [Task -> TaskState] /\ blk_obj' \in [Task -> Obj \cup {NoObj}]
        /\ tick_match' \in [Task -> 0 .. TickMod - 1] /\ g_tick_head' \in Seq(Task)
        /\ blk_list' \in [Obj -> Seq(Task)] /\ g_ready_queue' \in QueueType
        /\ \A x \in Obj \ {s} : blk_list'[x] = blk_list[x]
    BY <1>3, <2>1, PendTo DEF SemInv, CoreInv
  <2>3. pc' = [pc EXCEPT ![t] = "pend_sched"] /\ arg' = [arg EXCEPT ![t] = s]
    BY <1>3 DEF PendExitSched
  <2>4. CoreTypeOK'
    BY <1>1, <1>3, <2>1, <2>2, <2>3 DEF SemInv, CoreInv, CoreTypeOK, QueueType, rrVars, cpuVars
  <2>5. CallInv'
    BY <1>1, <2>1, <2>3 DEF SemInv, CoreInv, CoreTypeOK, CallInv, RunsOnlyReady, LockHolderReady,
       PriArgOK, cpuVars
  <2>6. TypeOK'
    BY <1>1, <1>3, <2>4 DEF SemInv, TypeOK
  <2>7. NoLostWakeup'
    <3> SUFFICES ASSUME NEW x \in Obj PROVE
                 /\ count'[x] > 0 => blk_list'[x] = << >>
                 /\ ~obj_type'[x] /\ crit' # [op |-> "sem_del", obj |-> x] => blk_list'[x] = << >>
      BY DEF NoLostWakeup
    <3>1. CASE x = s
      BY <1>1, <1>3, <3>1
    <3>2. CASE x # s
      BY <1>1, <1>3, <2>2, <3>2 DEF SemInv, NoLostWakeup
    <3> QED
      BY <3>1, <3>2
  <2> QED
    BY <1>1, <2>2, <2>4, <2>5, <2>6, <2>7 DEF SemInv, CoreInv, LoopCallerOK, NoCrit
<1> QED
  BY <1>2, <1>3 DEF krhino_sem_take
-----------------------------------------------------------------------------
(***************************************************************************)
(* The theorems.                                                           *)
(***************************************************************************)
\* Every step keeps the invariant.
LEMMA Next_Sem ==
  ASSUME SemInv, Next PROVE SemInv'
<1>1. CASE CoreStep
  <2>1. ASSUME NEW t \in Task, tick_pend_timeout(t), UNCHANGED <<crit, semVars>> PROVE SemInv'
    <3>1. /\ crit.op = "tick" /\ unpend(t) /\ blk_state' = [blk_state EXCEPT ![t] = "BLK_TIMEOUT"]
          /\ UNCHANGED <<prio, suspend_count, rrVars, g_tick_count, cpuVars, callVars>>
      BY <2>1 DEF tick_pend_timeout
    <3>2. "BLK_TIMEOUT" \in BlkState
      BY DEF BlkState
    <3> QED
      BY <2>1, <3>1, <3>2, LoopTurn
  <2> QED
    BY <1>1, <2>1, CoreStep_Sem DEF CoreStep
<1>2. CASE SemLoop
  <2>1. "BLK_FINISH" \in BlkState /\ "BLK_DEL" \in BlkState
    BY DEF BlkState
  <2>2. ASSUME NEW t \in Task, sem_del_turn(t) PROVE SemInv'
    BY <2>1, <2>2, LoopTurn DEF sem_del_turn, pend_task_rm
  <2>3. ASSUME NEW t \in Task, sem_give_all_turn(t) PROVE SemInv'
    BY <2>1, <2>3, LoopTurn DEF sem_give_all_turn, pend_task_wakeup
  <2> QED
    BY <1>2, <2>2, <2>3, sem_loop_done_Sem DEF SemLoop
<1>3. ASSUME NEW s \in Obj, SemService(s) PROVE SemInv'
  <2>1. \A ticks \in Ticks \cup {WaitForever} : ticks \in 0 .. TickMod - 1
    BY TickAssumption
  <2> QED
    BY <1>3, <2>1, krhino_sem_create_Sem, krhino_sem_count_set_Sem, krhino_sem_del_Sem,
       krhino_sem_give_Sem, krhino_sem_give_all_Sem, krhino_sem_take_Sem DEF SemService
<1> QED
  BY <1>1, <1>2, <1>3 DEF Next

\* SemInv is an invariant of the kernel with semaphores.
THEOREM SemInvariant == Spec => []SemInv
<1>1. SemInit => SemInv
  <2> SUFFICES ASSUME SemInit PROVE SemInv
    OBVIOUS
  <2>1. CoreInv
    BY CoreInit_Inv DEF SemInit
  <2>2. TypeOK
    BY <2>1, SemAssumption DEF SemInit, CoreInit, CoreInv, TypeOK, NoCrit
  <2>3. NoLostWakeup
    BY DEF SemInit, CoreInit, NoLostWakeup
  <2>4. LoopCallerOK
    BY DEF LoopCallerOK, SemInit, CoreInit, NoCrit
  <2> QED
    BY <2>1, <2>2, <2>3, <2>4 DEF SemInv
<1>2. SemInv /\ [Next]_vars => SemInv'
  <2>1. ASSUME SemInv, UNCHANGED vars PROVE SemInv'
    <3>1. UNCHANGED coreVars /\ obj_type' = obj_type /\ count' = count
      BY <2>1 DEF vars, semVars
    <3>2. /\ CoreInv' /\ crit' = crit /\ isr' = isr /\ pc' = pc /\ g_active_task' = g_active_task
          /\ blk_list' = blk_list
      BY <2>1, <3>1, CoreKept DEF SemInv
    <3> QED
      BY <2>1, <3>1, <3>2 DEF SemInv, TypeOK, CoreInv, NoLostWakeup, LoopCallerOK
  <2> QED
    BY <2>1, Next_Sem
<1> QED
  BY <1>1, <1>2, PTL DEF Spec

\* Type correctness: no count passes SemMax, whoever gives, and none goes below 0.
THEOREM SemTypeCorrect == Spec => []TypeOK
<1>1. SemInv => TypeOK
  BY DEF SemInv
<1> QED
  BY <1>1, SemInvariant, PTL

\* No wake-up is lost: a semaphore never has units and waiters at the same time,
\* and a deleted one has no waiters once krhino_sem_del has left its loop.
THEOREM NoWakeupLost == Spec => []NoLostWakeup
<1>1. SemInv => NoLostWakeup
  BY DEF SemInv
<1> QED
  BY <1>1, SemInvariant, PTL

\* A task is on the waiter list of an object, once, exactly while it is blocked
\* on it: the fatal branches of pend_task_wakeup and pend_task_rm are dead code.
THEOREM WaitListsCorrect == Spec => []WaitListsOK
<1>1. SemInv => WaitListsOK
  BY DEF SemInv, CoreInv, ListInv
<1> QED
  BY <1>1, SemInvariant, PTL

\* No task runs on, or returns from a blocking call, before it has been woken.
THEOREM OnlyReadyRuns == Spec => []RunsOnlyReady
<1>1. SemInv => RunsOnlyReady
  BY DEF SemInv, CoreInv, CallInv
<1> QED
  BY <1>1, SemInvariant, PTL
-----------------------------------------------------------------------------
(***************************************************************************)
(* The refinement of AbstractSem.                                          *)
(***************************************************************************)
\* The loops: krhino_sem_give_all's semaphore exists, krhino_sem_del's does no more.
LoopObjOK ==
  /\ crit.op = "sem_give_all" => obj_type[crit.obj]
  /\ crit.op = "sem_del" => ~obj_type[crit.obj]

RefInv == SemInv /\ CallOK /\ LoopObjOK

\* The variables of AbstractSem.
SemAlive == {s \in Obj : obj_type[s]}
SemWait  == [t \in Task |-> WaitOf(t)]

LEMMA WaitsKept ==
  ASSUME \A u \in Task : WaitOf(u)' = WaitOf(u) PROVE SemWait' = SemWait
  BY DEF SemWait

LEMMA WaitMoves ==
  ASSUME NEW t \in Task, NEW x, WaitOf(t)' = x, \A u \in Task \ {t} : WaitOf(u)' = WaitOf(u)
  PROVE  SemWait[t] = WaitOf(t) /\ SemWait' = [SemWait EXCEPT ![t] = x]
  BY DEF SemWait

\* One wait moves on, and no unit does.
LEMMA MoveStep ==
  ASSUME NEW t \in Task, NEW x, WaitOf(t)' = x, \A u \in Task \ {t} : WaitOf(u)' = WaitOf(u),
         UNCHANGED semVars
  PROVE  Abstract!Move(t, WaitOf(t), x)
<1>1. SemWait[t] = WaitOf(t) /\ SemWait' = [SemWait EXCEPT ![t] = x]
  BY WaitMoves
<1> QED
  BY <1>1 DEF Abstract!Move, SemWait, semVars

\* The core's own steps are deletions, creations and returns, or are not seen.
LEMMA CoreStep_Ref ==
  ASSUME RefInv, CoreNext, UNCHANGED semVars
  PROVE  CallOK' /\ LoopObjOK' /\ [Abstract!Next]_(Abstract!vars)
<1>1. CallOK' /\ (CoreMove \/ \E t \in Task : Returning(t))
  BY CoreNext_Call DEF RefInv, SemInv
<1>2. LoopObjOK'
  <2>1. crit' \in {crit, NoCrit, ErrCrit, [op |-> "tick", obj |-> NoObj]}
    BY CoreNoWaiter DEF RefInv, SemInv
  <2> QED
    BY <2>1 DEF RefInv, LoopObjOK, NoCrit, ErrCrit, semVars
<1>3. CASE \A u \in Task : WaitOf(u)' = WaitOf(u)
  <2>1. SemWait' = SemWait
    BY <1>3, WaitsKept
  <2> QED
    BY <1>1, <1>2, <2>1 DEF Abstract!vars, SemWait, semVars
<1>4. ASSUME NEW t \in Task, \A u \in Task \ {t} : WaitOf(u)' = WaitOf(u),
             WaitOf(t) # <<"dead">>, WaitOf(t)' = <<"dead">>
      PROVE  Abstract!Kill(t)
  <2>1. Abstract!Move(t, WaitOf(t), <<"dead">>)
    BY <1>4, MoveStep
  <2> QED
    BY <1>4, <2>1 DEF Abstract!Kill, Abstract!Dead
<1>5. ASSUME NEW t \in Task, \A u \in Task \ {t} : WaitOf(u)' = WaitOf(u),
             WaitOf(t) = <<"dead">>, WaitOf(t)' = <<"out">>
      PROVE  Abstract!Revive(t)
  <2>1. Abstract!Move(t, WaitOf(t), <<"out">>)
    BY <1>5, MoveStep
  <2> QED
    BY <1>5, <2>1 DEF Abstract!Revive, Abstract!Dead, Abstract!Out
<1>6. ASSUME NEW t \in Task, \A u \in Task \ {t} : WaitOf(u)' = WaitOf(u), WaitOf(t)' = <<"out">>,
             NEW s \in Obj, NEW how \in Ends, WaitOf(t) = <<how, s>>
      PROVE  Abstract!Return(t, s)
  <2>1. Abstract!Move(t, <<how, s>>, <<"out">>)
    BY <1>6, MoveStep
  <2> QED
    BY <2>1 DEF Abstract!Return, Abstract!Out, Ends
<1>7. CASE CoreMove
  BY <1>1, <1>2, <1>3, <1>4, <1>5, <1>7 DEF CoreMove, Abstract!Next
<1>8. ASSUME NEW t \in Task, Returning(t) PROVE [Abstract!Next]_(Abstract!vars)
  <2>1. CASE arg[t] \notin Obj
    BY <1>3, <1>8, <2>1 DEF Returning
  <2>2. CASE arg[t] \in Obj
    BY <1>6, <1>8, <2>2 DEF Returning, Abstract!Next
  <2> QED
    BY <2>1, <2>2
<1> QED
  BY <1>1, <1>2, <1>7, <1>8

\* A turn of a loop, or a give with a waiter: one wait ends, for the reason the step gives.
LEMMA Wakes_Ref ==
  ASSUME RefInv, NEW t \in Task, unpend(t), NEW b \in BlkState, blk_state' = [blk_state EXCEPT ![t] = b],
         \A u \in Task : CallKept(u), UNCHANGED semVars,
         b = "BLK_DEL" <=> ~obj_type[blk_obj[t]]
  PROVE  CallOK' /\ Abstract!Next
<1>1. CoreInv /\ CallOK
  BY DEF RefInv, SemInv
<1>2. PICK s \in Obj : s = blk_obj[t]
  BY <1>1, Wakes
<1>3. /\ CallOK' /\ \A u \in Task \ {t} : WaitOf(u)' = WaitOf(u)
      /\ WaitOf(t) = <<"waiting", s>>
      /\ b = "BLK_FINISH"  => WaitOf(t)' = <<"granted", s>>
      /\ b = "BLK_TIMEOUT" => WaitOf(t)' = <<"expired", s>>
      /\ b = "BLK_DEL"     => WaitOf(t)' = <<"cancelled", s>>
  BY <1>1, <1>2, Wakes
<1>4. CASE b = "BLK_FINISH"
  <2>1. Abstract!Move(t, <<"waiting", s>>, <<"granted", s>>)
    BY <1>3, <1>4, MoveStep
  <2>2. Abstract!Grant(t, s)
    BY <1>2, <1>4, <2>1 DEF Abstract!Grant
  <2> QED
    BY <1>3, <2>2 DEF Abstract!Next
<1>5. CASE b = "BLK_TIMEOUT"
  <2>1. Abstract!Move(t, <<"waiting", s>>, <<"expired", s>>)
    BY <1>3, <1>5, MoveStep
  <2>2. Abstract!Expire(t, s)
    BY <1>2, <1>5, <2>1 DEF Abstract!Expire
  <2> QED
    BY <1>3, <2>2 DEF Abstract!Next
<1>6. CASE b = "BLK_DEL"
  <2>1. Abstract!Move(t, <<"waiting", s>>, <<"cancelled", s>>)
    BY <1>3, <1>6, MoveStep
  <2>2. Abstract!Cancel(t, s)
    BY <1>2, <1>6, <2>1 DEF Abstract!Cancel
  <2> QED
    BY <1>3, <2>2 DEF Abstract!Next
<1> QED
  BY <1>4, <1>5, <1>6 DEF BlkState

\* A task that waits for an object is found on its list, and no other object's.
LEMMA FirstWaiter ==
  ASSUME RefInv, NEW o \in Obj, blk_list[o] # << >>
  PROVE  Head(blk_list[o]) \in Task /\ blk_obj[Head(blk_list[o])] = o
<1>1. blk_list[o] \in Seq(Task) /\ WaitListsOK
  BY DEF RefInv, SemInv, CoreInv, CoreTypeOK, ListInv
<1>2. 1 \in 1 .. Len(blk_list[o]) /\ Head(blk_list[o]) = blk_list[o][1]
  BY <1>1
<1>3. Head(blk_list[o]) \in ToSet(blk_list[o]) /\ Head(blk_list[o]) \in Task
  BY <1>1, <1>2, ToSetByIndex
<1> QED
  BY <1>1, <1>3 DEF WaitListsOK

LEMMA NoWaiters ==
  ASSUME RefInv, NEW o \in Obj, blk_list[o] = << >> PROVE Abstract!Waiting(o) = {}
<1>1. CoreTypeOK /\ WaitListsOK /\ BlkObjOK /\ CallOK
  BY DEF RefInv, SemInv, CoreInv, ListInv
<1>2. ASSUME NEW t \in Task, WaitOf(t) = <<"waiting", o>> PROVE FALSE
  <2>1. task_state[t] # "K_DELETED" /\ ~Free(t) /\ blk_obj[t] # NoObj /\ arg[t] = o
    BY <1>1, <1>2, WaitValues DEF Ends
  <2>2. task_state[t] \in PendStates
    BY <1>1, <2>1 DEF CoreTypeOK, TaskState, BlkObjOK, CallOK, CallOf, Free, PendStates, SleepStates
  <2>3. t \in ToSet(blk_list[o])
    BY <1>1, <2>1, <2>2 DEF WaitListsOK, CallOK, CallOf
  <2>4. blk_list[o] \in Seq(Task)
    BY <1>1 DEF CoreTypeOK
  <2> QED
    BY <2>3, <2>4, NoElements
<1> QED
  BY <1>2 DEF Abstract!Waiting

LEMMA SemLoop_Ref ==
  ASSUME RefInv, SemLoop PROVE CallOK' /\ LoopObjOK' /\ [Abstract!Next]_(Abstract!vars)
<1>1. CallOK /\ LoopObjOK /\ CoreTypeOK
  BY DEF RefInv, SemInv, CoreInv
<1>2. ASSUME NEW t \in Task, sem_del_turn(t) \/ sem_give_all_turn(t)
      PROVE  CallOK' /\ LoopObjOK' /\ Abstract!Next
  <2>1. PICK o \in Obj : o = crit.obj
    BY <1>2 DEF sem_del_turn, sem_give_all_turn, RefInv, SemInv, TypeOK
  <2>2. /\ UNCHANGED <<callVars, crit, semVars>> /\ unpend(t)
        /\ blk_list[o] # << >> /\ t = Head(blk_list[o])
        /\ \/ crit.op = "sem_del" /\ blk_state' = [blk_state EXCEPT ![t] = "BLK_DEL"]
           \/ crit.op = "sem_give_all" /\ blk_state' = [blk_state EXCEPT ![t] = "BLK_FINISH"]
    BY <1>2, <2>1 DEF sem_del_turn, sem_give_all_turn, pend_task_rm, pend_task_wakeup
  <2>3. blk_obj[t] = o
    BY <2>2, FirstWaiter
  <2>4. \A u \in Task : CallKept(u)
    BY <2>2 DEF callVars, CallKept
  <2>5. LoopObjOK'
    BY <1>1, <2>2 DEF LoopObjOK, semVars
  <2>6. CASE crit.op = "sem_del"
    <3>1. "BLK_DEL" \in BlkState /\ ~obj_type[o] /\ blk_state' = [blk_state EXCEPT ![t] = "BLK_DEL"]
      BY <1>1, <2>1, <2>2, <2>6 DEF BlkState, LoopObjOK
    <3> QED
      BY <2>2, <2>3, <2>4, <2>5, <3>1, Wakes_Ref
  <2>7. CASE crit.op = "sem_give_all"
    <3>1. "BLK_FINISH" \in BlkState /\ obj_type[o] /\ blk_state' = [blk_state EXCEPT ![t] = "BLK_FINISH"]
      BY <1>1, <2>1, <2>2, <2>7 DEF BlkState, LoopObjOK
    <3> QED
      BY <2>2, <2>3, <2>4, <2>5, <3>1, Wakes_Ref
  <2> QED
    BY <2>2, <2>6, <2>7
<1>3. CASE sem_loop_done
  <2>1. /\ crit.op \in {"sem_del", "sem_give_all"} /\ crit' = NoCrit /\ RHINO_CRITICAL_EXIT_SCHED
        /\ UNCHANGED <<tcbVars, semVars>>
    BY <1>3 DEF sem_loop_done
  <2>2. isr = "none" => pc[g_active_task] \notin Pending
    BY <2>1 DEF RefInv, SemInv, LoopCallerOK, Pending
  <2>3. \A u \in Task : CallKept(u) /\ StateKept(u)
    BY <1>1, <2>1, <2>2, ExitKeeps DEF StateKept, tcbVars
  <2>4. \A u \in Task : CallOf(u)' /\ WaitOf(u)' = WaitOf(u)
    BY <1>1, <2>1, <2>3, Stays DEF CallOK, tcbVars
  <2>5. SemWait' = SemWait
    BY <2>4, WaitsKept
  <2>6. LoopObjOK'
    BY <2>1 DEF LoopObjOK, NoCrit
  <2> QED
    BY <2>1, <2>4, <2>5, <2>6 DEF CallOK, Abstract!vars, SemWait, semVars
<1> QED
  BY <1>2, <1>3 DEF SemLoop

\* The services that wake nobody and do not block: no wait changes.
LEMMA ServiceStays ==
  ASSUME RefInv, UNCHANGED <<tcbVars, callVars>>
  PROVE  CallOK' /\ SemWait' = SemWait
<1>1. \A u \in Task : CallKept(u) /\ StateKept(u)
  BY DEF CallKept, StateKept, tcbVars, callVars
<1>2. \A u \in Task : CallOf(u)' /\ WaitOf(u)' = WaitOf(u)
  BY <1>1, Stays DEF RefInv, CallOK, tcbVars
<1> QED
  BY <1>2, WaitsKept DEF CallOK

LEMMA Count_Ref ==
  ASSUME RefInv, NEW s \in Obj,
         krhino_sem_del(s) \/ \E n \in SemCounts : krhino_sem_create(s, n) \/ krhino_sem_count_set(s, n)
  PROVE  CallOK' /\ LoopObjOK' /\ Abstract!Next
<1>1. UNCHANGED <<tcbVars, callVars>> /\ crit = NoCrit
  BY DEF krhino_sem_del, krhino_sem_create, krhino_sem_count_set, TaskCall, coreVars
<1>2. CallOK' /\ SemWait' = SemWait
  BY <1>1, ServiceStays
<1>3. obj_type \in [Obj -> BOOLEAN] /\ count \in [Obj -> 0 .. SemMax]
  BY DEF RefInv, SemInv, TypeOK
<1>4. ASSUME NEW n \in SemCounts, krhino_sem_create(s, n) PROVE LoopObjOK' /\ Abstract!Next
  <2>1. /\ ~obj_type[s] /\ count' = [count EXCEPT ![s] = n] /\ obj_type' = [obj_type EXCEPT ![s] = TRUE]
        /\ crit' = NoCrit
    BY <1>1, <1>4 DEF krhino_sem_create
  <2>2. blk_list[s] = << >>
    BY <1>1, <2>1 DEF RefInv, SemInv, NoLostWakeup, NoCrit
  <2>3. SemAlive' = SemAlive \cup {s} /\ s \notin SemAlive
    BY <1>3, <2>1 DEF SemAlive
  <2>4. Abstract!Create(s)
    BY <1>2, <2>1, <2>2, <2>3, NoWaiters DEF Abstract!Create, SemAlive, SemWait
  <2> QED
    BY <2>1, <2>4 DEF Abstract!Next, LoopObjOK, NoCrit
<1>5. ASSUME NEW n \in SemCounts, krhino_sem_count_set(s, n) PROVE LoopObjOK' /\ Abstract!Next
  <2>1. /\ obj_type[s] /\ count' = [count EXCEPT ![s] = n] /\ obj_type' = obj_type /\ crit' = NoCrit
        /\ count[s] > 0 \/ blk_list[s] = << >>
    BY <1>1, <1>5 DEF krhino_sem_count_set, coreVars
  <2>2. blk_list[s] = << >>
    BY <2>1 DEF RefInv, SemInv, NoLostWakeup
  <2>3. Abstract!SetCount(s)
    BY <1>2, <2>1, <2>2, NoWaiters DEF Abstract!SetCount, SemWait
  <2> QED
    BY <2>1, <2>3 DEF Abstract!Next, LoopObjOK, NoCrit
<1>6. CASE krhino_sem_del(s)
  <2>1. /\ obj_type[s] /\ count' = count /\ obj_type' = [obj_type EXCEPT ![s] = FALSE]
        /\ crit' = [op |-> "sem_del", obj |-> s]
    BY <1>6 DEF krhino_sem_del
  <2>2. SemAlive' = SemAlive \ {s} /\ s \in SemAlive
    BY <1>3, <2>1 DEF SemAlive
  <2>3. Abstract!Delete(s)
    BY <1>2, <2>1, <2>2 DEF Abstract!Delete, SemAlive, SemWait
  <2> QED
    <3>1. crit'.op = "sem_del" /\ crit'.obj = s /\ ~obj_type'[s]
      BY <1>3, <2>1
    <3>2. LoopObjOK'
      BY <3>1 DEF LoopObjOK
    <3> QED
      BY <1>2, <2>3, <3>2 DEF Abstract!Next
<1> QED
  BY <1>2, <1>4, <1>5, <1>6

\* A unit that is counted.
LEMMA CountInc_Ref ==
  ASSUME RefInv, NEW s \in Obj, obj_type[s], blk_list[s] = << >>, sem_count_inc(s),
         UNCHANGED <<tcbVars, callVars, crit, obj_type>>
  PROVE  CallOK' /\ LoopObjOK' /\ Abstract!Next
<1>1. CallOK' /\ SemWait' = SemWait
  BY ServiceStays
<1>2. Abstract!Give(s)
  BY <1>1, NoWaiters DEF sem_count_inc, Abstract!Give, SemWait
<1> QED
  BY <1>1, <1>2 DEF Abstract!Next, RefInv, LoopObjOK

LEMMA Give_Ref ==
  ASSUME RefInv, NEW s \in Obj, krhino_sem_give(s) \/ krhino_sem_give_all(s)
  PROVE  CallOK' /\ LoopObjOK' /\ [Abstract!Next]_(Abstract!vars)
<1>1. /\ obj_type[s] /\ obj_type' = obj_type /\ crit = NoCrit
      /\ isr = "none" => pc[g_active_task] \notin Pending
  BY DEF krhino_sem_give, krhino_sem_give_all, AnyCall, TaskCall, IntrptCall, Pending
<1>2. CASE blk_list[s] = << >>
  BY <1>1, <1>2, CountInc_Ref DEF krhino_sem_give, krhino_sem_give_all
<1>3. CASE blk_list[s] # << >> /\ krhino_sem_give_all(s)
  <2>1. crit' = [op |-> "sem_give_all", obj |-> s] /\ UNCHANGED <<tcbVars, callVars, semVars>>
    BY <1>3 DEF krhino_sem_give_all, semVars
  <2>2. CallOK' /\ SemWait' = SemWait
    BY <2>1, ServiceStays
  <2> QED
    BY <1>1, <2>1, <2>2 DEF LoopObjOK, Abstract!vars, SemWait, semVars
<1>4. CASE blk_list[s] # << >> /\ krhino_sem_give(s)
  <2>1. PICK t : t = Head(blk_list[s])
    OBVIOUS
  <2>2. t \in Task /\ blk_obj[t] = s
    BY <1>4, <2>1, FirstWaiter
  <2>3. /\ unpend(t) /\ blk_state' = [blk_state EXCEPT ![t] = "BLK_FINISH"]
        /\ RHINO_CRITICAL_EXIT_SCHED /\ UNCHANGED <<semVars, crit>>
    BY <1>4, <2>1 DEF krhino_sem_give, pend_task_wakeup, semVars
  <2>4. \A u \in Task : CallKept(u)
    BY <1>1, <2>3, ExitKeeps DEF RefInv, SemInv, CoreInv
  <2>5. "BLK_FINISH" \in BlkState
    BY DEF BlkState
  <2>6. CallOK' /\ Abstract!Next
    BY <1>1, <2>2, <2>3, <2>4, <2>5, Wakes_Ref
  <2> QED
    BY <2>3, <2>6 DEF RefInv, LoopObjOK, semVars
<1> QED
  BY <1>2, <1>3, <1>4

LEMMA Take_Ref ==
  ASSUME RefInv, NEW s \in Obj, NEW ticks, krhino_sem_take(s, ticks)
  PROVE  CallOK' /\ LoopObjOK' /\ Abstract!Next
<1>1. /\ obj_type[s] /\ UNCHANGED <<crit, obj_type>> /\ g_active_task \in Task
      /\ isr = "none" /\ crit = NoCrit /\ pc[g_active_task] = "user"
      /\ CoreTypeOK
  BY DEF krhino_sem_take, TaskCall, RefInv, SemInv, CoreInv, CoreTypeOK
<1>2. LoopObjOK'
  BY <1>1 DEF LoopObjOK, RefInv
<1>3. CASE /\ count[s] > 0 /\ count' = [count EXCEPT ![s] = count[s] - 1]
           /\ UNCHANGED <<tcbVars, callVars>>
  <2>1. CallOK' /\ SemWait' = SemWait
    BY <1>3, ServiceStays
  <2>2. Abstract!Take(s)
    BY <1>1, <1>3, <2>1 DEF Abstract!Take, SemWait
  <2> QED
    BY <1>2, <2>1, <2>2 DEF Abstract!Next
<1>4. CASE /\ count[s] = 0 /\ pend_to_blk_obj(s, g_active_task, ticks)
           /\ PendExitSched(g_active_task, s) /\ UNCHANGED <<blk_state, count>>
  <2>1. PICK t \in Task : t = g_active_task
    BY <1>1
  <2>2. /\ pc[t] = "user" /\ task_state[t] = "K_RDY"
        /\ pc' = [pc EXCEPT ![t] = "pend_sched"] /\ arg' = [arg EXCEPT ![t] = s]
        /\ blk_obj' = [blk_obj EXCEPT ![t] = s] /\ task_state' = [task_state EXCEPT ![t] = "K_PEND"]
        /\ blk_state' = blk_state
    BY <1>1, <1>4, <2>1 DEF pend_to_blk_obj, PendExitSched, RefInv, SemInv, CoreInv, CallInv, RunsOnlyReady
  <2>3. \A u \in Task \ {t} : /\ CallKept(u) /\ StateKept(u)
                              /\ blk_obj'[u] = blk_obj[u] /\ blk_state'[u] = blk_state[u]
    BY <1>1, <2>2 DEF CallKept, StateKept, CoreTypeOK
  <2>4. \A u \in Task \ {t} : CallOf(u)' /\ WaitOf(u)' = WaitOf(u)
    BY <2>3, Stays DEF RefInv, CallOK
  <2>5. pc'[t] = "pend_sched" /\ arg'[t] = s /\ blk_obj'[t] = s /\ task_state'[t] = "K_PEND"
    BY <1>1, <2>2 DEF CoreTypeOK
  <2>6. CallOf(t)' /\ WaitOf(t)' = <<"waiting", s>> /\ WaitOf(t) = <<"out">>
    BY <2>2, <2>5, TaskAssumption DEF CallOf, WaitOf, Pending, PendStates, SleepStates
  <2>7. Abstract!Move(t, <<"out">>, <<"waiting", s>>)
    BY <1>1, <1>4, <2>4, <2>6, MoveStep DEF semVars
  <2>8. Abstract!Wait(t, s)
    BY <1>1, <1>4, <2>7 DEF Abstract!Wait, Abstract!Out
  <2> QED
    BY <1>2, <2>4, <2>6, <2>8 DEF CallOK, Abstract!Next
<1> QED
  BY <1>3, <1>4 DEF krhino_sem_take

\* A wait that times out is for a semaphore that exists.
LEMMA Timeout_Ref ==
  ASSUME RefInv, NEW t \in Task, tick_pend_timeout(t), UNCHANGED <<crit, semVars>>
  PROVE  CallOK' /\ LoopObjOK' /\ Abstract!Next
<1>1. /\ crit.op = "tick" /\ unpend(t) /\ blk_state' = [blk_state EXCEPT ![t] = "BLK_TIMEOUT"]
      /\ UNCHANGED callVars /\ "BLK_TIMEOUT" \in BlkState
  BY DEF tick_pend_timeout, BlkState
<1>2. \A u \in Task : CallKept(u)
  BY <1>1 DEF callVars, CallKept
<1>3. PICK o \in Obj : o = blk_obj[t] /\ t \in ToSet(blk_list[o])
  BY <1>1, <1>2, Wakes DEF RefInv, SemInv
<1>4. blk_list[o] # << >>
  BY <1>3, NoElements DEF RefInv, SemInv, CoreInv, CoreTypeOK
<1>5. obj_type[blk_obj[t]]
  BY <1>1, <1>3, <1>4 DEF RefInv, SemInv, NoLostWakeup
<1> QED
  BY <1>1, <1>2, <1>5, Wakes_Ref DEF RefInv, LoopObjOK, semVars

LEMMA Next_Ref ==
  RefInv /\ [Next]_vars => CallOK' /\ LoopObjOK' /\ [Abstract!Next]_(Abstract!vars)
<1> SUFFICES ASSUME RefInv, [Next]_vars
             PROVE  CallOK' /\ LoopObjOK' /\ [Abstract!Next]_(Abstract!vars)
  OBVIOUS
<1>1. CASE UNCHANGED vars
  <2>1. UNCHANGED <<tcbVars, callVars, crit, semVars>>
    BY <1>1 DEF vars, coreVars
  <2>2. CallOK' /\ SemWait' = SemWait
    BY <2>1, ServiceStays
  <2> QED
    BY <2>1, <2>2 DEF RefInv, LoopObjOK, Abstract!vars, SemWait, semVars
<1>2. CASE CoreStep
  BY <1>2, CoreStep_Ref, Timeout_Ref DEF CoreStep
<1>3. ASSUME NEW s \in Obj, SemService(s)
      PROVE  CallOK' /\ LoopObjOK' /\ [Abstract!Next]_(Abstract!vars)
  BY <1>3, Count_Ref, Give_Ref, Take_Ref DEF SemService
<1> QED
  BY <1>1, <1>2, <1>3, SemLoop_Ref DEF Next

LEMMA Init_Ref == SemInit => Abstract!Init /\ CallOK /\ LoopObjOK
<1> SUFFICES ASSUME SemInit PROVE Abstract!Init /\ CallOK /\ LoopObjOK
  OBVIOUS
<1>1. /\ \A t \in Task : task_state[t] \in {"K_RDY", "K_SEED"} /\ pc[t] = "user"
      /\ crit = NoCrit /\ obj_type = [s \in Obj |-> FALSE] /\ count = [s \in Obj |-> 0]
  BY DEF SemInit, CoreInit
<1>2. \A t \in Task : CallOf(t) /\ WaitOf(t) = <<"out">>
  BY <1>1 DEF CallOf, WaitOf, Pending, PendStates, SleepStates
<1>3. Abstract!Init
  BY <1>1, <1>2 DEF Abstract!Init, Abstract!Out
<1> QED
  BY <1>1, <1>2, <1>3 DEF CallOK, LoopObjOK, NoCrit

\* Semaphores keep the promise of AbstractSem: units are conserved, a wait ends once, for one
\* reason, and the call returns only then, however much later, and reports that reason.
THEOREM SemRefinement == Spec => ImplementsAbstractSem
<1>1. SemInv /\ CallOK /\ LoopObjOK /\ [Next]_vars =>
        CallOK' /\ LoopObjOK' /\ [Abstract!Next]_(Abstract!vars)
  BY Next_Ref DEF RefInv
<1> QED
  BY <1>1, Init_Ref, SemInvariant, PTL DEF Spec, ImplementsAbstractSem, Abstract!Spec
-----------------------------------------------------------------------------
(***************************************************************************)
(* The order of tasks, waiters and timeouts, with semaphores.              *)
(***************************************************************************)
LEMMA Loop_Order ==
  ASSUME SemInv, SemLoop \/ \E t \in Task : tick_pend_timeout(t) /\ UNCHANGED crit
  PROVE  RunsFirst' /\ (WaitOrder => WaitOrder') /\ (TickOrder => TickOrder')
<1> USE DEF cpuVars, queueVars, tcbVars
<1>1. CoreInv
  BY DEF SemInv
<1>2. ASSUME NEW t \in Task,
             sem_del_turn(t) \/ sem_give_all_turn(t) \/ (tick_pend_timeout(t) /\ UNCHANGED crit)
      PROVE  RunsFirst' /\ (WaitOrder => WaitOrder') /\ (TickOrder => TickOrder')
  <2>1. unpend(t) /\ UNCHANGED <<prio, g_tick_count, g_active_task, crit>> /\ crit # NoCrit
    BY <1>2 DEF sem_del_turn, sem_give_all_turn, tick_pend_timeout, pend_task_rm, pend_task_wakeup, NoCrit
  <2> QED
    BY <1>1, <2>1, OrderWake
<1>3. CASE sem_loop_done
  <2>1. /\ crit.op # "tick" /\ RHINO_CRITICAL_EXIT_SCHED
        /\ UNCHANGED <<tcbVars, queueVars, g_tick_count, cpuVars>>
    BY <1>3 DEF sem_loop_done
  <2>2. RunsFirst'
    BY <1>1, <2>1, ExitSched, Runs_Owed
  <2>3. WaitOrder => WaitOrder'
    BY <1>1, <2>1, WaitOrder_Same DEF CoreInv, ListInv
  <2>4. TickOrder => TickOrder'
    BY <1>1, <2>1, TickOrder_Same DEF CoreInv
  <2> QED
    BY <2>2, <2>3, <2>4
<1> QED
  BY <1>2, <1>3 DEF SemLoop

LEMMA Enter_Order ==
  ASSUME SemInv, NEW s \in Obj, krhino_sem_del(s) \/ krhino_sem_give_all(s)
  PROVE  (RunsFirst => RunsFirst') /\ (WaitOrder => WaitOrder') /\ (TickOrder => TickOrder')
<1>1. /\ CoreInv /\ crit = NoCrit
      /\ UNCHANGED <<tcbVars, queueVars, g_tick_count, cpuVars, callVars>>
  BY DEF SemInv, krhino_sem_del, krhino_sem_give_all, TaskCall, AnyCall, IntrptCall
<1> QED
  BY <1>1, OrderKept

LEMMA Create_Order ==
  ASSUME SemInv, NEW s \in Obj, NEW n \in SemCounts, krhino_sem_create(s, n) \/ krhino_sem_count_set(s, n)
  PROVE  (RunsFirst => RunsFirst') /\ (WaitOrder => WaitOrder') /\ (TickOrder => TickOrder')
<1>1. CASE krhino_sem_create(s, n)
  <2>1. /\ CoreInv /\ crit = NoCrit /\ ~obj_type[s] /\ blk_list' = [blk_list EXCEPT ![s] = << >>]
        /\ UNCHANGED <<tcbVars, g_ready_queue, g_tick_head, g_tick_count, cpuVars, callVars>>
    BY <1>1 DEF krhino_sem_create, TaskCall, SemInv
  <2>2. blk_list' = blk_list
    BY <2>1, ZenonT(40) DEF SemInv, NoLostWakeup, NoCrit, CoreInv, CoreTypeOK
  <2> QED
    BY <2>1, <2>2, OrderKept DEF queueVars
<1>2. CASE krhino_sem_count_set(s, n)
  BY <1>2, OrderKept DEF krhino_sem_count_set, TaskCall, SemInv, coreVars
<1> QED
  BY <1>1, <1>2

LEMMA Give_Order ==
  ASSUME SemInv, NEW s \in Obj, krhino_sem_give(s)
  PROVE  (RunsFirst => RunsFirst') /\ (WaitOrder => WaitOrder') /\ (TickOrder => TickOrder')
<1>1. CoreInv /\ crit = NoCrit /\ UNCHANGED <<g_tick_count, cpuVars, crit>>
  BY DEF SemInv, krhino_sem_give, AnyCall, TaskCall, IntrptCall
<1>2. CASE blk_list[s] = << >>
  BY <1>1, <1>2, OrderKept DEF krhino_sem_give
<1>3. CASE blk_list[s] # << >>
  <2>0. blk_list[s] \in Seq(Task)
    BY <1>1 DEF CoreInv, CoreTypeOK
  <2>1. PICK t \in Task : t = Head(blk_list[s])
    BY <1>3, <2>0
  <2>2. unpend(t) /\ RHINO_CRITICAL_EXIT_SCHED /\ UNCHANGED prio
    BY <1>3, <2>1 DEF krhino_sem_give, pend_task_wakeup
  <2> QED
    BY <1>1, <2>1, <2>2, ExitSched, OrderWake DEF cpuVars
<1> QED
  BY <1>2, <1>3

LEMMA Take_Order ==
  ASSUME SemInv, NEW s \in Obj, NEW ticks \in Ticks \cup {WaitForever}, krhino_sem_take(s, ticks)
  PROVE  /\ RunsFirst => RunsFirst'
         /\ WaitOrder => WaitOrder'
         /\ ShortTimeouts /\ TickOrder => TickOrder'
<1>1. /\ CoreInv /\ CoreTypeOK /\ crit = NoCrit /\ isr = "none" /\ pc[g_active_task] = "user"
      /\ UNCHANGED <<g_tick_count, cpuVars, crit>> /\ g_active_task \in Task
  BY DEF SemInv, CoreInv, CoreTypeOK, krhino_sem_take, TaskCall
<1>2. CASE UNCHANGED <<tcbVars, queueVars, callVars>>
  BY <1>1, <1>2, OrderKept
<1>3. CASE /\ ticks # 0 /\ pend_to_blk_obj(s, g_active_task, ticks)
           /\ PendExitSched(g_active_task, s) /\ UNCHANGED prio
  <2>1. RunsFirst'
    BY <1>1, <1>3, Runs_Owed DEF PendExitSched, CoreTypeOK, cpuVars
  <2>2. WaitOrder => WaitOrder'
    BY <1>1, <1>3, WaitOrder_Add DEF pend_to_blk_obj
  <2>3. ASSUME ShortTimeouts, TickOrder PROVE TickOrder'
    <3>1. CASE ticks = WaitForever
      BY <1>1, <1>3, <2>3, <3>1, TickOrder_Same DEF pend_to_blk_obj
    <3>2. CASE ticks # WaitForever
      <4>1. ticks \in 1 .. (TickMod \div 2) - 1
        BY <1>3, <2>3, <3>2, TickAssumption, TickRange DEF ShortTimeouts
      <4>2. tick_list_insert(g_active_task, ticks)
        BY <1>3, <3>2 DEF pend_to_blk_obj
      <4>3. g_active_task \notin ToSet(g_tick_head) /\ TickListOK
        BY <1>1 DEF CoreInv, ListInv, CallInv, RunsOnlyReady
      <4> QED
        BY <1>1, <2>3, <4>1, <4>2, <4>3, TickOrder_Insert
    <3> QED
      BY <3>1, <3>2
  <2> QED
    BY <2>1, <2>2, <2>3
<1> QED
  BY <1>2, <1>3 DEF krhino_sem_take

LEMMA Next_Order ==
  SemInv /\ [Next]_vars => /\ RunsFirst => RunsFirst'
                           /\ WaitOrder => WaitOrder'
                           /\ ShortTimeouts /\ TickOrder => TickOrder'
<1> SUFFICES ASSUME SemInv, [Next]_vars
             PROVE  /\ RunsFirst => RunsFirst'
                    /\ WaitOrder => WaitOrder'
                    /\ ShortTimeouts /\ TickOrder => TickOrder'
  OBVIOUS
<1>1. CoreInv
  BY DEF SemInv
<1>2. CASE UNCHANGED vars
  <2>1. UNCHANGED <<tcbVars, queueVars, g_tick_count, cpuVars, callVars, crit>>
    BY <1>2 DEF vars, coreVars
  <2>2. RunsFirst => RunsFirst'
    BY <2>1, Runs_Same DEF cpuVars, queueVars, callVars
  <2>3. WaitOrder => WaitOrder'
    BY <1>1, <2>1, WaitOrder_Same DEF CoreInv, ListInv, tcbVars, queueVars
  <2>4. TickOrder => TickOrder'
    BY <1>1, <2>1, TickOrder_Same DEF CoreInv, tcbVars, queueVars
  <2> QED
    BY <2>2, <2>3, <2>4
<1>3. CASE CoreNext
  BY <1>1, <1>3, CoreNext_Runs, CoreNext_Wait, CoreNext_Tick
<1>4. CASE SemLoop \/ \E t \in Task : tick_pend_timeout(t) /\ UNCHANGED crit
  BY <1>4, Loop_Order
<1>5. ASSUME NEW s \in Obj, SemService(s)
      PROVE  /\ RunsFirst => RunsFirst'
             /\ WaitOrder => WaitOrder'
             /\ ShortTimeouts /\ TickOrder => TickOrder'
  BY <1>5, Enter_Order, Create_Order, Give_Order, Take_Order DEF SemService
<1> QED
  BY <1>2, <1>3, <1>4, <1>5 DEF Next, CoreStep

\* Strict priority scheduling, with semaphores and handlers that give them.
THEOREM SemHighestRuns == Spec => []RunsHighest
<1>1. SemInit => RunsFirst
  BY Init_Runs DEF SemInit
<1>2. SemInv /\ RunsFirst /\ [Next]_vars => RunsFirst'
  BY Next_Order
<1>3. RunsFirst => RunsHighest
  BY DEF RunsFirst, RunsHighest, RunningCode
<1> QED
  BY <1>1, <1>2, <1>3, SemInvariant, PTL DEF Spec

\* Waiters stand in the order of their current priorities, also when krhino_task_pri_change
\* changes one of them (pend_list_reorder): a give wakes the most urgent waiter.
THEOREM SemWaiters == Spec => []WaitersByPriority
<1>1. SemInit => WaitOrder
  BY DEF SemInit, CoreInit, WaitOrder, Ascending
<1>2. SemInv /\ WaitOrder /\ [Next]_vars => WaitOrder'
  BY Next_Order
<1>3. SemInv /\ WaitOrder => WaitersByPriority
  BY WaitOrderImplies DEF SemInv, CoreInv
<1> QED
  BY <1>1, <1>2, <1>3, SemInvariant, PTL DEF Spec

\* The tick list is sorted when waits with timeouts are on it too.
THEOREM SemTickSorted ==
  ASSUME ShortTimeouts PROVE Spec => []TickListSorted
<1>1. SemInit => TickOrder
  BY Init_Tick DEF SemInit
<1>2. SemInv /\ TickOrder /\ [Next]_vars => TickOrder'
  BY Next_Order
<1>3. SemInv /\ TickOrder => TickListSorted
  BY TickOrderImplies DEF SemInv
<1> QED
  BY <1>1, <1>2, <1>3, SemInvariant, PTL DEF Spec

\* A wait with a timeout, if nothing else ends it, ends in the very tick it was asked for.
THEOREM SemTimelyWakeup ==
  ASSUME ShortTimeouts PROVE Spec => WakesOnTime
<1>1. ASSUME SemInv, TickOrder, Next, NEW t \in ToSet(g_tick_head), crit.op = "tick",
             t \notin ToSet(g_tick_head')
      PROVE  tick_match[t] = g_tick_count
  <2>1. crit # NoCrit /\ CoreInv
    BY <1>1 DEF NoCrit, SemInv
  <2>2. CASE CoreNext
    BY <1>1, <2>1, <2>2, OnTime_Core
  <2>3. CASE \E u \in Task : tick_pend_timeout(u)
    <3>1. PICK u \in Task : tick_pend_timeout(u)
      BY <2>3
    <3>2. TickDue /\ u = Head(g_tick_head) /\ tick_list_rm(u)
      BY <3>1 DEF tick_pend_timeout, unpend
    <3> QED
      BY <1>1, <2>1, <3>2, OnTime_Head
  <2>4. ~SemLoop
    BY <1>1 DEF SemLoop, sem_del_turn, sem_give_all_turn, sem_loop_done
  <2>5. \A s \in Obj : ~SemService(s)
    BY <2>1 DEF SemService, krhino_sem_create, krhino_sem_count_set, krhino_sem_del, krhino_sem_give,
       krhino_sem_give_all, krhino_sem_take, AnyCall, TaskCall, IntrptCall
  <2> QED
    BY <1>1, <2>2, <2>3, <2>4, <2>5 DEF Next, CoreStep
<1>2. SemInv /\ TickOrder /\ [Next]_vars =>
        [\A t \in ToSet(g_tick_head) :
           crit.op = "tick" /\ t \notin ToSet(g_tick_head)' => tick_match[t] = g_tick_count]_coreVars
  BY <1>1 DEF ToSet, vars
<1>3. SemInit => TickOrder
  BY Init_Tick DEF SemInit
<1>4. SemInv /\ TickOrder /\ [Next]_vars => TickOrder'
  BY Next_Order
<1> QED
  BY <1>2, <1>3, <1>4, SemInvariant, PTL DEF Spec, WakesOnTime
=============================================================================
