-------------------------- MODULE RhinoMutexProofs --------------------------
(***************************************************************************)
(* Proofs about RhinoMutex, for any number of tasks and mutexes and        *)
(* whatever the tasks call: owners and the lists of mutexes agree, waiters *)
(* stay in order, priority inheritance is exact along chains of owners,    *)
(* and what krhino_mutex_lock reports is true.                             *)
(***************************************************************************)
EXTENDS RhinoMutex, RhinoCoreProofs

-----------------------------------------------------------------------------
(***************************************************************************)
(* The linked lists of mutexes.                                            *)
(***************************************************************************)
Links == [Obj -> Obj \cup {NoObj}]

\* The list from h is one: nothing links back to its head, or twice to the same mutex.
Linked(next, h) ==
  \A x, y \in Chain(next, h) :
    next[x] \in Obj => next[x] # h /\ (next[x] = next[y] => x = y)

\* A set that has m and the next one of each of its members.
Closed(next, m, S) ==
  S \subseteq Obj /\ m \in S \cup {NoObj} /\ \A y \in S : next[y] \in S \cup {NoObj}

\* The list is such a set, and every other one has all of it.
LEMMA ChainLeast ==
  ASSUME NEW next \in Links, NEW m \in Obj \cup {NoObj}
  PROVE  /\ Closed(next, m, Chain(next, m))
         /\ \A S : Closed(next, m, S) => Chain(next, m) \subseteq S
<1>1. \A S : Closed(next, m, S) => Chain(next, m) \subseteq S
  BY DEF Closed, Chain
<1>2. ASSUME NEW y \in Chain(next, m), next[y] # NoObj PROVE next[y] \in Chain(next, m)
  <2>1. y \in Obj /\ next[y] \in Obj
    BY <1>2 DEF Chain, Links
  <2> QED
    BY <1>2, <2>1 DEF Chain
<1>3. m # NoObj => m \in Chain(next, m)
  BY DEF Chain
<1> QED
  BY <1>1, <1>2, <1>3 DEF Closed, Chain

\* An empty list.
LEMMA ChainEmpty ==
  ASSUME NEW next \in Links PROVE Chain(next, NoObj) = {}
<1>1. Closed(next, NoObj, {})
  BY DEF Closed
<1> QED
  BY <1>1, ChainLeast

\* The first mutex and the others.
LEMMA ChainFirst ==
  ASSUME NEW next \in Links, NEW m \in Obj
  PROVE  Chain(next, m) = {m} \cup Chain(next, next[m])
<1>0. next[m] \in Obj \cup {NoObj}
  BY DEF Links
<1> DEFINE C == Chain(next, m)
           D == Chain(next, next[m])
<1>1. Closed(next, m, C) /\ \A S : Closed(next, m, S) => C \subseteq S
  BY ChainLeast
<1>2. Closed(next, next[m], D) /\ \A S : Closed(next, next[m], S) => D \subseteq S
  BY <1>0, ChainLeast
<1> HIDE DEF C, D
<1>3. m \in C /\ Closed(next, next[m], C)
  BY <1>1, TaskAssumption DEF Closed
<1>4. Closed(next, m, {m} \cup D)
  BY <1>2 DEF Closed
<1>5. C = {m} \cup D
  BY <1>1, <1>2, <1>3, <1>4
<1> QED
  BY <1>5 DEF C, D

\* A list depends on the links of its members only.
LEMMA ChainSame ==
  ASSUME NEW next \in Links, NEW new \in Links, NEW m \in Obj \cup {NoObj},
         \A x \in Chain(next, m) : new[x] = next[x]
  PROVE  Chain(new, m) = Chain(next, m) /\ (Linked(next, m) => Linked(new, m))
<1> DEFINE C == Chain(next, m)
           D == Chain(new, m)
<1>1. Closed(next, m, C) /\ \A S : Closed(next, m, S) => C \subseteq S
  BY ChainLeast
<1>2. Closed(new, m, D) /\ \A S : Closed(new, m, S) => D \subseteq S
  BY ChainLeast
<1>3. \A x \in C : new[x] = next[x]
  OBVIOUS
<1> HIDE DEF C, D
<1>4. Closed(new, m, C)
  BY <1>1, <1>3 DEF Closed
<1>5. D \subseteq C
  BY <1>2, <1>4
<1>6. Closed(next, m, D)
  BY <1>2, <1>3, <1>5 DEF Closed
<1>7. D = C
  BY <1>1, <1>5, <1>6
<1> QED
  BY <1>3, <1>7 DEF C, D, Linked

\* A mutex that is on no list goes to the front of one.
LEMMA ChainAdd ==
  ASSUME NEW next \in Links, NEW h \in Obj \cup {NoObj}, NEW m \in Obj, m \notin Chain(next, h),
         Linked(next, h), NEW new, new = [next EXCEPT ![m] = h]
  PROVE  /\ new \in Links /\ Chain(new, m) = {m} \cup Chain(next, h) /\ Linked(new, m)
<1>1. /\ new \in Links /\ new[m] = h
      /\ \A x \in Obj \ {m} : new[x] = next[x]
  BY DEF Links
<1>2. Closed(next, h, Chain(next, h))
  BY ChainLeast
<1>3. \A x \in Chain(next, h) : new[x] = next[x]
  BY <1>1, <1>2 DEF Closed
<1>4. Chain(new, h) = Chain(next, h)
  BY <1>1, <1>3, ChainSame, ZenonT(40)
<1>5. Chain(new, m) = {m} \cup Chain(next, h)
  <2>1. Chain(new, m) = {m} \cup Chain(new, new[m])
    BY <1>1, ChainFirst
  <2> QED
    BY <1>1, <1>4, <2>1
<1>6. ASSUME NEW x \in Chain(new, m), NEW y \in Chain(new, m), new[x] \in Obj
      PROVE  new[x] # m /\ (new[x] = new[y] => x = y)
  <2>1. /\ \A z \in Chain(next, h) : next[z] \in Chain(next, h) \cup {NoObj}
        /\ h \in Chain(next, h) \cup {NoObj}
    BY <1>2 DEF Closed
  <2>2. m \notin Chain(next, h) /\ m # NoObj
    BY TaskAssumption
  <2>3. \A z \in Chain(next, h) : next[z] \in Obj => next[z] # h
    BY DEF Linked
  <2>4. \A z, w \in Chain(next, h) : next[z] \in Obj /\ next[z] = next[w] => z = w
    BY DEF Linked
  <2>5. CASE x = m
    BY <1>1, <1>3, <1>5, <1>6, <2>1, <2>2, <2>3, <2>5
  <2>6. CASE x # m /\ y = m
    BY <1>1, <1>3, <1>5, <1>6, <2>1, <2>2, <2>3, <2>6
  <2>7. CASE x # m /\ y # m
    <3>1. /\ x \in Chain(next, h) /\ y \in Chain(next, h)
          /\ new[x] = next[x] /\ new[y] = next[y]
      BY <1>3, <1>5, <2>7
    <3> QED
      BY <1>6, <2>1, <2>2, <2>4, <3>1
  <2> QED
    BY <2>5, <2>6, <2>7
<1> QED
  BY <1>1, <1>5, <1>6 DEF Linked

\* The first mutex leaves its list.
LEMMA ChainRest ==
  ASSUME NEW next \in Links, NEW m \in Obj, Linked(next, m)
  PROVE  Chain(next, next[m]) = Chain(next, m) \ {m} /\ Linked(next, next[m])
<1> DEFINE C == Chain(next, m)
           D == Chain(next, next[m])
<1>1. C = {m} \cup D
  BY ChainFirst
<1>2. next[m] \in Obj \cup {NoObj}
  BY DEF Links
<1>3. Closed(next, next[m], D) /\ \A S : Closed(next, next[m], S) => D \subseteq S
  BY <1>2, ChainLeast
<1>4. \A x, y \in C : next[x] \in Obj => next[x] # m /\ (next[x] = next[y] => x = y)
  BY DEF Linked
<1> HIDE DEF C, D
<1>5. Closed(next, next[m], D \ {m})
  <2>1. next[m] # m
    BY <1>1, <1>2, <1>4
  <2>2. \A y \in D : next[y] # m
    BY <1>1, <1>4
  <2> QED
    BY <1>3, <2>1, <2>2 DEF Closed
<1>6. m \notin D
  BY <1>3, <1>5
<1>7. \A x, y \in D : next[x] \in Obj => next[x] # next[m] /\ (next[x] = next[y] => x = y)
  BY <1>1, <1>4, <1>6
<1> QED
  BY <1>1, <1>6, <1>7 DEF C, D, Linked

\* Another one leaves it: what linked to it links to the one behind it.
LEMMA ChainDrop ==
  ASSUME NEW next \in Links, NEW h \in Obj \cup {NoObj}, NEW m \in Obj, m # h,
         Linked(next, h), NEW new,
         new = [x \in Obj |-> IF x \in Chain(next, h) /\ next[x] = m THEN next[m] ELSE next[x]],
         m \in Chain(next, h)
  PROVE  /\ new \in Links /\ Chain(new, h) = Chain(next, h) \ {m} /\ Linked(new, h)
         /\ \A x \in Obj \ Chain(next, h) : new[x] = next[x]
<1> DEFINE C == Chain(next, h)
           D == Chain(new, h)
<1>1. /\ C \subseteq Obj /\ m \in C
      /\ \A x \in Obj : new[x] = IF x \in C /\ next[x] = m THEN next[m] ELSE next[x]
      /\ new \in Links
  BY DEF Links, Chain
<1>2. Closed(next, h, C) /\ \A S : Closed(next, h, S) => C \subseteq S
  BY ChainLeast
<1>3. Closed(new, h, D) /\ \A S : Closed(new, h, S) => D \subseteq S
  BY <1>1, ChainLeast
<1>4. \A x, y \in C : next[x] \in Obj => next[x] # h /\ (next[x] = next[y] => x = y)
  BY DEF Linked
<1> HIDE DEF C, D
<1>5. next[m] # m
  <2>1. SUFFICES ASSUME next[m] = m PROVE FALSE
    OBVIOUS
  <2>2. \A y \in C \ {m} : next[y] # m
    BY <1>1, <1>4, <2>1
  <2>3. Closed(next, h, C \ {m})
    BY <1>2, <2>2 DEF Closed
  <2> QED
    BY <1>1, <1>2, <2>3
<1>6. Closed(new, h, C \ {m})
  <2>1. h \in (C \ {m}) \cup {NoObj}
    BY <1>2 DEF Closed
  <2>2. ASSUME NEW y \in C \ {m} PROVE new[y] \in (C \ {m}) \cup {NoObj}
    BY <1>1, <1>2, <1>5 DEF Closed
  <2> QED
    BY <1>1, <2>1, <2>2 DEF Closed
<1>7. D \subseteq C \ {m}
  BY <1>3, <1>6
<1>8. Closed(next, h, D \cup {m})
  <2>1. h \in D \cup {m} \cup {NoObj}
    BY <1>3 DEF Closed
  <2>2. ASSUME NEW y \in D PROVE next[y] \in D \cup {m} \cup {NoObj}
    BY <1>1, <1>3, <1>7 DEF Closed
  <2>3. next[m] \in D \cup {m} \cup {NoObj}
    <3>1. PICK y \in C \ {m} : next[y] = m
      <4>1. SUFFICES ASSUME \A y \in C \ {m} : next[y] # m PROVE FALSE
        OBVIOUS
      <4>2. Closed(next, h, C \ {m})
        BY <1>2, <4>1 DEF Closed
      <4> QED
        BY <1>1, <1>2, <4>2
    <3>2. CASE y \in D
      <4>1. new[y] = next[m]
        BY <1>1, <3>1
      <4> QED
        BY <1>3, <3>2, <4>1 DEF Closed
    <3>3. CASE y \notin D
      <4>1. \A z \in D : next[z] # m
        BY <1>1, <1>4, <1>7, <3>1, <3>3
      <4>2. Closed(next, h, D)
        BY <1>3, <2>2, <4>1 DEF Closed
      <4> QED
        BY <1>1, <1>2, <1>7, <4>2
    <3> QED
      BY <3>2, <3>3
  <2> QED
    BY <1>1, <1>3, <2>1, <2>2, <2>3 DEF Closed
<1>9. D = C \ {m}
  BY <1>2, <1>7, <1>8
<1>10. ASSUME NEW x \in D, NEW y \in D, new[x] \in Obj
       PROVE  new[x] # h /\ (new[x] = new[y] => x = y)
  BY <1>1, <1>4, <1>9, <1>10
<1> QED
  BY <1>1, <1>9, <1>10 DEF C, D, Linked
-----------------------------------------------------------------------------
(***************************************************************************)
(* The invariant.                                                          *)
(***************************************************************************)
\* The section the CPU is in: a change of priorities, on behalf of op.
Doing(op) == crit.op = "pri_change" /\ crit.after.op = op

\* A mutex that is being unlocked is on no list and still names its last owner; a task that
\* is being deleted keeps a stale list head while its mutexes find new owners.
Loose(m) == Doing("mutex_unlock") /\ crit.after.obj = m
Dying(t) == crit.op = "mutex_free" /\ crit.task = t
Owned(t) == {m \in Obj : obj_type[m] /\ mutex_task[m] = t /\ ~Loose(m)}

ListsOwned ==
  \A t \in Task : Live(t) /\ ~Dying(t) =>
    Held(t) = Owned(t) /\ Linked(mutex_next, mutex_head[t])
FreeOwned ==
  crit.op = "mutex_free" =>
    Chain(mutex_next, crit.obj) = Owned(crit.task) /\ Linked(mutex_next, crit.obj)
OwnersOK ==
  \A m \in Obj : obj_type[m] =>
    /\ mutex_task[m] = NoTask => blk_list[m] = << >>
    /\ mutex_task[m] # NoTask =>
         /\ Live(mutex_task[m]) /\ mutex_task[m] # Idle
         /\ owner_nested[m] > 0 \/ Loose(m)
         /\ mutex_task[m] \notin ToSet(blk_list[m])
DeletedOK ==
  \A m \in Obj : ~obj_type[m] => blk_list[m] = << >> \/ (Doing("mutex_del") /\ crit.after.obj = m)

\* Owners, lists and waiters agree, in critical sections too.
OwnOK == ListsOwned /\ FreeOwned /\ OwnersOK /\ DeletedOK

\* What the caller of the section that the CPU is in has checked before it entered.
CritOK ==
  /\ crit.op = "mutex_free" =>
       /\ isr = "none" /\ pc[g_active_task] = "user" /\ task_state[g_active_task] = "K_RDY"
       /\ crit.task # Idle /\ MayStop(crit.task)
  /\ crit.op = "pri_change" =>
       /\ crit.task # Idle /\ crit.pri < IDLE_PRI
       /\ crit.task # NoTask /\ crit.after.op # "task_pri_change" => Live(crit.task)
       /\ crit.after.op # "tick" =>
            /\ isr = "none"
            /\ pc[g_active_task] = IF crit.after.op = "task_pri_change" THEN "pri_change" ELSE "user"
  /\ Doing("mutex_lock") =>
       /\ g_active_task # Idle /\ task_state[g_active_task] = "K_RDY" /\ g_sched_lock = 0
       /\ crit.after.obj \in Obj /\ obj_type[crit.after.obj]
       /\ mutex_task[crit.after.obj] \notin {NoTask, g_active_task}
  /\ Doing("mutex_unlock") =>
       /\ task_state[g_active_task] = "K_RDY"
       /\ crit.after.obj \in Obj /\ obj_type[crit.after.obj]
       /\ mutex_task[crit.after.obj] = g_active_task
  /\ Doing("mutex_del") => crit.after.obj \in Obj /\ ~obj_type[crit.after.obj]

\* Only the idle task has the idle priority.
BaseOK == \A t \in Task \ {Idle} : b_prio[t] < IDLE_PRI

OwnInv == CoreInv /\ TypeOK /\ BaseOK /\ CritOK /\ OwnOK

\* The forms of crit.
LEMMA CritShape ==
  ASSUME TypeOK
  PROVE  /\ crit.op \in {"none", "tick", "k_err_proc", "pri_change", "mutex_free"}
         /\ crit.op = "none" <=> crit = NoCrit
         /\ crit.op = "pri_change" =>
              /\ crit.task \in Task \cup {NoTask} /\ crit.pri \in Prio
              /\ crit.after \in AfterType
              /\ crit.after.obj \in Obj \cup {NoObj} /\ crit.after.ticks \in 0 .. TickMod - 1
         /\ crit.op = "mutex_free" => crit.task \in Task /\ crit.obj \in Obj \cup {NoObj}
  BY DEF TypeOK, NoCrit, AfterType

\* The variables of this module, by their types.
MutexTypes ==
  /\ b_prio       \in [Task -> Prio]
  /\ mutex_head   \in [Task -> Obj \cup {NoObj}]
  /\ obj_type     \in [Obj -> BOOLEAN]
  /\ mutex_task   \in [Obj -> Task \cup {NoTask}]
  /\ mutex_next   \in Links
  /\ owner_nested \in [Obj -> 0 .. MaxNested]
CritTypes ==
  [op : {"none", "tick", "k_err_proc"}, obj : {NoObj}]
  \cup [op : {"pri_change"}, task : Task \cup {NoTask}, pri : Prio, after : AfterType]
  \cup [op : {"mutex_free"}, task : Task, obj : Obj \cup {NoObj}]
LEMMA TypeParts == TypeOK <=> CoreTypeOK /\ MutexTypes /\ crit \in CritTypes
  BY DEF TypeOK, MutexTypes, CritTypes, Links

\* The sections of task_pri_change.
LEMMA PriChangeShape ==
  ASSUME NEW t \in Task \cup {NoTask}, NEW p \in Prio, NEW after \in AfterType
  PROVE  /\ PriChange(t, p, after) \in CritTypes
         /\ PriChange(t, p, after).op = "pri_change" /\ PriChange(t, p, after).task = t
         /\ PriChange(t, p, after).pri = p /\ PriChange(t, p, after).after = after
  BY DEF PriChange, CritTypes

LEMMA AfterShape ==
  ASSUME NEW op \in {"mutex_lock", "mutex_unlock", "mutex_del", "task_pri_change", "tick", "task_del"},
         NEW m \in Obj \cup {NoObj}, NEW n \in 0 .. TickMod - 1
  PROVE  /\ After(op, m, n) \in AfterType
         /\ After(op, m, n).op = op /\ After(op, m, n).obj = m /\ After(op, m, n).ticks = n
  BY DEF After, AfterType

\* The priority a task is due is one of an application task, not below its own, and not
\* below that of the first waiter of a mutex it holds.
LEMMA HighestRange ==
  ASSUME NEW p \in Prio, NEW held, held \subseteq Obj, NEW bl \in [Obj -> Seq(Task)],
         NEW pr \in [Task -> Prio]
  PROVE  /\ HighestOf(p, held, bl, pr) \in Prio /\ HighestOf(p, held, bl, pr) <= p
         /\ \A m \in held : bl[m] # << >> => HighestOf(p, held, bl, pr) <= pr[Head(bl[m])]
         /\ \/ HighestOf(p, held, bl, pr) = p
            \/ \E m \in held : bl[m] # << >> /\ HighestOf(p, held, bl, pr) = pr[Head(bl[m])]
<1> DEFINE T == {p} \cup {pr[Head(bl[m])] : m \in {x \in held : bl[x] # << >>}}
<1>1. HighestOf(p, held, bl, pr) = Min(T)
  BY DEF HighestOf
<1>2. \A m \in held : bl[m] # << >> => pr[Head(bl[m])] \in Prio /\ pr[Head(bl[m])] \in T
  OBVIOUS
<1>3. T \subseteq Nat /\ T \subseteq Prio /\ p \in T
  BY <1>2, PriAssumption DEF Prio
<1>4. \A x \in T : x = p \/ \E m \in held : bl[m] # << >> /\ x = pr[Head(bl[m])]
  OBVIOUS
<1> HIDE DEF T
<1>5. Min(T) \in T /\ \A y \in T : Min(T) <= y
  BY <1>3, NatMin
<1> QED
  BY <1>1, <1>2, <1>3, <1>4, <1>5

-----------------------------------------------------------------------------
(***************************************************************************)
(* Ownership.                                                              *)
(***************************************************************************)
\* Nothing changes hands, no task gets new life, and no task waits that did not.
LEMMA OwnSame ==
  ASSUME OwnInv, CoreTypeOK',
         UNCHANGED <<mutex_head, obj_type, mutex_task, mutex_next, owner_nested>>,
         \A t \in Task : Live(t)' => Live(t),
         \A m \in Obj : obj_type[m] /\ mutex_task[m] # NoTask => Live(mutex_task[m])',
         \A m \in Obj : Loose(m)' <=> Loose(m),
         \A t \in Task : Dying(t) => Dying(t)' \/ ~Live(t)',
         crit'.op = "mutex_free" =>
           crit.op = "mutex_free" /\ crit'.task = crit.task /\ crit'.obj = crit.obj,
         \A o \in Obj : ToSet(blk_list'[o]) \subseteq ToSet(blk_list[o]),
         Doing("mutex_del") =>
           blk_list'[crit.after.obj] = << >> \/ (Doing("mutex_del")' /\ crit'.after = crit.after)
  PROVE  OwnOK'
<1>1. \A t : Owned(t)' = Owned(t)
  BY DEF Owned
<1>2. \A t \in Task : Held(t)' = Held(t)
  BY DEF Held
<1>3. ListsOwned'
  BY <1>1, <1>2 DEF OwnInv, OwnOK, ListsOwned
<1>4. FreeOwned'
  BY <1>1 DEF OwnInv, OwnOK, FreeOwned
<1>5. \A o \in Obj : blk_list[o] = << >> => blk_list'[o] = << >>
  <2>1. ASSUME NEW o \in Obj, blk_list[o] = << >> PROVE blk_list'[o] = << >>
    <3>1. blk_list[o] \in Seq(Task) /\ blk_list'[o] \in Seq(Task)
      BY DEF OwnInv, CoreInv, CoreTypeOK
    <3>2. ToSet(blk_list[o]) = {}
      BY <2>1, <3>1, NoElements
    <3>3. ToSet(blk_list'[o]) = {}
      BY <3>2
    <3> QED
      BY <3>1, <3>3, NoElements
  <2> QED
    BY <2>1
<1>6. OwnersOK'
  <2> SUFFICES ASSUME NEW m \in Obj, obj_type[m]
               PROVE  /\ mutex_task[m] = NoTask => blk_list'[m] = << >>
                      /\ mutex_task[m] # NoTask =>
                           /\ Live(mutex_task[m])' /\ mutex_task[m] # Idle
                           /\ owner_nested[m] > 0 \/ Loose(m)'
                           /\ mutex_task[m] \notin ToSet(blk_list'[m])
    BY DEF OwnersOK
  <2> QED
    BY <1>5 DEF OwnInv, OwnOK, OwnersOK
<1>7. DeletedOK'
  BY <1>5 DEF OwnInv, OwnOK, DeletedOK
<1> QED
  BY <1>3, <1>4, <1>6, <1>7 DEF OwnOK

\* Where the CPU is in no section of this module.
LEMMA Idling ==
  ASSUME crit.op \in {"none", "tick", "k_err_proc"}
  PROVE  /\ \A m : ~Loose(m)
         /\ \A t : ~Dying(t)
         /\ \A op : ~Doing(op)
  BY DEF Loose, Dying, Doing

LEMMA IdlingCrit ==
  ASSUME crit.op \in {"none", "tick", "k_err_proc"} PROVE CritOK
  BY Idling DEF CritOK

\* The steps of the core neither give life to a task nor take it.
LEMMA CoreStep_Live ==
  ASSUME CoreInv, CoreStep
  PROVE  CoreNext /\ \A t \in Task : Live(t)' <=> Live(t)
<1>1. CoreNext
  BY DEF CoreStep, CoreNext, TaskService
<1> SUFFICES \A t \in Task : Live(t)' <=> Live(t)
  BY <1>1
<1>2. CASE KernelStep
  BY <1>2, ZenonT(40) DEF KernelStep, core_sched, pend_state_end_proc, krhino_intrpt_enter, krhino_intrpt_exit,
     tick_list_update, tick_sleep_end, tick_list_done, time_slice_update, tcbVars, SleepStates,
     CoreInv, CoreTypeOK, Live
<1>3. CASE LockService \/ RRService \/ task_del_idle \/ \E new \in NewPri : krhino_task_pri_change(new[1], new[2])
  <2>1. task_state' = task_state
    BY <1>3 DEF LockService, RRService, krhino_sched_disable, krhino_sched_enable, task_del_idle,
       krhino_task_time_slice_set, krhino_sched_policy_set, krhino_task_pri_change, tcbVars
  <2> QED
    BY <2>1 DEF Live
<1>4. CASE SleepService
  <2>1. \/ task_state' = task_state
        \/ task_state' = [task_state EXCEPT ![g_active_task] = "K_SLEEP"] /\ \E api : TaskCall(api)
    BY <1>4 DEF SleepService, krhino_task_yield, krhino_task_sleep, tcbVars
  <2>2. (\E api : TaskCall(api)) => task_state[g_active_task] = "K_RDY"
    BY CallerReady
  <2> QED
    BY <2>1, <2>2 DEF Live, CoreInv, CoreTypeOK
<1>5. CASE SuspendService
  <2>1. PICK t \in Task : krhino_task_suspend(t) \/ krhino_task_resume(t)
    BY <1>5 DEF SuspendService
  <2>2. CASE krhino_task_suspend(t)
    <3>1. \/ task_state' = task_state
          \/ /\ task_state[t] \in {"K_RDY", "K_SLEEP", "K_PEND"}
             /\ task_state' = [task_state EXCEPT ![t] = Suspended(task_state[t])]
      BY <2>2 DEF krhino_task_suspend, CoreInv, CoreTypeOK
    <3> QED
      BY <3>1 DEF Suspended, Live, CoreInv, CoreTypeOK
  <2>3. CASE krhino_task_resume(t)
    <3>1. \/ task_state' = task_state
          \/ /\ task_state[t] \in SuspendStates
             /\ task_state' = [task_state EXCEPT ![t] = Resumed(task_state[t])]
      BY <2>3 DEF krhino_task_resume, CoreInv, CoreTypeOK
    <3> QED
      BY <3>1 DEF Resumed, SuspendStates, Live, CoreInv, CoreTypeOK
  <2> QED
    BY <2>1, <2>2, <2>3
<1> QED
  BY <1>2, <1>3, <1>4, <1>5 DEF CoreStep

\* No waiter joins a list when no task begins to wait.
LEMMA WaitersShrink ==
  ASSUME CoreInv, CoreInv',
         \A u \in Task : task_state'[u] \in PendStates =>
                           task_state[u] \in PendStates /\ blk_obj'[u] = blk_obj[u]
  PROVE  \A o \in Obj : ToSet(blk_list'[o]) \subseteq ToSet(blk_list[o])
<1> SUFFICES ASSUME NEW o \in Obj, NEW u \in ToSet(blk_list'[o]) PROVE u \in ToSet(blk_list[o])
  OBVIOUS
<1>1. u \in Task
  BY ToSetByIndex DEF CoreInv, CoreTypeOK
<1> QED
  BY <1>1 DEF CoreInv, ListInv, WaitListsOK

\* The services of the core leave mutexes alone.
LEMMA CoreStep_Own ==
  ASSUME OwnInv, CoreStep PROVE OwnInv'
<1>1. UNCHANGED mutexVars
  BY DEF CoreStep
<1>2. CoreNext /\ \A t \in Task : Live(t)' <=> Live(t)
  BY CoreStep_Live DEF OwnInv
<1>3. CoreInv'
  BY <1>2, CoreNext_Inv DEF OwnInv
<1>4. /\ \A u \in Task : task_state'[u] \in PendStates =>
                           task_state[u] \in PendStates /\ blk_obj'[u] = blk_obj[u]
      /\ crit' \in {crit, NoCrit, ErrCrit, [op |-> "tick", obj |-> NoObj]}
      /\ crit = NoCrit \/ crit.op = "tick"
  BY <1>2, CoreNoWaiter DEF OwnInv
<1>5. crit.op \in {"none", "tick", "k_err_proc"} /\ crit'.op \in {"none", "tick", "k_err_proc"}
  BY <1>4 DEF NoCrit, ErrCrit
<1>6. CritOK'
  <2>1. (crit.op \in {"none", "tick", "k_err_proc"})'
    BY <1>5
  <2> QED
    BY <2>1, IdlingCrit, PTL
<1>7. OwnOK'
  <2>1. \A o \in Obj : ToSet(blk_list'[o]) \subseteq ToSet(blk_list[o])
    BY <1>3, <1>4, WaitersShrink DEF OwnInv
  <2>2. \A m \in Obj : ~Loose(m) /\ ~Loose(m)'
    BY <1>5 DEF Loose, Doing
  <2>3. /\ \A t \in Task : ~Dying(t)
        /\ crit'.op # "mutex_free" /\ ~Doing("mutex_del")
    BY <1>5 DEF Dying, Doing
  <2>4. \A m \in Obj : obj_type[m] /\ mutex_task[m] # NoTask => Live(mutex_task[m])'
    BY <1>1, <1>2 DEF OwnInv, OwnOK, OwnersOK, TypeOK, mutexVars
  <2> QED
    BY <1>1, <1>2, <1>3, <2>1, <2>2, <2>3, <2>4, OwnSame DEF CoreInv, mutexVars
<1>8. TypeOK' /\ BaseOK'
  <2>1. crit' \in CritTypes
    BY <1>4, TypeParts DEF CritTypes, NoCrit, ErrCrit, OwnInv
  <2>2. MutexTypes'
    BY <1>1, TypeParts DEF MutexTypes, mutexVars, OwnInv
  <2>3. TypeOK'
    BY <1>3, <2>1, <2>2 DEF TypeOK, MutexTypes, CritTypes, Links, CoreInv
  <2> QED
    BY <1>1, <2>3 DEF BaseOK, mutexVars, OwnInv
<1> QED
  BY <1>3, <1>6, <1>7, <1>8 DEF OwnInv

\* The section of task_pri_change is entered, or goes on with another task.
LEMMA EnterPri ==
  ASSUME NEW t \in Task \cup {NoTask}, t # Idle, NEW p \in Prio, p < IDLE_PRI,
         NEW after \in AfterType, crit' = PriChange(t, p, after),
         t # NoTask /\ after.op # "task_pri_change" => Live(t)',
         after.op # "tick" =>
           /\ isr' = "none"
           /\ pc'[g_active_task'] = IF after.op = "task_pri_change" THEN "pri_change" ELSE "user",
         after.op = "mutex_lock" =>
           /\ g_active_task' # Idle /\ task_state'[g_active_task'] = "K_RDY" /\ g_sched_lock' = 0
           /\ after.obj \in Obj /\ obj_type'[after.obj]
           /\ mutex_task'[after.obj] \notin {NoTask, g_active_task'},
         after.op = "mutex_unlock" =>
           /\ task_state'[g_active_task'] = "K_RDY"
           /\ after.obj \in Obj /\ obj_type'[after.obj] /\ mutex_task'[after.obj] = g_active_task',
         after.op = "mutex_del" => after.obj \in Obj /\ ~obj_type'[after.obj]
  PROVE  /\ CritOK' /\ crit' \in CritTypes /\ crit' # NoCrit
         /\ crit'.op = "pri_change" /\ crit'.after = after
<1>1. /\ crit' \in CritTypes /\ crit'.op = "pri_change" /\ crit'.task = t
      /\ crit'.pri = p /\ crit'.after = after
  BY PriChangeShape
<1>2. Live(t)' <=> Live(crit.task)'
  BY <1>1 DEF Live
<1>3. CritOK'
  BY <1>1, <1>2 DEF CritOK, Doing
<1> QED
  BY <1>1, <1>3 DEF NoCrit

\* The types of the other variables.
LEMMA Types ==
  ASSUME OwnInv PROVE MutexTypes /\ crit \in CritTypes /\ CoreTypeOK
  BY TypeParts DEF OwnInv
LEMMA TypesNext ==
  ASSUME CoreInv', MutexTypes', crit' \in CritTypes PROVE TypeOK'
  BY DEF CoreInv, TypeOK, MutexTypes, CritTypes, Links

\* The priorities mutex_pri_look and mutex_pri_limit return for an application task.
LEMMA LookRange ==
  ASSUME OwnInv, NEW t \in Task \ {Idle}, NEW rel, NEW bl \in [Obj -> Seq(Task)],
         NEW pr \in [Task -> Prio]
  PROVE  mutex_pri_look(t, rel, bl, pr) \in Prio /\ mutex_pri_look(t, rel, bl, pr) < IDLE_PRI
<1>1. Held(t) \ {rel} \subseteq Obj
  BY DEF Held, Chain
<1>2. b_prio[t] \in Prio /\ b_prio[t] < IDLE_PRI
  BY DEF OwnInv, BaseOK, TypeOK
<1>3. /\ HighestOf(b_prio[t], Held(t) \ {rel}, bl, pr) \in Prio
      /\ HighestOf(b_prio[t], Held(t) \ {rel}, bl, pr) <= b_prio[t]
  BY <1>1, <1>2, HighestRange
<1> QED
  BY <1>2, <1>3, PriAssumption DEF mutex_pri_look, Prio, IDLE_PRI

\* A mutex leaves the list of its owner, and every other list stays.
LEMMA UnlinkOwn ==
  ASSUME OwnInv, crit = NoCrit, NEW t \in Task, Live(t), NEW m \in Owned(t), mutex_unlink(t, m)
  PROVE  /\ mutex_head' \in [Task -> Obj \cup {NoObj}] /\ mutex_next' \in Links
         /\ \A u \in Task : Live(u) =>
              /\ Chain(mutex_next', mutex_head'[u]) = Owned(u) \ {m}
              /\ Linked(mutex_next', mutex_head'[u])
<1>1. MutexTypes
  BY Types
<1>2. /\ mutex_next \in Links /\ mutex_head \in [Task -> Obj \cup {NoObj}] /\ m \in Obj
      /\ mutex_head[t] \in Obj \cup {NoObj}
  BY <1>1 DEF MutexTypes, Owned
<1>3. ASSUME NEW u \in Task, Live(u)
      PROVE  Held(u) = Owned(u) /\ Linked(mutex_next, mutex_head[u])
  BY <1>3 DEF OwnInv, OwnOK, ListsOwned, Dying, NoCrit
<1>4. \A u \in Task \ {t} : \A x \in Owned(u) : x \notin Owned(t)
  BY DEF Owned
<1>5. CASE mutex_head[t] = m
  <2>1. mutex_head' = [mutex_head EXCEPT ![t] = mutex_next[m]] /\ mutex_next' = mutex_next
    BY <1>5 DEF mutex_unlink
  <2>2. mutex_next[m] \in Obj \cup {NoObj}
    BY <1>2 DEF Links
  <2>3. mutex_head' \in [Task -> Obj \cup {NoObj}] /\ mutex_head'[t] = mutex_next[m]
    BY <1>2, <2>1, <2>2
  <2>4. Chain(mutex_next, mutex_next[m]) = Chain(mutex_next, m) \ {m} /\ Linked(mutex_next, mutex_next[m])
    BY <1>2, <1>3, <1>5, ChainRest
  <2>5. Chain(mutex_next, m) = Owned(t)
    BY <1>3, <1>5 DEF Held
  <2>6. ASSUME NEW u \in Task, Live(u)
        PROVE  /\ Chain(mutex_next', mutex_head'[u]) = Owned(u) \ {m}
               /\ Linked(mutex_next', mutex_head'[u])
    <3>1. CASE u = t
      BY <2>1, <2>3, <2>4, <2>5, <3>1
    <3>2. CASE u # t
      <4>1. mutex_head'[u] = mutex_head[u] /\ m \notin Owned(u)
        BY <1>2, <1>4, <2>1, <3>2
      <4> QED
        BY <1>3, <2>1, <2>6, <4>1 DEF Held
    <3> QED
      BY <3>1, <3>2
  <2> QED
    BY <1>2, <2>1, <2>3, <2>6
<1>6. CASE mutex_head[t] # m
  <2>1. /\ mutex_head' = mutex_head
        /\ mutex_next' = [x \in Obj |-> IF x \in Chain(mutex_next, mutex_head[t]) /\ mutex_next[x] = m
                                        THEN mutex_next[m] ELSE mutex_next[x]]
    BY <1>6 DEF mutex_unlink, Held
  <2>2. m \in Chain(mutex_next, mutex_head[t]) /\ Linked(mutex_next, mutex_head[t])
    BY <1>3 DEF Held
  <2>3. /\ mutex_next' \in Links
        /\ Chain(mutex_next', mutex_head[t]) = Chain(mutex_next, mutex_head[t]) \ {m}
        /\ Linked(mutex_next', mutex_head[t])
        /\ \A x \in Obj \ Chain(mutex_next, mutex_head[t]) : mutex_next'[x] = mutex_next[x]
    BY <1>2, <1>6, <2>1, <2>2, ChainDrop
  <2>4. ASSUME NEW u \in Task, Live(u)
        PROVE  /\ Chain(mutex_next', mutex_head'[u]) = Owned(u) \ {m}
               /\ Linked(mutex_next', mutex_head'[u])
    <3>1. CASE u = t
      BY <1>3, <2>1, <2>3, <3>1 DEF Held
    <3>2. CASE u # t
      <4>1. m \notin Owned(u) /\ mutex_head[u] \in Obj \cup {NoObj}
        BY <1>2, <1>4, <3>2
      <4>2. Chain(mutex_next, mutex_head[u]) = Owned(u) /\ Linked(mutex_next, mutex_head[u])
        BY <1>3, <2>4 DEF Held
      <4>3. Chain(mutex_next, mutex_head[t]) = Owned(t)
        BY <1>3 DEF Held
      <4>4. \A x \in Chain(mutex_next, mutex_head[u]) : mutex_next'[x] = mutex_next[x]
        BY <1>4, <2>3, <3>2, <4>2, <4>3 DEF Owned
      <4>5. /\ Chain(mutex_next', mutex_head[u]) = Chain(mutex_next, mutex_head[u])
            /\ Linked(mutex_next', mutex_head[u])
        BY <1>2, <2>3, <4>1, <4>2, <4>4, ChainSame
      <4> QED
        BY <2>1, <4>1, <4>2, <4>5
    <3> QED
      BY <3>1, <3>2
  <2> QED
    BY <1>2, <2>1, <2>3, <2>4
<1> QED
  BY <1>5, <1>6

\* A mutex that is on no list but, perhaps, that of a task that is being deleted goes to the
\* front of the list of t.
LEMMA GetOwn ==
  ASSUME OwnInv, NEW t \in Task, Live(t), ~Dying(t), NEW m \in Obj,
         \A u \in Task : ~Dying(u) => m \notin Owned(u), mutex_get(m, t)
  PROVE  /\ mutex_head' \in [Task -> Obj \cup {NoObj}] /\ mutex_next' \in Links
         /\ mutex_task' \in [Obj -> Task \cup {NoTask}]
         /\ \A u \in Task : Live(u) /\ ~Dying(u) =>
              /\ Chain(mutex_next', mutex_head'[u]) = IF u = t THEN Owned(u) \cup {m} ELSE Owned(u)
              /\ Linked(mutex_next', mutex_head'[u])
         /\ \A h \in Obj \cup {NoObj} : Linked(mutex_next, h) /\ m \notin Chain(mutex_next, h) =>
              Chain(mutex_next', h) = Chain(mutex_next, h) /\ Linked(mutex_next', h)
<1>1. MutexTypes
  BY Types
<1>2. /\ mutex_next \in Links /\ mutex_head \in [Task -> Obj \cup {NoObj}]
      /\ mutex_task \in [Obj -> Task \cup {NoTask}]
      /\ mutex_head[t] \in Obj \cup {NoObj}
  BY <1>1 DEF MutexTypes
<1>3. /\ mutex_task' = [mutex_task EXCEPT ![m] = t]
      /\ mutex_next' = [mutex_next EXCEPT ![m] = mutex_head[t]]
      /\ mutex_head' = [mutex_head EXCEPT ![t] = m]
  BY DEF mutex_get
<1>4. ASSUME NEW u \in Task, Live(u), ~Dying(u)
      PROVE  /\ Chain(mutex_next, mutex_head[u]) = Owned(u) /\ Linked(mutex_next, mutex_head[u])
             /\ m \notin Chain(mutex_next, mutex_head[u])
  BY <1>4 DEF OwnInv, OwnOK, ListsOwned, Held
<1>5. /\ mutex_next' \in Links /\ Chain(mutex_next', m) = {m} \cup Chain(mutex_next, mutex_head[t])
      /\ Linked(mutex_next', m)
  <2>1. Linked(mutex_next, mutex_head[t]) /\ m \notin Chain(mutex_next, mutex_head[t])
    BY <1>4
  <2> QED
    BY <1>2, <1>3, <2>1, ChainAdd
<1>6. ASSUME NEW h \in Obj \cup {NoObj}, Linked(mutex_next, h), m \notin Chain(mutex_next, h)
      PROVE  Chain(mutex_next', h) = Chain(mutex_next, h) /\ Linked(mutex_next', h)
  <2>1. \A x \in Chain(mutex_next, h) : mutex_next'[x] = mutex_next[x]
    BY <1>2, <1>3, <1>6 DEF Chain, Links
  <2> QED
    BY <1>2, <1>5, <1>6, <2>1, ChainSame
<1>7. mutex_head' \in [Task -> Obj \cup {NoObj}] /\ mutex_task' \in [Obj -> Task \cup {NoTask}]
  BY <1>2, <1>3
<1>8. ASSUME NEW u \in Task, Live(u), ~Dying(u)
      PROVE  /\ Chain(mutex_next', mutex_head'[u]) = IF u = t THEN Owned(u) \cup {m} ELSE Owned(u)
             /\ Linked(mutex_next', mutex_head'[u])
  <2>1. CASE u = t
    <3>1. mutex_head'[u] = m
      BY <1>2, <1>3, <2>1
    <3> QED
      BY <1>4, <1>5, <1>8, <2>1, <3>1
  <2>2. CASE u # t
    <3>1. mutex_head'[u] = mutex_head[u] /\ mutex_head[u] \in Obj \cup {NoObj}
      BY <1>2, <1>3, <2>2
    <3> QED
      BY <1>4, <1>6, <1>8, <2>2, <3>1
  <2> QED
    BY <2>1, <2>2
<1> QED
  BY <1>5, <1>6, <1>7, <1>8

\* Outside the sections of this module, for short.
LEMMA AtRest ==
  ASSUME OwnInv, crit = NoCrit
  PROVE  /\ \A m : ~Loose(m) /\ \A t : ~Dying(t)
         /\ ~Doing("mutex_del") /\ crit.op = "none"
         /\ \A u \in Task : Live(u) =>
              Chain(mutex_next, mutex_head[u]) = Owned(u) /\ Linked(mutex_next, mutex_head[u])
         /\ \A u : Owned(u) = {m \in Obj : obj_type[m] /\ mutex_task[m] = u}
         /\ \A m \in Obj : ~obj_type[m] => blk_list[m] = << >>
<1>1. crit.op = "none"
  BY DEF NoCrit
<1>2. (\A m : ~Loose(m)) /\ (\A t : ~Dying(t)) /\ ~Doing("mutex_del")
  BY <1>1 DEF Loose, Dying, Doing
<1>3. \A u \in Task : Live(u) =>
        Chain(mutex_next, mutex_head[u]) = Owned(u) /\ Linked(mutex_next, mutex_head[u])
  BY <1>2 DEF OwnInv, OwnOK, ListsOwned, Held
<1>4. \A u : Owned(u) = {m \in Obj : obj_type[m] /\ mutex_task[m] = u}
  BY <1>2 DEF Owned
<1>5. \A m \in Obj : ~obj_type[m] => blk_list[m] = << >>
  BY <1>2 DEF OwnInv, OwnOK, DeletedOK
<1> QED
  BY <1>1, <1>2, <1>3, <1>4, <1>5

\* krhino_mutex_create finds no waiters on an object that is not in use, and no list that
\* the mutex is on.
LEMMA krhino_mutex_create_Own ==
  ASSUME OwnInv, NEW m \in Obj, krhino_mutex_create(m) PROVE OwnInv'
<1>1. /\ crit = NoCrit /\ ~obj_type[m]
      /\ blk_list'   = [blk_list EXCEPT ![m] = << >>]
      /\ mutex_task' = [mutex_task EXCEPT ![m] = NoTask]
      /\ mutex_next' = [mutex_next EXCEPT ![m] = NoObj]
      /\ obj_type'   = [obj_type EXCEPT ![m] = TRUE]
      /\ UNCHANGED <<tcbVars, rrVars, g_ready_queue, g_tick_head, g_tick_count, cpuVars,
                     callVars, crit, b_prio, mutex_head, owner_nested>>
  BY DEF krhino_mutex_create, TaskCall
<1>2. /\ \A x : ~Loose(x) /\ \A t : ~Dying(t)
      /\ crit.op = "none"
      /\ \A u \in Task : Live(u) =>
           Chain(mutex_next, mutex_head[u]) = Owned(u) /\ Linked(mutex_next, mutex_head[u])
      /\ \A u : Owned(u) = {x \in Obj : obj_type[x] /\ mutex_task[x] = u}
      /\ \A x \in Obj : ~obj_type[x] => blk_list[x] = << >>
  BY <1>1, AtRest
<1>3. MutexTypes /\ CoreTypeOK /\ crit \in CritTypes
  BY Types
<1>4. blk_list' = blk_list
  BY <1>1, <1>2, <1>3 DEF CoreTypeOK
<1>5. CoreInv' /\ crit' = crit
  BY <1>1, <1>4, CoreKept DEF OwnInv, coreVars, queueVars
<1>6. MutexTypes' /\ TypeOK'
  <2>1. MutexTypes'
    BY <1>1, <1>3 DEF MutexTypes, Links
  <2> QED
    BY <1>3, <1>5, <2>1, TypesNext
<1>7. BaseOK' /\ CritOK'
  BY <1>1, <1>2, <1>5 DEF OwnInv, BaseOK, CritOK, Doing
<1>8. (\A x : ~Loose(x)') /\ (\A t : ~Dying(t)')
  BY <1>2, <1>5 DEF Loose, Dying, Doing
<1>9. \A u \in Task : Owned(u)' = Owned(u)
  BY <1>1, <1>2, <1>3, <1>8, MutexAssumption DEF Owned, MutexTypes
<1>10. ListsOwned'
  <2> SUFFICES ASSUME NEW u \in Task, Live(u)
               PROVE  /\ Chain(mutex_next', mutex_head[u]) = Owned(u)
                      /\ Linked(mutex_next', mutex_head[u])
    BY <1>1, <1>9 DEF ListsOwned, Held, Live, tcbVars
  <2>1. Chain(mutex_next, mutex_head[u]) = Owned(u) /\ Linked(mutex_next, mutex_head[u])
    BY <1>2
  <2>2. \A x \in Chain(mutex_next, mutex_head[u]) : mutex_next'[x] = mutex_next[x]
    BY <1>1, <1>3, <2>1 DEF Owned, MutexTypes, Links
  <2>3. mutex_next \in Links /\ mutex_next' \in Links /\ mutex_head[u] \in Obj \cup {NoObj}
    BY <1>3, <1>6 DEF MutexTypes
  <2> QED
    BY <2>1, <2>2, <2>3, ChainSame
<1>11. OwnersOK' /\ FreeOwned' /\ DeletedOK'
  BY <1>1, <1>2, <1>3, <1>4, <1>5, <1>8
     DEF OwnInv, OwnOK, OwnersOK, FreeOwned, DeletedOK, MutexTypes, Live, tcbVars, Doing
<1> QED
  BY <1>5, <1>6, <1>7, <1>10, <1>11 DEF OwnInv, OwnOK

\* The caller of a service is an application task that lives.
LEMMA CallerLive ==
  ASSUME OwnInv, NEW api, TaskCall(api)
  PROVE  /\ g_active_task \in Task \ {Idle} /\ Live(g_active_task) /\ crit = NoCrit
         /\ task_state[g_active_task] = "K_RDY" /\ isr = "none" /\ pc[g_active_task] = "user"
         /\ \A m \in Obj : g_active_task \notin ToSet(blk_list[m])
<1>1. /\ g_active_task \in Task \ {Idle} /\ task_state[g_active_task] = "K_RDY"
      /\ isr = "none" /\ crit = NoCrit /\ pc[g_active_task] = "user"
  BY CallerReady DEF OwnInv
<1> QED
  BY <1>1 DEF Live, OwnInv, CoreInv, ListInv, WaitListsOK, PendStates

\* A step that leaves the core alone, and crit.
LEMMA RestKept ==
  ASSUME OwnInv, crit = NoCrit, UNCHANGED <<coreVars, b_prio>>, MutexTypes'
  PROVE  /\ CoreInv' /\ TypeOK' /\ BaseOK' /\ CritOK' /\ crit' = NoCrit
         /\ (\A m : ~Loose(m)') /\ (\A t : ~Dying(t)')
         /\ \A t : Live(t)' <=> Live(t)
         /\ blk_list' = blk_list
<1>1. CoreInv' /\ crit' = crit /\ blk_list' = blk_list
  BY CoreKept DEF OwnInv
<1>2. crit' \in CritTypes
  BY <1>1, Types
<1>3. (\A m : ~Loose(m)') /\ (\A t : ~Dying(t)') /\ crit'.op = "none"
  BY <1>1 DEF Loose, Dying, Doing, NoCrit
<1>4. BaseOK' /\ CritOK'
  BY <1>3 DEF OwnInv, BaseOK, CritOK, Doing
<1> QED
  BY <1>1, <1>2, <1>3, <1>4, TypesNext DEF Live, coreVars, tcbVars

\* krhino_mutex_lock by the owner nests.
LEMMA mutex_lock_nested ==
  ASSUME OwnInv, NEW m \in Obj, crit = NoCrit, UNCHANGED <<coreVars, b_prio, obj_type>>,
         owner_nested[m] < MaxNested,
         owner_nested' = [owner_nested EXCEPT ![m] = @ + 1],
         UNCHANGED <<mutex_task, mutex_next, mutex_head>>
  PROVE  OwnInv'
<1>1. MutexTypes /\ CoreTypeOK
  BY Types
<1>2. MutexTypes'
  BY <1>1, MutexAssumption DEF MutexTypes
<1>3. /\ CoreInv' /\ TypeOK' /\ BaseOK' /\ CritOK' /\ crit' = NoCrit
      /\ (\A x : ~Loose(x)') /\ (\A t : ~Dying(t)')
      /\ \A t : Live(t)' <=> Live(t)
      /\ blk_list' = blk_list
  BY <1>2, RestKept
<1>4. (\A x : ~Loose(x)) /\ (\A t : ~Dying(t)) /\ crit.op = "none"
  BY AtRest
<1>5. \A u : Owned(u)' = Owned(u)
  BY <1>3, <1>4 DEF Owned
<1>6. ListsOwned' /\ FreeOwned' /\ DeletedOK'
  BY <1>3, <1>4, <1>5 DEF OwnInv, OwnOK, ListsOwned, FreeOwned, DeletedOK, Held, Doing, NoCrit
<1>7. \A x \in Obj : owner_nested[x] > 0 => owner_nested'[x] > 0
  BY <1>1 DEF MutexTypes
<1>8. OwnersOK'
  BY <1>1, <1>3, <1>4, <1>7 DEF OwnInv, OwnOK, OwnersOK, MutexTypes, Live
<1> QED
  BY <1>3, <1>6, <1>8 DEF OwnInv, OwnOK

\* krhino_mutex_lock of a free mutex.
LEMMA mutex_lock_free ==
  ASSUME OwnInv, NEW m \in Obj, TaskCall("mutex_lock"), obj_type[m], mutex_task[m] = NoTask,
         mutex_get(m, g_active_task), nested_first(m),
         UNCHANGED <<coreVars, b_prio, obj_type>>
  PROVE  OwnInv'
<1> DEFINE t == g_active_task
<1>1. t \in Task \ {Idle} /\ Live(t) /\ crit = NoCrit /\ \A x \in Obj : t \notin ToSet(blk_list[x])
  BY CallerLive
<1>2. /\ (\A x : ~Loose(x)) /\ (\A u : ~Dying(u)) /\ crit.op = "none"
      /\ \A u : Owned(u) = {x \in Obj : obj_type[x] /\ mutex_task[x] = u}
  BY <1>1, AtRest
<1>3. MutexTypes /\ CoreTypeOK
  BY Types
<1>4. /\ mutex_head' \in [Task -> Obj \cup {NoObj}] /\ mutex_next' \in Links
      /\ mutex_task' \in [Obj -> Task \cup {NoTask}]
      /\ \A u \in Task : Live(u) /\ ~Dying(u) =>
           /\ Chain(mutex_next', mutex_head'[u]) = IF u = t THEN Owned(u) \cup {m} ELSE Owned(u)
           /\ Linked(mutex_next', mutex_head'[u])
  <2>1. \A u \in Task : m \notin Owned(u)
    BY <1>2, MutexAssumption
  <2> QED
    BY <1>1, <1>2, <2>1, GetOwn
<1>5. /\ owner_nested' = [owner_nested EXCEPT ![m] = 1]
      /\ mutex_task' = [mutex_task EXCEPT ![m] = t]
  BY DEF nested_first, mutex_get
<1>6. MutexTypes'
  BY <1>3, <1>4, <1>5, MutexAssumption DEF MutexTypes
<1>7. /\ CoreInv' /\ TypeOK' /\ BaseOK' /\ CritOK' /\ crit' = NoCrit
      /\ (\A x : ~Loose(x)') /\ (\A u : ~Dying(u)')
      /\ \A u : Live(u)' <=> Live(u)
      /\ blk_list' = blk_list
  BY <1>1, <1>6, RestKept
<1>8. \A u \in Task : Owned(u)' = IF u = t THEN Owned(u) \cup {m} ELSE Owned(u)
  BY <1>2, <1>3, <1>5, <1>7, MutexAssumption DEF Owned, MutexTypes
<1>9. ListsOwned'
  BY <1>2, <1>4, <1>7, <1>8 DEF ListsOwned, Held
<1>10. FreeOwned' /\ DeletedOK'
  BY <1>2, <1>7 DEF OwnInv, OwnOK, FreeOwned, DeletedOK, Doing, NoCrit
<1>11. OwnersOK'
  <2> SUFFICES ASSUME NEW x \in Obj, obj_type[x]
               PROVE  /\ mutex_task'[x] = NoTask => blk_list[x] = << >>
                      /\ mutex_task'[x] # NoTask =>
                           /\ Live(mutex_task[x])' /\ mutex_task'[x] # Idle
                           /\ owner_nested'[x] > 0
                           /\ mutex_task'[x] \notin ToSet(blk_list[x])
    BY <1>7 DEF OwnersOK
  <2>1. CASE x = m
    BY <1>1, <1>3, <1>5, <1>7, <2>1, MutexAssumption DEF MutexTypes, Live
  <2>2. CASE x # m
    BY <1>2, <1>3, <1>5, <1>7, <2>2 DEF OwnInv, OwnOK, OwnersOK, MutexTypes, Live
  <2> QED
    BY <2>1, <2>2
<1> QED
  BY <1>7, <1>9, <1>10, <1>11 DEF OwnInv, OwnOK

\* Entering or going on in a section of task_pri_change, where nothing changes hands.
LEMMA SectionEntered ==
  ASSUME OwnInv, crit = NoCrit, crit' \in CritTypes, crit'.op = "pri_change", CritOK', BaseOK',
         UNCHANGED <<tcbVars, rrVars, queueVars, g_tick_count, cpuVars, callVars>>, MutexTypes'
  PROVE  /\ CoreInv' /\ TypeOK' /\ (\A t : ~Dying(t)')
         /\ (\A t : Live(t)' <=> Live(t)) /\ blk_list' = blk_list /\ FreeOwned'
<1>1. CoreInv'
  BY EnterLoop DEF OwnInv, NoCrit
<1> QED
  BY <1>1, TypesNext DEF Dying, Live, tcbVars, queueVars, FreeOwned

\* ... as when a task that wants another's mutex passes on its priority.
LEMMA mutex_lock_boost ==
  ASSUME OwnInv, NEW m \in Obj, TaskCall("mutex_lock"), obj_type[m],
         mutex_task[m] \notin {NoTask, g_active_task}, NEW ticks \in 0 .. TickMod - 1,
         MayStop(g_active_task),
         crit' = PriChange(IF prio[g_active_task] < prio[mutex_task[m]] THEN mutex_task[m] ELSE NoTask,
                           prio[g_active_task], After("mutex_lock", m, ticks)),
         UNCHANGED <<tcbVars, rrVars, queueVars, g_tick_count, cpuVars, callVars, mutexVars>>
  PROVE  OwnInv'
<1> DEFINE t == g_active_task
           after == After("mutex_lock", m, ticks)
           x == IF prio[t] < prio[mutex_task[m]] THEN mutex_task[m] ELSE NoTask
<1>1. /\ t \in Task \ {Idle} /\ Live(t) /\ crit = NoCrit /\ task_state[t] = "K_RDY"
      /\ isr = "none" /\ pc[t] = "user"
  BY CallerLive
<1>2. MutexTypes /\ CoreTypeOK
  BY Types
<1>3. mutex_task[m] \in Task \ {Idle} /\ Live(mutex_task[m])
  BY <1>2 DEF OwnInv, OwnOK, OwnersOK, MutexTypes
<1>4. after \in AfterType /\ after.op = "mutex_lock" /\ after.obj = m
  BY AfterShape
<1>5. prio[t] \in Prio /\ prio[t] < IDLE_PRI
  BY <1>1, <1>2 DEF CoreTypeOK, OwnInv, CoreInv, ListInv, IdleOK
<1>6. /\ x \in Task \cup {NoTask} /\ x # Idle
      /\ x # NoTask => task_state'[x] \notin {"K_SEED", "K_DELETED"}
  BY <1>3, TaskAssumption, MutexAssumption DEF Live, tcbVars
<1>7. g_sched_lock = 0
  BY DEF MayStop
<1>8. /\ CritOK' /\ crit' \in CritTypes /\ crit'.op = "pri_change" /\ crit'.after = after
  <2> HIDE DEF x, after
  <2>1. crit' = PriChange(x, prio[t], after)
    BY DEF x, after
  <2>2. g_active_task' = t /\ isr' = "none" /\ pc'[t] = "user" /\ task_state'[t] = "K_RDY"
        /\ g_sched_lock' = 0 /\ obj_type'[m] /\ mutex_task'[m] \notin {NoTask, t}
    BY <1>1, <1>7 DEF cpuVars, callVars, tcbVars, mutexVars
  <2> QED
    BY <1>1, <1>4, <1>5, <1>6, <2>1, <2>2, EnterPri DEF Live
<1>9. MutexTypes' /\ BaseOK'
  BY <1>2 DEF OwnInv, MutexTypes, BaseOK, mutexVars
<1>10. /\ CoreInv' /\ TypeOK' /\ (\A u : ~Dying(u)')
       /\ (\A u : Live(u)' <=> Live(u)) /\ blk_list' = blk_list
  BY <1>1, <1>8, <1>9, SectionEntered
<1>11. OwnOK'
  <2>1. (\A y : ~Loose(y)) /\ (\A u : ~Dying(u)) /\ ~Doing("mutex_del")
    BY <1>1, AtRest
  <2>2. (\A y : ~Loose(y)') /\ crit'.op # "mutex_free"
    BY <1>4, <1>8 DEF Loose, Doing
  <2>3. \A y \in Obj : obj_type[y] /\ mutex_task[y] # NoTask => Live(mutex_task[y])'
    BY <1>2 DEF OwnInv, OwnOK, OwnersOK, MutexTypes, Live, tcbVars, mutexVars
  <2> QED
    BY <1>10, <2>1, <2>2, <2>3, OwnSame DEF mutexVars, CoreInv
<1> QED
  BY <1>8, <1>9, <1>10, <1>11 DEF OwnInv

LEMMA krhino_mutex_lock_Own ==
  ASSUME OwnInv, NEW m \in Obj, NEW ticks \in 0 .. TickMod - 1, krhino_mutex_lock(m, ticks)
  PROVE  OwnInv'
<1>1. /\ TaskCall("mutex_lock") /\ obj_type[m] /\ crit = NoCrit
      /\ UNCHANGED <<tcbVars, rrVars, queueVars, g_tick_count, cpuVars, callVars, b_prio, obj_type>>
  BY DEF krhino_mutex_lock, TaskCall
<1>2. CASE /\ owner_nested[m] < MaxNested
           /\ owner_nested' = [owner_nested EXCEPT ![m] = @ + 1]
           /\ UNCHANGED <<crit, mutex_task, mutex_next, mutex_head>>
  BY <1>1, <1>2, mutex_lock_nested DEF coreVars
<1>3. CASE mutex_task[m] = NoTask /\ mutex_get(m, g_active_task) /\ nested_first(m) /\ UNCHANGED crit
  BY <1>1, <1>3, mutex_lock_free DEF coreVars
<1>4. CASE /\ mutex_task[m] \notin {NoTask, g_active_task} /\ MayStop(g_active_task)
           /\ crit' = PriChange(IF prio[g_active_task] < prio[mutex_task[m]] THEN mutex_task[m] ELSE NoTask,
                                prio[g_active_task], After("mutex_lock", m, ticks))
           /\ UNCHANGED <<owner_nested, mutex_task, mutex_next, mutex_head>>
  BY <1>1, <1>4, mutex_lock_boost DEF mutexVars
<1> QED
  BY <1>2, <1>3, <1>4 DEF krhino_mutex_lock

\* mutex_release: the owner, or nobody, is next.
LEMMA ReleaseShape ==
  ASSUME NEW t, NEW due, NEW after
  PROVE  \E x \in {t, NoTask} : Release(t, due, after) = PriChange(x, due, after)
  BY DEF Release

\* krhino_mutex_unlock: the mutex is unlinked before the owner gives up what it inherited.
LEMMA krhino_mutex_unlock_Own ==
  ASSUME OwnInv, NEW m \in Obj, krhino_mutex_unlock(m) PROVE OwnInv'
<1> DEFINE t == g_active_task
<1>1. /\ TaskCall("mutex_unlock") /\ obj_type[m] /\ mutex_task[m] = t
      /\ owner_nested' = [owner_nested EXCEPT ![m] = @ - 1]
      /\ UNCHANGED <<tcbVars, rrVars, queueVars, g_tick_count, cpuVars, callVars,
                     b_prio, obj_type, mutex_task>>
  BY DEF krhino_mutex_unlock, Unlockable
<1>2. /\ t \in Task \ {Idle} /\ Live(t) /\ crit = NoCrit
      /\ isr = "none" /\ pc[t] = "user" /\ task_state[t] = "K_RDY"
  BY <1>1, CallerLive
<1>3. /\ (\A x : ~Loose(x)) /\ (\A u : ~Dying(u)) /\ crit.op = "none" /\ ~Doing("mutex_del")
      /\ \A u : Owned(u) = {x \in Obj : obj_type[x] /\ mutex_task[x] = u}
      /\ \A x \in Obj : ~obj_type[x] => blk_list[x] = << >>
  BY <1>2, AtRest
<1>4. MutexTypes /\ CoreTypeOK
  BY Types
<1>5. owner_nested[m] > 0
  BY <1>1, <1>2, <1>3, MutexAssumption DEF OwnInv, OwnOK, OwnersOK
<1>6. owner_nested' \in [Obj -> 0 .. MaxNested]
  BY <1>1, <1>4, <1>5, MutexAssumption DEF MutexTypes
<1>7. CASE owner_nested[m] > 1
  <2>1. UNCHANGED <<coreVars, mutex_head, mutex_next>>
    BY <1>1, <1>7 DEF krhino_mutex_unlock, StillNested, coreVars
  <2>2. MutexTypes'
    BY <1>1, <1>4, <1>6, <2>1 DEF MutexTypes
  <2>3. /\ CoreInv' /\ TypeOK' /\ BaseOK' /\ CritOK' /\ crit' = NoCrit
        /\ (\A x : ~Loose(x)') /\ (\A u : ~Dying(u)')
        /\ \A u : Live(u)' <=> Live(u)
        /\ blk_list' = blk_list
    BY <1>1, <1>2, <2>1, <2>2, RestKept
  <2>4. \A u : Owned(u)' = Owned(u)
    BY <1>1, <1>3, <2>3 DEF Owned
  <2>5. ListsOwned' /\ FreeOwned' /\ DeletedOK'
    BY <1>1, <1>3, <2>1, <2>3, <2>4
       DEF OwnInv, OwnOK, ListsOwned, FreeOwned, DeletedOK, Held, Doing, NoCrit
  <2>6. \A x \in Obj : owner_nested[x] > 0 => owner_nested'[x] > 0
    BY <1>1, <1>4, <1>7 DEF MutexTypes
  <2>7. OwnersOK'
    BY <1>1, <1>3, <1>4, <2>3, <2>6 DEF OwnInv, OwnOK, OwnersOK, MutexTypes, Live
  <2> QED
    BY <2>3, <2>5, <2>7 DEF OwnInv, OwnOK
<1>8. CASE ~(owner_nested[m] > 1)
  <2> DEFINE due == mutex_pri_look(t, m, blk_list, prio)
             after == After("mutex_unlock", m, 0)
  <2>1. mutex_unlink(t, m) /\ crit' = Release(t, due, after)
    BY <1>8 DEF krhino_mutex_unlock, StillNested
  <2>2. due \in Prio /\ due < IDLE_PRI
    BY <1>2, <1>4, LookRange DEF CoreTypeOK
  <2>3. after \in AfterType /\ after.op = "mutex_unlock" /\ after.obj = m
    BY AfterShape, TickAssumption
  <2>4. /\ mutex_head' \in [Task -> Obj \cup {NoObj}] /\ mutex_next' \in Links
        /\ \A u \in Task : Live(u) =>
             /\ Chain(mutex_next', mutex_head'[u]) = Owned(u) \ {m}
             /\ Linked(mutex_next', mutex_head'[u])
    BY <1>1, <1>2, <1>3, <2>1, UnlinkOwn
  <2>5. PICK x \in {t, NoTask} : crit' = PriChange(x, due, after)
    BY <2>1, ReleaseShape
  <2> HIDE DEF due, after
  <2>6. /\ CritOK' /\ crit' \in CritTypes /\ crit'.op = "pri_change" /\ crit'.after = after
    <3>1. /\ x \in Task \cup {NoTask} /\ x # Idle
          /\ x # NoTask => task_state'[x] \notin {"K_SEED", "K_DELETED"}
      BY <1>1, <1>2, TaskAssumption, MutexAssumption DEF Live, tcbVars
    <3>2. /\ g_active_task' = t /\ isr' = "none" /\ pc'[t] = "user" /\ obj_type'[m] /\ mutex_task'[m] = t
          /\ task_state'[t] = "K_RDY"
      BY <1>1, <1>2 DEF cpuVars, callVars, tcbVars
    <3> QED
      BY <1>2, <2>2, <2>3, <2>5, <3>1, <3>2, EnterPri DEF Live
  <2>7. MutexTypes' /\ BaseOK'
    BY <1>1, <1>4, <1>6, <2>4 DEF OwnInv, MutexTypes, BaseOK
  <2>8. /\ CoreInv' /\ TypeOK' /\ (\A u : ~Dying(u)')
        /\ (\A u : Live(u)' <=> Live(u)) /\ blk_list' = blk_list /\ FreeOwned'
    BY <1>1, <1>2, <2>6, <2>7, SectionEntered
  <2>9. \A y : Loose(y)' <=> y = m
    BY <2>3, <2>6 DEF Loose, Doing
  <2>10. \A u : Owned(u)' = Owned(u) \ {m}
    BY <1>1, <1>3, <2>9 DEF Owned
  <2>11. ListsOwned'
    BY <2>4, <2>8, <2>10 DEF ListsOwned, Held
  <2>12. DeletedOK'
    BY <1>1, <1>3, <2>8 DEF DeletedOK
  <2>13. OwnersOK'
    <3> SUFFICES ASSUME NEW y \in Obj, obj_type[y]
                 PROVE  /\ mutex_task[y] = NoTask => blk_list[y] = << >>
                        /\ mutex_task[y] # NoTask =>
                             /\ Live(mutex_task[y])' /\ mutex_task[y] # Idle
                             /\ owner_nested'[y] > 0 \/ y = m
                             /\ mutex_task[y] \notin ToSet(blk_list[y])
      BY <1>1, <2>8, <2>9 DEF OwnersOK
    <3>1. y # m => owner_nested'[y] = owner_nested[y]
      BY <1>1, <1>4 DEF MutexTypes
    <3> QED
      BY <1>1, <1>3, <3>1 DEF OwnInv, OwnOK, OwnersOK, Live, tcbVars
  <2> QED
    BY <2>6, <2>7, <2>8, <2>11, <2>12, <2>13 DEF OwnInv, OwnOK
<1> QED
  BY <1>7, <1>8

\* krhino_mutex_del: the mutex is unlinked from the list of its owner, if it has one.
LEMMA krhino_mutex_del_Own ==
  ASSUME OwnInv, NEW m \in Obj, krhino_mutex_del(m) PROVE OwnInv'
<1> DEFINE owner == mutex_task[m]
           due   == mutex_pri_look(owner, m, blk_list, prio)
           after == After("mutex_del", m, 0)
<1>1. /\ TaskCall("mutex_del") /\ obj_type[m]
      /\ obj_type' = [obj_type EXCEPT ![m] = FALSE]
      /\ UNCHANGED <<tcbVars, rrVars, queueVars, g_tick_count, cpuVars, callVars,
                     b_prio, mutex_task, owner_nested>>
  BY DEF krhino_mutex_del
<1>2. /\ g_active_task \in Task \ {Idle} /\ crit = NoCrit
      /\ isr = "none" /\ pc[g_active_task] = "user"
  BY <1>1, CallerLive
<1>3. /\ (\A x : ~Loose(x)) /\ (\A u : ~Dying(u)) /\ crit.op = "none"
      /\ \A u \in Task : Live(u) =>
           Chain(mutex_next, mutex_head[u]) = Owned(u) /\ Linked(mutex_next, mutex_head[u])
      /\ \A u : Owned(u) = {x \in Obj : obj_type[x] /\ mutex_task[x] = u}
      /\ \A x \in Obj : ~obj_type[x] => blk_list[x] = << >>
  BY <1>2, AtRest
<1>4. MutexTypes /\ CoreTypeOK
  BY Types
<1>5. after \in AfterType /\ after.op = "mutex_del" /\ after.obj = m
  BY AfterShape, TickAssumption
<1>6. \E x \in Task \cup {NoTask}, p \in Prio :
        /\ crit' = PriChange(x, p, after) /\ x # Idle /\ p < IDLE_PRI
        /\ x # NoTask => task_state'[x] \notin {"K_SEED", "K_DELETED"}
  <2>1. CASE owner = NoTask
    <3>1. crit' = PriChange(NoTask, 0, after)
      BY <2>1 DEF krhino_mutex_del
    <3>2. 0 \in Prio /\ 0 < IDLE_PRI /\ NoTask # Idle
      BY PriAssumption, TaskAssumption, MutexAssumption DEF Prio, IDLE_PRI
    <3> HIDE DEF after
    <3> QED
      BY <3>1, <3>2
  <2>2. CASE owner # NoTask
    <3>1. owner \in Task \ {Idle} /\ Live(owner)
      BY <1>1, <1>4, <2>2 DEF OwnInv, OwnOK, OwnersOK, MutexTypes
    <3>2. due \in Prio /\ due < IDLE_PRI
      BY <1>4, <3>1, LookRange DEF CoreTypeOK
    <3>3. crit' = Release(owner, due, after)
      BY <2>2 DEF krhino_mutex_del
    <3> HIDE DEF due, after
    <3>4. PICK x \in {owner, NoTask} : crit' = PriChange(x, due, after)
      BY <3>3, ReleaseShape
    <3>5. /\ x \in Task \cup {NoTask} /\ x # Idle
          /\ x # NoTask => task_state'[x] \notin {"K_SEED", "K_DELETED"}
      BY <1>1, <3>1, TaskAssumption, MutexAssumption DEF Live, tcbVars
    <3> QED
      BY <3>2, <3>4, <3>5
  <2> QED
    BY <2>1, <2>2
<1>7. /\ mutex_head' \in [Task -> Obj \cup {NoObj}] /\ mutex_next' \in Links
      /\ \A u \in Task : Live(u) =>
           /\ Chain(mutex_next', mutex_head'[u]) = Owned(u) \ {m}
           /\ Linked(mutex_next', mutex_head'[u])
  <2>1. CASE owner = NoTask
    <3>1. mutex_head' = mutex_head /\ mutex_next' = mutex_next
      BY <2>1 DEF krhino_mutex_del
    <3>2. \A u \in Task : m \notin Owned(u)
      BY <1>3, <2>1, MutexAssumption
    <3> QED
      BY <1>3, <1>4, <3>1, <3>2 DEF MutexTypes
  <2>2. CASE owner # NoTask
    <3>1. owner \in Task /\ Live(owner)
      BY <1>1, <1>4, <2>2 DEF OwnInv, OwnOK, OwnersOK, MutexTypes
    <3>2. mutex_unlink(owner, m) /\ m \in Owned(owner)
      BY <1>1, <1>3, <2>2 DEF krhino_mutex_del
    <3> QED
      BY <1>2, <3>1, <3>2, UnlinkOwn
  <2> QED
    BY <2>1, <2>2
<1> HIDE DEF after
<1>8. /\ CritOK' /\ crit' \in CritTypes /\ crit'.op = "pri_change" /\ crit'.after = after
  <2>1. g_active_task' # Idle /\ isr' = "none" /\ pc'[g_active_task'] = "user" /\ ~obj_type'[m]
    BY <1>1, <1>2, <1>4 DEF cpuVars, callVars, MutexTypes
  <2> QED
    BY <1>5, <1>6, <2>1, EnterPri DEF Live
<1>9. MutexTypes' /\ BaseOK'
  BY <1>1, <1>4, <1>7 DEF OwnInv, MutexTypes, BaseOK
<1>10. /\ CoreInv' /\ TypeOK' /\ (\A u : ~Dying(u)')
       /\ (\A u : Live(u)' <=> Live(u)) /\ blk_list' = blk_list /\ FreeOwned'
  BY <1>1, <1>2, <1>8, <1>9, SectionEntered
<1>11. (\A y : ~Loose(y)') /\ Doing("mutex_del")' /\ crit'.after.obj = m
  BY <1>5, <1>8 DEF Loose, Doing
<1>12. \A u : Owned(u)' = Owned(u) \ {m}
  BY <1>1, <1>3, <1>4, <1>11 DEF Owned, MutexTypes
<1>13. ListsOwned'
  BY <1>7, <1>10, <1>12 DEF ListsOwned, Held
<1>14. DeletedOK'
  BY <1>1, <1>3, <1>4, <1>10, <1>11 DEF DeletedOK, MutexTypes
<1>15. OwnersOK'
  <2> SUFFICES ASSUME NEW y \in Obj, obj_type'[y]
               PROVE  /\ mutex_task[y] = NoTask => blk_list[y] = << >>
                      /\ mutex_task[y] # NoTask =>
                           /\ Live(mutex_task[y])' /\ mutex_task[y] # Idle
                           /\ owner_nested[y] > 0
                           /\ mutex_task[y] \notin ToSet(blk_list[y])
    BY <1>1, <1>10 DEF OwnersOK
  <2>1. obj_type[y]
    BY <1>1, <1>4 DEF MutexTypes
  <2> QED
    BY <1>1, <1>3, <2>1 DEF OwnInv, OwnOK, OwnersOK, Live, tcbVars
<1> QED
  BY <1>8, <1>9, <1>10, <1>13, <1>14, <1>15 DEF OwnInv, OwnOK

-----------------------------------------------------------------------------
(***************************************************************************)
(* The task services.                                                      *)
(***************************************************************************)
\* A new task holds nothing.
LEMMA mutex_task_create_Own ==
  ASSUME OwnInv, NEW t \in Task, NEW p \in Prio, NEW autorun \in BOOLEAN,
         mutex_task_create(t, p, autorun)
  PROVE  OwnInv'
<1>1. /\ krhino_task_create(t, p, autorun)
      /\ b_prio'     = [b_prio EXCEPT ![t] = p]
      /\ mutex_head' = [mutex_head EXCEPT ![t] = NoObj]
      /\ UNCHANGED <<obj_type, mutex_task, mutex_next, owner_nested>>
  BY DEF mutex_task_create
<1>2. CoreInv'
  BY <1>1, krhino_task_create_Inv DEF OwnInv
<1>3. /\ crit = NoCrit /\ crit' = crit /\ blk_list' = blk_list /\ p < IDLE_PRI
      /\ task_state[t] \in {"K_SEED", "K_DELETED"}
      /\ \E st \in {"K_RDY", "K_SUSPENDED"} : task_state' = [task_state EXCEPT ![t] = st]
  BY <1>1 DEF krhino_task_create, TaskCall
<1>4. /\ (\A x : ~Loose(x)) /\ (\A u : ~Dying(u)) /\ crit.op = "none"
      /\ \A u \in Task : Live(u) =>
           Chain(mutex_next, mutex_head[u]) = Owned(u) /\ Linked(mutex_next, mutex_head[u])
  BY <1>3, AtRest
<1>5. MutexTypes /\ CoreTypeOK /\ crit \in CritTypes
  BY Types
<1>6. ~Live(t) /\ \A u \in Task \ {t} : Live(u)' <=> Live(u)
  BY <1>3, <1>5 DEF Live, CoreTypeOK
<1>7. MutexTypes' /\ TypeOK'
  <2>1. MutexTypes'
    BY <1>1, <1>5 DEF MutexTypes
  <2> QED
    BY <1>2, <1>3, <1>5, <2>1, TypesNext
<1>8. BaseOK' /\ CritOK'
  <2>1. BaseOK'
    BY <1>1, <1>3, <1>5 DEF OwnInv, BaseOK, MutexTypes
  <2> QED
    BY <1>3, <1>4, <2>1 DEF CritOK, Doing
<1>9. (\A x : ~Loose(x)') /\ (\A u : ~Dying(u)')
  BY <1>3, <1>4 DEF Loose, Dying, Doing
<1>10. \A u : Owned(u)' = Owned(u)
  BY <1>1, <1>4, <1>9 DEF Owned
<1>11. Owned(t) = {}
  BY <1>5, <1>6, MutexAssumption DEF Owned, OwnInv, OwnOK, OwnersOK, MutexTypes
<1>12. ListsOwned'
  <2> SUFFICES ASSUME NEW u \in Task, Live(u)'
               PROVE  /\ Chain(mutex_next, mutex_head'[u]) = Owned(u)
                      /\ Linked(mutex_next, mutex_head'[u])
    BY <1>1, <1>10 DEF ListsOwned, Held
  <2>1. CASE u = t
    <3>1. mutex_head'[u] = NoObj
      BY <1>1, <1>5, <2>1 DEF MutexTypes
    <3>2. Chain(mutex_next, NoObj) = {}
      BY <1>5, ChainEmpty DEF MutexTypes
    <3> QED
      BY <1>11, <2>1, <3>1, <3>2 DEF Linked
  <2>2. CASE u # t
    <3>1. mutex_head'[u] = mutex_head[u] /\ Live(u)
      BY <1>1, <1>5, <1>6, <2>2 DEF MutexTypes
    <3> QED
      BY <1>4, <3>1
  <2> QED
    BY <2>1, <2>2
<1>13. FreeOwned' /\ DeletedOK'
  BY <1>1, <1>3, <1>4 DEF OwnInv, OwnOK, FreeOwned, DeletedOK, Doing
<1>14. OwnersOK'
  <2> SUFFICES ASSUME NEW y \in Obj, obj_type[y]
               PROVE  /\ mutex_task[y] = NoTask => blk_list[y] = << >>
                      /\ mutex_task[y] # NoTask =>
                           /\ Live(mutex_task[y])' /\ mutex_task[y] # Idle
                           /\ owner_nested[y] > 0
                           /\ mutex_task[y] \notin ToSet(blk_list[y])
    BY <1>1, <1>3 DEF OwnersOK
  <2>1. mutex_task[y] # NoTask => Live(mutex_task[y]) /\ mutex_task[y] \in Task
    BY <1>5 DEF OwnInv, OwnOK, OwnersOK, MutexTypes
  <2>2. mutex_task[y] # NoTask => task_state'[mutex_task[y]] = task_state[mutex_task[y]]
    BY <1>3, <1>5, <1>6, <2>1 DEF CoreTypeOK
  <2> QED
    BY <1>1, <1>4, <2>1, <2>2 DEF OwnInv, OwnOK, OwnersOK, Live
<1> QED
  BY <1>2, <1>7, <1>8, <1>12, <1>13, <1>14 DEF OwnInv, OwnOK

\* krhino_task_pri_change enters its critical section.
LEMMA pri_change_enter_Own ==
  ASSUME OwnInv, NEW t, NEW p, pri_change_enter(t, p) PROVE OwnInv'
<1> DEFINE due   == mutex_pri_limit(t, p)
           after == After("task_pri_change", NoObj, 0)
<1>1. /\ crit = NoCrit /\ isr = "none" /\ pc[g_active_task] = "pri_change" /\ arg[g_active_task] = <<t, p>>
      /\ b_prio' = [b_prio EXCEPT ![t] = p]
      /\ crit'   = PriChange(t, due, after)
      /\ UNCHANGED <<tcbVars, rrVars, queueVars, g_tick_count, cpuVars, callVars,
                     mutex_head, obj_type, mutex_task, mutex_next, owner_nested>>
  BY DEF pri_change_enter, PriChangeEnter
<1>2. MutexTypes /\ CoreTypeOK
  BY Types
<1>3. t \in Task \ {Idle} /\ p \in Prio /\ p < IDLE_PRI
  <2>1. <<t, p>> \in (Task \ {Idle}) \X (0 .. IDLE_PRI - 1)
    BY <1>1, <1>2 DEF OwnInv, CoreInv, CallInv, PriArgOK, CoreTypeOK
  <2> QED
    BY <2>1, PriAssumption DEF Prio, IDLE_PRI
<1>4. due \in Prio /\ due < IDLE_PRI
  <2>1. Held(t) \subseteq Obj
    BY DEF Held, Chain
  <2>2. HighestOf(p, Held(t), blk_list, prio) \in Prio /\ HighestOf(p, Held(t), blk_list, prio) <= p
    BY <1>2, <1>3, <2>1, HighestRange DEF CoreTypeOK
  <2> QED
    BY <1>3, <2>2, PriAssumption DEF mutex_pri_limit, Prio, IDLE_PRI
<1>5. after \in AfterType /\ after.op = "task_pri_change"
  BY AfterShape, TickAssumption
<1> HIDE DEF due, after
<1>6. /\ CritOK' /\ crit' \in CritTypes /\ crit'.op = "pri_change" /\ crit'.after = after
  <2>1. isr' = "none" /\ pc'[g_active_task'] = "pri_change"
    BY <1>1 DEF cpuVars, callVars
  <2> QED
    BY <1>1, <1>3, <1>4, <1>5, <2>1, EnterPri
<1>7. MutexTypes' /\ BaseOK'
  BY <1>1, <1>2, <1>3 DEF OwnInv, MutexTypes, BaseOK
<1>8. /\ CoreInv' /\ TypeOK' /\ (\A u : ~Dying(u)')
      /\ (\A u : Live(u)' <=> Live(u)) /\ blk_list' = blk_list
  BY <1>1, <1>6, <1>7, SectionEntered
<1>9. OwnOK'
  <2>1. (\A y : ~Loose(y)) /\ (\A u : ~Dying(u)) /\ ~Doing("mutex_del")
    BY <1>1, AtRest
  <2>2. (\A y : ~Loose(y)') /\ crit'.op # "mutex_free"
    BY <1>5, <1>6 DEF Loose, Doing
  <2>3. \A y \in Obj : obj_type[y] /\ mutex_task[y] # NoTask => Live(mutex_task[y])'
    BY <1>1, <1>2 DEF OwnInv, OwnOK, OwnersOK, MutexTypes, Live, tcbVars
  <2> QED
    BY <1>1, <1>8, <2>1, <2>2, <2>3, OwnSame DEF CoreInv
<1> QED
  BY <1>6, <1>7, <1>8, <1>9 DEF OwnInv

\* krhino_task_del enters the loop that releases the mutexes of the task.  A task that was
\* deleted before owns none; applications do not delete it again where its stale list head
\* would be followed.
LEMMA krhino_task_del_Own ==
  ASSUME OwnInv, "task_del_again" \notin Calls, NEW t \in Task, krhino_task_del(t) PROVE OwnInv'
<1>1. /\ TaskCall("task_del") /\ prio[t] # IDLE_PRI /\ MayStop(t) /\ task_state[t] # "K_SEED"
      /\ task_state[t] = "K_DELETED" => mutex_head[t] = NoObj
      /\ crit' = [op |-> "mutex_free", task |-> t, obj |-> mutex_head[t]]
      /\ UNCHANGED <<tcbVars, rrVars, queueVars, g_tick_count, cpuVars, callVars, mutexVars>>
  BY DEF krhino_task_del, TaskDelEnter
<1>2. crit = NoCrit /\ isr = "none" /\ pc[g_active_task] = "user" /\ task_state[g_active_task] = "K_RDY"
  BY <1>1, CallerLive
<1>3. /\ (\A x : ~Loose(x)) /\ (\A u : ~Dying(u)) /\ crit.op = "none" /\ ~Doing("mutex_del")
      /\ \A u \in Task : Live(u) =>
           Chain(mutex_next, mutex_head[u]) = Owned(u) /\ Linked(mutex_next, mutex_head[u])
  BY <1>2, AtRest
<1>4. MutexTypes /\ CoreTypeOK
  BY Types
<1>5. t # Idle
  BY <1>1 DEF OwnInv, CoreInv, ListInv, IdleOK
<1>6. crit' \in CritTypes /\ crit'.op = "mutex_free" /\ crit'.task = t /\ crit'.obj = mutex_head[t]
  BY <1>1, <1>4 DEF CritTypes, MutexTypes
<1>7. CoreInv' /\ blk_list' = blk_list /\ \A u : Live(u)' <=> Live(u)
  <2>1. CoreInv'
    BY <1>1, <1>6, EnterLoop DEF OwnInv, NoCrit
  <2> QED
    BY <1>1, <2>1 DEF Live, tcbVars, queueVars
<1>8. TypeOK' /\ BaseOK' /\ CritOK'
  <2>1. MutexTypes' /\ BaseOK'
    BY <1>1, <1>4 DEF OwnInv, MutexTypes, BaseOK, mutexVars
  <2>2. CritOK'
    BY <1>1, <1>2, <1>5, <1>6 DEF CritOK, Doing, MayStop, cpuVars, callVars, tcbVars
  <2> QED
    BY <1>6, <1>7, <2>1, <2>2, TypesNext
<1>9. \A x : ~Loose(x)' /\ ~Doing("mutex_del")'
  BY <1>6 DEF Loose, Doing
<1>10. \A u : Owned(u)' = Owned(u)
  BY <1>1, <1>3, <1>9 DEF Owned, mutexVars
<1>11. FreeOwned'
  <2>1. Chain(mutex_next, mutex_head[t]) = Owned(t) /\ Linked(mutex_next, mutex_head[t])
    <3>1. CASE Live(t)
      BY <1>3, <3>1
    <3>2. CASE ~Live(t)
      <4>1. mutex_head[t] = NoObj
        BY <1>1, <3>2 DEF Live
      <4>2. Owned(t) = {}
        BY <3>2, <1>4, MutexAssumption DEF Owned, OwnInv, OwnOK, OwnersOK, MutexTypes
      <4>3. Chain(mutex_next, NoObj) = {}
        BY <1>4, ChainEmpty DEF MutexTypes
      <4> QED
        BY <4>1, <4>2, <4>3 DEF Linked
    <3> QED
      BY <3>1, <3>2
  <2> QED
    BY <1>1, <1>6, <1>10, <2>1 DEF FreeOwned, mutexVars
<1>12. ListsOwned'
  BY <1>1, <1>3, <1>7, <1>10 DEF ListsOwned, Held, mutexVars
<1>13. DeletedOK'
  BY <1>1, <1>3, <1>7 DEF OwnInv, OwnOK, DeletedOK, mutexVars
<1>14. OwnersOK'
  BY <1>1, <1>3, <1>7 DEF OwnInv, OwnOK, OwnersOK, mutexVars, Live, tcbVars
<1> QED
  BY <1>7, <1>8, <1>11, <1>12, <1>13, <1>14 DEF OwnInv, OwnOK

-----------------------------------------------------------------------------
(***************************************************************************)
(* The steps of the sections.                                              *)
(***************************************************************************)
\* task_pri_change goes on with task x, or ends: nothing changes hands.
LEMMA GoOn ==
  ASSUME OwnInv, CoreInv', crit.op = "pri_change",
         NEW x \in Task \cup {NoTask}, x # Idle, NEW p \in Prio, p < IDLE_PRI,
         crit' = PriChange(x, p, crit.after),
         x # NoTask /\ crit.after.op # "task_pri_change" => Live(x),
         UNCHANGED <<task_state, cpuVars, callVars, mutexVars>>,
         \A o \in Obj : ToSet(blk_list'[o]) \subseteq ToSet(blk_list[o])
  PROVE  OwnInv'
<1>1. crit.after \in AfterType
  BY CritShape DEF OwnInv
<1>2. CritOK
  BY DEF OwnInv
<1>3. /\ CritOK' /\ crit' \in CritTypes /\ crit'.op = "pri_change" /\ crit'.after = crit.after
  <2>1. x # NoTask /\ crit.after.op # "task_pri_change" => task_state'[x] \notin {"K_SEED", "K_DELETED"}
    BY DEF Live
  <2>2. crit.after.op # "tick" =>
          /\ isr' = "none"
          /\ pc'[g_active_task'] = IF crit.after.op = "task_pri_change" THEN "pri_change" ELSE "user"
    BY <1>2 DEF CritOK, cpuVars, callVars
  <2>3. crit.after.op = "mutex_lock" =>
           /\ g_active_task' # Idle /\ task_state'[g_active_task'] = "K_RDY" /\ g_sched_lock' = 0
           /\ crit.after.obj \in Obj /\ obj_type'[crit.after.obj]
           /\ mutex_task'[crit.after.obj] \notin {NoTask, g_active_task'}
    BY <1>2 DEF CritOK, Doing, cpuVars, mutexVars
  <2>4. /\ crit.after.op = "mutex_unlock" =>
             /\ task_state'[g_active_task'] = "K_RDY"
             /\ crit.after.obj \in Obj /\ obj_type'[crit.after.obj]
             /\ mutex_task'[crit.after.obj] = g_active_task'
        /\ crit.after.op = "mutex_del" => crit.after.obj \in Obj /\ ~obj_type'[crit.after.obj]
    BY <1>2 DEF CritOK, Doing, cpuVars, mutexVars
  <2> QED
    BY <1>1, <2>1, <2>2, <2>3, <2>4, EnterPri DEF Live
<1>4. TypeOK' /\ BaseOK'
  <2>1. MutexTypes' /\ BaseOK'
    BY Types DEF OwnInv, MutexTypes, BaseOK, mutexVars
  <2> QED
    BY <1>3, <2>1, TypesNext
<1>5. OwnOK'
  <2>1. \A y : Loose(y)' <=> Loose(y)
    BY <1>3 DEF Loose, Doing
  <2>2. (\A u : ~Dying(u)) /\ crit'.op # "mutex_free"
    BY <1>3 DEF Dying
  <2>3. Doing("mutex_del") => Doing("mutex_del")' /\ crit'.after = crit.after
    BY <1>3 DEF Doing
  <2>4. \A u \in Task : Live(u)' <=> Live(u)
    BY DEF Live
  <2>5. \A y \in Obj : obj_type[y] /\ mutex_task[y] # NoTask => Live(mutex_task[y])'
    BY Types DEF OwnInv, OwnOK, OwnersOK, MutexTypes, Live, mutexVars
  <2> QED
    BY <2>1, <2>2, <2>3, <2>4, <2>5, OwnSame DEF CoreInv, mutexVars
<1> QED
  BY <1>3, <1>4, <1>5 DEF OwnInv

\* One turn of task_pri_change, as far as the core goes.
LEMMA TurnCore ==
  ASSUME OwnInv, crit # NoCrit, crit' # NoCrit, NEW t \in Task \ {Idle}, NEW p \in Prio, p < IDLE_PRI,
         task_pri_change_turn(t, p),
         UNCHANGED <<task_state, suspend_count, blk_state, blk_obj, tick_match, rrVars,
                     g_tick_head, g_tick_count, cpuVars, callVars>>
  PROVE  /\ CoreInv' /\ prio' = [prio EXCEPT ![t] = p]
         /\ \A o \in Obj : ToSet(blk_list'[o]) = ToSet(blk_list[o])
<1>1. p \in 0 .. IDLE_PRI - 1
  BY PriAssumption DEF Prio, IDLE_PRI
<1>2. /\ ListInv' /\ prio' \in [Task -> Prio] /\ g_ready_queue' \in QueueType
      /\ blk_list' \in [Obj -> Seq(Task)]
  BY <1>1, PriTurn DEF OwnInv, CoreInv
<1>3. CoreTypeOK'
  BY <1>2 DEF OwnInv, CoreInv, CoreTypeOK, QueueType, rrVars, cpuVars, callVars
<1>4. CallInv'
  BY DEF OwnInv, CoreInv, CallInv, RunsOnlyReady, LockHolderReady, PriArgOK, cpuVars, callVars
<1>5. \A o \in Obj : ToSet(blk_list'[o]) = ToSet(blk_list[o])
  <2>1. CASE task_state[t] \in PendStates
    <3>1. blk_list' = pend_list_reorder(t, prio')
      BY <2>1 DEF task_pri_change_turn
    <3> QED
      BY <2>1, <3>1, WaitReorder DEF OwnInv, CoreInv, ListInv
  <2>2. CASE task_state[t] \notin PendStates
    BY <2>2 DEF task_pri_change_turn
  <2> QED
    BY <2>1, <2>2
<1> QED
  BY <1>2, <1>3, <1>4, <1>5 DEF CoreInv, task_pri_change_turn

\* Whose turn is next: nobody's, or that of the owner of the mutex that t waits for.
LEMMA NextOwner ==
  ASSUME OwnInv, NEW t \in Task, task_state[t] \in PendStates, NEW p \in Prio, p < IDLE_PRI,
         CoreTypeOK'
  PROVE  \E x \in Task \cup {NoTask}, q \in Prio :
           /\ NextInChain(t, p) = <<x, q>> /\ x # Idle /\ q < IDLE_PRI
           /\ x # NoTask => Live(x)
<1> DEFINE m == blk_obj[t]
           owner == mutex_task[m]
           due == mutex_pri_look(owner, NoObj, blk_list', prio')
<1>1. m \in Obj /\ t \in ToSet(blk_list[m])
  BY DEF OwnInv, CoreInv, ListInv, BlkObjOK, WaitListsOK
<1>2. NoTask # Idle
  BY TaskAssumption, MutexAssumption
<1>3. \/ NextInChain(t, p) = <<NoTask, p>>
      \/ obj_type[m] /\ NextInChain(t, p) \in {<<owner, p>>, <<owner, due>>}
  BY DEF NextInChain
<1>4. CASE obj_type[m]
  <2>1. blk_list[m] # << >>
    BY <1>1, NoElements DEF OwnInv, CoreInv, CoreTypeOK
  <2>2. owner \in Task \ {Idle} /\ Live(owner)
    BY <1>1, <1>4, <2>1, Types DEF OwnInv, OwnOK, OwnersOK, MutexTypes
  <2>3. due \in Prio /\ due < IDLE_PRI
    <3>1. blk_list' \in [Obj -> Seq(Task)] /\ prio' \in [Task -> Prio]
      BY DEF CoreTypeOK
    <3> QED
      BY <2>2, <3>1, LookRange
  <2> HIDE DEF due, owner, m
  <2> QED
    BY <1>2, <1>3, <2>2, <2>3
<1>5. CASE ~obj_type[m]
  BY <1>2, <1>3, <1>5
<1> QED
  BY <1>4, <1>5

\* The loop of task_pri_change leaves ownership alone, however far it goes.
LEMMA task_pri_change_Own ==
  ASSUME OwnInv, task_pri_change PROVE OwnInv'
<1> DEFINE t == crit.task
           p == crit.pri
<1>1. /\ crit.op = "pri_change" /\ t # NoTask
      /\ UNCHANGED <<task_state, suspend_count, blk_state, blk_obj, tick_match, rrVars,
                     g_tick_head, g_tick_count, cpuVars, callVars, mutexVars>>
  BY DEF task_pri_change
<1>2. t \in Task \ {Idle} /\ p \in Prio /\ p < IDLE_PRI /\ crit # NoCrit /\ NoTask # Idle
  BY <1>1, CritShape, TaskAssumption, MutexAssumption DEF OwnInv, CritOK, NoCrit
<1>3. crit.after \in AfterType
  BY <1>1, CritShape DEF OwnInv
<1>4. CASE crit' = ChainEnds(p) /\ UNCHANGED <<prio, g_ready_queue, blk_list>>
  <2>1. crit' = PriChange(NoTask, p, crit.after)
    BY <1>4 DEF ChainEnds
  <2>2. crit' # NoCrit
    BY <1>2, <1>3, <2>1, PriChangeShape DEF NoCrit
  <2>3. CoreInv'
    BY <1>1, <1>4, <2>2, EnterLoop DEF OwnInv, tcbVars, queueVars
  <2> QED
    BY <1>1, <1>2, <1>4, <2>1, <2>3, GoOn
<1>5. CASE /\ task_state[t] \in PendStates /\ task_pri_change_turn(t, p)
           /\ LET next == NextInChain(t, p) IN crit' = PriChange(next[1], next[2], crit.after)
  <2>1. crit' # NoCrit
    BY <1>5 DEF PriChange, NoCrit
  <2>2. CoreInv' /\ \A o \in Obj : ToSet(blk_list'[o]) = ToSet(blk_list[o])
    BY <1>1, <1>2, <1>5, <2>1, TurnCore
  <2>3. PICK x \in Task \cup {NoTask}, q \in Prio :
           /\ NextInChain(t, p) = <<x, q>> /\ x # Idle /\ q < IDLE_PRI
           /\ x # NoTask => Live(x)
    <3>1. CoreTypeOK'
      BY <2>2 DEF CoreInv
    <3> QED
      BY <1>2, <1>5, <3>1, NextOwner
  <2>4. crit' = PriChange(x, q, crit.after)
    BY <1>5, <2>3
  <2> QED
    BY <1>1, <2>2, <2>3, <2>4, GoOn
<1>6. CASE task_pri_change_turn(t, p) /\ crit' = ChainEnds(p)
  <2>1. crit' = PriChange(NoTask, p, crit.after)
    BY <1>6 DEF ChainEnds
  <2>2. crit' # NoCrit
    BY <1>2, <1>3, <2>1, PriChangeShape DEF NoCrit
  <2>3. CoreInv' /\ \A o \in Obj : ToSet(blk_list'[o]) = ToSet(blk_list[o])
    BY <1>1, <1>2, <1>6, <2>2, TurnCore
  <2> QED
    BY <1>1, <1>2, <2>1, <2>3, GoOn
<1>7. CASE ~Live(t) /\ crit' = ErrCrit /\ UNCHANGED <<prio, g_ready_queue, blk_list>>
  <2>1. crit' # NoCrit /\ crit'.op = "k_err_proc" /\ crit' \in CritTypes
    BY <1>7 DEF ErrCrit, NoCrit, CritTypes
  <2>2. CoreInv'
    BY <1>1, <1>7, <2>1, EnterLoop DEF OwnInv, tcbVars, queueVars
  <2>3. TypeOK' /\ BaseOK' /\ CritOK'
    <3>1. MutexTypes' /\ BaseOK'
      BY <1>1, Types DEF OwnInv, MutexTypes, BaseOK, mutexVars
    <3> QED
      BY <2>1, <2>2, <3>1, TypesNext DEF CritOK, Doing
  <2>4. crit.after.op = "task_pri_change"
    BY <1>1, <1>7 DEF OwnInv, CritOK
  <2>5. OwnOK'
    <3>1. \A y : ~Loose(y) /\ ~Loose(y)'
      BY <2>1, <2>4 DEF Loose, Doing
    <3>2. (\A u : ~Dying(u)) /\ crit'.op # "mutex_free" /\ ~Doing("mutex_del")
      BY <1>1, <2>1, <2>4 DEF Dying, Doing
    <3>3. \A u \in Task : Live(u)' <=> Live(u)
      BY <1>1 DEF Live
    <3>4. \A y \in Obj : obj_type[y] /\ mutex_task[y] # NoTask => Live(mutex_task[y])'
      BY <1>1, Types DEF OwnInv, OwnOK, OwnersOK, MutexTypes, Live, mutexVars
    <3> QED
      BY <1>1, <1>7, <2>2, <3>1, <3>2, <3>3, <3>4, OwnSame DEF CoreInv, mutexVars
  <2> QED
    BY <2>2, <2>3, <2>5 DEF OwnInv
<1> QED
  BY <1>4, <1>5, <1>6, <1>7 DEF task_pri_change

\* The section ends: the CPU is in none of this module.
LEMMA SectionLeft ==
  ASSUME OwnInv, CoreInv', MutexTypes', BaseOK',
         crit' \in {NoCrit, [op |-> "tick", obj |-> NoObj]}
  PROVE  /\ TypeOK' /\ CritOK' /\ crit'.op # "mutex_free" /\ ~Doing("mutex_del")'
         /\ (\A y : ~Loose(y)') /\ (\A u : ~Dying(u)')
<1>1. crit' \in CritTypes /\ crit'.op \in {"none", "tick"}
  BY DEF CritTypes, NoCrit
<1>2. TypeOK'
  BY <1>1, TypesNext
<1>3. CritOK'
  BY <1>1 DEF CritOK, Doing
<1> QED
  BY <1>1, <1>2, <1>3 DEF Loose, Dying, Doing

\* krhino_mutex_lock, second half: the caller, who is not the owner, joins the waiters.
LEMMA mutex_lock_pend_Own ==
  ASSUME OwnInv, mutex_lock_pend PROVE OwnInv'
<1> DEFINE t == g_active_task
           o == crit.after.obj
           n == crit.after.ticks
<1>1. /\ Doing("mutex_lock") /\ crit' = NoCrit /\ pend_to_blk_obj(o, t, n)
      /\ pc' = [pc EXCEPT ![t] = "pend_sched"] /\ arg' = [arg EXCEPT ![t] = o]
      /\ UNCHANGED <<prio, suspend_count, blk_state, rrVars, g_tick_count, cpuVars, mutexVars>>
  BY DEF mutex_lock_pend, PriChanged, Doing, PendExitSched
<1>2. /\ t \in Task \ {Idle} /\ task_state[t] = "K_RDY" /\ g_sched_lock = 0
      /\ o \in Obj /\ obj_type[o] /\ mutex_task[o] \notin {NoTask, t}
      /\ n \in 0 .. TickMod - 1 /\ crit.op = "pri_change" /\ crit.after.op = "mutex_lock"
  BY <1>1, CritShape, Types DEF OwnInv, CritOK, CoreTypeOK, Doing
<1>3. MutexTypes /\ CoreTypeOK
  BY Types
<1>4. /\ ListInv'
      /\ task_state' \in [Task -> TaskState] /\ blk_obj' \in [Task -> Obj \cup {NoObj}]
      /\ tick_match' \in [Task -> 0 .. TickMod - 1] /\ g_tick_head' \in Seq(Task)
      /\ blk_list' \in [Obj -> Seq(Task)] /\ g_ready_queue' \in QueueType
      /\ \A x \in Obj \ {o} : blk_list'[x] = blk_list[x]
  <2> HIDE DEF t, o, n
  <2> QED
    BY <1>1, <1>2, PendTo DEF OwnInv, CoreInv
<1>5. task_state' = [task_state EXCEPT ![t] = "K_PEND"] /\ blk_obj' = [blk_obj EXCEPT ![t] = o]
  BY <1>1 DEF pend_to_blk_obj
<1>6. CoreInv'
  <2>1. CoreTypeOK'
    BY <1>1, <1>2, <1>3, <1>4 DEF CoreTypeOK, QueueType, rrVars, cpuVars
  <2>2. CallInv'
    BY <1>1, <1>2, <1>3 DEF OwnInv, CoreInv, CallInv, RunsOnlyReady, LockHolderReady, PriArgOK,
       cpuVars, CoreTypeOK
  <2> QED
    BY <1>4, <2>1, <2>2 DEF CoreInv
<1>7. MutexTypes' /\ BaseOK'
  BY <1>1, <1>3 DEF OwnInv, MutexTypes, BaseOK, mutexVars
<1>8. /\ TypeOK' /\ CritOK' /\ crit'.op # "mutex_free" /\ ~Doing("mutex_del")'
      /\ (\A y : ~Loose(y)') /\ (\A u : ~Dying(u)')
  BY <1>1, <1>6, <1>7, SectionLeft
<1>9. (\A y : ~Loose(y)) /\ (\A u : ~Dying(u)) /\ ~Doing("mutex_del")
  BY <1>2 DEF Loose, Dying, Doing
<1>10. \A u \in Task : Live(u)' <=> Live(u)
  BY <1>2, <1>3, <1>5 DEF Live, CoreTypeOK
<1>11. \A u : Owned(u)' = Owned(u)
  BY <1>1, <1>8, <1>9 DEF Owned, mutexVars
<1>12. ListsOwned' /\ FreeOwned'
  BY <1>1, <1>8, <1>9, <1>10, <1>11 DEF OwnInv, OwnOK, ListsOwned, FreeOwned, Held, mutexVars
<1>13. DeletedOK'
  BY <1>1, <1>2, <1>4, <1>9 DEF OwnInv, OwnOK, DeletedOK, mutexVars
<1>14. mutex_task[o] \notin ToSet(blk_list'[o])
  <2>1. mutex_task[o] \in Task \ {t} /\ mutex_task[o] \notin ToSet(blk_list[o])
    BY <1>2, <1>3 DEF OwnInv, OwnOK, OwnersOK, MutexTypes
  <2>2. ~(task_state[mutex_task[o]] \in PendStates /\ blk_obj[mutex_task[o]] = o)
    BY <1>2, <2>1 DEF OwnInv, CoreInv, ListInv, WaitListsOK
  <2>3. ~(task_state'[mutex_task[o]] \in PendStates /\ blk_obj'[mutex_task[o]] = o)
    BY <1>3, <1>5, <2>1, <2>2 DEF CoreTypeOK
  <2> QED
    BY <1>2, <1>4, <2>1, <2>3 DEF ListInv, WaitListsOK
<1>15. OwnersOK'
  <2> SUFFICES ASSUME NEW y \in Obj, obj_type[y]
               PROVE  /\ mutex_task[y] = NoTask => blk_list'[y] = << >>
                      /\ mutex_task[y] # NoTask =>
                           /\ task_state'[mutex_task[y]] \notin {"K_SEED", "K_DELETED"}
                           /\ mutex_task[y] # Idle
                           /\ owner_nested[y] > 0
                           /\ mutex_task[y] \notin ToSet(blk_list'[y])
    BY <1>1, <1>8 DEF OwnersOK, mutexVars, Live
  <2>1. mutex_task[y] # NoTask =>
          /\ task_state'[mutex_task[y]] \notin {"K_SEED", "K_DELETED"}
          /\ mutex_task[y] # Idle /\ owner_nested[y] > 0
    BY <1>3, <1>9, <1>10 DEF OwnInv, OwnOK, OwnersOK, MutexTypes, Live
  <2>2. CASE y = o
    BY <1>2, <1>14, <2>1, <2>2
  <2>3. CASE y # o
    BY <1>4, <2>1, <2>3 DEF OwnInv, OwnOK, OwnersOK
  <2> QED
    BY <2>2, <2>3
<1> QED
  BY <1>6, <1>7, <1>8, <1>12, <1>13, <1>15 DEF OwnInv, OwnOK

\* A section that ends without another change, for the callers that only reschedule.
LEMMA LeaveOwn ==
  ASSUME OwnInv, CoreInv', crit' \in {NoCrit, [op |-> "tick", obj |-> NoObj]},
         crit.op = "pri_change", ~Doing("mutex_unlock"),
         Doing("mutex_del") => blk_list[crit.after.obj] = << >>,
         UNCHANGED <<tcbVars, queueVars, mutexVars>>
  PROVE  OwnInv'
<1>1. MutexTypes' /\ BaseOK'
  BY Types DEF OwnInv, MutexTypes, BaseOK, mutexVars
<1>2. /\ TypeOK' /\ CritOK' /\ crit'.op # "mutex_free" /\ ~Doing("mutex_del")'
      /\ (\A y : ~Loose(y)') /\ (\A u : ~Dying(u)')
  BY <1>1, SectionLeft
<1>3. (\A y : ~Loose(y)) /\ (\A u : ~Dying(u))
  BY DEF Loose, Dying
<1>4. (\A u \in Task : Live(u)' <=> Live(u)) /\ blk_list' = blk_list
  BY DEF Live, tcbVars, queueVars
<1>5. \A y \in Obj : obj_type[y] /\ mutex_task[y] # NoTask => Live(mutex_task[y])'
  BY Types DEF OwnInv, OwnOK, OwnersOK, MutexTypes, Live, mutexVars, tcbVars
<1>6. OwnOK'
  BY <1>2, <1>3, <1>4, <1>5, OwnSame DEF CoreInv, mutexVars
<1> QED
  BY <1>1, <1>2, <1>6 DEF OwnInv

LEMMA mutex_del_done_Own ==
  ASSUME OwnInv, mutex_del_done PROVE OwnInv'
<1>1. /\ crit.op = "pri_change" /\ crit.after.op = "mutex_del" /\ blk_list[crit.after.obj] = << >>
      /\ crit' = NoCrit /\ RHINO_CRITICAL_EXIT_SCHED
      /\ UNCHANGED <<tcbVars, rrVars, queueVars, g_tick_count, cpuVars, mutexVars>>
  BY DEF mutex_del_done, PriChanged
<1>2. isr = "none" /\ pc[g_active_task] = "user"
  BY <1>1 DEF OwnInv, CritOK
<1>3. CallInv' /\ (pc' \in [Task -> {"user", "sched", "pend_sched", "pend_end", "pri_change"}]) /\ arg' = arg
  BY <1>1, <1>2, SchedOwed DEF OwnInv, CoreInv, tcbVars
<1>4. CoreInv'
  <2>1. ListInv'
    BY <1>1, ListsKept DEF OwnInv, CoreInv
  <2>2. CoreTypeOK'
    BY <1>1, <1>3 DEF OwnInv, CoreInv, CoreTypeOK, tcbVars, rrVars, queueVars, cpuVars
  <2> QED
    BY <1>3, <2>1, <2>2 DEF CoreInv
<1> QED
  BY <1>1, <1>4, LeaveOwn DEF Doing

LEMMA task_del_done_Own ==
  ASSUME OwnInv, task_del_done PROVE OwnInv'
<1>1. /\ crit.op = "pri_change" /\ crit.after.op = "task_del"
      /\ crit' = NoCrit /\ RHINO_CRITICAL_EXIT_SCHED
      /\ UNCHANGED <<tcbVars, rrVars, queueVars, g_tick_count, cpuVars, mutexVars>>
  BY DEF task_del_done, PriChanged
<1>2. isr = "none" /\ pc[g_active_task] = "user"
  BY <1>1 DEF OwnInv, CritOK
<1>3. CallInv' /\ (pc' \in [Task -> {"user", "sched", "pend_sched", "pend_end", "pri_change"}]) /\ arg' = arg
  BY <1>1, <1>2, SchedOwed DEF OwnInv, CoreInv, tcbVars
<1>4. CoreInv'
  <2>1. ListInv'
    BY <1>1, ListsKept DEF OwnInv, CoreInv
  <2>2. CoreTypeOK'
    BY <1>1, <1>3 DEF OwnInv, CoreInv, CoreTypeOK, tcbVars, rrVars, queueVars, cpuVars
  <2> QED
    BY <1>3, <2>1, <2>2 DEF CoreInv
<1> QED
  BY <1>1, <1>4, LeaveOwn DEF Doing

LEMMA pri_change_done_Own ==
  ASSUME OwnInv, pri_change_done PROVE OwnInv'
<1>1. /\ crit.op = "pri_change" /\ crit.after.op = "task_pri_change" /\ crit' = NoCrit
      /\ pc' = [pc EXCEPT ![g_active_task] = "sched"] /\ arg' = [arg EXCEPT ![g_active_task] = NoArg]
      /\ UNCHANGED <<tcbVars, rrVars, queueVars, g_tick_count, cpuVars, mutexVars>>
  BY DEF pri_change_done, PriChanged
<1>2. isr = "none" /\ pc[g_active_task] = "pri_change"
  BY <1>1 DEF OwnInv, CritOK
<1>3. CoreInv'
  <2>1. ListInv'
    BY <1>1, ListsKept DEF OwnInv, CoreInv
  <2>2. CoreTypeOK'
    BY <1>1 DEF OwnInv, CoreInv, CoreTypeOK, tcbVars, rrVars, queueVars, cpuVars
  <2>3. CallInv'
    BY <1>1, <1>2 DEF OwnInv, CoreInv, CoreTypeOK, CallInv, RunsOnlyReady, LockHolderReady, PriArgOK,
       cpuVars, tcbVars
  <2> QED
    BY <2>1, <2>2, <2>3 DEF CoreInv
<1> QED
  BY <1>1, <1>3, LeaveOwn DEF Doing

LEMMA mutex_timeout_done_Own ==
  ASSUME OwnInv, mutex_timeout_done PROVE OwnInv'
<1>1. /\ crit.op = "pri_change" /\ crit.after.op = "tick"
      /\ crit' = [op |-> "tick", obj |-> NoObj]
      /\ UNCHANGED <<tcbVars, rrVars, queueVars, g_tick_count, cpuVars, callVars, mutexVars>>
  BY DEF mutex_timeout_done, PriChanged
<1>2. crit' # NoCrit
  BY <1>1 DEF NoCrit
<1>3. CoreInv'
  BY <1>1, <1>2, EnterLoop DEF OwnInv
<1> QED
  BY <1>1, <1>3, LeaveOwn DEF Doing

\* The end of a wait neither gives life to a task nor takes it.
LEMMA UnpendLive ==
  ASSUME CoreTypeOK, NEW t \in Task, unpend(t)
  PROVE  (\A u \in Task : Live(u)' <=> Live(u)) /\ Live(t) /\ task_state[t] \in PendStates
<1>1. /\ task_state[t] \in PendStates
      /\ \E st \in {"K_RDY", "K_SUSPENDED"} : task_state' = [task_state EXCEPT ![t] = st]
  BY DEF unpend
<1> QED
  BY <1>1 DEF Live, CoreTypeOK, PendStates

\* The first waiter of a mutex is an application task.
LEMMA FirstWaiter ==
  ASSUME OwnInv, NEW m \in Obj, blk_list[m] # << >>, NEW t, t = Head(blk_list[m])
  PROVE  t \in Task \ {Idle} /\ t \in ToSet(blk_list[m]) /\ task_state[t] \in PendStates /\ blk_obj[t] = m
<1>1. blk_list[m] \in Seq(Task)
  BY DEF OwnInv, CoreInv, CoreTypeOK
<1>2. t \in Task /\ t \in ToSet(blk_list[m])
  <2>1. 1 \in DOMAIN blk_list[m] /\ t = blk_list[m][1]
    BY <1>1
  <2> QED
    BY <1>1, <2>1, ToSetByIndex
<1>3. task_state[t] \in PendStates /\ blk_obj[t] = m
  BY <1>2 DEF OwnInv, CoreInv, ListInv, WaitListsOK
<1> QED
  BY <1>2, <1>3 DEF OwnInv, CoreInv, ListInv, IdleOK, PendStates

\* krhino_mutex_del wakes a waiter.
LEMMA mutex_del_turn_Own ==
  ASSUME OwnInv, NEW t \in Task, mutex_del_turn(t) PROVE OwnInv'
<1>1. /\ crit.op = "pri_change" /\ crit.after.op = "mutex_del" /\ crit.task = NoTask
      /\ unpend(t) /\ blk_state' = [blk_state EXCEPT ![t] = "BLK_DEL"]
      /\ UNCHANGED <<prio, suspend_count, rrVars, g_tick_count, cpuVars, callVars, crit, mutexVars>>
  BY DEF mutex_del_turn, PriChanged, pend_task_rm
<1>2. crit # NoCrit /\ crit' # NoCrit /\ "BLK_DEL" \in BlkState
  BY <1>1 DEF NoCrit, BlkState
<1>3. CoreInv'
  BY <1>1, <1>2, UnpendInLoop DEF OwnInv
<1>4. \A o \in Obj : ToSet(blk_list'[o]) \subseteq ToSet(blk_list[o])
  BY <1>1, Unpend DEF OwnInv, CoreInv
<1>5. \A u \in Task : Live(u)' <=> Live(u)
  BY <1>1, UnpendLive DEF OwnInv, CoreInv
<1>6. TypeOK' /\ BaseOK' /\ CritOK'
  <2>1. MutexTypes' /\ BaseOK'
    BY <1>1, Types DEF OwnInv, MutexTypes, BaseOK, mutexVars
  <2>2. crit' \in CritTypes
    BY <1>1, Types
  <2>3. CritOK'
    BY <1>1 DEF OwnInv, CritOK, Doing, cpuVars, callVars, mutexVars
  <2> QED
    BY <1>3, <2>1, <2>2, <2>3, TypesNext
<1>7. OwnOK'
  <2>1. \A y : Loose(y)' <=> Loose(y)
    BY <1>1 DEF Loose, Doing
  <2>2. (\A u : ~Dying(u)) /\ crit'.op # "mutex_free" /\ Doing("mutex_del")' /\ crit'.after = crit.after
    BY <1>1 DEF Dying, Doing
  <2>3. \A y \in Obj : obj_type[y] /\ mutex_task[y] # NoTask => task_state'[mutex_task[y]] \notin {"K_SEED", "K_DELETED"}
    BY <1>1, <1>5, Types DEF OwnInv, OwnOK, OwnersOK, MutexTypes, Live, mutexVars
  <2> QED
    BY <1>1, <1>3, <1>4, <1>5, <2>1, <2>2, <2>3, OwnSame DEF CoreInv, mutexVars, Live
<1> QED
  BY <1>3, <1>6, <1>7 DEF OwnInv

\* krhino_mutex_unlock, second half, where nobody waits: the mutex is free.
LEMMA mutex_unlock_free ==
  ASSUME OwnInv, Doing("mutex_unlock"), blk_list[crit.after.obj] = << >>, crit' = NoCrit,
         mutex_task' = [mutex_task EXCEPT ![crit.after.obj] = NoTask],
         UNCHANGED <<tcbVars, rrVars, queueVars, g_tick_count, cpuVars, callVars, b_prio,
                     mutex_head, mutex_next, owner_nested, obj_type>>
  PROVE  OwnInv'
<1> DEFINE m == crit.after.obj
<1>1. /\ task_state[g_active_task] = "K_RDY" /\ m \in Obj /\ obj_type[m] /\ crit.op = "pri_change"
      /\ crit.after.op = "mutex_unlock"
  BY DEF OwnInv, CritOK, Doing
<1>2. MutexTypes /\ CoreTypeOK
  BY Types
<1>3. CoreInv'
  <2>1. ListInv'
    BY ListsKept DEF OwnInv, CoreInv
  <2>2. CoreTypeOK'
    BY DEF OwnInv, CoreInv, CoreTypeOK, tcbVars, rrVars, queueVars, cpuVars, callVars
  <2>3. blk_obj[g_active_task] = NoObj /\ g_active_task \notin ToSet(g_tick_head)
    BY <1>1, <1>2, ReadyIsFree DEF OwnInv, CoreInv, ListInv, CoreTypeOK
  <2>4. CallInv'
    BY <1>1, <2>3 DEF OwnInv, CoreInv, CallInv, RunsOnlyReady, LockHolderReady, PriArgOK, tcbVars,
       cpuVars, callVars, queueVars
  <2> QED
    BY <2>1, <2>2, <2>4 DEF CoreInv
<1>4. MutexTypes' /\ BaseOK'
  BY <1>2 DEF OwnInv, MutexTypes, BaseOK
<1>5. /\ TypeOK' /\ CritOK' /\ crit'.op # "mutex_free" /\ ~Doing("mutex_del")'
      /\ (\A y : ~Loose(y)') /\ (\A u : ~Dying(u)')
  BY <1>3, <1>4, SectionLeft
<1>6. (\A y : Loose(y) <=> y = m) /\ (\A u : ~Dying(u)) /\ ~Doing("mutex_del")
  BY <1>1 DEF Loose, Dying, Doing
<1>7. \A u \in Task : Owned(u)' = Owned(u)
  BY <1>2, <1>5, <1>6, MutexAssumption DEF Owned, MutexTypes
<1>8. blk_list' = blk_list /\ \A u : Live(u)' <=> Live(u)
  BY DEF queueVars, tcbVars, Live
<1>9. ListsOwned' /\ FreeOwned' /\ DeletedOK'
  BY <1>5, <1>6, <1>7, <1>8 DEF OwnInv, OwnOK, ListsOwned, FreeOwned, DeletedOK, Held
<1>10. OwnersOK'
  <2> SUFFICES ASSUME NEW y \in Obj, obj_type[y]
               PROVE  /\ mutex_task'[y] = NoTask => blk_list[y] = << >>
                      /\ mutex_task'[y] # NoTask =>
                           /\ task_state[mutex_task'[y]] \notin {"K_SEED", "K_DELETED"}
                           /\ mutex_task'[y] # Idle /\ owner_nested[y] > 0
                           /\ mutex_task'[y] \notin ToSet(blk_list[y])
    BY <1>8 DEF OwnersOK, Live, tcbVars
  <2>1. CASE y = m
    BY <1>2, <2>1 DEF MutexTypes
  <2>2. CASE y # m
    BY <1>1, <1>2, <1>6, <2>2 DEF OwnInv, OwnOK, OwnersOK, MutexTypes, Live
  <2> QED
    BY <2>1, <2>2
<1> QED
  BY <1>3, <1>4, <1>5, <1>9, <1>10 DEF OwnInv, OwnOK

\* ... and where a task waits, the first one gets the mutex.
LEMMA mutex_unlock_next ==
  ASSUME OwnInv, Doing("mutex_unlock"), blk_list[crit.after.obj] # << >>, crit' = NoCrit,
         NEW t, t = Head(blk_list[crit.after.obj]), pend_task_wakeup(t),
         mutex_get(crit.after.obj, t), nested_first(crit.after.obj), RHINO_CRITICAL_EXIT_SCHED,
         UNCHANGED <<prio, suspend_count, rrVars, g_tick_count, cpuVars, b_prio, obj_type>>
  PROVE  OwnInv'
<1> DEFINE m == crit.after.obj
<1>1. /\ task_state[g_active_task] = "K_RDY" /\ m \in Obj /\ obj_type[m] /\ crit.op = "pri_change"
      /\ crit.after.op = "mutex_unlock" /\ isr = "none" /\ pc[g_active_task] = "user"
  BY DEF OwnInv, CritOK, Doing
<1>2. MutexTypes /\ CoreTypeOK
  BY Types
<1>3. t \in Task \ {Idle} /\ t # g_active_task /\ unpend(t) /\ blk_state' = [blk_state EXCEPT ![t] = "BLK_FINISH"]
  BY <1>1, FirstWaiter DEF pend_task_wakeup, PendStates
<1>4. /\ ListInv'
      /\ task_state' \in [Task -> TaskState] /\ blk_obj' \in [Task -> Obj \cup {NoObj}]
      /\ tick_match' \in [Task -> 0 .. TickMod - 1] /\ g_tick_head' \in Seq(Task)
      /\ blk_list' \in [Obj -> Seq(Task)] /\ g_ready_queue' \in QueueType
      /\ \A u \in Task \ {t} : task_state'[u] = task_state[u]
      /\ \A o \in Obj : ToSet(blk_list'[o]) = ToSet(blk_list[o]) \ {t}
  BY <1>3, Unpend DEF OwnInv, CoreInv
<1>5. CoreInv'
  <2>1. task_state'[g_active_task] = task_state[g_active_task]
    BY <1>2, <1>3, <1>4 DEF CoreTypeOK
  <2>2. CallInv' /\ (pc' \in [Task -> {"user", "sched", "pend_sched", "pend_end", "pri_change"}]) /\ arg' = arg
    BY <1>1, <2>1, SchedOwed DEF OwnInv, CoreInv
  <2>3. CoreTypeOK'
    BY <1>2, <1>3, <1>4, <2>2 DEF CoreTypeOK, QueueType, BlkState, rrVars, cpuVars
  <2> QED
    BY <1>4, <2>2, <2>3 DEF CoreInv
<1>6. (\A y : Loose(y) <=> y = m) /\ (\A u : ~Dying(u)) /\ ~Doing("mutex_del")
  BY <1>1 DEF Loose, Dying, Doing
<1>7. (\A u \in Task : Live(u)' <=> Live(u)) /\ Live(t)
  BY <1>2, <1>3, UnpendLive
<1>8. /\ mutex_head' \in [Task -> Obj \cup {NoObj}] /\ mutex_next' \in Links
      /\ mutex_task' \in [Obj -> Task \cup {NoTask}]
      /\ \A u \in Task : Live(u) /\ ~Dying(u) =>
           /\ Chain(mutex_next', mutex_head'[u]) = IF u = t THEN Owned(u) \cup {m} ELSE Owned(u)
           /\ Linked(mutex_next', mutex_head'[u])
  <2>1. \A u \in Task : m \notin Owned(u)
    BY <1>6 DEF Owned
  <2> HIDE DEF m
  <2>2. mutex_get(m, t)
    BY DEF m
  <2> QED
    BY <1>1, <1>3, <1>6, <1>7, <2>1, <2>2, GetOwn
<1>9. /\ owner_nested' = [owner_nested EXCEPT ![m] = 1]
      /\ mutex_task' = [mutex_task EXCEPT ![m] = t]
  BY DEF nested_first, mutex_get
<1>10. MutexTypes' /\ BaseOK'
  BY <1>2, <1>8, <1>9, MutexAssumption DEF MutexTypes, OwnInv, BaseOK
<1>11. /\ TypeOK' /\ CritOK' /\ crit'.op # "mutex_free" /\ ~Doing("mutex_del")'
       /\ (\A y : ~Loose(y)') /\ (\A u : ~Dying(u)')
  BY <1>5, <1>10, SectionLeft
<1>12. \A u \in Task : Owned(u)' = IF u = t THEN Owned(u) \cup {m} ELSE Owned(u)
  BY <1>1, <1>2, <1>6, <1>9, <1>11 DEF Owned, MutexTypes
<1>13. ListsOwned' /\ FreeOwned'
  BY <1>6, <1>7, <1>8, <1>11, <1>12 DEF ListsOwned, Held, FreeOwned
<1>14. \A y \in Obj : blk_list[y] = << >> => blk_list'[y] = << >>
  <2> SUFFICES ASSUME NEW y \in Obj, blk_list[y] = << >> PROVE blk_list'[y] = << >>
    OBVIOUS
  <2>1. ToSet(blk_list[y]) = {} /\ blk_list'[y] \in Seq(Task)
    BY <1>2, <1>4, NoElements DEF CoreTypeOK
  <2> QED
    BY <1>4, <2>1, NoElements
<1>15. DeletedOK'
  BY <1>6, <1>14 DEF OwnInv, OwnOK, DeletedOK
<1>16. OwnersOK'
  <2> SUFFICES ASSUME NEW y \in Obj, obj_type[y]
               PROVE  /\ mutex_task'[y] = NoTask => blk_list'[y] = << >>
                      /\ mutex_task'[y] # NoTask =>
                           /\ task_state'[mutex_task'[y]] \notin {"K_SEED", "K_DELETED"}
                           /\ mutex_task'[y] # Idle /\ owner_nested'[y] > 0
                           /\ mutex_task'[y] \notin ToSet(blk_list'[y])
    BY DEF OwnersOK, Live
  <2>1. CASE y = m
    BY <1>1, <1>2, <1>3, <1>4, <1>7, <1>9, <2>1, MutexAssumption, SMTT(60) DEF MutexTypes, Live
  <2>2. CASE y # m
    <3>1. mutex_task'[y] = mutex_task[y] /\ owner_nested'[y] = owner_nested[y] /\ mutex_task[y] \in Task \cup {NoTask}
      BY <1>2, <1>9, <2>2 DEF MutexTypes
    <3>2. /\ mutex_task[y] = NoTask => blk_list[y] = << >>
          /\ mutex_task[y] # NoTask =>
               /\ Live(mutex_task[y]) /\ mutex_task[y] # Idle /\ owner_nested[y] > 0
               /\ mutex_task[y] \notin ToSet(blk_list[y])
      BY <1>6, <2>2 DEF OwnInv, OwnOK, OwnersOK
    <3> QED
      BY <1>4, <1>7, <1>14, <3>1, <3>2 DEF Live
  <2> QED
    BY <2>1, <2>2
<1> QED
  BY <1>5, <1>10, <1>11, <1>13, <1>15, <1>16 DEF OwnInv, OwnOK

LEMMA mutex_unlock_wake_Own ==
  ASSUME OwnInv, mutex_unlock_wake PROVE OwnInv'
<1> DEFINE m == crit.after.obj
           t == Head(blk_list[m])
<1>1. /\ Doing("mutex_unlock") /\ crit' = NoCrit
      /\ UNCHANGED <<rrVars, g_tick_count, cpuVars, b_prio, obj_type>>
  BY DEF mutex_unlock_wake, PriChanged, Doing
<1>2. CASE /\ blk_list[m] = << >> /\ mutex_task' = [mutex_task EXCEPT ![m] = NoTask]
           /\ UNCHANGED <<tcbVars, queueVars, callVars, mutex_head, mutex_next, owner_nested>>
  BY <1>1, <1>2, mutex_unlock_free
<1>3. CASE /\ blk_list[m] # << >> /\ pend_task_wakeup(t) /\ mutex_get(m, t) /\ nested_first(m)
           /\ RHINO_CRITICAL_EXIT_SCHED /\ UNCHANGED <<prio, suspend_count>>
  BY <1>1, <1>3, mutex_unlock_next
<1> QED
  BY <1>2, <1>3 DEF mutex_unlock_wake

\* mutex_task_pri_reset, for a task that waited: nobody, or the owner, who is another task.
LEMMA ResetShape ==
  ASSUME OwnInv, NEW t \in Task, task_state[t] \in PendStates, blk_list' \in [Obj -> Seq(Task)],
         NEW after
  PROVE  \E x \in Task \cup {NoTask}, p \in Prio :
           /\ mutex_task_pri_reset(t, after) = PriChange(x, p, after) /\ x # Idle /\ p < IDLE_PRI
           /\ x # NoTask => Live(x) /\ x # t
<1> DEFINE m == blk_obj[t]
           owner == mutex_task[m]
           due == mutex_pri_look(owner, NoObj, blk_list', prio)
<1>1. m \in Obj /\ t \in ToSet(blk_list[m])
  BY DEF OwnInv, CoreInv, ListInv, BlkObjOK, WaitListsOK
<1>2. NoTask # Idle /\ 0 \in Prio /\ 0 < IDLE_PRI
  BY TaskAssumption, MutexAssumption, PriAssumption DEF Prio, IDLE_PRI
<1>3. CASE ~(obj_type[m] /\ prio[owner] = prio[t])
  <2>1. mutex_task_pri_reset(t, after) = PriChange(NoTask, 0, after)
    BY <1>3 DEF mutex_task_pri_reset
  <2> QED
    BY <1>2, <2>1
<1>4. CASE obj_type[m] /\ prio[owner] = prio[t]
  <2>1. blk_list[m] # << >>
    BY <1>1, NoElements DEF OwnInv, CoreInv, CoreTypeOK
  <2>2. owner \in Task \ {Idle} /\ Live(owner) /\ owner # t
    BY <1>1, <1>4, <2>1, Types DEF OwnInv, OwnOK, OwnersOK, MutexTypes
  <2>3. due \in Prio /\ due < IDLE_PRI
    BY <2>2, LookRange, Types DEF CoreTypeOK
  <2>4. mutex_task_pri_reset(t, after) = Release(owner, due, after)
    BY <1>4 DEF mutex_task_pri_reset
  <2> HIDE DEF due, owner, m
  <2>5. PICK x \in {owner, NoTask} : Release(owner, due, after) = PriChange(x, due, after)
    BY ReleaseShape
  <2> QED
    BY <1>2, <2>2, <2>3, <2>4, <2>5
<1> QED
  BY <1>3, <1>4

\* A wait for a mutex times out.
LEMMA mutex_pend_timeout_Own ==
  ASSUME OwnInv, NEW t \in Task, mutex_pend_timeout(t) PROVE OwnInv'
<1> DEFINE after == After("tick", NoObj, 0)
<1>1. /\ crit.op = "tick" /\ unpend(t) /\ blk_state' = [blk_state EXCEPT ![t] = "BLK_TIMEOUT"]
      /\ crit' = mutex_task_pri_reset(t, after)
      /\ UNCHANGED <<prio, suspend_count, rrVars, g_tick_count, cpuVars, callVars, mutexVars>>
  BY DEF mutex_pend_timeout, tick_pend_timeout
<1>2. after \in AfterType /\ after.op = "tick"
  BY AfterShape, TickAssumption
<1>3. /\ blk_list' \in [Obj -> Seq(Task)]
      /\ \A o \in Obj : ToSet(blk_list'[o]) \subseteq ToSet(blk_list[o])
  BY <1>1, Unpend DEF OwnInv, CoreInv
<1>4. (\A u \in Task : Live(u)' <=> Live(u)) /\ task_state[t] \in PendStates
  BY <1>1, UnpendLive DEF OwnInv, CoreInv
<1> HIDE DEF after
<1>5. PICK x \in Task \cup {NoTask}, p \in Prio :
        /\ crit' = PriChange(x, p, after) /\ x # Idle /\ p < IDLE_PRI
        /\ x # NoTask => Live(x) /\ x # t
  BY <1>1, <1>3, <1>4, ResetShape, SMTT(20)
<1>6. /\ CritOK' /\ crit' \in CritTypes /\ crit' # NoCrit
      /\ crit'.op = "pri_change" /\ crit'.after = after
  <2>1. x # NoTask => task_state'[x] \notin {"K_SEED", "K_DELETED"}
    BY <1>4, <1>5 DEF Live
  <2> QED
    BY <1>2, <1>5, <2>1, EnterPri DEF Live
<1>7. CoreInv'
  <2>1. crit # NoCrit /\ "BLK_TIMEOUT" \in BlkState
    BY <1>1 DEF NoCrit, BlkState
  <2> QED
    BY <1>1, <1>6, <2>1, UnpendInLoop DEF OwnInv
<1>8. TypeOK' /\ BaseOK'
  <2>1. MutexTypes' /\ BaseOK'
    BY <1>1, Types DEF OwnInv, MutexTypes, BaseOK, mutexVars
  <2> QED
    BY <1>6, <1>7, <2>1, TypesNext
<1>9. OwnOK'
  <2>1. \A y : ~Loose(y)' /\ ~Loose(y)
    BY <1>1, <1>2, <1>6 DEF Loose, Doing
  <2>2. (\A u : ~Dying(u)) /\ crit'.op # "mutex_free" /\ ~Doing("mutex_del")
    BY <1>1, <1>6 DEF Dying, Doing
  <2>3. \A y \in Obj : obj_type[y] /\ mutex_task[y] # NoTask => task_state'[mutex_task[y]] \notin {"K_SEED", "K_DELETED"}
    BY <1>1, <1>4, Types DEF OwnInv, OwnOK, OwnersOK, MutexTypes, Live, mutexVars
  <2> QED
    BY <1>1, <1>3, <1>4, <1>7, <2>1, <2>2, <2>3, OwnSame DEF CoreInv, mutexVars, Live
<1> QED
  BY <1>6, <1>7, <1>8, <1>9 DEF OwnInv

\* task_del_unlink deletes the task.  Its mutexes all have other owners by now.
LEMMA task_unlink_Own ==
  ASSUME OwnInv, crit.op = "mutex_free", crit.obj = NoObj, NEW t, t = crit.task, task_unlink(t),
         crit' = IF task_state[t] \in PendStates
                 THEN mutex_task_pri_reset(t, After("task_del", NoObj, 0))
                 ELSE PriChange(NoTask, 0, After("task_del", NoObj, 0)),
         UNCHANGED <<prio, suspend_count, blk_state, blk_obj, rrVars, g_tick_count, cpuVars,
                     callVars, mutexVars>>
  PROVE  OwnInv'
<1> DEFINE after == After("task_del", NoObj, 0)
<1>1. /\ t \in Task \ {Idle} /\ MayStop(t) /\ isr = "none" /\ pc[g_active_task] = "user"
  BY CritShape DEF OwnInv, CritOK
<1>2. MutexTypes /\ CoreTypeOK
  BY Types
<1>3. /\ ListInv' /\ task_state' \in [Task -> TaskState]
      /\ task_state' = [task_state EXCEPT ![t] = "K_DELETED"]
      /\ tick_match' \in [Task -> 0 .. TickMod - 1] /\ g_tick_head' \in Seq(Task)
      /\ blk_list' \in [Obj -> Seq(Task)] /\ g_ready_queue' \in QueueType
      /\ \A o \in Obj : ToSet(blk_list'[o]) = ToSet(blk_list[o]) \ {t}
  BY <1>1, UnlinkLists DEF OwnInv, CoreInv
<1>4. after \in AfterType /\ after.op = "task_del"
  BY AfterShape, TickAssumption
<1>5. crit' = IF task_state[t] \in PendStates THEN mutex_task_pri_reset(t, after)
                                              ELSE PriChange(NoTask, 0, after)
  OBVIOUS
<1> HIDE DEF after
<1>6. PICK x \in Task \cup {NoTask}, p \in Prio :
        /\ crit' = PriChange(x, p, after) /\ x # Idle /\ p < IDLE_PRI
        /\ x # NoTask => Live(x) /\ x # t
  <2>1. CASE task_state[t] \in PendStates
    <3>1. crit' = mutex_task_pri_reset(t, after)
      BY <1>5, <2>1
    <3>2. t \in Task /\ blk_list' \in [Obj -> Seq(Task)]
      BY <1>1, <1>3
    <3>3. \E x \in Task \cup {NoTask}, p \in Prio :
            /\ mutex_task_pri_reset(t, after) = PriChange(x, p, after) /\ x # Idle /\ p < IDLE_PRI
            /\ x # NoTask => Live(x) /\ x # t
      BY <2>1, <3>2, ResetShape
    <3> QED
      BY <3>1, <3>3
  <2>2. CASE task_state[t] \notin PendStates
    <3>1. NoTask # Idle /\ 0 \in Prio /\ 0 < IDLE_PRI
      BY TaskAssumption, MutexAssumption, PriAssumption DEF Prio, IDLE_PRI
    <3> QED
      BY <1>5, <2>2, <3>1
  <2> QED
    BY <2>1, <2>2
<1>7. \A u \in Task \ {t} : Live(u)' <=> Live(u)
  BY <1>2, <1>3 DEF Live, CoreTypeOK
<1>8. /\ CritOK' /\ crit' \in CritTypes /\ crit' # NoCrit
      /\ crit'.op = "pri_change" /\ crit'.after = after
  <2>1. x # NoTask => task_state'[x] \notin {"K_SEED", "K_DELETED"}
    BY <1>6, <1>7 DEF Live
  <2>2. isr' = "none" /\ pc'[g_active_task'] = "user"
    BY <1>1 DEF cpuVars, callVars
  <2> QED
    BY <1>4, <1>6, <2>1, <2>2, EnterPri DEF Live
<1>9. CoreInv'
  <2>1. CoreTypeOK'
    BY <1>2, <1>3 DEF CoreTypeOK, QueueType, rrVars, cpuVars, callVars
  <2>2. CallInv'
    BY <1>1, <1>2, <1>3, <1>8, SMTT(20) DEF OwnInv, CoreInv, CoreTypeOK, CallInv, RunsOnlyReady, LockHolderReady,
       PriArgOK, MayStop, cpuVars, callVars
  <2> QED
    BY <1>3, <2>1, <2>2 DEF CoreInv
<1>10. TypeOK' /\ BaseOK'
  <2>1. MutexTypes' /\ BaseOK'
    BY <1>2 DEF OwnInv, MutexTypes, BaseOK, mutexVars
  <2> QED
    BY <1>8, <1>9, <2>1, TypesNext
<1>11. OwnOK'
  <2>1. \A y : ~Loose(y)' /\ ~Loose(y)
    BY <1>4, <1>8 DEF Loose, Doing
  <2>2. crit'.op # "mutex_free" /\ ~Doing("mutex_del") /\ (\A u : Dying(u) <=> u = t)
    BY <1>8 DEF Dying, Doing
  <2>3. Owned(t) = {}
    <3>1. Chain(mutex_next, NoObj) = Owned(t)
      BY DEF OwnInv, OwnOK, FreeOwned
    <3> QED
      BY <1>2, <3>1, ChainEmpty DEF MutexTypes
  <2>4. \A y \in Obj : obj_type[y] /\ mutex_task[y] # NoTask => task_state'[mutex_task[y]] \notin {"K_SEED", "K_DELETED"}
    <3> SUFFICES ASSUME NEW y \in Obj, obj_type[y], mutex_task[y] # NoTask
                 PROVE  task_state'[mutex_task[y]] \notin {"K_SEED", "K_DELETED"}
      OBVIOUS
    <3>1. mutex_task[y] # t
      BY <2>1, <2>3 DEF Owned
    <3>2. mutex_task[y] \in Task /\ Live(mutex_task[y])
      BY <1>2 DEF OwnInv, OwnOK, OwnersOK, MutexTypes
    <3> QED
      BY <1>7, <3>1, <3>2 DEF Live
  <2>5. ~Live(t)' /\ \A u \in Task : Live(u)' => Live(u)
    BY <1>1, <1>2, <1>3 DEF Live, CoreTypeOK
  <2>6. \A o \in Obj : ToSet(blk_list'[o]) \subseteq ToSet(blk_list[o])
    BY <1>3
  <2> QED
    BY <1>9, <2>1, <2>2, <2>4, <2>5, <2>6, OwnSame DEF CoreInv, mutexVars, Live
<1> QED
  BY <1>8, <1>9, <1>10, <1>11 DEF OwnInv

\* ... or finds that it has been deleted before.
LEMMA task_del_unlink_Own ==
  ASSUME OwnInv, task_del_unlink PROVE OwnInv'
<1> DEFINE t == crit.task
<1>1. /\ crit.op = "mutex_free" /\ crit.obj = NoObj
      /\ UNCHANGED <<prio, suspend_count, blk_state, blk_obj, rrVars, g_tick_count, cpuVars,
                     callVars, mutexVars>>
  BY DEF task_del_unlink
<1>2. CASE /\ task_unlink(t)
           /\ crit' = IF task_state[t] \in PendStates
                      THEN mutex_task_pri_reset(t, After("task_del", NoObj, 0))
                      ELSE PriChange(NoTask, 0, After("task_del", NoObj, 0))
  BY <1>1, <1>2, task_unlink_Own
<1>3. CASE /\ task_state[t] = "K_DELETED" /\ crit' = NoCrit
           /\ UNCHANGED <<task_state, tick_match, queueVars>>
  <2>1. isr = "none" /\ pc[g_active_task] = "user" /\ task_state[g_active_task] = "K_RDY"
    BY <1>1 DEF OwnInv, CritOK
  <2>2. CoreInv'
    <3>1. ListInv'
      BY <1>1, <1>3, ListsKept DEF OwnInv, CoreInv, tcbVars
    <3>2. CoreTypeOK'
      BY <1>1, <1>3 DEF OwnInv, CoreInv, CoreTypeOK, rrVars, queueVars, cpuVars, callVars
    <3>3. blk_obj[g_active_task] = NoObj /\ g_active_task \notin ToSet(g_tick_head)
      BY <2>1, ReadyIsFree, Types DEF OwnInv, CoreInv, ListInv, CoreTypeOK
    <3>4. CallInv'
      BY <1>1, <1>3, <2>1, <3>3 DEF OwnInv, CoreInv, CallInv, RunsOnlyReady, LockHolderReady, PriArgOK,
         cpuVars, callVars, queueVars
    <3> QED
      BY <3>1, <3>2, <3>4 DEF CoreInv
  <2>3. MutexTypes' /\ BaseOK'
    BY <1>1, Types DEF OwnInv, MutexTypes, BaseOK, mutexVars
  <2>4. /\ TypeOK' /\ CritOK' /\ crit'.op # "mutex_free" /\ ~Doing("mutex_del")'
        /\ (\A y : ~Loose(y)') /\ (\A u : ~Dying(u)')
    BY <1>3, <2>2, <2>3, SectionLeft
  <2>5. OwnOK'
    <3>1. \A y : ~Loose(y) /\ ~Doing("mutex_del")
      BY <1>1 DEF Loose, Doing
    <3>2. \A u : Dying(u) => ~Live(u)'
      BY <1>3 DEF Dying, Live
    <3>3. (\A u : Live(u)' <=> Live(u)) /\ blk_list' = blk_list
      BY <1>3 DEF Live, queueVars
    <3>4. \A y \in Obj : obj_type[y] /\ mutex_task[y] # NoTask => Live(mutex_task[y])'
      BY <1>1, <1>3, Types DEF OwnInv, OwnOK, OwnersOK, MutexTypes, Live, mutexVars
    <3> QED
      BY <1>1, <2>2, <2>4, <3>1, <3>2, <3>3, <3>4, OwnSame DEF CoreInv, mutexVars
  <2> QED
    BY <2>2, <2>3, <2>4, <2>5 DEF OwnInv
<1> QED
  BY <1>2, <1>3 DEF task_del_unlink

\* One turn of task_mutex_free: the first mutex of the list goes to its first waiter, or to
\* nobody, and the loop is on the rest of the list.
LEMMA task_mutex_free_Own ==
  ASSUME OwnInv, task_mutex_free PROVE OwnInv'
<1> DEFINE m == crit.obj
           d == crit.task
           t == Head(blk_list[m])
<1>1. /\ crit.op = "mutex_free" /\ m # NoObj
      /\ crit' = [crit EXCEPT !.obj = mutex_next[m]]
      /\ \/ /\ blk_list[m] # << >> /\ pend_task_wakeup(t) /\ mutex_get(m, t)
            /\ UNCHANGED <<prio, suspend_count>>
         \/ /\ blk_list[m] = << >> /\ mutex_task' = [mutex_task EXCEPT ![m] = NoTask]
            /\ UNCHANGED <<tcbVars, queueVars, mutex_head, mutex_next>>
      /\ UNCHANGED <<rrVars, g_tick_count, cpuVars, callVars, b_prio, obj_type, owner_nested>>
  BY DEF task_mutex_free
<1>2. /\ isr = "none" /\ pc[g_active_task] = "user" /\ task_state[g_active_task] = "K_RDY"
      /\ d \in Task \ {Idle} /\ MayStop(d) /\ m \in Obj
  BY <1>1, CritShape DEF OwnInv, CritOK
<1>3. MutexTypes /\ CoreTypeOK
  BY Types
<1>4. mutex_next \in Links /\ mutex_next[m] \in Obj \cup {NoObj}
  BY <1>2, <1>3 DEF MutexTypes, Links
<1>5. /\ crit' \in CritTypes /\ crit'.op = "mutex_free" /\ crit'.task = d /\ crit'.obj = mutex_next[m]
      /\ crit # NoCrit /\ crit' # NoCrit
  <2>1. crit \in [op : {"mutex_free"}, task : Task, obj : Obj \cup {NoObj}]
    BY <1>1, Types DEF CritTypes
  <2> QED
    BY <1>1, <1>4, <2>1 DEF CritTypes, NoCrit
<1>6. (\A y : ~Loose(y) /\ ~Loose(y)') /\ ~Doing("mutex_del") /\ (\A u : Dying(u) <=> u = d)
      /\ (\A u : Dying(u)' <=> u = d)
  BY <1>1, <1>5 DEF Loose, Dying, Doing
<1>7. /\ Chain(mutex_next, m) = Owned(d) /\ Linked(mutex_next, m)
      /\ \A u : Owned(u) = {y \in Obj : obj_type[y] /\ mutex_task[y] = u}
  BY <1>1, <1>6 DEF OwnInv, OwnOK, FreeOwned, Owned
<1>8. obj_type[m] /\ mutex_task[m] = d
  <2>1. m \in Chain(mutex_next, m)
    BY <1>2, <1>4, ChainFirst
  <2> QED
    BY <1>7, <2>1
<1>9. /\ Chain(mutex_next, mutex_next[m]) = Owned(d) \ {m} /\ Linked(mutex_next, mutex_next[m])
      /\ m \notin Chain(mutex_next, mutex_next[m])
  BY <1>2, <1>4, <1>7, ChainRest
<1>10. CASE /\ blk_list[m] # << >> /\ pend_task_wakeup(t) /\ mutex_get(m, t)
            /\ UNCHANGED <<prio, suspend_count>>
  <2>1. /\ t \in Task \ {Idle} /\ t \in ToSet(blk_list[m]) /\ task_state[t] \in PendStates
        /\ unpend(t) /\ blk_state' = [blk_state EXCEPT ![t] = "BLK_FINISH"]
        /\ mutex_task' = [mutex_task EXCEPT ![m] = t]
    BY <1>2, <1>10, FirstWaiter DEF pend_task_wakeup, mutex_get
  <2>2. t # d /\ d # NoTask
    BY <1>2, <1>8, <2>1, MutexAssumption DEF OwnInv, OwnOK, OwnersOK
  <2>3. /\ CoreInv' /\ \A o \in Obj : blk_list[o] = << >> => blk_list'[o] = << >>
    <3>1. "BLK_FINISH" \in BlkState
      BY DEF BlkState
    <3> HIDE DEF t, m, d
    <3> QED
      BY <1>1, <1>5, <1>10, <2>1, <3>1, UnpendInLoop DEF OwnInv
  <2>4. /\ \A u \in Task \ {t} : task_state'[u] = task_state[u]
        /\ \A o \in Obj : ToSet(blk_list'[o]) = ToSet(blk_list[o]) \ {t}
    BY <1>10, <2>1, Unpend DEF OwnInv, CoreInv
  <2>5. (\A u \in Task : Live(u)' <=> Live(u)) /\ Live(t)
    BY <1>3, <2>1, UnpendLive
  <2>6. /\ mutex_head' \in [Task -> Obj \cup {NoObj}] /\ mutex_next' \in Links
        /\ mutex_task' \in [Obj -> Task \cup {NoTask}]
        /\ \A u \in Task : Live(u) /\ ~Dying(u) =>
             /\ Chain(mutex_next', mutex_head'[u]) = IF u = t THEN Owned(u) \cup {m} ELSE Owned(u)
             /\ Linked(mutex_next', mutex_head'[u])
        /\ \A h \in Obj \cup {NoObj} : Linked(mutex_next, h) /\ m \notin Chain(mutex_next, h) =>
             Chain(mutex_next', h) = Chain(mutex_next, h) /\ Linked(mutex_next', h)
    <3>1. \A u \in Task : ~Dying(u) => m \notin Owned(u)
      BY <1>6, <1>7, <1>8
    <3>2. ~Dying(t)
      BY <1>6, <2>2
    <3> HIDE DEF t, m, d
    <3> QED
      BY <1>2, <1>10, <2>1, <2>5, <3>1, <3>2, GetOwn
  <2>7. MutexTypes' /\ BaseOK' /\ TypeOK'
    <3>1. MutexTypes' /\ BaseOK'
      BY <1>1, <1>3, <2>6 DEF MutexTypes, OwnInv, BaseOK
    <3> QED
      BY <1>5, <2>3, <3>1, TypesNext
  <2>8. CritOK'
    <3>1. task_state'[g_active_task] = "K_RDY"
      BY <1>2, <1>3, <2>1, <2>4 DEF CoreTypeOK, PendStates
    <3> QED
      BY <1>1, <1>2, <1>5, <3>1 DEF CritOK, Doing, MayStop, cpuVars, callVars
  <2>9. \A u \in Task : Owned(u)' = IF u = t THEN Owned(u) \cup {m} ELSE Owned(u) \ {m}
    BY <1>1, <1>2, <1>3, <1>6, <1>7, <1>8, <2>1 DEF Owned, MutexTypes
  <2>10. ListsOwned'
    <3> SUFFICES ASSUME NEW u \in Task, Live(u)', u # d
                 PROVE  Chain(mutex_next', mutex_head'[u]) = Owned(u)' /\ Linked(mutex_next', mutex_head'[u])
      BY <1>6 DEF ListsOwned, Held
    <3>1. m \notin Owned(u)
      BY <1>7, <1>8
    <3> QED
      BY <1>6, <2>5, <2>6, <2>9, <3>1, SMTT(20)
  <2>11. FreeOwned'
    <3>1. Owned(d)' = Owned(d) \ {m}
      BY <1>2, <1>5, <2>2, <2>9 DEF Owned
    <3>2. Chain(mutex_next', mutex_next[m]) = Owned(d) \ {m} /\ Linked(mutex_next', mutex_next[m])
      BY <1>4, <1>9, <2>6
    <3> QED
      BY <1>5, <3>1, <3>2 DEF FreeOwned
  <2>12. DeletedOK'
    BY <1>1, <1>6, <2>3 DEF OwnInv, OwnOK, DeletedOK
  <2>13. OwnersOK'
    <3> SUFFICES ASSUME NEW y \in Obj, obj_type[y]
                 PROVE  /\ mutex_task'[y] = NoTask => blk_list'[y] = << >>
                        /\ mutex_task'[y] # NoTask =>
                             /\ task_state'[mutex_task'[y]] \notin {"K_SEED", "K_DELETED"}
                             /\ mutex_task'[y] # Idle /\ owner_nested'[y] > 0
                             /\ mutex_task'[y] \notin ToSet(blk_list'[y])
      BY <1>1 DEF OwnersOK, Live
    <3>1. /\ mutex_task[y] = NoTask => blk_list[y] = << >>
          /\ mutex_task[y] # NoTask =>
               /\ Live(mutex_task[y]) /\ mutex_task[y] # Idle /\ owner_nested[y] > 0
               /\ mutex_task[y] \notin ToSet(blk_list[y])
      BY <1>6 DEF OwnInv, OwnOK, OwnersOK
    <3>2. CASE y = m
      <4>1. mutex_task'[y] = t /\ t \notin ToSet(blk_list'[y])
        BY <1>2, <1>3, <2>1, <2>4, <3>2 DEF MutexTypes
      <4> QED
        BY <1>1, <1>8, <2>1, <2>2, <2>5, <3>1, <3>2, <4>1, MutexAssumption DEF Live
    <3>3. CASE y # m
      <4>1. mutex_task'[y] = mutex_task[y] /\ mutex_task[y] \in Task \cup {NoTask}
        BY <1>3, <2>1, <3>3 DEF MutexTypes
      <4> QED
        BY <1>1, <2>3, <2>4, <2>5, <3>1, <4>1 DEF Live
    <3> QED
      BY <3>2, <3>3
  <2> QED
    BY <2>3, <2>7, <2>8, <2>10, <2>11, <2>12, <2>13 DEF OwnInv, OwnOK
<1>11. CASE /\ blk_list[m] = << >> /\ mutex_task' = [mutex_task EXCEPT ![m] = NoTask]
            /\ UNCHANGED <<tcbVars, queueVars, mutex_head, mutex_next>>
  <2>1. CoreInv' /\ blk_list' = blk_list /\ \A u : Live(u)' <=> Live(u)
    BY <1>1, <1>5, <1>11, EnterLoop DEF OwnInv, queueVars, Live, tcbVars
  <2>2. MutexTypes' /\ BaseOK' /\ TypeOK'
    <3>1. MutexTypes' /\ BaseOK'
      BY <1>1, <1>3, <1>11 DEF MutexTypes, OwnInv, BaseOK
    <3> QED
      BY <1>5, <2>1, <3>1, TypesNext
  <2>3. CritOK'
    BY <1>1, <1>2, <1>5, <1>11 DEF CritOK, Doing, MayStop, cpuVars, callVars, tcbVars
  <2>4. \A u \in Task : Owned(u)' = Owned(u) \ {m}
    BY <1>1, <1>2, <1>3, <1>6, <1>7, <1>11, MutexAssumption DEF Owned, MutexTypes
  <2>5. ListsOwned'
    <3> SUFFICES ASSUME NEW u \in Task, Live(u)', u # d
                 PROVE  Chain(mutex_next, mutex_head[u]) = Owned(u)' /\ Linked(mutex_next, mutex_head[u])
      BY <1>6, <1>11 DEF ListsOwned, Held
    <3>1. m \notin Owned(u)
      BY <1>7, <1>8
    <3> QED
      BY <1>6, <2>1, <2>4, <3>1 DEF OwnInv, OwnOK, ListsOwned, Held
  <2>6. FreeOwned'
    <3>1. Owned(d)' = Owned(d) \ {m}
      BY <1>2, <1>5, <2>4 DEF Owned
    <3> QED
      BY <1>5, <1>9, <1>11, <3>1 DEF FreeOwned
  <2>7. DeletedOK'
    BY <1>1, <1>6, <2>1 DEF OwnInv, OwnOK, DeletedOK
  <2>8. OwnersOK'
    <3> SUFFICES ASSUME NEW y \in Obj, obj_type[y]
                 PROVE  /\ mutex_task'[y] = NoTask => blk_list[y] = << >>
                        /\ mutex_task'[y] # NoTask =>
                             /\ task_state[mutex_task'[y]] \notin {"K_SEED", "K_DELETED"}
                             /\ mutex_task'[y] # Idle /\ owner_nested'[y] > 0
                             /\ mutex_task'[y] \notin ToSet(blk_list[y])
      BY <1>1, <1>11, <2>1 DEF OwnersOK, Live, tcbVars
    <3>1. CASE y = m
      BY <1>3, <1>11, <3>1 DEF MutexTypes
    <3>2. CASE y # m
      BY <1>1, <1>2, <1>3, <1>6, <1>11, <3>2 DEF OwnInv, OwnOK, OwnersOK, MutexTypes, Live
    <3> QED
      BY <3>1, <3>2
  <2> QED
    BY <2>1, <2>2, <2>3, <2>5, <2>6, <2>7, <2>8 DEF OwnInv, OwnOK
<1> QED
  BY <1>1, <1>10, <1>11
-----------------------------------------------------------------------------
(***************************************************************************)
(* The invariant and its consequences.                                     *)
(***************************************************************************)
\* The state the application starts from: no mutex is in use.
LEMMA MutexInit_Own ==
  ASSUME MutexInit PROVE OwnInv
<1>1. CoreInv /\ crit = NoCrit
  BY CoreInit_Inv DEF MutexInit, CoreInit
<1>2. /\ b_prio       = prio
      /\ mutex_head   = [t \in Task |-> NoObj]
      /\ obj_type     = [m \in Obj |-> FALSE]
      /\ mutex_task   = [m \in Obj |-> NoTask]
      /\ mutex_next   = [m \in Obj |-> NoObj]
      /\ owner_nested = [m \in Obj |-> 0]
      /\ blk_list     = [m \in Obj |-> << >>]
  BY DEF MutexInit, CoreInit
<1>3. MutexTypes
  BY <1>1, <1>2, MutexAssumption DEF MutexTypes, Links, CoreInv, CoreTypeOK
<1>4. crit \in CritTypes /\ crit.op = "none"
  BY <1>1 DEF CritTypes, NoCrit
<1>5. TypeOK
  BY <1>1, <1>3, <1>4, TypeParts DEF CoreInv
<1>6. BaseOK /\ CritOK
  <2>1. BaseOK
    BY <1>1, <1>2 DEF BaseOK, CoreInv, ListInv, IdleOK
  <2> QED
    BY <1>4, <2>1, IdlingCrit
<1>7. OwnOK
  <2>1. \A u : Owned(u) = {}
    BY <1>2 DEF Owned
  <2>2. \A u \in Task : Held(u) = {}
    BY <1>2, <1>3, ChainEmpty DEF Held, MutexTypes
  <2>3. \A u \in Task : Linked(mutex_next, mutex_head[u])
    BY <2>2 DEF Linked, Held
  <2> QED
    BY <1>2, <1>4, <2>1, <2>2, <2>3 DEF OwnOK, ListsOwned, FreeOwned, OwnersOK, DeletedOK
<1> QED
  BY <1>1, <1>5, <1>6, <1>7 DEF OwnInv

\* Every step keeps the invariant.
LEMMA MutexNext_Own ==
  ASSUME OwnInv, "task_del_again" \notin Calls, Next PROVE OwnInv'
<1>1. CASE CoreStep
  BY <1>1, CoreStep_Own
<1>2. CASE \E t \in Task : mutex_pend_timeout(t)
  BY <1>2, mutex_pend_timeout_Own
<1>3. CASE \E m \in Obj : MutexService(m)
  <2>1. PICK m \in Obj : MutexService(m)
    BY <1>3
  <2>2. Ticks \cup {WaitForever} \subseteq 0 .. TickMod - 1
    BY TickAssumption
  <2>3. CASE \E ticks \in Ticks \cup {WaitForever} : krhino_mutex_lock(m, ticks)
    BY <2>2, <2>3, krhino_mutex_lock_Own
  <2> QED
    BY <2>1, <2>3, krhino_mutex_create_Own, krhino_mutex_unlock_Own, krhino_mutex_del_Own DEF MutexService
<1>4. CASE MutexTaskService
  <2>1. CASE \E new \in NewTask : mutex_task_create(new[1], new[2], new[3])
    <3>1. PICK new \in NewTask : mutex_task_create(new[1], new[2], new[3])
      BY <2>1
    <3>2. new[1] \in Task /\ new[2] \in Prio /\ new[3] \in BOOLEAN
      BY <3>1, PriAssumption DEF Prio
    <3> QED
      BY <3>1, <3>2, mutex_task_create_Own
  <2>2. CASE \E new \in NewPri : pri_change_enter(new[1], new[2])
    BY <2>2, pri_change_enter_Own
  <2>3. CASE \E t \in Task : krhino_task_del(t)
    BY <2>3, krhino_task_del_Own
  <2> QED
    BY <1>4, <2>1, <2>2, <2>3 DEF MutexTaskService
<1>5. CASE MutexLoop
  BY <1>5, task_pri_change_Own, mutex_lock_pend_Own, mutex_unlock_wake_Own, mutex_del_turn_Own,
     mutex_del_done_Own, pri_change_done_Own, mutex_timeout_done_Own, task_mutex_free_Own,
     task_del_unlink_Own, task_del_done_Own DEF MutexLoop
<1> QED
  BY <1>1, <1>2, <1>3, <1>4, <1>5 DEF Next

\* A step that changes no variable.
LEMMA MutexStutter_Own ==
  ASSUME OwnInv, UNCHANGED vars PROVE OwnInv'
<1>1. CoreInv'
  BY CoreKept DEF OwnInv, vars
<1>2. MutexTypes' /\ BaseOK' /\ crit' \in CritTypes
  BY Types DEF MutexTypes, OwnInv, BaseOK, vars, coreVars, mutexVars
<1>3. TypeOK'
  BY <1>1, <1>2, TypesNext
<1>4. CritOK'
  BY DEF OwnInv, CritOK, Doing, Live, MayStop, vars, coreVars, tcbVars, cpuVars, callVars, mutexVars
<1>5. OwnOK'
  BY DEF OwnInv, OwnOK, ListsOwned, FreeOwned, OwnersOK, DeletedOK, Owned, Held, Doing, Dying, Loose,
     Live, vars, coreVars, tcbVars, queueVars, mutexVars
<1> QED
  BY <1>1, <1>2, <1>3, <1>4, <1>5 DEF OwnInv

\* OwnInv is an invariant of the mutexes, in and between critical sections, as long as
\* applications do not delete a task again whose stale list head would be followed.
THEOREM MutexInvariant ==
  ASSUME "task_del_again" \notin Calls PROVE Spec => []OwnInv
<1>1. MutexInit => OwnInv
  BY MutexInit_Own
<1>2. OwnInv /\ [Next]_vars => OwnInv'
  BY MutexNext_Own, MutexStutter_Own
<1> QED
  BY <1>1, <1>2, PTL DEF Spec

\* Types, and owners and lists agree outside critical sections: the list of every live task
\* holds exactly the mutexes that name it as their owner, an owned mutex has a live owner
\* that locked it, and nobody waits for a free one.
THEOREM MutexInvHolds ==
  ASSUME "task_del_again" \notin Calls PROVE Spec => []MutexInv
<1>1. ASSUME OwnInv PROVE MutexInv
  <2>1. ASSUME crit = NoCrit
        PROVE  /\ \A t \in Task : Live(t) => Held(t) = {m \in Obj : obj_type[m] /\ mutex_task[m] = t}
               /\ \A m \in Obj : obj_type[m] =>
                    IF mutex_task[m] = NoTask
                    THEN blk_list[m] = << >>
                    ELSE Live(mutex_task[m]) /\ owner_nested[m] > 0
    <3>1. /\ \A m : ~Loose(m)
          /\ \A u \in Task : Live(u) => Chain(mutex_next, mutex_head[u]) = Owned(u)
          /\ \A u : Owned(u) = {m \in Obj : obj_type[m] /\ mutex_task[m] = u}
      BY <1>1, <2>1, AtRest
    <3> QED
      BY <1>1, <3>1 DEF Held, OwnInv, OwnOK, OwnersOK
  <2> QED
    BY <1>1, <2>1 DEF MutexInv, OwnershipOK, OwnInv
<1> QED
  BY <1>1, MutexInvariant, PTL

\* Owners and lists agree, whatever is deleted meanwhile.
THEOREM OwnershipHolds ==
  ASSUME "task_del_again" \notin Calls PROVE Spec => []OwnershipOK
<1>1. MutexInv => OwnershipOK
  BY DEF MutexInv
<1> QED
  BY <1>1, MutexInvHolds, PTL

\* The steps that can change the owner of a mutex.
LEMMA OwnerSteps ==
  ASSUME Next, NEW m \in Obj, mutex_task'[m] # mutex_task[m]
  PROVE  \/ \E x \in Obj : krhino_mutex_create(x)
         \/ \E x \in Obj, ticks \in Ticks \cup {WaitForever} : krhino_mutex_lock(x, ticks)
         \/ mutex_unlock_wake
         \/ task_mutex_free
<1>1. ~CoreStep
  BY DEF CoreStep, mutexVars
<1>2. ~\E t \in Task : mutex_pend_timeout(t)
  BY DEF mutex_pend_timeout, mutexVars
<1>3. \A x \in Obj : ~krhino_mutex_unlock(x) /\ ~krhino_mutex_del(x)
  BY DEF krhino_mutex_unlock, krhino_mutex_del
<1>4. ~MutexTaskService
  BY DEF MutexTaskService, mutex_task_create, pri_change_enter, krhino_task_del, mutexVars
<1>5. ~(task_pri_change \/ mutex_lock_pend \/ (\E t \in Task : mutex_del_turn(t)) \/ mutex_del_done
        \/ pri_change_done \/ mutex_timeout_done \/ task_del_unlink \/ task_del_done)
  BY DEF task_pri_change, mutex_lock_pend, mutex_del_turn, mutex_del_done, pri_change_done,
     mutex_timeout_done, task_del_unlink, task_del_done, mutexVars
<1> QED
  BY <1>1, <1>2, <1>3, <1>4, <1>5 DEF Next, MutexService, MutexLoop

\* Who loses a mutex.
LEMMA OwnerLoses ==
  ASSUME OwnInv, Next, NEW m \in Obj, obj_type[m], obj_type'[m], mutex_task[m] # NoTask,
         mutex_task'[m] # mutex_task[m]
  PROVE  \/ PriChanged("mutex_unlock") /\ mutex_task[m] = g_active_task
         \/ crit.op = "mutex_free" /\ crit.task = mutex_task[m]
<1>1. MutexTypes
  BY Types
<1>2. ASSUME NEW x \in Obj, krhino_mutex_create(x) PROVE FALSE
  BY <1>1, <1>2 DEF krhino_mutex_create, MutexTypes
<1>3. ASSUME NEW x \in Obj, NEW ticks, krhino_mutex_lock(x, ticks) PROVE FALSE
  BY <1>1, <1>3 DEF krhino_mutex_lock, mutex_get, MutexTypes
<1>4. CASE mutex_unlock_wake
  <2>1. /\ PriChanged("mutex_unlock")
        /\ \E t : mutex_task' = [mutex_task EXCEPT ![crit.after.obj] = t]
    BY <1>4 DEF mutex_unlock_wake, mutex_get
  <2>2. m = crit.after.obj
    BY <1>1, <2>1 DEF MutexTypes
  <2> QED
    BY <2>1, <2>2 DEF PriChanged, OwnInv, CritOK, Doing
<1>5. CASE task_mutex_free
  <2>1. /\ crit.op = "mutex_free" /\ crit.obj # NoObj
        /\ \E t : mutex_task' = [mutex_task EXCEPT ![crit.obj] = t]
    BY <1>5 DEF task_mutex_free, mutex_get
  <2>2. m = crit.obj
    BY <1>1, <2>1 DEF MutexTypes
  <2>3. m \in Owned(crit.task)
    <3>1. m \in Chain(mutex_next, m)
      BY <1>1, ChainFirst DEF MutexTypes
    <3> QED
      BY <2>1, <2>2, <3>1 DEF OwnInv, OwnOK, FreeOwned
  <2> QED
    BY <2>1, <2>3 DEF Owned
<1> QED
  BY <1>2, <1>3, <1>4, <1>5, OwnerSteps

\* "mutex must be released by itself": a mutex changes hands only when its owner, being the
\* task that runs, unlocks it, or when its owner is the task that is being deleted.
THEOREM OnlyOwnerReleases ==
  ASSUME "task_del_again" \notin Calls PROVE Spec => ReleasedByItself
<1>1. ASSUME OwnInv, [Next]_vars
      PROVE  [\A m \in Obj :
               obj_type[m] /\ obj_type'[m] /\ mutex_task[m] # NoTask /\ mutex_task'[m] # mutex_task[m]
               => \/ PriChanged("mutex_unlock") /\ mutex_task[m] = g_active_task
                  \/ crit.op = "mutex_free" /\ crit.task = mutex_task[m]]_vars
  BY <1>1, OwnerLoses DEF vars, mutexVars
<1> QED
  BY <1>1, MutexInvariant, PTL DEF Spec, ReleasedByItself
-----------------------------------------------------------------------------
(***************************************************************************)
(* The order of the waiters.                                               *)
(***************************************************************************)
\* The lists and the priorities stay.
LEMMA WaitKept ==
  ASSUME OwnInv, WaitOrder, UNCHANGED <<blk_list, prio>> PROVE WaitOrder'
  BY WaitOrder_Same DEF OwnInv, CoreInv, ListInv

\* The steps in critical sections.
LEMMA MutexLoop_Wait ==
  ASSUME OwnInv, WaitOrder, MutexLoop PROVE WaitOrder'
<1>0. CoreTypeOK /\ WaitListsOK /\ BlkObjOK
  BY DEF OwnInv, CoreInv, ListInv
<1>1. CASE task_pri_change
  <2>1. CASE UNCHANGED <<prio, g_ready_queue, blk_list>>
    BY <2>1, WaitKept
  <2>2. CASE task_pri_change_turn(crit.task, crit.pri)
    <3>1. crit.task \in Task /\ crit.pri \in Prio
      BY <1>1, CritShape DEF task_pri_change, OwnInv
    <3> QED
      BY <1>0, <2>2, <3>1, WaitOrder_Change
  <2> QED
    BY <1>1, <2>1, <2>2 DEF task_pri_change
<1>2. CASE mutex_lock_pend
  <2>1. g_active_task \in Task /\ crit.after.obj \in Obj
    BY <1>0, <1>2 DEF mutex_lock_pend, PriChanged, OwnInv, CritOK, Doing, CoreTypeOK
  <2>2. /\ blk_list' = [blk_list EXCEPT ![crit.after.obj] = pend_list_add(@, g_active_task, prio)]
        /\ UNCHANGED prio
    BY <1>2 DEF mutex_lock_pend, pend_to_blk_obj
  <2> QED
    BY <1>0, <2>1, <2>2, WaitOrder_Add
<1>3. CASE mutex_unlock_wake
  <2>1. crit.after.obj \in Obj
    BY <1>3 DEF mutex_unlock_wake, PriChanged, OwnInv, CritOK, Doing
  <2>2. CASE UNCHANGED <<tcbVars, queueVars>>
    BY <2>2, WaitKept DEF tcbVars, queueVars
  <2>3. CASE /\ blk_list[crit.after.obj] # << >> /\ pend_task_wakeup(Head(blk_list[crit.after.obj]))
             /\ UNCHANGED prio
    <3>1. Head(blk_list[crit.after.obj]) \in Task
      BY <2>1, <2>3, FirstWaiter
    <3> QED
      BY <2>3, <3>1, Unlink_Wait DEF OwnInv, pend_task_wakeup
  <2> QED
    BY <1>3, <2>2, <2>3 DEF mutex_unlock_wake
<1>4. CASE \E t \in Task : mutex_del_turn(t)
  BY <1>4, Unlink_Wait DEF OwnInv, mutex_del_turn, pend_task_rm
<1>5. CASE mutex_del_done \/ pri_change_done \/ mutex_timeout_done \/ task_del_done
  BY <1>5, WaitKept DEF mutex_del_done, pri_change_done, mutex_timeout_done, task_del_done, tcbVars,
     queueVars
<1>6. CASE task_mutex_free
  <2>1. crit.obj \in Obj
    BY <1>6, CritShape DEF task_mutex_free, OwnInv
  <2>2. CASE UNCHANGED <<tcbVars, queueVars>>
    BY <2>2, WaitKept DEF tcbVars, queueVars
  <2>3. CASE /\ blk_list[crit.obj] # << >> /\ pend_task_wakeup(Head(blk_list[crit.obj]))
             /\ UNCHANGED prio
    <3>1. Head(blk_list[crit.obj]) \in Task
      BY <2>1, <2>3, FirstWaiter
    <3> QED
      BY <2>3, <3>1, Unlink_Wait DEF OwnInv, pend_task_wakeup
  <2> QED
    BY <1>6, <2>2, <2>3 DEF task_mutex_free
<1>7. CASE task_del_unlink
  <2>1. crit.task \in Task /\ UNCHANGED prio
    BY <1>7, CritShape DEF task_del_unlink, OwnInv
  <2>2. CASE task_unlink(crit.task)
    BY <2>1, <2>2, Unlink_Wait DEF OwnInv
  <2>3. CASE UNCHANGED queueVars
    BY <2>1, <2>3, WaitKept DEF queueVars
  <2> QED
    BY <1>7, <2>2, <2>3 DEF task_del_unlink
<1> QED
  BY <1>1, <1>2, <1>3, <1>4, <1>5, <1>6, <1>7 DEF MutexLoop

LEMMA MutexNext_Wait ==
  ASSUME OwnInv, WaitOrder, Next PROVE WaitOrder'
<1>1. CASE CoreStep
  BY <1>1, CoreSame_Wait DEF CoreStep, OwnInv
<1>2. CASE \E t \in Task : mutex_pend_timeout(t)
  BY <1>2, Unlink_Wait DEF OwnInv, mutex_pend_timeout, tick_pend_timeout
<1>3. CASE \E m \in Obj : MutexService(m)
  <2>1. ASSUME NEW m \in Obj, krhino_mutex_create(m) PROVE WaitOrder'
    <3>1. /\ ~obj_type[m] /\ blk_list' = [blk_list EXCEPT ![m] = << >>] /\ UNCHANGED prio
          /\ crit = NoCrit
      BY <2>1 DEF krhino_mutex_create, TaskCall, tcbVars
    <3>2. blk_list[m] = << >>
      BY <3>1, AtRest
    <3>3. blk_list' = blk_list
      BY <3>1, <3>2 DEF OwnInv, CoreInv, CoreTypeOK
    <3> QED
      BY <3>1, <3>3, WaitKept
  <2>2. ASSUME NEW m \in Obj, NEW ticks, krhino_mutex_lock(m, ticks) PROVE WaitOrder'
    BY <2>2, WaitKept DEF krhino_mutex_lock, tcbVars, queueVars
  <2>3. ASSUME NEW m \in Obj, krhino_mutex_unlock(m) \/ krhino_mutex_del(m) PROVE WaitOrder'
    BY <2>3, WaitKept DEF krhino_mutex_unlock, krhino_mutex_del, tcbVars, queueVars
  <2> QED
    BY <1>3, <2>1, <2>2, <2>3 DEF MutexService
<1>4. CASE MutexTaskService
  <2>1. ASSUME NEW new \in NewTask, mutex_task_create(new[1], new[2], new[3]) PROVE WaitOrder'
    <3>1. new[1] \in Task /\ new[2] \in Prio /\ new[3] \in BOOLEAN
      BY PriAssumption DEF Prio
    <3> QED
      BY <2>1, <3>1, Create_Wait DEF OwnInv, mutex_task_create
  <2>2. ASSUME NEW t, NEW p, pri_change_enter(t, p) PROVE WaitOrder'
    BY <2>2, WaitKept DEF pri_change_enter, tcbVars, queueVars
  <2>3. ASSUME NEW t, krhino_task_del(t) PROVE WaitOrder'
    BY <2>3, WaitKept DEF krhino_task_del, tcbVars, queueVars
  <2> QED
    BY <1>4, <2>1, <2>2, <2>3 DEF MutexTaskService
<1>5. CASE MutexLoop
  BY <1>5, MutexLoop_Wait
<1> QED
  BY <1>1, <1>2, <1>3, <1>4, <1>5 DEF Next

\* In and between critical sections the waiters of every mutex are sorted by priority.
LEMMA MutexWaitOrder ==
  ASSUME "task_del_again" \notin Calls PROVE Spec => []WaitOrder
<1>1. MutexInit => WaitOrder
  BY DEF MutexInit, CoreInit, WaitOrder, Ascending
<1>2. OwnInv /\ WaitOrder /\ [Next]_vars => WaitOrder'
  BY MutexNext_Wait, WaitKept DEF vars, coreVars, tcbVars, queueVars
<1> QED
  BY <1>1, <1>2, MutexInvariant, PTL DEF Spec

\* Waiters stay in order of their priorities while boosts, their ends, priority changes,
\* timeouts and deletions go on around them: the first of the list is always a right one.
THEOREM WaitersInOrder ==
  ASSUME "task_del_again" \notin Calls PROVE Spec => []WaitersByPriority
<1>1. OwnInv /\ WaitOrder => WaitersByPriority
  BY WaitOrderImplies DEF OwnInv, CoreInv
<1> QED
  BY <1>1, MutexInvariant, MutexWaitOrder, PTL

-----------------------------------------------------------------------------
(***************************************************************************)
(* Priority inheritance.                                                   *)
(***************************************************************************)
\* Who waits for mutex m, the task that is about to among them, and who waits for task t.
Waiting(m) ==
  ToSet(blk_list[m]) \cup {t \in {g_active_task} : Doing("mutex_lock") /\ crit.after.obj = m}
Behind(t) == UNION {Waiting(m) : m \in Owned(t)}

\* The priority that is right for a task with b of its own, W waiting for it, pr being the
\* priorities.
Right(p, b, W, pr) ==
  p <= b /\ (\A u \in W : p <= pr[u]) /\ (p = b \/ \E u \in W : p = pr[u])

\* The priority of t, or the one task_pri_change is about to give it.
Eff(t) == IF crit.op = "pri_change" /\ crit.task = t THEN crit.pri ELSE prio[t]

\* Inheritance is exact in critical sections too, but for the task that is being deleted.
PriOK ==
  crit.op # "k_err_proc" =>
    \A t \in Task : Live(t) /\ ~Dying(t) => Right(Eff(t), b_prio[t], Behind(t), prio)

\* The priority that krhino_mutex_lock passes on is the caller's and raises every task it gets
\* to; the one krhino_mutex_unlock gives up is the caller's.
BoostOK ==
  /\ Doing("mutex_lock") /\ crit.task # NoTask =>
       crit.pri = prio[g_active_task] /\ prio[crit.task] > prio[g_active_task]
  /\ Doing("mutex_unlock") => crit.task \in {NoTask, g_active_task}
DueInv == OwnInv /\ WaitOrder /\ PriOK /\ BoostOK

\* The first of a list in ascending order is the least.
LEMMA HeadLeast ==
  ASSUME NEW S, NEW s \in Seq(S), s # << >>, NEW K \in [S -> Int], Ascending(s, K)
  PROVE  Head(s) \in ToSet(s) /\ \A x \in ToSet(s) : K[Head(s)] <= K[x]
<1>1. Len(s) \in Nat \ {0} /\ Head(s) = s[1]
  OBVIOUS
<1>2. Head(s) \in ToSet(s) /\ Head(s) \in S
  BY <1>1, ToSetByIndex
<1>3. ASSUME NEW x \in ToSet(s) PROVE K[Head(s)] <= K[x]
  <2>1. PICK k \in 1 .. Len(s) : s[k] = x
    BY ToSetByIndex
  <2>2. CASE k = 1
    BY <1>1, <1>2, <2>1, <2>2
  <2>3. CASE k > 1
    BY <1>1, <2>1, <2>3 DEF Ascending
  <2> QED
    BY <1>1, <2>1, <2>2, <2>3
<1> QED
  BY <1>2, <1>3

\* Looking at the first waiters only finds the right priority, as the waiters are sorted.
LEMMA HighestRight ==
  ASSUME NEW b \in Prio, NEW held, held \subseteq Obj, NEW bl \in [Obj -> Seq(Task)],
         NEW pr \in [Task -> Prio], \A m \in held : Ascending(bl[m], pr),
         NEW W, W = UNION {ToSet(bl[m]) : m \in held}
  PROVE  Right(HighestOf(b, held, bl, pr), b, W, pr)
<1> DEFINE p == HighestOf(b, held, bl, pr)
<1>1. /\ p \in Prio /\ p <= b
      /\ \A m \in held : bl[m] # << >> => p <= pr[Head(bl[m])]
      /\ p = b \/ \E m \in held : bl[m] # << >> /\ p = pr[Head(bl[m])]
  BY HighestRange
<1>2. pr \in [Task -> Int] /\ Prio \subseteq Int
  BY PriAssumption DEF Prio
<1>3. ASSUME NEW m \in held, bl[m] # << >>
      PROVE  /\ Head(bl[m]) \in ToSet(bl[m]) /\ Head(bl[m]) \in Task
             /\ \A x \in ToSet(bl[m]) : x \in Task /\ pr[Head(bl[m])] <= pr[x]
  <2>1. bl[m] \in Seq(Task)
    OBVIOUS
  <2> QED
    BY <1>2, <1>3, <2>1, HeadLeast, ToSetByIndex
<1>4. \A m \in held : ToSet(bl[m]) # {} => bl[m] # << >>
  BY NoElements
<1> HIDE DEF p
<1>5. \A u \in W : p <= pr[u]
  <2> SUFFICES ASSUME NEW u \in W PROVE p <= pr[u]
    OBVIOUS
  <2>1. PICK m \in held : u \in ToSet(bl[m])
    OBVIOUS
  <2>2. bl[m] # << >>
    BY <1>4, <2>1
  <2>3. p <= pr[Head(bl[m])] /\ pr[Head(bl[m])] <= pr[u] /\ u \in Task /\ Head(bl[m]) \in Task
    BY <1>1, <1>3, <2>1, <2>2
  <2> QED
    BY <1>1, <1>2, <2>3
<1>6. p = b \/ \E u \in W : p = pr[u]
  BY <1>1, <1>3
<1> QED
  BY <1>1, <1>5, <1>6 DEF Right, p

\* There is one right priority only.
LEMMA RightOnce ==
  ASSUME NEW b \in Prio, NEW pr \in [Task -> Prio], NEW W, W \subseteq Task, NEW p \in Prio,
         NEW q \in Prio, Right(p, b, W, pr), Right(q, b, W, pr)
  PROVE  p = q
<1>1. Prio \subseteq Int
  BY PriAssumption DEF Prio
<1>2. \A u \in W : pr[u] \in Prio
  OBVIOUS
<1>3. p <= q /\ q <= p
  BY <1>1, <1>2 DEF Right
<1> QED
  BY <1>1, <1>3

\* A waiter at another priority comes, or leaves.
LEMMA RightLess ==
  ASSUME NEW b, NEW pr, NEW W, NEW p, NEW t, Right(p, b, W, pr), p # pr[t]
  PROVE  Right(p, b, W \ {t}, pr)
  BY DEF Right
LEMMA RightMore ==
  ASSUME NEW b, NEW pr, NEW W, NEW p, NEW V, Right(p, b, W, pr), \A u \in V : p <= pr[u]
  PROVE  Right(p, b, W \cup V, pr)
  BY DEF Right

\* Every task, but for those whose new priority is known to be right, keeps what decides on it.
LEMMA PriNext ==
  ASSUME OwnInv, PriOK, crit.op # "k_err_proc",
         \A x \in Task : Live(x)' /\ ~Dying(x)' =>
           \/ Right(Eff(x)', b_prio'[x], Behind(x)', prio')
           \/ /\ Live(x) /\ ~Dying(x) /\ Eff(x)' = Eff(x) /\ b_prio'[x] = b_prio[x]
              /\ Behind(x)' = Behind(x) /\ \A u \in Behind(x) : prio'[u] = prio[u]
  PROVE  PriOK'
  BY DEF PriOK, Right

\* Who waits for a task, one by one.
LEMMA InBehind ==
  /\ \A t, u : u \in Behind(t) <=> \E m \in Owned(t) : u \in Waiting(m)
  /\ \A t, u : u \in Behind(t)' <=> \E m \in Owned(t)' : u \in Waiting(m)'
  BY DEF Behind

\* Where nobody is in krhino_mutex_lock, those on the lists are the ones that wait.
LEMMA BehindPlain ==
  /\ ~Doing("mutex_lock") => \A t : Behind(t) = UNION {ToSet(blk_list[m]) : m \in Owned(t)}
  /\ ~Doing("mutex_lock")' => \A t : Behind(t)' = UNION {ToSet(blk_list'[m]) : m \in Owned(t)'}
<1>1. ~Doing("mutex_lock") => \A m : Waiting(m) = ToSet(blk_list[m])
  BY DEF Waiting
<1>2. ~Doing("mutex_lock")' => \A m : Waiting(m)' = ToSet(blk_list'[m])
  BY DEF Waiting
<1> QED
  BY <1>1, <1>2 DEF Behind

\* Nothing changes hands and no list of waiters changes.
LEMMA BehindSame ==
  ASSUME ~Doing("mutex_lock"), ~Doing("mutex_lock")',
         \A x \in Task : Owned(x)' = Owned(x),
         \A x \in Task : \A m \in Owned(x) : ToSet(blk_list'[m]) = ToSet(blk_list[m])
  PROVE  \A x \in Task : Behind(x)' = Behind(x)
<1> SUFFICES ASSUME NEW x \in Task PROVE Behind(x)' = Behind(x)
  OBVIOUS
<1>1. /\ Behind(x) = UNION {ToSet(blk_list[m]) : m \in Owned(x)}
      /\ Behind(x)' = UNION {ToSet(blk_list'[m]) : m \in Owned(x)'}
  BY BehindPlain
<1> QED
  BY <1>1

\* A step that changes no priority, between the changes that task_pri_change makes.
LEMMA HandsKept ==
  ASSUME DueInv, crit.op # "k_err_proc", UNCHANGED <<prio, b_prio>>,
         crit.op = "pri_change" => crit.task = NoTask,
         crit'.op = "pri_change" => crit'.task = NoTask,
         \A x \in Task : Live(x)' /\ ~Dying(x)' => Live(x) /\ ~Dying(x) /\ Behind(x)' = Behind(x)
  PROVE  PriOK' /\ BoostOK'
<1>1. \A x \in Task : Eff(x) = prio[x] /\ Eff(x)' = prio[x]
  BY MutexAssumption DEF Eff
<1>2. PriOK'
  BY <1>1, PriNext DEF DueInv
<1>3. BoostOK'
  BY DEF BoostOK, Doing
<1> QED
  BY <1>2, <1>3

\* ... and nothing else that matters here.
LEMMA AllKept ==
  ASSUME DueInv, crit.op # "k_err_proc",
         UNCHANGED <<prio, b_prio, blk_list, obj_type, mutex_task>>,
         crit.op = "pri_change" => crit.task = NoTask,
         crit'.op = "pri_change" => crit'.task = NoTask,
         \A op \in {"mutex_lock", "mutex_unlock"} : ~Doing(op) /\ ~Doing(op)',
         \A x \in Task : Live(x)' /\ ~Dying(x)' => Live(x) /\ ~Dying(x)
  PROVE  PriOK' /\ BoostOK'
<1>1. \A x \in Task : Owned(x)' = Owned(x)
  BY DEF Owned, Loose
<1>2. \A x \in Task : Behind(x)' = Behind(x)
  BY <1>1, BehindSame
<1> QED
  BY <1>2, HandsKept

LEMMA CoreStep_Due ==
  ASSUME DueInv, CoreStep PROVE PriOK' /\ BoostOK'
<1>1. UNCHANGED <<blk_list, prio, mutexVars>>
  BY DEF CoreStep, KernelStep, LockService, SleepService, SuspendService, RRService, core_sched,
     pend_state_end_proc, krhino_intrpt_enter, krhino_intrpt_exit, tick_list_update, tick_sleep_end,
     tick_list_done, time_slice_update, krhino_sched_disable, krhino_sched_enable, krhino_task_yield,
     krhino_task_sleep, krhino_task_suspend, krhino_task_resume, krhino_task_time_slice_set,
     krhino_sched_policy_set, task_del_idle, krhino_task_pri_change, tcbVars, queueVars
<1>2. CoreNext /\ \A t \in Task : Live(t)' <=> Live(t)
  BY CoreStep_Live DEF DueInv, OwnInv
<1>3. /\ crit' \in {crit, NoCrit, ErrCrit, [op |-> "tick", obj |-> NoObj]}
      /\ crit = NoCrit \/ crit.op = "tick"
  BY <1>2, CoreNoWaiter DEF DueInv, OwnInv
<1>4. crit.op \in {"none", "tick"} /\ crit'.op \in {"none", "tick", "k_err_proc"}
  BY <1>3 DEF NoCrit, ErrCrit
<1> QED
  BY <1>1, <1>2, <1>4, AllKept DEF mutexVars, Doing, Dying

\* The last steps of the services.
LEMMA Done_Due ==
  ASSUME DueInv, mutex_del_done \/ pri_change_done \/ mutex_timeout_done \/ task_del_done
  PROVE  PriOK' /\ BoostOK'
<1>1. /\ crit.op = "pri_change" /\ crit.task = NoTask
      /\ crit.after.op \in {"mutex_del", "task_pri_change", "tick", "task_del"}
      /\ crit' \in {NoCrit, [op |-> "tick", obj |-> NoObj]}
      /\ UNCHANGED <<tcbVars, queueVars, mutexVars>>
  BY DEF mutex_del_done, pri_change_done, mutex_timeout_done, task_del_done, PriChanged
<1>2. crit'.op \in {"none", "tick"}
  BY <1>1 DEF NoCrit
<1> QED
  BY <1>1, <1>2, AllKept DEF mutexVars, tcbVars, queueVars, Doing, Dying, Live

\* Outside critical sections, for short.
LEMMA RestDue ==
  ASSUME DueInv, crit = NoCrit
  PROVE  /\ crit.op = "none" /\ (\A op : ~Doing(op)) /\ (\A m : ~Loose(m)) /\ (\A t : ~Dying(t))
         /\ \A x \in Task : Live(x) => /\ Right(prio[x], b_prio[x], Behind(x), prio)
                                       /\ Held(x) = Owned(x)
         /\ \A x : Owned(x) = {m \in Obj : obj_type[m] /\ mutex_task[m] = x}
         /\ \A x : Behind(x) = UNION {ToSet(blk_list[m]) : m \in Owned(x)}
<1>1. crit.op = "none"
  BY DEF NoCrit
<1>2. \A x : Eff(x) = prio[x]
  BY <1>1 DEF Eff
<1>3. (\A op : ~Doing(op)) /\ (\A m : ~Loose(m)) /\ (\A t : ~Dying(t))
  BY <1>1 DEF Doing, Loose, Dying
<1>4. \A x \in Task : Live(x) => Held(x) = Owned(x)
  BY <1>3 DEF DueInv, OwnInv, OwnOK, ListsOwned
<1>5. \A x : Owned(x) = {m \in Obj : obj_type[m] /\ mutex_task[m] = x}
  BY <1>3 DEF Owned
<1> QED
  BY <1>1, <1>2, <1>3, <1>4, <1>5, BehindPlain DEF DueInv, PriOK

LEMMA krhino_mutex_create_Due ==
  ASSUME DueInv, NEW m \in Obj, krhino_mutex_create(m) PROVE PriOK' /\ BoostOK'
<1>1. /\ crit = NoCrit /\ ~obj_type[m] /\ UNCHANGED <<tcbVars, crit, b_prio>>
      /\ blk_list' = [blk_list EXCEPT ![m] = << >>]
      /\ mutex_task' = [mutex_task EXCEPT ![m] = NoTask] /\ obj_type' = [obj_type EXCEPT ![m] = TRUE]
  BY DEF krhino_mutex_create, TaskCall
<1>2. MutexTypes /\ blk_list \in [Obj -> Seq(Task)]
  BY Types DEF DueInv, CoreTypeOK
<1>3. crit.op = "none" /\ crit'.op = "none"
  BY <1>1 DEF NoCrit
<1>4. \A x \in Task : Owned(x)' = Owned(x)
  BY <1>1, <1>2, <1>3, MutexAssumption DEF Owned, Loose, Doing, MutexTypes
<1>5. \A x \in Task : \A y \in Owned(x) : blk_list'[y] = blk_list[y]
  BY <1>1, <1>2 DEF Owned
<1>6. ~Doing("mutex_lock") /\ ~Doing("mutex_lock")'
  BY <1>3 DEF Doing
<1>7. \A x \in Task : Behind(x)' = Behind(x)
  BY <1>4, <1>5, <1>6, BehindSame
<1>8. \A x : (Live(x)' <=> Live(x)) /\ ~Dying(x)
  BY <1>1, <1>3 DEF Live, Dying, tcbVars
<1> QED
  BY <1>1, <1>3, <1>7, <1>8, HandsKept DEF tcbVars

\* krhino_mutex_lock: a free mutex has no waiters, and another task's one more.
LEMMA krhino_mutex_lock_Due ==
  ASSUME DueInv, NEW m \in Obj, NEW ticks \in 0 .. TickMod - 1, krhino_mutex_lock(m, ticks)
  PROVE  PriOK' /\ BoostOK'
<1> DEFINE a == g_active_task
           o == mutex_task[m]
<1>1. /\ TaskCall("mutex_lock") /\ obj_type[m]
      /\ UNCHANGED <<tcbVars, queueVars, g_active_task, b_prio, obj_type>>
  BY DEF krhino_mutex_lock, cpuVars
<1>2. /\ a \in Task \ {Idle} /\ Live(a) /\ crit = NoCrit
      /\ \A y \in Obj : a \notin ToSet(blk_list[y])
  BY <1>1, CallerLive DEF DueInv
<1>3. MutexTypes /\ blk_list \in [Obj -> Seq(Task)] /\ prio \in [Task -> Prio]
  BY Types DEF DueInv, CoreTypeOK
<1>4. /\ crit.op = "none" /\ (\A op : ~Doing(op)) /\ (\A y : ~Loose(y)) /\ (\A t : ~Dying(t))
      /\ \A x \in Task : Live(x) => /\ Right(prio[x], b_prio[x], Behind(x), prio)
                                    /\ Held(x) = Owned(x)
      /\ \A x : Owned(x) = {y \in Obj : obj_type[y] /\ mutex_task[y] = x}
      /\ \A x : Behind(x) = UNION {ToSet(blk_list[y]) : y \in Owned(x)}
  BY <1>2, RestDue
<1>5. \A x : Live(x)' <=> Live(x)
  BY <1>1 DEF Live, tcbVars
<1>6. CASE UNCHANGED <<crit, mutex_task, mutex_next, mutex_head>>
  <2>1. crit'.op = "none"
    BY <1>4, <1>6
  <2> QED
    BY <1>1, <1>4, <1>5, <1>6, <2>1, AllKept DEF tcbVars, queueVars, Doing
<1>7. CASE o = NoTask /\ mutex_get(m, a) /\ UNCHANGED crit
  <2>1. crit'.op = "none" /\ mutex_task' = [mutex_task EXCEPT ![m] = a] /\ blk_list' = blk_list
    BY <1>1, <1>4, <1>7 DEF mutex_get, queueVars
  <2>2. ToSet(blk_list[m]) = {}
    <3>1. blk_list[m] = << >>
      BY <1>1, <1>7 DEF DueInv, OwnInv, OwnOK, OwnersOK
    <3> QED
      BY <1>3, <3>1, NoElements
  <2>3. \A x \in Task : Owned(x)' = IF x = a THEN Owned(x) \cup {m} ELSE Owned(x)
    BY <1>1, <1>2, <1>3, <1>4, <1>7, <2>1, MutexAssumption DEF Owned, Loose, Doing, MutexTypes
  <2>4. ~Doing("mutex_lock")'
    BY <2>1 DEF Doing
  <2>5. \A x : Behind(x)' = UNION {ToSet(blk_list[y]) : y \in Owned(x)'}
    BY <2>1, <2>4, BehindPlain
  <2>6. ASSUME NEW x \in Task PROVE Behind(x)' = Behind(x)
    <3>1. \A u : u \in Behind(x)' <=> \E y \in Owned(x)' : u \in ToSet(blk_list[y])
      BY <2>5
    <3>2. \A u : u \in Behind(x) <=> \E y \in Owned(x) : u \in ToSet(blk_list[y])
      BY <1>4
    <3>3. \A u : u \in Behind(x)' <=> u \in Behind(x)
      BY <2>2, <2>3, <3>1, <3>2
    <3> QED
      BY <3>3
  <2> QED
    BY <1>1, <1>4, <1>5, <2>1, <2>6, HandsKept DEF tcbVars
<1>8. CASE /\ o \notin {NoTask, a}
           /\ crit' = PriChange(IF prio[a] < prio[o] THEN o ELSE NoTask, prio[a],
                                After("mutex_lock", m, ticks))
           /\ UNCHANGED mutex_task
  <2>1. PICK w \in Task : w = o /\ Live(w)
    BY <1>1, <1>3, <1>8 DEF DueInv, OwnInv, OwnOK, OwnersOK, MutexTypes
  <2>2. PICK t \in Task \cup {NoTask} :
          /\ t = IF prio[a] < prio[w] THEN w ELSE NoTask
          /\ crit' = PriChange(t, prio[a], After("mutex_lock", m, ticks))
    BY <1>8, <2>1
  <2>3. /\ crit'.op = "pri_change" /\ crit'.task = t /\ crit'.pri = prio[a]
        /\ crit'.after.op = "mutex_lock" /\ crit'.after.obj = m
    BY <2>2 DEF PriChange, After
  <2>4. \A x \in Task : Owned(x)' = Owned(x)
    BY <1>1, <1>4, <1>8, <2>3 DEF Owned, Loose, Doing
  <2>5. \A y, u : u \in Waiting(y)' <=> u \in ToSet(blk_list[y]) \/ (y = m /\ u = a)
    BY <1>1, <2>3 DEF Waiting, Doing, queueVars
  <2>6. \A x \in Task : \A u : u \in Behind(x)' <=> u \in Behind(x) \/ (x = w /\ u = a)
    <3>1. \A x \in Task : m \in Owned(x) <=> x = w
      BY <1>1, <1>4, <2>1
    <3>2. \A x \in Task : \A u : u \in Behind(x)' <=> \E y \in Owned(x) : u \in Waiting(y)'
      BY <2>4, InBehind
    <3>3. \A x, u : u \in Behind(x) <=> \E y \in Owned(x) : u \in ToSet(blk_list[y])
      BY <1>4
    <3> QED
      BY <2>5, <3>1, <3>2, <3>3
  <2>7. ASSUME NEW x \in Task, Live(x), x # w
        PROVE  Eff(x)' = Eff(x) /\ Behind(x)' = Behind(x)
    <3>1. Behind(x)' = Behind(x)
      BY <2>6, <2>7
    <3> QED
      BY <1>1, <1>4, <2>2, <2>3, <2>7, <3>1, MutexAssumption DEF Eff, tcbVars
  <2>8. Right(IF t = w THEN prio[a] ELSE prio[w], b_prio[w], Behind(w) \cup {a}, prio)
    <3>1. Behind(w) \subseteq Task
      BY <1>3, <1>4, ToSetByIndex DEF Owned
    <3>2. prio[a] \in Int /\ prio[w] \in Int /\ b_prio[w] \in Int /\ \A u \in Behind(w) : prio[u] \in Int
      BY <1>2, <1>3, <3>1, PriAssumption DEF Prio, MutexTypes
    <3>3. Right(prio[w], b_prio[w], Behind(w), prio)
      BY <1>4, <2>1
    <3>4. CASE prio[a] < prio[w]
      BY <2>2, <3>2, <3>3, <3>4 DEF Right
    <3>5. CASE ~(prio[a] < prio[w])
      BY <2>1, <2>2, <3>2, <3>3, <3>5, MutexAssumption DEF Right
    <3> QED
      BY <3>4, <3>5
  <2>9. Right(Eff(w)', b_prio'[w], Behind(w)', prio')
    <3>1. Eff(w)' = IF t = w THEN prio[a] ELSE prio[w]
      BY <1>1, <2>3 DEF Eff, tcbVars
    <3>2. Behind(w)' = Behind(w) \cup {a}
      BY <2>6
    <3> QED
      BY <1>1, <2>8, <3>1, <3>2 DEF tcbVars
  <2>10. PriOK'
    BY <1>1, <1>4, <1>5, <2>7, <2>9, PriNext DEF DueInv, tcbVars
  <2>11. BoostOK'
    BY <1>1, <1>2, <2>1, <2>2, <2>3, MutexAssumption DEF BoostOK, Doing, tcbVars
  <2> QED
    BY <2>10, <2>11
<1> QED
  BY <1>6, <1>7, <1>8 DEF krhino_mutex_lock

\* The owner w of m gives up what it inherits through m, and goes on with what it is due.
LEMMA GivesUp ==
  ASSUME DueInv, crit = NoCrit, NEW w \in Task, Live(w), NEW m \in Owned(w), NEW after,
         after.op # "mutex_lock", crit' = Release(w, mutex_pri_look(w, m, blk_list, prio), after),
         UNCHANGED <<tcbVars, blk_list, b_prio>>, \A x \in Task : Owned(x)' = Owned(x) \ {m}
  PROVE  /\ PriOK' /\ crit'.op = "pri_change" /\ crit'.after = after
         /\ crit'.task \in {w, NoTask}
<1> DEFINE due == mutex_pri_look(w, m, blk_list, prio)
           t   == IF due # prio[w] THEN w ELSE NoTask
<1>1. /\ crit'.op = "pri_change" /\ crit'.task = t /\ crit'.pri = due /\ crit'.after = after
  BY DEF Release, PriChange
<1>2. /\ crit.op = "none" /\ (\A x : ~Dying(x)) /\ Held(w) = Owned(w)
      /\ \A x : Behind(x) = UNION {ToSet(blk_list[y]) : y \in Owned(x)}
      /\ \A x : Owned(x) = {y \in Obj : obj_type[y] /\ mutex_task[y] = x}
  BY RestDue
<1>3. blk_list \in [Obj -> Seq(Task)] /\ prio \in [Task -> Prio] /\ b_prio \in [Task -> Prio]
  BY Types DEF DueInv, CoreTypeOK, MutexTypes
<1>4. ~Doing("mutex_lock")'
  BY <1>1 DEF Doing
<1>5. \A x : Behind(x)' = UNION {ToSet(blk_list'[y]) : y \in Owned(x)'}
  BY <1>4, BehindPlain
<1>6. Right(due, b_prio[w], Behind(w)', prio)
  <2>1. \A y \in Owned(w) \ {m} : Ascending(blk_list[y], prio)
    BY DEF DueInv, WaitOrder, Owned
  <2>2. Owned(w) \ {m} \subseteq Obj
    BY DEF Owned
  <2>3. Behind(w)' = UNION {ToSet(blk_list[y]) : y \in Owned(w) \ {m}}
    BY <1>5
  <2>4. Right(HighestOf(b_prio[w], Owned(w) \ {m}, blk_list, prio), b_prio[w], Behind(w)', prio)
    BY <1>3, <2>1, <2>2, <2>3, HighestRight
  <2> QED
    BY <1>2, <2>4 DEF mutex_pri_look
<1> HIDE DEF due
<1>7. Right(Eff(w)', b_prio'[w], Behind(w)', prio')
  BY <1>1, <1>6, MutexAssumption DEF Eff, tcbVars
<1>8. ASSUME NEW x \in Task, x # w
      PROVE  Eff(x)' = Eff(x) /\ Behind(x)' = Behind(x) /\ prio' = prio
  <2>1. Owned(x)' = Owned(x)
    BY <1>2, <1>8
  <2>2. Behind(x)' = UNION {ToSet(blk_list[y]) : y \in Owned(x)}
    BY <1>5, <2>1
  <2> QED
    BY <1>1, <1>2, <1>8, <2>2, MutexAssumption DEF Eff, tcbVars
<1>9. \A x : Live(x)' <=> Live(x)
  BY DEF Live, tcbVars
<1> QED
  BY <1>1, <1>2, <1>7, <1>8, <1>9, PriNext DEF DueInv

LEMMA krhino_mutex_unlock_Due ==
  ASSUME DueInv, NEW m \in Obj, krhino_mutex_unlock(m) PROVE PriOK' /\ BoostOK'
<1>1. /\ TaskCall("mutex_unlock") /\ obj_type[m] /\ mutex_task[m] = g_active_task
      /\ UNCHANGED <<tcbVars, queueVars, g_active_task, b_prio, obj_type, mutex_task>>
  BY DEF krhino_mutex_unlock, Unlockable, cpuVars
<1>2. PICK a \in Task : a = g_active_task /\ Live(a) /\ crit = NoCrit
  BY <1>1, CallerLive DEF DueInv
<1>3. /\ crit.op = "none" /\ (\A op : ~Doing(op)) /\ (\A t : ~Dying(t))
      /\ \A x : Owned(x) = {y \in Obj : obj_type[y] /\ mutex_task[y] = x}
  BY <1>2, RestDue
<1>4. CASE UNCHANGED crit
  <2>1. crit'.op = "none" /\ \A x : Live(x)' <=> Live(x)
    BY <1>1, <1>3, <1>4 DEF Live, tcbVars
  <2> QED
    BY <1>1, <1>3, <1>4, <2>1, AllKept DEF tcbVars, queueVars, Doing
<1>5. CASE crit' = Release(a, mutex_pri_look(a, m, blk_list, prio), After("mutex_unlock", m, 0))
  <2>1. /\ crit'.op = "pri_change" /\ crit'.after = After("mutex_unlock", m, 0)
        /\ After("mutex_unlock", m, 0).op = "mutex_unlock" /\ After("mutex_unlock", m, 0).obj = m
    BY <1>5 DEF Release, PriChange, After
  <2>2. \A x \in Task : Owned(x)' = Owned(x) \ {m}
    BY <1>1, <1>3, <2>1 DEF Owned, Loose, Doing
  <2>3. m \in Owned(a)
    BY <1>1, <1>2, <1>3
  <2>4. PriOK' /\ crit'.task \in {a, NoTask}
    BY <1>1, <1>2, <1>5, <2>1, <2>2, <2>3, GivesUp DEF queueVars
  <2> QED
    BY <1>1, <1>2, <2>1, <2>4 DEF BoostOK, Doing
<1> QED
  BY <1>2, <1>4, <1>5 DEF krhino_mutex_unlock

LEMMA krhino_mutex_del_Due ==
  ASSUME DueInv, NEW m \in Obj, krhino_mutex_del(m) PROVE PriOK' /\ BoostOK'
<1>1. /\ TaskCall("mutex_del") /\ obj_type[m] /\ obj_type' = [obj_type EXCEPT ![m] = FALSE]
      /\ UNCHANGED <<tcbVars, queueVars, b_prio, mutex_task>>
  BY DEF krhino_mutex_del
<1>2. crit = NoCrit /\ MutexTypes
  BY <1>1, Types DEF DueInv, TaskCall
<1>3. /\ crit.op = "none" /\ (\A op : ~Doing(op)) /\ (\A t : ~Dying(t))
      /\ \A x : Owned(x) = {y \in Obj : obj_type[y] /\ mutex_task[y] = x}
  BY <1>2, RestDue
<1>4. /\ crit'.op = "pri_change" /\ crit'.after = After("mutex_del", m, 0)
      /\ After("mutex_del", m, 0).op = "mutex_del"
  BY DEF krhino_mutex_del, Release, PriChange, After
<1>5. \A x \in Task : Owned(x)' = Owned(x) \ {m}
  BY <1>1, <1>2, <1>3, <1>4 DEF Owned, Loose, Doing, MutexTypes
<1>6. \A x : Live(x)' <=> Live(x)
  BY <1>1 DEF Live, tcbVars
<1>7. BoostOK'
  BY <1>4 DEF BoostOK, Doing
<1>8. CASE mutex_task[m] = NoTask
  <2>1. \A x \in Task : Owned(x)' = Owned(x)
    BY <1>3, <1>5, <1>8, MutexAssumption
  <2>2. ~Doing("mutex_lock")' /\ crit'.task = NoTask
    BY <1>4, <1>8 DEF Doing, krhino_mutex_del, PriChange
  <2>3. \A x \in Task : Behind(x)' = Behind(x)
    BY <1>1, <1>3, <2>1, <2>2, BehindSame DEF queueVars
  <2> QED
    BY <1>1, <1>3, <1>6, <2>2, <2>3, HandsKept DEF tcbVars
<1>9. CASE mutex_task[m] # NoTask
  <2>1. PICK w \in Task : w = mutex_task[m] /\ Live(w)
    BY <1>1, <1>2, <1>9 DEF DueInv, OwnInv, OwnOK, OwnersOK, MutexTypes
  <2>2. crit' = Release(w, mutex_pri_look(w, m, blk_list, prio), After("mutex_del", m, 0))
    BY <1>9, <2>1 DEF krhino_mutex_del
  <2>3. m \in Owned(w)
    BY <1>1, <1>3, <2>1
  <2>4. PriOK'
    BY <1>1, <1>2, <1>4, <1>5, <2>1, <2>2, <2>3, GivesUp DEF queueVars
  <2> QED
    BY <1>7, <2>4
<1> QED
  BY <1>8, <1>9

\* A new task has what it is created with.
LEMMA mutex_task_create_Due ==
  ASSUME DueInv, OwnInv', NEW t \in Task, NEW p \in Prio, NEW autorun \in BOOLEAN,
         mutex_task_create(t, p, autorun)
  PROVE  PriOK' /\ BoostOK'
<1>1. /\ crit = NoCrit /\ UNCHANGED crit /\ task_state[t] \in {"K_SEED", "K_DELETED"}
      /\ prio' = [prio EXCEPT ![t] = p] /\ b_prio' = [b_prio EXCEPT ![t] = p]
      /\ \A x \in Task \ {t} : task_state'[x] = task_state[x]
      /\ UNCHANGED <<blk_list, obj_type, mutex_task>>
  BY Types DEF mutex_task_create, krhino_task_create, TaskCall, DueInv, CoreTypeOK
<1>2. /\ crit.op = "none" /\ (\A op : ~Doing(op)) /\ (\A x : ~Dying(x))
      /\ \A x : Owned(x) = {y \in Obj : obj_type[y] /\ mutex_task[y] = x}
      /\ \A x : Behind(x) = UNION {ToSet(blk_list[m]) : m \in Owned(x)}
  BY <1>1, RestDue
<1>3. prio \in [Task -> Prio] /\ b_prio \in [Task -> Prio] /\ p <= p
  <2>1. p <= p
    BY PriAssumption DEF Prio
  <2> QED
    BY <2>1, Types DEF DueInv, CoreTypeOK, MutexTypes
<1>4. \A x \in Task : Owned(x)' = Owned(x)
  BY <1>1 DEF Owned, Loose, Doing
<1>5. \A x \in Task : Behind(x)' = Behind(x)
  <2>1. ~Doing("mutex_lock")'
    BY <1>1, <1>2 DEF Doing
  <2> QED
    BY <1>1, <1>2, <1>4, <2>1, BehindSame
<1>6. \A x \in Task : t \notin Behind(x)
  <2>1. \A m \in Obj : t \notin ToSet(blk_list[m])
    BY <1>1 DEF DueInv, OwnInv, CoreInv, ListInv, WaitListsOK, PendStates
  <2> QED
    BY <1>2, <2>1
<1>7. Owned(t) = {}
  BY <1>1, <1>2, MutexAssumption DEF DueInv, OwnInv, OwnOK, OwnersOK, Live
<1>8. Right(Eff(t)', b_prio'[t], Behind(t)', prio')
  <2>1. Eff(t)' = p /\ b_prio'[t] = p
    BY <1>1, <1>2, <1>3 DEF Eff
  <2>2. Behind(t)' = {}
    BY <1>2, <1>5, <1>7
  <2> QED
    BY <1>3, <2>1, <2>2 DEF Right
<1>9. ASSUME NEW x \in Task, x # t
      PROVE  /\ Eff(x)' = Eff(x) /\ b_prio'[x] = b_prio[x] /\ Live(x)' = Live(x)
             /\ \A u \in Behind(x) : prio'[u] = prio[u]
  <2>1. \A u \in Behind(x) : u # t
    BY <1>6
  <2>2. Behind(x) \subseteq Task
    BY <1>2, Types, ToSetByIndex, SMTT(20) DEF DueInv, CoreTypeOK, Owned
  <2> QED
    BY <1>1, <1>2, <1>3, <1>9, <2>1, <2>2 DEF Eff, Live
<1>10. PriOK'
  BY <1>2, <1>5, <1>8, <1>9, PriNext DEF DueInv
<1> QED
  BY <1>1, <1>2, <1>10 DEF BoostOK, Doing

\* krhino_task_pri_change begins with the highest of the new priority and what the task inherits.
LEMMA pri_change_enter_Due ==
  ASSUME DueInv, NEW t, NEW p, pri_change_enter(t, p) PROVE PriOK' /\ BoostOK'
<1> DEFINE q == mutex_pri_limit(t, p)
<1>1. /\ crit = NoCrit /\ b_prio' = [b_prio EXCEPT ![t] = p] /\ arg[g_active_task] = <<t, p>>
      /\ pc[g_active_task] = "pri_change" /\ crit' = PriChange(t, q, After("task_pri_change", NoObj, 0))
      /\ UNCHANGED <<tcbVars, queueVars, obj_type, mutex_task>>
  BY DEF pri_change_enter, PriChangeEnter
<1>2. CoreTypeOK /\ MutexTypes
  BY Types DEF DueInv
<1>3. t \in Task /\ p \in Prio
  <2>1. <<t, p>> \in (Task \ {Idle}) \X (0 .. IDLE_PRI - 1)
    BY <1>1, <1>2 DEF DueInv, OwnInv, CoreInv, CallInv, PriArgOK, CoreTypeOK
  <2> QED
    BY <2>1, PriAssumption DEF Prio, IDLE_PRI
<1>4. /\ crit.op = "none" /\ (\A op : ~Doing(op)) /\ (\A x : ~Dying(x))
      /\ (Live(t) => Held(t) = Owned(t))
      /\ \A x : Behind(x) = UNION {ToSet(blk_list[m]) : m \in Owned(x)}
  BY <1>1, <1>3, RestDue
<1>5. /\ crit'.op = "pri_change" /\ crit'.task = t /\ crit'.pri = q
      /\ crit'.after.op = "task_pri_change"
  BY <1>1 DEF PriChange, After
<1>6. ~Doing("mutex_lock")' /\ \A x : Owned(x)' = Owned(x)
  BY <1>1, <1>4, <1>5 DEF Doing, Owned, Loose
<1>7. \A x \in Task : Behind(x)' = Behind(x)
  BY <1>1, <1>4, <1>6, BehindSame DEF queueVars
<1>8. ASSUME Live(t) PROVE Right(q, p, Behind(t), prio)
  <2>1. Owned(t) \subseteq Obj /\ \A m \in Owned(t) : Ascending(blk_list[m], prio)
    BY DEF Owned, DueInv, WaitOrder
  <2>2. blk_list \in [Obj -> Seq(Task)] /\ prio \in [Task -> Prio]
    BY <1>2 DEF CoreTypeOK
  <2> QED
    BY <1>3, <1>4, <1>8, <2>1, <2>2, HighestRight DEF mutex_pri_limit
<1> HIDE DEF q
<1>9. \A x : Live(x)' <=> Live(x)
  BY <1>1 DEF Live, tcbVars
<1>10. Live(t) => Right(Eff(t)', b_prio'[t], Behind(t)', prio')
  BY <1>1, <1>2, <1>3, <1>5, <1>7, <1>8 DEF Eff, tcbVars, MutexTypes
<1>11. ASSUME NEW x \in Task, x # t PROVE Eff(x)' = Eff(x) /\ b_prio'[x] = b_prio[x]
  BY <1>1, <1>2, <1>4, <1>5, <1>11 DEF Eff, tcbVars, MutexTypes
<1>12. PriOK'
  BY <1>1, <1>4, <1>7, <1>9, <1>10, <1>11, PriNext DEF DueInv, tcbVars
<1> QED
  BY <1>5, <1>12 DEF BoostOK, Doing

\* krhino_task_del enters the loop that releases the mutexes of the task.
LEMMA krhino_task_del_Due ==
  ASSUME DueInv, NEW t, krhino_task_del(t) PROVE PriOK' /\ BoostOK'
<1>1. /\ crit = NoCrit /\ crit' = [op |-> "mutex_free", task |-> t, obj |-> mutex_head[t]]
      /\ UNCHANGED <<tcbVars, queueVars, mutexVars>>
  BY DEF krhino_task_del, TaskDelEnter, TaskCall
<1>2. crit.op = "none" /\ crit'.op = "mutex_free"
  BY <1>1 DEF NoCrit
<1> QED
  BY <1>1, <1>2, AllKept DEF Doing, Dying, Live, tcbVars, queueVars, mutexVars

\* krhino_mutex_lock: the task that was about to wait waits.
LEMMA mutex_lock_pend_Due ==
  ASSUME DueInv, mutex_lock_pend PROVE PriOK' /\ BoostOK'
<1>1. PICK a, o : a = g_active_task /\ o = crit.after.obj
  OBVIOUS
<1>2. /\ Doing("mutex_lock") /\ crit.task = NoTask /\ crit' = NoCrit
      /\ task_state' = [task_state EXCEPT ![a] = "K_PEND"]
      /\ blk_list' = [blk_list EXCEPT ![o] = pend_list_add(@, a, prio)]
      /\ UNCHANGED <<prio, mutexVars>>
  BY <1>1 DEF mutex_lock_pend, PriChanged, Doing, pend_to_blk_obj
<1>3. /\ a \in Task /\ o \in Obj /\ task_state[a] = "K_RDY" /\ CoreTypeOK
      /\ crit.op = "pri_change" /\ crit.after.op = "mutex_lock" /\ crit'.op = "none"
  BY <1>1, <1>2, Types DEF DueInv, OwnInv, CritOK, CoreTypeOK, Doing, NoCrit
<1>4. ToSet(blk_list'[o]) = ToSet(blk_list[o]) \cup {a}
  <2>1. /\ blk_list[o] \in Seq(Task) /\ blk_list'[o] = pend_list_add(blk_list[o], a, prio)
    BY <1>2, <1>3 DEF CoreTypeOK
  <2> DEFINE s == blk_list[o]
             k == ScanStop(s, {i \in DOMAIN s : prio[s[i]] > prio[a]})
  <2>2. k \in 1 .. Len(s) + 1
    BY <2>1, ScanStopRange
  <2>3. blk_list'[o] = klist_insert(s, k, a) /\ s \in Seq(Task)
    BY <2>1 DEF pend_list_add
  <2> HIDE DEF k, s
  <2>4. ToSet(klist_insert(s, k, a)) = ToSet(s) \cup {a}
    BY <1>3, <2>2, <2>3, InsertProperties
  <2> QED
    BY <2>3, <2>4 DEF s
<1>5. \A x \in Task : Owned(x)' = Owned(x)
  BY <1>2, <1>3 DEF Owned, Loose, Doing, mutexVars
<1>6. \A y \in Obj : \A u : u \in Waiting(y)' <=> u \in Waiting(y)
  <2>1. \A y : \A u : u \in Waiting(y) <=> u \in ToSet(blk_list[y]) \/ (y = o /\ u = a)
    BY <1>1, <1>2 DEF Waiting
  <2>2. \A y : \A u : u \in Waiting(y)' <=> u \in ToSet(blk_list'[y])
    BY <1>3 DEF Waiting, Doing
  <2>3. \A y \in Obj \ {o} : blk_list'[y] = blk_list[y]
    BY <1>2, <1>3 DEF CoreTypeOK
  <2> QED
    BY <1>4, <2>1, <2>2, <2>3
<1>7. ASSUME NEW x \in Task PROVE Behind(x)' = Behind(x)
  <2>1. Owned(x) \subseteq Obj
    BY DEF Owned
  <2>2. \A u : u \in Behind(x)' <=> u \in Behind(x)
    BY <1>5, <1>6, <2>1, InBehind
  <2> QED
    BY <2>2
<1>8. \A x \in Task : (Live(x)' <=> Live(x)) /\ ~Dying(x)
  BY <1>2, <1>3 DEF Live, Dying, CoreTypeOK
<1> QED
  BY <1>2, <1>3, <1>7, <1>8, HandsKept DEF mutexVars

\* A mutex goes to its first waiter, whose priority is none below that of the others.
LEMMA HandOver ==
  ASSUME DueInv, NEW m \in Obj, blk_list[m] # << >>, obj_type[m], NEW t, t = Head(blk_list[m]), unpend(t),
         mutex_task' = [mutex_task EXCEPT ![m] = t], UNCHANGED <<prio, suspend_count, b_prio, obj_type>>,
         crit.op # "k_err_proc", ~Doing("mutex_lock"), crit.op = "pri_change" => crit.task = NoTask,
         crit'.op # "pri_change", \A y : Loose(y) => y = m,
         ~Dying(t), \A x \in Task : ~Dying(x)' => ~Dying(x) /\ m \notin Owned(x)
  PROVE  PriOK' /\ BoostOK'
<1>1. /\ t \in Task /\ t \in ToSet(blk_list[m]) /\ task_state[t] \in PendStates /\ blk_obj[t] = m
  BY FirstWaiter DEF DueInv
<1>2. /\ CoreTypeOK /\ MutexTypes /\ ListInv
  BY Types DEF DueInv, OwnInv, CoreInv
<1>3. \A o \in Obj : ToSet(blk_list'[o]) = ToSet(blk_list[o]) \ {t}
  BY <1>1, <1>2, Unpend
<1>4. (\A u \in Task : Live(u)' <=> Live(u)) /\ Live(t)
  BY <1>1, <1>2, UnpendLive
<1>5. \A x \in Task : Eff(x) = prio[x] /\ Eff(x)' = prio[x]
  BY MutexAssumption DEF Eff
<1>6. ~Doing("mutex_lock")' /\ \A y : ~Loose(y)'
  BY DEF Doing, Loose
<1>7. \A y \in Obj \ {m} : ToSet(blk_list'[y]) = ToSet(blk_list[y])
  <2>1. \A y \in Obj \ {m} : t \notin ToSet(blk_list[y])
    BY <1>1, <1>2 DEF ListInv, WaitListsOK
  <2> QED
    BY <1>3, <2>1, ZenonT(40)
<1>8. \A x \in Task : \A y \in Obj \ {m} : y \in Owned(x)' <=> y \in Owned(x)
  BY <1>2, <1>6 DEF Owned, MutexTypes
<1>9. \A x \in Task : m \in Owned(x)' <=> x = t
  BY <1>1, <1>2, <1>6 DEF Owned, MutexTypes
<1>10. /\ \A x : \A u : u \in Behind(x) <=> \E y \in Owned(x) : u \in ToSet(blk_list[y])
       /\ \A x : \A u : u \in Behind(x)' <=> \E y \in Owned(x)' : u \in ToSet(blk_list'[y])
  BY <1>6, BehindPlain
<1>11. \A x : Owned(x) \subseteq Obj /\ Owned(x)' \subseteq Obj
  BY DEF Owned
<1>12. ASSUME NEW x \in Task, x # t, Live(x)', ~Dying(x)'
       PROVE  Behind(x)' = Behind(x) /\ Live(x) /\ ~Dying(x)
  <2>1. \A u : u \in Behind(x)' <=> u \in Behind(x)
    BY <1>7, <1>8, <1>9, <1>10, <1>11, <1>12
  <2> QED
    BY <1>4, <1>12, <2>1
<1>13. Right(Eff(t)', b_prio'[t], Behind(t)', prio')
  <2>1. Right(prio[t], b_prio[t], Behind(t), prio)
    BY <1>1, <1>4, <1>5 DEF DueInv, PriOK
  <2>2. Behind(t)' = Behind(t) \cup (ToSet(blk_list[m]) \ {t})
    <3>1. m \notin Owned(t)
      <4>1. mutex_task[m] # t \/ ~obj_type[m]
        BY <1>1, MutexAssumption DEF DueInv, OwnInv, OwnOK, OwnersOK
      <4> QED
        BY <4>1 DEF Owned
    <3>2. \A u : u \in Behind(t)' <=> u \in Behind(t) \/ u \in ToSet(blk_list[m]) \ {t}
      BY <1>1, <1>3, <1>7, <1>8, <1>9, <1>10, <1>11, <3>1
    <3> QED
      BY <3>2
  <2>3. \A u \in ToSet(blk_list[m]) : prio[t] <= prio[u]
    <3>1. blk_list[m] \in Seq(Task) /\ prio \in [Task -> Int] /\ Ascending(blk_list[m], prio)
      BY <1>2, PriAssumption DEF CoreTypeOK, Prio, DueInv, WaitOrder
    <3> QED
      BY <3>1, HeadLeast
  <2>4. Right(prio[t], b_prio[t], Behind(t) \cup (ToSet(blk_list[m]) \ {t}), prio)
    BY <2>1, <2>3, RightMore
  <2> QED
    BY <1>1, <1>5, <2>2, <2>4
<1>14. PriOK'
  BY <1>5, <1>12, <1>13, PriNext DEF DueInv
<1>15. BoostOK'
  BY DEF BoostOK, Doing
<1> QED
  BY <1>14, <1>15

\* krhino_mutex_unlock, second half.
LEMMA mutex_unlock_wake_Due ==
  ASSUME DueInv, mutex_unlock_wake PROVE PriOK' /\ BoostOK'
<1>1. PICK m : m = crit.after.obj
  OBVIOUS
<1>2. /\ crit.op = "pri_change" /\ crit.task = NoTask /\ crit.after.op = "mutex_unlock"
      /\ crit' = NoCrit /\ UNCHANGED <<b_prio, obj_type>>
  BY DEF mutex_unlock_wake, PriChanged
<1>3. Doing("mutex_unlock") /\ crit'.op = "none" /\ MutexTypes
  BY <1>2, Types DEF Doing, NoCrit, DueInv
<1>4. m \in Obj /\ obj_type[m]
  BY <1>1, <1>3 DEF DueInv, OwnInv, CritOK
<1>5. (\A y : Loose(y) <=> y = m) /\ (\A x : ~Dying(x) /\ ~Dying(x)') /\ ~Doing("mutex_lock")
  BY <1>1, <1>2, <1>3 DEF Loose, Dying, Doing
<1>6. \A x : m \notin Owned(x)
  BY <1>5 DEF Owned
<1>7. CASE blk_list[m] = << >> /\ mutex_task' = [mutex_task EXCEPT ![m] = NoTask] /\ UNCHANGED <<tcbVars, queueVars>>
  <2>1. \A x \in Task : Owned(x)' = Owned(x)
    BY <1>2, <1>3, <1>5, <1>7, MutexAssumption DEF Owned, Loose, Doing, MutexTypes
  <2>2. ~Doing("mutex_lock")' /\ \A x : Live(x)' <=> Live(x)
    BY <1>3, <1>7 DEF Doing, Live, tcbVars
  <2>3. \A x \in Task : Behind(x)' = Behind(x)
    BY <1>5, <1>7, <2>1, <2>2, BehindSame DEF queueVars
  <2> QED
    BY <1>2, <1>3, <1>5, <1>7, <2>2, <2>3, HandsKept DEF tcbVars
<1>8. CASE /\ blk_list[m] # << >> /\ unpend(Head(blk_list[m]))
           /\ mutex_task' = [mutex_task EXCEPT ![m] = Head(blk_list[m])]
           /\ UNCHANGED <<prio, suspend_count>>
  BY <1>2, <1>3, <1>4, <1>5, <1>6, <1>8, HandOver
<1> QED
  BY <1>1, <1>7, <1>8 DEF mutex_unlock_wake, mutex_get, pend_task_wakeup

\* One turn of task_mutex_free.
LEMMA task_mutex_free_Due ==
  ASSUME DueInv, task_mutex_free PROVE PriOK' /\ BoostOK'
<1>1. PICK m, d : m = crit.obj /\ d = crit.task
  OBVIOUS
<1>2. /\ crit.op = "mutex_free" /\ m # NoObj /\ crit' = [crit EXCEPT !.obj = mutex_next[m]]
      /\ UNCHANGED <<b_prio, obj_type>>
  BY <1>1 DEF task_mutex_free
<1>3. /\ m \in Obj /\ d \in Task /\ MutexTypes
      /\ crit \in [op : {"mutex_free"}, task : Task, obj : Obj \cup {NoObj}]
  BY <1>1, <1>2, CritShape, Types DEF DueInv, OwnInv, CritTypes
<1>4. crit'.op = "mutex_free" /\ crit'.task = d
  BY <1>1, <1>2, <1>3
<1>5. \A op : ~Doing(op) /\ ~Doing(op)'
  BY <1>2, <1>4 DEF Doing
<1>6. (\A y : ~Loose(y) /\ ~Loose(y)') /\ \A x : (Dying(x) <=> x = d) /\ (Dying(x)' <=> x = d)
  BY <1>1, <1>2, <1>4, <1>5 DEF Loose, Dying
<1>7. m \in Owned(d)
  <2>1. m \in Chain(mutex_next, m)
    BY <1>3, ChainFirst DEF MutexTypes
  <2> QED
    BY <1>1, <1>2, <2>1 DEF DueInv, OwnInv, OwnOK, FreeOwned
<1>8. obj_type[m] /\ mutex_task[m] = d /\ \A x \in Task \ {d} : m \notin Owned(x)
  BY <1>7 DEF Owned
<1>9. CASE blk_list[m] = << >> /\ mutex_task' = [mutex_task EXCEPT ![m] = NoTask] /\ UNCHANGED <<tcbVars, queueVars>>
  <2>1. \A x \in Task \ {d} : Owned(x)' = Owned(x)
    BY <1>2, <1>3, <1>6, <1>8, <1>9, MutexAssumption DEF Owned, MutexTypes
  <2>2. \A x : Live(x)' <=> Live(x)
    BY <1>9 DEF Live, tcbVars
  <2>3. \A x \in Task \ {d} : Behind(x)' = Behind(x)
    <3>1. /\ \A x : Behind(x) = UNION {ToSet(blk_list[y]) : y \in Owned(x)}
          /\ \A x : Behind(x)' = UNION {ToSet(blk_list'[y]) : y \in Owned(x)'}
      BY <1>5, BehindPlain
    <3>2. blk_list' = blk_list
      BY <1>9 DEF queueVars
    <3> QED
      BY <2>1, <3>1, <3>2
  <2> QED
    BY <1>2, <1>4, <1>6, <1>9, <2>2, <2>3, HandsKept DEF tcbVars
<1>10. CASE /\ blk_list[m] # << >> /\ unpend(Head(blk_list[m]))
            /\ mutex_task' = [mutex_task EXCEPT ![m] = Head(blk_list[m])]
            /\ UNCHANGED <<prio, suspend_count>>
  <2>1. PICK t : t = Head(blk_list[m])
    OBVIOUS
  <2>2. t # d
    <3>1. t \in ToSet(blk_list[m])
      BY <1>3, <1>10, <2>1, FirstWaiter DEF DueInv
    <3>2. d # NoTask
      BY <1>3, MutexAssumption
    <3> QED
      BY <1>3, <1>8, <3>1, <3>2 DEF DueInv, OwnInv, OwnOK, OwnersOK
  <2> QED
    BY <1>2, <1>3, <1>4, <1>5, <1>6, <1>8, <1>10, <2>1, <2>2, HandOver
<1> QED
  BY <1>1, <1>9, <1>10 DEF task_mutex_free, mutex_get, pend_task_wakeup

\* krhino_mutex_del wakes a waiter of a mutex that nobody owns any more.
LEMMA mutex_del_turn_Due ==
  ASSUME DueInv, NEW t \in Task, mutex_del_turn(t) PROVE PriOK' /\ BoostOK'
<1>1. PICK m : m = crit.after.obj
  OBVIOUS
<1>2. /\ crit.op = "pri_change" /\ crit.task = NoTask /\ crit.after.op = "mutex_del"
      /\ blk_list[m] # << >> /\ t = Head(blk_list[m]) /\ unpend(t)
      /\ UNCHANGED <<prio, suspend_count, crit, mutexVars>>
  BY <1>1 DEF mutex_del_turn, PriChanged, pend_task_rm
<1>3. m \in Obj /\ ~obj_type[m]
  BY <1>1, <1>2 DEF DueInv, OwnInv, CritOK, Doing
<1>4. blk_obj[t] = m
  BY <1>2, <1>3, FirstWaiter DEF DueInv
<1>5. \A o \in Obj : ToSet(blk_list'[o]) = ToSet(blk_list[o]) \ {t}
  BY <1>2, Unpend DEF DueInv, OwnInv, CoreInv
<1>6. \A u \in Task : Live(u)' <=> Live(u)
  BY <1>2, UnpendLive, Types DEF DueInv
<1>7. (\A op \in {"mutex_lock", "mutex_unlock"} : ~Doing(op) /\ ~Doing(op)') /\ \A x : ~Dying(x)
  BY <1>2 DEF Doing, Dying
<1>8. \A x \in Task : Owned(x)' = Owned(x)
  BY <1>2, <1>7 DEF Owned, Loose, mutexVars
<1>9. \A x \in Task : \A y \in Owned(x) : ToSet(blk_list'[y]) = ToSet(blk_list[y])
  <2>1. \A y \in Obj : obj_type[y] => t \notin ToSet(blk_list[y])
    BY <1>3, <1>4 DEF DueInv, OwnInv, CoreInv, ListInv, WaitListsOK
  <2>2. \A y \in Obj : obj_type[y] => ToSet(blk_list'[y]) = ToSet(blk_list[y])
    BY <1>5, <2>1
  <2> QED
    BY <2>2 DEF Owned
<1>10. \A x \in Task : Behind(x)' = Behind(x)
  BY <1>7, <1>8, <1>9, BehindSame
<1> QED
  BY <1>2, <1>6, <1>7, <1>10, HandsKept DEF mutexVars

\* mutex_task_pri_reset: task t is off its list, by a timeout or because it is deleted, and the
\* owner of the mutex it waited for goes back to what it is due.
LEMMA mutex_task_pri_reset_Due ==
  ASSUME DueInv, OwnInv', NEW t \in Task, task_state[t] \in PendStates, crit.op \in {"tick", "mutex_free"},
         \A o \in Obj : ToSet(blk_list'[o]) = ToSet(blk_list[o]) \ {t}, WaitOrder',
         NEW after, after.op \in {"tick", "task_del"}, crit' = mutex_task_pri_reset(t, after),
         UNCHANGED <<prio, b_prio, obj_type, mutex_task, mutex_head, mutex_next>>,
         \A x \in Task : Live(x)' => Live(x) /\ ~Dying(x),
         \A x \in Task : Dying(x) => x = t
  PROVE  PriOK' /\ BoostOK'
<1>1. PICK m \in Obj : m = blk_obj[t] /\ t \in ToSet(blk_list[m])
  BY DEF DueInv, OwnInv, CoreInv, ListInv, BlkObjOK, WaitListsOK
<1>2. MutexTypes /\ CoreTypeOK /\ CoreTypeOK'
  BY Types DEF DueInv, OwnInv, CoreInv
<1>3. (\A op \in {"mutex_lock", "mutex_unlock"} : ~Doing(op)) /\ \A x \in Task : Eff(x) = prio[x]
  BY DEF Doing, Eff
<1>4. /\ crit'.op = "pri_change" /\ crit'.after = after
  BY DEF mutex_task_pri_reset, Release, PriChange
<1>5. \A op \in {"mutex_lock", "mutex_unlock"} : ~Doing(op)'
  BY <1>4 DEF Doing
<1>6. BoostOK'
  BY <1>5 DEF BoostOK
<1>7. \A x : Owned(x)' = Owned(x) /\ Owned(x) \subseteq Obj
  BY <1>3, <1>5 DEF Owned, Loose
<1>8. /\ \A x : \A u : u \in Behind(x) <=> \E y \in Owned(x) : u \in ToSet(blk_list[y])
      /\ \A x : Behind(x)' = UNION {ToSet(blk_list'[y]) : y \in Owned(x)}
  BY <1>3, <1>5, <1>7, BehindPlain
<1>9. \A y \in Obj \ {m} : t \notin ToSet(blk_list[y])
  BY <1>1 DEF DueInv, OwnInv, CoreInv, ListInv, WaitListsOK
<1>10. ASSUME NEW x \in Task, m \notin Owned(x) PROVE Behind(x)' = Behind(x)
  <2>1. \A u : u \in Behind(x)' <=> \E y \in Owned(x) : u \in ToSet(blk_list'[y])
    BY <1>8
  <2>2. \A y \in Owned(x) : ToSet(blk_list'[y]) = ToSet(blk_list[y])
    BY <1>7, <1>9, <1>10
  <2> QED
    BY <1>8, <2>1, <2>2
<1>11. \A x : m \in Owned(x) <=> obj_type[m] /\ mutex_task[m] = x
  BY <1>3 DEF Owned, Loose
<1>12. CASE ~(obj_type[m] /\ prio[mutex_task[m]] = prio[t])
  <2>1. crit'.task = NoTask
    BY <1>1, <1>12 DEF mutex_task_pri_reset, PriChange
  <2>2. \A x \in Task : Eff(x)' = prio[x]
    BY <2>1, MutexAssumption DEF Eff
  <2>3. ASSUME NEW x \in Task, m \in Owned(x), Live(x)'
        PROVE  Right(Eff(x)', b_prio'[x], Behind(x)', prio')
    <3>1. Right(prio[x], b_prio[x], Behind(x), prio)
      BY <1>3, <2>3 DEF DueInv, PriOK
    <3>2. Behind(x)' = Behind(x) \ {t}
      <4>1. \A u : u \in Behind(x)' <=> \E y \in Owned(x) : u \in ToSet(blk_list'[y])
        BY <1>8
      <4>2. \A u : u \in Behind(x)' <=> \E y \in Owned(x) : u \in ToSet(blk_list[y]) \ {t}
        BY <1>7, <4>1
      <4> QED
        BY <1>8, <4>2
    <3>3. prio[x] # prio[t]
      BY <1>11, <1>12, <2>3
    <3>4. Right(prio[x], b_prio[x], Behind(x) \ {t}, prio)
      BY <3>1, <3>3, RightLess
    <3> QED
      BY <2>2, <3>2, <3>4
  <2>4. PriOK'
    BY <1>3, <1>10, <2>2, <2>3, PriNext DEF DueInv
  <2> QED
    BY <1>6, <2>4
<1>13. CASE obj_type[m] /\ prio[mutex_task[m]] = prio[t]
  <2>1. PICK w \in Task : w = mutex_task[m] /\ w # t /\ Live(w)
    <3>1. blk_list[m] # << >>
      BY <1>1, <1>2, NoElements DEF CoreTypeOK
    <3> QED
      BY <1>1, <1>2, <1>13, <3>1 DEF DueInv, OwnInv, OwnOK, OwnersOK, MutexTypes
  <2> DEFINE due == mutex_pri_look(w, NoObj, blk_list', prio)
  <2>2. /\ crit'.task = IF due # prio[w] THEN w ELSE NoTask
        /\ crit'.pri = due
    BY <1>1, <1>13, <2>1 DEF mutex_task_pri_reset, Release, PriChange
  <2>3. Right(due, b_prio[w], Behind(w)', prio)
    <3>1. Held(w) \ {NoObj} = Owned(w)
      <4>1. ~Dying(w)
        BY <2>1
      <4>2. NoObj \notin Owned(w)
        BY <1>7, TaskAssumption
      <4> QED
        BY <2>1, <4>1, <4>2 DEF DueInv, OwnInv, OwnOK, ListsOwned
    <3>2. \A y \in Owned(w) : Ascending(blk_list'[y], prio)
      BY <1>7 DEF WaitOrder
    <3>3. blk_list' \in [Obj -> Seq(Task)] /\ prio \in [Task -> Prio] /\ b_prio[w] \in Prio
      BY <1>2 DEF CoreTypeOK, MutexTypes
    <3>4. Owned(w) \subseteq Obj /\ Behind(w)' = UNION {ToSet(blk_list'[y]) : y \in Owned(w)}
      BY <1>7, <1>8
    <3>5. Right(HighestOf(b_prio[w], Owned(w), blk_list', prio), b_prio[w], Behind(w)', prio)
      BY <3>2, <3>3, <3>4, HighestRight
    <3> QED
      BY <3>1, <3>5 DEF mutex_pri_look
  <2> HIDE DEF due
  <2>4. Right(Eff(w)', b_prio'[w], Behind(w)', prio')
    <3>1. Eff(w)' = due
      BY <1>4, <2>2, MutexAssumption DEF Eff
    <3> QED
      BY <2>3, <3>1
  <2>5. ASSUME NEW x \in Task, x # w PROVE Eff(x)' = Eff(x) /\ Behind(x)' = Behind(x)
    <3>1. Behind(x)' = Behind(x)
      BY <1>10, <1>11, <2>1, <2>5
    <3> QED
      BY <1>3, <1>4, <2>2, <2>5, <3>1, MutexAssumption DEF Eff
  <2>6. PriOK'
    BY <2>4, <2>5, PriNext DEF DueInv
  <2> QED
    BY <1>6, <2>6
<1> QED
  BY <1>12, <1>13

LEMMA mutex_pend_timeout_Due ==
  ASSUME DueInv, OwnInv', WaitOrder', NEW t \in Task, mutex_pend_timeout(t) PROVE PriOK' /\ BoostOK'
<1>1. /\ crit.op = "tick" /\ unpend(t) /\ crit' = mutex_task_pri_reset(t, After("tick", NoObj, 0))
      /\ UNCHANGED <<prio, suspend_count, mutexVars>>
  BY DEF mutex_pend_timeout, tick_pend_timeout
<1>2. CoreTypeOK /\ ListInv
  BY DEF DueInv, OwnInv, CoreInv
<1>3. \A o \in Obj : ToSet(blk_list'[o]) = ToSet(blk_list[o]) \ {t}
  BY <1>1, <1>2, Unpend
<1>4. (\A u \in Task : Live(u)' <=> Live(u)) /\ task_state[t] \in PendStates
  BY <1>1, <1>2, UnpendLive
<1>5. (\A x : ~Dying(x)) /\ After("tick", NoObj, 0).op = "tick"
  BY <1>1 DEF Dying, After
<1> QED
  BY <1>1, <1>3, <1>4, <1>5, mutex_task_pri_reset_Due DEF mutexVars

\* The task that is being deleted is unlinked: whoever it waited for loses its priority.
LEMMA task_del_unlink_Due ==
  ASSUME DueInv, OwnInv', WaitOrder', task_del_unlink PROVE PriOK' /\ BoostOK'
<1>1. PICK t : t = crit.task
  OBVIOUS
<1>2. /\ crit.op = "mutex_free" /\ UNCHANGED <<prio, suspend_count, blk_obj, mutexVars>>
  BY DEF task_del_unlink
<1>3. t \in Task \ {Idle} /\ CoreTypeOK /\ ListInv
  BY <1>1, <1>2, CritShape DEF DueInv, OwnInv, CritOK, CoreInv
<1>4. \A x : Dying(x) <=> x = t
  BY <1>1, <1>2 DEF Dying
<1>5. CASE /\ task_unlink(t)
           /\ crit' = IF task_state[t] \in PendStates
                      THEN mutex_task_pri_reset(t, After("task_del", NoObj, 0))
                      ELSE PriChange(NoTask, 0, After("task_del", NoObj, 0))
  <2>1. \A o \in Obj : ToSet(blk_list'[o]) = ToSet(blk_list[o]) \ {t}
    BY <1>2, <1>3, <1>5, UnlinkLists
  <2>2. \A x \in Task : Live(x)' => Live(x) /\ ~Dying(x)
    BY <1>3, <1>4, <1>5 DEF task_unlink, Live, CoreTypeOK
  <2>3. After("task_del", NoObj, 0).op = "task_del"
    BY DEF After
  <2>4. CASE task_state[t] \in PendStates
    BY <1>2, <1>3, <1>4, <1>5, <2>1, <2>2, <2>3, <2>4, mutex_task_pri_reset_Due DEF mutexVars
  <2>5. CASE task_state[t] \notin PendStates
    <3>1. crit'.op = "pri_change" /\ crit'.task = NoTask /\ crit'.after.op = "task_del"
      BY <1>5, <2>3, <2>5 DEF PriChange
    <3>2. \A x \in Task : Owned(x)' = Owned(x)
      BY <1>2, <3>1 DEF Owned, Loose, Doing, mutexVars
    <3>3. ~Doing("mutex_lock") /\ ~Doing("mutex_lock")' /\ blk_list' = blk_list
      BY <1>2, <1>5, <2>5, <3>1 DEF Doing, task_unlink
    <3>4. \A x \in Task : Behind(x)' = Behind(x)
      BY <3>2, <3>3, BehindSame
    <3> QED
      BY <1>2, <2>2, <3>1, <3>4, HandsKept DEF mutexVars
  <2> QED
    BY <2>4, <2>5
<1>6. CASE task_state[t] = "K_DELETED" /\ crit' = NoCrit /\ UNCHANGED <<task_state, tick_match, queueVars>>
  <2>1. crit'.op = "none" /\ \A x \in Task : Live(x)' => Live(x) /\ ~Dying(x)
    BY <1>4, <1>6 DEF NoCrit, Live
  <2> QED
    BY <1>2, <1>6, <2>1, AllKept DEF mutexVars, queueVars, Doing
<1> QED
  BY <1>1, <1>5, <1>6 DEF task_del_unlink

\* One turn of task_pri_change for a task that does not wait: nobody's inheritance depends on it.
LEMMA TurnNotWaiting ==
  ASSUME DueInv, OwnInv', NEW t \in Task, NEW p \in Prio, crit.op = "pri_change", crit.task = t, crit.pri = p,
         task_state[t] \notin PendStates, task_pri_change_turn(t, p), crit' = ChainEnds(p),
         UNCHANGED <<task_state, g_active_task, mutexVars>>
  PROVE  PriOK' /\ BoostOK'
<1>1. crit'.op = "pri_change" /\ crit'.task = NoTask /\ crit'.after = crit.after
  BY DEF ChainEnds, PriChange
<1>2. prio' = [prio EXCEPT ![t] = p] /\ blk_list' = blk_list /\ prio \in [Task -> Prio]
  BY Types DEF task_pri_change_turn, DueInv, CoreTypeOK
<1>3. t # NoTask
  BY MutexAssumption
<1>4. \A op : Doing(op)' <=> Doing(op)
  BY <1>1 DEF Doing
<1>5. \A x : Owned(x)' = Owned(x)
  BY <1>1, <1>4 DEF Owned, Loose, mutexVars
<1>6. \A y : \A u : u \in Waiting(y)' <=> u \in Waiting(y)
  BY <1>1, <1>2, <1>4 DEF Waiting
<1>7. ASSUME NEW x PROVE Behind(x)' = Behind(x)
  <2>1. \A u : u \in Behind(x)' <=> u \in Behind(x)
    BY <1>5, <1>6, InBehind
  <2> QED
    BY <2>1
<1>8. \A x : \A u \in Behind(x) : u \in Task \ {t}
  <2> SUFFICES ASSUME NEW x, NEW u \in Behind(x) PROVE u \in Task \ {t}
    OBVIOUS
  <2>1. PICK y \in Owned(x) : u \in Waiting(y)
    BY InBehind
  <2>2. y \in Obj
    BY <2>1 DEF Owned
  <2>3. CASE u \in ToSet(blk_list[y])
    <3>1. u \in Task
      BY <2>2, <2>3, Types, ToSetByIndex DEF DueInv, CoreTypeOK
    <3> QED
      BY <2>2, <2>3, <3>1 DEF DueInv, OwnInv, CoreInv, ListInv, WaitListsOK
  <2>4. CASE Doing("mutex_lock") /\ u = g_active_task
    <3>1. prio[t] > prio[g_active_task]
      BY <1>3, <2>4 DEF DueInv, BoostOK
    <3>2. g_active_task \in Task /\ prio[t] \in Int
      BY <1>2, Types, PriAssumption DEF DueInv, CoreTypeOK, Prio
    <3> QED
      BY <2>4, <3>1, <3>2
  <2> QED
    BY <2>1, <2>3, <2>4 DEF Waiting
<1>9. \A x \in Task : Eff(x)' = Eff(x) /\ \A u \in Behind(x) : prio'[u] = prio[u]
  BY <1>1, <1>2, <1>3, <1>8, MutexAssumption DEF Eff
<1>10. \A x : (Live(x)' <=> Live(x)) /\ ~Dying(x)
  BY DEF Live, Dying
<1>11. PriOK'
  BY <1>7, <1>9, <1>10, PriNext DEF DueInv, mutexVars
<1> QED
  BY <1>1, <1>11 DEF BoostOK, Doing

\* ... and for a task that waits: the owner of the mutex it waits for is next, unless its
\* priority is still right.  Three cases, as in the code: the owner is raised; it ran at the
\* priority that t had and falls back to what it is due now; it keeps its priority, which it
\* has from itself or from another waiter.
LEMMA TurnWaiting ==
  ASSUME DueInv, OwnInv', WaitOrder', NEW t \in Task, NEW p \in Prio, crit.op = "pri_change",
         crit.task = t, crit.pri = p, task_state[t] \in PendStates,
         prio' = [prio EXCEPT ![t] = p], \A o \in Obj : ToSet(blk_list'[o]) = ToSet(blk_list[o]),
         crit' = PriChange(NextInChain(t, p)[1], NextInChain(t, p)[2], crit.after),
         UNCHANGED <<task_state, g_active_task, mutexVars>>
  PROVE  PriOK' /\ BoostOK'
<1>1. PICK m \in Obj : m = blk_obj[t] /\ \A y \in Obj : t \in ToSet(blk_list[y]) <=> y = m
  BY DEF DueInv, OwnInv, CoreInv, ListInv, BlkObjOK, WaitListsOK
<1>2. /\ MutexTypes /\ CoreTypeOK /\ prio \in [Task -> Prio] /\ g_active_task \in Task
      /\ blk_list' \in [Obj -> Seq(Task)] /\ prio' \in [Task -> Prio] /\ b_prio \in [Task -> Prio]
  BY Types DEF DueInv, OwnInv, CoreInv, CoreTypeOK, MutexTypes
<1>3. Prio \subseteq Int /\ t # NoTask
  BY PriAssumption, MutexAssumption DEF Prio
<1>4. ~Doing("mutex_unlock") /\ (Doing("mutex_lock") => g_active_task # t /\ p = prio[g_active_task] /\ prio[t] > p)
  <2>1. Doing("mutex_unlock") \/ Doing("mutex_lock") => g_active_task # t
    BY DEF DueInv, OwnInv, CritOK, PendStates
  <2> QED
    BY <1>3, <2>1 DEF DueInv, BoostOK
<1>5. crit'.op = "pri_change" /\ crit'.after = crit.after /\ \A op : Doing(op)' <=> Doing(op)
  BY DEF PriChange, Doing
<1>6. \A x : Owned(x)' = Owned(x) /\ Owned(x) \subseteq Obj
  BY <1>5 DEF Owned, Loose, mutexVars
<1>7. \A y \in Obj : \A u : u \in Waiting(y)' <=> u \in Waiting(y)
  BY <1>5 DEF Waiting
<1>8. ASSUME NEW x PROVE Behind(x)' = Behind(x)
  <2>1. \A u : u \in Behind(x)' <=> u \in Behind(x)
    BY <1>6, <1>7, InBehind
  <2> QED
    BY <2>1
<1>9. \A x : t \in Behind(x) <=> m \in Owned(x)
  <2>1. \A y \in Obj : t \in Waiting(y) <=> y = m
    BY <1>1, <1>4 DEF Waiting
  <2> QED
    BY <1>6, <2>1, InBehind
<1>10. \A x : Behind(x) \subseteq Task
  <2>1. \A y \in Obj : ToSet(blk_list[y]) \subseteq Task
    BY <1>2, ToSetByIndex DEF CoreTypeOK
  <2>2. \A y \in Obj : Waiting(y) \subseteq Task
    BY <1>2, <2>1 DEF Waiting
  <2> QED
    BY <1>6, <2>2, InBehind
<1>11. \A x : (Live(x)' <=> Live(x)) /\ ~Dying(x)
  BY DEF Live, Dying
<1>12. \A x : m \in Owned(x) <=> obj_type[m] /\ mutex_task[m] = x
  BY <1>4 DEF Owned, Loose
<1>13. \A x \in Task : m \notin Owned(x) => \A u \in Behind(x) : prio'[u] = prio[u]
  BY <1>2, <1>9, <1>10
<1>14. CASE ~obj_type[m]
  <2>1. crit'.task = NoTask
    BY <1>1, <1>14 DEF NextInChain, PriChange
  <2>2. \A x \in Task : Eff(x)' = Eff(x)
    BY <1>2, <1>3, <2>1, MutexAssumption DEF Eff
  <2>3. PriOK'
    BY <1>8, <1>11, <1>12, <1>13, <1>14, <2>2, PriNext DEF DueInv, mutexVars
  <2> QED
    BY <1>4, <1>5, <2>1, <2>3 DEF BoostOK
<1>15. CASE obj_type[m]
  <2>1. PICK w \in Task : w = mutex_task[m] /\ w # t /\ Live(w)
    <3>1. blk_list[m] # << >>
      BY <1>1, <1>2, NoElements DEF CoreTypeOK
    <3> QED
      BY <1>1, <1>2, <1>15, <3>1 DEF DueInv, OwnInv, OwnOK, OwnersOK, MutexTypes
  <2> DEFINE due  == mutex_pri_look(w, NoObj, blk_list', prio')
             B    == Behind(w)
  <2>2. \/ prio[w] > p /\ crit'.task = w /\ crit'.pri = p
        \/ ~(prio[w] > p) /\ prio[w] = prio[t] /\ due # prio[w] /\ crit'.task = w /\ crit'.pri = due
        \/ ~(prio[w] > p) /\ ~(prio[w] = prio[t] /\ due # prio[w]) /\ crit'.task = NoTask
    BY <1>1, <1>15, <2>1 DEF NextInChain, PriChange
  <2>3. /\ Right(prio[w], b_prio[w], B, prio) /\ t \in B /\ B \subseteq Task
        /\ prio[w] \in Int /\ b_prio[w] \in Int /\ prio[t] \in Int /\ p \in Int
        /\ \A u \in B : /\ prio[u] \in Int /\ prio'[u] = IF u = t THEN p ELSE prio[u]
    <3>1. Eff(w) = prio[w]
      BY <2>1 DEF Eff
    <3>2. t \in B /\ B \subseteq Task
      BY <1>9, <1>10, <1>12, <1>15, <2>1
    <3>3. Right(prio[w], b_prio[w], B, prio)
      BY <1>11, <2>1, <3>1 DEF DueInv, PriOK
    <3> QED
      BY <1>2, <1>3, <3>2, <3>3
  <2>4. ASSUME ~Doing("mutex_lock") PROVE Right(due, b_prio[w], B, prio')
    <3>1. Held(w) \ {NoObj} = Owned(w)
      <4>1. NoObj \notin Owned(w)
        BY <1>6, TaskAssumption
      <4> QED
        BY <1>11, <2>1, <4>1 DEF DueInv, OwnInv, OwnOK, ListsOwned
    <3>2. Owned(w) \subseteq Obj /\ \A y \in Owned(w) : Ascending(blk_list'[y], prio')
      BY <1>6 DEF WaitOrder
    <3>3. B = UNION {ToSet(blk_list'[y]) : y \in Owned(w)}
      <4>1. \A u : u \in B <=> \E y \in Owned(w) : u \in ToSet(blk_list[y])
        BY <2>4, BehindPlain
      <4>2. \A u : u \in B <=> \E y \in Owned(w) : u \in ToSet(blk_list'[y])
        BY <1>6, <4>1
      <4> QED
        BY <4>2
    <3> HIDE DEF B
    <3>4. Right(HighestOf(b_prio[w], Owned(w), blk_list', prio'), b_prio[w], B, prio')
      BY <1>2, <3>2, <3>3, HighestRight
    <3> QED
      BY <3>1, <3>4 DEF mutex_pri_look
  <2> HIDE DEF due, B
  <2>5. Right(IF crit'.task = w THEN crit'.pri ELSE prio[w], b_prio[w], B, prio')
    <3>1. CASE prio[w] > p
      <4>1. crit'.task = w /\ crit'.pri = p
        BY <2>2, <3>1
      <4>2. p <= b_prio[w] /\ \A u \in B : p <= prio'[u]
        BY <2>3, <3>1 DEF Right
      <4>3. t \in B /\ p = prio'[t]
        BY <2>3
      <4> QED
        BY <4>1, <4>2, <4>3 DEF Right
    <3>2. CASE ~(prio[w] > p) /\ prio[w] = prio[t]
      <4>1. ~Doing("mutex_lock")
        BY <1>4, <2>3, <3>2
      <4>2. (IF crit'.task = w THEN crit'.pri ELSE prio[w]) = due
        BY <2>1, <2>2, <3>2, MutexAssumption
      <4> QED
        BY <2>4, <4>1, <4>2
    <3>3. CASE ~(prio[w] > p) /\ prio[w] # prio[t]
      <4>1. crit'.task = NoTask
        BY <2>2, <3>3
      <4>2. \A u \in B : prio[w] <= prio'[u]
        BY <2>3, <3>3 DEF Right
      <4>3. prio[w] <= b_prio[w] /\ (prio[w] = b_prio[w] \/ \E u \in B : prio[w] = prio'[u])
        BY <2>3, <3>3 DEF Right
      <4> QED
        BY <4>1, <4>2, <4>3, MutexAssumption DEF Right
    <3> QED
      BY <3>1, <3>2, <3>3
  <2>6. Right(Eff(w)', b_prio'[w], Behind(w)', prio')
    <3>1. prio'[w] = prio[w]
      BY <1>2, <2>1
    <3>2. Eff(w)' = IF crit'.task = w THEN crit'.pri ELSE prio[w]
      BY <1>5, <3>1 DEF Eff
    <3> QED
      BY <1>8, <2>5, <3>2 DEF B, mutexVars
  <2>7. ASSUME NEW x \in Task, x # w PROVE Eff(x)' = Eff(x)
    <3>1. crit'.task # x
      BY <2>2, <2>7, MutexAssumption
    <3> QED
      BY <1>2, <1>5, <3>1 DEF Eff
  <2>8. PriOK'
    BY <1>8, <1>11, <1>12, <1>13, <2>1, <2>6, <2>7, PriNext DEF DueInv, mutexVars
  <2>9. BoostOK'
    <3>1. ASSUME Doing("mutex_lock"), crit'.task # NoTask
          PROVE  crit'.pri = prio'[g_active_task] /\ prio'[crit'.task] > prio'[g_active_task]
      <4>1. prio[w] > p
        BY <1>4, <2>2, <2>3, <3>1
      <4>2. crit'.task = w /\ crit'.pri = p
        BY <2>2, <4>1
      <4> QED
        BY <1>2, <1>4, <2>1, <3>1, <4>1, <4>2
    <3> QED
      BY <1>4, <1>5, <3>1 DEF BoostOK
  <2> QED
    BY <2>8, <2>9
<1> QED
  BY <1>14, <1>15

LEMMA task_pri_change_Due ==
  ASSUME DueInv, OwnInv', WaitOrder', task_pri_change PROVE PriOK' /\ BoostOK'
<1>1. PICK t, p : t = crit.task /\ p = crit.pri
  OBVIOUS
<1>2. /\ crit.op = "pri_change" /\ t # NoTask
      /\ UNCHANGED <<task_state, suspend_count, blk_state, blk_obj, tick_match, rrVars,
                     g_tick_head, g_tick_count, cpuVars, callVars, mutexVars>>
  BY <1>1 DEF task_pri_change
<1>3. t \in Task \ {Idle} /\ p \in Prio /\ p < IDLE_PRI /\ crit # NoCrit /\ CoreTypeOK
  BY <1>1, <1>2, CritShape, Types DEF DueInv, OwnInv, CritOK, NoCrit
<1>4. CASE prio[t] = p /\ crit' = ChainEnds(p) /\ UNCHANGED <<prio, g_ready_queue, blk_list>>
  <2>1. crit'.op = "pri_change" /\ crit'.task = NoTask /\ crit'.after = crit.after
    BY <1>4 DEF ChainEnds, PriChange
  <2>2. \A op : Doing(op)' <=> Doing(op)
    BY <1>2, <2>1 DEF Doing
  <2>3. \A x : Owned(x)' = Owned(x)
    BY <1>2, <2>1, <2>2 DEF Owned, Loose, mutexVars
  <2>4. \A y : \A u : u \in Waiting(y)' <=> u \in Waiting(y)
    BY <1>2, <1>4, <2>1, <2>2 DEF Waiting, cpuVars
  <2>5. ASSUME NEW x PROVE Behind(x)' = Behind(x)
    <3>1. \A u : u \in Behind(x)' <=> u \in Behind(x)
      BY <2>3, <2>4, InBehind
    <3> QED
      BY <3>1
  <2>6. \A x \in Task : Eff(x)' = Eff(x)
    BY <1>1, <1>2, <1>4, <2>1, MutexAssumption DEF Eff
  <2>7. \A x : (Live(x)' <=> Live(x)) /\ ~Dying(x)
    BY <1>2 DEF Live, Dying
  <2>8. PriOK'
    BY <1>2, <1>4, <2>5, <2>6, <2>7, PriNext DEF DueInv, mutexVars
  <2> QED
    BY <2>1, <2>8 DEF BoostOK, Doing
<1>5. CASE /\ task_state[t] \in PendStates /\ task_pri_change_turn(t, p)
           /\ LET next == NextInChain(t, p) IN crit' = PriChange(next[1], next[2], crit.after)
  <2>1. crit' # NoCrit
    BY <1>5 DEF PriChange, NoCrit
  <2>2. prio' = [prio EXCEPT ![t] = p] /\ \A o \in Obj : ToSet(blk_list'[o]) = ToSet(blk_list[o])
    BY <1>2, <1>3, <1>5, <2>1, TurnCore DEF DueInv
  <2>3. crit' = PriChange(NextInChain(t, p)[1], NextInChain(t, p)[2], crit.after)
    BY <1>5
  <2> QED
    BY <1>1, <1>2, <1>3, <1>5, <2>2, <2>3, TurnWaiting DEF cpuVars
<1>6. CASE /\ task_state[t] \notin PendStates /\ task_pri_change_turn(t, p) /\ crit' = ChainEnds(p)
  BY <1>1, <1>2, <1>3, <1>6, TurnNotWaiting DEF cpuVars
<1>7. CASE crit' = ErrCrit
  BY <1>7 DEF PriOK, BoostOK, Doing, ErrCrit
<1> QED
  BY <1>1, <1>4, <1>5, <1>6, <1>7 DEF task_pri_change

\* Every step keeps inheritance exact.
LEMMA MutexNext_Due ==
  ASSUME DueInv, "task_del_again" \notin Calls, Next PROVE DueInv'
<1>1. OwnInv' /\ WaitOrder'
  BY MutexNext_Own, MutexNext_Wait DEF DueInv
<1> SUFFICES PriOK' /\ BoostOK'
  BY <1>1 DEF DueInv
<1>2. CASE CoreStep
  BY <1>2, CoreStep_Due
<1>3. CASE \E t \in Task : mutex_pend_timeout(t)
  BY <1>1, <1>3, mutex_pend_timeout_Due
<1>4. CASE \E m \in Obj : MutexService(m)
  <2>1. Ticks \cup {WaitForever} \subseteq 0 .. TickMod - 1
    BY TickAssumption
  <2>2. ASSUME NEW m \in Obj, NEW ticks \in Ticks \cup {WaitForever}, krhino_mutex_lock(m, ticks)
        PROVE  PriOK' /\ BoostOK'
    BY <2>1, <2>2, krhino_mutex_lock_Due
  <2> QED
    BY <1>4, <2>2, krhino_mutex_create_Due, krhino_mutex_unlock_Due, krhino_mutex_del_Due DEF MutexService
<1>5. CASE MutexTaskService
  <2>1. ASSUME NEW new \in NewTask, mutex_task_create(new[1], new[2], new[3]) PROVE PriOK' /\ BoostOK'
    <3>1. new[1] \in Task /\ new[2] \in Prio /\ new[3] \in BOOLEAN
      BY PriAssumption DEF Prio
    <3> QED
      BY <1>1, <2>1, <3>1, mutex_task_create_Due
  <2> QED
    BY <1>5, <2>1, pri_change_enter_Due, krhino_task_del_Due DEF MutexTaskService
<1>6. CASE MutexLoop
  BY <1>1, <1>6, task_pri_change_Due, mutex_lock_pend_Due, mutex_unlock_wake_Due, mutex_del_turn_Due,
     Done_Due, task_mutex_free_Due, task_del_unlink_Due DEF MutexLoop
<1> QED
  BY <1>2, <1>3, <1>4, <1>5, <1>6 DEF Next

\* DueInv is an invariant: inheritance is exact in every state, if the priority that
\* task_pri_change is about to give is counted as given.
THEOREM InheritanceInvariant ==
  ASSUME "task_del_again" \notin Calls PROVE Spec => []DueInv
<1>1. ASSUME MutexInit PROVE DueInv
  <2>1. OwnInv /\ WaitOrder
    BY <1>1, MutexInit_Own DEF MutexInit, CoreInit, WaitOrder, Ascending
  <2>2. crit.op = "none" /\ b_prio = prio /\ \A x : Owned(x) = {}
    BY <1>1 DEF MutexInit, CoreInit, NoCrit, Owned
  <2>3. \A x : Behind(x) = {} /\ Eff(x) = b_prio[x]
    BY <2>2 DEF Behind, Eff
  <2>4. \A x \in Task : b_prio[x] <= b_prio[x]
    <3>1. b_prio \in [Task -> Prio]
      BY <2>1, Types DEF MutexTypes
    <3> QED
      BY <3>1, PriAssumption DEF Prio
  <2>5. PriOK /\ BoostOK
    BY <2>2, <2>3, <2>4 DEF PriOK, BoostOK, Right, Doing
  <2> QED
    BY <2>1, <2>5 DEF DueInv
<1>2. ASSUME DueInv, UNCHANGED vars PROVE DueInv'
  <2>1. OwnInv' /\ WaitOrder'
    BY <1>2, MutexStutter_Own, WaitKept DEF DueInv, vars, coreVars, tcbVars, queueVars
  <2>2. PriOK' /\ BoostOK'
    BY <1>2 DEF DueInv, PriOK, BoostOK, Right, Eff, Behind, Waiting, Owned, Loose, Doing, Dying, Live,
       vars, coreVars, tcbVars, queueVars, cpuVars, mutexVars
  <2> QED
    BY <2>1, <2>2 DEF DueInv
<1>3. DueInv /\ [Next]_vars => DueInv'
  BY <1>2, MutexNext_Due
<1> QED
  BY <1>1, <1>3, PTL DEF Spec

\* Priority inheritance is exact, however locks, unlocks, timeouts, deletions and changes of
\* priority follow each other along chains of owners, cycles of deadlocked tasks included.
THEOREM InheritanceHolds ==
  ASSUME "task_del_again" \notin Calls PROVE Spec => []InheritanceExact
<1>1. ASSUME DueInv PROVE InheritanceExact
  <2> SUFFICES ASSUME crit = NoCrit, NEW t \in Task, Live(t)
               PROVE  prio[t] = HighestOf(b_prio[t], Held(t), blk_list, prio)
    BY DEF InheritanceExact
  <2>1. /\ Right(prio[t], b_prio[t], Behind(t), prio) /\ Held(t) = Owned(t)
        /\ Behind(t) = UNION {ToSet(blk_list[m]) : m \in Owned(t)}
    BY <1>1, RestDue
  <2>2. blk_list \in [Obj -> Seq(Task)] /\ prio \in [Task -> Prio] /\ b_prio[t] \in Prio /\ prio[t] \in Prio
    BY <1>1, Types DEF DueInv, CoreTypeOK, MutexTypes
  <2>3. Owned(t) \subseteq Obj /\ \A m \in Owned(t) : Ascending(blk_list[m], prio)
    BY <1>1 DEF Owned, DueInv, WaitOrder
  <2>4. Behind(t) \subseteq Task
    BY <2>1, <2>2, <2>3, ToSetByIndex
  <2>5. HighestOf(b_prio[t], Owned(t), blk_list, prio) \in Prio
    BY <2>2, <2>3, HighestRange
  <2>6. Right(HighestOf(b_prio[t], Owned(t), blk_list, prio), b_prio[t], Behind(t), prio)
    BY <2>1, <2>2, <2>3, HighestRight
  <2>7. prio[t] = HighestOf(b_prio[t], Owned(t), blk_list, prio)
    BY <2>1, <2>2, <2>4, <2>5, <2>6, RightOnce
  <2> QED
    BY <2>1, <2>7
<1> QED
  BY <1>1, InheritanceInvariant, PTL

-----------------------------------------------------------------------------
(***************************************************************************)
(* What krhino_mutex_lock reports.                                         *)
(***************************************************************************)
\* A task in a blocking call, what it blocks on and how its wait ended agree with the owners.
PendPcs == {"pend_sched", "pend_end"}
Report(t) ==
  /\ task_state[t] \in SleepStates => arg[t] \notin Obj
  /\ task_state[t] \in PendStates =>
       pc[t] \in PendPcs /\ arg[t] = blk_obj[t] /\ mutex_task[blk_obj[t]] # t
  /\ Live(t) /\ ~Dying(t) /\ pc[t] \in PendPcs /\ arg[t] \in Obj /\ blk_obj[t] = NoObj =>
       (blk_state[t] = "BLK_FINISH" <=> mutex_task[arg[t]] = t)
ReportOK == \A t \in Task : Report(t)

\* A task that nothing happens to.
LEMMA ReportKept ==
  ASSUME OwnInv, NEW t \in Task, Report(t),
         task_state'[t] \in SleepStates => task_state[t] \in SleepStates,
         task_state'[t] \in PendStates => task_state[t] \in PendStates,
         Live(t)' /\ ~Dying(t)' => Live(t) /\ ~Dying(t),
         blk_state'[t] = blk_state[t], blk_obj'[t] = blk_obj[t], arg'[t] = arg[t],
         pc'[t] \in PendPcs <=> pc[t] \in PendPcs,
         Live(t) /\ arg[t] \in Obj => (mutex_task'[arg[t]] = t <=> mutex_task[arg[t]] = t)
  PROVE  Report(t)'
<1>1. task_state[t] \in PendStates => blk_obj[t] \in Obj /\ Live(t)
  BY DEF OwnInv, CoreInv, ListInv, BlkObjOK, Live, PendStates
<1>2. task_state'[t] \in PendStates =>
        pc'[t] \in PendPcs /\ arg'[t] = blk_obj'[t] /\ mutex_task'[blk_obj'[t]] # t
  BY <1>1 DEF Report
<1> QED
  BY <1>2 DEF Report

\* A task that is in no blocking call, or not alive.
LEMMA ReportOut ==
  ASSUME NEW t, task_state'[t] \notin SleepStates \cup PendStates, pc'[t] \notin PendPcs \/ ~Live(t)'
  PROVE  Report(t)'
  BY DEF Report

\* A wait ends: the waiter is the owner exactly if the call is to succeed.
LEMMA ReportWoken ==
  ASSUME OwnInv, NEW t \in Task, Report(t), unpend(t), UNCHANGED callVars \/ arg' = arg,
         blk_state'[t] = "BLK_FINISH" <=> mutex_task'[blk_obj[t]] = t
  PROVE  Report(t)'
<1>1. task_state'[t] \in {"K_RDY", "K_SUSPENDED"} /\ task_state[t] \in PendStates
  BY DEF unpend, OwnInv, CoreInv, CoreTypeOK
<1>2. arg'[t] = blk_obj[t]
  BY <1>1 DEF Report, callVars
<1> QED
  BY <1>1, <1>2 DEF Report, SleepStates, PendStates

\* The end of a wait is nothing to the other tasks.
LEMMA UnpendOthers ==
  ASSUME OwnInv, NEW t \in Task, unpend(t), NEW b, blk_state' = [blk_state EXCEPT ![t] = b],
         NEW x \in Task, x # t
  PROVE  /\ task_state'[x] = task_state[x] /\ blk_state'[x] = blk_state[x] /\ blk_obj'[x] = blk_obj[x]
         /\ Live(x)' = Live(x)
  BY DEF unpend, OwnInv, CoreInv, CoreTypeOK, Live

\* The scheduler is still to come for a caller that was not in a blocking call.
LEMMA ExitReport ==
  ASSUME OwnInv, RHINO_CRITICAL_EXIT_SCHED, isr = "none" => pc[g_active_task] = "user"
  PROVE  arg' = arg /\ \A x \in Task : pc'[x] \in PendPcs <=> pc[x] \in PendPcs
  BY DEF RHINO_CRITICAL_EXIT_SCHED, OwnInv, CoreInv, CoreTypeOK, PendPcs

\* The core.
LEMMA KernelStep_Report ==
  ASSUME OwnInv, ReportOK, KernelStep, UNCHANGED mutexVars PROVE ReportOK'
<1> SUFFICES ASSUME NEW x \in Task PROVE Report(x)'
  BY DEF ReportOK
<1>1. Report(x) /\ CoreTypeOK
  BY Types DEF ReportOK
<1>2. crit.op # "mutex_free" /\ crit'.op # "mutex_free" /\ ~Dying(x) /\ mutex_task' = mutex_task
  BY DEF KernelStep, core_sched, pend_state_end_proc, krhino_intrpt_enter, krhino_intrpt_exit,
     tick_list_update, tick_sleep_end, tick_list_done, time_slice_update, NoCrit, Dying, mutexVars
<1>3. CASE UNCHANGED <<tcbVars, callVars>>
  BY <1>1, <1>2, <1>3, ReportKept DEF Live, tcbVars, callVars
<1>4. CASE core_sched
  <2>1. UNCHANGED <<tcbVars, arg>> /\ (pc'[x] \in PendPcs <=> pc[x] \in PendPcs)
    BY <1>1, <1>4 DEF core_sched, PendPcs, CoreTypeOK
  <2> QED
    BY <1>1, <1>2, <2>1, ReportKept DEF Live, tcbVars
<1>5. CASE pend_state_end_proc
  <2>1. CASE x = g_active_task
    <3>1. task_state[x] = "K_RDY" /\ UNCHANGED task_state /\ pc'[x] = "user"
      BY <1>1, <1>5, <2>1 DEF pend_state_end_proc, OwnInv, CoreInv, CallInv, RunsOnlyReady, CoreTypeOK,
         tcbVars
    <3> QED
      BY <3>1, ReportOut DEF SleepStates, PendStates, PendPcs
  <2>2. CASE x # g_active_task
    <3>1. UNCHANGED tcbVars /\ pc'[x] = pc[x] /\ arg'[x] = arg[x]
      BY <1>1, <1>5, <2>2 DEF pend_state_end_proc, CoreTypeOK
    <3> QED
      BY <1>1, <1>2, <3>1, ReportKept DEF Live, tcbVars
  <2> QED
    BY <2>1, <2>2
<1>6. ASSUME NEW t \in Task, tick_sleep_end(t) PROVE Report(x)'
  <2>1. UNCHANGED <<blk_obj, callVars>>
    BY <1>6 DEF tick_sleep_end
  <2>2. CASE x = t
    <3>1. task_state'[x] \in {"K_RDY", "K_SUSPENDED"} /\ arg'[x] \notin Obj
      BY <1>1, <1>6, <2>1, <2>2 DEF tick_sleep_end, Report, CoreTypeOK, callVars
    <3> QED
      BY <3>1 DEF Report, SleepStates, PendStates
  <2>3. CASE x # t
    <3>1. task_state'[x] = task_state[x] /\ blk_state'[x] = blk_state[x]
      BY <1>1, <1>6, <2>3 DEF tick_sleep_end, CoreTypeOK
    <3> QED
      BY <1>1, <1>2, <2>1, <3>1, ReportKept DEF Live, callVars
  <2> QED
    BY <2>2, <2>3
<1> QED
  BY <1>3, <1>4, <1>5, <1>6 DEF KernelStep, krhino_intrpt_enter, krhino_intrpt_exit, tick_list_update,
     tick_list_done, time_slice_update

LEMMA CoreStep_Report ==
  ASSUME OwnInv, ReportOK, CoreStep PROVE ReportOK'
<1>1. CASE KernelStep
  BY <1>1, KernelStep_Report DEF CoreStep
<1> SUFFICES ASSUME NEW x \in Task,
                    \/ LockService \/ SleepService \/ SuspendService \/ RRService \/ task_del_idle
                    \/ \E t, p : krhino_task_pri_change(t, p)
             PROVE  Report(x)'
  BY <1>1 DEF CoreStep, ReportOK
<1>2. Report(x) /\ CoreTypeOK
  BY Types DEF ReportOK
<1>3. crit = NoCrit /\ crit' = NoCrit /\ mutex_task' = mutex_task
  BY DEF LockService, SleepService, SuspendService, RRService, krhino_sched_disable, krhino_sched_enable,
     krhino_task_yield, krhino_task_sleep, krhino_task_suspend, krhino_task_resume,
     krhino_task_time_slice_set, krhino_sched_policy_set, task_del_idle, krhino_task_pri_change,
     TaskCall, IntrptCall, AnyCall, CoreStep, mutexVars
<1>4. ~Dying(x)
  BY <1>3 DEF Dying, NoCrit
<1>5. CASE UNCHANGED <<tcbVars, callVars>>
  BY <1>2, <1>3, <1>4, <1>5, ReportKept DEF Live, tcbVars, callVars
<1>6. ASSUME UNCHANGED <<blk_obj, blk_state>>, RHINO_CRITICAL_EXIT_SCHED,
             isr = "none" => pc[g_active_task] = "user",
             task_state'[x] \in SleepStates => task_state[x] \in SleepStates,
             task_state'[x] \in PendStates => task_state[x] \in PendStates, Live(x)' => Live(x)
      PROVE  Report(x)'
  <2>1. arg' = arg /\ (pc'[x] \in PendPcs <=> pc[x] \in PendPcs)
    BY <1>6, ExitReport
  <2> QED
    BY <1>2, <1>3, <1>4, <1>6, <2>1, ReportKept
<1>7. CASE LockService \/ RRService \/ task_del_idle
  BY <1>5, <1>6, <1>7 DEF LockService, RRService, task_del_idle, krhino_sched_disable,
     krhino_sched_enable, krhino_task_time_slice_set, krhino_sched_policy_set, TaskCall, tcbVars, Live
<1>8. CASE krhino_task_yield
  BY <1>6, <1>8 DEF krhino_task_yield, TaskCall, tcbVars, Live
<1>9. CASE \E ticks \in Ticks : krhino_task_sleep(ticks)
  <2>1. /\ task_state' = [task_state EXCEPT ![g_active_task] = "K_SLEEP"]
        /\ pc' = [pc EXCEPT ![g_active_task] = "pend_sched"] /\ arg' = [arg EXCEPT ![g_active_task] = NoArg]
        /\ UNCHANGED <<blk_obj, blk_state>>
    BY <1>9 DEF krhino_task_sleep, PendExitSched
  <2>2. CASE x = g_active_task
    <3>1. task_state'[x] = "K_SLEEP" /\ arg'[x] \notin Obj
      BY <1>2, <2>1, <2>2, TaskAssumption DEF CoreTypeOK
    <3> QED
      BY <3>1 DEF Report, PendStates
  <2>3. CASE x # g_active_task
    BY <1>2, <1>3, <1>4, <2>1, <2>3, ReportKept DEF Live, CoreTypeOK
  <2> QED
    BY <2>2, <2>3
<1>10. CASE SuspendService
  <2>1. PICK t \in Task : krhino_task_suspend(t) \/ krhino_task_resume(t)
    BY <1>10 DEF SuspendService
  <2>2. /\ UNCHANGED <<blk_obj, blk_state>> /\ RHINO_CRITICAL_EXIT_SCHED
        /\ isr = "none" => pc[g_active_task] = "user"
    BY <2>1 DEF krhino_task_suspend, krhino_task_resume, AnyCall, TaskCall, IntrptCall
  <2>3. /\ task_state'[x] \in SleepStates => task_state[x] \in SleepStates
        /\ task_state'[x] \in PendStates => task_state[x] \in PendStates
        /\ Live(x)' => Live(x)
    BY <1>2, <2>1, SMTT(20) DEF krhino_task_suspend, krhino_task_resume, CoreTypeOK, Suspended, Resumed, SleepStates,
       PendStates, SuspendStates, Live
  <2> QED
    BY <1>6, <2>2, <2>3
<1>11. CASE \E t, p : krhino_task_pri_change(t, p)
  <2>1. /\ TaskCall("task_pri_change") /\ UNCHANGED tcbVars /\ pc' = [pc EXCEPT ![g_active_task] = "pri_change"]
        /\ \E v : arg' = [arg EXCEPT ![g_active_task] = v]
    BY <1>11 DEF krhino_task_pri_change
  <2>2. CASE x = g_active_task
    <3>1. task_state'[x] = "K_RDY" /\ pc'[x] = "pri_change"
      BY <1>2, <2>1, <2>2, CallerLive DEF tcbVars, CoreTypeOK
    <3> QED
      BY <3>1, ReportOut DEF SleepStates, PendStates, PendPcs
  <2>3. CASE x # g_active_task
    BY <1>2, <1>3, <1>4, <2>1, <2>3, ReportKept DEF Live, CoreTypeOK, tcbVars
  <2> QED
    BY <2>2, <2>3
<1> QED
  BY <1>7, <1>8, <1>9, <1>10, <1>11 DEF SleepService

\* A step in which no wait begins or ends: for every task that may be in a blocking call the
\* mutex it is about keeps or loses that task as its owner with the report.
LEMMA ReportSame ==
  ASSUME OwnInv, ReportOK, UNCHANGED <<task_state, blk_state, blk_obj, callVars>>,
         \A t \in Task : Live(t) /\ Dying(t) => Dying(t)',
         \A t \in Task : \/ task_state[t] = "K_RDY" /\ pc[t] \notin PendPcs
                         \/ Live(t) /\ arg[t] \in Obj => (mutex_task'[arg[t]] = t <=> mutex_task[arg[t]] = t)
  PROVE  ReportOK'
<1> SUFFICES ASSUME NEW x \in Task PROVE Report(x)'
  BY DEF ReportOK
<1>1. Report(x) /\ task_state'[x] = task_state[x] /\ pc'[x] = pc[x] /\ arg'[x] = arg[x]
  BY DEF ReportOK, callVars
<1>2. CASE task_state[x] = "K_RDY" /\ pc[x] \notin PendPcs
  BY <1>1, <1>2, ReportOut DEF SleepStates, PendStates
<1>3. CASE Live(x) /\ arg[x] \in Obj => (mutex_task'[arg[x]] = x <=> mutex_task[arg[x]] = x)
  BY <1>1, <1>3, ReportKept DEF Live
<1> QED
  BY <1>2, <1>3

\* The services of this module, up to their critical sections.
LEMMA MutexService_Report ==
  ASSUME OwnInv, ReportOK, NEW m \in Obj, MutexService(m) PROVE ReportOK'
<1>1. crit = NoCrit /\ \A t : ~Dying(t)
  BY DEF MutexService, krhino_mutex_create, krhino_mutex_lock, krhino_mutex_unlock, krhino_mutex_del,
     TaskCall, AnyCall, NoCrit, Dying
<1>2. UNCHANGED <<task_state, blk_state, blk_obj, callVars>>
  BY DEF MutexService, krhino_mutex_create, krhino_mutex_lock, krhino_mutex_unlock, krhino_mutex_del,
     tcbVars
<1>3. MutexTypes
  BY Types
<1>4. CASE mutex_task' = mutex_task
  BY <1>1, <1>2, <1>4, ReportSame
<1>5. CASE krhino_mutex_create(m)
  <2>1. (\A t \in Task : Live(t) => arg[t] # m) /\ mutex_task' = [mutex_task EXCEPT ![m] = NoTask]
    BY <1>5 DEF krhino_mutex_create
  <2>2. \A t \in Task : Live(t) /\ arg[t] \in Obj => mutex_task'[arg[t]] = mutex_task[arg[t]]
    BY <1>3, <2>1 DEF MutexTypes
  <2> QED
    BY <1>1, <1>2, <2>2, ReportSame
<1>6. ASSUME NEW ticks, krhino_mutex_lock(m, ticks) PROVE ReportOK'
  <2>1. /\ TaskCall("mutex_lock")
        /\ \/ mutex_task' = mutex_task
           \/ mutex_task[m] = NoTask /\ mutex_task' = [mutex_task EXCEPT ![m] = g_active_task]
    BY <1>6 DEF krhino_mutex_lock, mutex_get
  <2>2. g_active_task \in Task /\ task_state[g_active_task] = "K_RDY" /\ pc[g_active_task] \notin PendPcs
    BY <2>1, CallerLive DEF PendPcs
  <2>3. ASSUME NEW t \in Task, t # g_active_task, arg[t] \in Obj, mutex_task' # mutex_task
        PROVE  mutex_task'[arg[t]] = t <=> mutex_task[arg[t]] = t
    BY <1>3, <2>1, <2>3, MutexAssumption DEF MutexTypes
  <2> QED
    BY <1>1, <1>2, <1>4, <2>2, <2>3, ReportSame
<1> QED
  BY <1>4, <1>5, <1>6 DEF MutexService, krhino_mutex_unlock, krhino_mutex_del

\* ... and the task services.
LEMMA MutexTaskService_Report ==
  ASSUME OwnInv, ReportOK, OwnInv', MutexTaskService PROVE ReportOK'
<1>1. crit = NoCrit /\ \A t : ~Dying(t)
  BY DEF MutexTaskService, mutex_task_create, krhino_task_create, pri_change_enter, PriChangeEnter,
     krhino_task_del, TaskDelEnter, TaskCall, AnyCall, NoCrit, Dying
<1>2. CASE UNCHANGED <<tcbVars, callVars, mutex_task>>
  BY <1>1, <1>2, ReportSame DEF tcbVars
<1>3. ASSUME NEW t \in Task, NEW p, NEW autorun, mutex_task_create(t, p, autorun), NEW x \in Task
      PROVE  Report(x)'
  <2>1. /\ mutex_task' = mutex_task /\ krhino_task_create(t, p, autorun) /\ CoreTypeOK /\ CoreTypeOK'
        /\ Report(x) /\ TaskCall("task_create")
    BY <1>3, Types DEF mutex_task_create, krhino_task_create, ReportOK, OwnInv, CoreInv
  <2>2. g_active_task \in Task /\ Live(g_active_task) /\ pc[g_active_task] = "user" /\ ~Live(t)
    BY <1>3, <2>1, CallerLive DEF krhino_task_create, Live
  <2>3. CASE x = t
    <3>1. task_state'[x] \in {"K_RDY", "K_SUSPENDED"} /\ pc'[x] = "user"
      BY <2>1, <2>2, <2>3 DEF krhino_task_create, CoreTypeOK, RHINO_CRITICAL_EXIT_SCHED
    <3> QED
      BY <3>1, ReportOut DEF SleepStates, PendStates, PendPcs
  <2>4. CASE x # t
    <3>1. /\ task_state'[x] = task_state[x] /\ blk_state'[x] = blk_state[x] /\ blk_obj'[x] = blk_obj[x]
          /\ arg'[x] = arg[x] /\ (pc'[x] \in PendPcs <=> pc[x] \in PendPcs)
      <4>1. PICK v : pc' = [pc EXCEPT ![t] = "user", ![g_active_task] = v] /\ v \in {"sched", "user"}
        BY <2>1 DEF krhino_task_create
      <4>2. pc'[x] \in PendPcs <=> pc[x] \in PendPcs
        BY <2>1, <2>2, <2>4, <4>1, ZenonT(40) DEF CoreTypeOK, PendPcs
      <4> QED
        BY <2>1, <2>4, <4>2 DEF krhino_task_create, CoreTypeOK
    <3> QED
      BY <1>1, <2>1, <3>1, ReportKept DEF Live
  <2> QED
    BY <2>3, <2>4
<1>4. ASSUME NEW new \in NewTask, mutex_task_create(new[1], new[2], new[3]) PROVE ReportOK'
  <2>1. new[1] \in Task
    BY PriAssumption
  <2> QED
    BY <1>3, <1>4, <2>1 DEF ReportOK
<1> QED
  BY <1>2, <1>4 DEF MutexTaskService, pri_change_enter, krhino_task_del, mutexVars

\* The steps of task_pri_change.
LEMMA task_pri_change_Report ==
  ASSUME OwnInv, ReportOK, task_pri_change PROVE ReportOK'
<1>1. \A t : ~Dying(t)
  BY DEF task_pri_change, Dying
<1> QED
  BY <1>1, ReportSame DEF task_pri_change, mutexVars, callVars

\* The caller of krhino_mutex_lock begins to wait for another task's mutex.
LEMMA mutex_lock_pend_Report ==
  ASSUME OwnInv, ReportOK, mutex_lock_pend PROVE ReportOK'
<1> SUFFICES ASSUME NEW x \in Task PROVE Report(x)'
  BY DEF ReportOK
<1>1. PICK a, o : a = g_active_task /\ o = crit.after.obj
  OBVIOUS
<1>2. /\ Doing("mutex_lock") /\ ~Dying(x) /\ o \in Obj /\ mutex_task[o] # a
  BY <1>1 DEF mutex_lock_pend, PriChanged, Doing, Dying, OwnInv, CritOK
<1>3. /\ task_state' = [task_state EXCEPT ![a] = "K_PEND"] /\ blk_obj' = [blk_obj EXCEPT ![a] = o]
      /\ pc' = [pc EXCEPT ![a] = "pend_sched"] /\ arg' = [arg EXCEPT ![a] = o]
      /\ mutex_task' = mutex_task /\ blk_state' = blk_state
  BY <1>1 DEF mutex_lock_pend, pend_to_blk_obj, PendExitSched, mutexVars
<1>4. CoreTypeOK /\ Report(x)
  BY Types DEF ReportOK
<1>5. CASE x = a
  <2>1. /\ task_state'[x] = "K_PEND" /\ blk_obj'[x] = o /\ pc'[x] = "pend_sched" /\ arg'[x] = o
        /\ mutex_task'[blk_obj'[x]] # x
    BY <1>2, <1>3, <1>4, <1>5 DEF CoreTypeOK
  <2> QED
    BY <1>2, <2>1, TaskAssumption DEF Report, SleepStates, PendPcs
<1>6. CASE x # a
  BY <1>2, <1>3, <1>4, <1>6, ReportKept DEF CoreTypeOK, Live
<1> QED
  BY <1>5, <1>6

\* The end of a section in which no task waits or wakes up.
LEMMA Done_Report ==
  ASSUME OwnInv, ReportOK, mutex_del_done \/ task_del_done \/ pri_change_done \/ mutex_timeout_done
  PROVE  ReportOK'
<1> SUFFICES ASSUME NEW x \in Task PROVE Report(x)'
  BY DEF ReportOK
<1>1. ~Dying(x) /\ UNCHANGED <<task_state, blk_state, blk_obj, mutex_task>> /\ Report(x) /\ CoreTypeOK
  BY Types DEF mutex_del_done, task_del_done, pri_change_done, mutex_timeout_done, PriChanged, Dying,
     tcbVars, mutexVars, ReportOK
<1>2. CASE mutex_timeout_done
  BY <1>1, <1>2, ReportKept DEF mutex_timeout_done, callVars, Live
<1>3. CASE mutex_del_done \/ task_del_done
  <2>1. RHINO_CRITICAL_EXIT_SCHED /\ (isr = "none" => pc[g_active_task] = "user")
    BY <1>3 DEF mutex_del_done, task_del_done, PriChanged, OwnInv, CritOK
  <2>2. arg' = arg /\ (pc'[x] \in PendPcs <=> pc[x] \in PendPcs)
    BY <2>1, ExitReport
  <2> QED
    BY <1>1, <2>2, ReportKept DEF Live
<1>4. CASE pri_change_done
  <2>1. PICK a : a = g_active_task
    OBVIOUS
  <2>2. /\ pc[a] = "pri_change" /\ pc' = [pc EXCEPT ![a] = "sched"] /\ arg' = [arg EXCEPT ![a] = NoArg]
    BY <1>4, <2>1 DEF pri_change_done, PriChanged, OwnInv, CritOK
  <2>3. CASE x = a
    <3>1. pc[x] \notin PendPcs /\ pc'[x] \notin PendPcs /\ arg'[x] \notin Obj
      BY <1>1, <2>2, <2>3, TaskAssumption DEF CoreTypeOK, PendPcs
    <3> QED
      BY <1>1, <3>1 DEF Report
  <2>4. CASE x # a
    BY <1>1, <2>2, <2>4, ReportKept DEF CoreTypeOK, Live
  <2> QED
    BY <2>3, <2>4
<1> QED
  BY <1>2, <1>3, <1>4

\* A wait ends, with what it is to report, and its end is nothing to the other tasks.
LEMMA WakeReport ==
  ASSUME OwnInv, ReportOK, NEW t \in Task, unpend(t), NEW b, blk_state' = [blk_state EXCEPT ![t] = b],
         b = "BLK_FINISH" <=> mutex_task'[blk_obj[t]] = t,
         arg' = arg, \A x \in Task : pc'[x] \in PendPcs <=> pc[x] \in PendPcs,
         \A x \in Task \ {t} :
           \/ Dying(x)' /\ \A m \in Obj : mutex_task'[m] = x => mutex_task[m] = x
           \/ task_state[x] = "K_RDY" /\ pc[x] \notin PendPcs
           \/ ~Dying(x) /\ \A m \in Obj : mutex_task'[m] = x <=> mutex_task[m] = x
  PROVE  ReportOK'
<1> SUFFICES ASSUME NEW x \in Task PROVE Report(x)'
  BY DEF ReportOK
<1>1. Report(x) /\ CoreTypeOK
  BY Types DEF ReportOK
<1>2. CASE x = t
  <2>1. blk_state'[t] = b
    BY <1>1 DEF CoreTypeOK
  <2> QED
    BY <1>1, <1>2, <2>1, ReportWoken
<1>3. CASE x # t
  <2>1. /\ task_state'[x] = task_state[x] /\ blk_state'[x] = blk_state[x] /\ blk_obj'[x] = blk_obj[x]
        /\ Live(x)' = Live(x)
    BY <1>3, UnpendOthers
  <2>2. CASE task_state[x] = "K_RDY" /\ pc[x] \notin PendPcs
    BY <2>1, <2>2, ReportOut DEF SleepStates, PendStates
  <2>3. CASE Dying(x)' /\ \A m \in Obj : mutex_task'[m] = x => mutex_task[m] = x
    <3>1. task_state[x] \in PendStates => blk_obj[x] \in Obj
      BY DEF OwnInv, CoreInv, ListInv, BlkObjOK
    <3> QED
      BY <1>1, <2>1, <2>3, <3>1 DEF Report
  <2>4. CASE ~Dying(x) /\ \A m \in Obj : mutex_task'[m] = x <=> mutex_task[m] = x
    BY <1>1, <2>1, <2>4, ReportKept
  <2> QED
    BY <1>3, <2>2, <2>3, <2>4
<1> QED
  BY <1>2, <1>3

\* The waiters of a deleted mutex, and those whose time is up, do not get it.
LEMMA mutex_del_turn_Report ==
  ASSUME OwnInv, ReportOK, NEW t \in Task, mutex_del_turn(t) PROVE ReportOK'
<1>1. /\ unpend(t) /\ blk_state' = [blk_state EXCEPT ![t] = "BLK_DEL"] /\ UNCHANGED <<callVars, mutex_task>>
      /\ \A x : ~Dying(x)
  BY DEF mutex_del_turn, pend_task_rm, mutexVars, PriChanged, Dying
<1>2. mutex_task[blk_obj[t]] # t
  BY <1>1 DEF unpend, ReportOK, Report
<1> QED
  BY <1>1, <1>2, WakeReport DEF callVars

LEMMA mutex_pend_timeout_Report ==
  ASSUME OwnInv, ReportOK, NEW t \in Task, mutex_pend_timeout(t) PROVE ReportOK'
<1>1. /\ unpend(t) /\ blk_state' = [blk_state EXCEPT ![t] = "BLK_TIMEOUT"] /\ UNCHANGED <<callVars, mutex_task>>
      /\ \A x : ~Dying(x)
  BY DEF mutex_pend_timeout, tick_pend_timeout, mutexVars, Dying
<1>2. mutex_task[blk_obj[t]] # t
  BY <1>1 DEF unpend, ReportOK, Report
<1> QED
  BY <1>1, <1>2, WakeReport DEF callVars

\* krhino_mutex_unlock, second half: the first waiter gets the mutex, and the caller, who gives
\* it up, is in no blocking call.
LEMMA mutex_unlock_wake_Report ==
  ASSUME OwnInv, ReportOK, mutex_unlock_wake PROVE ReportOK'
<1>1. PICK m, a : m = crit.after.obj /\ a = g_active_task
  OBVIOUS
<1>2. /\ Doing("mutex_unlock") /\ (\A x : ~Dying(x)) /\ m \in Obj /\ mutex_task[m] = a
      /\ task_state[a] = "K_RDY" /\ pc[a] = "user" /\ MutexTypes /\ a \in Task
  BY <1>1, Types DEF mutex_unlock_wake, PriChanged, Doing, Dying, OwnInv, CritOK, CoreTypeOK
<1>3. CASE /\ mutex_task' = [mutex_task EXCEPT ![m] = NoTask] /\ UNCHANGED <<tcbVars, callVars>>
  <2>1. \A x \in Task \ {a}, o \in Obj : mutex_task'[o] = x <=> mutex_task[o] = x
    BY <1>2, <1>3, MutexAssumption DEF MutexTypes
  <2> QED
    BY <1>2, <1>3, <2>1, ReportSame DEF tcbVars, PendPcs
<1>4. CASE /\ blk_list[m] # << >> /\ pend_task_wakeup(Head(blk_list[m])) /\ mutex_get(m, Head(blk_list[m]))
           /\ RHINO_CRITICAL_EXIT_SCHED
  <2>1. PICK t : t = Head(blk_list[m])
    OBVIOUS
  <2>2. t \in Task /\ blk_obj[t] = m
    BY <1>2, <1>4, <2>1, FirstWaiter
  <2>3. /\ unpend(t) /\ blk_state' = [blk_state EXCEPT ![t] = "BLK_FINISH"]
        /\ mutex_task' = [mutex_task EXCEPT ![m] = t]
    BY <1>4, <2>1 DEF pend_task_wakeup, mutex_get
  <2>4. arg' = arg /\ \A x \in Task : pc'[x] \in PendPcs <=> pc[x] \in PendPcs
    BY <1>1, <1>2, <1>4, ExitReport
  <2>5. mutex_task'[m] = t /\ \A x \in Task \ {a, t}, o \in Obj : mutex_task'[o] = x <=> mutex_task[o] = x
    BY <1>2, <2>3 DEF MutexTypes
  <2>6. mutex_task'[blk_obj[t]] = t
    BY <2>2, <2>5
  <2>7. ASSUME NEW x \in Task \ {t}
        PROVE  \/ task_state[x] = "K_RDY" /\ pc[x] \notin PendPcs
               \/ ~Dying(x) /\ \A o \in Obj : mutex_task'[o] = x <=> mutex_task[o] = x
    BY <1>2, <2>5 DEF PendPcs
  <2> QED
    BY <2>2, <2>3, <2>4, <2>6, <2>7, WakeReport
<1> QED
  BY <1>1, <1>3, <1>4 DEF mutex_unlock_wake

\* One turn of task_mutex_free: the first waiter gets the mutex of the task that is being deleted,
\* which waits for none of its own.
LEMMA task_mutex_free_Report ==
  ASSUME OwnInv, ReportOK, task_mutex_free PROVE ReportOK'
<1>1. PICK m, d : m = crit.obj /\ d = crit.task
  OBVIOUS
<1>2. /\ crit.op = "mutex_free" /\ m \in Obj /\ d \in Task /\ MutexTypes
      /\ \A x : Dying(x) <=> x = d
  BY <1>1, Types, CritShape DEF task_mutex_free, Dying, OwnInv
<1>3. crit'.op = "mutex_free" /\ crit'.task = d /\ \A x : Dying(x)' <=> x = d
  BY <1>1, <1>2, CritShape DEF task_mutex_free, Dying, OwnInv, CritTypes
<1>4. mutex_task[m] = d
  <2>1. m \in Chain(mutex_next, m) /\ Chain(mutex_next, m) = Owned(d)
    BY <1>1, <1>2, ChainFirst DEF MutexTypes, OwnInv, OwnOK, FreeOwned
  <2> QED
    BY <2>1 DEF Owned
<1>5. UNCHANGED callVars
  BY DEF task_mutex_free
<1>6. CASE /\ mutex_task' = [mutex_task EXCEPT ![m] = NoTask] /\ UNCHANGED tcbVars
  <2> SUFFICES ASSUME NEW x \in Task PROVE Report(x)'
    BY DEF ReportOK
  <2>1. Report(x)
    BY DEF ReportOK
  <2>2. CASE x = d
    <3>1. task_state[x] \in PendStates => mutex_task'[blk_obj[x]] # x
      BY <1>2, <1>6, <2>1, MutexAssumption DEF MutexTypes, Report
    <3> QED
      BY <1>3, <1>5, <1>6, <2>1, <2>2, <3>1 DEF Report, tcbVars, callVars
  <2>3. CASE x # d
    <3>1. \A o \in Obj : mutex_task'[o] = x <=> mutex_task[o] = x
      BY <1>2, <1>4, <1>6, <2>3, MutexAssumption DEF MutexTypes
    <3> QED
      BY <1>2, <1>3, <1>5, <1>6, <2>1, <2>3, <3>1, ReportKept DEF tcbVars, callVars, Live
  <2> QED
    BY <2>2, <2>3
<1>7. CASE /\ blk_list[m] # << >> /\ pend_task_wakeup(Head(blk_list[m])) /\ mutex_get(m, Head(blk_list[m]))
  <2>1. PICK t : t = Head(blk_list[m])
    OBVIOUS
  <2>2. t \in Task /\ blk_obj[t] = m
    BY <1>2, <1>7, <2>1, FirstWaiter
  <2>3. /\ unpend(t) /\ blk_state' = [blk_state EXCEPT ![t] = "BLK_FINISH"]
        /\ mutex_task' = [mutex_task EXCEPT ![m] = t]
    BY <1>7, <2>1 DEF pend_task_wakeup, mutex_get
  <2>4. mutex_task'[m] = t /\ \A x \in Task \ {d, t}, o \in Obj : mutex_task'[o] = x <=> mutex_task[o] = x
    BY <1>2, <1>4, <2>3 DEF MutexTypes
  <2>5. d # t => \A o \in Obj : mutex_task'[o] = d => mutex_task[o] = d
    BY <1>2, <1>4, <2>3 DEF MutexTypes
  <2>6. mutex_task'[blk_obj[t]] = t /\ UNCHANGED <<arg, pc>>
    BY <1>5, <2>2, <2>4 DEF callVars
  <2>7. ASSUME NEW x \in Task \ {t}
        PROVE  \/ Dying(x)' /\ \A o \in Obj : mutex_task'[o] = x => mutex_task[o] = x
               \/ ~Dying(x) /\ \A o \in Obj : mutex_task'[o] = x <=> mutex_task[o] = x
    BY <1>2, <1>3, <2>4, <2>5
  <2> QED
    BY <2>2, <2>3, <2>6, <2>7, WakeReport
<1> QED
  BY <1>1, <1>6, <1>7 DEF task_mutex_free

\* krhino_task_del, second half: a deleted task reports nothing.
LEMMA task_del_unlink_Report ==
  ASSUME OwnInv, ReportOK, task_del_unlink PROVE ReportOK'
<1> SUFFICES ASSUME NEW x \in Task PROVE Report(x)'
  BY DEF ReportOK
<1>1. PICK t : t = crit.task
  OBVIOUS
<1>2. /\ t \in Task /\ (\A y : Dying(y) <=> y = t)
      /\ UNCHANGED <<blk_state, blk_obj, callVars, mutex_task>> /\ Report(x) /\ CoreTypeOK
  BY <1>1, Types, CritShape DEF task_del_unlink, Dying, OwnInv, mutexVars, ReportOK
<1>3. /\ task_state' = [task_state EXCEPT ![t] = "K_DELETED"] \/ UNCHANGED task_state
      /\ task_state'[t] = "K_DELETED"
  BY <1>1, <1>2 DEF task_del_unlink, task_unlink, CoreTypeOK
<1>4. CASE x = t
  BY <1>3, <1>4, ReportOut DEF SleepStates, PendStates, Live
<1>5. CASE x # t
  <2>1. task_state'[x] = task_state[x]
    BY <1>2, <1>3, <1>5 DEF CoreTypeOK
  <2> QED
    BY <1>2, <1>5, <2>1, ReportKept DEF Live, callVars
<1> QED
  BY <1>4, <1>5

\* Every step, and the first state.
LEMMA MutexNext_Report ==
  ASSUME OwnInv, OwnInv', ReportOK, Next PROVE ReportOK'
<1>1. CASE MutexLoop
  BY <1>1, task_pri_change_Report, mutex_lock_pend_Report, mutex_unlock_wake_Report, mutex_del_turn_Report,
     Done_Report, task_mutex_free_Report, task_del_unlink_Report DEF MutexLoop
<1> QED
  BY <1>1, CoreStep_Report, mutex_pend_timeout_Report, MutexService_Report, MutexTaskService_Report DEF Next

LEMMA MutexInit_Report ==
  ASSUME MutexInit PROVE ReportOK
<1> SUFFICES ASSUME NEW x \in Task PROVE Report(x)
  BY DEF ReportOK
<1>1. task_state[x] \in {"K_RDY", "K_SEED"} /\ pc[x] = "user"
  BY DEF MutexInit, CoreInit
<1> QED
  BY <1>1 DEF Report, SleepStates, PendStates, PendPcs

LEMMA MutexReport ==
  ASSUME "task_del_again" \notin Calls PROVE Spec => []ReportOK
<1>1. MutexInit => ReportOK
  BY MutexInit_Report
<1>2. OwnInv /\ OwnInv' /\ ReportOK /\ [Next]_vars => ReportOK'
  <2>1. ASSUME OwnInv, ReportOK, UNCHANGED vars PROVE ReportOK'
    <3>1. UNCHANGED <<task_state, blk_state, blk_obj, callVars, mutex_task, crit>>
      BY <2>1 DEF vars, coreVars, tcbVars, mutexVars
    <3> QED
      BY <2>1, <3>1, ReportSame DEF Dying
  <2> QED
    BY <2>1, MutexNext_Report
<1> QED
  BY <1>1, <1>2, MutexInvariant, PTL DEF Spec

\* What krhino_mutex_lock reports after a wait is true: a task that is woken with success owns
\* the mutex and one that is woken otherwise does not, whatever other tasks do between the end
\* of the wait and the return of the call.
THEOREM ReportsTrue ==
  ASSUME "task_del_again" \notin Calls PROVE Spec => []LockReportsOwnership
<1>1. ReportOK => LockReportsOwnership
  BY DEF ReportOK, Report, LockReportsOwnership, PendPcs, Dying, NoCrit
<1> QED
  BY <1>1, MutexReport, PTL
=============================================================================
