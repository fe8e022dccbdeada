------------------------ MODULE RhinoWorkqueueProofs ------------------------
(***************************************************************************)
(* Proofs about the work queue, for every number of callers and work items: *)
(* the units of the semaphore are the work in the list, and work that was   *)
(* cancelled does not run.                                                 *)
(*                                                                         *)
(* Both rest on a careful application (Careful): krhino_workqueue_del tests *)
(* the list in one critical section and deletes the worker, the semaphore   *)
(* and the queue in later ones, so that work queued in between is lost; and *)
(* krhino_workqueue_create tests for the queue in one and creates it in     *)
(* later ones, so that two creators get two workers and one semaphore.      *)
(***************************************************************************)
EXTENDS RhinoWorkqueue, KListProofs, FiniteSetTheorems, TLAPS

TimerMsg == [op : {"ARG_AUTO", "STOP"}, work : Delayed]

\* Callers between the two critical sections of krhino_work_run.
Givers == {c \in Caller : pc[c] = "give"}

\* Callers in krhino_workqueue_del, and those past its test.
Deleter == {c \in Caller : pc[c] \in {"del", "del_task", "del_sem", "del_unlink"}}
Tested  == {c \in Caller : pc[c] \in {"del_task", "del_sem", "del_unlink"}}

\* The work a call is about; work that is current has its handler running; only delayed work
\* has a timer.
CallsOK ==
  /\ work_list \in Seq(Work) /\ g_timer_queue \in Seq(TimerMsg)
  /\ \A c \in Caller : pc[c] \in {"give", "cancel"} => on[c] \in Work
  /\ worker = "handle" <=> work_current # NULL
  /\ \A w \in Work : timer[w] => w \in Delayed

\* While the queue is deleted, and after it, nobody else uses it.
DeletionOK ==
  /\ \A c \in Deleter : exists /\ \A d \in Caller \ {c} : pc[d] = "user"
  /\ Deleter # {} \/ ~exists =>
       /\ Givers = {} /\ timer_task = NULL
       /\ \A w \in Work : ~timer[w]
       /\ \A i \in 1 .. Len(g_timer_queue) : g_timer_queue[i].op = "STOP"
  /\ Tested # {} \/ ~exists => work_list = << >> /\ work_current = NULL
  /\ sem = NULL => ~exists \/ \E c \in Caller : pc[c] = "del_unlink"

\* Work that is not to run is not in the list.
CancelOK ==
  /\ \A w \in Work : ~wq[w] => w \notin ToSet(work_list)
  /\ \A w \in cancelled \ Delayed : w \notin ToSet(work_list)

WorkqueueInv == WorkInv /\ CallsOK /\ DeletionOK /\ CancelOK

\* One task creates the queue, nobody deletes it at the same time, and there is a worker only
\* between the last step of the creation and the second one of the deletion.
Creator == {"create_sem", "create_link", "create_task"}
CreationOK ==
  /\ \A c, d \in Caller : pc[c] \in Creator /\ pc[d] \in Creator => c = d
  /\ \A c \in Caller :
       /\ pc[c] \in Creator => Deleter = {} /\ worker = "none"
       /\ pc[c] \in {"create_sem", "create_link"} => ~exists
       /\ pc[c] = "create_task" => exists
       /\ pc[c] \in {"create_link", "create_task"} => sem # NULL
       /\ pc[c] \in {"del_sem", "del_unlink"} => worker = "none"
  /\ ~exists => worker = "none"
-----------------------------------------------------------------------------
(***************************************************************************)
(* Units on their way.                                                     *)
(***************************************************************************)
\* The timer task's unit.
TimerUnit == IF timer_task = NULL THEN 0 ELSE 1

LEMMA OnTheWayValue ==
  /\ OnTheWay = Cardinality(Givers) + TimerUnit
  /\ OnTheWay' = Cardinality(Givers') + TimerUnit'
  /\ Cardinality(Givers) \in Nat /\ Cardinality(Givers') \in Nat
  /\ IsFiniteSet(Givers) /\ IsFiniteSet(Givers')
<1>1. IsFiniteSet(Caller)
  BY WorkAssumption
<1>2. Givers \subseteq Caller /\ Givers' \subseteq Caller
  BY DEF Givers
<1>3. IsFiniteSet(Givers) /\ IsFiniteSet(Givers')
  BY <1>1, <1>2, FS_Subset
<1>4. Cardinality(Givers) \in Nat /\ Cardinality(Givers') \in Nat
  BY <1>3, FS_CardinalityType
<1> QED BY <1>3, <1>4 DEF OnTheWay, Givers, TimerUnit

\* A caller that does not come to, or go from, "give" changes no count; one that does
\* changes it by one.
LEMMA CallerMoves ==
  ASSUME TypeOK, NEW c \in Caller, NEW p, NEW w, GoTo(c, p, w)
  PROVE  /\ p # "give" /\ pc[c] # "give" => Givers' = Givers
         /\ p = "give" /\ pc[c] # "give" => Cardinality(Givers') = Cardinality(Givers) + 1
         /\ p # "give" /\ pc[c] = "give" =>
              Cardinality(Givers') = Cardinality(Givers) - 1 /\ Cardinality(Givers) > 0
<1>1. pc \in [Caller -> Places]
      /\ pc' = [pc EXCEPT ![c] = p]
  BY DEF TypeOK, GoTo
<1>2. ASSUME p # "give", pc[c] # "give" PROVE Givers' = Givers
  BY <1>1, <1>2 DEF Givers
<1>3. ASSUME p = "give", pc[c] # "give" PROVE Cardinality(Givers') = Cardinality(Givers) + 1
  <2>1. Givers' = Givers \cup {c} /\ c \notin Givers
    BY <1>1, <1>3 DEF Givers
  <2> QED BY <2>1, OnTheWayValue, FS_AddElement
<1>4. ASSUME p # "give", pc[c] = "give"
      PROVE  Cardinality(Givers') = Cardinality(Givers) - 1 /\ Cardinality(Givers) > 0
  <2>1. Givers' = Givers \ {c} /\ c \in Givers
    BY <1>1, <1>4 DEF Givers
  <2>2. Cardinality(Givers') = Cardinality(Givers) - 1
    BY <2>1, OnTheWayValue, FS_RemoveElement
  <2> QED BY <2>2, OnTheWayValue
<1> QED BY <1>2, <1>3, <1>4

\* Every work is in the list at most once, so the count stays below its limit.
LEMMA ListFits ==
  ASSUME WorkqueueInv
  PROVE  Len(work_list) \in Nat /\ Len(work_list) <= SemMax
<1>1. work_list \in Seq(Work) /\ IsInjective(work_list)
  BY DEF WorkqueueInv, CallsOK, WorkInv, UnitsMatchWork
<1>2. Len(work_list) \in Nat /\ work_list \in [1 .. Len(work_list) -> Work]
  BY <1>1
<1>3. work_list \in Injection(1 .. Len(work_list), Work)
  BY <1>1, <1>2 DEF IsInjective, Injection
<1>4. Cardinality(1 .. Len(work_list)) <= Cardinality(Work)
  BY <1>3, WorkAssumption, FS_Injection
<1>5. Cardinality(1 .. Len(work_list)) = Len(work_list)
  BY <1>2, FS_Interval
<1>6. Cardinality(Work) \in Nat
  BY WorkAssumption, FS_CardinalityType
<1> QED BY <1>2, <1>4, <1>5, <1>6, WorkAssumption

\* Work that is idle is put at the end of the list, where it was not.
LEMMA Enqueue ==
  ASSUME WorkqueueInv, NEW w \in Work, Idle(w), enqueue(w)
  PROVE  /\ work_list' \in Seq(Work) /\ work_list' # << >>
         /\ Len(work_list') = Len(work_list) + 1 /\ IsInjective(work_list')
         /\ ToSet(work_list') = ToSet(work_list) \cup {w}
         /\ wq' \in [Work -> BOOLEAN] /\ work_exit' \in [Work -> 0 .. 1]
         /\ \A v \in Work : work_exit'[v] = 1 <=> v \in ToSet(work_list')
         /\ \A v \in Work : ~wq'[v] => v \notin ToSet(work_list')
<1>1. w \notin ToSet(work_list) /\ work_list \in Seq(Work) /\ IsInjective(work_list)
  BY DEF WorkqueueInv, WorkInv, UnitsMatchWork, CallsOK, Idle
<1>2. work_list' = Append(work_list, w)
  BY <1>1 DEF enqueue
<1>3. /\ work_list' \in Seq(Work) /\ work_list' # << >> /\ IsInjective(work_list')
      /\ ToSet(work_list') = ToSet(work_list) \cup {w}
  BY <1>1, <1>2, AppendElement
<1>4. Len(work_list') = Len(work_list) + 1
  BY <1>1, <1>2
<1>5. /\ work_exit' \in [Work -> 0 .. 1]
      /\ \A v \in Work : work_exit'[v] = IF v = w THEN 1 ELSE work_exit[v]
  BY DEF WorkqueueInv, WorkInv, TypeOK, enqueue
<1>6. wq' \in [Work -> BOOLEAN] /\ wq'[w] /\ \A v \in Work \ {w} : wq'[v] = wq[v]
  BY DEF WorkqueueInv, WorkInv, TypeOK, enqueue
<1> QED BY <1>3, <1>4, <1>5, <1>6 DEF WorkqueueInv, WorkInv, UnitsMatchWork, CancelOK

\* krhino_sem_give of a unit on its way: it is not refused.
LEMMA Give ==
  ASSUME WorkqueueInv, OnTheWay \in Nat \ {0}, sem # NULL, krhino_sem_give
  PROVE  /\ sem' \in 0 .. SemMax /\ sem' # NULL
         /\ worker' \in {"none", "take", "blocked", "taken", "handle"}
         /\ worker' = "handle" <=> worker = "handle"
         /\ sem' + (OnTheWay - 1) + (IF worker' = "taken" THEN 1 ELSE 0) = Len(work_list)
         /\ worker' = "taken" => work_list # << >>
<1> DEFINE units == sem + OnTheWay + (IF worker = "taken" THEN 1 ELSE 0)
<1>1. /\ sem \in 0 .. SemMax /\ worker \in {"none", "take", "blocked", "taken", "handle"}
      /\ units = Len(work_list)
  BY DEF WorkqueueInv, WorkInv, TypeOK, UnitsMatchWork
<1>2. Len(work_list) \in Nat /\ Len(work_list) <= SemMax /\ SemMax \in Nat
  BY ListFits, WorkAssumption
<1>3. sem < SemMax /\ Len(work_list) > 0
  BY <1>1, <1>2
<1>4. work_list # << >>
  BY <1>3
<1> QED BY <1>1, <1>2, <1>3, <1>4, WorkAssumption DEF krhino_sem_give

\* A careful caller starts no call while the queue is deleted.
LEMMA Usable ==
  ASSUME WorkqueueInv, Careful, NEW c \in Caller, Call(c)
  PROVE  Deleter = {} /\ Tested = {} /\ (exists => sem # NULL)
<1>1. Deleter = {}
  BY DEF Call, Deleting, Deleter
<1>2. \A d \in Caller : pc[d] \notin {"del", "del_task", "del_sem", "del_unlink"}
  BY <1>1 DEF Deleter
<1> QED BY <1>1, <1>2 DEF Tested, WorkqueueInv, DeletionOK

\* A caller that is not in krhino_workqueue_del and does not enter it.
LEMMA NotDeleting ==
  ASSUME TypeOK, NEW c \in Caller, NEW p \in {"user", "give", "cancel"} \cup Creator, NEW w,
         GoTo(c, p, w), pc[c] \in {"user", "give", "cancel"} \cup Creator
  PROVE  /\ Deleter' = Deleter /\ Tested' = Tested
         /\ (\E d \in Caller : pc'[d] = "del_unlink") <=> (\E d \in Caller : pc[d] = "del_unlink")
BY DEF TypeOK, Places, GoTo, Deleter, Tested, Creator

\* A command is put into the queue of the timer task, or taken from it.
LEMMA Command ==
  ASSUME WorkqueueInv, NEW m \in TimerMsg,
         \/ Len(g_timer_queue) < MsgNum /\ g_timer_queue' = Append(g_timer_queue, m)
         \/ g_timer_queue # << >> /\ g_timer_queue' = Tail(g_timer_queue)
         \/ g_timer_queue' = g_timer_queue
  PROVE  /\ g_timer_queue' \in Seq(TimerMsg) /\ ToSet(g_timer_queue') \subseteq TimerMsg
         /\ Len(g_timer_queue') <= MsgNum
         /\ \A i \in 1 .. Len(g_timer_queue') :
              \/ g_timer_queue'[i] = m
              \/ \E j \in 1 .. Len(g_timer_queue) : g_timer_queue'[i] = g_timer_queue[j]
<1>1. g_timer_queue \in Seq(TimerMsg) /\ Len(g_timer_queue) <= MsgNum /\ MsgNum \in Nat
  BY WorkAssumption DEF WorkqueueInv, WorkInv, TypeOK, CallsOK
<1>2. CASE Len(g_timer_queue) < MsgNum /\ g_timer_queue' = Append(g_timer_queue, m)
  <2>1. /\ g_timer_queue' \in Seq(TimerMsg) /\ Len(g_timer_queue') = Len(g_timer_queue) + 1
        /\ g_timer_queue'[Len(g_timer_queue) + 1] = m
        /\ \A i \in 1 .. Len(g_timer_queue) : g_timer_queue'[i] = g_timer_queue[i]
    BY <1>1, <1>2, AppendProperties
  <2>2. ToSet(g_timer_queue') \subseteq TimerMsg
    BY <2>1, ToSetByIndex
  <2> QED BY <1>1, <1>2, <2>1, <2>2
<1>3. CASE g_timer_queue # << >> /\ g_timer_queue' = Tail(g_timer_queue)
  <2>1. /\ g_timer_queue' \in Seq(TimerMsg) /\ Len(g_timer_queue') = Len(g_timer_queue) - 1
        /\ \A i \in 1 .. Len(g_timer_queue') : g_timer_queue'[i] = g_timer_queue[i + 1]
    BY <1>1, <1>3, HeadTailProperties
  <2>2. ToSet(g_timer_queue') \subseteq TimerMsg
    BY <2>1, ToSetByIndex
  <2>3. \A i \in 1 .. Len(g_timer_queue') : i + 1 \in 1 .. Len(g_timer_queue)
    BY <1>1, <2>1
  <2> QED BY <1>1, <2>1, <2>2, <2>3
<1>4. CASE g_timer_queue' = g_timer_queue
  BY <1>1, <1>4, ToSetByIndex
<1> QED BY <1>2, <1>3, <1>4

-----------------------------------------------------------------------------
(***************************************************************************)
(* One lemma per step: it keeps WorkqueueInv.                               *)
(***************************************************************************)
LEMMA work_run_Inv ==
  ASSUME WorkqueueInv, Careful, NEW c \in Caller, NEW w \in Work, work_run(c, w)
  PROVE  WorkqueueInv'
<1>1. /\ Deleter = {} /\ Tested = {} /\ exists /\ sem # NULL /\ w \notin Delayed
      /\ pc[c] = "user" /\ GoTo(c, "give", w) /\ Idle(w) /\ enqueue(w)
  BY Usable DEF work_run, Call
<1>2. /\ UNCHANGED <<exists, work_current, sem, worker, timer, g_timer_queue, timer_task>>
      /\ cancelled' = cancelled \ {w}
  BY DEF work_run, timerVars, enqueue
<1>3. /\ work_list' \in Seq(Work) /\ work_list' # << >>
      /\ Len(work_list') = Len(work_list) + 1 /\ IsInjective(work_list')
      /\ ToSet(work_list') = ToSet(work_list) \cup {w}
      /\ wq' \in [Work -> BOOLEAN] /\ work_exit' \in [Work -> 0 .. 1]
      /\ \A v \in Work : work_exit'[v] = 1 <=> v \in ToSet(work_list')
      /\ \A v \in Work : ~wq'[v] => v \notin ToSet(work_list')
  BY <1>1, Enqueue
<1>4. TypeOK'
  BY <1>1, <1>2, <1>3 DEF WorkqueueInv, WorkInv, TypeOK, Places, GoTo
<1>5. UnitsMatchWork'
  <2>1. OnTheWay \in Nat /\ OnTheWay' = OnTheWay + 1
    BY <1>1, <1>2, CallerMoves, OnTheWayValue DEF WorkqueueInv, WorkInv, TimerUnit
  <2>2. sem \in 0 .. SemMax /\ sem + OnTheWay + (IF worker = "taken" THEN 1 ELSE 0) = Len(work_list)
    BY <1>1 DEF WorkqueueInv, WorkInv, TypeOK, UnitsMatchWork
  <2>3. sem' + OnTheWay' + (IF worker' = "taken" THEN 1 ELSE 0) = Len(work_list')
    BY <1>2, <1>3, <2>1, <2>2, WorkAssumption
  <2> QED BY <1>3, <2>3 DEF UnitsMatchWork
<1>6. CallsOK'
  BY <1>1, <1>2, <1>3 DEF WorkqueueInv, WorkInv, TypeOK, CallsOK, GoTo
<1>7. DeletionOK'
  BY <1>1, <1>2, NotDeleting DEF WorkqueueInv, WorkInv, DeletionOK
<1>8. CancelOK'
  BY <1>2, <1>3 DEF WorkqueueInv, CancelOK
<1> QED BY <1>4, <1>5, <1>6, <1>7, <1>8 DEF WorkqueueInv, WorkInv

LEMMA work_run_give_Inv ==
  ASSUME WorkqueueInv, NEW c \in Caller, work_run_give(c)
  PROVE  WorkqueueInv'
<1>1. /\ pc[c] = "give" /\ GoTo(c, "user", NULL) /\ krhino_sem_give
      /\ UNCHANGED <<exists, work_list, work_current, wq, work_exit, timer, g_timer_queue,
                     timer_task, cancelled>>
  BY DEF work_run_give, At, timerVars
<1>2. c \in Givers /\ exists /\ Deleter = {} /\ sem # NULL
  <2>1. c \in Givers
    BY <1>1 DEF Givers
  <2>2. exists /\ Deleter = {}
    BY <2>1 DEF WorkqueueInv, DeletionOK
  <2> QED BY <2>1, <2>2 DEF WorkqueueInv, DeletionOK, Deleter
<1>3. OnTheWay \in Nat \ {0} /\ OnTheWay' = OnTheWay - 1
  BY <1>1, CallerMoves, OnTheWayValue DEF WorkqueueInv, WorkInv, TimerUnit
<1>4. /\ sem' \in 0 .. SemMax /\ sem' # NULL
      /\ worker' \in {"none", "take", "blocked", "taken", "handle"}
      /\ worker' = "handle" <=> worker = "handle"
      /\ sem' + (OnTheWay - 1) + (IF worker' = "taken" THEN 1 ELSE 0) = Len(work_list)
      /\ worker' = "taken" => work_list # << >>
  BY <1>1, <1>2, <1>3, Give
<1>5. TypeOK'
  BY <1>1, <1>4 DEF WorkqueueInv, WorkInv, TypeOK, Places, GoTo
<1>6. UnitsMatchWork'
  BY <1>1, <1>3, <1>4 DEF WorkqueueInv, WorkInv, UnitsMatchWork
<1>7. CallsOK'
  BY <1>1, <1>4 DEF WorkqueueInv, WorkInv, TypeOK, CallsOK, GoTo
<1>8. DeletionOK'
  BY <1>1, <1>2, <1>4, NotDeleting DEF WorkqueueInv, WorkInv, DeletionOK
<1>9. CancelOK'
  BY <1>1 DEF WorkqueueInv, CancelOK
<1> QED BY <1>5, <1>6, <1>7, <1>8, <1>9 DEF WorkqueueInv, WorkInv

LEMMA work_run_delayed_Inv ==
  ASSUME WorkqueueInv, Careful, NEW c \in Caller, NEW w \in Work, work_run_delayed(c, w)
  PROVE  WorkqueueInv'
<1>1. /\ Deleter = {} /\ exists /\ cancelled' = cancelled \ {w}
      /\ UNCHANGED <<exists, work_list, work_current, sem, worker, wq, work_exit, timer,
                     timer_task, pc, on>>
  BY Usable DEF work_run_delayed, queueVars, callVars
<1>2. g_timer_queue' \in Seq(TimerMsg) /\ ToSet(g_timer_queue') \subseteq TimerMsg
      /\ Len(g_timer_queue') <= MsgNum
  <2>1. [op |-> "ARG_AUTO", work |-> w] \in TimerMsg
    BY DEF work_run_delayed, TimerMsg
  <2> QED BY <2>1, Command DEF work_run_delayed
<1>3. TypeOK'
  BY <1>1, <1>2 DEF WorkqueueInv, WorkInv, TypeOK, TimerMsg
<1>4. UnitsMatchWork'
  BY <1>1 DEF WorkqueueInv, WorkInv, UnitsMatchWork, OnTheWay
<1>5. CallsOK'
  BY <1>1, <1>2 DEF WorkqueueInv, CallsOK
<1>6. DeletionOK'
  BY <1>1 DEF WorkqueueInv, DeletionOK, Deleter, Tested
<1>7. CancelOK'
  BY <1>1 DEF WorkqueueInv, CancelOK
<1> QED BY <1>3, <1>4, <1>5, <1>6, <1>7 DEF WorkqueueInv, WorkInv

LEMMA timer_command_Inv ==
  ASSUME WorkqueueInv, timer_command
  PROVE  WorkqueueInv'
<1> DEFINE m == Head(g_timer_queue)
<1>1. UNCHANGED <<exists, work_list, work_current, sem, worker, wq, work_exit, timer_task, pc, on,
                  cancelled>>
  BY DEF timer_command, queueVars, callVars
<1>2. /\ g_timer_queue \in Seq(TimerMsg) /\ g_timer_queue # << >>
      /\ g_timer_queue' = Tail(g_timer_queue) /\ timer \in [Work -> BOOLEAN]
      /\ timer' = [timer EXCEPT ![m.work] = (m.op = "ARG_AUTO")]
  BY DEF timer_command, WorkqueueInv, WorkInv, TypeOK, CallsOK
<1>3. m \in TimerMsg /\ m = g_timer_queue[1] /\ Len(g_timer_queue) \in Nat \ {0}
  BY <1>2
<1>4. m.work \in Work /\ m.work \in Delayed
  BY <1>3, WorkAssumption DEF TimerMsg
<1>5. /\ g_timer_queue' \in Seq(TimerMsg) /\ ToSet(g_timer_queue') \subseteq TimerMsg
      /\ Len(g_timer_queue') <= MsgNum
      /\ \A i \in 1 .. Len(g_timer_queue') :
           \E j \in 1 .. Len(g_timer_queue) : g_timer_queue'[i] = g_timer_queue[j]
  <2>1. \A i \in 1 .. Len(g_timer_queue') : g_timer_queue'[i] = m
          \/ \E j \in 1 .. Len(g_timer_queue) : g_timer_queue'[i] = g_timer_queue[j]
    BY <1>2, <1>3, Command
  <2> QED BY <1>2, <1>3, <2>1, Command
<1>6. TypeOK'
  BY <1>1, <1>2, <1>4, <1>5 DEF WorkqueueInv, WorkInv, TypeOK, TimerMsg
<1>7. UnitsMatchWork'
  BY <1>1 DEF WorkqueueInv, WorkInv, UnitsMatchWork, OnTheWay
<1>8. CallsOK'
  BY <1>1, <1>2, <1>4, <1>5 DEF WorkqueueInv, CallsOK
<1>9. DeletionOK'
  <2>1. ASSUME Deleter # {} \/ ~exists
        PROVE  /\ \A w \in Work : ~timer'[w]
               /\ \A i \in 1 .. Len(g_timer_queue') : g_timer_queue'[i].op = "STOP"
    <3>1. \A i \in 1 .. Len(g_timer_queue) : g_timer_queue[i].op = "STOP"
      BY <2>1 DEF WorkqueueInv, DeletionOK
    <3>2. m.op # "ARG_AUTO"
      BY <1>3, <3>1
    <3> QED BY <1>2, <1>4, <1>5, <2>1, <3>1, <3>2 DEF WorkqueueInv, DeletionOK
  <2>2. UNCHANGED <<Deleter, Tested, Givers>>
    BY <1>1 DEF Deleter, Tested, Givers
  <2> QED BY <1>1, <2>1, <2>2 DEF WorkqueueInv, DeletionOK
<1>10. CancelOK'
  BY <1>1 DEF WorkqueueInv, CancelOK
<1> QED BY <1>6, <1>7, <1>8, <1>9, <1>10 DEF WorkqueueInv, WorkInv

LEMMA work_timer_cb_Inv ==
  ASSUME WorkqueueInv, NEW w \in Work, work_timer_cb(w)
  PROVE  WorkqueueInv'
<1>1. /\ timer_task = NULL /\ timer[w] /\ w \in Delayed
      /\ timer' \in [Work -> BOOLEAN] /\ \A v \in Work : timer'[v] => timer[v]
      /\ UNCHANGED <<g_timer_queue, pc, on, cancelled>>
  BY DEF work_timer_cb, WorkqueueInv, WorkInv, TypeOK, CallsOK, callVars
<1>2. exists /\ Deleter = {} /\ Tested = {} /\ sem # NULL
  <2>1. exists /\ Deleter = {}
    BY <1>1 DEF WorkqueueInv, DeletionOK
  <2> QED BY <2>1 DEF WorkqueueInv, DeletionOK, Deleter, Tested
<1>3. UNCHANGED <<Deleter, Tested, Givers>>
  BY <1>1 DEF Deleter, Tested, Givers
<1>4. CASE ~Idle(w)
  <2>1. UNCHANGED <<exists, work_list, work_current, sem, worker, wq, work_exit, timer_task>>
    BY <1>4 DEF work_timer_cb, queueVars
  <2>2. TypeOK' /\ UnitsMatchWork'
    BY <1>1, <2>1 DEF WorkqueueInv, WorkInv, TypeOK, UnitsMatchWork, OnTheWay
  <2>3. CallsOK' /\ CancelOK'
    BY <1>1, <2>1 DEF WorkqueueInv, CallsOK, CancelOK
  <2>4. DeletionOK'
    BY <1>1, <1>2, <1>3, <2>1 DEF WorkqueueInv, DeletionOK
  <2> QED BY <2>2, <2>3, <2>4 DEF WorkqueueInv, WorkInv
<1>5. CASE Idle(w)
  <2>1. enqueue(w) /\ timer_task' = w
        /\ UNCHANGED <<exists, work_current, sem, worker>>
    BY <1>5 DEF work_timer_cb, enqueue
  <2>2. /\ work_list' \in Seq(Work) /\ work_list' # << >>
        /\ Len(work_list') = Len(work_list) + 1 /\ IsInjective(work_list')
        /\ ToSet(work_list') = ToSet(work_list) \cup {w}
        /\ wq' \in [Work -> BOOLEAN] /\ work_exit' \in [Work -> 0 .. 1]
        /\ \A v \in Work : work_exit'[v] = 1 <=> v \in ToSet(work_list')
        /\ \A v \in Work : ~wq'[v] => v \notin ToSet(work_list')
    BY <1>5, <2>1, Enqueue
  <2>3. TypeOK'
    BY <1>1, <2>1, <2>2 DEF WorkqueueInv, WorkInv, TypeOK
  <2>4. UnitsMatchWork'
    <3>1. OnTheWay \in Nat /\ OnTheWay' = OnTheWay + 1
      BY <1>1, <1>3, <2>1, OnTheWayValue, WorkAssumption DEF TimerUnit
    <3>2. sem \in 0 .. SemMax /\ sem + OnTheWay + (IF worker = "taken" THEN 1 ELSE 0) = Len(work_list)
      BY <1>2 DEF WorkqueueInv, WorkInv, TypeOK, UnitsMatchWork
    <3>3. sem' + OnTheWay' + (IF worker' = "taken" THEN 1 ELSE 0) = Len(work_list')
      BY <2>1, <2>2, <3>1, <3>2, WorkAssumption
    <3> QED BY <2>2, <3>3 DEF UnitsMatchWork
  <2>5. CallsOK' /\ CancelOK'
    BY <1>1, <2>1, <2>2 DEF WorkqueueInv, CallsOK, CancelOK
  <2>6. DeletionOK'
    BY <1>1, <1>2, <1>3, <2>1 DEF WorkqueueInv, DeletionOK
  <2> QED BY <2>3, <2>4, <2>5, <2>6 DEF WorkqueueInv, WorkInv
<1> QED BY <1>4, <1>5

LEMMA work_timer_cb_give_Inv ==
  ASSUME WorkqueueInv, work_timer_cb_give
  PROVE  WorkqueueInv'
<1>1. /\ timer_task # NULL /\ timer_task' = NULL /\ krhino_sem_give
      /\ UNCHANGED <<exists, work_list, work_current, wq, work_exit, timer, g_timer_queue,
                     pc, on, cancelled>>
  BY DEF work_timer_cb_give, callVars
<1>2. exists /\ Deleter = {} /\ sem # NULL
  <2>1. exists /\ Deleter = {}
    BY <1>1 DEF WorkqueueInv, DeletionOK
  <2> QED BY <2>1 DEF WorkqueueInv, DeletionOK, Deleter
<1>3. UNCHANGED <<Deleter, Tested, Givers>>
  BY <1>1 DEF Deleter, Tested, Givers
<1>4. OnTheWay \in Nat \ {0} /\ OnTheWay' = OnTheWay - 1
  BY <1>1, <1>3, OnTheWayValue DEF TimerUnit
<1>5. /\ sem' \in 0 .. SemMax /\ sem' # NULL
      /\ worker' \in {"none", "take", "blocked", "taken", "handle"}
      /\ worker' = "handle" <=> worker = "handle"
      /\ sem' + (OnTheWay - 1) + (IF worker' = "taken" THEN 1 ELSE 0) = Len(work_list)
      /\ worker' = "taken" => work_list # << >>
  BY <1>1, <1>2, <1>4, Give
<1>6. TypeOK'
  BY <1>1, <1>5 DEF WorkqueueInv, WorkInv, TypeOK
<1>7. UnitsMatchWork'
  BY <1>1, <1>4, <1>5 DEF WorkqueueInv, WorkInv, UnitsMatchWork
<1>8. CallsOK' /\ CancelOK'
  BY <1>1, <1>5 DEF WorkqueueInv, CallsOK, CancelOK
<1>9. DeletionOK'
  BY <1>1, <1>2, <1>3, <1>5 DEF WorkqueueInv, DeletionOK
<1> QED BY <1>6, <1>7, <1>8, <1>9 DEF WorkqueueInv, WorkInv

LEMMA work_cancel_Inv ==
  ASSUME WorkqueueInv, Careful, NEW c \in Caller, NEW w \in Work, work_cancel(c, w)
  PROVE  WorkqueueInv'
<1>1. /\ pc[c] = "user" /\ Deleter = {}
      /\ UNCHANGED <<exists, work_list, work_current, sem, worker, wq, work_exit, timer, timer_task>>
  BY Usable DEF work_cancel, Call, queueVars
<1>2. CASE wq[w] /\ GoTo(c, "cancel", w) /\ UNCHANGED <<g_timer_queue, cancelled>>
  <2>1. Givers' = Givers
    BY <1>1, <1>2, CallerMoves DEF WorkqueueInv, WorkInv
  <2>2. TypeOK'
    BY <1>1, <1>2 DEF WorkqueueInv, WorkInv, TypeOK, Places, GoTo
  <2>3. UnitsMatchWork'
    BY <1>1, <1>2, <2>1, OnTheWayValue DEF WorkqueueInv, WorkInv, UnitsMatchWork, TimerUnit
  <2>4. CallsOK' /\ CancelOK'
    BY <1>1, <1>2 DEF WorkqueueInv, WorkInv, TypeOK, CallsOK, CancelOK, GoTo
  <2>5. DeletionOK'
    BY <1>1, <1>2, <2>1, NotDeleting DEF WorkqueueInv, WorkInv, DeletionOK
  <2> QED BY <2>2, <2>3, <2>4, <2>5 DEF WorkqueueInv, WorkInv
<1>3. CASE /\ ~wq[w] /\ cancelled' = cancelled \cup {w}
           /\ g_timer_queue' = IF w \in Delayed /\ Len(g_timer_queue) < MsgNum
                               THEN Append(g_timer_queue, [op |-> "STOP", work |-> w])
                               ELSE g_timer_queue
           /\ UNCHANGED callVars
  <2>1. /\ g_timer_queue' \in Seq(TimerMsg) /\ ToSet(g_timer_queue') \subseteq TimerMsg
        /\ Len(g_timer_queue') <= MsgNum
        /\ \A i \in 1 .. Len(g_timer_queue') :
             \/ g_timer_queue'[i].op = "STOP"
             \/ \E j \in 1 .. Len(g_timer_queue) : g_timer_queue'[i] = g_timer_queue[j]
    <3>1. CASE w \in Delayed /\ Len(g_timer_queue) < MsgNum
      <4>1. [op |-> "STOP", work |-> w] \in TimerMsg
        BY <3>1 DEF TimerMsg
      <4> QED BY <1>3, <3>1, <4>1, Command
    <3>2. CASE ~(w \in Delayed /\ Len(g_timer_queue) < MsgNum)
      BY <1>3, <3>2 DEF WorkqueueInv, WorkInv, TypeOK, CallsOK, TimerMsg
    <3> QED BY <3>1, <3>2
  <2>2. UNCHANGED <<pc, on, Deleter, Tested, Givers>>
    BY <1>3 DEF callVars, Deleter, Tested, Givers
  <2>3. TypeOK'
    BY <1>1, <1>3, <2>1, <2>2 DEF WorkqueueInv, WorkInv, TypeOK, TimerMsg
  <2>4. UnitsMatchWork'
    BY <1>1, <2>2 DEF WorkqueueInv, WorkInv, UnitsMatchWork, OnTheWay
  <2>5. CallsOK' /\ CancelOK'
    BY <1>1, <1>3, <2>1, <2>2 DEF WorkqueueInv, CallsOK, CancelOK
  <2>6. DeletionOK'
    BY <1>1, <2>1, <2>2 DEF WorkqueueInv, DeletionOK
  <2> QED BY <2>3, <2>4, <2>5, <2>6 DEF WorkqueueInv, WorkInv
<1> QED BY <1>2, <1>3 DEF work_cancel

LEMMA work_cancel_enter_Inv ==
  ASSUME WorkqueueInv, NEW c \in Caller, work_cancel_enter(c)
  PROVE  WorkqueueInv'
<1>1. /\ pc[c] = "cancel" /\ on[c] \in Work /\ GoTo(c, "user", NULL)
      /\ UNCHANGED <<exists, work_list, work_current, sem, worker, work_exit, timer, g_timer_queue,
                     timer_task>>
  BY DEF WorkqueueInv, CallsOK, work_cancel_enter, At, queueVars, timerVars
<1>2. Givers' = Givers
  BY <1>1, CallerMoves DEF WorkqueueInv, WorkInv
<1>3. \/ UNCHANGED <<wq, cancelled>>
      \/ /\ wq' = [wq EXCEPT ![on[c]] = FALSE] /\ cancelled' = cancelled \cup {on[c]}
         /\ on[c] \notin ToSet(work_list)
  BY <1>1 DEF work_cancel_enter, work_cancel_refused, WorkqueueInv, WorkInv, UnitsMatchWork
<1>4. TypeOK'
  BY <1>1, <1>3 DEF WorkqueueInv, WorkInv, TypeOK, Places, GoTo
<1>5. UnitsMatchWork'
  BY <1>1, <1>2, OnTheWayValue DEF WorkqueueInv, WorkInv, UnitsMatchWork, TimerUnit
<1>6. CallsOK'
  BY <1>1 DEF WorkqueueInv, WorkInv, TypeOK, CallsOK, GoTo
<1>7. CancelOK'
  BY <1>1, <1>3 DEF WorkqueueInv, WorkInv, TypeOK, CancelOK
<1>8. DeletionOK'
  <2>1. UNCHANGED <<Deleter, Tested>>
        /\ ((\E d \in Caller : pc'[d] = "del_unlink") <=> (\E d \in Caller : pc[d] = "del_unlink"))
    BY <1>1, NotDeleting DEF WorkqueueInv, WorkInv
  <2>2. \A d \in Caller : pc[d] = "user" => pc'[d] = "user"
    BY <1>1 DEF WorkqueueInv, WorkInv, TypeOK, GoTo
  <2> QED BY <1>1, <1>2, <2>1, <2>2 DEF WorkqueueInv, DeletionOK
<1> QED BY <1>4, <1>5, <1>6, <1>7, <1>8 DEF WorkqueueInv, WorkInv

LEMMA worker_take_Inv ==
  ASSUME WorkqueueInv, worker_take
  PROVE  WorkqueueInv'
<1>1. /\ worker = "take" /\ sem # NULL /\ sem \in 0 .. SemMax
      /\ UNCHANGED <<exists, work_list, work_current, wq, work_exit, timer, g_timer_queue,
                     timer_task, pc, on, cancelled>>
  BY DEF WorkqueueInv, WorkInv, TypeOK, worker_take, timerVars, callVars
<1>2. UNCHANGED <<Deleter, Tested, Givers, OnTheWay>>
  BY <1>1 DEF Deleter, Tested, Givers, OnTheWay
<1>3. OnTheWay \in Nat /\ Len(work_list) \in Nat /\ sem + OnTheWay = Len(work_list)
  BY <1>1, OnTheWayValue, ListFits, WorkAssumption
     DEF WorkqueueInv, WorkInv, UnitsMatchWork, TimerUnit
<1>4. /\ sem' \in 0 .. SemMax /\ sem' # NULL /\ worker' \in {"taken", "blocked"}
      /\ sem' + OnTheWay + (IF worker' = "taken" THEN 1 ELSE 0) = Len(work_list)
      /\ worker' = "taken" => Len(work_list) > 0
  BY <1>1, <1>3, WorkAssumption DEF worker_take
<1>5. TypeOK' /\ UnitsMatchWork'
  BY <1>1, <1>2, <1>4 DEF WorkqueueInv, WorkInv, TypeOK, UnitsMatchWork
<1>6. CallsOK' /\ CancelOK'
  BY <1>1, <1>4 DEF WorkqueueInv, CallsOK, CancelOK
<1>7. DeletionOK'
  BY <1>1, <1>2, <1>4 DEF WorkqueueInv, DeletionOK
<1> QED BY <1>5, <1>6, <1>7 DEF WorkqueueInv, WorkInv

\* The worker that has taken a unit finds work in the list.
LEMMA worker_get_Inv ==
  ASSUME WorkqueueInv, worker_get
  PROVE  WorkqueueInv'
<1> DEFINE h == Head(work_list)
<1>1. /\ worker = "taken" /\ work_list # << >> /\ work_list \in Seq(Work) /\ IsInjective(work_list)
      /\ work_list' = Tail(work_list) /\ work_current' = h /\ worker' = "handle"
      /\ work_exit' = [work_exit EXCEPT ![h] = 0]
      /\ UNCHANGED <<exists, sem, wq, timer, g_timer_queue, timer_task, pc, on, cancelled>>
  BY DEF WorkqueueInv, WorkInv, UnitsMatchWork, CallsOK, worker_get, timerVars, callVars
<1>2. /\ h \in Work /\ work_list' \in Seq(Work) /\ Len(work_list') = Len(work_list) - 1
      /\ IsInjective(work_list') /\ Len(work_list) \in Nat
      /\ h \notin ToSet(work_list') /\ ToSet(work_list) = ToSet(work_list') \cup {h}
  BY <1>1, TailProperties
<1>3. UNCHANGED <<Deleter, Tested, Givers, OnTheWay>> /\ Tested = {} /\ exists
  <2>1. Tested = {} /\ exists
    BY <1>1 DEF WorkqueueInv, DeletionOK
  <2> QED BY <1>1, <2>1 DEF Deleter, Tested, Givers, OnTheWay
<1>4. TypeOK'
  <2>1. ToSet(work_list') \subseteq Work
    BY <1>2, ToSetByIndex
  <2> QED BY <1>1, <1>2, <2>1 DEF WorkqueueInv, WorkInv, TypeOK
<1>5. UnitsMatchWork'
  <2>1. sem # NULL => sem' + OnTheWay' = Len(work_list')
    <3>1. OnTheWay \in Nat
      BY OnTheWayValue DEF TimerUnit
    <3> QED BY <1>1, <1>2, <1>3, <3>1, WorkAssumption DEF WorkqueueInv, WorkInv, TypeOK, UnitsMatchWork
  <2>2. \A w \in Work : work_exit'[w] = 1 <=> w \in ToSet(work_list')
    BY <1>1, <1>2 DEF WorkqueueInv, WorkInv, TypeOK, UnitsMatchWork
  <2>3. sem' # NULL => sem' + OnTheWay' + 0 = Len(work_list')
    BY <1>1, <1>3, <2>1, WorkAssumption, OnTheWayValue
       DEF WorkqueueInv, WorkInv, TypeOK, TimerUnit
  <2> QED BY <1>1, <1>2, <2>2, <2>3 DEF UnitsMatchWork
<1>6. CallsOK'
  BY <1>1, <1>2, WorkAssumption DEF WorkqueueInv, CallsOK
<1>7. CancelOK'
  BY <1>1, <1>2 DEF WorkqueueInv, CancelOK
<1>8. DeletionOK'
  BY <1>1, <1>3 DEF WorkqueueInv, DeletionOK
<1> QED BY <1>4, <1>5, <1>6, <1>7, <1>8 DEF WorkqueueInv, WorkInv

LEMMA worker_end_Inv ==
  ASSUME WorkqueueInv, worker_end
  PROVE  WorkqueueInv'
<1>1. /\ worker = "handle" /\ work_current' = NULL /\ worker' = "take"
      /\ UNCHANGED <<exists, work_list, sem, wq, work_exit, timer, g_timer_queue,
                     timer_task, pc, on, cancelled>>
  BY DEF worker_end, timerVars, callVars
<1>2. UNCHANGED <<Deleter, Tested, Givers, OnTheWay>>
  BY <1>1 DEF Deleter, Tested, Givers, OnTheWay
<1>3. TypeOK' /\ UnitsMatchWork'
  BY <1>1, <1>2 DEF WorkqueueInv, WorkInv, TypeOK, UnitsMatchWork
<1>4. CallsOK' /\ CancelOK'
  BY <1>1 DEF WorkqueueInv, CallsOK, CancelOK
<1>5. DeletionOK'
  BY <1>1, <1>2 DEF WorkqueueInv, DeletionOK
<1> QED BY <1>3, <1>4, <1>5 DEF WorkqueueInv, WorkInv

\* A step of the caller that creates the queue moves it on; no unit is on its way but those
\* that were.
LEMMA CreatorStep ==
  ASSUME WorkqueueInv, NEW c \in Caller, NEW p \in {"user"} \cup Creator, GoTo(c, p, NULL),
         pc[c] \in {"user"} \cup Creator, UNCHANGED <<timer_task, timer, g_timer_queue>>
  PROVE  /\ Givers' = Givers /\ OnTheWay' = OnTheWay /\ Deleter' = Deleter /\ Tested' = Tested
         /\ (\E d \in Caller : pc'[d] = "del_unlink") <=> (\E d \in Caller : pc[d] = "del_unlink")
         /\ pc' \in [Caller -> Places] /\ on' \in [Caller -> Work \cup {NULL}]
         /\ \A d \in Caller : pc'[d] \in {"give", "cancel"} => on'[d] \in Work
<1>1. Givers' = Givers
  BY CallerMoves DEF WorkqueueInv, WorkInv, Creator
<1>2. OnTheWay' = OnTheWay
  BY <1>1, OnTheWayValue DEF TimerUnit
<1>3. /\ pc' \in [Caller -> Places] /\ on' \in [Caller -> Work \cup {NULL}]
      /\ \A d \in Caller : pc'[d] \in {"give", "cancel"} => on'[d] \in Work
  BY DEF WorkqueueInv, WorkInv, TypeOK, CallsOK, GoTo, Places, Creator
<1>4. /\ Deleter' = Deleter /\ Tested' = Tested
      /\ (\E d \in Caller : pc'[d] = "del_unlink") <=> (\E d \in Caller : pc[d] = "del_unlink")
  BY NotDeleting DEF WorkqueueInv, WorkInv
<1> QED BY <1>1, <1>2, <1>3, <1>4

\* The creation begins: there is no queue.
LEMMA workqueue_create_Inv ==
  ASSUME WorkqueueInv, Careful, NEW c \in Caller, workqueue_create(c)
  PROVE  WorkqueueInv'
<1>1. /\ pc[c] = "user" /\ GoTo(c, "create_sem", NULL)
      /\ UNCHANGED <<exists, work_list, work_current, sem, worker, wq, work_exit, timer,
                     g_timer_queue, timer_task, cancelled>>
  BY DEF workqueue_create, Call, queueVars, timerVars
<1>2. /\ UNCHANGED <<Givers, OnTheWay, Deleter, Tested>> /\ Deleter = {}
      /\ pc' \in [Caller -> Places] /\ on' \in [Caller -> Work \cup {NULL}]
      /\ \A d \in Caller : pc'[d] \in {"give", "cancel"} => on'[d] \in Work
  BY <1>1, CreatorStep, Usable DEF Creator, workqueue_create
<1>3. TypeOK' /\ UnitsMatchWork'
  BY <1>1, <1>2 DEF WorkqueueInv, WorkInv, TypeOK, UnitsMatchWork
<1>4. CallsOK' /\ CancelOK'
  BY <1>1, <1>2 DEF WorkqueueInv, CallsOK, CancelOK
<1>5. DeletionOK'
  BY <1>1, <1>2 DEF WorkqueueInv, DeletionOK, workqueue_create
<1> QED BY <1>3, <1>4, <1>5 DEF WorkqueueInv, WorkInv

LEMMA workqueue_create_sem_Inv ==
  ASSUME WorkqueueInv, CreationOK, NEW c \in Caller, workqueue_create_sem(c)
  PROVE  WorkqueueInv'
<1>1. /\ pc[c] = "create_sem" /\ GoTo(c, "create_link", NULL)
      /\ work_list' = << >> /\ work_current' = NULL /\ sem' = 0
      /\ UNCHANGED <<exists, worker, wq, work_exit, timer, g_timer_queue, timer_task, cancelled>>
  BY DEF workqueue_create_sem, At, timerVars
<1>2. /\ ~exists /\ Deleter = {} /\ Tested = {} /\ worker = "none"
      /\ work_list = << >> /\ work_current = NULL /\ Givers = {} /\ timer_task = NULL
  BY <1>1 DEF CreationOK, Creator, WorkqueueInv, DeletionOK, Deleter, Tested
<1>3. /\ UNCHANGED <<Givers, OnTheWay, Deleter, Tested>>
      /\ pc' \in [Caller -> Places] /\ on' \in [Caller -> Work \cup {NULL}]
      /\ \A d \in Caller : pc'[d] \in {"give", "cancel"} => on'[d] \in Work
  BY <1>1, CreatorStep DEF Creator
<1>4. OnTheWay' = 0
  <2>1. Cardinality(Givers) = 0
    BY <1>2, FS_EmptySet
  <2> QED BY <1>2, <1>3, <2>1, OnTheWayValue DEF TimerUnit
<1>5. TypeOK'
  BY <1>1, <1>2, <1>3, WorkAssumption DEF WorkqueueInv, WorkInv, TypeOK
<1>6. UnitsMatchWork'
  BY <1>1, <1>2, <1>4 DEF WorkqueueInv, WorkInv, UnitsMatchWork
<1>7. CallsOK' /\ CancelOK'
  BY <1>1, <1>2, <1>3 DEF WorkqueueInv, CallsOK, CancelOK
<1>8. DeletionOK'
  BY <1>1, <1>2, <1>3, WorkAssumption DEF WorkqueueInv, DeletionOK
<1> QED BY <1>5, <1>6, <1>7, <1>8 DEF WorkqueueInv, WorkInv

LEMMA workqueue_create_link_Inv ==
  ASSUME WorkqueueInv, CreationOK, NEW c \in Caller, workqueue_create_link(c)
  PROVE  WorkqueueInv'
<1>1. /\ pc[c] = "create_link" /\ GoTo(c, "create_task", NULL) /\ exists' = TRUE
      /\ UNCHANGED <<work_list, work_current, sem, worker, wq, work_exit, timer, g_timer_queue,
                     timer_task, cancelled>>
  BY DEF workqueue_create_link, At, timerVars
<1>2. Deleter = {} /\ Tested = {} /\ sem # NULL
  BY <1>1 DEF CreationOK, Creator, Deleter, Tested
<1>3. /\ UNCHANGED <<Givers, OnTheWay, Deleter, Tested>>
      /\ pc' \in [Caller -> Places] /\ on' \in [Caller -> Work \cup {NULL}]
      /\ \A d \in Caller : pc'[d] \in {"give", "cancel"} => on'[d] \in Work
  BY <1>1, CreatorStep DEF Creator
<1>4. TypeOK' /\ UnitsMatchWork'
  BY <1>1, <1>3 DEF WorkqueueInv, WorkInv, TypeOK, UnitsMatchWork
<1>5. CallsOK' /\ CancelOK'
  BY <1>1, <1>3 DEF WorkqueueInv, CallsOK, CancelOK
<1>6. DeletionOK'
  BY <1>1, <1>2, <1>3 DEF DeletionOK
<1> QED BY <1>4, <1>5, <1>6 DEF WorkqueueInv, WorkInv

\* Work may have been queued since the queue was linked: its units are counted.
LEMMA workqueue_create_worker_Inv ==
  ASSUME WorkqueueInv, CreationOK, NEW c \in Caller, workqueue_create_worker(c)
  PROVE  WorkqueueInv'
<1>1. /\ pc[c] = "create_task" /\ GoTo(c, "user", NULL) /\ worker' = "take"
      /\ UNCHANGED <<exists, work_list, work_current, sem, wq, work_exit, timer, g_timer_queue,
                     timer_task, cancelled>>
  BY DEF workqueue_create_worker, At, timerVars
<1>2. Deleter = {} /\ exists /\ sem # NULL /\ worker = "none" /\ Tested = {}
  BY <1>1 DEF CreationOK, Creator, Deleter, Tested
<1>3. /\ UNCHANGED <<Givers, OnTheWay, Deleter, Tested>>
      /\ pc' \in [Caller -> Places] /\ on' \in [Caller -> Work \cup {NULL}]
      /\ \A d \in Caller : pc'[d] \in {"give", "cancel"} => on'[d] \in Work
  BY <1>1, CreatorStep DEF Creator
<1>4. TypeOK' /\ UnitsMatchWork'
  BY <1>1, <1>2, <1>3 DEF WorkqueueInv, WorkInv, TypeOK, UnitsMatchWork
<1>5. CallsOK' /\ CancelOK'
  BY <1>1, <1>2, <1>3 DEF WorkqueueInv, CallsOK, CancelOK
<1>6. DeletionOK'
  BY <1>1, <1>2, <1>3 DEF DeletionOK
<1> QED BY <1>4, <1>5, <1>6 DEF WorkqueueInv, WorkInv

\* The deletion begins: nobody else uses the queue.
LEMMA workqueue_del_Inv ==
  ASSUME WorkqueueInv, Careful, NEW c \in Caller, workqueue_del(c)
  PROVE  WorkqueueInv'
<1>1. /\ exists /\ Unused /\ pc[c] = "user" /\ GoTo(c, "del", NULL)
      /\ UNCHANGED <<exists, work_list, work_current, sem, worker, wq, work_exit, timer,
                     g_timer_queue, timer_task, cancelled>>
  BY DEF workqueue_del, Call, queueVars, timerVars
<1>2. Givers' = Givers
  BY <1>1, CallerMoves DEF WorkqueueInv, WorkInv
<1>3. TypeOK'
  BY <1>1 DEF WorkqueueInv, WorkInv, TypeOK, Places, GoTo
<1>4. UnitsMatchWork'
  BY <1>1, <1>2, OnTheWayValue DEF WorkqueueInv, WorkInv, UnitsMatchWork, TimerUnit
<1>5. CallsOK' /\ CancelOK'
  BY <1>1 DEF WorkqueueInv, WorkInv, TypeOK, CallsOK, CancelOK, GoTo
<1>6. DeletionOK'
  <2>1. \A d \in Caller : pc'[d] = IF d = c THEN "del" ELSE "user"
    BY <1>1 DEF WorkqueueInv, WorkInv, TypeOK, GoTo, Unused
  <2>2. Tested' = {} /\ Givers' = {}
    BY <2>1 DEF Tested, Givers
  <2>3. sem # NULL
    BY <1>1 DEF WorkqueueInv, DeletionOK, Unused
  <2>4. \A d \in Deleter' : d = c
    BY <2>1 DEF Deleter
  <2>5. Len(g_timer_queue) = 0
    BY <1>1 DEF Unused
  <2> QED BY <1>1, <2>1, <2>2, <2>3, <2>4, <2>5 DEF DeletionOK, Unused
<1> QED BY <1>3, <1>4, <1>5, <1>6 DEF WorkqueueInv, WorkInv

\* A step of the caller that deletes the queue.
LEMMA DeleterStep ==
  ASSUME WorkqueueInv, NEW c \in Deleter, NEW p \in {"user", "del_task", "del_sem", "del_unlink"},
         GoTo(c, p, NULL)
  PROVE  /\ c \in Caller /\ exists /\ Givers = {} /\ timer_task = NULL
         /\ \A w \in Work : ~timer[w]
         /\ \A i \in 1 .. Len(g_timer_queue) : g_timer_queue[i].op = "STOP"
         /\ Givers' = Givers
         /\ pc' \in [Caller -> Places]
         /\ on' \in [Caller -> Work \cup {NULL}]
         /\ \A d \in Caller : pc'[d] = IF d = c THEN p ELSE "user"
         /\ \A d \in Caller : d # c => pc[d] = "user"
<1>1. /\ c \in Caller /\ pc[c] \in {"del", "del_task", "del_sem", "del_unlink"}
      /\ Deleter # {} /\ exists /\ \A d \in Caller \ {c} : pc[d] = "user"
  BY DEF Deleter, WorkqueueInv, DeletionOK
<1>2. Givers' = Givers
  BY <1>1, CallerMoves DEF WorkqueueInv, WorkInv
<1>3. \A d \in Caller : pc'[d] = IF d = c THEN p ELSE "user"
  BY <1>1 DEF WorkqueueInv, WorkInv, TypeOK, GoTo
<1> QED BY <1>1, <1>2, <1>3 DEF WorkqueueInv, WorkInv, TypeOK, Places, DeletionOK, GoTo

LEMMA workqueue_del_check_Inv ==
  ASSUME WorkqueueInv, NEW c \in Caller, workqueue_del_check(c)
  PROVE  WorkqueueInv'
<1> DEFINE p == IF Busy THEN "user" ELSE "del_task"
<1>1. /\ pc[c] = "del" /\ c \in Deleter /\ GoTo(c, p, NULL)
      /\ UNCHANGED <<exists, work_list, work_current, sem, worker, wq, work_exit, timer,
                     g_timer_queue, timer_task, cancelled>>
  BY DEF workqueue_del_check, At, Deleter, queueVars, timerVars
<1>2. p \in {"user", "del_task", "del_sem", "del_unlink"}
  OBVIOUS
<1>3. TypeOK'
  BY <1>1, <1>2, DeleterStep DEF WorkqueueInv, WorkInv, TypeOK
<1>4. UnitsMatchWork'
  BY <1>1, <1>2, DeleterStep, OnTheWayValue DEF WorkqueueInv, WorkInv, UnitsMatchWork, TimerUnit
<1>5. CallsOK' /\ CancelOK'
  BY <1>1, <1>2, DeleterStep DEF WorkqueueInv, CallsOK, CancelOK
<1>6. DeletionOK'
  <2>1. Tested' # {} => ~Busy
    BY <1>1, <1>2, DeleterStep DEF Tested
  <2>2. \A d \in Deleter' : d = c
    BY <1>1, <1>2, DeleterStep DEF Deleter
  <2>3. sem # NULL
    BY <1>1, <1>2, DeleterStep DEF WorkqueueInv, DeletionOK
  <2>4. Tested' # {} => work_list = << >> /\ work_current = NULL
    BY <2>1 DEF Busy
  <2> QED BY <1>1, <1>2, <2>2, <2>3, <2>4, DeleterStep DEF DeletionOK
<1> QED BY <1>3, <1>4, <1>5, <1>6 DEF WorkqueueInv, WorkInv

\* After the test: the list is empty, nothing runs and no unit is on its way.
LEMMA AfterTest ==
  ASSUME WorkqueueInv, NEW c \in Caller, pc[c] \in {"del_task", "del_sem", "del_unlink"}
  PROVE  /\ c \in Deleter /\ Tested # {} /\ work_list = << >> /\ work_current = NULL
         /\ worker \notin {"taken", "handle"}
  BY DEF WorkqueueInv, WorkInv, UnitsMatchWork, CallsOK, DeletionOK, Deleter, Tested

LEMMA workqueue_del_worker_Inv ==
  ASSUME WorkqueueInv, NEW c \in Caller, workqueue_del_worker(c)
  PROVE  WorkqueueInv'
<1>1. /\ pc[c] = "del_task" /\ GoTo(c, "del_sem", NULL) /\ worker' = "none"
      /\ UNCHANGED <<exists, work_list, work_current, sem, wq, work_exit, timer,
                     g_timer_queue, timer_task, cancelled>>
  BY DEF workqueue_del_worker, At, timerVars
<1>2. c \in Deleter /\ work_list = << >> /\ work_current = NULL /\ worker \notin {"taken", "handle"}
  BY <1>1, AfterTest
<1>3. TypeOK'
  BY <1>1, <1>2, DeleterStep DEF WorkqueueInv, WorkInv, TypeOK
<1>4. UnitsMatchWork'
  BY <1>1, <1>2, DeleterStep, OnTheWayValue DEF WorkqueueInv, WorkInv, UnitsMatchWork, TimerUnit
<1>5. CallsOK' /\ CancelOK'
  BY <1>1, <1>2, DeleterStep DEF WorkqueueInv, CallsOK, CancelOK
<1>6. DeletionOK'
  <2>1. \A d \in Deleter' : d = c
    BY <1>1, <1>2, DeleterStep DEF Deleter
  <2>2. sem # NULL
    BY <1>1, <1>2, DeleterStep DEF WorkqueueInv, DeletionOK
  <2> QED BY <1>1, <1>2, <2>1, <2>2, DeleterStep DEF DeletionOK
<1> QED BY <1>3, <1>4, <1>5, <1>6 DEF WorkqueueInv, WorkInv

LEMMA workqueue_del_sem_Inv ==
  ASSUME WorkqueueInv, NEW c \in Caller, workqueue_del_sem(c)
  PROVE  WorkqueueInv'
<1>1. /\ pc[c] = "del_sem" /\ GoTo(c, "del_unlink", NULL) /\ sem' = NULL
      /\ UNCHANGED <<exists, work_list, work_current, worker, wq, work_exit, timer,
                     g_timer_queue, timer_task, cancelled>>
  BY DEF workqueue_del_sem, At, timerVars
<1>2. c \in Deleter /\ work_list = << >> /\ work_current = NULL /\ worker \notin {"taken", "handle"}
  BY <1>1, AfterTest
<1>3. TypeOK'
  BY <1>1, <1>2, DeleterStep DEF WorkqueueInv, WorkInv, TypeOK
<1>4. UnitsMatchWork'
  BY <1>1, <1>2 DEF WorkqueueInv, WorkInv, UnitsMatchWork
<1>5. CallsOK' /\ CancelOK'
  BY <1>1, <1>2, DeleterStep DEF WorkqueueInv, CallsOK, CancelOK
<1>6. DeletionOK'
  <2>1. \A d \in Deleter' : d = c
    BY <1>1, <1>2, DeleterStep DEF Deleter
  <2> QED BY <1>1, <1>2, <2>1, DeleterStep DEF DeletionOK
<1> QED BY <1>3, <1>4, <1>5, <1>6 DEF WorkqueueInv, WorkInv

LEMMA workqueue_del_unlink_Inv ==
  ASSUME WorkqueueInv, NEW c \in Caller, workqueue_del_unlink(c)
  PROVE  WorkqueueInv'
<1>1. /\ pc[c] = "del_unlink" /\ GoTo(c, "user", NULL) /\ exists' = FALSE
      /\ UNCHANGED <<work_list, work_current, sem, worker, wq, work_exit, timer,
                     g_timer_queue, timer_task, cancelled>>
  BY DEF workqueue_del_unlink, At, timerVars
<1>2. c \in Deleter /\ work_list = << >> /\ work_current = NULL /\ worker \notin {"taken", "handle"}
  BY <1>1, AfterTest
<1>3. TypeOK'
  BY <1>1, <1>2, DeleterStep DEF WorkqueueInv, WorkInv, TypeOK
<1>4. UnitsMatchWork'
  BY <1>1, <1>2, DeleterStep, OnTheWayValue DEF WorkqueueInv, WorkInv, UnitsMatchWork, TimerUnit
<1>5. CallsOK' /\ CancelOK'
  BY <1>1, <1>2, DeleterStep DEF WorkqueueInv, CallsOK, CancelOK
<1>6. DeletionOK'
  <2>1. Deleter' = {}
    BY <1>1, <1>2, DeleterStep DEF Deleter
  <2> QED BY <1>1, <1>2, <2>1, DeleterStep DEF DeletionOK
<1> QED BY <1>3, <1>4, <1>5, <1>6 DEF WorkqueueInv, WorkInv

LEMMA WorkStutter_Inv ==
  ASSUME WorkqueueInv, UNCHANGED vars
  PROVE  WorkqueueInv'
<1>1. UNCHANGED <<exists, work_list, work_current, sem, worker, wq, work_exit, timer, g_timer_queue,
                  timer_task, pc, on, cancelled>>
  BY DEF vars, queueVars, timerVars, callVars
<1>2. TypeOK' /\ UnitsMatchWork'
  BY <1>1 DEF WorkqueueInv, WorkInv, TypeOK, UnitsMatchWork, OnTheWay
<1>3. CallsOK' /\ CancelOK'
  BY <1>1 DEF WorkqueueInv, CallsOK, CancelOK
<1>4. DeletionOK'
  BY <1>1 DEF WorkqueueInv, DeletionOK, Deleter, Tested, Givers
<1> QED BY <1>2, <1>3, <1>4 DEF WorkqueueInv, WorkInv

-----------------------------------------------------------------------------
LEMMA WorkInit_Inv == Init => WorkqueueInv
<1> SUFFICES ASSUME Init PROVE WorkqueueInv
  OBVIOUS
<1>1. Givers = {} /\ Deleter = {} /\ Tested = {}
  BY DEF Init, Givers, Deleter, Tested
<1>2. OnTheWay = 0
  <2>1. Cardinality(Givers) = 0
    BY <1>1, FS_EmptySet
  <2> QED BY <2>1, OnTheWayValue DEF Init, TimerUnit
<1>3. ToSet(<< >>) = {}
  BY DEF ToSet
<1>4. TypeOK
  BY <1>3, WorkAssumption DEF Init, TypeOK, Places
<1>5. UnitsMatchWork
  BY <1>2, <1>3 DEF Init, UnitsMatchWork, IsInjective
<1>6. CallsOK /\ CancelOK
  BY <1>3 DEF Init, CallsOK, CancelOK
<1>7. DeletionOK
  BY <1>1, WorkAssumption DEF Init, DeletionOK
<1> QED BY <1>4, <1>5, <1>6, <1>7 DEF WorkqueueInv, WorkInv

LEMMA WorkNext_Inv ==
  ASSUME Careful
  PROVE  WorkqueueInv /\ CreationOK /\ [Next]_vars => WorkqueueInv'
<1> SUFFICES ASSUME WorkqueueInv, CreationOK, [Next]_vars PROVE WorkqueueInv'
  OBVIOUS
<1>1. ASSUME NEW c \in Caller, Service(c) PROVE WorkqueueInv'
  BY <1>1, workqueue_create_Inv, workqueue_del_Inv, work_run_Inv, work_run_delayed_Inv,
     work_cancel_Inv DEF Service
<1>2. ASSUME NEW c \in Caller, Rest(c) PROVE WorkqueueInv'
  BY <1>2, work_run_give_Inv, work_cancel_enter_Inv, workqueue_create_sem_Inv,
     workqueue_create_link_Inv, workqueue_create_worker_Inv, workqueue_del_check_Inv,
     workqueue_del_worker_Inv, workqueue_del_sem_Inv, workqueue_del_unlink_Inv DEF Rest
<1>3. CASE TimerTask
  BY <1>3, timer_command_Inv, work_timer_cb_Inv, work_timer_cb_give_Inv DEF TimerTask
<1>4. CASE WorkerTask
  BY <1>4, worker_take_Inv, worker_get_Inv, worker_end_Inv DEF WorkerTask
<1>5. CASE UNCHANGED vars
  BY <1>5, WorkStutter_Inv
<1> QED BY <1>1, <1>2, <1>3, <1>4, <1>5 DEF Next

-----------------------------------------------------------------------------
(***************************************************************************)
(* The creation.                                                           *)
(***************************************************************************)
\* A step that has nothing to do with creation or deletion.
LEMMA Creation_Same ==
  ASSUME CreationOK, UNCHANGED exists, sem' = NULL <=> sem = NULL,
         worker = "none" => worker' = "none",
         \A d \in Caller : pc'[d] = pc[d] \/ {pc'[d], pc[d]} \subseteq {"user", "give", "cancel"}
  PROVE  CreationOK'
<1>1. Deleter' = Deleter
  BY DEF Deleter
<1>2. \A d \in Caller : pc'[d] = pc[d] \/ pc'[d] \in {"user", "give", "cancel"}
  OBVIOUS
<1> QED BY <1>1, <1>2 DEF CreationOK, Creator

\* A give leaves a semaphore a semaphore, and brings no worker into being.
LEMMA GiveKeeps ==
  ASSUME TypeOK, krhino_sem_give
  PROVE  (sem' = NULL <=> sem = NULL) /\ (worker = "none" => worker' = "none")
<1>1. sem \in 0 .. SemMax => sem + 1 \in Nat /\ sem # NULL
  BY WorkAssumption
<1>2. ASSUME sem # NULL, sem < SemMax PROVE sem + 1 # NULL
  <2>1. sem + 1 \in 0 .. SemMax
    BY <1>2, WorkAssumption DEF TypeOK
  <2> QED BY <2>1, WorkAssumption
<1> QED BY <1>2 DEF krhino_sem_give

LEMMA Creation_Users ==
  ASSUME WorkqueueInv, CreationOK, NEW c \in Caller, NEW w \in Work,
         \/ work_run(c, w) \/ work_run_delayed(c, w) \/ work_cancel(c, w)
         \/ work_run_give(c) \/ work_cancel_enter(c)
  PROVE  CreationOK'
<1>0. TypeOK
  BY DEF WorkqueueInv, WorkInv
<1>1. \A d \in Caller : pc'[d] = pc[d] \/ {pc'[d], pc[d]} \subseteq {"user", "give", "cancel"}
  BY <1>0 DEF TypeOK, work_run, work_run_delayed, work_cancel, work_run_give, work_cancel_enter,
     Call, At, GoTo, callVars
<1>2. UNCHANGED exists
  BY DEF work_run, work_run_delayed, work_cancel, work_run_give, work_cancel_enter, enqueue,
     queueVars
<1>3. (sem' = NULL <=> sem = NULL) /\ (worker = "none" => worker' = "none")
  <2>1. CASE work_run_give(c)
    BY <1>0, <2>1, GiveKeeps DEF work_run_give
  <2>2. CASE work_run(c, w) \/ work_run_delayed(c, w) \/ work_cancel(c, w) \/ work_cancel_enter(c)
    BY <2>2 DEF work_run, work_run_delayed, work_cancel, work_cancel_enter, enqueue, queueVars
  <2> QED BY <2>1, <2>2
<1> QED BY <1>1, <1>2, <1>3, Creation_Same

LEMMA Creation_Tasks ==
  ASSUME WorkqueueInv, CreationOK, TimerTask \/ WorkerTask \/ UNCHANGED vars
  PROVE  CreationOK'
<1>0. TypeOK
  BY DEF WorkqueueInv, WorkInv
<1>1. UNCHANGED <<exists, pc>>
  BY DEF TimerTask, timer_command, work_timer_cb, work_timer_cb_give, enqueue, WorkerTask,
     worker_take, worker_get, worker_end, vars, queueVars, callVars
<1>2. (sem' = NULL <=> sem = NULL) /\ (worker = "none" => worker' = "none")
  <2>1. CASE work_timer_cb_give
    BY <1>0, <2>1, GiveKeeps DEF work_timer_cb_give
  <2>2. CASE worker_take
    <3>1. sem \in 0 .. SemMax /\ sem # NULL /\ worker = "take"
      BY <1>0, <2>2 DEF TypeOK, worker_take
    <3>2. sem > 0 => sem - 1 \in 0 .. SemMax
      BY <3>1, WorkAssumption
    <3> QED BY <2>2, <3>1, <3>2, WorkAssumption DEF worker_take
  <2>3. CASE timer_command \/ (\E w \in Work : work_timer_cb(w)) \/ UNCHANGED vars
    BY <2>3 DEF timer_command, work_timer_cb, enqueue, vars, queueVars
  <2>4. CASE worker_get \/ worker_end
    BY <2>4 DEF worker_get, worker_end
  <2> QED BY <2>1, <2>2, <2>3, <2>4 DEF TimerTask, WorkerTask
<1> QED BY <1>1, <1>2, Creation_Same

\* The steps of the creation: there is one creator, and no deleter.
LEMMA Creation_Creator ==
  ASSUME WorkqueueInv, CreationOK, Careful, NEW c \in Caller,
         \/ workqueue_create(c) \/ workqueue_create_sem(c)
         \/ workqueue_create_link(c) \/ workqueue_create_worker(c)
  PROVE  CreationOK'
<1>0. pc \in [Caller -> Places] /\ 0 # NULL
  BY WorkAssumption DEF WorkqueueInv, WorkInv, TypeOK
<1>1. /\ Deleter = {} /\ \A d \in Caller \ {c} : pc[d] \notin Creator
  BY Usable DEF workqueue_create, workqueue_create_sem, workqueue_create_link,
     workqueue_create_worker, Creating, Creator, At, CreationOK
<1>2. PICK p \in Creator \cup {"user"} : GoTo(c, p, NULL)
  BY DEF workqueue_create, workqueue_create_sem, workqueue_create_link,
     workqueue_create_worker, Creator
<1>3. \A d \in Caller : pc'[d] = IF d = c THEN p ELSE pc[d]
  BY <1>0, <1>2 DEF GoTo
<1>4. Deleter' = {}
  BY <1>1, <1>3 DEF Deleter, Creator
<1>5. \A d \in Caller : pc'[d] \notin {"del_sem", "del_unlink"}
  BY <1>4 DEF Deleter
<1>6. \A d, e \in Caller : pc'[d] \in Creator /\ pc'[e] \in Creator => d = c /\ e = c
  BY <1>1, <1>3
<1>7. pc'[c] = p
  BY <1>3
<1>8. CASE workqueue_create(c)
  <2>1. pc'[c] = "create_sem" /\ ~exists /\ UNCHANGED <<exists, sem, worker>>
    BY <1>0, <1>8 DEF workqueue_create, GoTo, queueVars
  <2> QED BY <1>4, <1>5, <1>6, <2>1 DEF CreationOK, Creator
<1>9. CASE workqueue_create_sem(c)
  <2>1. pc'[c] = "create_link" /\ pc[c] = "create_sem" /\ sem' = 0 /\ UNCHANGED <<exists, worker>>
    BY <1>0, <1>9 DEF workqueue_create_sem, GoTo, At
  <2> QED BY <1>0, <1>4, <1>5, <1>6, <2>1 DEF CreationOK, Creator
<1>10. CASE workqueue_create_link(c)
  <2>1. /\ pc'[c] = "create_task" /\ pc[c] = "create_link" /\ exists'
        /\ UNCHANGED <<sem, worker>>
    BY <1>0, <1>10 DEF workqueue_create_link, GoTo, At
  <2> QED BY <1>4, <1>5, <1>6, <2>1 DEF CreationOK, Creator
<1>11. CASE workqueue_create_worker(c)
  <2>1. pc'[c] = "user" /\ pc[c] = "create_task" /\ UNCHANGED exists
    BY <1>0, <1>11 DEF workqueue_create_worker, GoTo, At
  <2> QED BY <1>5, <1>6, <2>1 DEF CreationOK, Creator
<1> QED BY <1>8, <1>9, <1>10, <1>11

\* The steps of the deletion: there is no creator.
LEMMA Creation_Deleter ==
  ASSUME WorkqueueInv, CreationOK, Careful, NEW c \in Caller,
         \/ workqueue_del(c) \/ workqueue_del_check(c) \/ workqueue_del_worker(c)
         \/ workqueue_del_sem(c) \/ workqueue_del_unlink(c)
  PROVE  CreationOK'
<1>0. pc \in [Caller -> Places]
  BY DEF WorkqueueInv, WorkInv, TypeOK
<1>1. \A d \in Caller \ {c} : pc[d] = "user"
  BY DEF workqueue_del, Unused, workqueue_del_check, workqueue_del_worker, workqueue_del_sem,
     workqueue_del_unlink, At, WorkqueueInv, DeletionOK, Deleter
<1>2. PICK p \in {"user", "del", "del_task", "del_sem", "del_unlink"} : GoTo(c, p, NULL)
  BY DEF workqueue_del, workqueue_del_check, workqueue_del_worker, workqueue_del_sem,
     workqueue_del_unlink
<1>3. \A d \in Caller : pc'[d] = IF d = c THEN p ELSE "user"
  BY <1>0, <1>1, <1>2 DEF GoTo
<1>4. \A d \in Caller : pc'[d] \notin Creator
  BY <1>3 DEF Creator
<1>5. CASE workqueue_del(c) \/ workqueue_del_check(c)
  <2>1. pc'[c] \in {"user", "del", "del_task"} /\ UNCHANGED <<exists, worker>>
    BY <1>0, <1>5 DEF workqueue_del, workqueue_del_check, GoTo, queueVars
  <2> QED BY <1>3, <1>4, <2>1 DEF CreationOK, Creator
<1>6. CASE workqueue_del_worker(c)
  <2>1. worker' = "none"
    BY <1>6 DEF workqueue_del_worker
  <2> QED BY <1>4, <2>1 DEF CreationOK, Creator
<1>7. CASE workqueue_del_sem(c) \/ workqueue_del_unlink(c)
  <2>1. pc[c] \in {"del_sem", "del_unlink"} /\ UNCHANGED worker
    BY <1>7 DEF workqueue_del_sem, workqueue_del_unlink, At
  <2>2. worker' = "none"
    BY <2>1 DEF CreationOK
  <2> QED BY <1>4, <2>2 DEF CreationOK, Creator
<1> QED BY <1>5, <1>6, <1>7

LEMMA CreationInit == Init => CreationOK
  BY DEF Init, CreationOK, Creator

LEMMA CreationNext ==
  ASSUME Careful
  PROVE  WorkqueueInv /\ CreationOK /\ [Next]_vars => CreationOK'
<1> SUFFICES ASSUME WorkqueueInv, CreationOK, [Next]_vars PROVE CreationOK'
  OBVIOUS
<1>1. ASSUME NEW c \in Caller, Service(c) \/ Rest(c) PROVE CreationOK'
  <2>1. CASE \/ workqueue_create(c) \/ workqueue_create_sem(c)
             \/ workqueue_create_link(c) \/ workqueue_create_worker(c)
    BY <2>1, Creation_Creator
  <2>2. CASE \/ workqueue_del(c) \/ workqueue_del_check(c) \/ workqueue_del_worker(c)
             \/ workqueue_del_sem(c) \/ workqueue_del_unlink(c)
    BY <2>2, Creation_Deleter
  <2>3. CASE \E w \in Work : work_run(c, w) \/ work_run_delayed(c, w) \/ work_cancel(c, w)
    BY <2>3, Creation_Users
  <2>4. CASE work_run_give(c) \/ work_cancel_enter(c)
    <3>1. on[c] \in Work
      BY <2>4 DEF work_run_give, work_cancel_enter, At, WorkqueueInv, CallsOK
    <3> QED BY <2>4, <3>1, Creation_Users
  <2> QED BY <1>1, <2>1, <2>2, <2>3, <2>4 DEF Service, Rest
<1>2. CASE TimerTask \/ WorkerTask \/ UNCHANGED vars
  BY <1>2, Creation_Tasks
<1> QED BY <1>1, <1>2 DEF Next

\* The inductive invariant of the work queue holds of every reachable state.
THEOREM WorkqueueInvariant ==
  ASSUME Careful
  PROVE  Spec => [](WorkqueueInv /\ CreationOK)
BY WorkInit_Inv, WorkNext_Inv, CreationInit, CreationNext, PTL DEF Spec

\* The units of the semaphore, those on their way included, are the work in the list, and
\* the worker that has taken one finds a node in the list it does not test (worker_task).
THEOREM UnitsAreWork ==
  ASSUME Careful
  PROVE  Spec => []WorkInv
<1>1. WorkqueueInv => WorkInv
  BY DEF WorkqueueInv
<1> QED BY <1>1, WorkqueueInvariant, PTL

LEMMA Next_CancelHolds ==
  WorkqueueInv /\ [Next]_vars =>
    [\A w \in cancelled \ Delayed : work_current' = w => work_current = w]_vars
<1> SUFFICES ASSUME WorkqueueInv, Next, NEW w \in cancelled \ Delayed, work_current' = w
             PROVE  work_current = w
  OBVIOUS
<1>1. w \in Work /\ w # NULL /\ w \notin ToSet(work_list)
  BY WorkAssumption DEF WorkqueueInv, WorkInv, TypeOK, CancelOK
<1>2. ASSUME NEW c \in Caller, Service(c) \/ Rest(c) PROVE work_current = w
  BY <1>1, <1>2 DEF Service, Rest, workqueue_create, workqueue_del, work_run, work_run_delayed,
     work_cancel, work_run_give, work_cancel_enter, workqueue_create_sem, workqueue_create_link,
     workqueue_create_worker, workqueue_del_check, workqueue_del_worker,
     workqueue_del_sem, workqueue_del_unlink, enqueue, queueVars
<1>3. CASE TimerTask
  BY <1>3 DEF TimerTask, timer_command, work_timer_cb, work_timer_cb_give, enqueue, queueVars
<1>4. CASE worker_get
  <2>1. work_list # << >> /\ work_list \in Seq(Work) /\ work_current' = Head(work_list)
    BY <1>4 DEF worker_get, WorkqueueInv, CallsOK
  <2>2. IsInjective(work_list)
    BY DEF WorkqueueInv, WorkInv, UnitsMatchWork
  <2> QED BY <1>1, <2>1, <2>2, TailProperties
<1>5. CASE worker_take \/ worker_end
  BY <1>1, <1>5 DEF worker_take, worker_end
<1> QED BY <1>2, <1>3, <1>4, <1>5 DEF Next, WorkerTask

\* Work without a delay that was cancelled with success does not run until it is run again
\* (krhino_work_cancel).
THEOREM CancelledStays ==
  ASSUME Careful
  PROVE  Spec => CancelHolds
BY WorkqueueInvariant, Next_CancelHolds, PTL DEF Spec, CancelHolds
=============================================================================
