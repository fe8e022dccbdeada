---------------------------- MODULE RhinoWorkqueue ----------------------------
(***************************************************************************)
(* Work queues (k_workqueue.c): one work queue with its worker task, the   *)
(* callers of the services and, for delayed work, the timer task.          *)
(*                                                                         *)
(* Every critical section is one step and steps of different tasks         *)
(* interleave freely: priorities, time slices and blocking decide in the   *)
(* kernel.  The semaphore does what AbstractSem promises.  Of the timers,  *)
(* the queue of commands and the one-shot timer of each delayed work are   *)
(* kept (RhinoTimer has the rest); a running timer may fire at any time.   *)
(*                                                                         *)
(* An operator whose comment starts with "Mutant" is a faulty variant of   *)
(* the definition that follows it; no specification uses it.               *)
(***************************************************************************)
EXTENDS KList, FiniteSets

CONSTANTS
  Caller,    \* the tasks that call the services
  Work,      \* work items, initialised
  Delayed,   \* those with dly > 0
  NULL,
  SemMax,    \* largest sem_count_t
  MsgNum,    \* RHINO_CONFIG_TIMER_MSG_NUM
  Careful    \* how the application creates and deletes the queue (see below)

ASSUME WorkAssumption ==
  /\ Delayed \subseteq Work /\ NULL \notin Work /\ NULL \notin 0 .. SemMax
  /\ IsFiniteSet(Work) /\ IsFiniteSet(Caller)
  /\ SemMax \in Nat /\ SemMax >= Cardinality(Work) /\ MsgNum \in Nat \ {0}
  /\ Careful \in BOOLEAN

VARIABLES
  exists,         \* the queue is on g_workqueue_list_head
  work_list,      \* kworkqueue_t fields
  work_current,
  sem,            \* the count of queue->sem, NULL when there is no semaphore
  worker,         \* where the worker task is
  wq,             \* kwork_t fields: work->wq is the queue, not NULL
  work_exit,
  timer,          \* the work's timer is running
  g_timer_queue,  \* commands to the timer task
  timer_task,     \* the work whose callback is between its two critical sections, or NULL
  pc,             \* where each caller is
  on,             \* the work of its call
  cancelled       \* history: work whose last call was a cancel that succeeded

queueVars == <<exists, work_list, work_current, sem, worker>>
timerVars == <<timer, g_timer_queue, timer_task>>
callVars  == <<pc, on>>
vars == <<queueVars, wq, work_exit, timerVars, callVars, cancelled>>

\* A careful application deletes the queue when no other call on it and no delayed work is
\* under way, and nobody uses it again before the deletion is over; two tasks do not create
\* it at once.
Creating == \E c \in Caller : pc[c] \in {"create_sem", "create_link", "create_task"}
Deleting == \E c \in Caller : pc[c] \in {"del", "del_task", "del_sem", "del_unlink"}
Unused   == /\ \A c \in Caller : pc[c] = "user"
            /\ \A w \in Work : ~timer[w]
            /\ g_timer_queue = << >> /\ timer_task = NULL

Call(c) == pc[c] = "user" /\ (Careful => ~Deleting)

\* The caller is inside a call, at the place p.
At(c, p) == pc[c] = p

GoTo(c, p, w) == pc' = [pc EXCEPT ![c] = p] /\ on' = [on EXCEPT ![c] = w]
-----------------------------------------------------------------------------
\* Mutant: work that is queued already is queued again.
Idle_queued_too(w) == work_current # w

\* The checks that krhino_work_run and work_timer_cb make: not running, not queued.
Idle(w) == work_current # w /\ work_exit[w] = 0

\* klist_rm and klist_insert: the work is put at the end of the list.  A node that is in no
\* list is linked to itself, and klist_rm does nothing.
enqueue(w) ==
  /\ work_list' = Append(IF w \in ToSet(work_list) THEN klist_rm(work_list, w) ELSE work_list, w)
  /\ wq'        = [wq EXCEPT ![w] = TRUE]
  /\ work_exit' = [work_exit EXCEPT ![w] = 1]
  /\ UNCHANGED <<exists, work_current, sem, worker>>

\* krhino_sem_give: the worker gets the unit if it waits.  A give that is refused
\* changes nothing.
krhino_sem_give ==
  \/ worker = "blocked" /\ sem # NULL /\ worker' = "taken" /\ UNCHANGED sem
  \/ worker # "blocked" /\ sem # NULL /\ sem < SemMax /\ sem' = sem + 1 /\ UNCHANGED worker
  \/ (sem = NULL \/ sem = SemMax) /\ UNCHANGED <<sem, worker>>

\* krhino_work_run of work without a delay, first critical section ...
work_run(c, w) ==
  /\ Call(c) /\ exists /\ w \notin Delayed
  /\ Idle(w)
  /\ enqueue(w)
  /\ cancelled' = cancelled \ {w}
  /\ GoTo(c, "give", w)
  /\ UNCHANGED timerVars

\* ... and the second.
work_run_give(c) ==
  /\ At(c, "give")
  /\ krhino_sem_give
  /\ GoTo(c, "user", NULL)
  /\ UNCHANGED <<exists, work_list, work_current, wq, work_exit, timerVars, cancelled>>

\* krhino_work_run of delayed work: the timer is to be started.
work_run_delayed(c, w) ==
  /\ Call(c) /\ exists /\ w \in Delayed
  /\ Len(g_timer_queue) < MsgNum
  /\ g_timer_queue' = Append(g_timer_queue, [op |-> "ARG_AUTO", work |-> w])
  /\ cancelled' = cancelled \ {w}
  /\ UNCHANGED <<queueVars, wq, work_exit, timer, timer_task, callVars>>

\* The timer task executes a command ...
timer_command ==
  /\ timer_task = NULL /\ g_timer_queue # << >>
  /\ timer' = [timer EXCEPT ![Head(g_timer_queue).work] = Head(g_timer_queue).op = "ARG_AUTO"]
  /\ g_timer_queue' = Tail(g_timer_queue)
  /\ UNCHANGED <<queueVars, wq, work_exit, timer_task, callVars, cancelled>>

\* ... or calls the callback of a timer that is due: work that is running or queued is left
\* as it is.
work_timer_cb(w) ==
  /\ timer_task = NULL /\ timer[w]
  /\ timer' = [timer EXCEPT ![w] = FALSE]
  /\ IF Idle(w) THEN enqueue(w) /\ timer_task' = w
                ELSE UNCHANGED <<queueVars, wq, work_exit, timer_task>>
  /\ UNCHANGED <<g_timer_queue, callVars, cancelled>>

work_timer_cb_give ==
  /\ timer_task # NULL
  /\ krhino_sem_give
  /\ timer_task' = NULL
  /\ UNCHANGED <<exists, work_list, work_current, wq, work_exit, timer, g_timer_queue, callVars,
                 cancelled>>

\* krhino_work_cancel reads work->wq before its critical section.  Work that has no queue
\* counts as cancelled at once; the result of krhino_timer_stop is not looked at.
work_cancel(c, w) ==
  /\ Call(c)
  /\ \/ /\ wq[w]
        /\ GoTo(c, "cancel", w)
        /\ UNCHANGED <<g_timer_queue, cancelled>>
     \/ /\ ~wq[w]
        /\ cancelled' = cancelled \cup {w}
        /\ g_timer_queue' = IF w \in Delayed /\ Len(g_timer_queue) < MsgNum
                            THEN Append(g_timer_queue, [op |-> "STOP", work |-> w])
                            ELSE g_timer_queue
        /\ UNCHANGED callVars
  /\ UNCHANGED <<queueVars, wq, work_exit, timer, timer_task>>

\* Mutant: work that is queued is reported as cancelled.
work_cancel_refused_running(w) == work_current = w

work_cancel_refused(w) == work_current = w \/ work_exit[w] = 1

work_cancel_enter(c) ==
  /\ At(c, "cancel")
  /\ IF work_cancel_refused(on[c])
     THEN UNCHANGED <<wq, cancelled>>
     ELSE wq' = [wq EXCEPT ![on[c]] = FALSE] /\ cancelled' = cancelled \cup {on[c]}
  /\ GoTo(c, "user", NULL)
  /\ UNCHANGED <<queueVars, work_exit, timerVars>>
-----------------------------------------------------------------------------
\* Mutant: the worker waits although there are units.
worker_take_waits ==
  /\ worker = "take" /\ sem # NULL
  /\ worker' = "blocked"
  /\ UNCHANGED <<exists, work_list, work_current, sem, wq, work_exit, timerVars, callVars, cancelled>>

\* worker_task: krhino_sem_take ...
worker_take ==
  /\ worker = "take" /\ sem # NULL
  /\ IF sem > 0 THEN sem' = sem - 1 /\ worker' = "taken"
                ELSE worker' = "blocked" /\ UNCHANGED sem
  /\ UNCHANGED <<exists, work_list, work_current, wq, work_exit, timerVars, callVars, cancelled>>

\* ... the first work of the list, which is not tested for being empty ...
worker_get ==
  /\ worker = "taken" /\ work_list # << >>
  /\ work_list' = Tail(work_list) /\ work_current' = Head(work_list)
  /\ work_exit' = [work_exit EXCEPT ![Head(work_list)] = 0]
  /\ worker' = "handle"
  /\ UNCHANGED <<exists, sem, wq, timerVars, callVars, cancelled>>

\* ... and the end of its handler.
worker_end ==
  /\ worker = "handle"
  /\ work_current' = NULL /\ worker' = "take"
  /\ UNCHANGED <<exists, work_list, sem, wq, work_exit, timerVars, callVars, cancelled>>
-----------------------------------------------------------------------------
\* krhino_workqueue_create: there is no such queue (workqueue_is_exist).  The list and the
\* semaphore, the entry in the list of queues and the worker come in three further critical
\* sections.
workqueue_create(c) ==
  /\ Call(c) /\ ~exists
  /\ Careful => ~Creating
  /\ GoTo(c, "create_sem", NULL)
  /\ UNCHANGED <<queueVars, wq, work_exit, timerVars, cancelled>>

workqueue_create_sem(c) ==
  /\ At(c, "create_sem")
  /\ work_list' = << >> /\ work_current' = NULL /\ sem' = 0
  /\ GoTo(c, "create_link", NULL)
  /\ UNCHANGED <<exists, worker, wq, work_exit, timerVars, cancelled>>

workqueue_create_link(c) ==
  /\ At(c, "create_link")
  /\ exists' = TRUE
  /\ GoTo(c, "create_task", NULL)
  /\ UNCHANGED <<work_list, work_current, sem, worker, wq, work_exit, timerVars, cancelled>>

workqueue_create_worker(c) ==
  /\ At(c, "create_task")
  /\ worker' = "take"
  /\ GoTo(c, "user", NULL)
  /\ UNCHANGED <<exists, work_list, work_current, sem, wq, work_exit, timerVars, cancelled>>

\* krhino_workqueue_del: it exists, it is idle, and the worker, the semaphore and the queue
\* go in three further critical sections.
workqueue_del(c) ==
  /\ Call(c) /\ exists
  /\ Careful => Unused
  /\ GoTo(c, "del", NULL)
  /\ UNCHANGED <<queueVars, wq, work_exit, timerVars, cancelled>>

Busy == work_list # << >> \/ work_current # NULL

workqueue_del_check(c) ==
  /\ At(c, "del")
  /\ GoTo(c, IF Busy THEN "user" ELSE "del_task", NULL)
  /\ UNCHANGED <<queueVars, wq, work_exit, timerVars, cancelled>>

workqueue_del_worker(c) ==
  /\ At(c, "del_task")
  /\ worker' = "none"
  /\ GoTo(c, "del_sem", NULL)
  /\ UNCHANGED <<exists, work_list, work_current, sem, wq, work_exit, timerVars, cancelled>>

workqueue_del_sem(c) ==
  /\ At(c, "del_sem")
  /\ sem' = NULL
  /\ GoTo(c, "del_unlink", NULL)
  /\ UNCHANGED <<exists, work_list, work_current, worker, wq, work_exit, timerVars, cancelled>>

workqueue_del_unlink(c) ==
  /\ At(c, "del_unlink")
  /\ exists' = FALSE
  /\ GoTo(c, "user", NULL)
  /\ UNCHANGED <<work_list, work_current, sem, worker, wq, work_exit, timerVars, cancelled>>
-----------------------------------------------------------------------------
\* workqueue_init has created the queue, krhino_work_init the work.
Init ==
  /\ exists = TRUE /\ work_list = << >> /\ work_current = NULL /\ sem = 0 /\ worker = "take"
  /\ wq = [w \in Work |-> FALSE] /\ work_exit = [w \in Work |-> 0]
  /\ timer = [w \in Work |-> FALSE] /\ g_timer_queue = << >> /\ timer_task = NULL
  /\ pc = [c \in Caller |-> "user"] /\ on = [c \in Caller |-> NULL]
  /\ cancelled = {}

\* What a caller does on its own account, and the rest of a call it is in.
Service(c) ==
  \/ workqueue_create(c) \/ workqueue_del(c)
  \/ \E w \in Work : work_run(c, w) \/ work_run_delayed(c, w) \/ work_cancel(c, w)
Rest(c) ==
  \/ work_run_give(c) \/ work_cancel_enter(c)
  \/ workqueue_create_sem(c) \/ workqueue_create_link(c) \/ workqueue_create_worker(c)
  \/ workqueue_del_check(c) \/ workqueue_del_worker(c) \/ workqueue_del_sem(c)
  \/ workqueue_del_unlink(c)
TimerTask  == timer_command \/ work_timer_cb_give \/ \E w \in Work : work_timer_cb(w)
WorkerTask == worker_take \/ worker_get \/ worker_end

Next == (\E c \in Caller : Service(c) \/ Rest(c)) \/ TimerTask \/ WorkerTask

\* Every task gets the CPU again and again, and handlers return.
Fairness ==
  /\ \A c \in Caller : WF_vars(Rest(c))
  /\ WF_vars(TimerTask) /\ WF_vars(WorkerTask)

Spec == Init /\ [][Next]_vars /\ Fairness
-----------------------------------------------------------------------------
Places == {"user", "give", "cancel", "create_sem", "create_link", "create_task",
           "del", "del_task", "del_sem", "del_unlink"}

\* Type invariant.
TypeOK ==
  /\ exists \in BOOLEAN /\ ToSet(work_list) \subseteq Work /\ work_current \in Work \cup {NULL}
  /\ sem \in (0 .. SemMax) \cup {NULL}
  /\ worker \in {"none", "take", "blocked", "taken", "handle"}
  /\ wq \in [Work -> BOOLEAN] /\ work_exit \in [Work -> 0 .. 1] /\ timer \in [Work -> BOOLEAN]
  /\ ToSet(g_timer_queue) \subseteq [op : {"ARG_AUTO", "STOP"}, work : Delayed]
  /\ Len(g_timer_queue) <= MsgNum /\ timer_task \in Work \cup {NULL}
  /\ pc \in [Caller -> Places]
  /\ on \in [Caller -> Work \cup {NULL}] /\ cancelled \subseteq Work

\* The units of the semaphore, those on their way included, are the work in the list, and
\* work is in the list, once, exactly when work_exit says so: the worker, which takes a unit
\* and then the first node of the list without looking ("have work to do"), always finds one.
OnTheWay == Cardinality({c \in Caller : pc[c] = "give"}) + (IF timer_task = NULL THEN 0 ELSE 1)
UnitsMatchWork ==
  /\ sem # NULL => sem + OnTheWay + (IF worker = "taken" THEN 1 ELSE 0) = Len(work_list)
  /\ IsInjective(work_list)
  /\ \A w \in Work : work_exit[w] = 1 <=> w \in ToSet(work_list)
  /\ worker = "taken" => work_list # << >>

\* The types, and UnitsMatchWork.
WorkInv == TypeOK /\ UnitsMatchWork

\* Work without a delay that was cancelled with success does not run until it is run again,
\* although krhino_work_cancel reads work->wq before its critical section.
CancelHolds ==
  [][\A w \in cancelled \ Delayed : work_current' = w => work_current = w]_vars

\* Work that has been queued runs: neither its unit nor the work is lost between the
\* critical sections of krhino_work_run, work_timer_cb and krhino_workqueue_del.
QueuedWorkRuns == \A w \in Work : (w \in ToSet(work_list)) ~> (work_current = w)
=============================================================================
