# wujian100_open: a TLA+ model of its kernel and of its two cores

wujian100_open is a small RISC-V system on chip (Verilog under `src/soc`, FPGA
and simulation set-up beside it) with a software development kit under
`src/sdk`. Two parts of it have control logic of their own. The real-time kernel in
`src/sdk/csi_kernel/rhino/core`, about twenty C files, is where tasks, interrupt
handlers, time-outs and priorities meet. The boot ROM and the two applications under
`src/sdk/projects/apps` bring up two cores that exchange messages through mailbox
registers. This project models both. All paths below are relative to
`src/sdk/csi_kernel/rhino/core` unless they start with `src/`; `apps/` stands for
`src/sdk/projects/apps/wujian100_open-`.

## 1. Inventory

| component | source | state | operations | interacts with |
|---|---|---|---|---|
| lists | `include/k_list.h` | links in the elements | insert, remove | every component below |
| scheduler | `k_sched.c`, `include/k_bitmap.h`, `include/k_critical.h` | ready lists, bitmap, `highest_pri`, `g_active_task`, `g_sched_lock` | add, remove, rotate, `core_sched`, lock, unlock, time slices | called at the end of every critical section that may change who runs |
| waiter lists | `k_pend.c` | `blk_list` per object, `blk_obj` and `blk_state` per task | block, wake, cancel, reorder, turn `blk_state` into a return value | all blocking objects, the tick handler, task deletion |
| ticks | `k_tick.c`, `k_time.c` | tick counter, sorted tick list, `tick_match` | insert, remove, `tick_list_update` | interrupt; wakes tasks, lowers owners of mutexes |
| interrupts, start-up | `k_sys.c`, `k_err.c`, `k_idle.c` | nesting level | enter, exit (switches tasks), start, fatal error | scheduler |
| tasks | `k_task.c` | task control block | create, sleep, yield, suspend, resume, priority change, delete, slices, policy | scheduler, ticks, waiter lists, mutexes |
| semaphores | `k_sem.c` | count | create, delete, give, give to all, take, set | waiter lists |
| mutexes | `k_mutex.c` | owner, nesting count, list of a task's mutexes | create, delete, lock, unlock | waiter lists; `task_pri_change` of `k_task.c` |
| task semaphores | `k_task_sem.c` | a semaphore per task | wrappers of the above | semaphores |
| queues | `k_queue.c`, `k_buf_queue.c`, `k_ringbuf.c` | ring of messages, count, free bytes | send to one or all, receive, flush, delete | waiter lists; `ktask_t.msg` of a waiter |
| events | `k_event.c` | flag word | set, get with and/or and clear | waiter lists |
| timers | `k_timer.c` | timer list, command queue, timer task | create, start, stop, change, delete | buffer queue, tick counter |
| work queues | `k_workqueue.c` | list of work, worker task | run, delayed run, cancel | semaphore, timers |
| memory | `k_mm_blk.c`, `k_mm.c` | free lists | allocate, free | - |
| CSI adapter | `src/sdk/csi_kernel/rhino/adapter/csi_rhino.c` | none | translation | all services |
| port | `src/sdk/csi_kernel/rhino/arch/riscv` | saved registers, interrupt mask | context switch | scheduler |
| drivers | `src/sdk/csi_driver/wujian100_open` | transfer state per device | send, receive, handlers | interrupts |
| libraries | `src/sdk/libs` | ring buffer, heap, log | - | - |
| boot ROM | `apps/boot/src/main.c` | images in flash and in RAM | load, verify, halt, enter app0 | reset of core 1 (`apps/driver/pmu.c`) |
| mailbox driver | `apps/driver/mbox.c` | two control registers and a RAM per core, two flags | send and read a mail, send and read an acknowledgement, interrupt handler | both applications, on two cores |
| applications | `apps/app0/src/main.c`, `apps/app1/src/main.c` | what is to be sent and to be acknowledged | start core 1, endless loop of polling | mailbox |

What is hard in it:

* **Interrupts between two halves of a call.** `RHINO_CRITICAL_EXIT_SCHED` enables
  interrupts and calls `core_sched` afterwards. In between the caller is still
  running although it may be blocked, suspended or deleted already.
* **Results that are read late.** A blocking call reports what `blk_state` holds when
  the task runs again, after any number of other events.
* **Time-outs against wake-ups** on two lists at once, with a tick counter that
  wraps around.
* **Nested suspension** on top of every other state, also from interrupt handlers.
* **Priority inheritance** along chains of owners, undone by unlocks, time-outs,
  deletions and priority changes.
* **Loops with interrupts disabled**, whose end the whole system waits for.
* **Work in several critical sections**: a work queue is checked, then deleted; work is
  linked, then announced; a timer command is queued and executed later.
* **Two cores on the same registers** without any atomic operation, with an interrupt
  handler on each.

`PROJECT.json` lists these hazards at the lines where they bite, each with the
properties that would notice.

## 2. Modules

| module | models |
|---|---|
| `KList` | the lists as sequences |
| `RhinoCore` | scheduler, waiter lists, tick list, interrupts, task services |
| `RhinoSem` | `RhinoCore` with semaphores |
| `AbstractSem` | what semaphores promise: no lists, priorities, ticks or interrupts, only units, and waits that begin, end once for one reason, and return; a deleted task is out of the protocol until it is created again |
| `RhinoMutex` | `RhinoCore` with mutexes and the task services that touch them |
| `RhinoBlkObj` | what queues and event flags share: creation, deletion, the end of a wait |
| `RhinoQueue`, `AbstractQueue` | both kinds of message queue, and what they promise |
| `RhinoEvent`, `AbstractEvent` | event flags, and what they promise |
| `RhinoIpc` | `RhinoCore` with queues and event flags |
| `RingBuf` | the ring buffer under the queues, byte by byte |
| `RhinoTimer` | the timer services, the command queue, the timer task |
| `RhinoWorkqueue` | a work queue, its callers, its worker and its timers |
| `Mailbox`, `AbstractMail` | the mailbox driver with the loops of the applications, and what it promises |
| `DualCore` | the boot ROM, the reset of core 1 and both cores on `Mailbox` |
| `MCSched`, `MCRoundRobin`, `MCSem`, `MCMutex`, `MCIpc`, `MCRingBuf`, `MCTimer`, `MCWork`, `MCDualCore` | instances for TLC |
| `KListProofs`, `RhinoCoreProofs` | theorems and proofs about the lists, and on top of them about the core and the order of its lists |
| `RhinoSemProofs`, `RhinoMutexProofs`, `RhinoIpcProofs` | theorems and proofs about semaphores, about mutexes, and about queues, event flags and the ring buffer, each on top of `RhinoCoreProofs` |
| `RhinoTimerProofs`, `RhinoWorkqueueProofs` | theorems and proofs about timers and work queues, on top of `KListProofs` |
| `DualCoreProofs` | theorems and proofs about the boot and the mailboxes |

`RhinoSem`, `RhinoMutex` and `RhinoIpc` are complete kernels: the core with one family of
objects. `RhinoTimer` and `RhinoWorkqueue` stand on what the layers below promise rather
than on their code: the command queue of `RhinoTimer` is an `AbstractQueue` with a limit
and hand-over to the waiting timer task, the semaphore of `RhinoWorkqueue` an
`AbstractSem`, and its timers fire at any time, which `RhinoTimer` refines. `RhinoQueue`
takes the ring for the sequence of the messages in it, which is what `RingBuf` is checked
and proved for.

**State.** A field of `ktask_t` is a function of the task, a field of an object a
function of the object, both with the name of the field (`freesize` of the ring is `ring_free`
in `RingBuf`). A global keeps its name
(`g_ready_queue`, `g_tick_count`, `g_active_task`, `g_sched_lock`). `tick_match = 0`
off the tick list stands for `tick_head = NULL` as well. Five variables have no name
in the code: `isr` (how far the interrupt handler has got), `intrpt_off` (tasks whose
saved interrupt mask is "off"), `pc` and `arg` (where a task is in a kernel call and
with which argument), and `crit` (the loop an unfinished critical section is in).

**Granularity.** A critical section is one action. A loop inside one is a series of
steps during which `crit` disables everything else: this keeps recursion out of the
actions and lets the end of the loop be a liveness property. Between the end of a
critical section and `core_sched` interrupts are enabled, so that is a separate step
(`pc = "sched"` or `"pend_sched"`). In the kernel handlers run with interrupts disabled (the port
does not nest them), but a device's handler makes any number of calls. A call that
returns an error changes nothing and is a stuttering step; the one exception,
`krhino_task_del` of the idle task, is the action `task_del_idle`.

Three services that begin with a check and build an object in a second critical section are
one action: `krhino_task_create`, `mutex_task_create` (`k_task.c:29` and `:101`) and
`buf_queue_create` (`k_buf_queue.c:43`). Between the sections the object is there for its creator
only, as a service is called on an object that exists (see Environment).

In `RhinoTimer` the timer task is a sequence of steps (`pc`) between which ticks and calls
come: it reads the counter in one step and acts on what it has read in later ones.
`held` counts the ticks since it was woken, at most `MaxHeld` of them before it blocks again.
In `RhinoWorkqueue` every critical
section is a step and steps of different tasks interleave freely, `krhino_workqueue_create` and
`krhino_workqueue_del` included. In `Mailbox` nothing
orders the two cores, so every access of a register, of the RAM or of a flag is a step, and
`reg &= x` is a load and a store; the RAM holds no message (`Torn`) while one is copied
into it. A core's interrupt handler comes between any two steps of its own main program.

**Actions** have the names of the functions. Those with a loop or a window are split:
`krhino_sem_del` / `sem_del_turn` / `sem_loop_done`,
`krhino_task_pri_change` / `pri_change_plain` (checks before the critical section,
then the section), `krhino_mutex_lock` / `task_pri_change` / `mutex_lock_pend`,
`krhino_mutex_unlock` / `task_pri_change` / `mutex_unlock_wake`,
`krhino_task_del` / `task_mutex_free` / `task_del_unlink` / `task_del_done`,
`tick_list_update` / `tick_sleep_end` or `tick_pend_timeout` / `tick_list_done` /
`time_slice_update`, `krhino_queue_all_send` / `all_send_turn` / `all_send_done`,
`event_set_or` / `event_set_turn` / `event_set_done`,
`workqueue_create` / `_sem` / `_link` / `_worker`,
`workqueue_del` / `_check` / `_worker` / `_sem` / `_unlink`,
`recv` / `received` / `outer_cmd` or `inner_cmd` / `test_head` / `timer_cb_proc` / `timer_cb_end`. `RhinoCore` knows no mutexes and uses `pri_change_plain` and
`task_del_plain`; `RhinoMutex` replaces them.

**Data.** The bitmap is a set of priorities and `krhino_find_first_bit` its minimum;
priorities, ticks and counts keep their arithmetic, `tick_t` modulo `TickMod`, its
signed comparison included. The linked list of a task's mutexes keeps its pointers,
because stale ones matter; which mutexes are on it is the least set that the pointers are
closed in (`Chain`). A word of flags is the set of its bits. A message is a model
value with a size in `RhinoQueue` and a sequence of bytes in `RingBuf`, where a byte has
four values instead of 256, so that the three header formats occur with messages of one to
four bytes. Two definitions of properties are written without recursion, so that they can be
proved about: `RingBuf` keeps in the history variable `start` where each message begins, and
`Takes` in `RhinoQueue` says that messages take n bytes by the partial sums that lead to n.
A mail is its id and the id its text names; a firmware image is good, unsigned
or of a wrong size. Variables that are dead are reset (`RhinoTimer`, `Mailbox`), which
saves states and is said where it is done. Stacks, names, statistics, hooks and
measurements are left out.

**Configuration.** One CPU, round robin, mutexes and semaphores on, as the board's
`k_config.h` has it. `BLK_POLICY_PRI` is the only policy the kernel creates objects
with. `RINGBUF_VENDOR` is 0. Timers and queues are on; work queues are modelled as their
source has them, although no build file of the repository sets
`CONFIG_KERNEL_WORKQUEUE`.

**Environment.** `Calls` and `IntrptCalls` say which services the application and
its handlers use in an instance, `NewTask` and `NewPri` with which tasks and
priorities. These conventions limit the application: a service is called on an object
that exists; a running task's control block is not created again; a deleted mutex is
created again only when no task is left inside a call on it; `task_del_again` has to be in
`Calls` for a task that held mutexes to be deleted a second time; and with `Careful` a work
queue is deleted only when no call on it and no delayed work is under way, and created by one
caller at a time. `DualCore` starts at power-on, with core 1 in reset, so `boot_reset` finds
it there; a warm start that finds core 1 running is not covered.

**Mutants.** An operator commented "Mutant" is a faulty variant of the definition
after it. It takes no part in any specification; each property has one that breaks
it, which shows that the property can fail.

## 3. What the runs check

| run | instance | states | what it shows |
|---|---|---|---|
| `sched` | two tasks of either priority, interrupts that suspend and resume, `TickMod` 6, time-outs 1 and 2, nesting of suspensions 2, slices of 1 | 0.54 M | the ready queue, bitmap and `highest_pri` stay consistent; the tick list stays complete, sorted and punctual across wrap-around; strict priority scheduling; suspensions nest rightly whatever ends a sleep; the lock holder stays ready |
| `round_robin` | two tasks of one priority, slices of 2, policies, suspension, deletion of tasks | 0.28 M | under fair ticks tasks of one priority take turns; sleeps end although tasks may lock the scheduler |
| `sem` | two tasks and a handler, one semaphore, time-outs, suspension, deletion of tasks and of the semaphore | 0.37 M | waiter lists, no lost wake-up, no deleted or blocked task runs on, implementation of `AbstractSem`, end of every wait with a time-out |
| `mutex` | three tasks, two mutexes locked up to twice, priority changes of holders and waiters | 1.7 M | ownership, exact inheritance along chains, `task_pri_change` ends even around deadlocked tasks |
| `mutex_task` | two tasks, two mutexes, time-outs, suspension, deletion of tasks and of mutexes | 5.6 M | the same, and that `krhino_mutex_lock` reports what happened and mutexes change hands only by their owner |
| `ipc` | two tasks and a handler with one queue, buffer queue or event; two messages of different size, two flags, time-outs, suspension, flush, deletion | 1.4 M | implementation of `AbstractQueue` and `AbstractEvent`; counts and free sizes are those of the ring |
| `ringbuf` | a ring of 11 bytes for messages of 1 to 4 bytes with headers of 1 to 3, and one of two blocks | 0.55 M | what is pushed is popped, whole and in order; no access outside the buffer or inside another message |
| `timer` | a periodic static and a one-shot dynamic timer, which may be changed to more than half the range, `TickMod` 8, a command queue of one, a tick between any two steps of the timer task, one at most before it blocks again | 2.3 M | the list holds the running timers; no callback is early; until a timer is armed while another is overdue, the list is sorted, no timer is later than two ticks and none is forgotten |
| `work` | two callers, one delayed and two undelayed works | 46 k | units and works match; cancelled work does not run; queued work does |
| `dual_core` | both cores from power-on with good and bad images and left-over register contents | 0.30 M | only verified images run; implementation of `AbstractMail`; a mail to a core that is up is answered |

`PROJECT.json` has one more line about each, and the properties.

**Bounds.** Two application tasks and the idle task already show every race of a
caller with a handler or with one other task; the third one is there where chains of
owners (`mutex`) need it. Three priorities make equal, higher and lower. `TickMod` is the
smallest that separates the time-outs used from half the range, and the counter wraps
around in every run with ticks. `SemMax = 1` (`sem`), `MsgNum`, `BufSize`, `MaxSuspend` and
`MaxLock` put every counter and every queue at its limit within reach. `SYMMETRY` is used
for mutexes, in a run without liveness. In `dual_core` the loop counter has two values
(`LoopMod`), enough to tell a mail from the one before it: the counter moves on in every
iteration, so ids and texts of neighbouring mails are equal in some behaviours and differ
in others. `MaxHeld` bounds the ticks that come from the time the timer task is woken until it
blocks, by whatever holds it up: higher tasks, commands, callbacks, or nothing but the
moment of the tick. Twice as many are at most half the range of the counter, beyond which a
signed distance means nothing. The bound of `LateBounded` is reached in the run. Larger instances (not kept as
runs because of their time) had the same result: `sched` with slices of 1 and 2 (9.7 M
states), three tasks on a semaphore, semaphores with
priority changes, round robin with three tasks (0.23 M states), deletion of tasks in every
state with policies and slices (1.0 M), mutexes with every priority change (5.5 M),
time-outs with three tasks (1.8 M), deletion of tasks with three tasks and nesting 2
(4.7 M), deletion of mutexes with three tasks (0.82 M), `mutex_task` without symmetry (11 M).

**Deadlock** is checked in every run; in the kernel an interrupt can always come, or a
task that has disabled interrupts can still make calls, and the two cores never stop: the
boot ROM that refuses an image loops for ever.

**Fairness.** Weak fairness of the kernel code that has been entered: nothing but that
code can run, or interrupts that return to it. Strong fairness of the tick interrupt
and of the return from handlers: the timer is periodic and its request stays pending
while critical sections hold it off; a handler that calls services for ever would be
a fault of the application. Application code owes nothing: no liveness property
relies on a task making a call, unlocking the scheduler or giving a semaphore.
In `RhinoTimer` the timer task is weakly fair, being the highest task or at least one that
gets the CPU again and again, and the tick strongly fair; `TimersFire` is about
executions in which no timer is armed while another is overdue and the task is not kept busy with
commands for ever. A timer that is armed starts at the age the counter has reached
meanwhile, which is at most `MaxHeld`; the property says that an age beyond that does not last. In
`RhinoWorkqueue` the worker, the timer task and calls that have begun are weakly fair. In
`DualCore` each core goes on executing instructions and takes interrupts that stay
requested, so cores and handlers are weakly fair. `ImplementsAbstractMail` and the other
refinements are safety only.

## 4. Disagreements between the code and what is written about it

Two are kept as runs that TLC must find violated.

| run | what happens |
|---|---|
| `pri_deleted` | `krhino_task_pri_change` checks the state of its target before the critical section. If the target is deleted in between, `task_pri_change` ends in `k_err_proc` and the system stops. |
| `mail_lost` | Core 0 releases core 1 and sends its first mail at once, and reports it as sent. Core 1 then initialises its own mailbox, which erases the mail. It is never acknowledged, and core 0 sends another one only after an acknowledgement. |

TLC found these with instances of the same modules that are not kept as runs:

* `k_tick.c:79`: a sleep of half the range of `tick_t` or more, `RHINO_WAIT_FOREVER` for
  instance, ends at the next tick (`WakesOnTime` with such a value in `Ticks`).
* `k_task.c:737`: `krhino_task_del` of the idle task returns without
  `RHINO_CRITICAL_EXIT`; the caller goes on with interrupts disabled (`SleepsEnd`
  with `task_del_idle` in `Calls`).
* `k_task.c:762`: `krhino_task_del` of a deleted task that held a mutex follows its stale
  `mutex_list` and takes the mutex from its present owner (`ReleasedByItself` with
  `task_del_again`).
* `k_task.c:706`: `task_mutex_free` hands a mutex on without setting `owner_nested`; if the
  deleted owner had nested it, the new owner has to unlock it twice (with `task_del` and
  `MaxNested = 2`, a step that changes the owner and leaves the count at 2). No property of the
  runs is about this: without `task_del` there is nothing to go wrong.
* `k_workqueue.c:142`: without `Careful`, work that is queued between the check and the
  deletion of the worker is lost (`QueuedWorkRuns`); the queue is created again with
  works that count as queued (`WorkInv`).
* `k_workqueue.c:81`: two tasks that create the same work queue can both pass
  `workqueue_is_exist`. The second one empties the list and the semaphore of a queue that
  the first one has finished and that has work in it (`WorkInv` without `Careful`, 13 states).
* `k_workqueue.c:291`: delayed work that has run before still has a `wq`, so
  `krhino_work_cancel` reports success without stopping its timer, and the work runs
  (`CancelHolds` for `Delayed` as well).
* `k_timer.c:21`: the list is sorted by unsigned distance, against the comment "sort by
  remain time" (`k_timer.c:283`): a timer that is started while another is overdue goes
  before it, which delays that one further (`Sorted`, and `LateBounded` without its condition,
  also with short times only). The steps and states are part
  of the run; `SortedWhenOrderly` and `LateBounded` end where the first such insertion is made.
* `k_timer.c:408`: a tick between the reading of the counter and the wait makes a callback a
  tick late although no other task is ready (`LateBounded` with a smaller bound).
* `k_timer.c:189`: `krhino_timer_change` accepts times of half the range and more, which
  `krhino_timer_create` refuses (`k_timer.c:54`); a timer that is started with one fires at
  once (`NeverEarly` without its condition on `remain`).
* `k_sched.c:432`: with slices of one tick, a tick that comes between the yield of one task
  and `core_sched` charges the slice of the next one, which may so lose every turn
  (`RoundRobin` with `TimeSlice = 1`; the run uses 2). The run also leaves
  out `krhino_task_time_slice_set`: a task that renews its slice at every turn keeps the CPU.

Seen while reading, outside what the properties are about: a timer that is active ignores
START and CHG, while `csi_kernel.h:356` has "Start or restart a timer";
a timer whose `round` was changed to half the range or more is due again as soon as it has
fired, so the timer task calls it again and again and never waits;
`csi_kernel_timer_del` of the adapter frees the argument of the callback while the deletion
is still queued; a short message on a queue of fixed blocks is copied with the bytes behind
it (`k_ringbuf.c:76`, modelled in `RingBuf` as any bytes); the header of a mail has the id
`loop` and its text `send_msg_id`, which differ after a send that was refused; a mail of
`MBOX_RAM_SIZE` bytes does not fit its size field (`apps/driver/mbox.c:112`).

The passing runs leave out the calls concerned (`Ticks` below half the range, no
deletion together with priority changes or nested locks, no `task_del_again`, `Careful`), except
`task_del_idle`, which is part of `sched`.

## 5. What is proved

TLC looks at small instances; the theorems hold for every number of tasks, objects,
timers, callers, priorities and ticks, from the assumptions named in the modules (an idle
task and a main task, at least two priorities, an even range of `tick_t`, positive bounds,
finite sets of callers and works). Where the code is only right under a condition on the
application, the theorem has that condition as a hypothesis, and section 4 says what
happens without it:

* `ShortTimeouts`: time-outs are below half the range of `tick_t` (`k_tick.c:79`).
* `Careful`: a work queue is deleted only when nothing uses it (`k_workqueue.c:142`).
* `"task_del_again" \notin Calls`, for everything about mutexes: a task that held mutexes is
  not deleted twice (`k_task.c:762`).

`RhinoTimer` assumes `2 * MaxHeld <= TickMod \div 2`: a timer that is overdue by half the range
of the counter cannot be told from one in the future by any means. It assumes of the times
in calls no more than `krhino_timer_create` and `krhino_timer_change` check. `RingBuf` assumes
positive sizes and that the number of values of a byte is a multiple of four.

| theorem | says |
|---|---|
| `CoreInvariant` | `CoreSpec => []CoreInv` |
| `CoreTypeCorrect` | `CoreTypeOK` |
| `ReadyQueueCorrect` | `ReadyQueueOK` |
| `TickListCorrect` | `TickListOK` |
| `SuspendCountCorrect` | `SuspendCountOK` |
| `LockHolderStaysReady` | `LockHolderReady` |
| `HighestRuns`, `SemHighestRuns` | `RunsHighest`, of the core and with semaphores |
| `TickOrderInvariant` | `CoreSpec => []TickOrder`, from `ShortTimeouts` |
| `TickSorted`, `SemTickSorted` | `TickListSorted`, from `ShortTimeouts` |
| `TimelyWakeup`, `SemTimelyWakeup` | `WakesOnTime`, an action property, from `ShortTimeouts` |
| `SemInvariant` | `Spec => []SemInv`, for `RhinoSem` |
| `SemTypeCorrect` | `TypeOK` |
| `NoWakeupLost` | `NoLostWakeup` |
| `WaitListsCorrect` | `WaitListsOK` |
| `SemWaiters` | `WaitersByPriority` |
| `OnlyReadyRuns` | `RunsOnlyReady` |
| `SemRefinement` | `ImplementsAbstractSem`: `RhinoSem` implements `AbstractSem` |
| `MutexInvariant` | `Spec => []OwnInv`, for `RhinoMutex` |
| `MutexInvHolds`, `OwnershipHolds` | `MutexInv`, `OwnershipOK` |
| `OnlyOwnerReleases` | `ReleasedByItself`, an action property |
| `WaitersInOrder` | `WaitersByPriority`, with mutexes |
| `InheritanceInvariant` | `Spec => []DueInv` |
| `InheritanceHolds` | `InheritanceExact` |
| `ReportsTrue` | `LockReportsOwnership` |
| `IpcInvariant` | `Spec => []IpcInv`, for `RhinoIpc` |
| `QueueCounts` | `QueueInv` |
| `QueueRefinement` | `ImplementsAbstractQueue`: `RhinoIpc` implements `AbstractQueue` |
| `EventRefinement` | `ImplementsAbstractEvent`: `RhinoIpc` implements `AbstractEvent` |
| `RingContents`, `RingFirstInFirstOut` | `RingInv`, and `FirstInFirstOut`, an action property, for `RingBuf` |
| `ClockInvariant` | `Spec => []ClockInv`, for `RhinoTimer` |
| `ListIsRunning` | `TimerInv` |
| `NoneEarly` | `NeverEarly`, an action property |
| `NoneVeryLate`, `SortedHead` | `LateBounded`, `SortedWhenOrderly` |
| `WorkqueueInvariant` | `Spec => [](WorkqueueInv /\ CreationOK)`, for `RhinoWorkqueue`, from `Careful` |
| `UnitsAreWork`, `CancelledStays` | `WorkInv`, and `CancelHolds`, an action property, from `Careful` |
| `MailInvariant` | `Spec => []MailInv`, for `DualCore` |
| `OnlyVerifiedRuns` | `BootInv` |
| `MailRefinement` | `ImplementsAbstractMail`: `DualCore` implements `AbstractMail` |

**Lists and core.** `KListProofs` has what the list operations keep: which elements there are, that
none is there twice, and that a list sorted by some key stays sorted (`Ascending`).
`RhinoCoreProofs` lifts this to the ready queue, the tick list and
the waiter lists, and then to every action.
The properties are not inductive one by one. Taking a task off the ready queue is only
right if `highest_pri` has another task to fall back to, which is the idle task, so
`IdleOK` says that it is always ready at the lowest priority. A wake-up is only right if the task
is where `blk_obj` says (`BlkObjOK`, `WaitListsOK`), and a sleep is only right if the caller is
ready, which depends on where every task is in its calls (`RunsOnlyReady`, `LockHolderReady`). A
priority change works on arguments that were checked in an earlier step (`PriArgOK`).
`CoreInv` is the conjunction of these with the type invariant, and is inductive.

**Order.** `RhinoCoreProofs` goes on with three strengthenings, each inductive relative to `CoreInv`.
`RunsFirst` extends `RunsHighest` to a task at the end of a blocking call, which goes on to
its own code without another look at the ready queue. `TickOrder` says that the ticks that
remain to the tasks on the tick list ascend, also while `tick_list_update` takes the due
ones off, are below half the range and, outside that loop, above 0; a tick then lowers all of
them by one and cannot wrap one of them, which is what makes the order survive the wrap
of the counter. `WaitOrder` says that each waiter list ascends by priority; a priority
change breaks it for an instant and `pend_list_reorder` in the same critical section mends it.

**Semaphores.** Two lemmas of `RhinoCoreProofs`, `Unpend` and `PendTo`, say what the end and
the start of a wait do to all the lists; each semaphore service is one of them or leaves
the core alone, so `CoreInv`, `RunsFirst`, `WaitOrder` and `TickOrder` carry over. `SemInv`
adds `NoLostWakeup`, which the core
keeps because none of its steps makes a task wait (`CoreNoWaiter`), and `LoopCallerOK`: a
task that is in the loop of `krhino_sem_del` or `krhino_sem_give_all` came from user code,
so it owes `core_sched` and nothing else when it leaves. For the refinement, `RefInv` adds
`CallOK` (a task that waits is inside the blocking call on the object it waits for, one
that sleeps is in no call on an object, and a new task is in none) and `LoopObjOK` (while
`krhino_sem_give_all` loops its semaphore exists, while `krhino_sem_del` does it no longer). Every action then maps to one step of `AbstractSem` or to
none: a give with a waiter is a grant, a time-out an expiry, `pend_state_end_proc` the return.

**Mutexes.** The properties speak of the states outside critical sections, but a section of
`k_mutex.c` is many steps, so their strengthenings have to say what is true inside.

*Ownership* (`OwnInv`). The list of every live task is the set of the mutexes it owns and is a
list, without a cycle or two links to one mutex (`Linked`), with two exceptions: a mutex that
is being unlocked still names its last owner and is on no list (`Loose`), and the list
of a task that is being deleted is what the loop of `task_mutex_free` has still to do
(`Dying`, `FreeOwned`). The owner of a mutex never waits for it, a free or deleted mutex has
no waiters, but for one in the middle of `krhino_mutex_del`. `CritOK` keeps what the caller checked
before it entered its section, for the step after the loop to rely on. The lemmas
`ChainAdd`, `ChainRest` and `ChainDrop` say what a link, and the two ways to unlink, do to
the set of mutexes on a list; they need no induction because `Chain` is the least closed set.

*Inheritance* (`DueInv`). `Right(p, b, W, pr)` says that p is the highest of the base priority b and the
priorities of the tasks in W. `PriOK` says that in every state each live task is right with
respect to all tasks that wait behind it (`Behind`, the caller of `krhino_mutex_lock` among
them), if the priority that `task_pri_change` is about to give it counts as given (`Eff`).
So at any time at most one task is wrong, and it is the one whose turn is next.
Looking at first waiters only is enough as the lists are sorted (`HighestRight`, from
`WaitOrder`). The core of the proof is `TurnWaiting`: when the priority of a waiting task changes,
the owner of the mutex it waits for is raised; or it ran at the old priority of the waiter and
falls back to what it is due now; or it is right already, having its priority from itself or
from another waiter. These are the three cases of the code, and the proof shows that they are
enough, on a cycle of deadlocked tasks as well. `BoostOK` says that the priority that
`krhino_mutex_lock` passes on raises each task it reaches, which rules the second case
out there.

*Reports* (`ReportOK`). A task that waits is in the call on the mutex it waits for and does
not own it; a task whose wait is over and whose call has not returned owns the mutex exactly if
`blk_state` says so; a task that sleeps is in no call on a mutex.

The theorems cover mixtures of services that no run has, deletion of tasks together with
priority changes and nested locks for instance: `k_err_proc` (run `pri_deleted`) then
stops the system, in a state that satisfies them.

**Queues and events.** The two refinements share one invariant, `IpcInv`. Most services leave the
core alone or are one `Unpend` or one `PendTo`; what is new is what they leave behind for a
task that runs later. `ResultOK` says that a task whose wait was granted has its message, or
its flags, and that a task which waits for flags has said for which. `WaitersOK` says that
nobody waits while there is a message, so a send hands over to a waiter only when no message
is overtaken, and that nobody waits on an object that is gone, except while it is being
deleted. `KindOK` says that a created object has nothing left over from a life as another
kind of object. `LoopOK` is about the states inside the three loops. An abstract step is one
for all waiters and happens where the loop starts: the refinement mapping counts a task
that `krhino_queue_all_send` or `event_set` has still to reach as served already. For
`event_set` the mapping also counts the flags as cleared that these will clear, and the
proof shows that each turn agrees with that: every waiter is tested against the copy of the
flags that the loop started with, whatever the turns before it have cleared, and the waiters
still to be tested are on the list of the same event. The free bytes of a buffer queue are a sum over its messages; `Takes` names the
partial sums, which a send extends at the end and a receive shifts (lemmas about `Takes` at
the head of the module), without induction.

**Ring buffer.** The inductive invariant is `RingOK`: from `head` on, taken around the end of the
buffer (`Home`, `Spot`), the entries of the queued messages lie one behind the other, at the
places in `start`, and take exactly the bytes that are not free (`Laid`); `tail` is right
behind them; every message has a length that has a header, or that of a block (`Fits`); and in
a ring of blocks `head` and `tail` are multiples of the block size (`Aligned`), which is why a
block is never divided by the end. `Codec` proves that `ringbuf_headlen_decompress` undoes
`ringbuf_headlen_compress` for each of the three formats, from the width of a byte alone.
`PutSpot` says that a copy of `ringbuf_push`, in one piece or two, writes right behind what is
there and nowhere else; `GetSplit` and `GetWhole` say the same about reading. A pop does not
compare with what is in the ring: it splits the copy of a message if the place it reads from is
after `tail` and the bytes would go past the end. `WrapSeen` proves that this is enough: if an entry wraps, what
lies behind it begins before it, so `tail` is before it as well.

**Timers.** The properties speak of ghost ages that count ticks, while the code compares wrapped
match values. `ClockOK` ties the two: the match of every running timer is the counter
plus what the age leaves of its time, up to one turn, as long as the age is counted
(`MaxAge`). `LagOK` says that the time the task works with (`g_timer_count`) is at most
`held` ticks old and that no running timer was armed after it; `NeverEarly` follows from these
without any condition on the order of the list or on lateness. The bound on lateness comes in two parts:
`WaitOK` says that a wait ends with its timer overdue by at most the ticks that came
between the reading of the counter and the wait, and `OrderOK` adds the ticks since the wait
ended; each part is at most `MaxHeld`. It needs the order of the list, because the task
waits for the head only, and the order needs the bound, because an insertion compares unsigned
distances: the two are one induction. `PlaceOK` has what the steps of the task rely on.

**Work queues.** `UnitsMatchWork` counts units on their way, so the proof counts callers in the middle
of `krhino_work_run` (`Givers`, with cardinalities). `DeletionOK` says that while the queue
is deleted nobody else is inside a call on it and no timer can still bring work; this is
what `Careful` buys. `CreationOK` says the same of a queue that is being created: there is one
creator, nobody deletes the queue, and what it has still to make is not there yet. `CancelOK` says where cancelled work is not.

**Two cores.** A control register is written by the sender, by the handler and by the loop of
its owner, two of them by a load and a store. `SlotOK` and `AckOK` say who may be between its
load and its store and that the value it holds is still the value of the register, so no
store undoes another core's; `TransferOK` says that a mail is in at most one of the places
on its way and in none while its sender may post the next. With `MailInv` each register access is
a step of `AbstractMail` or invisible in it.

Every invariant, action property and refinement of the passing runs is a theorem. Only
model-checked are the liveness properties (`RoundRobin`, `SleepsEnd`, `TimeoutsExpire`,
`PriChangeEnds`, `TimersFire`, `QueuedWorkRuns`, `MailAnswered`): fairness is out of the
prover's reach. The two runs that must be violated are TLC's as well.

## 6. What is not modelled, and the plan

Left out for good: the code for several CPUs in the kernel (the port runs it on one), stack
checks, hooks, statistics and measurements (no control), the context switch itself and the
register level of the drivers, the cryptography (the model has its verdict), the
third-party allocator and libraries, examples, and the hardware description, which has a
flow of its own. The vendored libraries, mbedtls above all, are most of the lines of the
repository, so the share of all lines that is modelled is small.

Left out of what is modelled: the dyn variants of creation and deletion (they add the
heap), task semaphores (semaphores under another name), the arguments of timer callbacks,
peak values and info queries, several work queues, a `krhino_workqueue_create` whose worker
cannot be created (`k_workqueue.c:103`), the size field of a mail and errors of
`spi_flash_read`, which the boot ROM does not look at.

Planned, in this order:

1. `k_mm.c`: the heap as a pure algorithm (size classes, splitting and coalescing).
2. Dynamic creation and deletion of tasks (`k_dyn_mem_proc.c`), the parts of the CSI
   adapter that combine services.
3. The transfer state machines of the USI drivers and the DMA channels.
