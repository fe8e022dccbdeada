----------------------------- MODULE RhinoTimer -----------------------------
(***************************************************************************)
(* Software timers (k_timer.c).  A call of the timer services puts a        *)
(* command into a queue of fixed length; the timer task takes the commands  *)
(* out in order, keeps the list of running timers and calls the callbacks.  *)
(*                                                                         *)
(* The queue is used as k_buf_queue.c implements it: a command for a timer  *)
(* task that is blocked in krhino_buf_queue_recv is handed to it, and wakes *)
(* it.  The task does not run at once, and even when no other task is ready *)
(* interrupts come between any two of its steps: a tick between its reading *)
(* of the counter and what it does with it is possible everywhere.          *)
(*                                                                         *)
(* match and remain of a timer that is not running, and g_timer_count       *)
(* while the task looks at the head or waits, are read by nobody before     *)
(* they are written again: they are 0 there, which saves states.            *)
(*                                                                         *)
(* An operator whose comment starts with "Mutant" is a faulty variant of    *)
(* the definition that follows it; no specification uses it.                *)
(***************************************************************************)
EXTENDS KList, FiniteSets

CONSTANTS
  Timer,      \* timer objects
  Dynamic,    \* those allocated by krhino_timer_dyn_create
  None,       \* no timer, no command, the list head
  TickMod,    \* number of values of sys_time_t and tick_t
  NewTimer,   \* the timer, first and round of each krhino_timer_create call
  Change,     \* the timer, first and round of each krhino_timer_change call
  MsgNum,     \* RHINO_CONFIG_TIMER_MSG_NUM
  MaxHeld     \* bound: ticks that come from the time the timer task is woken until it blocks

MAX_TIMER_TICKS == (TickMod - 1) \div 2

ASSUME TimerAssumption ==
  /\ Dynamic \subseteq Timer /\ None \notin Timer
  /\ TickMod \in Nat /\ TickMod >= 4 /\ TickMod % 2 = 0
  /\ NewTimer \subseteq Timer \X (1 .. MAX_TIMER_TICKS - 1) \X (0 .. MAX_TIMER_TICKS - 1)
  /\ Change \subseteq Timer \X (0 .. TickMod - 2) \X (0 .. TickMod - 2)
  /\ MsgNum \in Nat \ {0} /\ MaxHeld \in Nat /\ 2 * MaxHeld <= TickMod \div 2

Tick == 0 .. TickMod - 1
MaxPeriod == MAX_TIMER_TICKS - 1
MaxAge == MaxPeriod + 2 * MaxHeld + 1

VARIABLES
  obj_type,        \* ktimer_t fields: RHINO_TIMER_OBJ_TYPE or not
  timer_state,     \* TIMER_ACTIVE or not
  match,
  remain,
  init_count,
  round_ticks,
  g_timer_head,    \* the list of running timers
  g_timer_count,   \* the time the timer task works with
  g_timer_queue,   \* commands that have been sent and not received
  g_tick_count,
  held,            \* ticks since the timer task was woken, 0 while it is blocked
  pc,              \* where the timer task is
  cb_msg,          \* the command it has received, None after a timeout
  wait,            \* the ticks it waits, 0 for RHINO_WAIT_FOREVER
  q,               \* the list node timer_cb_proc has got to
  age,             \* history: ticks since the time the timer was armed at
  orderly          \* history: every timer was armed for at most MaxPeriod ticks, and while
                   \* no other one was overdue

timerVars == <<obj_type, timer_state, match, remain, init_count, round_ticks>>
taskVars  == <<pc, cb_msg, wait, q>>
vars == <<timerVars, g_timer_head, g_timer_count, g_timer_queue, g_tick_count, held,
          taskVars, age, orderly>>

\* The casts to sys_time_i_t, and the unsigned difference without them.
Signed(x)      == IF x < TickMod \div 2 THEN x ELSE x - TickMod
Minus(x, y)    == (x - y + TickMod) % TickMod
Plus(x, y)     == (x + y) % TickMod

\* The command of krhino_timer_arg_change is left out: the argument is not modelled.
Cmd == [op : {"START", "STOP", "ARG_AUTO", "DEL", "DYN_DEL"}, timer : Timer]
       \cup {[op |-> "CHG", timer |-> c[1], first |-> c[2], round |-> c[3]] : c \in Change}
-----------------------------------------------------------------------------
(***************************************************************************)
(* The services.  A call that is refused changes nothing.                   *)
(***************************************************************************)
\* The timer task is blocked in krhino_buf_queue_recv.
Blocked == pc \in {"blocked_outer", "blocked_inner"}

\* krhino_buf_queue_send, refused when the queue is full.
krhino_buf_queue_send(cmd) ==
  \/ /\ Blocked
     /\ cb_msg' = cmd
     /\ pc' = IF pc = "blocked_outer" THEN "outer" ELSE "inner"
     /\ UNCHANGED g_timer_queue
  \/ /\ ~Blocked
     /\ Len(g_timer_queue) < MsgNum
     /\ g_timer_queue' = Append(g_timer_queue, cmd)
     /\ UNCHANGED <<pc, cb_msg>>

\* krhino_timer_start, _stop, _change, _arg_change_auto, _del and _dyn_del.
timer_command(cmd) ==
  /\ krhino_buf_queue_send(cmd)
  /\ UNCHANGED <<timerVars, g_timer_head, g_timer_count, g_tick_count, held, wait, q, age,
                 orderly>>

\* krhino_timer_create and krhino_timer_dyn_create on memory that is no timer; with
\* auto_run the timer is started.  When the queue is full a static timer is left as it is,
\* and a dynamic one freed again, which changes nothing.
krhino_timer_create(t, first, round, auto_run) ==
  /\ ~obj_type[t]
  /\ obj_type'    = [obj_type EXCEPT ![t] = TRUE]
  /\ init_count'  = [init_count EXCEPT ![t] = first]
  /\ round_ticks' = [round_ticks EXCEPT ![t] = round]
  /\ remain'      = [remain EXCEPT ![t] = 0]
  /\ match'       = [match EXCEPT ![t] = 0]
  /\ timer_state' = [timer_state EXCEPT ![t] = FALSE]
  /\ \/ auto_run /\ krhino_buf_queue_send([op |-> "START", timer |-> t])
     \/ /\ auto_run => t \notin Dynamic /\ ~Blocked /\ Len(g_timer_queue) = MsgNum
        /\ UNCHANGED <<g_timer_queue, pc, cb_msg>>
  /\ UNCHANGED <<g_timer_head, g_timer_count, g_tick_count, held, wait, q, age, orderly>>
-----------------------------------------------------------------------------
(***************************************************************************)
(* The timer task.                                                         *)
(***************************************************************************)
\* Mutant: every timer is put at the end.
timer_list_append(l, m, now, t, val) == Append(l, t)

\* The list l with t inserted: before the first timer whose match is more than val ticks
\* from now, the difference being unsigned.
timer_list_pri_insert(l, m, now, t, val) ==
  klist_insert(l, ScanStop(l, {i \in DOMAIN l : Minus(m[l[i]], now) > val}), t)

\* u is overdue at the time now, as far as the code can tell.
Passed(u, now) == Signed(Minus(match[u], now)) < 0

\* t is armed: it is in the list and due `ticks' after now.
Arm(t, l, now, ticks) ==
  /\ match'        = [match EXCEPT ![t] = Plus(now, ticks)]
  /\ remain'       = [remain EXCEPT ![t] = ticks]
  /\ g_timer_head' = timer_list_pri_insert(l, match, now, t, ticks)
  /\ age'          = [age EXCEPT ![t] = Minus(g_tick_count, now)]
  /\ orderly'      = (orderly /\ ticks <= MaxPeriod /\ \A u \in ToSet(l) : ~Passed(u, now))

cmd_start(t, l, now) ==
  /\ Arm(t, l, now, init_count[t])
  /\ timer_state' = [timer_state EXCEPT ![t] = TRUE]

\* timer_list_rm, and the timer is TIMER_DEACTIVE.
Disarm(t) ==
  /\ g_timer_head' = klist_rm(g_timer_head, t)
  /\ timer_state'  = [timer_state EXCEPT ![t] = FALSE]
  /\ match'        = [match EXCEPT ![t] = 0]
  /\ remain'       = [remain EXCEPT ![t] = 0]
  /\ age'          = [age EXCEPT ![t] = 0]
  /\ UNCHANGED orderly

NoCmd == UNCHANGED <<timer_state, match, remain, g_timer_head, age, orderly>>

DelCmd(t) == IF t \in Dynamic THEN "DYN_DEL" ELSE "DEL"

\* Mutant: a running timer is deleted as well.
cmd_deletes_running(cmd) == cmd.op = DelCmd(cmd.timer)

\* The command is the right one to delete the timer, and the timer is stopped.
cmd_deletes(cmd) == cmd.op = DelCmd(cmd.timer) /\ ~timer_state[cmd.timer]

\* timer_cmd_proc and cmd_proc: commands for an object that is no timer, or is in the wrong
\* state, are dropped.  The argument of the callback is not modelled.
timer_cmd_proc(cmd, now) ==
  LET t    == cmd.timer
      live == obj_type[t]
      l    == IF timer_state[t] THEN klist_rm(g_timer_head, t) ELSE g_timer_head
  IN  /\ CASE cmd.op = "START" /\ live /\ ~timer_state[t] -> cmd_start(t, g_timer_head, now)
           [] cmd.op = "ARG_AUTO" /\ live -> cmd_start(t, l, now)
           [] cmd.op = "STOP" /\ live /\ timer_state[t] -> Disarm(t)
           [] OTHER -> NoCmd
      /\ IF cmd.op = "CHG" /\ cmd.first > 0 /\ live /\ ~timer_state[t]
         THEN init_count' = [init_count EXCEPT ![t] = cmd.first]
              /\ round_ticks' = [round_ticks EXCEPT ![t] = cmd.round]
         ELSE UNCHANGED <<init_count, round_ticks>>
      /\ obj_type' = [obj_type EXCEPT ![t] = @ /\ ~cmd_deletes(cmd)]

NextNode(l, t) ==
  LET i == CHOOSE i \in DOMAIN l : l[i] = t IN IF i = Len(l) THEN None ELSE l[i + 1]
First(l) == IF l = << >> THEN None ELSE Head(l)

\* Mutant: every wait is RHINO_WAIT_FOREVER.
recv_forever(from) ==
  /\ pc = IF from = "outer" THEN "recv_outer" ELSE "recv_inner"
  /\ IF g_timer_queue = << >>
     THEN pc' = "blocked_outer" /\ held' = 0 /\ UNCHANGED <<g_timer_queue, cb_msg>>
     ELSE /\ pc' = from /\ cb_msg' = Head(g_timer_queue) /\ g_timer_queue' = Tail(g_timer_queue)
          /\ UNCHANGED held
  /\ UNCHANGED <<timerVars, g_timer_head, g_timer_count, g_tick_count, wait, q, age, orderly>>

\* Call of krhino_buf_queue_recv from where the list is empty, or not.  A command in the
\* queue is taken at once.
recv(from) ==
  /\ pc = IF from = "outer" THEN "recv_outer" ELSE "recv_inner"
  /\ IF g_timer_queue = << >>
     THEN /\ pc' = (IF from = "outer" THEN "blocked_outer" ELSE "blocked_inner") /\ held' = 0
          /\ UNCHANGED <<g_timer_queue, cb_msg>>
     ELSE /\ pc' = from /\ cb_msg' = Head(g_timer_queue) /\ g_timer_queue' = Tail(g_timer_queue)
          /\ UNCHANGED held
  /\ UNCHANGED <<timerVars, g_timer_head, g_timer_count, g_tick_count, wait, q, age, orderly>>

\* A wait has ended, with a command or, in the inner loop, by timeout: the counter is read ...
received(from) ==
  /\ pc = from
  /\ g_timer_count' = g_tick_count
  /\ IF from = "inner" /\ cb_msg = None
     THEN pc' = "cb" /\ q' = First(g_timer_head)
     ELSE pc' = (IF from = "outer" THEN "outer_cmd" ELSE "inner_cmd") /\ UNCHANGED q
  /\ wait' = 0
  /\ UNCHANGED <<timerVars, g_timer_head, g_timer_queue, g_tick_count, held, cb_msg, age, orderly>>

\* ... and the command executed, as of that time.
outer_cmd ==
  /\ pc = "outer_cmd"
  /\ timer_cmd_proc(cb_msg, g_timer_count)
  /\ pc' = "test" /\ cb_msg' = None /\ g_timer_count' = 0
  /\ UNCHANGED <<g_timer_queue, g_tick_count, held, wait, q>>

inner_cmd ==
  /\ pc = "inner_cmd"
  /\ timer_cmd_proc(cb_msg, g_timer_count)
  /\ pc' = "cb" /\ cb_msg' = None
  /\ q' = First(g_timer_head')
  /\ UNCHANGED <<g_timer_count, g_timer_queue, g_tick_count, held, wait>>

\* The condition of the inner loop: the list is empty, or its head is due, or the task will
\* wait for it.
test_head ==
  /\ pc = "test"
  /\ LET t == First(g_timer_head)
         delta == Signed(Minus(match[t], g_tick_count))
     IN  \/ /\ t = None
            /\ pc' = "recv_outer"
            /\ UNCHANGED <<wait, g_timer_count, q>>
         \/ /\ t # None /\ delta > 0
            /\ pc' = "recv_inner" /\ wait' = delta
            /\ UNCHANGED <<g_timer_count, q>>
         \/ /\ t # None /\ delta <= 0
            /\ pc' = "cb" /\ g_timer_count' = g_tick_count /\ q' = t
            /\ UNCHANGED wait
  /\ UNCHANGED <<timerVars, g_timer_head, g_timer_queue, g_tick_count, held, cb_msg, age,
                 orderly>>

\* Mutant: a timer one tick short of its match is taken for due.
timer_cb_due_early(t) == Signed(Minus(match[t], g_timer_count)) <= 1

timer_cb_due(t) == Signed(Minus(match[t], g_timer_count)) <= 0

\* One turn of timer_cb_proc: the callback of a due timer is called, a periodic timer is
\* armed again and the loop goes on from where the timer is then.
timer_cb_proc(t) ==
  /\ pc = "cb" /\ q = t /\ timer_cb_due(t)
  /\ \/ /\ round_ticks[t] > 0
        /\ Arm(t, klist_rm(g_timer_head, t), g_timer_count, round_ticks[t])
        /\ q' = NextNode(g_timer_head', t)
        /\ UNCHANGED timer_state
     \/ /\ round_ticks[t] = 0
        /\ q' = NextNode(g_timer_head, t)
        /\ Disarm(t)
  /\ UNCHANGED <<obj_type, init_count, round_ticks, g_timer_count, g_timer_queue,
                 g_tick_count, held, pc, cb_msg, wait>>

timer_cb_end ==
  /\ pc = "cb"
  /\ q # None => ~timer_cb_due(q)
  /\ pc' = "test" /\ q' = None /\ g_timer_count' = 0
  /\ UNCHANGED <<timerVars, g_timer_head, g_timer_queue, g_tick_count, held, cb_msg, wait, age,
                 orderly>>

timer_task ==
  \/ recv("outer") \/ recv("inner") \/ received("outer") \/ received("inner")
  \/ outer_cmd \/ inner_cmd \/ test_head
  \/ \E t \in Timer : timer_cb_proc(t)
  \/ timer_cb_end
-----------------------------------------------------------------------------
(***************************************************************************)
(* The tick.  While the timer task is blocked in the inner loop, `wait'     *)
(* counts down; at 0 the wait times out.                                    *)
(***************************************************************************)
krhino_tick_proc ==
  /\ Blocked \/ held < MaxHeld
  /\ held' = IF Blocked THEN 0 ELSE held + 1
  /\ g_tick_count' = Plus(g_tick_count, 1)
  /\ age' = [t \in Timer |-> IF t \in ToSet(g_timer_head) /\ age[t] < MaxAge THEN age[t] + 1 ELSE age[t]]
  /\ IF pc = "blocked_inner"
     THEN wait' = wait - 1 /\ pc' = (IF wait = 1 THEN "inner" ELSE pc)
     ELSE UNCHANGED <<wait, pc>>
  /\ UNCHANGED <<timerVars, g_timer_head, g_timer_count, g_timer_queue, cb_msg, q, orderly>>

\* ktimer_init, and the timers the application has created.
Init ==
  /\ obj_type = [t \in Timer |-> FALSE] /\ timer_state = [t \in Timer |-> FALSE]
  /\ match = [t \in Timer |-> 0] /\ remain = [t \in Timer |-> 0]
  /\ init_count = [t \in Timer |-> 0] /\ round_ticks = [t \in Timer |-> 0]
  /\ g_timer_head = << >> /\ g_timer_count = 0 /\ g_timer_queue = << >> /\ g_tick_count = 0
  /\ held = 0
  /\ pc = "recv_outer" /\ cb_msg = None /\ wait = 0 /\ q = None
  /\ age = [t \in Timer |-> 0] /\ orderly = TRUE

Next ==
  \/ \E cmd \in Cmd : timer_command(cmd)
  \/ \E n \in NewTimer, auto_run \in BOOLEAN : krhino_timer_create(n[1], n[2], n[3], auto_run)
  \/ timer_task
  \/ krhino_tick_proc

\* The timer task runs again and again, and the tick interrupt is periodic: it comes between
\* any finite number of steps.
Fairness == WF_vars(timer_task) /\ SF_vars(krhino_tick_proc)

Spec == Init /\ [][Next]_vars /\ Fairness
-----------------------------------------------------------------------------
Pcs == {"recv_outer", "recv_inner", "blocked_outer", "blocked_inner", "outer", "inner",
        "outer_cmd", "inner_cmd", "test", "cb"}

\* Type invariant.
TypeOK ==
  /\ obj_type \in [Timer -> BOOLEAN] /\ timer_state \in [Timer -> BOOLEAN]
  /\ match \in [Timer -> Tick] /\ remain \in [Timer -> Tick]
  /\ init_count \in [Timer -> Tick] /\ round_ticks \in [Timer -> Tick]
  /\ ToSet(g_timer_head) \subseteq Timer /\ g_timer_count \in Tick /\ g_tick_count \in Tick
  /\ ToSet(g_timer_queue) \subseteq Cmd /\ Len(g_timer_queue) <= MsgNum
  /\ held \in 0 .. MaxHeld /\ pc \in Pcs /\ cb_msg \in Cmd \cup {None}
  /\ wait \in Tick /\ q \in Timer \cup {None}
  /\ age \in [Timer -> 0 .. MaxAge] /\ orderly \in BOOLEAN

\* The list holds exactly the running timers, each once, whatever commands arrive in
\* whatever state (to_head and timer_state in k_timer.c).
TimerListOK ==
  /\ IsInjective(g_timer_head)
  /\ ToSet(g_timer_head) = {t \in Timer : timer_state[t]}
  /\ \A t \in Timer : timer_state[t] => obj_type[t]
  /\ q = None \/ timer_state[q]

\* The types, the length of the command queue among them, and TimerListOK.
TimerInv == TypeOK /\ TimerListOK

\* No callback comes before its time, wherever ticks come between the steps of the timer task
\* and however long the timer has been overdue before (timer_cb_proc).  krhino_timer_change
\* accepts times that krhino_timer_create refuses; for these the property says nothing.
NeverEarly == [][\A t \in Timer : timer_cb_proc(t) /\ remain[t] <= MaxPeriod => age[t] >= remain[t]]_vars

\* A timer is never overdue for longer than the timer task is held up twice: by ticks
\* that come after it has read the counter and before it waits (timer_task), and by ticks
\* between the end of that wait and the callback.  This holds until a timer is armed while
\* another one is overdue, or for longer than krhino_timer_create allows.
LateBounded == orderly => \A t \in Timer : timer_state[t] => age[t] - remain[t] <= 2 * MaxHeld

\* The order of the list by the time that remains ("sort by remain time" in cmd_proc).
Remaining(t) == Signed(Minus(match[t], g_tick_count))
Sorted == \A i, j \in DOMAIN g_timer_head : i < j => Remaining(g_timer_head[i]) <= Remaining(g_timer_head[j])

\* The list is in the order of the time that remains, across wraps of the counter, with
\* overdue timers at its head, until a timer is armed while another one is overdue.
SortedWhenOrderly == orderly => Sorted

\* A running timer is not forgotten: it is armed again or stopped, if none is armed while
\* another is overdue and the task is not kept busy with commands for ever.  A timer that is
\* armed late has at most the age of the counter that the task works with (g_timer_count).
TimersFire ==
  ([]orderly /\ []<>Blocked)
    => \A t \in Timer : (timer_state[t] /\ age[t] > MaxHeld) ~> (~timer_state[t] \/ age[t] <= MaxHeld)
=============================================================================
