------------------------------ MODULE RhinoQueue ------------------------------
(***************************************************************************)
(* Message queues (k_queue.c) and buffer queues (k_buf_queue.c) on top of  *)
(* the core.  The ring buffer is the sequence of messages in it, as        *)
(* RingBuf shows it to be; peak values are left out.                       *)
(***************************************************************************)
EXTENDS RhinoBlkObj

CONSTANTS
  Msg,       \* messages
  MsgNum,    \* msg_q.size
  Bytes,     \* the bytes each message takes in a buffer queue, with its header
  BufSize,   \* the bytes of a buffer queue
  MaxBytes   \* max_msg_size, with the header

ASSUME MsgAssumption ==
  /\ NULL \notin Msg /\ MsgNum \in Nat \ {0} /\ BufSize \in Nat \ {0} /\ MaxBytes \in Nat
  /\ Bytes \in [Msg -> Nat \ {0, 1}]

VARIABLES
  ring,       \* ringbuf
  cur_num,
  freesize,   \* ringbuf.freesize of a buffer queue
  msg         \* ktask_t.msg: the message handed to the task, or for a buffer queue what
              \* has been copied to where it points

msgVars == <<ring, cur_num, freesize, msg>>

\* ringbuf_reset
ring_reset(o) ==
  /\ ring'     = [ring EXCEPT ![o] = << >>]
  /\ freesize' = [freesize EXCEPT ![o] = BufSize]

queue_create(o) ==
  /\ TaskCall("queue_create")
  /\ obj_create(o, "queue")
  /\ cur_num' = [cur_num EXCEPT ![o] = 0]
  /\ ring_reset(o)
  /\ UNCHANGED msg

buf_queue_create(o) ==
  /\ TaskCall("buf_queue_create")
  /\ obj_create(o, "buf_queue")
  /\ cur_num' = [cur_num EXCEPT ![o] = 0]
  /\ ring_reset(o)
  /\ UNCHANGED msg

\* krhino_queue_del and krhino_buf_queue_del leave cur_num as it is.
krhino_queue_del(o)     == TaskCall("queue_del") /\ obj_del(o, "queue") /\ UNCHANGED msgVars
krhino_buf_queue_del(o) == TaskCall("buf_queue_del") /\ obj_del(o, "buf_queue") /\ UNCHANGED msgVars

queue_del_done ==
  /\ obj_del_done
  /\ obj_kind[crit.obj] \in {"queue", "buf_queue"}
  /\ ring_reset(crit.obj)
  /\ UNCHANGED <<cur_num, msg>>

\* ringbuf_push and the count.
Push(o, m) ==
  /\ ring'     = [ring EXCEPT ![o] = Append(@, m)]
  /\ cur_num'  = [cur_num EXCEPT ![o] = @ + 1]
  /\ freesize' = [freesize EXCEPT ![o] = IF obj_kind[o] = "queue" THEN @ ELSE @ - Bytes[m]]

\* Mutant: the message is not passed on.
task_msg_recv_none(t, m) == UNCHANGED msg /\ pend_task_wakeup(t)

\* task_msg_recv, and the copy buf_queue_send makes.
task_msg_recv(t, m) == msg' = [msg EXCEPT ![t] = m] /\ pend_task_wakeup(t)

\* The first waiter gets the message, or it is queued if there is none.
SendOne(o, m) ==
  /\ \/ /\ blk_list[o] = << >>
        /\ Push(o, m)
        /\ UNCHANGED <<tcbVars, queueVars, callVars, msg>>
     \/ /\ blk_list[o] # << >>
        /\ task_msg_recv(Head(blk_list[o]), m)
        /\ RHINO_CRITICAL_EXIT_SCHED
        /\ UNCHANGED <<prio, suspend_count, ring, cur_num, freesize>>
  /\ UNCHANGED <<rrVars, g_tick_count, cpuVars, crit, objVars>>

queue_is_full(o) == cur_num[o] >= MsgNum

\* msg_send: a full queue refuses, before it looks for waiters.
krhino_queue_back_send(o, m) ==
  /\ AnyCall("queue_back_send")
  /\ obj_kind[o] = "queue" /\ obj_type[o]
  /\ ~queue_is_full(o)
  /\ SendOne(o, m)

krhino_queue_all_send(o, m) ==
  /\ AnyCall("queue_all_send")
  /\ obj_kind[o] = "queue" /\ obj_type[o]
  /\ ~queue_is_full(o)
  /\ \/ /\ blk_list[o] = << >>
        /\ Push(o, m)
        /\ UNCHANGED crit
     \/ /\ blk_list[o] # << >>
        /\ crit' = [op |-> "all_send", obj |-> o, msg |-> m]
        /\ UNCHANGED <<ring, cur_num, freesize>>
  /\ UNCHANGED <<tcbVars, rrVars, queueVars, g_tick_count, cpuVars, callVars, objVars, msg>>

\* One turn of the loop that wakes all waiters, and its end.
all_send_turn(t) ==
  /\ crit.op = "all_send" /\ blk_list[crit.obj] # << >> /\ t = Head(blk_list[crit.obj])
  /\ task_msg_recv(t, crit.msg)
  /\ UNCHANGED <<prio, suspend_count, rrVars, g_tick_count, cpuVars, callVars, crit, objVars,
                 ring, cur_num, freesize>>

all_send_done ==
  /\ crit.op = "all_send" /\ blk_list[crit.obj] = << >>
  /\ LoopDone
  /\ UNCHANGED msgVars

\* buf_queue_send: a waiter gets the message whatever the ring has room for.
krhino_buf_queue_send(o, m) ==
  /\ AnyCall("buf_queue_send")
  /\ obj_kind[o] = "buf_queue" /\ obj_type[o]
  /\ Bytes[m] <= MaxBytes
  /\ blk_list[o] = << >> => freesize[o] >= Bytes[m]
  /\ SendOne(o, m)

\* A receive call: a queued message is taken at once; otherwise the task blocks unless ticks
\* is RHINO_NO_WAIT or the scheduler is locked.  An interrupt handler must not wait.
QueueRecv(o, ticks, avail) ==
  /\ obj_type[o]
  /\ isr # "none" => ticks = 0
  /\ \/ /\ avail
        /\ ring'     = [ring EXCEPT ![o] = Tail(@)]
        /\ cur_num'  = [cur_num EXCEPT ![o] = @ - 1]
        /\ freesize' = [freesize EXCEPT ![o] = IF obj_kind[o] = "queue" THEN @
                                               ELSE @ + Bytes[Head(ring[o])]]
        /\ ret'      = Returned(Caller, o, Head(ring[o]))
        /\ UNCHANGED <<tcbVars, queueVars, callVars, msg>>
     \/ /\ ~avail
        /\ Pend(o, ticks)
        /\ ret' = NoRet
        /\ UNCHANGED msgVars
  /\ UNCHANGED <<rrVars, g_tick_count, cpuVars, crit, objVars>>

krhino_queue_recv(o, ticks) ==
  /\ AnyCall("queue_recv") /\ obj_kind[o] = "queue"
  /\ QueueRecv(o, ticks, cur_num[o] > 0)

krhino_buf_queue_recv(o, ticks) ==
  /\ AnyCall("buf_queue_recv") /\ obj_kind[o] = "buf_queue"
  /\ QueueRecv(o, ticks, freesize[o] # BufSize)

\* Mutant: the count stays.
krhino_queue_flush_keeps(o) ==
  /\ TaskCall("queue_flush") /\ obj_kind[o] = "queue" /\ obj_type[o]
  /\ ring_reset(o)
  /\ UNCHANGED <<coreVars, objVars, cur_num, msg>>

krhino_queue_flush(o) ==
  /\ TaskCall("queue_flush") /\ obj_kind[o] = "queue" /\ obj_type[o]
  /\ ring_reset(o) /\ cur_num' = [cur_num EXCEPT ![o] = 0]
  /\ UNCHANGED <<coreVars, objVars, msg>>

krhino_buf_queue_flush(o) ==
  /\ TaskCall("buf_queue_flush") /\ obj_kind[o] = "buf_queue" /\ obj_type[o]
  /\ ring_reset(o) /\ cur_num' = [cur_num EXCEPT ![o] = 0]
  /\ UNCHANGED <<coreVars, objVars, msg>>

\* The end of a receive call that blocked: the message handed over, or NULL.
recv_result(t) == Returned(t, arg[t], IF blk_state[t] = "BLK_FINISH" THEN msg[t] ELSE NULL)
-----------------------------------------------------------------------------
QueueInit ==
  /\ ring = [o \in Obj |-> << >>] /\ cur_num = [o \in Obj |-> 0]
  /\ freesize = [o \in Obj |-> BufSize] /\ msg = [t \in Task |-> NULL]

\* The services that are over in one step, and the loop of krhino_queue_all_send.
QueueService(o) ==
  /\ \/ queue_create(o) \/ buf_queue_create(o)
     \/ krhino_queue_del(o) \/ krhino_buf_queue_del(o)
     \/ \E m \in Msg : \/ krhino_queue_back_send(o, m) \/ krhino_queue_all_send(o, m)
                       \/ krhino_buf_queue_send(o, m)
     \/ krhino_queue_flush(o) \/ krhino_buf_queue_flush(o)
  /\ ret' = NoRet
QueueLoop == (queue_del_done \/ all_send_done \/ \E t \in Task : all_send_turn(t)) /\ ret' = NoRet
QueueReceive(o) ==
  \E ticks \in Ticks \cup {WaitForever} : krhino_queue_recv(o, ticks) \/ krhino_buf_queue_recv(o, ticks)
-----------------------------------------------------------------------------
\* The messages of s take n bytes: upto[i] is what the first i of them take.
Takes(s, n) ==
  \E upto \in [0 .. Len(s) -> 0 .. n] :
    /\ upto[0] = 0 /\ upto[Len(s)] = n
    /\ \A i \in 1 .. Len(s) : upto[i] = upto[i - 1] + Bytes[s[i]]

\* The count and the free size are those of what is in the ring, so neither kind of queue
\* takes itself for empty, or for full, when it is not.
QueueCountOK ==
  \A o \in Obj : obj_type[o] /\ obj_kind[o] # "event" =>
    /\ cur_num[o] = Len(ring[o])
    /\ obj_kind[o] = "buf_queue" => Takes(ring[o], BufSize - freesize[o])

\* The promise of AbstractQueue is kept by both kinds of queue: no message is lost,
\* duplicated or overtaken, whatever tasks, interrupt handlers, timeouts, suspensions and
\* deletions do between the time a message is handed over and the time the call returns it.
\* krhino_queue_all_send serves all waiters at once, although it wakes them one by one.
QueueWait(t) ==
  IF ~InCall(t, {"queue", "buf_queue"}) THEN <<"out">>
  ELSE IF crit.op = "all_send" /\ blk_obj[t] = crit.obj THEN <<"got", arg[t], crit.msg>>
  ELSE WaitOn(t, msg[t])

AbsQueue == INSTANCE AbstractQueue WITH
  Queue <- Obj,
  alive <- {o \in Obj : obj_type[o] /\ obj_kind[o] # "event"},
  q     <- [o \in Obj |-> IF obj_type[o] THEN ring[o] ELSE << >>],
  wait  <- [t \in Task |-> QueueWait(t)],
  ret   <- IF ret # NoRet /\ obj_kind[ret.obj] = "event" THEN NoRet ELSE ret

ImplementsAbstractQueue == AbsQueue!Spec
=============================================================================
