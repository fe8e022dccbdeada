------------------------------- MODULE RhinoIpc -------------------------------
(***************************************************************************)
(* The core with queues, buffer queues and event flags: what each object   *)
(* is, is chosen once and for all.                                         *)
(***************************************************************************)
EXTENDS RhinoQueue, RhinoEvent

vars == <<coreVars, objVars, ret, msgVars, eventVars>>

Init ==
  /\ CoreInit /\ QueueInit /\ EventInit
  /\ obj_kind \in [Obj -> {"queue", "buf_queue", "event"}]
  /\ obj_type = [o \in Obj |-> FALSE] /\ ret = NoRet

\* The step is the end of a blocking call of the running task on an object: the call
\* returns what it received.  (pend, pend_info and msg are read no more before they are
\* written again: they become NULL, which saves states.)
CallReturns ==
  LET t == g_active_task
  IN  IF pc[t] = "pend_end" /\ pc'[t] = "user" /\ arg[t] \in Obj
      THEN /\ ret' = IF obj_kind[arg[t]] = "event" THEN get_result(t) ELSE recv_result(t)
           /\ pend' = [pend EXCEPT ![t] = NULL] /\ pend_info' = [pend_info EXCEPT ![t] = NULL]
           /\ msg' = [msg EXCEPT ![t] = NULL]
      ELSE ret' = NoRet /\ UNCHANGED <<pend, pend_info, msg>>

\* The core's own steps, among them the end of a blocking call and a wait that times out
\* (for none of these objects does mutex_task_pri_reset do anything).
CoreStep ==
  /\ \/ CoreNext
     \/ \E t \in Task : tick_pend_timeout(t) /\ UNCHANGED crit
  /\ CallReturns
  /\ UNCHANGED <<objVars, ring, cur_num, freesize, flags>>

Next ==
  \/ CoreStep
  \/ (\E t \in Task : obj_del_turn(t)) /\ ret' = NoRet /\ UNCHANGED <<msgVars, eventVars>>
  \/ (QueueLoop \/ \E o \in Obj : QueueService(o) \/ QueueReceive(o)) /\ UNCHANGED eventVars
  \/ (EventLoop \/ \E o \in Obj : EventService(o) \/ EventReceive(o)) /\ UNCHANGED msgVars

Spec == Init /\ [][Next]_vars
-----------------------------------------------------------------------------
\* Type invariant.
TypeOK ==
  /\ CoreTypeOK
  /\ obj_kind \in [Obj -> {"queue", "buf_queue", "event"}] /\ obj_type \in [Obj -> BOOLEAN]
  /\ ring \in [Obj -> Seq(Msg)] /\ cur_num \in [Obj -> Nat]
  /\ freesize \in [Obj -> 0 .. BufSize] /\ msg \in [Task -> Msg \cup {NULL}]
  /\ flags \in [Obj -> SUBSET Flag] /\ pend \in [Task -> Options \cup {NULL}]
  /\ pend_info \in [Task -> (SUBSET Flag) \cup {NULL}]
  /\ \A o \in Obj : obj_kind[o] = "queue" => cur_num[o] <= MsgNum
  /\ crit.op \in {"none", "tick", "k_err_proc", "obj_del", "all_send", "event_set"}

\* The types, and QueueCountOK: after any flush, deletion, timeout or hand-over a queue's
\* count is that of the messages in it (cur_num and freesize in k_queue.c, k_buf_queue.c).
QueueInv == TypeOK /\ QueueCountOK
=============================================================================
