--------------------------- MODULE RhinoIpcProofs ---------------------------
(***************************************************************************)
(* Queues, buffer queues and event flags keep the invariant of the core,   *)
(* count what is in them and keep the promises of AbstractQueue and        *)
(* AbstractEvent, for any number of tasks, objects, messages and flags;    *)
(* and the ring buffer under them returns what was put into it, in order.  *)
(***************************************************************************)
EXTENDS RhinoIpc, RingBuf, RhinoCoreProofs

-----------------------------------------------------------------------------
(***************************************************************************)
(* The bytes messages take in a buffer queue.                              *)
(***************************************************************************)
\* No part of what the messages take is less than what the first one takes.
LEMMA FirstTakes ==
  ASSUME NEW s \in Seq(Msg), NEW n \in Nat, s # << >>, NEW upto \in [0 .. Len(s) -> 0 .. n],
         \A i \in 1 .. Len(s) : upto[i] = upto[i - 1] + Bytes[s[i]]
  PROVE  \A i \in 1 .. Len(s) : upto[i] >= upto[1]
<1> DEFINE T == {i \in 1 .. Len(s) : ~(upto[i] >= upto[1])}
<1> SUFFICES ASSUME T # {} PROVE FALSE
  OBVIOUS
<1>1. T \subseteq Nat
  OBVIOUS
<1>2. PICK i \in T : \A j \in T : <<j, i>> \notin OpToRel(<, Nat)
  <2> HIDE DEF T
  <2> QED
    BY <1>1, NatLessThanWellFounded, WFMin
<1>3. i \in 1 .. Len(s) /\ ~(upto[i] >= upto[1]) /\ i # 1
  OBVIOUS
<1>4. i - 1 \in 1 .. Len(s) /\ i - 1 < i /\ i - 1 \in Nat /\ i \in Nat
  BY <1>3
<1>5. i - 1 \notin T
  <2>1. <<i - 1, i>> \in OpToRel(<, Nat)
    BY <1>4 DEF OpToRel
  <2> HIDE DEF T
  <2> QED
    BY <1>2, <2>1
<1>6. upto[i - 1] >= upto[1]
  BY <1>4, <1>5
<1>7. Bytes[s[i]] \in Nat
  BY <1>3, MsgAssumption
<1>8. upto[i] = upto[i - 1] + Bytes[s[i]] /\ upto[i - 1] \in Nat /\ upto[1] \in Nat
  BY <1>3, <1>4, SMTT(30)
<1> QED
  BY <1>3, <1>6, <1>7, <1>8

LEMMA TakesNone ==
  Takes(<< >>, 0)
<1> DEFINE upto == [i \in 0 .. 0 |-> 0]
<1>1. upto \in [0 .. Len(<< >>) -> 0 .. 0] /\ upto[0] = 0 /\ upto[Len(<< >>)] = 0
  OBVIOUS
<1>2. \A i \in 1 .. Len(<< >>) : upto[i] = upto[i - 1] + Bytes[<< >>[i]]
  OBVIOUS
<1> HIDE DEF upto
<1> QED
  BY <1>1, <1>2 DEF Takes

\* Nothing takes no bytes, and only nothing does.
LEMMA TakesSome ==
  ASSUME NEW s \in Seq(Msg), NEW n \in Nat, Takes(s, n)
  PROVE  n = 0 <=> s = << >>
<1>1. PICK upto \in [0 .. Len(s) -> 0 .. n] :
         /\ upto[0] = 0 /\ upto[Len(s)] = n
         /\ \A i \in 1 .. Len(s) : upto[i] = upto[i - 1] + Bytes[s[i]]
  BY DEF Takes
<1>2. CASE s = << >>
  BY <1>1, <1>2
<1>3. CASE s # << >>
  <2>1. 1 \in 1 .. Len(s) /\ s[1] \in Msg
    BY <1>3
  <2>2. Bytes[s[1]] > 0 /\ Bytes[s[1]] \in Nat
    BY <2>1, MsgAssumption
  <2>3. upto[1] = upto[0] + Bytes[s[1]] /\ upto[1] \in 0 .. n
    BY <1>1, <2>1
  <2> QED
    BY <1>1, <1>3, <2>2, <2>3
<1> QED
  BY <1>2, <1>3

LEMMA TakesAppend ==
  ASSUME NEW s \in Seq(Msg), NEW n \in Nat, Takes(s, n), NEW m \in Msg
  PROVE  Takes(Append(s, m), n + Bytes[m])
<1>1. PICK upto \in [0 .. Len(s) -> 0 .. n] :
         /\ upto[0] = 0 /\ upto[Len(s)] = n
         /\ \A i \in 1 .. Len(s) : upto[i] = upto[i - 1] + Bytes[s[i]]
  BY DEF Takes
<1>2. PICK b \in Nat : b = Bytes[m]
  BY MsgAssumption
<1>3. PICK k \in Nat : k = Len(s)
  OBVIOUS
<1> DEFINE more == [i \in 0 .. k + 1 |-> IF i = k + 1 THEN n + b ELSE upto[i]]
<1>4. Len(Append(s, m)) = k + 1 /\ Append(s, m)[k + 1] = m
      /\ \A i \in 1 .. k : Append(s, m)[i] = s[i]
  BY <1>3
<1>5. more \in [0 .. k + 1 -> 0 .. n + b]
  <2> SUFFICES ASSUME NEW i \in 0 .. k + 1 PROVE (IF i = k + 1 THEN n + b ELSE upto[i]) \in 0 .. n + b
    OBVIOUS
  <2>1. i # k + 1 => upto[i] \in 0 .. n
    BY <1>1, <1>3
  <2> QED
    BY <1>2, <2>1
<1>6. more[0] = 0 /\ more[k + 1] = n + b
  BY <1>1, <1>3
<1>7. ASSUME NEW i \in 1 .. k + 1 PROVE more[i] = more[i - 1] + Bytes[Append(s, m)[i]]
  <2>1. CASE i = k + 1
    BY <1>1, <1>2, <1>3, <1>4, <2>1
  <2>2. CASE i # k + 1
    <3>1. i \in 1 .. k /\ i - 1 \in 0 .. k /\ i - 1 # k + 1
      BY <2>2
    <3> QED
      BY <1>1, <1>3, <1>4, <2>2, <3>1
  <2> QED
    BY <2>1, <2>2
<1> HIDE DEF more
<1> QED
  BY <1>2, <1>4, <1>5, <1>6, <1>7 DEF Takes

LEMMA TakesTail ==
  ASSUME NEW s \in Seq(Msg), NEW n \in Nat, Takes(s, n), s # << >>
  PROVE  Bytes[Head(s)] \in 0 .. n /\ Takes(Tail(s), n - Bytes[Head(s)])
<1>1. PICK upto \in [0 .. Len(s) -> 0 .. n] :
         /\ upto[0] = 0 /\ upto[Len(s)] = n
         /\ \A i \in 1 .. Len(s) : upto[i] = upto[i - 1] + Bytes[s[i]]
  BY DEF Takes
<1>2. \A i \in 1 .. Len(s) : upto[i] >= upto[1]
  BY <1>1, FirstTakes
<1>3. PICK k \in Nat : k + 1 = Len(s)
  <2>1. Len(s) \in Nat /\ Len(s) # 0
    OBVIOUS
  <2> QED
    BY <2>1
<1>4. PICK b \in Nat : b = Bytes[Head(s)]
  <2>1. Head(s) \in Msg
    OBVIOUS
  <2> QED
    BY <2>1, MsgAssumption
<1>5. upto[1] = b /\ b \in 0 .. n
  <2>1. 1 \in 1 .. Len(s) /\ s[1] = Head(s)
    BY <1>3
  <2> QED
    BY <1>1, <1>4, <2>1
<1> DEFINE less == [i \in 0 .. k |-> upto[i + 1] - b]
<1>6. Len(Tail(s)) = k /\ \A i \in 1 .. k : Tail(s)[i] = s[i + 1]
  BY <1>3
<1>7. less \in [0 .. k -> 0 .. n - b]
  <2> SUFFICES ASSUME NEW i \in 0 .. k PROVE upto[i + 1] - b \in 0 .. n - b
    OBVIOUS
  <2>1. i + 1 \in 1 .. Len(s) /\ i + 1 \in 0 .. Len(s)
    BY <1>3
  <2>2. upto[i + 1] >= b /\ upto[i + 1] \in 0 .. n
    BY <1>1, <1>2, <1>5, <2>1
  <2> QED
    BY <1>5, <2>2
<1>8. less[0] = 0 /\ less[k] = n - b
  BY <1>1, <1>3, <1>5
<1>9. ASSUME NEW i \in 1 .. k PROVE less[i] = less[i - 1] + Bytes[Tail(s)[i]]
  <2>1. /\ i + 1 \in 1 .. Len(s) /\ (i + 1) - 1 = i /\ i \in 0 .. k /\ i - 1 \in 0 .. k
        /\ (i - 1) + 1 = i /\ i \in 0 .. Len(s)
    BY <1>3
  <2>2. upto[i + 1] = upto[i] + Bytes[s[i + 1]] /\ upto[i] \in 0 .. n
    BY <1>1, <2>1
  <2>3. less[i] = upto[i + 1] - b /\ less[i - 1] = upto[i] - b
    BY <2>1
  <2>4. Tail(s)[i] = s[i + 1]
    BY <1>6
  <2>5. PICK c \in Nat : c = Bytes[s[i + 1]]
    BY <2>1, MsgAssumption
  <2>6. PICK x \in Nat : x = upto[i]
    BY <2>2
  <2>7. less[i] = (x + c) - b /\ less[i - 1] = x - b /\ Bytes[Tail(s)[i]] = c
    BY <2>2, <2>3, <2>4, <2>5, <2>6
  <2> HIDE DEF less
  <2> QED
    BY <2>7
<1> HIDE DEF less
<1> QED
  BY <1>4, <1>5, <1>6, <1>7, <1>8, <1>9 DEF Takes

-----------------------------------------------------------------------------
(***************************************************************************)
(* The invariant.                                                          *)
(***************************************************************************)
\* The loops in critical sections: who is in one is a task in user code, or a handler.
\* krhino_queue_all_send's queue exists and is empty, event_set's waiters are on the list.
Loops == {"obj_del", "all_send", "event_set"}
LoopOK ==
  /\ crit.op \in Loops => crit.obj \in Obj /\ (isr = "none" => pc[g_active_task] = "user")
  /\ crit.op = "obj_del" => ~obj_type[crit.obj]
  /\ crit.op = "all_send" =>
       /\ obj_type[crit.obj] /\ obj_kind[crit.obj] = "queue"
       /\ crit.msg \in Msg /\ ring[crit.obj] = << >>
  /\ crit.op = "event_set" =>
       /\ crit \in [op : {"event_set"}, obj : Obj, flags : SUBSET Flag, iter : Seq(Task)]
       /\ obj_type[crit.obj] /\ obj_kind[crit.obj] = "event"
       /\ IsInjective(crit.iter) /\ ToSet(crit.iter) \subseteq ToSet(blk_list[crit.obj])

\* Tasks wait for a message only while there is none, and for no object that is not in use,
\* but for the time its deletion takes.
WaitersOK ==
  \A o \in Obj : blk_list[o] # << >> =>
    ring[o] = << >> /\ (obj_type[o] \/ (crit.op = "obj_del" /\ crit.obj = o))

\* An object has the fields of its own kind only.
KindOK == \A o \in Obj : IF obj_kind[o] = "event" THEN ring[o] = << >> ELSE flags[o] = {}

\* A task that waits for flags has said for which; one that has been woken has got what it
\* will return.
ResultOf(t) ==
  \A o \in Obj :
    /\ obj_kind[o] = "event" =>
         /\ WaitOf(t) = <<"waiting", o>> => pend[t] \in Options
         /\ WaitOf(t) = <<"granted", o>> => pend_info[t] \in SUBSET Flag
    /\ obj_kind[o] # "event" /\ WaitOf(t) = <<"granted", o>> => msg[t] \in Msg
ResultOK == \A t \in Task : ResultOf(t)

IpcInv ==
  /\ CoreInv /\ CallOK /\ TypeOK /\ QueueCountOK
  /\ LoopOK /\ WaitersOK /\ KindOK /\ ResultOK

\* The types of the variables of the objects, and what is true of their counts.
ObjTypeOK ==
  /\ obj_kind \in [Obj -> {"queue", "buf_queue", "event"}] /\ obj_type \in [Obj -> BOOLEAN]
  /\ ring \in [Obj -> Seq(Msg)] /\ cur_num \in [Obj -> Nat]
  /\ freesize \in [Obj -> 0 .. BufSize] /\ msg \in [Task -> Msg \cup {NULL}]
  /\ flags \in [Obj -> SUBSET Flag] /\ pend \in [Task -> Options \cup {NULL}]
  /\ pend_info \in [Task -> (SUBSET Flag) \cup {NULL}]
  /\ \A o \in Obj : obj_kind[o] = "queue" => cur_num[o] <= MsgNum
CritTypeOK == crit.op \in {"none", "tick", "k_err_proc", "obj_del", "all_send", "event_set"}

LEMMA TypeParts ==
  /\ TypeOK <=> CoreTypeOK /\ ObjTypeOK /\ CritTypeOK
  /\ TypeOK' <=> CoreTypeOK' /\ ObjTypeOK' /\ CritTypeOK'
  BY DEF TypeOK, ObjTypeOK, CritTypeOK

\* Steps that leave the data of the objects alone.
LEMMA CountKept ==
  ASSUME IpcInv, UNCHANGED <<objVars, ring, cur_num, freesize>>
  PROVE  QueueCountOK'
  BY DEF IpcInv, QueueCountOK, objVars

\* The list of waiters of an object may lose waiters.
LEMMA WaitersLess ==
  ASSUME IpcInv, \A o \in Obj : blk_list[o] = << >> => blk_list'[o] = << >>,
         UNCHANGED <<obj_type, ring>>, crit.op = "obj_del" => crit' = crit
  PROVE  WaitersOK'
  BY DEF IpcInv, WaitersOK

LEMMA FewerWaiters ==
  ASSUME CoreInv, CoreInv', NEW t, \A o \in Obj : ToSet(blk_list'[o]) = ToSet(blk_list[o]) \ {t}
  PROVE  \A o \in Obj : blk_list[o] = << >> => blk_list'[o] = << >>
<1> SUFFICES ASSUME NEW o \in Obj, blk_list[o] = << >> PROVE blk_list'[o] = << >>
  OBVIOUS
<1>1. blk_list[o] \in Seq(Task) /\ blk_list'[o] \in Seq(Task)
  BY DEF CoreInv, CoreTypeOK
<1>2. ToSet(blk_list'[o]) = {}
  BY <1>1, NoElements
<1> QED
  BY <1>1, <1>2, NoElements

\* A task whose wait goes on, or that gets nothing, needs no more than it has.
LEMMA ResultKept ==
  ASSUME NEW t, ResultOf(t), obj_kind' = obj_kind,
         \/ /\ WaitOf(t)' = WaitOf(t)
            /\ pend'[t] = pend[t] /\ pend_info'[t] = pend_info[t] /\ msg'[t] = msg[t]
         \/ WaitOf(t)' \in {<<"out">>, <<"dead">>}
         \/ \E o : WaitOf(t)' \in {<<"expired", o>>, <<"cancelled", o>>}
  PROVE  ResultOf(t)'
<1>1. CASE /\ WaitOf(t)' = WaitOf(t)
           /\ pend'[t] = pend[t] /\ pend_info'[t] = pend_info[t] /\ msg'[t] = msg[t]
  BY <1>1 DEF ResultOf
<1>2. CASE WaitOf(t)' \in {<<"out">>, <<"dead">>} \/ \E o : WaitOf(t)' \in {<<"expired", o>>, <<"cancelled", o>>}
  <2>1. \A x : WaitOf(t)' # <<"waiting", x>> /\ WaitOf(t)' # <<"granted", x>>
    BY <1>2
  <2> QED
    BY <2>1 DEF ResultOf
<1> QED
  BY <1>1, <1>2

LEMMA ResultsKept ==
  ASSUME ResultOK, UNCHANGED <<obj_kind, pend, pend_info, msg>>, \A t \in Task : WaitOf(t)' = WaitOf(t)
  PROVE  ResultOK'
  BY ResultKept DEF ResultOK

-----------------------------------------------------------------------------
(***************************************************************************)
(* The steps of the core, and the turns of the loops.                      *)
(***************************************************************************)
\* What CallReturns does to the variables of the tasks: only the task that returns loses
\* what it has got.
LEMMA ReturnParts ==
  ASSUME IpcInv, CallReturns
  PROVE  /\ msg' \in [Task -> Msg \cup {NULL}] /\ pend' \in [Task -> Options \cup {NULL}]
         /\ pend_info' \in [Task -> (SUBSET Flag) \cup {NULL}]
         /\ \A u \in Task :
              \/ pend'[u] = pend[u] /\ pend_info'[u] = pend_info[u] /\ msg'[u] = msg[u]
              \/ u = g_active_task /\ pc[u] = "pend_end" /\ pc'[u] = "user"
<1>1. ObjTypeOK /\ g_active_task \in Task
  BY TypeParts DEF IpcInv, CoreTypeOK
<1>2. CASE UNCHANGED <<pend, pend_info, msg>>
  BY <1>1, <1>2 DEF ObjTypeOK
<1>3. CASE /\ pc[g_active_task] = "pend_end" /\ pc'[g_active_task] = "user"
           /\ pend' = [pend EXCEPT ![g_active_task] = NULL]
           /\ pend_info' = [pend_info EXCEPT ![g_active_task] = NULL]
           /\ msg' = [msg EXCEPT ![g_active_task] = NULL]
  <2>1. /\ msg' \in [Task -> Msg \cup {NULL}] /\ pend' \in [Task -> Options \cup {NULL}]
        /\ pend_info' \in [Task -> (SUBSET Flag) \cup {NULL}]
    BY <1>1, <1>3 DEF ObjTypeOK
  <2>2. \A u \in Task \ {g_active_task} :
           pend'[u] = pend[u] /\ pend_info'[u] = pend_info[u] /\ msg'[u] = msg[u]
    BY <1>1, <1>3 DEF ObjTypeOK
  <2> QED
    BY <1>3, <2>1, <2>2
<1> QED
  BY <1>2, <1>3 DEF CallReturns

LEMMA CoreNext_Ipc ==
  ASSUME IpcInv, CoreNext, CallReturns, UNCHANGED <<objVars, ring, cur_num, freesize, flags>>
  PROVE  IpcInv'
<1>1. CoreInv /\ CallOK /\ ResultOK
  BY DEF IpcInv
<1>2. CoreInv'
  BY <1>1, CoreNext_Inv
<1>3. CallOK' /\ (CoreMove \/ \E t \in Task : Returning(t))
  BY <1>1, CoreNext_Call
<1>4. /\ crit' \in {crit, NoCrit, ErrCrit, [op |-> "tick", obj |-> NoObj]}
      /\ crit = NoCrit \/ crit.op = "tick"
  BY <1>1, CoreNoWaiter
<1>5. crit'.op \in {"none", "tick", "k_err_proc"} /\ crit.op \in {"none", "tick"}
  BY <1>4 DEF NoCrit, ErrCrit
<1>6. TypeOK'
  <2>1. ObjTypeOK'
    BY ReturnParts, TypeParts DEF IpcInv, ObjTypeOK, objVars
  <2> QED
    BY <1>2, <1>5, <2>1, TypeParts DEF CoreInv, CritTypeOK
<1>7. QueueCountOK'
  BY CountKept
<1>8. LoopOK'
  BY <1>5 DEF LoopOK, Loops
<1>9. WaitersOK'
  BY <1>1, <1>5, CoreNext_Lists, WaitersLess DEF objVars
<1>10. KindOK'
  BY DEF IpcInv, KindOK, objVars
<1>11. ResultOK'
  <2> SUFFICES ASSUME NEW u \in Task PROVE ResultOf(u)'
    BY DEF ResultOK
  <2>1. ResultOf(u) /\ obj_kind' = obj_kind
    BY <1>1 DEF ResultOK, objVars
  <2>2. CASE pend'[u] = pend[u] /\ pend_info'[u] = pend_info[u] /\ msg'[u] = msg[u]
    <3>1. WaitOf(u)' = WaitOf(u) \/ WaitOf(u)' \in {<<"out">>, <<"dead">>}
      BY <1>3 DEF CoreMove, Returning
    <3> QED
      BY <2>1, <2>2, <3>1, ResultKept
  <2>3. CASE u = g_active_task /\ pc[u] = "pend_end" /\ pc'[u] = "user"
    <3>1. \E t \in Task : Returning(t)
      BY <1>1, <2>3, OnlyReturns, EndProc_Call
    <3>2. WaitOf(u)' = <<"out">>
      BY <2>3, <3>1 DEF Returning
    <3> QED
      BY <2>1, <3>2, ResultKept
  <2> QED
    BY <2>2, <2>3, ReturnParts
<1> QED
  BY <1>2, <1>3, <1>6, <1>7, <1>8, <1>9, <1>10, <1>11 DEF IpcInv

\* A turn of a loop that ends a wait.  For event_set the rest of the loop and the flags change
\* too, in the way its own lemma says.
LEMMA Turn_Ipc ==
  ASSUME IpcInv, NEW t \in Task, unpend(t), crit.op \in {"tick"} \cup Loops,
         NEW b \in BlkState, blk_state' = [blk_state EXCEPT ![t] = b],
         UNCHANGED <<prio, suspend_count, rrVars, g_tick_count, cpuVars, callVars>>,
         UNCHANGED <<objVars, ring, cur_num, freesize, pend>>,
         crit.op # "event_set" => crit' = crit /\ flags' = flags,
         crit.op = "event_set" =>
           /\ t = Head(crit.iter) /\ crit.iter # << >> /\ flags' \in [Obj -> SUBSET Flag]
           /\ crit' = [crit EXCEPT !.iter = Tail(@)]
           /\ \A o \in Obj : obj_kind[o] # "event" => flags'[o] = flags[o],
         msg' \in [Task -> Msg \cup {NULL}], pend_info' \in [Task -> (SUBSET Flag) \cup {NULL}],
         \A u \in Task \ {t} : msg'[u] = msg[u] /\ pend_info'[u] = pend_info[u],
         b = "BLK_FINISH" => IF obj_kind[blk_obj[t]] = "event" THEN pend_info'[t] \in SUBSET Flag
                                                               ELSE msg'[t] \in Msg
  PROVE  IpcInv'
<1>1. /\ CoreInv /\ CallOK /\ ResultOK /\ ObjTypeOK /\ LoopOK /\ KindOK /\ WaitersOK /\ CoreTypeOK
      /\ crit.op = "event_set" => crit.iter \in Seq(Task) /\ IsInjective(crit.iter)
  BY TypeParts DEF IpcInv, LoopOK
<1>2. /\ crit # NoCrit /\ crit' # NoCrit /\ crit'.op = crit.op /\ crit'.obj = crit.obj
      /\ crit.op = "event_set" =>
           /\ crit'.flags = crit.flags /\ crit'.iter = Tail(crit.iter)
           /\ crit' \in [op : {"event_set"}, obj : Obj, flags : SUBSET Flag, iter : Seq(Task)]
  <2>1. CASE crit.op # "event_set"
    BY <2>1 DEF NoCrit, Loops
  <2>2. CASE crit.op = "event_set"
    <3>1. PICK ob \in Obj, f \in SUBSET Flag, s \in Seq(Task) :
             crit = [op |-> "event_set", obj |-> ob, flags |-> f, iter |-> s]
      BY <1>1, <2>2 DEF LoopOK
    <3>2. s # << >> /\ crit' = [op |-> "event_set", obj |-> ob, flags |-> f, iter |-> Tail(s)]
      BY <2>2, <3>1
    <3>3. Tail(s) \in Seq(Task)
      BY <3>2
    <3> QED
      BY <3>1, <3>2, <3>3 DEF NoCrit
  <2> QED
    BY <2>1, <2>2
<1>3. PICK o \in Obj : o = blk_obj[t]
  BY <1>1, <1>2, WakeInLoop
<1>4. /\ CoreInv' /\ CallOK'
      /\ \A x \in Obj : ToSet(blk_list'[x]) = ToSet(blk_list[x]) \ {t}
      /\ \A u \in Task \ {t} : WaitOf(u)' = WaitOf(u)
      /\ WaitOf(t) = <<"waiting", o>>
      /\ b = "BLK_FINISH"  => WaitOf(t)' = <<"granted", o>>
      /\ b = "BLK_TIMEOUT" => WaitOf(t)' = <<"expired", o>>
      /\ b = "BLK_DEL"     => WaitOf(t)' = <<"cancelled", o>>
  BY <1>1, <1>2, <1>3, WakeInLoop
<1>5. \A x \in Obj : blk_list[x] = << >> => blk_list'[x] = << >>
  BY <1>1, <1>4, FewerWaiters
<1>6. TypeOK'
  <2>1. ObjTypeOK'
    BY <1>1 DEF ObjTypeOK, objVars, Loops
  <2>2. CritTypeOK'
    BY <1>2, TypeParts DEF IpcInv, CritTypeOK
  <2> QED
    BY <1>4, <2>1, <2>2, TypeParts DEF CoreInv
<1>7. QueueCountOK'
  BY CountKept
<1>8. LoopOK'
  <2>1. CASE crit.op # "event_set"
    BY <1>1, <2>1 DEF LoopOK, Loops, objVars, cpuVars, callVars
  <2>2. CASE crit.op = "event_set"
    <3>1. PICK s \in Seq(Task) : s = crit.iter /\ s # << >> /\ IsInjective(s) /\ t = Head(s)
      BY <1>1, <2>2
    <3>2. Tail(s) \in Seq(Task) /\ IsInjective(Tail(s)) /\ ToSet(Tail(s)) = ToSet(s) \ {t}
      BY <3>1, TailProperties
    <3>3. crit.obj \in Obj /\ ToSet(s) \subseteq ToSet(blk_list[crit.obj])
      BY <1>1, <2>2, <3>1 DEF LoopOK, Loops
    <3>4. ToSet(Tail(s)) \subseteq ToSet(blk_list'[crit.obj])
      BY <1>4, <3>2, <3>3
    <3> QED
      BY <1>1, <1>2, <2>2, <3>1, <3>2, <3>4 DEF LoopOK, Loops, objVars, cpuVars, callVars
  <2> QED
    BY <2>1, <2>2
<1>9. WaitersOK'
  BY <1>5, WaitersLess DEF objVars
<1>10. KindOK'
  BY <1>1 DEF KindOK, objVars
<1>11. ResultOK'
  <2> SUFFICES ASSUME NEW u \in Task PROVE ResultOf(u)'
    BY DEF ResultOK
  <2>1. ResultOf(u) /\ obj_kind' = obj_kind
    BY <1>1 DEF ResultOK, objVars
  <2>2. CASE u # t
    BY <1>4, <2>1, <2>2, ResultKept
  <2>3. CASE u = t /\ b # "BLK_FINISH"
    BY <1>4, <2>1, <2>3, ResultKept DEF BlkState
  <2>4. CASE u = t /\ b = "BLK_FINISH"
    <3>1. \A x : /\ WaitOf(t)' # <<"waiting", x>>
                 /\ WaitOf(t)' = <<"granted", x>> => x = o
      BY <1>4, <2>4
    <3> QED
      BY <1>3, <2>1, <2>4, <3>1 DEF ResultOf
  <2> QED
    BY <2>2, <2>3, <2>4
<1> QED
  BY <1>4, <1>6, <1>7, <1>8, <1>9, <1>10, <1>11 DEF IpcInv

LEMMA Timeout_Ipc ==
  ASSUME IpcInv, NEW t \in Task, tick_pend_timeout(t), UNCHANGED crit, CallReturns,
         UNCHANGED <<objVars, ring, cur_num, freesize, flags>>
  PROVE  IpcInv' /\ ret' = NoRet /\ UNCHANGED <<msg, pend, pend_info>>
<1>1. /\ unpend(t) /\ crit.op = "tick" /\ blk_state' = [blk_state EXCEPT ![t] = "BLK_TIMEOUT"]
      /\ UNCHANGED <<prio, suspend_count, rrVars, g_tick_count, cpuVars, callVars>>
  BY DEF tick_pend_timeout
<1>2. UNCHANGED <<msg, pend, pend_info>> /\ ret' = NoRet
  BY <1>1 DEF CallReturns, callVars
<1>3. "BLK_TIMEOUT" \in BlkState /\ ObjTypeOK
  BY TypeParts DEF BlkState, IpcInv
<1>4. IpcInv'
  BY <1>1, <1>2, <1>3, Turn_Ipc DEF ObjTypeOK
<1> QED
  BY <1>2, <1>4

LEMMA obj_del_turn_Ipc ==
  ASSUME IpcInv, NEW t \in Task, obj_del_turn(t), UNCHANGED <<msgVars, eventVars>>
  PROVE  IpcInv'
<1>1. /\ unpend(t) /\ crit.op = "obj_del" /\ blk_state' = [blk_state EXCEPT ![t] = "BLK_DEL"]
      /\ UNCHANGED <<prio, suspend_count, rrVars, g_tick_count, cpuVars, callVars, crit, objVars>>
  BY DEF obj_del_turn, pend_task_rm
<1>2. UNCHANGED <<ring, cur_num, freesize, msg, flags, pend, pend_info>>
  BY DEF msgVars, eventVars
<1>3. "BLK_DEL" \in BlkState /\ ObjTypeOK
  BY TypeParts DEF BlkState, IpcInv
<1> QED
  BY <1>1, <1>2, <1>3, Turn_Ipc DEF ObjTypeOK, Loops

LEMMA all_send_turn_Ipc ==
  ASSUME IpcInv, NEW t \in Task, all_send_turn(t), UNCHANGED eventVars
  PROVE  IpcInv'
<1>1. /\ unpend(t) /\ crit.op = "all_send" /\ blk_state' = [blk_state EXCEPT ![t] = "BLK_FINISH"]
      /\ msg' = [msg EXCEPT ![t] = crit.msg]
      /\ blk_list[crit.obj] # << >> /\ t = Head(blk_list[crit.obj])
      /\ UNCHANGED <<prio, suspend_count, rrVars, g_tick_count, cpuVars, callVars, crit, objVars,
                     ring, cur_num, freesize>>
  BY DEF all_send_turn, task_msg_recv, pend_task_wakeup
<1>2. UNCHANGED <<flags, pend, pend_info>>
  BY DEF eventVars
<1>3. /\ "BLK_FINISH" \in BlkState /\ ObjTypeOK /\ crit.msg \in Msg
      /\ crit.obj \in Obj /\ obj_kind[crit.obj] = "queue" /\ CoreInv /\ CallOK
  BY <1>1, TypeParts DEF BlkState, IpcInv, LoopOK, Loops
<1>4. blk_obj[t] = crit.obj
  BY <1>1, <1>3, FirstOnList, OnList
<1>5. /\ msg' \in [Task -> Msg \cup {NULL}] /\ msg'[t] \in Msg
      /\ \A u \in Task \ {t} : msg'[u] = msg[u]
  BY <1>1, <1>3 DEF ObjTypeOK
<1> QED
  BY <1>1, <1>2, <1>3, <1>4, <1>5, Turn_Ipc DEF ObjTypeOK, Loops

\* The first of the waiters event_set has still to look at.
LEMMA FirstInTurn ==
  ASSUME IpcInv, crit.op = "event_set", crit.iter # << >>, NEW t, t = Head(crit.iter)
  PROVE  /\ t \in Task /\ crit.obj \in Obj /\ WaitOf(t) = <<"waiting", crit.obj>> /\ pend[t] \in Options
         /\ t \in ToSet(crit.iter) /\ Tail(crit.iter) \in Seq(Task) /\ t \notin ToSet(Tail(crit.iter))
         /\ ToSet(crit.iter) = ToSet(Tail(crit.iter)) \cup {t} /\ IsInjective(Tail(crit.iter))
<1>1. /\ crit.iter \in Seq(Task) /\ IsInjective(crit.iter) /\ crit.obj \in Obj
      /\ ToSet(crit.iter) \subseteq ToSet(blk_list[crit.obj]) /\ obj_kind[crit.obj] = "event"
      /\ CoreInv /\ CallOK /\ ResultOK
  BY DEF IpcInv, LoopOK
<1>2. /\ t \in Task /\ t \in ToSet(crit.iter) /\ Tail(crit.iter) \in Seq(Task)
      /\ t \notin ToSet(Tail(crit.iter)) /\ ToSet(crit.iter) = ToSet(Tail(crit.iter)) \cup {t}
      /\ IsInjective(Tail(crit.iter))
  BY <1>1, TailProperties
<1>3. WaitOf(t) = <<"waiting", crit.obj>>
  BY <1>1, <1>2, OnList
<1>4. pend[t] \in Options
  BY <1>1, <1>2, <1>3 DEF ResultOK, ResultOf
<1> QED
  BY <1>1, <1>2, <1>3, <1>4

LEMMA event_set_turn_Ipc ==
  ASSUME IpcInv, NEW t \in Task, event_set_turn(t), UNCHANGED msgVars
  PROVE  IpcInv'
<1>1. /\ crit.op = "event_set" /\ crit.iter # << >> /\ t = Head(crit.iter)
      /\ crit' = [crit EXCEPT !.iter = Tail(@)]
      /\ UNCHANGED <<rrVars, g_tick_count, cpuVars, callVars, objVars, ring, cur_num, freesize, msg>>
  BY DEF event_set_turn, msgVars
<1>2. /\ ObjTypeOK /\ CoreInv /\ CallOK /\ ResultOK /\ KindOK
      /\ crit \in [op : {"event_set"}, obj : Obj, flags : SUBSET Flag, iter : Seq(Task)]
      /\ obj_kind[crit.obj] = "event" /\ LoopOK
  BY <1>1, TypeParts DEF IpcInv, LoopOK
<1>3. WaitOf(t) = <<"waiting", crit.obj>> /\ blk_obj[t] = crit.obj
  BY <1>1, <1>2, FirstInTurn, OnList
<1>4. CASE /\ pend_info' = [pend_info EXCEPT ![t] = crit.flags] /\ pend_task_wakeup(t)
           /\ flags' = [flags EXCEPT ![crit.obj] = @ \ Cleared(pend[t])]
           /\ UNCHANGED <<prio, suspend_count, pend>>
  <2>1. unpend(t) /\ blk_state' = [blk_state EXCEPT ![t] = "BLK_FINISH"] /\ "BLK_FINISH" \in BlkState
    BY <1>4 DEF pend_task_wakeup, BlkState
  <2>2. /\ pend_info' \in [Task -> (SUBSET Flag) \cup {NULL}] /\ pend_info'[t] \in SUBSET Flag
        /\ \A u \in Task \ {t} : pend_info'[u] = pend_info[u]
    BY <1>2, <1>4 DEF ObjTypeOK
  <2>3. /\ flags' \in [Obj -> SUBSET Flag]
        /\ \A o \in Obj : obj_kind[o] # "event" => flags'[o] = flags[o]
    BY <1>2, <1>4 DEF ObjTypeOK
  <2> QED
    BY <1>1, <1>2, <1>3, <1>4, <2>1, <2>2, <2>3, Turn_Ipc, ZenonT(60) DEF ObjTypeOK, Loops
<1>5. CASE UNCHANGED <<tcbVars, queueVars, eventVars>>
  <2>1. PICK o \in Obj, f \in SUBSET Flag, s \in Seq(Task) :
           crit = [op |-> "event_set", obj |-> o, flags |-> f, iter |-> s]
    BY <1>2
  <2>2. crit' = [op |-> "event_set", obj |-> o, flags |-> f, iter |-> Tail(s)] /\ s # << >>
    BY <1>1, <2>1
  <2>3. Tail(s) \in Seq(Task) /\ IsInjective(Tail(s)) /\ ToSet(Tail(s)) \subseteq ToSet(s)
    BY <1>1, <2>1, <2>2, FirstInTurn
  <2>4. CoreInv'
    BY <1>1, <1>2, <1>5, <2>2, EnterLoop DEF NoCrit
  <2>5. CallOK' /\ \A u \in Task : WaitOf(u)' = WaitOf(u)
    BY <1>1, <1>2, <1>5, WaitsStay
  <2>6. TypeOK'
    BY <1>1, <1>2, <1>5, <2>2, <2>4, TypeParts DEF CoreInv, ObjTypeOK, CritTypeOK, objVars, eventVars
  <2>7. LoopOK'
    BY <1>1, <1>2, <1>5, <2>1, <2>2, <2>3 DEF LoopOK, Loops, objVars, queueVars, cpuVars, callVars
  <2>8. WaitersOK'
    BY <1>1, <1>5, WaitersLess DEF objVars, queueVars
  <2>9. KindOK'
    BY <1>1, <1>2, <1>5 DEF KindOK, objVars, eventVars
  <2>10. ResultOK'
    BY <1>1, <1>2, <1>5, <2>5, ResultsKept DEF objVars, eventVars
  <2>11. QueueCountOK'
    BY <1>1, CountKept
  <2> QED
    BY <2>4, <2>5, <2>6, <2>7, <2>8, <2>9, <2>10, <2>11 DEF IpcInv
<1> QED
  BY <1>4, <1>5 DEF event_set_turn

-----------------------------------------------------------------------------
(***************************************************************************)
(* The ends of the loops, and the services.                                *)
(***************************************************************************)
\* Only the data of one object change.
LEMMA CountAt ==
  ASSUME IpcInv, NEW o \in Obj, obj_kind' = obj_kind,
         \A x \in Obj \ {o} : /\ obj_type'[x] = obj_type[x] /\ ring'[x] = ring[x]
                              /\ cur_num'[x] = cur_num[x] /\ freesize'[x] = freesize[x],
         obj_type'[o] /\ obj_kind[o] # "event" =>
           /\ cur_num'[o] = Len(ring'[o])
           /\ obj_kind[o] = "buf_queue" => Takes(ring'[o], BufSize - freesize'[o])
  PROVE  QueueCountOK'
<1> SUFFICES ASSUME NEW x \in Obj, obj_type'[x], obj_kind[x] # "event"
             PROVE  /\ cur_num'[x] = Len(ring'[x])
                    /\ obj_kind[x] = "buf_queue" => Takes(ring'[x], BufSize - freesize'[x])
  BY DEF QueueCountOK
<1>1. CASE x # o
  BY <1>1 DEF IpcInv, QueueCountOK
<1> QED
  BY <1>1

\* A loop ends: a deleted object has no waiters any more.
LEMMA LoopDone_Ipc ==
  ASSUME IpcInv, crit.op \in Loops, LoopDone, crit.op = "obj_del" => blk_list[crit.obj] = << >>,
         \A o \in Obj : ring'[o] \in {ring[o], << >>}
  PROVE  /\ CoreInv' /\ CallOK' /\ LoopOK' /\ WaitersOK' /\ CritTypeOK'
         /\ \A t \in Task : WaitOf(t)' = WaitOf(t)
         /\ UNCHANGED <<blk_list, obj_type, obj_kind>>
<1>1. /\ crit' = NoCrit /\ RHINO_CRITICAL_EXIT_SCHED
      /\ UNCHANGED <<tcbVars, rrVars, queueVars, g_tick_count, cpuVars, objVars>>
  BY DEF LoopDone
<1>2. CoreInv' /\ CallOK' /\ \A t \in Task : WaitOf(t)' = WaitOf(t)
  BY <1>1, LoopExit DEF IpcInv, LoopOK
<1>3. LoopOK' /\ CritTypeOK'
  BY <1>1 DEF NoCrit, LoopOK, Loops, CritTypeOK
<1>4. UNCHANGED <<blk_list, obj_type, obj_kind>>
  BY <1>1 DEF queueVars, objVars
<1>5. WaitersOK'
  BY <1>4 DEF IpcInv, WaitersOK
<1> QED
  BY <1>2, <1>3, <1>4, <1>5

LEMMA queue_del_done_Ipc ==
  ASSUME IpcInv, queue_del_done, UNCHANGED eventVars PROVE IpcInv'
<1>1. PICK o \in Obj : o = crit.obj /\ crit.op = "obj_del" /\ ~obj_type[o]
  BY DEF queue_del_done, obj_del_done, IpcInv, LoopOK, Loops
<1>2. /\ LoopDone /\ blk_list[crit.obj] = << >> /\ obj_kind[o] # "event"
      /\ ring' = [ring EXCEPT ![o] = << >>] /\ freesize' = [freesize EXCEPT ![o] = BufSize]
      /\ UNCHANGED <<cur_num, msg, flags, pend, pend_info>>
  BY <1>1 DEF queue_del_done, obj_del_done, ring_reset, eventVars
<1>3. ObjTypeOK /\ KindOK /\ ResultOK
  BY TypeParts DEF IpcInv
<1>4. \A x \in Obj : ring'[x] \in {ring[x], << >>}
  BY <1>2, <1>3 DEF ObjTypeOK
<1>5. /\ CoreInv' /\ CallOK' /\ LoopOK' /\ WaitersOK' /\ CritTypeOK'
      /\ \A t \in Task : WaitOf(t)' = WaitOf(t)
      /\ UNCHANGED <<blk_list, obj_type, obj_kind>>
  BY <1>1, <1>2, <1>4, LoopDone_Ipc DEF Loops
<1>6. TypeOK'
  <2>1. << >> \in Seq(Msg) /\ BufSize \in 0 .. BufSize
    BY MsgAssumption
  <2>2. ObjTypeOK'
    BY <1>2, <1>3, <1>5, <2>1 DEF ObjTypeOK
  <2> QED
    BY <1>5, <2>2, TypeParts DEF CoreInv
<1>7. QueueCountOK'
  BY <1>1, <1>2, <1>3, <1>5, CountAt DEF ObjTypeOK
<1>8. KindOK'
  BY <1>2, <1>3, <1>4, <1>5 DEF KindOK
<1>9. ResultOK'
  BY <1>2, <1>3, <1>5, ResultsKept
<1> QED
  BY <1>5, <1>6, <1>7, <1>8, <1>9 DEF IpcInv

LEMMA event_del_done_Ipc ==
  ASSUME IpcInv, event_del_done, UNCHANGED msgVars PROVE IpcInv'
<1>1. PICK o \in Obj : o = crit.obj /\ crit.op = "obj_del" /\ ~obj_type[o]
  BY DEF event_del_done, obj_del_done, IpcInv, LoopOK, Loops
<1>2. /\ LoopDone /\ blk_list[crit.obj] = << >> /\ obj_kind[o] = "event"
      /\ flags' = [flags EXCEPT ![o] = {}]
      /\ UNCHANGED <<ring, freesize, cur_num, msg, pend, pend_info>>
  BY <1>1 DEF event_del_done, obj_del_done, msgVars
<1>3. ObjTypeOK /\ KindOK /\ ResultOK
  BY TypeParts DEF IpcInv
<1>4. /\ CoreInv' /\ CallOK' /\ LoopOK' /\ WaitersOK' /\ CritTypeOK'
      /\ \A t \in Task : WaitOf(t)' = WaitOf(t)
      /\ UNCHANGED <<blk_list, obj_type, obj_kind>>
  BY <1>1, <1>2, LoopDone_Ipc DEF Loops
<1>5. TypeOK'
  <2>1. ObjTypeOK'
    BY <1>2, <1>3, <1>4 DEF ObjTypeOK
  <2> QED
    BY <1>4, <2>1, TypeParts DEF CoreInv
<1>6. QueueCountOK'
  BY <1>2, <1>4, CountKept DEF objVars
<1>7. KindOK'
  BY <1>2, <1>3, <1>4 DEF KindOK, ObjTypeOK
<1>8. ResultOK'
  BY <1>2, <1>3, <1>4, ResultsKept
<1> QED
  BY <1>4, <1>5, <1>6, <1>7, <1>8 DEF IpcInv

LEMMA LoopEnd_Ipc ==
  ASSUME IpcInv, crit.op \in {"all_send", "event_set"}, LoopDone, UNCHANGED <<msgVars, eventVars>>
  PROVE  IpcInv'
<1>1. ObjTypeOK /\ KindOK /\ ResultOK
  BY TypeParts DEF IpcInv
<1>2. /\ CoreInv' /\ CallOK' /\ LoopOK' /\ WaitersOK' /\ CritTypeOK'
      /\ \A t \in Task : WaitOf(t)' = WaitOf(t)
      /\ UNCHANGED <<blk_list, obj_type, obj_kind>>
  BY LoopDone_Ipc DEF Loops, msgVars
<1>3. TypeOK'
  BY <1>1, <1>2, TypeParts DEF CoreInv, ObjTypeOK, msgVars, eventVars
<1>4. QueueCountOK'
  BY <1>2, CountKept DEF objVars, msgVars
<1>5. KindOK'
  BY <1>1, <1>2 DEF KindOK, msgVars, eventVars
<1>6. ResultOK'
  BY <1>1, <1>2, ResultsKept DEF msgVars, eventVars
<1> QED
  BY <1>2, <1>3, <1>4, <1>5, <1>6 DEF IpcInv

\* A call that is over at once and leaves tasks and waiters alone: only the data of the
\* object it is made on change.
LEMMA DataStep ==
  ASSUME IpcInv, crit = NoCrit, UNCHANGED <<coreVars, obj_kind, msg, pend, pend_info>>, ObjTypeOK',
         NEW o \in Obj, obj_type'[o],
         \A x \in Obj \ {o} : /\ obj_type'[x] = obj_type[x] /\ ring'[x] = ring[x]
                              /\ cur_num'[x] = cur_num[x] /\ freesize'[x] = freesize[x]
                              /\ flags'[x] = flags[x],
         blk_list[o] # << >> => ring'[o] = << >>,
         IF obj_kind[o] = "event"
         THEN ring'[o] = ring[o]
         ELSE /\ flags'[o] = flags[o] /\ cur_num'[o] = Len(ring'[o])
              /\ obj_kind[o] = "buf_queue" => Takes(ring'[o], BufSize - freesize'[o])
  PROVE  IpcInv' /\ \A t \in Task : WaitOf(t)' = WaitOf(t)
<1>1. CoreInv /\ CallOK /\ ResultOK /\ WaitersOK /\ KindOK
  BY DEF IpcInv
<1>2. CoreInv' /\ crit' = NoCrit /\ blk_list' = blk_list
  BY <1>1, CoreKept
<1>3. CallOK' /\ \A t \in Task : WaitOf(t)' = WaitOf(t)
  BY <1>1, WaitsStay DEF coreVars
<1>4. TypeOK'
  BY <1>2, TypeParts DEF CoreInv, CritTypeOK, NoCrit
<1>5. QueueCountOK'
  BY CountAt
<1>6. LoopOK'
  BY <1>2 DEF NoCrit, LoopOK, Loops
<1>7. WaitersOK'
  <2> SUFFICES ASSUME NEW x \in Obj, blk_list[x] # << >> PROVE ring'[x] = << >> /\ obj_type'[x]
    BY <1>2 DEF WaitersOK
  <2>1. CASE x # o
    BY <1>1, <2>1 DEF WaitersOK, NoCrit
  <2> QED
    BY <2>1
<1>8. KindOK'
  <2> SUFFICES ASSUME NEW x \in Obj PROVE IF obj_kind[x] = "event" THEN ring'[x] = << >> ELSE flags'[x] = {}
    BY DEF KindOK
  <2>1. CASE x # o
    BY <1>1, <2>1 DEF KindOK
  <2>2. CASE x = o
    BY <1>1, <2>2 DEF KindOK
  <2> QED
    BY <2>1, <2>2
<1>9. ResultOK'
  BY <1>1, <1>3, ResultsKept
<1> QED
  BY <1>2, <1>3, <1>4, <1>5, <1>6, <1>7, <1>8, <1>9 DEF IpcInv

\* A queue is emptied, when it is created or flushed.
LEMMA EmptyStep ==
  ASSUME IpcInv, crit = NoCrit, UNCHANGED <<coreVars, obj_kind, msg, pend, pend_info, flags>>,
         NEW o \in Obj, obj_kind[o] # "event", obj_type' \in [Obj -> BOOLEAN], obj_type'[o],
         \A x \in Obj \ {o} : obj_type'[x] = obj_type[x],
         ring_reset(o), cur_num' = [cur_num EXCEPT ![o] = 0]
  PROVE  IpcInv' /\ \A t \in Task : WaitOf(t)' = WaitOf(t)
<1>1. /\ ring' = [ring EXCEPT ![o] = << >>] /\ freesize' = [freesize EXCEPT ![o] = BufSize]
      /\ ObjTypeOK
  BY TypeParts DEF ring_reset, IpcInv
<1>2. << >> \in Seq(Msg) /\ BufSize \in 0 .. BufSize /\ BufSize \in Nat /\ MsgNum \in Nat
  BY MsgAssumption
<1>3. /\ ring'[o] = << >> /\ freesize'[o] = BufSize /\ cur_num'[o] = 0
      /\ \A x \in Obj \ {o} : ring'[x] = ring[x] /\ cur_num'[x] = cur_num[x] /\ freesize'[x] = freesize[x]
  BY <1>1 DEF ObjTypeOK
<1>4. ObjTypeOK'
  <2>1. ring' \in [Obj -> Seq(Msg)] /\ cur_num' \in [Obj -> Nat] /\ freesize' \in [Obj -> 0 .. BufSize]
    BY <1>1, <1>2 DEF ObjTypeOK
  <2>2. \A x \in Obj : obj_kind[x] = "queue" => cur_num'[x] <= MsgNum
    BY <1>1, <1>2, <1>3 DEF ObjTypeOK
  <2> QED
    BY <1>1, <2>1, <2>2 DEF ObjTypeOK
<1>5. Takes(ring'[o], BufSize - freesize'[o])
  <2>1. BufSize - freesize'[o] = 0
    BY <1>2, <1>3
  <2> QED
    BY <1>3, <2>1, TakesNone
<1>6. cur_num'[o] = Len(ring'[o])
  BY <1>3
<1> QED
  BY <1>3, <1>4, <1>5, <1>6, DataStep

\* Nobody waits for an object that is not in use.
LEMMA Create_Ipc ==
  ASSUME IpcInv, crit = NoCrit, NEW o \in Obj, NEW kind, obj_create(o, kind),
         UNCHANGED <<msg, pend, pend_info>>,
         IF kind = "event"
         THEN UNCHANGED <<ring, cur_num, freesize>> /\ \E f \in SUBSET Flag : flags' = [flags EXCEPT ![o] = f]
         ELSE ring_reset(o) /\ cur_num' = [cur_num EXCEPT ![o] = 0] /\ UNCHANGED flags
  PROVE  IpcInv' /\ (\A t \in Task : WaitOf(t)' = WaitOf(t)) /\ blk_list[o] = << >> /\ crit' = crit
<1>1. ObjTypeOK /\ CoreTypeOK /\ obj_kind[o] = kind /\ ~obj_type[o]
  BY TypeParts DEF IpcInv, obj_create
<1>2. blk_list[o] = << >>
  BY <1>1 DEF IpcInv, WaitersOK, NoCrit
<1>3. UNCHANGED <<coreVars, obj_kind>> /\ obj_type' = [obj_type EXCEPT ![o] = TRUE]
  <2>1. blk_list \in [Obj -> Seq(Task)]
    BY <1>1 DEF CoreTypeOK
  <2>2. blk_list' = blk_list
    BY <1>2, <2>1 DEF obj_create
  <2> QED
    BY <2>2 DEF obj_create, coreVars, queueVars
<1>4. obj_type' \in [Obj -> BOOLEAN] /\ obj_type'[o] /\ \A x \in Obj \ {o} : obj_type'[x] = obj_type[x]
  BY <1>1, <1>3 DEF ObjTypeOK
<1>5. crit' = crit
  BY <1>3 DEF coreVars
<1>6. CASE kind = "event"
  <2>1. PICK f \in SUBSET Flag : flags' = [flags EXCEPT ![o] = f]
    BY <1>6
  <2>2. UNCHANGED <<ring, cur_num, freesize>>
    BY <1>6
  <2>3. flags' \in [Obj -> SUBSET Flag] /\ \A x \in Obj \ {o} : flags'[x] = flags[x]
    BY <1>1, <2>1 DEF ObjTypeOK
  <2>4. ObjTypeOK'
    BY <1>1, <1>3, <1>4, <2>2, <2>3 DEF ObjTypeOK
  <2> QED
    BY <1>1, <1>2, <1>3, <1>4, <1>5, <1>6, <2>2, <2>3, <2>4, DataStep
<1>7. CASE kind # "event"
  BY <1>1, <1>2, <1>3, <1>4, <1>5, <1>7, EmptyStep
<1> QED
  BY <1>6, <1>7

\* A message is queued where nobody waits and there is room for it.
LEMMA Push_Ipc ==
  ASSUME IpcInv, crit = NoCrit, UNCHANGED <<coreVars, objVars, msg, eventVars>>,
         NEW o \in Obj, NEW m \in Msg, obj_type[o], blk_list[o] = << >>, Push(o, m),
         \/ obj_kind[o] = "queue" /\ ~queue_is_full(o)
         \/ obj_kind[o] = "buf_queue" /\ freesize[o] >= Bytes[m]
  PROVE  IpcInv' /\ \A t \in Task : WaitOf(t)' = WaitOf(t)
<1>1. /\ ring' = [ring EXCEPT ![o] = Append(@, m)] /\ cur_num' = [cur_num EXCEPT ![o] = @ + 1]
      /\ freesize' = [freesize EXCEPT ![o] = IF obj_kind[o] = "queue" THEN @ ELSE @ - Bytes[m]]
      /\ ObjTypeOK /\ QueueCountOK
      /\ UNCHANGED <<obj_kind, obj_type, flags, pend, pend_info>>
  BY TypeParts DEF Push, IpcInv, objVars, eventVars
<1>2. /\ ring'[o] = Append(ring[o], m) /\ cur_num'[o] = cur_num[o] + 1
      /\ freesize'[o] = IF obj_kind[o] = "queue" THEN freesize[o] ELSE freesize[o] - Bytes[m]
      /\ \A x \in Obj \ {o} : ring'[x] = ring[x] /\ cur_num'[x] = cur_num[x] /\ freesize'[x] = freesize[x]
  BY <1>1 DEF ObjTypeOK
<1>3. PICK s \in Seq(Msg), n \in Nat, f \in 0 .. BufSize, b \in Nat :
         s = ring[o] /\ n = cur_num[o] /\ f = freesize[o] /\ b = Bytes[m]
  BY <1>1, MsgAssumption DEF ObjTypeOK
<1>4. BufSize \in Nat /\ MsgNum \in Nat
  BY MsgAssumption
<1>5. cur_num'[o] = Len(ring'[o])
  <2>1. n = Len(s)
    BY <1>1, <1>3 DEF QueueCountOK
  <2>2. Len(Append(s, m)) = Len(s) + 1
    OBVIOUS
  <2> QED
    BY <1>2, <1>3, <2>1, <2>2
<1>6. CASE obj_kind[o] = "queue"
  <2>1. freesize'[o] = f /\ n + 1 <= MsgNum
    BY <1>2, <1>3, <1>4, <1>6 DEF queue_is_full
  <2>2. ObjTypeOK'
    <3>1. /\ ring' \in [Obj -> Seq(Msg)] /\ cur_num' \in [Obj -> Nat] /\ freesize' \in [Obj -> 0 .. BufSize]
      <4>1. Append(s, m) \in Seq(Msg) /\ n + 1 \in Nat
        OBVIOUS
      <4> QED
        BY <1>1, <1>3, <1>6, <4>1 DEF ObjTypeOK
    <3>2. \A x \in Obj : obj_kind[x] = "queue" => cur_num'[x] <= MsgNum
      BY <1>1, <1>2, <1>3, <2>1 DEF ObjTypeOK
    <3> QED
      BY <1>1, <3>1, <3>2 DEF ObjTypeOK
  <2> QED
    BY <1>1, <1>2, <1>5, <1>6, <2>2, DataStep
<1>7. CASE obj_kind[o] = "buf_queue" /\ freesize[o] >= Bytes[m]
  <2>1. freesize'[o] = f - b /\ f - b \in 0 .. BufSize /\ f >= b
    BY <1>2, <1>3, <1>4, <1>7
  <2>2. ObjTypeOK'
    <3>1. /\ ring' \in [Obj -> Seq(Msg)] /\ cur_num' \in [Obj -> Nat]
      <4>1. Append(s, m) \in Seq(Msg) /\ n + 1 \in Nat
        OBVIOUS
      <4> QED
        BY <1>1, <1>3, <4>1 DEF ObjTypeOK
    <3>2. freesize' \in [Obj -> 0 .. BufSize]
      BY <1>1, <1>3, <1>7, <2>1 DEF ObjTypeOK
    <3>3. \A x \in Obj : obj_kind[x] = "queue" => cur_num'[x] <= MsgNum
      BY <1>1, <1>2, <1>7 DEF ObjTypeOK
    <3> QED
      BY <1>1, <3>1, <3>2, <3>3 DEF ObjTypeOK
  <2>3. Takes(s, BufSize - f)
    BY <1>1, <1>3, <1>7 DEF QueueCountOK
  <2>4. BufSize - f \in Nat /\ BufSize - (f - b) = (BufSize - f) + b
    BY <1>4
  <2>5. Takes(Append(s, m), (BufSize - f) + b)
    BY <1>3, <2>3, <2>4, TakesAppend
  <2>6. Takes(ring'[o], BufSize - freesize'[o])
    BY <1>2, <1>3, <2>1, <2>4, <2>5
  <2> QED
    BY <1>1, <1>2, <1>5, <1>7, <2>2, <2>6, DataStep
<1> QED
  BY <1>6, <1>7

\* What a queue with a message in it looks like from outside.
LEMMA HasMessage ==
  ASSUME IpcInv, NEW o \in Obj, obj_type[o]
  PROVE  /\ obj_kind[o] = "queue" => (cur_num[o] > 0 <=> ring[o] # << >>)
         /\ obj_kind[o] = "buf_queue" => (freesize[o] # BufSize <=> ring[o] # << >>)
<1>1. ObjTypeOK /\ QueueCountOK /\ BufSize \in Nat
  BY TypeParts, MsgAssumption DEF IpcInv
<1>2. PICK s \in Seq(Msg), f \in 0 .. BufSize : s = ring[o] /\ f = freesize[o]
  BY <1>1 DEF ObjTypeOK
<1>3. CASE obj_kind[o] = "queue"
  <2>1. cur_num[o] = Len(s) /\ Len(s) \in Nat
    BY <1>1, <1>2, <1>3 DEF QueueCountOK
  <2>2. s # << >> <=> Len(s) # 0
    OBVIOUS
  <2> QED
    BY <1>2, <1>3, <2>1, <2>2
<1>4. CASE obj_kind[o] = "buf_queue"
  <2>1. Takes(s, BufSize - f) /\ BufSize - f \in Nat
    BY <1>1, <1>2, <1>4 DEF QueueCountOK
  <2>2. BufSize - f = 0 <=> s = << >>
    BY <2>1, TakesSome
  <2>3. BufSize - f = 0 <=> f = BufSize
    BY <1>1
  <2> QED
    BY <1>2, <1>4, <2>2, <2>3
<1> QED
  BY <1>3, <1>4

\* A message is taken from a queue.
LEMMA Pop_Ipc ==
  ASSUME IpcInv, crit = NoCrit, UNCHANGED <<coreVars, objVars, msg, eventVars>>,
         NEW o \in Obj, obj_type[o], obj_kind[o] # "event", ring[o] # << >>,
         ring'     = [ring EXCEPT ![o] = Tail(@)],
         cur_num'  = [cur_num EXCEPT ![o] = @ - 1],
         freesize' = [freesize EXCEPT ![o] = IF obj_kind[o] = "queue" THEN @ ELSE @ + Bytes[Head(ring[o])]]
  PROVE  IpcInv' /\ \A t \in Task : WaitOf(t)' = WaitOf(t)
<1>1. ObjTypeOK /\ QueueCountOK /\ UNCHANGED <<obj_kind, obj_type, flags, pend, pend_info>>
  BY TypeParts DEF IpcInv, objVars, eventVars
<1>2. /\ ring'[o] = Tail(ring[o]) /\ cur_num'[o] = cur_num[o] - 1
      /\ freesize'[o] = IF obj_kind[o] = "queue" THEN freesize[o] ELSE freesize[o] + Bytes[Head(ring[o])]
      /\ \A x \in Obj \ {o} : ring'[x] = ring[x] /\ cur_num'[x] = cur_num[x] /\ freesize'[x] = freesize[x]
  BY <1>1 DEF ObjTypeOK
<1>3. PICK s \in Seq(Msg), n \in Nat, f \in 0 .. BufSize : s = ring[o] /\ n = cur_num[o] /\ f = freesize[o]
  BY <1>1 DEF ObjTypeOK
<1>4. BufSize \in Nat /\ MsgNum \in Nat /\ s # << >> /\ blk_list[o] = << >>
  BY <1>3, MsgAssumption DEF IpcInv, WaitersOK
<1>5. /\ n = Len(s) /\ Len(s) \in Nat \ {0} /\ Tail(s) \in Seq(Msg) /\ Len(Tail(s)) = Len(s) - 1
      /\ n - 1 \in Nat
  <2>1. n = Len(s)
    BY <1>1, <1>3 DEF QueueCountOK
  <2>2. Len(s) \in Nat \ {0} /\ Tail(s) \in Seq(Msg) /\ Len(Tail(s)) = Len(s) - 1
    BY <1>4
  <2> QED
    BY <2>1, <2>2
<1>6. cur_num'[o] = Len(ring'[o])
  BY <1>2, <1>3, <1>5
<1>7. PICK b \in Nat : b = Bytes[Head(s)]
  <2>1. Head(s) \in Msg
    BY <1>4
  <2> QED
    BY <2>1, MsgAssumption
<1>8. obj_kind[o] # "queue" => f + b \in 0 .. BufSize /\ Takes(Tail(s), BufSize - (f + b))
  <2> SUFFICES ASSUME obj_kind[o] # "queue" PROVE f + b \in 0 .. BufSize /\ Takes(Tail(s), BufSize - (f + b))
    OBVIOUS
  <2>1. obj_kind[o] = "buf_queue"
    BY <1>1 DEF ObjTypeOK
  <2>2. Takes(s, BufSize - f) /\ BufSize - f \in Nat
    BY <1>1, <1>3, <1>4, <2>1 DEF QueueCountOK
  <2>3. b \in 0 .. BufSize - f /\ Takes(Tail(s), (BufSize - f) - b)
    BY <1>4, <1>7, <2>2, TakesTail
  <2>4. (BufSize - f) - b = BufSize - (f + b) /\ f + b \in 0 .. BufSize
    BY <1>4, <2>3
  <2> QED
    BY <2>3, <2>4
<1>9. ObjTypeOK'
  <2>1. ring' \in [Obj -> Seq(Msg)] /\ cur_num' \in [Obj -> Nat]
    BY <1>1, <1>3, <1>5 DEF ObjTypeOK
  <2>2. freesize' \in [Obj -> 0 .. BufSize]
    <3>1. freesize'[o] \in 0 .. BufSize
      BY <1>2, <1>3, <1>7, <1>8
    <3> QED
      BY <1>1, <1>2, <3>1 DEF ObjTypeOK
  <2>3. \A x \in Obj : obj_kind[x] = "queue" => cur_num'[x] <= MsgNum
    <3> SUFFICES ASSUME NEW x \in Obj, obj_kind[x] = "queue" PROVE cur_num'[x] <= MsgNum
      OBVIOUS
    <3>1. CASE x = o
      <4>1. n <= MsgNum
        BY <1>1, <1>3, <3>1 DEF ObjTypeOK
      <4> QED
        BY <1>2, <1>3, <1>4, <3>1, <4>1
    <3> QED
      BY <1>1, <1>2, <3>1 DEF ObjTypeOK
  <2> QED
    BY <1>1, <2>1, <2>2, <2>3 DEF ObjTypeOK
<1>10. obj_kind[o] = "buf_queue" => Takes(ring'[o], BufSize - freesize'[o])
  BY <1>2, <1>3, <1>7, <1>8
<1> QED
  BY <1>1, <1>2, <1>4, <1>6, <1>9, <1>10, DataStep

\* The flags of an event change, and nobody is looked for.
LEMMA Flags_Ipc ==
  ASSUME IpcInv, crit = NoCrit, UNCHANGED <<coreVars, objVars, msgVars, pend, pend_info>>,
         NEW o \in Obj, obj_type[o], obj_kind[o] = "event",
         NEW f \in SUBSET Flag, flags' = [flags EXCEPT ![o] = f]
  PROVE  IpcInv' /\ \A t \in Task : WaitOf(t)' = WaitOf(t)
<1>1. ObjTypeOK /\ UNCHANGED <<obj_kind, obj_type, ring, cur_num, freesize, msg>> /\ KindOK
  BY TypeParts DEF IpcInv, objVars, msgVars
<1>2. flags' \in [Obj -> SUBSET Flag] /\ \A x \in Obj \ {o} : flags'[x] = flags[x]
  BY <1>1 DEF ObjTypeOK
<1>3. ObjTypeOK'
  BY <1>1, <1>2 DEF ObjTypeOK
<1>4. ring[o] = << >>
  BY <1>1 DEF KindOK
<1> QED
  BY <1>1, <1>2, <1>3, <1>4, DataStep

\* A service starts its loop over the waiters.
LEMMA EnterStep ==
  ASSUME IpcInv, crit = NoCrit,
         UNCHANGED <<tcbVars, rrVars, queueVars, g_tick_count, cpuVars, callVars>>,
         UNCHANGED <<obj_kind, ring, cur_num, freesize, msg, pend, pend_info>>,
         ObjTypeOK', LoopOK', crit'.op \in Loops,
         \A o \in Obj : obj_kind[o] # "event" => flags'[o] = flags[o],
         \A o \in Obj : obj_type'[o] => obj_type[o],
         \A o \in Obj : obj_type[o] => obj_type'[o] \/ crit' = [op |-> "obj_del", obj |-> o]
  PROVE  IpcInv' /\ \A t \in Task : WaitOf(t)' = WaitOf(t)
<1>1. CoreInv /\ CallOK /\ ResultOK /\ WaitersOK /\ KindOK /\ QueueCountOK
  BY DEF IpcInv
<1>2. crit' # NoCrit /\ blk_list' = blk_list /\ CritTypeOK'
  BY DEF NoCrit, Loops, queueVars, CritTypeOK
<1>3. CoreInv'
  BY <1>1, <1>2, EnterLoop
<1>4. CallOK' /\ \A t \in Task : WaitOf(t)' = WaitOf(t)
  BY <1>1, WaitsStay
<1>5. TypeOK'
  BY <1>2, <1>3, TypeParts DEF CoreInv
<1>6. QueueCountOK'
  BY <1>1 DEF QueueCountOK
<1>7. WaitersOK'
  <2> SUFFICES ASSUME NEW x \in Obj, blk_list[x] # << >>
               PROVE  ring[x] = << >> /\ (obj_type'[x] \/ (crit'.op = "obj_del" /\ crit'.obj = x))
    BY <1>2 DEF WaitersOK
  <2>1. ring[x] = << >> /\ obj_type[x]
    BY <1>1 DEF WaitersOK, NoCrit
  <2> QED
    BY <2>1
<1>8. KindOK'
  BY <1>1 DEF KindOK
<1>9. ResultOK'
  BY <1>1, <1>4, ResultsKept
<1> QED
  BY <1>3, <1>4, <1>5, <1>6, <1>7, <1>8, <1>9 DEF IpcInv

\* Whoever calls is a task in user code or a handler, outside every critical section.
LEMMA CallPoint ==
  ASSUME NEW api, AnyCall(api)
  PROVE  crit = NoCrit /\ (isr = "none" => pc[g_active_task] = "user")
  BY DEF AnyCall, TaskCall, IntrptCall

LEMMA Del_Ipc ==
  ASSUME IpcInv, NEW api, TaskCall(api), NEW o \in Obj, NEW kind, obj_del(o, kind),
         UNCHANGED <<msgVars, eventVars>>
  PROVE  IpcInv' /\ \A t \in Task : WaitOf(t)' = WaitOf(t)
<1>1. /\ obj_type[o] /\ obj_type' = [obj_type EXCEPT ![o] = FALSE]
      /\ crit' = [op |-> "obj_del", obj |-> o]
      /\ UNCHANGED <<tcbVars, rrVars, queueVars, g_tick_count, cpuVars, callVars, obj_kind>>
      /\ UNCHANGED <<ring, cur_num, freesize, msg, flags, pend, pend_info>>
  BY DEF obj_del, msgVars, eventVars
<1>2. ObjTypeOK /\ crit = NoCrit /\ (isr = "none" => pc[g_active_task] = "user")
  BY TypeParts, CallPoint DEF IpcInv, AnyCall
<1>3. obj_type' \in [Obj -> BOOLEAN] /\ ~obj_type'[o] /\ \A x \in Obj \ {o} : obj_type'[x] = obj_type[x]
  BY <1>1, <1>2 DEF ObjTypeOK
<1>4. ObjTypeOK'
  BY <1>1, <1>2, <1>3 DEF ObjTypeOK
<1>5. LoopOK'
  BY <1>1, <1>2, <1>3 DEF LoopOK, Loops, cpuVars, callVars
<1> QED
  BY <1>1, <1>2, <1>3, <1>4, <1>5, EnterStep DEF Loops

\* krhino_queue_all_send finds waiters: the queue is empty.
LEMMA AllSend_Ipc ==
  ASSUME IpcInv, NEW api, AnyCall(api), NEW o \in Obj, NEW m \in Msg,
         obj_kind[o] = "queue", obj_type[o], blk_list[o] # << >>,
         crit' = [op |-> "all_send", obj |-> o, msg |-> m],
         UNCHANGED <<tcbVars, rrVars, queueVars, g_tick_count, cpuVars, callVars, objVars, msgVars, eventVars>>
  PROVE  IpcInv' /\ (\A t \in Task : WaitOf(t)' = WaitOf(t)) /\ ring[o] = << >>
<1>1. UNCHANGED <<obj_kind, obj_type, ring, cur_num, freesize, msg, flags, pend, pend_info>>
  BY DEF objVars, msgVars, eventVars
<1>2. ObjTypeOK /\ crit = NoCrit /\ (isr = "none" => pc[g_active_task] = "user") /\ ring[o] = << >>
  BY TypeParts, CallPoint DEF IpcInv, WaitersOK
<1>3. ObjTypeOK'
  BY <1>1, <1>2 DEF ObjTypeOK
<1>4. LoopOK'
  BY <1>1, <1>2 DEF LoopOK, Loops, cpuVars, callVars
<1> QED
  BY <1>1, <1>2, <1>3, <1>4, EnterStep DEF Loops

LEMMA SetOr_Ipc ==
  ASSUME IpcInv, NEW o \in Obj, NEW f \in NewFlags, event_set_or(o, f), UNCHANGED msgVars
  PROVE  IpcInv' /\ \A t \in Task : WaitOf(t)' = WaitOf(t)
<1>1. /\ obj_kind[o] = "event" /\ obj_type[o]
      /\ flags' = [flags EXCEPT ![o] = @ \cup f]
      /\ crit' = [op |-> "event_set", obj |-> o, flags |-> flags'[o], iter |-> blk_list[o]]
      /\ UNCHANGED <<tcbVars, rrVars, queueVars, g_tick_count, cpuVars, callVars, obj_kind, obj_type,
                     pend, pend_info, ring, cur_num, freesize, msg>>
      /\ crit = NoCrit /\ (isr = "none" => pc[g_active_task] = "user")
  BY CallPoint DEF event_set_or, objVars, msgVars
<1>2. ObjTypeOK /\ CoreInv /\ f \in SUBSET Flag
  BY TypeParts, FlagAssumption DEF IpcInv
<1>3. /\ flags' \in [Obj -> SUBSET Flag] /\ flags'[o] \in SUBSET Flag
      /\ \A x \in Obj : obj_kind[x] # "event" => flags'[x] = flags[x]
  BY <1>1, <1>2 DEF ObjTypeOK
<1>4. ObjTypeOK'
  BY <1>1, <1>2, <1>3 DEF ObjTypeOK
<1>5. blk_list[o] \in Seq(Task) /\ IsInjective(blk_list[o]) /\ blk_list' = blk_list
  BY <1>1, <1>2 DEF CoreInv, CoreTypeOK, ListInv, WaitListsOK, queueVars
<1>6. LoopOK'
  <2>1. crit' \in [op : {"event_set"}, obj : Obj, flags : SUBSET Flag, iter : Seq(Task)]
    BY <1>1, <1>3, <1>5
  <2> QED
    BY <1>1, <1>5, <2>1 DEF LoopOK, Loops, cpuVars, callVars
<1> QED
  BY <1>1, <1>2, <1>3, <1>4, <1>6, EnterStep DEF Loops

\* The first waiter gets a message: the queue is empty.
LEMMA Hand_Ipc ==
  ASSUME IpcInv, NEW api, AnyCall(api), NEW o \in Obj, NEW m \in Msg,
         obj_kind[o] # "event", blk_list[o] # << >>, NEW t, t = Head(blk_list[o]),
         task_msg_recv(t, m), RHINO_CRITICAL_EXIT_SCHED,
         UNCHANGED <<prio, suspend_count, rrVars, g_tick_count, cpuVars, crit>>,
         UNCHANGED <<objVars, ring, cur_num, freesize, eventVars>>
  PROVE  /\ IpcInv' /\ t \in Task /\ crit' = crit
         /\ \A u \in Task \ {t} : WaitOf(u)' = WaitOf(u) /\ msg'[u] = msg[u]
         /\ WaitOf(t) = <<"waiting", o>> /\ WaitOf(t)' = <<"granted", o>> /\ msg'[t] = m
         /\ ring[o] = << >>
<1>1. /\ CoreInv /\ CallOK /\ ObjTypeOK /\ ResultOK /\ KindOK /\ WaitersOK
      /\ crit = NoCrit /\ (isr = "none" => pc[g_active_task] = "user")
  BY TypeParts, CallPoint DEF IpcInv
<1>2. pend_task_wakeup(t) /\ msg' = [msg EXCEPT ![t] = m]
  BY DEF task_msg_recv
<1>3. /\ CoreInv' /\ CallOK' /\ t \in Task
      /\ \A x \in Obj : ToSet(blk_list'[x]) = ToSet(blk_list[x]) \ {t}
      /\ \A u \in Task \ {t} : WaitOf(u)' = WaitOf(u)
      /\ WaitOf(t) = <<"waiting", o>> /\ WaitOf(t)' = <<"granted", o>>
  BY <1>1, <1>2, WakeFirst
<1>4. /\ msg' \in [Task -> Msg \cup {NULL}] /\ msg'[t] = m /\ \A u \in Task \ {t} : msg'[u] = msg[u]
      /\ UNCHANGED <<obj_kind, obj_type, flags, pend, pend_info>>
  BY <1>1, <1>2, <1>3 DEF ObjTypeOK, objVars, eventVars
<1>5. crit' = NoCrit /\ ring[o] = << >>
  BY <1>1 DEF WaitersOK
<1>6. TypeOK'
  <2>1. ObjTypeOK'
    BY <1>1, <1>4 DEF ObjTypeOK
  <2> QED
    BY <1>3, <1>5, <2>1, TypeParts DEF CoreInv, CritTypeOK, NoCrit
<1>7. QueueCountOK'
  BY CountKept
<1>8. LoopOK'
  BY <1>5 DEF LoopOK, Loops, NoCrit
<1>9. WaitersOK'
  <2>1. \A x \in Obj : blk_list[x] = << >> => blk_list'[x] = << >>
    BY <1>1, <1>3, FewerWaiters
  <2> QED
    BY <1>1, <1>4, <2>1, WaitersLess
<1>10. KindOK'
  BY <1>1, <1>4 DEF KindOK
<1>11. ResultOK'
  <2> SUFFICES ASSUME NEW u \in Task PROVE ResultOf(u)'
    BY DEF ResultOK
  <2>1. CASE u # t
    BY <1>1, <1>3, <1>4, <2>1, ResultKept DEF ResultOK
  <2>2. CASE u = t
    <3>1. \A x : WaitOf(t)' # <<"waiting", x>> /\ (WaitOf(t)' = <<"granted", x>> => x = o)
      BY <1>3
    <3> QED
      BY <1>4, <2>2, <3>1 DEF ResultOf
  <2> QED
    BY <2>1, <2>2
<1> QED
  BY <1>3, <1>4, <1>5, <1>6, <1>7, <1>8, <1>9, <1>10, <1>11 DEF IpcInv

LEMMA TickValues ==
  ASSUME NEW ticks \in Ticks \cup {WaitForever} PROVE ticks \in 0 .. TickMod - 1
  BY TickAssumption

\* A task starts to wait: there is nothing in a queue, and for an event it says for what.
LEMMA Pend_Ipc ==
  ASSUME IpcInv, NEW api, TaskCall(api), NEW o \in Obj, NEW ticks \in 0 .. TickMod - 1,
         obj_type[o], ring[o] = << >>, Pend(o, ticks), NEW t, t = g_active_task,
         UNCHANGED <<rrVars, g_tick_count, cpuVars, crit>>,
         UNCHANGED <<objVars, msgVars, flags, pend_info>>,
         pend' \in [Task -> Options \cup {NULL}], \A u \in Task \ {t} : pend'[u] = pend[u],
         obj_kind[o] = "event" => pend'[t] \in Options
  PROVE  /\ IpcInv' /\ t \in Task /\ crit' = crit
         /\ \A u \in Task \ {t} : WaitOf(u)' = WaitOf(u)
         /\ WaitOf(t) = <<"out">> /\ WaitOf(t)' = <<"waiting", o>>
<1>1. /\ CoreInv /\ CallOK /\ ObjTypeOK /\ ResultOK /\ KindOK /\ WaitersOK /\ crit = NoCrit
  BY TypeParts, CallPoint DEF IpcInv, AnyCall
<1>2. /\ CoreInv' /\ CallOK' /\ t \in Task
      /\ \A x \in Obj \ {o} : blk_list'[x] = blk_list[x]
      /\ \A u \in Task \ {t} : WaitOf(u)' = WaitOf(u)
      /\ WaitOf(t) = <<"out">> /\ WaitOf(t)' = <<"waiting", o>>
  BY <1>1, PendOn DEF Pend
<1>3. UNCHANGED <<obj_kind, obj_type, ring, cur_num, freesize, msg>>
  BY DEF objVars, msgVars
<1>4. TypeOK'
  <2>1. ObjTypeOK'
    BY <1>1, <1>3 DEF ObjTypeOK
  <2> QED
    BY <1>1, <1>2, <2>1, TypeParts DEF CoreInv, CritTypeOK, NoCrit
<1>5. QueueCountOK'
  BY <1>3, CountKept
<1>6. LoopOK'
  BY <1>1 DEF LoopOK, Loops, NoCrit
<1>7. WaitersOK'
  BY <1>1, <1>2, <1>3 DEF WaitersOK, NoCrit
<1>8. KindOK'
  BY <1>1, <1>3 DEF KindOK
<1>9. ResultOK'
  <2> SUFFICES ASSUME NEW u \in Task PROVE ResultOf(u)'
    BY DEF ResultOK
  <2>1. CASE u # t
    BY <1>1, <1>2, <1>3, <2>1, ResultKept DEF ResultOK
  <2>2. CASE u = t
    <3>1. \A x : WaitOf(t)' # <<"granted", x>> /\ (WaitOf(t)' = <<"waiting", x>> => x = o)
      BY <1>2
    <3> QED
      BY <1>3, <2>2, <3>1 DEF ResultOf
  <2> QED
    BY <2>1, <2>2
<1> QED
  BY <1>2, <1>4, <1>5, <1>6, <1>7, <1>8, <1>9 DEF IpcInv

-----------------------------------------------------------------------------
(***************************************************************************)
(* Every step keeps the invariant.                                         *)
(***************************************************************************)
\* What a call that sends does: a message is queued, or handed to the first waiter.
LEMMA SendParts ==
  ASSUME NEW o, NEW m, SendOne(o, m), UNCHANGED eventVars
  PROVE  \/ /\ blk_list[o] = << >> /\ Push(o, m)
            /\ UNCHANGED <<coreVars, objVars, msg, eventVars>>
         \/ /\ blk_list[o] # << >> /\ task_msg_recv(Head(blk_list[o]), m) /\ RHINO_CRITICAL_EXIT_SCHED
            /\ UNCHANGED <<prio, suspend_count, rrVars, g_tick_count, cpuVars, crit>>
            /\ UNCHANGED <<objVars, ring, cur_num, freesize, eventVars>>
  BY DEF SendOne, coreVars

LEMMA Send_Ipc ==
  ASSUME IpcInv, NEW o \in Obj, NEW m \in Msg, UNCHANGED eventVars,
         krhino_queue_back_send(o, m) \/ krhino_buf_queue_send(o, m)
  PROVE  IpcInv'
<1>1. PICK api : AnyCall(api)
  BY DEF krhino_queue_back_send, krhino_buf_queue_send
<1>2. /\ SendOne(o, m) /\ obj_type[o] /\ obj_kind[o] # "event"
      /\ blk_list[o] = << >> => \/ obj_kind[o] = "queue" /\ ~queue_is_full(o)
                                \/ obj_kind[o] = "buf_queue" /\ freesize[o] >= Bytes[m]
  BY DEF krhino_queue_back_send, krhino_buf_queue_send
<1>3. CASE blk_list[o] = << >> /\ Push(o, m) /\ UNCHANGED <<coreVars, objVars, msg, eventVars>>
  BY <1>1, <1>2, <1>3, CallPoint, Push_Ipc
<1>4. CASE /\ blk_list[o] # << >> /\ task_msg_recv(Head(blk_list[o]), m) /\ RHINO_CRITICAL_EXIT_SCHED
           /\ UNCHANGED <<prio, suspend_count, rrVars, g_tick_count, cpuVars, crit>>
           /\ UNCHANGED <<objVars, ring, cur_num, freesize, eventVars>>
  BY <1>1, <1>2, <1>4, Hand_Ipc
<1> QED
  BY <1>2, <1>3, <1>4, SendParts

LEMMA AllSendParts ==
  ASSUME NEW o, NEW m, krhino_queue_all_send(o, m), UNCHANGED eventVars
  PROVE  /\ AnyCall("queue_all_send") /\ obj_kind[o] = "queue" /\ obj_type[o] /\ ~queue_is_full(o)
         /\ \/ /\ blk_list[o] = << >> /\ Push(o, m)
               /\ UNCHANGED <<coreVars, objVars, msg, eventVars>>
            \/ /\ blk_list[o] # << >>
               /\ crit' = [op |-> "all_send", obj |-> o, msg |-> m]
               /\ UNCHANGED <<tcbVars, rrVars, queueVars, g_tick_count, cpuVars, callVars, objVars,
                              msgVars, eventVars>>
  BY DEF krhino_queue_all_send, coreVars, msgVars

LEMMA AllSendCall_Ipc ==
  ASSUME IpcInv, NEW o \in Obj, NEW m \in Msg, UNCHANGED eventVars, krhino_queue_all_send(o, m)
  PROVE  IpcInv'
<1>1. AnyCall("queue_all_send") /\ obj_kind[o] = "queue" /\ obj_type[o] /\ ~queue_is_full(o) /\ crit = NoCrit
  BY AllSendParts, CallPoint
<1>2. CASE blk_list[o] = << >> /\ Push(o, m) /\ UNCHANGED <<coreVars, objVars, msg, eventVars>>
  BY <1>1, <1>2, Push_Ipc
<1>3. CASE /\ blk_list[o] # << >> /\ crit' = [op |-> "all_send", obj |-> o, msg |-> m]
           /\ UNCHANGED <<tcbVars, rrVars, queueVars, g_tick_count, cpuVars, callVars, objVars,
                          msgVars, eventVars>>
  BY <1>1, <1>3, AllSend_Ipc
<1> QED
  BY <1>2, <1>3, AllSendParts

\* What a call that receives does.
LEMMA RecvParts ==
  ASSUME IpcInv, NEW o \in Obj, NEW ticks, UNCHANGED eventVars,
         krhino_queue_recv(o, ticks) \/ krhino_buf_queue_recv(o, ticks)
  PROVE  /\ \E api : AnyCall(api)
         /\ obj_type[o] /\ obj_kind[o] # "event"
         /\ \/ /\ ring[o] # << >> /\ UNCHANGED <<coreVars, objVars, msg, eventVars>>
               /\ ring'     = [ring EXCEPT ![o] = Tail(@)]
               /\ cur_num'  = [cur_num EXCEPT ![o] = @ - 1]
               /\ freesize' = [freesize EXCEPT ![o] = IF obj_kind[o] = "queue" THEN @
                                                      ELSE @ + Bytes[Head(ring[o])]]
               /\ ret' = Returned(Caller, o, Head(ring[o]))
            \/ /\ ring[o] = << >> /\ Pend(o, ticks) /\ ret' = NoRet
               /\ UNCHANGED <<rrVars, g_tick_count, cpuVars, crit>>
               /\ UNCHANGED <<objVars, msgVars, flags, pend, pend_info>>
               /\ \E api : TaskCall(api)
<1>1. CASE krhino_queue_recv(o, ticks)
  <2>1. AnyCall("queue_recv") /\ obj_kind[o] = "queue" /\ QueueRecv(o, ticks, cur_num[o] > 0) /\ obj_type[o]
    BY <1>1 DEF krhino_queue_recv, QueueRecv
  <2>2. cur_num[o] > 0 <=> ring[o] # << >>
    BY <2>1, HasMessage
  <2>3. isr = "none" => TaskCall("queue_recv")
    BY <2>1 DEF AnyCall, IntrptCall
  <2> QED
    BY <2>1, <2>2, <2>3 DEF QueueRecv, Pend, coreVars, eventVars
<1>2. CASE krhino_buf_queue_recv(o, ticks)
  <2>1. /\ AnyCall("buf_queue_recv") /\ obj_kind[o] = "buf_queue" /\ QueueRecv(o, ticks, freesize[o] # BufSize)
        /\ obj_type[o]
    BY <1>2 DEF krhino_buf_queue_recv, QueueRecv
  <2>2. freesize[o] # BufSize <=> ring[o] # << >>
    BY <2>1, HasMessage
  <2>3. isr = "none" => TaskCall("buf_queue_recv")
    BY <2>1 DEF AnyCall, IntrptCall
  <2> QED
    BY <2>1, <2>2, <2>3 DEF QueueRecv, Pend, coreVars, eventVars
<1> QED
  BY <1>1, <1>2

LEMMA Recv_Ipc ==
  ASSUME IpcInv, NEW o \in Obj, NEW ticks \in Ticks \cup {WaitForever}, UNCHANGED eventVars,
         krhino_queue_recv(o, ticks) \/ krhino_buf_queue_recv(o, ticks)
  PROVE  IpcInv'
<1>1. ticks \in 0 .. TickMod - 1 /\ obj_type[o] /\ obj_kind[o] # "event" /\ crit = NoCrit
  BY TickValues, RecvParts, CallPoint
<1>2. CASE /\ ring[o] # << >> /\ UNCHANGED <<coreVars, objVars, msg, eventVars>>
           /\ ring'     = [ring EXCEPT ![o] = Tail(@)]
           /\ cur_num'  = [cur_num EXCEPT ![o] = @ - 1]
           /\ freesize' = [freesize EXCEPT ![o] = IF obj_kind[o] = "queue" THEN @
                                                  ELSE @ + Bytes[Head(ring[o])]]
  BY <1>1, <1>2, Pop_Ipc
<1>3. CASE /\ ring[o] = << >> /\ Pend(o, ticks)
           /\ UNCHANGED <<rrVars, g_tick_count, cpuVars, crit>>
           /\ UNCHANGED <<objVars, msgVars, flags, pend, pend_info>>
           /\ \E api : TaskCall(api)
  <2>1. pend' \in [Task -> Options \cup {NULL}] /\ \A u \in Task : pend'[u] = pend[u]
    BY <1>3, TypeParts DEF IpcInv, ObjTypeOK
  <2> QED
    BY <1>1, <1>3, <2>1, Pend_Ipc
<1> QED
  BY <1>2, <1>3, RecvParts

\* What krhino_event_get does.
LEMMA GetParts ==
  ASSUME IpcInv, NEW o \in Obj, NEW c \in Options, NEW ticks, UNCHANGED msgVars, krhino_event_get(o, c, ticks)
  PROVE  /\ TaskCall("event_get") /\ obj_type[o] /\ obj_kind[o] = "event" /\ g_active_task \in Task
         /\ \/ /\ Met(flags[o], c) /\ flags' = [flags EXCEPT ![o] = flags[o] \ Cleared(c)]
               /\ flags[o] \in SUBSET Flag /\ ret' = Returned(g_active_task, o, flags[o])
               /\ UNCHANGED <<coreVars, objVars, msgVars, pend, pend_info>>
            \/ /\ ~Met(flags[o], c) /\ Pend(o, ticks) /\ ret' = NoRet
               /\ pend' \in [Task -> Options \cup {NULL}] /\ pend'[g_active_task] = c
               /\ \A u \in Task \ {g_active_task} : pend'[u] = pend[u]
               /\ UNCHANGED <<rrVars, g_tick_count, cpuVars, crit>>
               /\ UNCHANGED <<objVars, msgVars, flags, pend_info>>
<1>1. /\ TaskCall("event_get") /\ obj_type[o] /\ obj_kind[o] = "event" /\ g_active_task \in Task /\ ObjTypeOK
      /\ flags[o] \in SUBSET Flag /\ isr = "none"
  BY TypeParts DEF krhino_event_get, IpcInv, ObjTypeOK, CoreTypeOK, TaskCall
<1>2. CASE /\ Met(flags[o], c) /\ flags' = [flags EXCEPT ![o] = @ \ Cleared(c)]
           /\ ret' = Returned(Caller, o, flags[o])
           /\ UNCHANGED <<tcbVars, queueVars, callVars, pend, pend_info>>
           /\ UNCHANGED <<rrVars, g_tick_count, cpuVars, crit, objVars>>
  <2>1. ret' = Returned(g_active_task, o, flags[o])
    BY <1>1, <1>2 DEF Caller
  <2> QED
    BY <1>1, <1>2, <2>1 DEF coreVars
<1>3. CASE /\ ~Met(flags[o], c) /\ Pend(o, ticks) /\ pend' = [pend EXCEPT ![g_active_task] = c]
           /\ ret' = NoRet /\ UNCHANGED <<flags, pend_info>>
           /\ UNCHANGED <<rrVars, g_tick_count, cpuVars, crit, objVars>>
  <2>1. /\ pend' \in [Task -> Options \cup {NULL}] /\ pend'[g_active_task] = c
        /\ \A u \in Task \ {g_active_task} : pend'[u] = pend[u]
    BY <1>1, <1>3 DEF ObjTypeOK
  <2> QED
    BY <1>1, <1>3, <2>1
<1> QED
  BY <1>1, <1>2, <1>3 DEF krhino_event_get

LEMMA Get_Ipc ==
  ASSUME IpcInv, NEW o \in Obj, NEW c \in Options, NEW ticks \in Ticks \cup {WaitForever},
         UNCHANGED msgVars, krhino_event_get(o, c, ticks)
  PROVE  IpcInv'
<1>1. /\ TaskCall("event_get") /\ obj_type[o] /\ obj_kind[o] = "event" /\ g_active_task \in Task
      /\ ticks \in 0 .. TickMod - 1 /\ crit = NoCrit
  BY TickValues, GetParts, CallPoint DEF AnyCall
<1>2. CASE /\ flags' = [flags EXCEPT ![o] = flags[o] \ Cleared(c)] /\ flags[o] \in SUBSET Flag
           /\ UNCHANGED <<coreVars, objVars, msgVars, pend, pend_info>>
  <2>1. flags[o] \ Cleared(c) \in SUBSET Flag
    BY <1>2
  <2> QED
    BY <1>1, <1>2, <2>1, Flags_Ipc
<1>3. CASE /\ Pend(o, ticks)
           /\ pend' \in [Task -> Options \cup {NULL}] /\ pend'[g_active_task] = c
           /\ \A u \in Task \ {g_active_task} : pend'[u] = pend[u]
           /\ UNCHANGED <<rrVars, g_tick_count, cpuVars, crit>>
           /\ UNCHANGED <<objVars, msgVars, flags, pend_info>>
  <2>1. ring[o] = << >>
    BY <1>1 DEF IpcInv, KindOK
  <2> QED
    BY <1>1, <1>3, <2>1, Pend_Ipc
<1> QED
  BY <1>2, <1>3, GetParts

LEMMA QueueService_Ipc ==
  ASSUME IpcInv, NEW o \in Obj, QueueService(o), UNCHANGED eventVars PROVE IpcInv'
<1>1. UNCHANGED <<flags, pend, pend_info>>
  BY DEF eventVars
<1>2. ASSUME queue_create(o) \/ buf_queue_create(o) PROVE IpcInv'
  <2>1. PICK kind \in {"queue", "buf_queue"} : obj_create(o, kind)
    BY <1>2 DEF queue_create, buf_queue_create
  <2>2. /\ crit = NoCrit /\ ring_reset(o) /\ cur_num' = [cur_num EXCEPT ![o] = 0] /\ UNCHANGED msg
        /\ kind # "event"
    BY <1>2 DEF queue_create, buf_queue_create, TaskCall
  <2> QED
    BY <1>1, <2>1, <2>2, Create_Ipc
<1>3. ASSUME krhino_queue_del(o) \/ krhino_buf_queue_del(o) PROVE IpcInv'
  BY <1>3, Del_Ipc DEF krhino_queue_del, krhino_buf_queue_del
<1>4. ASSUME krhino_queue_flush(o) \/ krhino_buf_queue_flush(o) PROVE IpcInv'
  <2>1. /\ crit = NoCrit /\ ring_reset(o) /\ cur_num' = [cur_num EXCEPT ![o] = 0]
        /\ obj_type[o] /\ obj_kind[o] # "event" /\ UNCHANGED <<coreVars, obj_kind, obj_type, msg>>
    BY <1>4 DEF krhino_queue_flush, krhino_buf_queue_flush, TaskCall, objVars
  <2>2. obj_type \in [Obj -> BOOLEAN]
    BY TypeParts DEF IpcInv, ObjTypeOK
  <2> QED
    BY <1>1, <2>1, <2>2, EmptyStep
<1>5. ASSUME NEW m \in Msg, krhino_queue_back_send(o, m) \/ krhino_buf_queue_send(o, m) PROVE IpcInv'
  BY <1>5, Send_Ipc
<1>6. ASSUME NEW m \in Msg, krhino_queue_all_send(o, m) PROVE IpcInv'
  BY <1>6, AllSendCall_Ipc
<1> QED
  BY <1>2, <1>3, <1>4, <1>5, <1>6 DEF QueueService

LEMMA EventService_Ipc ==
  ASSUME IpcInv, NEW o \in Obj, EventService(o), UNCHANGED msgVars PROVE IpcInv'
<1>1. UNCHANGED <<ring, cur_num, freesize, msg>>
  BY DEF msgVars
<1>2. ASSUME krhino_event_del(o) PROVE IpcInv'
  BY <1>2, Del_Ipc DEF krhino_event_del
<1>3. ASSUME NEW f \in NewFlags, event_create(o, f) PROVE IpcInv'
  <2>1. /\ crit = NoCrit /\ obj_create(o, "event") /\ flags' = [flags EXCEPT ![o] = f]
        /\ UNCHANGED <<pend, pend_info>> /\ f \in SUBSET Flag
    BY <1>3, FlagAssumption DEF event_create, TaskCall
  <2> QED
    BY <1>1, <2>1, Create_Ipc
<1>4. ASSUME NEW f \in NewFlags, event_set_or(o, f) PROVE IpcInv'
  BY <1>4, SetOr_Ipc
<1>5. ASSUME NEW f \in NewFlags, event_set_and(o, f) PROVE IpcInv'
  <2>1. /\ crit = NoCrit /\ obj_kind[o] = "event" /\ obj_type[o]
        /\ flags' = [flags EXCEPT ![o] = flags[o] \cap f] /\ UNCHANGED <<coreVars, objVars, pend, pend_info>>
    BY <1>5, CallPoint DEF event_set_and
  <2>2. flags[o] \cap f \in SUBSET Flag
    BY FlagAssumption
  <2> QED
    BY <2>1, <2>2, Flags_Ipc
<1> QED
  BY <1>2, <1>3, <1>4, <1>5 DEF EventService

LEMMA Loop_Ipc ==
  ASSUME IpcInv, \/ QueueLoop /\ UNCHANGED eventVars
                 \/ EventLoop /\ UNCHANGED msgVars
  PROVE  IpcInv'
<1>1. ASSUME QueueLoop, UNCHANGED eventVars PROVE IpcInv'
  <2>1. CASE all_send_done
    BY <1>1, <2>1, LoopEnd_Ipc DEF all_send_done
  <2> QED
    BY <1>1, <2>1, queue_del_done_Ipc, all_send_turn_Ipc DEF QueueLoop
<1>2. ASSUME EventLoop, UNCHANGED msgVars PROVE IpcInv'
  <2>1. CASE event_set_done
    BY <1>2, <2>1, LoopEnd_Ipc DEF event_set_done
  <2> QED
    BY <1>2, <2>1, event_del_done_Ipc, event_set_turn_Ipc DEF EventLoop
<1> QED
  BY <1>1, <1>2

LEMMA Next_Ipc ==
  ASSUME IpcInv, [Next]_vars PROVE IpcInv'
<1>1. ASSUME CoreStep PROVE IpcInv'
  BY <1>1, CoreNext_Ipc, Timeout_Ipc DEF CoreStep
<1>2. ASSUME NEW t \in Task, obj_del_turn(t), UNCHANGED <<msgVars, eventVars>> PROVE IpcInv'
  BY <1>2, obj_del_turn_Ipc
<1>3. ASSUME NEW o \in Obj, QueueService(o) \/ QueueReceive(o), UNCHANGED eventVars PROVE IpcInv'
  BY <1>3, QueueService_Ipc, Recv_Ipc DEF QueueReceive
<1>4. ASSUME NEW o \in Obj, EventService(o) \/ EventReceive(o), UNCHANGED msgVars PROVE IpcInv'
  BY <1>4, EventService_Ipc, Get_Ipc DEF EventReceive
<1>5. ASSUME UNCHANGED vars PROVE IpcInv'
  <2>1. CoreInv /\ CallOK /\ ResultOK
    BY DEF IpcInv
  <2>2. /\ UNCHANGED <<coreVars, obj_kind, obj_type, ring, cur_num, freesize, msg, flags, pend, pend_info>>
        /\ UNCHANGED <<tcbVars, callVars>>
    BY <1>5 DEF vars, coreVars, objVars, msgVars, eventVars
  <2>3. CoreInv' /\ crit' = crit /\ isr' = isr /\ pc' = pc /\ g_active_task' = g_active_task /\ blk_list' = blk_list
    BY <2>1, <2>2, CoreKept
  <2>4. CallOK' /\ \A t \in Task : WaitOf(t)' = WaitOf(t)
    BY <2>1, <2>2, WaitsStay
  <2>5. TypeOK'
    BY <2>2, <2>3, TypeParts DEF IpcInv, CoreInv, ObjTypeOK, CritTypeOK
  <2>6. QueueCountOK' /\ WaitersOK' /\ KindOK'
    BY <2>2, <2>3 DEF IpcInv, QueueCountOK, WaitersOK, KindOK
  <2>7. LoopOK'
    BY <2>2, <2>3 DEF IpcInv, LoopOK
  <2>8. ResultOK'
    BY <2>1, <2>2, <2>4, ResultsKept
  <2> QED
    BY <2>3, <2>4, <2>5, <2>6, <2>7, <2>8 DEF IpcInv
<1> QED
  BY <1>1, <1>2, <1>3, <1>4, <1>5, Loop_Ipc DEF Next

LEMMA Init_Ipc ==
  ASSUME Init PROVE IpcInv
<1>1. CoreInit /\ QueueInit /\ EventInit
      /\ obj_kind \in [Obj -> {"queue", "buf_queue", "event"}] /\ obj_type = [o \in Obj |-> FALSE]
  BY DEF Init
<1>2. CoreInv
  BY <1>1, CoreInit_Inv
<1>3. CallOK
  BY <1>1 DEF CoreInit, CallOK, CallOf, Pending, PendStates, SleepStates
<1>4. crit = NoCrit /\ \A o \in Obj : blk_list[o] = << >>
  BY <1>1 DEF CoreInit
<1>5. TypeOK
  <2>1. << >> \in Seq(Msg) /\ BufSize \in 0 .. BufSize /\ MsgNum \in Nat /\ {} \in SUBSET Flag
    BY MsgAssumption
  <2>2. ObjTypeOK
    BY <1>1, <2>1 DEF QueueInit, EventInit, ObjTypeOK
  <2> QED
    BY <1>2, <1>4, <2>2, TypeParts DEF CoreInv, CritTypeOK, NoCrit
<1>6. QueueCountOK /\ KindOK
  BY <1>1 DEF QueueCountOK, KindOK, QueueInit, EventInit
<1>7. LoopOK /\ WaitersOK
  BY <1>4 DEF LoopOK, WaitersOK, Loops, NoCrit
<1>8. ResultOK
  <2>1. \A t \in Task : WaitOf(t) \in {<<"out">>, <<"dead">>}
    BY <1>1 DEF CoreInit, WaitOf
  <2>2. \A t \in Task : \A x : WaitOf(t) # <<"waiting", x>> /\ WaitOf(t) # <<"granted", x>>
    BY <2>1
  <2> QED
    BY <2>2 DEF ResultOK, ResultOf
<1> QED
  BY <1>2, <1>3, <1>5, <1>6, <1>7, <1>8 DEF IpcInv

\* The invariant everything else rests on: nobody waits for a message while there is one, or
\* for an object that is gone; a task that has been woken has got what its call will return,
\* and event_set looks only at tasks that still wait (k_queue.c, k_buf_queue.c, k_event.c).
THEOREM IpcInvariant == Spec => []IpcInv
<1>1. Init => IpcInv
  BY Init_Ipc
<1>2. IpcInv /\ [Next]_vars => IpcInv'
  BY Next_Ipc
<1> QED
  BY <1>1, <1>2, PTL DEF Spec

\* The count of a queue is that of the messages in it, and the free size of a buffer queue is
\* what they leave, after any flush, deletion, timeout or hand-over (k_queue.c, k_buf_queue.c).
THEOREM QueueCounts == Spec => []QueueInv
<1>1. IpcInv => QueueInv
  BY DEF IpcInv, QueueInv
<1> QED
  BY <1>1, IpcInvariant, PTL

-----------------------------------------------------------------------------
(***************************************************************************)
(* Queues keep the promise of AbstractQueue.                               *)
(***************************************************************************)
\* The variables of AbstractQueue.
QAlive == {o \in Obj : obj_type[o] /\ obj_kind[o] # "event"}
QMsgs  == [o \in Obj |-> IF obj_type[o] THEN ring[o] ELSE << >>]
QWait  == [t \in Task |-> QueueWait(t)]
QRet   == IF ret # NoRet /\ obj_kind[ret.obj] = "event" THEN NoRet ELSE ret

\* krhino_queue_all_send is about to give its message to all who wait for o.
SendsTo(o) == crit.op = "all_send" /\ crit.obj = o

\* What AbstractQueue sees of a wait.
QueueWaitOf(t) ==
  /\ WaitOf(t) \in {<<"out">>, <<"dead">>} => QueueWait(t) = <<"out">>
  /\ \A o \in Obj :
       /\ \A k : WaitOf(t) = <<k, o>> /\ obj_kind[o] = "event" => QueueWait(t) = <<"out">>
       /\ WaitOf(t) = <<"waiting", o>> /\ obj_kind[o] # "event" =>
            QueueWait(t) = IF SendsTo(o) THEN <<"got", o, crit.msg>> ELSE <<"waiting", o>>
       /\ WaitOf(t) = <<"granted", o>> /\ obj_kind[o] # "event" => QueueWait(t) = <<"got", o, msg[t]>>
       /\ WaitOf(t) = <<"expired", o>> /\ obj_kind[o] # "event" => QueueWait(t) = <<"expired", o>>
       /\ WaitOf(t) = <<"cancelled", o>> /\ obj_kind[o] # "event" => QueueWait(t) = <<"cancelled", o>>

\* A wait is over, or it is for an object.
WaitKnown(t) ==
  \/ WaitOf(t) \in {<<"out">>, <<"dead">>}
  \/ \E o \in Obj, k \in {"waiting"} \cup Ends : WaitOf(t) = <<k, o>>

LEMMA WaitsKnown ==
  IpcInv => \A t \in Task : WaitKnown(t)
<1> SUFFICES ASSUME IpcInv, NEW t \in Task PROVE WaitKnown(t)
  OBVIOUS
<1>1. CoreTypeOK
  BY DEF IpcInv, CoreInv
<1>2. CASE Free(t) \/ task_state[t] = "K_DELETED"
  BY <1>1, <1>2, WaitValues DEF WaitKnown
<1>3. CASE ~Free(t) /\ task_state[t] # "K_DELETED"
  <2>1. arg[t] \in Obj
    BY <1>3 DEF Free
  <2>2. \E k \in {"waiting"} \cup Ends : WaitOf(t) = <<k, arg[t]>>
    BY <1>1, <1>3, WaitValues
  <2> QED
    BY <2>1, <2>2 DEF WaitKnown
<1> QED
  BY <1>2, <1>3

LEMMA QueueWaits ==
  IpcInv => \A t \in Task : QueueWaitOf(t)
<1> SUFFICES ASSUME IpcInv, NEW t \in Task PROVE QueueWaitOf(t)
  OBVIOUS
<1>1. CoreTypeOK /\ CoreInv /\ CallOK /\ ObjTypeOK /\ (crit.op = "all_send" => crit.obj \in Obj)
  BY TypeParts DEF IpcInv, CoreInv, LoopOK, Loops
<1>2. CASE Free(t) \/ task_state[t] = "K_DELETED"
  <2>1. WaitOf(t) \in {<<"out">>, <<"dead">>} /\ \A k, o : WaitOf(t) # <<k, o>>
    BY <1>1, <1>2, WaitValues
  <2>2. QueueWait(t) = <<"out">>
    BY <1>2 DEF QueueWait, InCall, Free, Pending
  <2> QED
    BY <2>1, <2>2 DEF QueueWaitOf
<1>3. CASE ~Free(t) /\ task_state[t] # "K_DELETED"
  <2>1. PICK o \in Obj : o = arg[t]
    BY <1>3 DEF Free
  <2>2. InCall(t, {"queue", "buf_queue"}) <=> obj_kind[o] # "event"
    BY <1>1, <1>3, <2>1 DEF InCall, Free, Pending, ObjTypeOK
  <2>3. PICK k \in {"waiting"} \cup Ends : WaitOf(t) = <<k, o>>
    BY <1>1, <1>3, <2>1, WaitValues
  <2>4. WaitOf(t) \notin {<<"out">>, <<"dead">>} /\ \A j, x : WaitOf(t) = <<j, x>> => j = k /\ x = o
    BY <2>3
  <2>5. obj_kind[o] = "event" => QueueWait(t) = <<"out">>
    BY <2>2 DEF QueueWait
  <2>6. CASE blk_obj[t] # NoObj
    <3>1. k = "waiting" /\ blk_obj[t] = o
      BY <1>1, <1>3, <2>1, <2>4, <2>6, WaitValues, OnList
    <3>2. obj_kind[o] # "event" =>
            QueueWait(t) = IF SendsTo(o) THEN <<"got", o, crit.msg>> ELSE <<"waiting", o>>
      BY <1>1, <2>1, <2>2, <2>6, <3>1 DEF QueueWait, WaitOn, SendsTo
    <3> QED
      BY <2>4, <2>5, <3>1, <3>2 DEF QueueWaitOf
  <2>7. CASE blk_obj[t] = NoObj
    <3>1. obj_kind[o] # "event" => QueueWait(t) = WaitOn(t, msg[t])
      BY <1>1, <2>2, <2>7, TaskAssumption DEF QueueWait
    <3>2. blk_state[t] \in {"BLK_FINISH", "BLK_TIMEOUT", "BLK_DEL"}
      BY <1>1 DEF CoreTypeOK, BlkState
    <3>3. CASE blk_state[t] = "BLK_FINISH"
      <4>1. WaitOf(t) = <<"granted", o>> /\ WaitOn(t, msg[t]) = <<"got", o, msg[t]>>
        BY <1>1, <1>3, <2>1, <2>7, <3>3, WaitValues DEF WaitOn
      <4> QED
        BY <2>4, <2>5, <3>1, <4>1 DEF QueueWaitOf
    <3>4. CASE blk_state[t] = "BLK_TIMEOUT"
      <4>1. WaitOf(t) = <<"expired", o>> /\ WaitOn(t, msg[t]) = <<"expired", o>>
        BY <1>1, <1>3, <2>1, <2>7, <3>4, WaitValues DEF WaitOn
      <4> QED
        BY <2>4, <2>5, <3>1, <4>1 DEF QueueWaitOf
    <3>5. CASE blk_state[t] = "BLK_DEL"
      <4>1. WaitOf(t) = <<"cancelled", o>> /\ WaitOn(t, msg[t]) = <<"cancelled", o>>
        BY <1>1, <1>3, <2>1, <2>7, <3>5, WaitValues DEF WaitOn
      <4> QED
        BY <2>4, <2>5, <3>1, <4>1 DEF QueueWaitOf
    <3> QED
      BY <3>2, <3>3, <3>4, <3>5
  <2> QED
    BY <2>6, <2>7
<1> QED
  BY <1>2, <1>3

\* The same after a step.
LEMMA WaitsAfter ==
  IpcInv' => \A t \in Task : WaitKnown(t)' /\ QueueWaitOf(t)'
<1>1. (IpcInv => \A t \in Task : WaitKnown(t))' /\ (IpcInv => \A t \in Task : QueueWaitOf(t))'
  BY WaitsKnown, QueueWaits, PTL
<1> QED
  BY <1>1

\* AbstractQueue sees no change of a wait that goes on.
LEMMA QueueWaitKept ==
  ASSUME IpcInv, IpcInv', NEW t \in Task, WaitOf(t)' = WaitOf(t), obj_kind' = obj_kind, msg'[t] = msg[t],
         \A o \in Obj : WaitOf(t) = <<"waiting", o>> =>
           (SendsTo(o)' <=> SendsTo(o)) /\ (SendsTo(o) => crit'.msg = crit.msg)
  PROVE  QWait'[t] = QWait[t]
<1>1. QueueWaitOf(t) /\ QueueWaitOf(t)' /\ WaitKnown(t)
  BY WaitsKnown, QueueWaits, WaitsAfter
<1>2. QWait[t] = QueueWait(t) /\ QWait'[t] = QueueWait(t)'
  BY DEF QWait
<1>3. CASE WaitOf(t) \in {<<"out">>, <<"dead">>}
  BY <1>1, <1>2, <1>3 DEF QueueWaitOf
<1>4. ASSUME NEW o \in Obj, NEW k \in {"waiting"} \cup Ends, WaitOf(t) = <<k, o>>
      PROVE  QueueWait(t)' = QueueWait(t)
  <2>1. CASE obj_kind[o] = "event"
    BY <1>1, <1>4, <2>1 DEF QueueWaitOf
  <2>2. CASE obj_kind[o] # "event" /\ k = "waiting"
    BY <1>1, <1>4, <2>2 DEF QueueWaitOf
  <2>3. CASE obj_kind[o] # "event" /\ k \in Ends
    BY <1>1, <1>4, <2>3 DEF QueueWaitOf, Ends
  <2> QED
    BY <2>1, <2>2, <2>3
<1> QED
  BY <1>1, <1>2, <1>3, <1>4 DEF WaitKnown

LEMMA QDataKept ==
  ASSUME UNCHANGED <<obj_kind, obj_type, ring>> PROVE QAlive' = QAlive /\ QMsgs' = QMsgs
  BY DEF QAlive, QMsgs

\* Steps that AbstractQueue does not see.
LEMMA QQuiet ==
  ASSUME QAlive' = QAlive, QMsgs' = QMsgs, \A t \in Task : QWait'[t] = QWait[t], QRet' = NoRet
  PROVE  AbsQueue!Next
<1>1. QWait' = QWait
  BY DEF QWait
<1>2. AbsQueue!Quiet
  BY <1>1 DEF AbsQueue!Quiet, QAlive, QMsgs, QWait, QRet
<1> QED
  BY <1>2 DEF AbsQueue!Next

\* One wait moves on.
LEMMA QMoves ==
  ASSUME QAlive' = QAlive, QMsgs' = QMsgs, NEW t \in Task, NEW to, QWait'[t] = to,
         \A u \in Task \ {t} : QWait'[u] = QWait[u]
  PROVE  AbsQueue!Move(t, to)
<1>1. QWait' = [QWait EXCEPT ![t] = to]
  BY DEF QWait
<1> QED
  BY <1>1 DEF AbsQueue!Move, QAlive, QMsgs, QWait

LEMMA NoSends ==
  ASSUME crit.op # "all_send", crit'.op # "all_send"
  PROVE  \A o : ~SendsTo(o) /\ ~SendsTo(o)'
  BY DEF SendsTo

\* CallReturns, seen from the core: nothing is returned unless the core's step is a return.
LEMMA NoReturn ==
  ASSUME IpcInv, CoreNext, CallReturns, ~ \E t \in Task : Returning(t)
  PROVE  CoreMove /\ ret' = NoRet /\ UNCHANGED <<pend, pend_info, msg>>
<1>1. CoreInv /\ CallOK /\ g_active_task \in Task
  BY DEF IpcInv, CoreInv, CoreTypeOK
<1>2. CoreMove
  BY <1>1, CoreNext_Call
<1>3. ~ (pc[g_active_task] = "pend_end" /\ pc'[g_active_task] = "user")
  BY <1>1, OnlyReturns, EndProc_Call
<1> QED
  BY <1>2, <1>3 DEF CallReturns

LEMMA Return_Queue ==
  ASSUME IpcInv, IpcInv', NEW t \in Task, Returning(t), CallReturns,
         UNCHANGED <<obj_kind, obj_type, ring>>, crit.op # "all_send", crit'.op # "all_send"
  PROVE  AbsQueue!Next
<1>1. /\ t = g_active_task /\ pc[t] = "pend_end" /\ pc'[t] = "user" /\ ObjTypeOK
      /\ \A u \in Task \ {t} : WaitOf(u)' = WaitOf(u)
      /\ WaitOf(t)' = <<"out">> /\ ResultOK /\ QueueWaitOf(t) /\ QueueWaitOf(t)'
  BY TypeParts, QueueWaits, WaitsAfter DEF Returning, IpcInv
<1>2. \A u \in Task \ {t} : msg'[u] = msg[u]
  BY <1>1, ReturnParts
<1>3. \A u \in Task \ {t} : QWait'[u] = QWait[u]
  BY <1>1, <1>2, NoSends, QueueWaitKept
<1>4. QWait[t] = QueueWait(t) /\ QWait'[t] = <<"out">>
  BY <1>1 DEF QWait, QueueWaitOf
<1>5. QAlive' = QAlive /\ QMsgs' = QMsgs
  BY QDataKept
<1>6. CASE arg[t] \notin Obj
  <2>1. QWait[t] = <<"out">>
    BY <1>1, <1>4, <1>6 DEF Returning, QueueWaitOf
  <2>2. QRet' = NoRet
    BY <1>1, <1>6 DEF CallReturns, QRet
  <2> QED
    BY <1>3, <1>4, <1>5, <2>1, <2>2, QQuiet
<1>7. CASE arg[t] \in Obj /\ obj_kind[arg[t]] = "event"
  <2>1. PICK o \in Obj : o = arg[t] /\ obj_kind[o] = "event"
    BY <1>7
  <2>2. ret' = get_result(t)
    BY <1>1, <2>1 DEF CallReturns
  <2>3. ret'.obj = o
    BY <2>1, <2>2 DEF get_result, Returned
  <2>4. QRet' = NoRet
    BY <2>1, <2>3 DEF QRet
  <2>5. blk_state[t] \in {"BLK_FINISH", "BLK_TIMEOUT", "BLK_DEL"}
    BY DEF IpcInv, CoreInv, CoreTypeOK, BlkState
  <2>6. \E k : WaitOf(t) = <<k, o>>
    BY <2>1, <2>5 DEF Returning
  <2>7. QWait[t] = <<"out">>
    BY <1>1, <1>4, <2>1, <2>6 DEF QueueWaitOf
  <2> QED
    BY <1>3, <1>4, <1>5, <2>4, <2>7, QQuiet
<1>8. CASE arg[t] \in Obj /\ obj_kind[arg[t]] # "event"
  <2>1. PICK o \in Obj : o = arg[t] /\ obj_kind[o] # "event"
    BY <1>8
  <2>2. ret' = recv_result(t)
    BY <1>1, <2>1 DEF CallReturns
  <2>3. AbsQueue!Move(t, <<"out">>)
    BY <1>3, <1>4, <1>5, QMoves
  <2>4. blk_state[t] \in {"BLK_FINISH", "BLK_TIMEOUT", "BLK_DEL"}
    BY DEF IpcInv, CoreInv, CoreTypeOK, BlkState
  <2>5. \/ WaitOf(t) = <<"granted", o>> /\ blk_state[t] = "BLK_FINISH"
        \/ WaitOf(t) \in {<<"expired", o>>, <<"cancelled", o>>} /\ blk_state[t] # "BLK_FINISH"
    BY <2>1, <2>4 DEF Returning
  <2>6. \/ \E m \in Msg : QWait[t] = <<"got", o, m>> /\ ret' = Returned(t, o, m)
        \/ QWait[t] \in {<<"expired", o>>, <<"cancelled", o>>} /\ ret' = Returned(t, o, NULL)
    <3>1. CASE WaitOf(t) = <<"granted", o>> /\ blk_state[t] = "BLK_FINISH"
      <4>1. msg[t] \in Msg
        BY <1>1, <2>1, <3>1 DEF ResultOK, ResultOf
      <4>2. QWait[t] = <<"got", o, msg[t]>>
        BY <1>1, <1>4, <2>1, <3>1 DEF QueueWaitOf
      <4>3. ret' = Returned(t, o, msg[t])
        BY <2>1, <2>2, <3>1 DEF recv_result
      <4> QED
        BY <4>1, <4>2, <4>3
    <3>2. CASE WaitOf(t) \in {<<"expired", o>>, <<"cancelled", o>>} /\ blk_state[t] # "BLK_FINISH"
      <4>1. QWait[t] \in {<<"expired", o>>, <<"cancelled", o>>}
        BY <1>1, <1>4, <2>1, <3>2 DEF QueueWaitOf
      <4>2. ret' = Returned(t, o, NULL)
        BY <2>1, <2>2, <3>2 DEF recv_result
      <4> QED
        BY <4>1, <4>2
    <3> QED
      BY <2>5, <3>1, <3>2
  <2>7. ret'.obj = o
    BY <2>6 DEF Returned
  <2>8. QRet' = ret'
    BY <2>1, <2>7 DEF QRet
  <2>9. AbsQueue!Return(t, o)
    BY <2>3, <2>6, <2>8 DEF AbsQueue!Return, AbsQueue!Returned, AbsQueue!Out, Returned, QWait, QRet
  <2> QED
    BY <2>9 DEF AbsQueue!Next
<1> QED
  BY <1>6, <1>7, <1>8

LEMMA CoreNext_Queue ==
  ASSUME IpcInv, IpcInv', CoreNext, CallReturns, UNCHANGED <<objVars, ring, cur_num, freesize, flags>>
  PROVE  AbsQueue!Next
<1>1. /\ crit' \in {crit, NoCrit, ErrCrit, [op |-> "tick", obj |-> NoObj]}
      /\ crit = NoCrit \/ crit.op = "tick"
  BY CoreNoWaiter DEF IpcInv
<1>2. crit'.op # "all_send" /\ crit.op # "all_send" /\ UNCHANGED <<obj_kind, obj_type, ring>>
  BY <1>1 DEF NoCrit, ErrCrit, objVars
<1>3. CASE \E t \in Task : Returning(t)
  BY <1>2, <1>3, Return_Queue
<1>4. CASE ~ \E t \in Task : Returning(t)
  <2>1. CoreMove /\ ret' = NoRet /\ UNCHANGED msg
    BY <1>4, NoReturn
  <2>2. QAlive' = QAlive /\ QMsgs' = QMsgs /\ QRet' = NoRet
    BY <1>2, <2>1, QDataKept DEF QRet
  <2>3. ASSUME NEW u \in Task, WaitOf(u)' = WaitOf(u) PROVE QWait'[u] = QWait[u]
    BY <1>2, <2>1, <2>3, NoSends, QueueWaitKept
  <2>4. ASSUME NEW t \in Task, \A u \in Task \ {t} : WaitOf(u)' = WaitOf(u),
               WaitOf(t)' \in {<<"out">>, <<"dead">>}
        PROVE  AbsQueue!Next
    <3>1. QWait'[t] = <<"out">>
      BY <2>4, WaitsAfter DEF QueueWaitOf, QWait
    <3>2. \A u \in Task \ {t} : QWait'[u] = QWait[u]
      BY <2>3, <2>4
    <3>3. CASE QWait[t] = <<"out">>
      BY <2>2, <3>1, <3>2, <3>3, QQuiet
    <3>4. CASE QWait[t] # <<"out">>
      <4>1. AbsQueue!Move(t, <<"out">>)
        BY <2>2, <3>1, <3>2, QMoves
      <4>2. AbsQueue!Kill(t)
        BY <2>2, <3>4, <4>1 DEF AbsQueue!Kill, AbsQueue!Out, QWait, QRet
      <4> QED
        BY <4>2 DEF AbsQueue!Next
    <3> QED
      BY <3>3, <3>4
  <2> QED
    BY <2>1, <2>2, <2>3, <2>4, QQuiet DEF CoreMove
<1> QED
  BY <1>3, <1>4

\* A wait for flags is nothing that AbstractQueue sees.
LEMMA QUnseen ==
  ASSUME IpcInv, IpcInv', obj_kind' = obj_kind, NEW t \in Task, NEW o \in Obj, obj_kind[o] = "event",
         WaitOf(t) = <<"out">> \/ \E k : WaitOf(t) = <<k, o>>, \E k : WaitOf(t)' = <<k, o>>
  PROVE  QWait'[t] = QWait[t]
  BY QueueWaits, WaitsAfter DEF QueueWaitOf, QWait

LEMMA QRetNone == ASSUME ret' = NoRet PROVE QRet' = NoRet
  BY DEF QRet

\* Nothing is lost by a step that ends a wait for flags.
LEMMA EventWake_Queue ==
  ASSUME IpcInv, IpcInv', UNCHANGED <<obj_kind, obj_type, ring, msg>>, ret' = NoRet,
         crit.op # "all_send", crit'.op # "all_send", NEW t \in Task, NEW o \in Obj, obj_kind[o] = "event",
         \A u \in Task \ {t} : WaitOf(u)' = WaitOf(u),
         WaitOf(t) = <<"out">> \/ \E k : WaitOf(t) = <<k, o>>, \E k : WaitOf(t)' = <<k, o>>
  PROVE  AbsQueue!Next
<1>1. \A u \in Task \ {t} : QWait'[u] = QWait[u]
  BY NoSends, QueueWaitKept
<1>2. QWait'[t] = QWait[t]
  BY QUnseen
<1> QED
  BY <1>1, <1>2, QDataKept, QRetNone, QQuiet

\* Who waits is on a list, so the object is in use or is being deleted.
LEMMA WaitsAlive ==
  ASSUME IpcInv, NEW t \in Task, NEW o \in Obj, WaitOf(t) = <<"waiting", o>>
  PROVE  blk_list[o] # << >> /\ ring[o] = << >> /\ (crit.op # "obj_del" => obj_type[o])
<1>1. blk_list[o] # << >>
  BY NobodyOnList DEF IpcInv
<1> QED
  BY <1>1 DEF IpcInv, WaitersOK

LEMMA Timeout_Queue ==
  ASSUME IpcInv, IpcInv', NEW t \in Task, tick_pend_timeout(t), UNCHANGED crit, CallReturns,
         UNCHANGED <<objVars, ring, cur_num, freesize, flags>>
  PROVE  AbsQueue!Next
<1>1. /\ unpend(t) /\ crit.op = "tick" /\ blk_state' = [blk_state EXCEPT ![t] = "BLK_TIMEOUT"]
      /\ UNCHANGED <<prio, suspend_count, rrVars, g_tick_count, cpuVars, callVars>>
      /\ crit # NoCrit /\ crit' # NoCrit /\ "BLK_TIMEOUT" \in BlkState
  BY DEF tick_pend_timeout, NoCrit, BlkState
<1>2. UNCHANGED <<obj_kind, obj_type, ring, msg>> /\ ret' = NoRet
  BY Timeout_Ipc DEF objVars
<1>3. PICK o \in Obj : o = blk_obj[t]
  BY <1>1, WakeInLoop DEF IpcInv
<1>4. /\ \A u \in Task \ {t} : WaitOf(u)' = WaitOf(u)
      /\ WaitOf(t) = <<"waiting", o>> /\ WaitOf(t)' = <<"expired", o>>
  BY <1>1, <1>3, WakeInLoop DEF IpcInv
<1>5. CASE obj_kind[o] = "event"
  BY <1>1, <1>2, <1>4, <1>5, EventWake_Queue
<1>6. CASE obj_kind[o] # "event"
  <2>1. \A u \in Task \ {t} : QWait'[u] = QWait[u]
    BY <1>1, <1>2, <1>4, NoSends, QueueWaitKept
  <2>2. QWait[t] = <<"waiting", o>> /\ QWait'[t] = <<"expired", o>>
    BY <1>1, <1>2, <1>4, <1>6, QueueWaits, WaitsAfter DEF QueueWaitOf, QWait, SendsTo
  <2>3. AbsQueue!Move(t, <<"expired", o>>)
    BY <1>2, <2>1, <2>2, QDataKept, QMoves
  <2>4. o \in QAlive
    BY <1>1, <1>4, <1>6, WaitsAlive DEF QAlive
  <2>5. AbsQueue!Expire(t, o)
    BY <1>2, <2>2, <2>3, <2>4, QRetNone DEF AbsQueue!Expire, QAlive, QWait, QRet
  <2> QED
    BY <2>5 DEF AbsQueue!Next
<1> QED
  BY <1>5, <1>6

LEMMA obj_del_turn_Queue ==
  ASSUME IpcInv, IpcInv', NEW t \in Task, obj_del_turn(t), UNCHANGED <<msgVars, eventVars>>, ret' = NoRet
  PROVE  AbsQueue!Next
<1>1. /\ unpend(t) /\ crit.op = "obj_del" /\ blk_state' = [blk_state EXCEPT ![t] = "BLK_DEL"]
      /\ blk_list[crit.obj] # << >> /\ t = Head(blk_list[crit.obj])
      /\ UNCHANGED <<prio, suspend_count, rrVars, g_tick_count, cpuVars, callVars, crit>>
      /\ UNCHANGED <<obj_kind, obj_type, ring, msg>>
      /\ crit # NoCrit /\ crit' # NoCrit /\ "BLK_DEL" \in BlkState
  BY DEF obj_del_turn, pend_task_rm, NoCrit, BlkState, objVars, msgVars
<1>2. PICK o \in Obj : o = crit.obj /\ ~obj_type[o] /\ WaitOf(t) = <<"waiting", o>>
  BY <1>1, FirstOnList DEF IpcInv, LoopOK, Loops
<1>3. o = blk_obj[t]
  BY <1>2, OnList DEF IpcInv
<1>4. (\A u \in Task \ {t} : WaitOf(u)' = WaitOf(u)) /\ WaitOf(t)' = <<"cancelled", o>>
  BY <1>1, <1>3, WakeInLoop DEF IpcInv
<1>5. CASE obj_kind[o] = "event"
  BY <1>1, <1>2, <1>4, <1>5, EventWake_Queue
<1>6. CASE obj_kind[o] # "event"
  <2>1. \A u \in Task \ {t} : QWait'[u] = QWait[u]
    BY <1>1, <1>4, NoSends, QueueWaitKept
  <2>2. QWait[t] = <<"waiting", o>> /\ QWait'[t] = <<"cancelled", o>>
    BY <1>1, <1>2, <1>4, <1>6, QueueWaits, WaitsAfter DEF QueueWaitOf, QWait, SendsTo
  <2>3. AbsQueue!Move(t, <<"cancelled", o>>)
    BY <1>1, <2>1, <2>2, QDataKept, QMoves
  <2>4. o \notin QAlive
    BY <1>2 DEF QAlive
  <2>5. AbsQueue!Cancel(t, o)
    BY <1>1, <2>2, <2>3, <2>4, QRetNone DEF AbsQueue!Cancel, QAlive, QWait, QRet
  <2> QED
    BY <2>5 DEF AbsQueue!Next
<1> QED
  BY <1>5, <1>6

\* The message was the waiter's when the loop began.
LEMMA all_send_turn_Queue ==
  ASSUME IpcInv, IpcInv', NEW t \in Task, all_send_turn(t), UNCHANGED eventVars, ret' = NoRet
  PROVE  AbsQueue!Next
<1>1. /\ unpend(t) /\ crit.op = "all_send" /\ blk_state' = [blk_state EXCEPT ![t] = "BLK_FINISH"]
      /\ msg' = [msg EXCEPT ![t] = crit.msg]
      /\ blk_list[crit.obj] # << >> /\ t = Head(blk_list[crit.obj])
      /\ UNCHANGED <<prio, suspend_count, rrVars, g_tick_count, cpuVars, callVars, crit>>
      /\ UNCHANGED <<obj_kind, obj_type, ring>>
      /\ crit # NoCrit /\ crit' # NoCrit /\ "BLK_FINISH" \in BlkState
  BY DEF all_send_turn, task_msg_recv, pend_task_wakeup, NoCrit, BlkState, objVars
<1>2. PICK o \in Obj : o = crit.obj /\ WaitOf(t) = <<"waiting", o>> /\ obj_kind[o] # "event"
  BY <1>1, FirstOnList DEF IpcInv, LoopOK, Loops
<1>3. o = blk_obj[t]
  BY <1>2, OnList DEF IpcInv
<1>4. (\A u \in Task \ {t} : WaitOf(u)' = WaitOf(u)) /\ WaitOf(t)' = <<"granted", o>>
  BY <1>1, <1>3, WakeInLoop DEF IpcInv
<1>5. msg'[t] = crit.msg /\ \A u \in Task \ {t} : msg'[u] = msg[u]
  BY <1>1, TypeParts DEF IpcInv, ObjTypeOK
<1>6. \A u \in Task \ {t} : QWait'[u] = QWait[u]
  <2>1. \A x : SendsTo(x)' <=> SendsTo(x)
    BY <1>1 DEF SendsTo
  <2> QED
    BY <1>1, <1>4, <1>5, <2>1, QueueWaitKept
<1>7. QWait[t] = <<"got", o, crit.msg>>
  BY <1>1, <1>2, QueueWaits DEF QueueWaitOf, QWait, SendsTo
<1>8. QWait'[t] = <<"got", o, crit.msg>>
  BY <1>1, <1>2, <1>4, <1>5, WaitsAfter DEF QueueWaitOf, QWait
<1> QED
  BY <1>1, <1>6, <1>7, <1>8, QDataKept, QRetNone, QQuiet

\* No wait changes, and krhino_queue_all_send does not start.
LEMMA QWaitsKept ==
  ASSUME IpcInv, IpcInv', \A t \in Task : WaitOf(t)' = WaitOf(t), UNCHANGED <<obj_kind, msg>>,
         crit'.op # "all_send", crit.op = "all_send" => blk_list[crit.obj] = << >>
  PROVE  \A t \in Task : QWait'[t] = QWait[t]
<1> SUFFICES ASSUME NEW t \in Task PROVE QWait'[t] = QWait[t]
  OBVIOUS
<1>1. ASSUME NEW o \in Obj, WaitOf(t) = <<"waiting", o>> PROVE ~SendsTo(o) /\ ~SendsTo(o)'
  BY <1>1, WaitsAlive DEF SendsTo
<1> QED
  BY <1>1, QueueWaitKept

LEMMA LoopDone_Queue ==
  ASSUME IpcInv, IpcInv', crit.op \in Loops, LoopDone, ret' = NoRet, msg' = msg,
         crit.op \in {"obj_del", "all_send"} => blk_list[crit.obj] = << >>,
         \A o \in Obj : ring'[o] = ring[o] \/ (~obj_type[o] /\ ring'[o] = << >>)
  PROVE  AbsQueue!Next
<1>1. /\ \A t \in Task : WaitOf(t)' = WaitOf(t)
      /\ UNCHANGED <<obj_kind, obj_type>>
  BY LoopDone_Ipc
<1>2. crit'.op # "all_send"
  BY DEF LoopDone, NoCrit
<1>3. \A t \in Task : QWait'[t] = QWait[t]
  BY <1>1, <1>2, QWaitsKept
<1>4. QAlive' = QAlive /\ QMsgs' = QMsgs
  <2>1. \A o \in Obj : (IF obj_type'[o] THEN ring'[o] ELSE << >>) = (IF obj_type[o] THEN ring[o] ELSE << >>)
    BY <1>1
  <2> QED
    BY <1>1, <2>1 DEF QAlive, QMsgs
<1> QED
  BY <1>3, <1>4, QRetNone, QQuiet

LEMMA Loop_Queue ==
  ASSUME IpcInv, IpcInv', \/ QueueLoop /\ UNCHANGED eventVars
                          \/ EventLoop /\ UNCHANGED msgVars
  PROVE  AbsQueue!Next
<1>1. ret' = NoRet
  BY DEF QueueLoop, EventLoop
<1>2. CASE queue_del_done
  <2>1. PICK o \in Obj : o = crit.obj /\ crit.op = "obj_del" /\ ~obj_type[o]
    BY <1>2 DEF queue_del_done, obj_del_done, IpcInv, LoopOK, Loops
  <2>2. LoopDone /\ blk_list[crit.obj] = << >> /\ ring' = [ring EXCEPT ![o] = << >>] /\ msg' = msg
    BY <1>2, <2>1 DEF queue_del_done, obj_del_done, ring_reset
  <2>3. \A x \in Obj : ring'[x] = ring[x] \/ (~obj_type[x] /\ ring'[x] = << >>)
    BY <2>1, <2>2, TypeParts DEF IpcInv, ObjTypeOK
  <2> QED
    BY <1>1, <2>1, <2>2, <2>3, LoopDone_Queue DEF Loops
<1>3. CASE all_send_done \/ (event_set_done /\ UNCHANGED msgVars) \/ (event_del_done /\ UNCHANGED msgVars)
  <2>1. /\ crit.op \in Loops /\ LoopDone /\ UNCHANGED <<ring, msg>>
        /\ crit.op \in {"obj_del", "all_send"} => blk_list[crit.obj] = << >>
    BY <1>3 DEF all_send_done, event_set_done, event_del_done, obj_del_done, msgVars, Loops
  <2> QED
    BY <1>1, <2>1, LoopDone_Queue
<1>4. ASSUME NEW t \in Task, all_send_turn(t), UNCHANGED eventVars PROVE AbsQueue!Next
  BY <1>1, <1>4, all_send_turn_Queue
<1>5. ASSUME NEW t \in Task, event_set_turn(t), UNCHANGED msgVars PROVE AbsQueue!Next
  <2>1. /\ crit.op = "event_set" /\ crit.iter # << >> /\ t = Head(crit.iter)
        /\ crit' = [crit EXCEPT !.iter = Tail(@)]
        /\ UNCHANGED <<rrVars, g_tick_count, cpuVars, callVars>>
        /\ UNCHANGED <<obj_kind, obj_type, ring, msg>>
    BY <1>5 DEF event_set_turn, objVars, msgVars
  <2>2. /\ crit \in [op : {"event_set"}, obj : Obj, flags : SUBSET Flag, iter : Seq(Task)]
        /\ obj_kind[crit.obj] = "event"
    BY <2>1 DEF IpcInv, LoopOK
  <2>3. crit' # NoCrit /\ crit # NoCrit /\ crit'.op = "event_set"
    BY <2>1, <2>2 DEF NoCrit
  <2>4. PICK o \in Obj : o = crit.obj /\ obj_kind[o] = "event" /\ WaitOf(t) = <<"waiting", o>>
    BY <2>1, <2>2, FirstInTurn
  <2>5. CASE pend_task_wakeup(t) /\ UNCHANGED <<prio, suspend_count>>
    <3>1. unpend(t) /\ blk_state' = [blk_state EXCEPT ![t] = "BLK_FINISH"] /\ "BLK_FINISH" \in BlkState
      BY <2>5 DEF pend_task_wakeup, BlkState
    <3>2. o = blk_obj[t]
      BY <2>4, OnList DEF IpcInv
    <3>3. (\A u \in Task \ {t} : WaitOf(u)' = WaitOf(u)) /\ WaitOf(t)' = <<"granted", o>>
      BY <2>1, <2>3, <2>5, <3>1, <3>2, WakeInLoop DEF IpcInv
    <3> QED
      BY <1>1, <2>1, <2>3, <2>4, <3>3, EventWake_Queue
  <2>6. CASE UNCHANGED tcbVars
    <3>1. \A u \in Task : WaitOf(u)' = WaitOf(u)
      BY <2>1, <2>6, WaitsStay DEF IpcInv
    <3> QED
      BY <1>1, <2>1, <2>3, <3>1, QWaitsKept, QDataKept, QRetNone, QQuiet
  <2> QED
    BY <1>5, <2>5, <2>6 DEF event_set_turn
<1> QED
  BY <1>2, <1>3, <1>4, <1>5 DEF QueueLoop, EventLoop

-----------------------------------------------------------------------------
\* The services, as AbstractQueue sees them.
LEMMA QWaiting ==
  ASSUME IpcInv, crit = NoCrit, NEW t \in Task, NEW o \in Obj
  PROVE  QWait[t] = <<"waiting", o>> <=> WaitOf(t) = <<"waiting", o>> /\ obj_kind[o] # "event"
<1>1. QWait[t] = QueueWait(t) /\ QueueWaitOf(t) /\ WaitKnown(t) /\ \A x : ~SendsTo(x)
  BY QueueWaits, WaitsKnown DEF QWait, SendsTo, NoCrit
<1>2. ASSUME QWait[t] = <<"waiting", o>> PROVE WaitOf(t) = <<"waiting", o>> /\ obj_kind[o] # "event"
  <2>1. WaitOf(t) \notin {<<"out">>, <<"dead">>}
    BY <1>1, <1>2 DEF QueueWaitOf
  <2>2. PICK x \in Obj, k \in {"waiting"} \cup Ends : WaitOf(t) = <<k, x>>
    BY <1>1, <2>1 DEF WaitKnown
  <2>3. ASSUME obj_kind[x] = "event" PROVE FALSE
    <3>1. QueueWait(t) = <<"out">>
      BY <1>1, <2>2, <2>3 DEF QueueWaitOf
    <3>2. <<"out">> # <<"waiting", o>>
      OBVIOUS
    <3> QED
      BY <1>1, <1>2, <3>1, <3>2
  <2>4. k = "waiting" /\ x = o
    <3>1. \/ k = "waiting" /\ QueueWait(t) = <<"waiting", x>>
          \/ QueueWait(t) = <<"got", x, msg[t]>>
          \/ QueueWait(t) = <<"expired", x>> \/ QueueWait(t) = <<"cancelled", x>>
      BY <1>1, <2>2, <2>3 DEF QueueWaitOf, Ends
    <3> QED
      BY <1>1, <1>2, <3>1
  <2> QED
    BY <2>2, <2>3, <2>4
<1> QED
  BY <1>1, <1>2 DEF QueueWaitOf

LEMMA QCreate ==
  ASSUME IpcInv, IpcInv', crit = NoCrit, crit' = crit, NEW o \in Obj, NEW kind, obj_create(o, kind),
         UNCHANGED msg, ret' = NoRet, \A t \in Task : WaitOf(t)' = WaitOf(t), blk_list[o] = << >>,
         IF kind = "event" THEN UNCHANGED ring ELSE ring' = [ring EXCEPT ![o] = << >>]
  PROVE  AbsQueue!Next
<1>1. /\ ObjTypeOK /\ obj_kind[o] = kind /\ ~obj_type[o] /\ obj_kind' = obj_kind /\ KindOK
      /\ obj_type' = [obj_type EXCEPT ![o] = TRUE]
  BY TypeParts DEF IpcInv, obj_create
<1>2. obj_type'[o] /\ \A x \in Obj \ {o} : obj_type'[x] = obj_type[x] /\ ring'[x] = ring[x]
  BY <1>1 DEF ObjTypeOK
<1>3. \A t \in Task : QWait'[t] = QWait[t]
  BY <1>1, QWaitsKept DEF NoCrit
<1>4. ring'[o] = << >>
  BY <1>1 DEF ObjTypeOK, KindOK
<1>5. QMsgs' = QMsgs /\ QMsgs[o] = << >>
  BY <1>1, <1>2, <1>4 DEF QMsgs
<1>6. CASE kind = "event"
  <2>1. QAlive' = QAlive
    BY <1>1, <1>2, <1>6 DEF QAlive
  <2> QED
    BY <1>3, <1>5, <2>1, QRetNone, QQuiet
<1>7. CASE kind # "event"
  <2>1. QAlive' = QAlive \cup {o} /\ o \notin QAlive
    BY <1>1, <1>2, <1>7 DEF QAlive
  <2>2. QMsgs' = [QMsgs EXCEPT ![o] = << >>]
    BY <1>5 DEF QMsgs
  <2>3. ASSUME NEW t \in Task, QWait[t] = <<"waiting", o>> PROVE FALSE
    BY <2>3, QWaiting, WaitsAlive
  <2>4. QWait' = QWait
    BY <1>3 DEF QWait
  <2>5. AbsQueue!Create(o)
    BY <2>1, <2>2, <2>3, <2>4, QRetNone DEF AbsQueue!Create, AbsQueue!Waiting, QAlive, QMsgs, QWait, QRet
  <2> QED
    BY <2>5 DEF AbsQueue!Next
<1> QED
  BY <1>6, <1>7

LEMMA QDelete ==
  ASSUME IpcInv, IpcInv', crit = NoCrit, NEW o \in Obj, NEW kind, obj_del(o, kind),
         UNCHANGED <<msgVars, eventVars>>, ret' = NoRet, \A t \in Task : WaitOf(t)' = WaitOf(t)
  PROVE  AbsQueue!Next
<1>1. /\ ObjTypeOK /\ obj_kind[o] = kind /\ obj_type[o] /\ obj_kind' = obj_kind /\ KindOK
      /\ obj_type' = [obj_type EXCEPT ![o] = FALSE] /\ crit'.op = "obj_del" /\ UNCHANGED <<ring, msg>>
  BY TypeParts DEF IpcInv, obj_del, msgVars
<1>2. ~obj_type'[o] /\ \A x \in Obj \ {o} : obj_type'[x] = obj_type[x]
  BY <1>1 DEF ObjTypeOK
<1>3. \A t \in Task : QWait'[t] = QWait[t]
  BY <1>1, QWaitsKept DEF NoCrit
<1>4. QMsgs' = [QMsgs EXCEPT ![o] = << >>]
  BY <1>1, <1>2 DEF QMsgs
<1>5. CASE kind = "event"
  <2>1. QAlive' = QAlive
    BY <1>1, <1>2, <1>5 DEF QAlive
  <2>2. QMsgs[o] = << >>
    BY <1>1, <1>5 DEF KindOK, QMsgs
  <2>3. QMsgs' = QMsgs
    BY <1>4, <2>2 DEF QMsgs
  <2> QED
    BY <1>3, <2>1, <2>3, QRetNone, QQuiet
<1>6. CASE kind # "event"
  <2>1. QAlive' = QAlive \ {o} /\ o \in QAlive
    BY <1>1, <1>2, <1>6 DEF QAlive
  <2>2. QWait' = QWait
    BY <1>3 DEF QWait
  <2>3. AbsQueue!Delete(o)
    BY <1>4, <2>1, <2>2, QRetNone DEF AbsQueue!Delete, QAlive, QMsgs, QWait, QRet
  <2> QED
    BY <2>3 DEF AbsQueue!Next
<1> QED
  BY <1>5, <1>6

\* Only the messages of one queue change.
LEMMA QMsgsAt ==
  ASSUME IpcInv, UNCHANGED objVars, NEW o \in Obj, obj_type[o], NEW s, ring' = [ring EXCEPT ![o] = s]
  PROVE  QAlive' = QAlive /\ QMsgs[o] = ring[o] /\ QMsgs' = [QMsgs EXCEPT ![o] = s]
<1>1. ObjTypeOK /\ UNCHANGED <<obj_kind, obj_type>>
  BY TypeParts DEF IpcInv, objVars
<1>2. ring'[o] = s /\ \A x \in Obj \ {o} : ring'[x] = ring[x]
  BY <1>1 DEF ObjTypeOK
<1> QED
  BY <1>1, <1>2 DEF QAlive, QMsgs

LEMMA QPush ==
  ASSUME IpcInv, IpcInv', crit = NoCrit, UNCHANGED <<coreVars, objVars, msg, eventVars>>, ret' = NoRet,
         NEW o \in Obj, NEW m \in Msg, obj_type[o], obj_kind[o] # "event", blk_list[o] = << >>, Push(o, m),
         \A t \in Task : WaitOf(t)' = WaitOf(t)
  PROVE  AbsQueue!Next
<1>1. /\ ring' = [ring EXCEPT ![o] = Append(ring[o], m)] /\ UNCHANGED <<obj_kind, msg>>
      /\ crit'.op # "all_send" /\ crit.op # "all_send"
  BY DEF Push, objVars, coreVars, NoCrit
<1>2. QAlive' = QAlive /\ QMsgs[o] = ring[o] /\ QMsgs' = [QMsgs EXCEPT ![o] = Append(ring[o], m)]
  BY <1>1, QMsgsAt
<1>3. \A t \in Task : QWait'[t] = QWait[t]
  BY <1>1, QWaitsKept
<1>4. QWait' = QWait
  BY <1>3 DEF QWait
<1>5. \A t \in Task : QWait[t] # <<"waiting", o>>
  BY QWaiting, WaitsAlive
<1>6. o \in QAlive /\ QMsgs' = [QMsgs EXCEPT ![o] = Append(QMsgs[o], m)]
  BY <1>2 DEF QAlive
<1>7. AbsQueue!Send(o, m)
  BY <1>2, <1>4, <1>5, <1>6, QRetNone, ZenonT(60) DEF AbsQueue!Send, AbsQueue!Waiting, QAlive, QMsgs, QWait, QRet
<1> QED
  BY <1>7 DEF AbsQueue!Next

\* A message goes to tasks that wait.
LEMMA QHands ==
  ASSUME IpcInv, IpcInv', crit = NoCrit, UNCHANGED <<obj_kind, obj_type, ring>>, ret' = NoRet,
         NEW o \in Obj, NEW m \in Msg, obj_type[o], obj_kind[o] # "event", ring[o] = << >>,
         NEW W \in SUBSET Task, W # {}, \A t \in W : WaitOf(t) = <<"waiting", o>>,
         \A t \in Task : QWait'[t] = IF t \in W THEN <<"got", o, m>> ELSE QWait[t]
  PROVE  AbsQueue!Hand(o, m, W)
<1>1. QAlive' = QAlive /\ QMsgs' = QMsgs /\ QMsgs[o] = << >> /\ o \in QAlive
  BY QDataKept DEF QAlive, QMsgs
<1>2. \A t \in W : QWait[t] = <<"waiting", o>>
  BY QWaiting
<1>3. QWait' = [t \in Task |-> IF t \in W THEN <<"got", o, m>> ELSE QWait[t]]
  BY DEF QWait
<1> QED
  BY <1>1, <1>2, <1>3, QRetNone DEF AbsQueue!Hand, AbsQueue!Waiting, QAlive, QMsgs, QWait, QRet

LEMMA Send_Queue ==
  ASSUME IpcInv, IpcInv', NEW o \in Obj, NEW m \in Msg, UNCHANGED eventVars, ret' = NoRet,
         krhino_queue_back_send(o, m) \/ krhino_buf_queue_send(o, m)
  PROVE  AbsQueue!Next
<1>1. PICK api : AnyCall(api)
  BY DEF krhino_queue_back_send, krhino_buf_queue_send
<1>2. /\ SendOne(o, m) /\ obj_type[o] /\ obj_kind[o] # "event" /\ crit = NoCrit
      /\ blk_list[o] = << >> => \/ obj_kind[o] = "queue" /\ ~queue_is_full(o)
                                \/ obj_kind[o] = "buf_queue" /\ freesize[o] >= Bytes[m]
  BY <1>1, CallPoint DEF krhino_queue_back_send, krhino_buf_queue_send
<1>3. CASE blk_list[o] = << >> /\ Push(o, m) /\ UNCHANGED <<coreVars, objVars, msg, eventVars>>
  <2>1. \A t \in Task : WaitOf(t)' = WaitOf(t)
    BY <1>2, <1>3, Push_Ipc
  <2> QED
    BY <1>2, <1>3, <2>1, QPush
<1>4. CASE /\ blk_list[o] # << >> /\ task_msg_recv(Head(blk_list[o]), m) /\ RHINO_CRITICAL_EXIT_SCHED
           /\ UNCHANGED <<prio, suspend_count, rrVars, g_tick_count, cpuVars, crit>>
           /\ UNCHANGED <<objVars, ring, cur_num, freesize, eventVars>>
  <2>1. PICK t \in Task :
          /\ crit' = crit /\ ring[o] = << >>
          /\ \A u \in Task \ {t} : WaitOf(u)' = WaitOf(u) /\ msg'[u] = msg[u]
          /\ WaitOf(t) = <<"waiting", o>> /\ WaitOf(t)' = <<"granted", o>> /\ msg'[t] = m
    BY <1>1, <1>2, <1>4, Hand_Ipc
  <2>2. UNCHANGED <<obj_kind, obj_type, ring>> /\ crit.op # "all_send" /\ crit'.op # "all_send"
    BY <1>2, <1>4, <2>1 DEF objVars, NoCrit
  <2>3. \A u \in Task \ {t} : QWait'[u] = QWait[u]
    BY <2>1, <2>2, NoSends, QueueWaitKept
  <2>4. QWait'[t] = <<"got", o, m>> /\ QWait[t] = <<"waiting", o>>
    BY <1>2, <2>1, <2>2, WaitsAfter, QWaiting DEF QueueWaitOf, QWait
  <2>5. AbsQueue!Hand(o, m, {t})
    BY <1>2, <2>1, <2>2, <2>3, <2>4, QHands
  <2>6. t \in AbsQueue!Waiting(o)
    BY <2>4 DEF AbsQueue!Waiting, QWait
  <2> QED
    BY <2>5, <2>6 DEF AbsQueue!Next
<1> QED
  BY <1>2, <1>3, <1>4, SendParts

LEMMA AllSend_Queue ==
  ASSUME IpcInv, IpcInv', NEW o \in Obj, NEW m \in Msg, UNCHANGED eventVars, ret' = NoRet,
         krhino_queue_all_send(o, m)
  PROVE  AbsQueue!Next
<1>1. AnyCall("queue_all_send") /\ obj_kind[o] = "queue" /\ obj_type[o] /\ ~queue_is_full(o) /\ crit = NoCrit
  BY AllSendParts, CallPoint
<1>2. CASE blk_list[o] = << >> /\ Push(o, m) /\ UNCHANGED <<coreVars, objVars, msg, eventVars>>
  <2>1. \A t \in Task : WaitOf(t)' = WaitOf(t)
    BY <1>1, <1>2, Push_Ipc
  <2> QED
    BY <1>1, <1>2, <2>1, QPush
<1>3. CASE /\ blk_list[o] # << >> /\ crit' = [op |-> "all_send", obj |-> o, msg |-> m]
           /\ UNCHANGED <<tcbVars, rrVars, queueVars, g_tick_count, cpuVars, callVars, objVars,
                          msgVars, eventVars>>
  <2>1. (\A t \in Task : WaitOf(t)' = WaitOf(t)) /\ ring[o] = << >>
    BY <1>1, <1>3, AllSend_Ipc
  <2>2. UNCHANGED <<obj_kind, obj_type, ring, msg>> /\ crit.op # "all_send" /\ crit'.msg = m
        /\ \A x : ~SendsTo(x) /\ (SendsTo(x)' <=> x = o)
    BY <1>1, <1>3 DEF objVars, msgVars, NoCrit, SendsTo
  <2> DEFINE W == {t \in Task : WaitOf(t) = <<"waiting", o>>}
  <2>3. ASSUME NEW t \in W PROVE QWait'[t] = <<"got", o, m>>
    BY <1>1, <2>1, <2>2, WaitsAfter DEF QueueWaitOf, QWait
  <2>4. ASSUME NEW t \in Task \ W PROVE QWait'[t] = QWait[t]
    <3>1. \A x \in Obj : WaitOf(t) = <<"waiting", x>> => x # o
      OBVIOUS
    <3> QED
      BY <2>1, <2>2, <3>1, QueueWaitKept
  <2>5. Head(blk_list[o]) \in W
    BY <1>3, FirstOnList DEF IpcInv
  <2>6. AbsQueue!Waiting(o) = W
    BY <1>1, QWaiting DEF AbsQueue!Waiting, QWait
  <2>7. /\ W \in SUBSET Task /\ W # {} /\ \A t \in W : WaitOf(t) = <<"waiting", o>>
        /\ \A t \in Task : QWait'[t] = IF t \in W THEN <<"got", o, m>> ELSE QWait[t]
    BY <2>3, <2>4, <2>5
  <2> HIDE DEF W
  <2>8. AbsQueue!Hand(o, m, W)
    BY <1>1, <2>1, <2>2, <2>7, QHands
  <2> QED
    BY <2>6, <2>8 DEF AbsQueue!Next
<1> QED
  BY <1>2, <1>3, AllSendParts

LEMMA Recv_Queue ==
  ASSUME IpcInv, IpcInv', NEW o \in Obj, NEW ticks \in Ticks \cup {WaitForever}, UNCHANGED eventVars,
         krhino_queue_recv(o, ticks) \/ krhino_buf_queue_recv(o, ticks)
  PROVE  AbsQueue!Next
<1>1. ticks \in 0 .. TickMod - 1 /\ obj_type[o] /\ obj_kind[o] # "event" /\ crit = NoCrit
  BY TickValues, RecvParts, CallPoint
<1>2. o \in QAlive /\ QMsgs[o] = ring[o] /\ g_active_task \in Task
  BY <1>1 DEF QAlive, QMsgs, IpcInv, CoreInv, CoreTypeOK
<1>3. CASE /\ ring[o] # << >> /\ UNCHANGED <<coreVars, objVars, msg, eventVars>>
           /\ ring'     = [ring EXCEPT ![o] = Tail(@)]
           /\ cur_num'  = [cur_num EXCEPT ![o] = @ - 1]
           /\ freesize' = [freesize EXCEPT ![o] = IF obj_kind[o] = "queue" THEN @
                                                  ELSE @ + Bytes[Head(ring[o])]]
           /\ ret' = Returned(Caller, o, Head(ring[o]))
  <2>1. \A t \in Task : WaitOf(t)' = WaitOf(t)
    BY <1>1, <1>3, Pop_Ipc
  <2>2. UNCHANGED <<obj_kind, msg>> /\ crit'.op # "all_send" /\ crit.op # "all_send"
    BY <1>1, <1>3 DEF objVars, coreVars, NoCrit
  <2>3. \A t \in Task : QWait'[t] = QWait[t]
    BY <2>1, <2>2, QWaitsKept
  <2>4. QWait' = QWait
    BY <2>3 DEF QWait
  <2>5. ring' = [ring EXCEPT ![o] = Tail(ring[o])]
    BY <1>3
  <2>6. QAlive' = QAlive /\ QMsgs' = [QMsgs EXCEPT ![o] = Tail(QMsgs[o])]
    BY <1>1, <1>2, <1>3, <2>5, QMsgsAt
  <2>7. ret'.obj = o
    BY <1>3 DEF Returned
  <2>8. QRet' = Returned(Caller, o, Head(QMsgs[o]))
    BY <1>1, <1>2, <1>3, <2>2, <2>7 DEF QRet
  <2>9. PICK by \in Task \cup {"isr"} : by = Caller
    BY <1>2 DEF Caller
  <2>10. AbsQueue!Receive(o, by)
    BY <1>2, <1>3, <2>4, <2>6, <2>8, <2>9
       DEF AbsQueue!Receive, AbsQueue!Returned, Returned, QAlive, QMsgs, QWait, QRet
  <2> QED
    BY <2>10 DEF AbsQueue!Next
<1>4. CASE /\ ring[o] = << >> /\ Pend(o, ticks) /\ ret' = NoRet
           /\ UNCHANGED <<rrVars, g_tick_count, cpuVars, crit>>
           /\ UNCHANGED <<objVars, msgVars, flags, pend, pend_info>>
           /\ \E api : TaskCall(api)
  <2>1. pend' \in [Task -> Options \cup {NULL}] /\ \A u \in Task : pend'[u] = pend[u]
    BY <1>4, TypeParts DEF IpcInv, ObjTypeOK
  <2>2. PICK t \in Task : t = g_active_task
    BY <1>2
  <2>3. /\ \A u \in Task \ {t} : WaitOf(u)' = WaitOf(u)
        /\ WaitOf(t) = <<"out">> /\ WaitOf(t)' = <<"waiting", o>>
    BY <1>1, <1>4, <2>1, <2>2, Pend_Ipc
  <2>4. /\ UNCHANGED <<obj_kind, obj_type, ring, msg>> /\ crit' = NoCrit
        /\ crit'.op # "all_send" /\ crit.op # "all_send"
    BY <1>1, <1>4 DEF objVars, msgVars, NoCrit
  <2>5. \A u \in Task \ {t} : QWait'[u] = QWait[u]
    BY <2>3, <2>4, NoSends, QueueWaitKept
  <2>6. QWait[t] = <<"out">> /\ QWait'[t] = <<"waiting", o>>
    BY <1>1, <2>3, <2>4, QueueWaits, WaitsAfter DEF QueueWaitOf, QWait, SendsTo
  <2>7. AbsQueue!Move(t, <<"waiting", o>>)
    BY <2>4, <2>5, <2>6, QDataKept, QMoves
  <2>8. AbsQueue!Wait(t, o)
    BY <1>2, <1>4, <2>6, <2>7, QRetNone DEF AbsQueue!Wait, AbsQueue!Out, QAlive, QMsgs, QWait, QRet
  <2> QED
    BY <2>8 DEF AbsQueue!Next
<1> QED
  BY <1>3, <1>4, RecvParts

LEMMA Flush_Queue ==
  ASSUME IpcInv, IpcInv', NEW o \in Obj, UNCHANGED eventVars, ret' = NoRet,
         krhino_queue_flush(o) \/ krhino_buf_queue_flush(o)
  PROVE  AbsQueue!Next
<1>1. /\ crit = NoCrit /\ ring' = [ring EXCEPT ![o] = << >>] /\ obj_type[o] /\ obj_kind[o] # "event"
      /\ UNCHANGED <<coreVars, objVars, msg>>
  BY DEF krhino_queue_flush, krhino_buf_queue_flush, TaskCall, ring_reset
<1>2. UNCHANGED <<obj_kind, msg, tcbVars, callVars>> /\ crit'.op # "all_send" /\ crit.op # "all_send"
  BY <1>1 DEF objVars, coreVars, NoCrit
<1>3. \A t \in Task : WaitOf(t)' = WaitOf(t)
  BY <1>2, WaitsStay DEF IpcInv
<1>4. \A t \in Task : QWait'[t] = QWait[t]
  BY <1>2, <1>3, QWaitsKept
<1>5. QWait' = QWait
  BY <1>4 DEF QWait
<1>6. QAlive' = QAlive /\ QMsgs' = [QMsgs EXCEPT ![o] = << >>] /\ o \in QAlive
  BY <1>1, QMsgsAt DEF QAlive
<1>7. AbsQueue!Flush(o)
  BY <1>5, <1>6, QRetNone DEF AbsQueue!Flush, QAlive, QMsgs, QWait, QRet
<1> QED
  BY <1>7 DEF AbsQueue!Next

LEMMA QueueService_Queue ==
  ASSUME IpcInv, IpcInv', NEW o \in Obj, QueueService(o), UNCHANGED eventVars PROVE AbsQueue!Next
<1>1. UNCHANGED <<flags, pend, pend_info>> /\ ret' = NoRet
  BY DEF eventVars, QueueService
<1>2. ASSUME queue_create(o) \/ buf_queue_create(o) PROVE AbsQueue!Next
  <2>1. PICK kind \in {"queue", "buf_queue"} : obj_create(o, kind)
    BY <1>2 DEF queue_create, buf_queue_create
  <2>2. /\ crit = NoCrit /\ ring_reset(o) /\ cur_num' = [cur_num EXCEPT ![o] = 0] /\ UNCHANGED msg
        /\ kind # "event"
    BY <1>2 DEF queue_create, buf_queue_create, TaskCall
  <2>3. (\A t \in Task : WaitOf(t)' = WaitOf(t)) /\ blk_list[o] = << >> /\ crit' = crit
    BY <1>1, <2>1, <2>2, Create_Ipc
  <2> QED
    BY <1>1, <2>1, <2>2, <2>3, QCreate DEF ring_reset
<1>3. ASSUME krhino_queue_del(o) \/ krhino_buf_queue_del(o) PROVE AbsQueue!Next
  <2>1. PICK api, kind : TaskCall(api) /\ obj_del(o, kind) /\ UNCHANGED msgVars
    BY <1>3 DEF krhino_queue_del, krhino_buf_queue_del
  <2>2. crit = NoCrit /\ \A t \in Task : WaitOf(t)' = WaitOf(t)
    BY <2>1, Del_Ipc DEF TaskCall
  <2> QED
    BY <1>1, <2>1, <2>2, QDelete
<1>4. ASSUME krhino_queue_flush(o) \/ krhino_buf_queue_flush(o) PROVE AbsQueue!Next
  BY <1>1, <1>4, Flush_Queue
<1>5. ASSUME NEW m \in Msg, krhino_queue_back_send(o, m) \/ krhino_buf_queue_send(o, m) PROVE AbsQueue!Next
  BY <1>1, <1>5, Send_Queue
<1>6. ASSUME NEW m \in Msg, krhino_queue_all_send(o, m) PROVE AbsQueue!Next
  BY <1>1, <1>6, AllSend_Queue
<1> QED
  BY <1>2, <1>3, <1>4, <1>5, <1>6 DEF QueueService

\* The services of events are nothing that AbstractQueue sees.
LEMMA Event_Queue ==
  ASSUME IpcInv, IpcInv', NEW o \in Obj, EventService(o) \/ EventReceive(o), UNCHANGED msgVars
  PROVE  AbsQueue!Next
<1>1. UNCHANGED <<ring, msg>>
  BY DEF msgVars
<1>2. ASSUME UNCHANGED <<tcbVars, callVars, objVars>>, crit = NoCrit, crit'.op # "all_send", QRet' = NoRet
      PROVE  AbsQueue!Next
  <2>1. (\A t \in Task : WaitOf(t)' = WaitOf(t)) /\ UNCHANGED <<obj_kind, obj_type>>
    BY <1>2, WaitsStay DEF IpcInv, objVars
  <2>2. \A t \in Task : QWait'[t] = QWait[t]
    BY <1>1, <1>2, <2>1, QWaitsKept DEF NoCrit
  <2> QED
    BY <1>1, <1>2, <2>1, <2>2, QDataKept, QQuiet
<1>3. ASSUME krhino_event_del(o), ret' = NoRet PROVE AbsQueue!Next
  <2>1. TaskCall("event_del") /\ obj_del(o, "event") /\ UNCHANGED eventVars /\ crit = NoCrit
    BY <1>3 DEF krhino_event_del, TaskCall
  <2>2. \A t \in Task : WaitOf(t)' = WaitOf(t)
    BY <2>1, Del_Ipc
  <2> QED
    BY <1>3, <2>1, <2>2, QDelete
<1>4. ASSUME NEW f \in NewFlags, event_create(o, f), ret' = NoRet PROVE AbsQueue!Next
  <2>1. /\ crit = NoCrit /\ obj_create(o, "event") /\ flags' = [flags EXCEPT ![o] = f]
        /\ UNCHANGED <<pend, pend_info>> /\ f \in SUBSET Flag
    BY <1>4, FlagAssumption DEF event_create, TaskCall
  <2>2. (\A t \in Task : WaitOf(t)' = WaitOf(t)) /\ blk_list[o] = << >> /\ crit' = crit
    BY <2>1, Create_Ipc DEF msgVars
  <2> QED
    BY <1>1, <1>4, <2>1, <2>2, QCreate
<1>5. ASSUME NEW f \in NewFlags, event_set_or(o, f) \/ event_set_and(o, f), ret' = NoRet PROVE AbsQueue!Next
  <2>1. UNCHANGED <<tcbVars, callVars, objVars>> /\ crit = NoCrit /\ crit'.op # "all_send"
    BY <1>5, CallPoint DEF event_set_or, event_set_and, coreVars, NoCrit
  <2> QED
    BY <1>2, <1>5, <2>1, QRetNone
<1>6. ASSUME NEW c \in Options, NEW ticks \in Ticks \cup {WaitForever}, krhino_event_get(o, c, ticks)
      PROVE  AbsQueue!Next
  <2>1. /\ TaskCall("event_get") /\ obj_type[o] /\ obj_kind[o] = "event" /\ g_active_task \in Task
        /\ ticks \in 0 .. TickMod - 1 /\ crit = NoCrit
    BY <1>6, TickValues, GetParts DEF TaskCall
  <2>2. CASE /\ ret' = Returned(g_active_task, o, flags[o])
             /\ UNCHANGED <<coreVars, objVars, msgVars, pend, pend_info>>
    <3>1. ret'.obj = o /\ obj_kind'[o] = "event"
      BY <2>1, <2>2 DEF Returned, objVars
    <3>2. QRet' = NoRet
      BY <3>1 DEF QRet
    <3>3. UNCHANGED <<tcbVars, callVars, objVars>> /\ crit'.op # "all_send"
      BY <2>1, <2>2 DEF coreVars, NoCrit
    <3> QED
      BY <1>2, <2>1, <3>2, <3>3
  <2>3. CASE /\ Pend(o, ticks) /\ ret' = NoRet
             /\ pend' \in [Task -> Options \cup {NULL}] /\ pend'[g_active_task] = c
             /\ \A u \in Task \ {g_active_task} : pend'[u] = pend[u]
             /\ UNCHANGED <<rrVars, g_tick_count, cpuVars, crit>>
             /\ UNCHANGED <<objVars, msgVars, flags, pend_info>>
    <3>1. ring[o] = << >> /\ UNCHANGED <<obj_kind, obj_type>> /\ crit.op # "all_send" /\ crit'.op # "all_send"
      BY <2>1, <2>3 DEF IpcInv, KindOK, objVars, NoCrit
    <3>2. PICK t \in Task : t = g_active_task
      BY <2>1
    <3>3. /\ \A u \in Task \ {t} : WaitOf(u)' = WaitOf(u)
          /\ WaitOf(t) = <<"out">> /\ WaitOf(t)' = <<"waiting", o>>
      BY <2>1, <2>3, <3>1, <3>2, Pend_Ipc
    <3> QED
      BY <1>1, <2>1, <2>3, <3>1, <3>3, EventWake_Queue
  <2> QED
    BY <1>6, <2>2, <2>3, GetParts
<1> QED
  BY <1>3, <1>4, <1>5, <1>6 DEF EventService, EventReceive

LEMMA Next_Queue ==
  ASSUME IpcInv, IpcInv', [Next]_vars
  PROVE  AbsQueue!Next \/ UNCHANGED <<QAlive, QMsgs, QWait, QRet>>
<1>1. ASSUME CoreStep PROVE AbsQueue!Next
  BY <1>1, CoreNext_Queue, Timeout_Queue DEF CoreStep
<1>2. ASSUME NEW t \in Task, obj_del_turn(t), ret' = NoRet, UNCHANGED <<msgVars, eventVars>>
      PROVE  AbsQueue!Next
  BY <1>2, obj_del_turn_Queue
<1>3. ASSUME NEW o \in Obj, QueueService(o) \/ QueueReceive(o), UNCHANGED eventVars PROVE AbsQueue!Next
  BY <1>3, QueueService_Queue, Recv_Queue DEF QueueReceive
<1>4. ASSUME NEW o \in Obj, EventService(o) \/ EventReceive(o), UNCHANGED msgVars PROVE AbsQueue!Next
  BY <1>4, Event_Queue
<1>5. ASSUME UNCHANGED vars PROVE UNCHANGED <<QAlive, QMsgs, QWait, QRet>>
  <2>1. UNCHANGED <<obj_kind, obj_type, ret, ring, msg, crit, tcbVars, callVars>>
    BY <1>5 DEF vars, coreVars, objVars, msgVars
  <2>2. \A t \in Task : WaitOf(t)' = WaitOf(t)
    BY <2>1, WaitsStay DEF IpcInv
  <2>3. \A o : SendsTo(o)' <=> SendsTo(o)
    BY <2>1 DEF SendsTo
  <2>4. \A t \in Task : QWait'[t] = QWait[t]
    BY <2>1, <2>2, <2>3, QueueWaitKept
  <2> QED
    BY <2>1, <2>4, QDataKept DEF QWait, QRet
<1> QED
  BY <1>1, <1>2, <1>3, <1>4, <1>5, Loop_Queue DEF Next

LEMMA Init_Queue ==
  ASSUME Init PROVE AbsQueue!Init
<1>1. /\ \A t \in Task : task_state[t] \in {"K_RDY", "K_SEED"} /\ pc[t] = "user"
      /\ obj_type = [o \in Obj |-> FALSE] /\ ret = NoRet
  BY DEF Init, CoreInit
<1>2. \A t \in Task : QueueWait(t) = <<"out">>
  BY <1>1 DEF QueueWait, InCall
<1> QED
  BY <1>1, <1>2 DEF AbsQueue!Init, AbsQueue!Out

\* Queues and buffer queues keep the promise of AbstractQueue: messages come out in the order
\* they went in, each once; a message passes the queue only to tasks that wait because it is
\* empty, krhino_queue_all_send serves all of them in one step, although it wakes them one by
\* one; a wait ends once, and the call returns how it ended (k_queue.c, k_buf_queue.c).
THEOREM QueueRefinement == Spec => ImplementsAbstractQueue
<1>1. Init => AbsQueue!Init
  BY Init_Queue
<1>2. IpcInv /\ IpcInv' /\ [Next]_vars => AbsQueue!Next \/ UNCHANGED <<QAlive, QMsgs, QWait, QRet>>
  BY Next_Queue
<1> QED
  BY <1>1, <1>2, IpcInvariant, PTL DEF Spec, ImplementsAbstractQueue, AbsQueue!Spec, QAlive, QMsgs, QWait, QRet

-----------------------------------------------------------------------------
(***************************************************************************)
(* Events keep the promise of AbstractEvent.                               *)
(***************************************************************************)
\* The variables of AbstractEvent.
EAlive == {o \in Obj : obj_type[o] /\ obj_kind[o] = "event"}
EFlags == [o \in Obj |-> IF ~obj_type[o] THEN {}
                         ELSE IF crit.op = "event_set" /\ crit.obj = o
                         THEN flags[o] \ UNION {Cleared(pend[t]) : t \in ToBeFreed}
                         ELSE flags[o]]
EWait  == [t \in Task |-> EventWait(t)]
ERet   == IF ret # NoRet /\ obj_kind[ret.obj] # "event" THEN NoRet ELSE ret

\* What AbstractEvent sees of a wait.
EventWaitOf(t) ==
  /\ WaitOf(t) \in {<<"out">>, <<"dead">>} => EventWait(t) = <<"out">>
  /\ \A o \in Obj :
       /\ \A k : WaitOf(t) = <<k, o>> /\ obj_kind[o] # "event" => EventWait(t) = <<"out">>
       /\ WaitOf(t) = <<"waiting", o>> /\ obj_kind[o] = "event" =>
            EventWait(t) = IF t \in ToBeFreed THEN <<"got", o, crit.flags>> ELSE <<"waiting", o, pend[t]>>
       /\ WaitOf(t) = <<"granted", o>> /\ obj_kind[o] = "event" => EventWait(t) = <<"got", o, pend_info[t]>>
       /\ WaitOf(t) = <<"expired", o>> /\ obj_kind[o] = "event" => EventWait(t) = <<"expired", o>>
       /\ WaitOf(t) = <<"cancelled", o>> /\ obj_kind[o] = "event" => EventWait(t) = <<"cancelled", o>>

\* event_set frees only tasks that wait for its event.
LEMMA FreedWait ==
  ASSUME IpcInv, NEW t \in ToBeFreed
  PROVE  t \in Task /\ crit.op = "event_set" /\ crit.obj \in Obj /\ WaitOf(t) = <<"waiting", crit.obj>>
<1>1. crit.op = "event_set" /\ t \in ToSet(crit.iter)
  BY DEF ToBeFreed
<1>2. /\ crit.iter \in Seq(Task) /\ crit.obj \in Obj /\ CoreInv /\ CallOK
      /\ t \in ToSet(blk_list[crit.obj])
  BY <1>1 DEF IpcInv, LoopOK
<1>3. t \in Task
  BY <1>1, <1>2 DEF ToSet
<1> QED
  BY <1>1, <1>2, <1>3, OnList

LEMMA EventWaits ==
  IpcInv => \A t \in Task : EventWaitOf(t)
<1> SUFFICES ASSUME IpcInv, NEW t \in Task PROVE EventWaitOf(t)
  OBVIOUS
<1>1. CoreTypeOK /\ CoreInv /\ CallOK /\ ObjTypeOK
  BY TypeParts DEF IpcInv, CoreInv
<1>2. CASE Free(t) \/ task_state[t] = "K_DELETED"
  <2>1. WaitOf(t) \in {<<"out">>, <<"dead">>} /\ \A k, o : WaitOf(t) # <<k, o>>
    BY <1>1, <1>2, WaitValues
  <2>2. EventWait(t) = <<"out">>
    BY <1>2 DEF EventWait, InCall, Free, Pending
  <2> QED
    BY <2>1, <2>2 DEF EventWaitOf
<1>3. CASE ~Free(t) /\ task_state[t] # "K_DELETED"
  <2>1. PICK o \in Obj : o = arg[t]
    BY <1>3 DEF Free
  <2>2. InCall(t, {"event"}) <=> obj_kind[o] = "event"
    BY <1>1, <1>3, <2>1 DEF InCall, Free, Pending, ObjTypeOK
  <2>3. PICK k \in {"waiting"} \cup Ends : WaitOf(t) = <<k, o>>
    BY <1>1, <1>3, <2>1, WaitValues
  <2>4. WaitOf(t) \notin {<<"out">>, <<"dead">>} /\ \A j, x : WaitOf(t) = <<j, x>> => j = k /\ x = o
    BY <2>3
  <2>5. obj_kind[o] # "event" => EventWait(t) = <<"out">>
    BY <2>2 DEF EventWait
  <2>6. CASE blk_obj[t] # NoObj
    <3>1. k = "waiting"
      BY <1>1, <1>3, <2>1, <2>4, <2>6, WaitValues
    <3>2. obj_kind[o] = "event" =>
            EventWait(t) = IF t \in ToBeFreed THEN <<"got", o, crit.flags>> ELSE <<"waiting", o, pend[t]>>
      BY <2>1, <2>2, <2>6 DEF EventWait
    <3> QED
      BY <2>4, <2>5, <3>1, <3>2 DEF EventWaitOf
  <2>7. CASE blk_obj[t] = NoObj
    <3>1. k \in Ends
      BY <1>1, <1>3, <2>1, <2>4, <2>7, WaitValues
    <3>2. t \notin ToBeFreed
      BY <2>4, <3>1, FreedWait DEF Ends
    <3>3. obj_kind[o] = "event" => EventWait(t) = WaitOn(t, pend_info[t])
      BY <2>2, <2>7, <3>2 DEF EventWait
    <3>4. blk_state[t] \in {"BLK_FINISH", "BLK_TIMEOUT", "BLK_DEL"}
      BY <1>1 DEF CoreTypeOK, BlkState
    <3>5. CASE blk_state[t] = "BLK_FINISH"
      <4>1. WaitOf(t) = <<"granted", o>> /\ WaitOn(t, pend_info[t]) = <<"got", o, pend_info[t]>>
        BY <1>1, <1>3, <2>1, <2>7, <3>5, WaitValues DEF WaitOn
      <4> QED
        BY <2>4, <2>5, <3>3, <4>1 DEF EventWaitOf
    <3>6. CASE blk_state[t] = "BLK_TIMEOUT"
      <4>1. WaitOf(t) = <<"expired", o>> /\ WaitOn(t, pend_info[t]) = <<"expired", o>>
        BY <1>1, <1>3, <2>1, <2>7, <3>6, WaitValues DEF WaitOn
      <4> QED
        BY <2>4, <2>5, <3>3, <4>1 DEF EventWaitOf
    <3>7. CASE blk_state[t] = "BLK_DEL"
      <4>1. WaitOf(t) = <<"cancelled", o>> /\ WaitOn(t, pend_info[t]) = <<"cancelled", o>>
        BY <1>1, <1>3, <2>1, <2>7, <3>7, WaitValues DEF WaitOn
      <4> QED
        BY <2>4, <2>5, <3>3, <4>1 DEF EventWaitOf
    <3> QED
      BY <3>4, <3>5, <3>6, <3>7
  <2> QED
    BY <2>6, <2>7
<1> QED
  BY <1>2, <1>3

LEMMA EventWaitsAfter ==
  IpcInv' => \A t \in Task : EventWaitOf(t)'
<1>1. (IpcInv => \A t \in Task : EventWaitOf(t))'
  BY EventWaits, PTL
<1> QED
  BY <1>1

\* AbstractEvent sees no change of a wait that goes on.
LEMMA EventWaitKept ==
  ASSUME IpcInv, IpcInv', NEW t \in Task, WaitOf(t)' = WaitOf(t), obj_kind' = obj_kind,
         pend'[t] = pend[t], pend_info'[t] = pend_info[t],
         t \in ToBeFreed' <=> t \in ToBeFreed, t \in ToBeFreed => crit'.flags = crit.flags
  PROVE  EWait'[t] = EWait[t]
<1>1. EventWaitOf(t) /\ EventWaitOf(t)' /\ WaitKnown(t)
  BY WaitsKnown, EventWaits, EventWaitsAfter
<1>2. EWait[t] = EventWait(t) /\ EWait'[t] = EventWait(t)'
  BY DEF EWait
<1>3. CASE WaitOf(t) \in {<<"out">>, <<"dead">>}
  BY <1>1, <1>2, <1>3 DEF EventWaitOf
<1>4. ASSUME NEW o \in Obj, NEW k \in {"waiting"} \cup Ends, WaitOf(t) = <<k, o>>
      PROVE  EventWait(t)' = EventWait(t)
  <2>1. CASE obj_kind[o] # "event"
    BY <1>1, <1>4, <2>1 DEF EventWaitOf
  <2>2. CASE obj_kind[o] = "event" /\ k = "waiting"
    BY <1>1, <1>4, <2>2 DEF EventWaitOf
  <2>3. CASE obj_kind[o] = "event" /\ k \in Ends
    BY <1>1, <1>4, <2>3 DEF EventWaitOf, Ends
  <2> QED
    BY <2>1, <2>2, <2>3
<1> QED
  BY <1>1, <1>2, <1>3, <1>4 DEF WaitKnown

\* Outside event_set nobody is about to be freed, and what a live event shows are its flags.
LEMMA NotFreeing ==
  ASSUME crit.op # "event_set", crit'.op # "event_set"
  PROVE  /\ ToBeFreed = {} /\ ToBeFreed' = {}
         /\ EFlags  = [o \in Obj |-> IF obj_type[o] THEN flags[o] ELSE {}]
         /\ EFlags' = [o \in Obj |-> IF obj_type'[o] THEN flags'[o] ELSE {}]
  BY DEF ToBeFreed, EFlags

LEMMA EQuiet ==
  ASSUME EAlive' = EAlive, EFlags' = EFlags, \A t \in Task : EWait'[t] = EWait[t], ERet' = NoRet
  PROVE  AbsEvent!Next
<1>1. EWait' = EWait
  BY DEF EWait
<1>2. AbsEvent!Quiet
  BY <1>1 DEF AbsEvent!Quiet, EAlive, EFlags, EWait, ERet
<1> QED
  BY <1>2 DEF AbsEvent!Next

LEMMA EMoves ==
  ASSUME EAlive' = EAlive, EFlags' = EFlags, NEW t \in Task, NEW to, EWait'[t] = to,
         \A u \in Task \ {t} : EWait'[u] = EWait[u]
  PROVE  AbsEvent!Move(t, to)
<1>1. EWait' = [EWait EXCEPT ![t] = to]
  BY DEF EWait
<1> QED
  BY <1>1 DEF AbsEvent!Move, EAlive, EFlags, EWait

LEMMA EDataKept ==
  ASSUME UNCHANGED <<obj_kind, obj_type, flags>>, crit.op # "event_set", crit'.op # "event_set"
  PROVE  EAlive' = EAlive /\ EFlags' = EFlags
  BY NotFreeing DEF EAlive

LEMMA ERetNone == ASSUME ret' = NoRet PROVE ERet' = NoRet
  BY DEF ERet

\* No step outside event_set changes a wait that stays, and what it is for.
LEMMA EWaitsKept ==
  ASSUME IpcInv, IpcInv', crit.op # "event_set", crit'.op # "event_set", obj_kind' = obj_kind,
         NEW t \in Task, WaitOf(t)' = WaitOf(t), pend'[t] = pend[t], pend_info'[t] = pend_info[t]
  PROVE  EWait'[t] = EWait[t]
  BY NotFreeing, EventWaitKept

\* A wait for a message is nothing that AbstractEvent sees.
LEMMA EUnseen ==
  ASSUME IpcInv, IpcInv', obj_kind' = obj_kind, NEW t \in Task, NEW o \in Obj, obj_kind[o] # "event",
         WaitOf(t) = <<"out">> \/ \E k : WaitOf(t) = <<k, o>>, \E k : WaitOf(t)' = <<k, o>>
  PROVE  EWait'[t] = EWait[t]
  BY EventWaits, EventWaitsAfter DEF EventWaitOf, EWait

LEMMA QueueWake_Event ==
  ASSUME IpcInv, IpcInv', UNCHANGED <<obj_kind, obj_type, flags, pend, pend_info>>, ret' = NoRet,
         crit.op # "event_set", crit'.op # "event_set", NEW t \in Task, NEW o \in Obj, obj_kind[o] # "event",
         \A u \in Task \ {t} : WaitOf(u)' = WaitOf(u),
         WaitOf(t) = <<"out">> \/ \E k : WaitOf(t) = <<k, o>>, \E k : WaitOf(t)' = <<k, o>>
  PROVE  AbsEvent!Next
<1>1. \A u \in Task \ {t} : EWait'[u] = EWait[u]
  BY EWaitsKept
<1>2. EWait'[t] = EWait[t]
  BY EUnseen
<1> QED
  BY <1>1, <1>2, EDataKept, ERetNone, EQuiet

LEMMA Return_Event ==
  ASSUME IpcInv, IpcInv', NEW t \in Task, Returning(t), CallReturns,
         UNCHANGED <<obj_kind, obj_type, flags>>, crit.op # "event_set", crit'.op # "event_set"
  PROVE  AbsEvent!Next
<1>1. /\ t = g_active_task /\ pc[t] = "pend_end" /\ pc'[t] = "user" /\ ObjTypeOK
      /\ \A u \in Task \ {t} : WaitOf(u)' = WaitOf(u)
      /\ WaitOf(t)' = <<"out">> /\ ResultOK /\ EventWaitOf(t) /\ EventWaitOf(t)'
  BY TypeParts, EventWaits, EventWaitsAfter DEF Returning, IpcInv
<1>2. \A u \in Task \ {t} : pend'[u] = pend[u] /\ pend_info'[u] = pend_info[u]
  BY <1>1, ReturnParts
<1>3. \A u \in Task \ {t} : EWait'[u] = EWait[u]
  BY <1>1, <1>2, EWaitsKept
<1>4. EWait[t] = EventWait(t) /\ EWait'[t] = <<"out">>
  BY <1>1 DEF EWait, EventWaitOf
<1>5. EAlive' = EAlive /\ EFlags' = EFlags
  BY EDataKept
<1>6. CASE arg[t] \notin Obj
  <2>1. EWait[t] = <<"out">>
    BY <1>1, <1>4, <1>6 DEF Returning, EventWaitOf
  <2>2. ERet' = NoRet
    BY <1>1, <1>6 DEF CallReturns, ERet
  <2> QED
    BY <1>3, <1>4, <1>5, <2>1, <2>2, EQuiet
<1>7. CASE arg[t] \in Obj /\ obj_kind[arg[t]] # "event"
  <2>1. PICK o \in Obj : o = arg[t] /\ obj_kind[o] # "event"
    BY <1>7
  <2>2. ret' = recv_result(t)
    BY <1>1, <2>1 DEF CallReturns
  <2>3. ret'.obj = o
    BY <2>1, <2>2 DEF recv_result, Returned
  <2>4. ERet' = NoRet
    BY <2>1, <2>3 DEF ERet
  <2>5. blk_state[t] \in {"BLK_FINISH", "BLK_TIMEOUT", "BLK_DEL"}
    BY DEF IpcInv, CoreInv, CoreTypeOK, BlkState
  <2>6. \E k : WaitOf(t) = <<k, o>>
    BY <2>1, <2>5 DEF Returning
  <2>7. EWait[t] = <<"out">>
    BY <1>1, <1>4, <2>1, <2>6 DEF EventWaitOf
  <2> QED
    BY <1>3, <1>4, <1>5, <2>4, <2>7, EQuiet
<1>8. CASE arg[t] \in Obj /\ obj_kind[arg[t]] = "event"
  <2>1. PICK o \in Obj : o = arg[t] /\ obj_kind[o] = "event"
    BY <1>8
  <2>2. ret' = get_result(t)
    BY <1>1, <2>1 DEF CallReturns
  <2>3. AbsEvent!Move(t, <<"out">>)
    BY <1>3, <1>4, <1>5, EMoves
  <2>4. blk_state[t] \in {"BLK_FINISH", "BLK_TIMEOUT", "BLK_DEL"}
    BY DEF IpcInv, CoreInv, CoreTypeOK, BlkState
  <2>5. \/ WaitOf(t) = <<"granted", o>> /\ blk_state[t] = "BLK_FINISH"
        \/ WaitOf(t) \in {<<"expired", o>>, <<"cancelled", o>>} /\ blk_state[t] # "BLK_FINISH"
    BY <2>1, <2>4 DEF Returning
  <2>6. \/ \E f \in SUBSET Flag : EWait[t] = <<"got", o, f>> /\ ret' = Returned(t, o, f)
        \/ EWait[t] \in {<<"expired", o>>, <<"cancelled", o>>} /\ ret' = Returned(t, o, NULL)
    <3>1. CASE WaitOf(t) = <<"granted", o>> /\ blk_state[t] = "BLK_FINISH"
      <4>1. pend_info[t] \in SUBSET Flag
        BY <1>1, <2>1, <3>1 DEF ResultOK, ResultOf
      <4>2. EWait[t] = <<"got", o, pend_info[t]>>
        BY <1>1, <1>4, <2>1, <3>1 DEF EventWaitOf
      <4>3. ret' = Returned(t, o, pend_info[t])
        BY <2>1, <2>2, <3>1 DEF get_result
      <4> QED
        BY <4>1, <4>2, <4>3
    <3>2. CASE WaitOf(t) \in {<<"expired", o>>, <<"cancelled", o>>} /\ blk_state[t] # "BLK_FINISH"
      <4>1. EWait[t] \in {<<"expired", o>>, <<"cancelled", o>>}
        BY <1>1, <1>4, <2>1, <3>2 DEF EventWaitOf
      <4>2. ret' = Returned(t, o, NULL)
        BY <2>1, <2>2, <3>2 DEF get_result
      <4> QED
        BY <4>1, <4>2
    <3> QED
      BY <2>5, <3>1, <3>2
  <2>7. ret'.obj = o
    BY <2>6 DEF Returned
  <2>8. ERet' = ret'
    BY <2>1, <2>7 DEF ERet
  <2>9. AbsEvent!Return(t, o)
    BY <2>3, <2>6, <2>8 DEF AbsEvent!Return, AbsEvent!Returned, AbsEvent!Out, Returned, EWait, ERet
  <2> QED
    BY <2>9 DEF AbsEvent!Next
<1> QED
  BY <1>6, <1>7, <1>8

LEMMA CoreNext_Event ==
  ASSUME IpcInv, IpcInv', CoreNext, CallReturns, UNCHANGED <<objVars, ring, cur_num, freesize, flags>>
  PROVE  AbsEvent!Next
<1>1. /\ crit' \in {crit, NoCrit, ErrCrit, [op |-> "tick", obj |-> NoObj]}
      /\ crit = NoCrit \/ crit.op = "tick"
  BY CoreNoWaiter DEF IpcInv
<1>2. crit'.op # "event_set" /\ crit.op # "event_set" /\ UNCHANGED <<obj_kind, obj_type, flags>>
  BY <1>1 DEF NoCrit, ErrCrit, objVars
<1>3. CASE \E t \in Task : Returning(t)
  BY <1>2, <1>3, Return_Event
<1>4. CASE ~ \E t \in Task : Returning(t)
  <2>1. CoreMove /\ ret' = NoRet /\ UNCHANGED <<pend, pend_info>>
    BY <1>4, NoReturn
  <2>2. EAlive' = EAlive /\ EFlags' = EFlags /\ ERet' = NoRet
    BY <1>2, <2>1, EDataKept, ERetNone
  <2>3. ASSUME NEW u \in Task, WaitOf(u)' = WaitOf(u) PROVE EWait'[u] = EWait[u]
    BY <1>2, <2>1, <2>3, EWaitsKept
  <2>4. ASSUME NEW t \in Task, \A u \in Task \ {t} : WaitOf(u)' = WaitOf(u),
               WaitOf(t)' \in {<<"out">>, <<"dead">>}
        PROVE  AbsEvent!Next
    <3>1. EWait'[t] = <<"out">>
      BY <2>4, EventWaitsAfter DEF EventWaitOf, EWait
    <3>2. \A u \in Task \ {t} : EWait'[u] = EWait[u]
      BY <2>3, <2>4
    <3>3. CASE EWait[t] = <<"out">>
      BY <2>2, <3>1, <3>2, <3>3, EQuiet
    <3>4. CASE EWait[t] # <<"out">>
      <4>1. AbsEvent!Move(t, <<"out">>)
        BY <2>2, <3>1, <3>2, EMoves
      <4>2. AbsEvent!Kill(t)
        BY <2>2, <3>4, <4>1 DEF AbsEvent!Kill, AbsEvent!Out, EWait, ERet
      <4> QED
        BY <4>2 DEF AbsEvent!Next
    <3> QED
      BY <3>3, <3>4
  <2> QED
    BY <2>1, <2>2, <2>3, <2>4, EQuiet DEF CoreMove
<1> QED
  BY <1>3, <1>4

\* A task that waits for flags shows what it waits for.
LEMMA EWaiting ==
  ASSUME IpcInv, crit.op # "event_set", NEW t \in Task, NEW o \in Obj
  PROVE  /\ WaitOf(t) = <<"waiting", o>> /\ obj_kind[o] = "event" =>
              pend[t] \in Options /\ EWait[t] = <<"waiting", o, pend[t]>>
         /\ \A c : EWait[t] = <<"waiting", o, c>> =>
              WaitOf(t) = <<"waiting", o>> /\ obj_kind[o] = "event" /\ c = pend[t]
<1>1. /\ EWait[t] = EventWait(t) /\ EventWaitOf(t) /\ WaitKnown(t) /\ ToBeFreed = {} /\ ResultOf(t)
  BY EventWaits, WaitsKnown DEF EWait, ToBeFreed, IpcInv, ResultOK
<1>2. ASSUME NEW c, EWait[t] = <<"waiting", o, c>>
      PROVE  WaitOf(t) = <<"waiting", o>> /\ obj_kind[o] = "event" /\ c = pend[t]
  <2>1. EventWait(t) # <<"out">>
    <3>1. <<"out">> # <<"waiting", o, c>>
      OBVIOUS
    <3> QED
      BY <1>1, <1>2, <3>1
  <2>2. WaitOf(t) \notin {<<"out">>, <<"dead">>}
    BY <1>1, <2>1 DEF EventWaitOf
  <2>3. PICK x \in Obj, k \in {"waiting"} \cup Ends : WaitOf(t) = <<k, x>>
    BY <1>1, <2>2 DEF WaitKnown
  <2>4. obj_kind[x] = "event"
    BY <1>1, <2>1, <2>3 DEF EventWaitOf
  <2>5. \/ k = "waiting" /\ EventWait(t) = <<"waiting", x, pend[t]>>
        \/ EventWait(t) = <<"got", x, pend_info[t]>>
        \/ EventWait(t) = <<"expired", x>> \/ EventWait(t) = <<"cancelled", x>>
    BY <1>1, <2>3, <2>4 DEF EventWaitOf, Ends
  <2>6. k = "waiting" /\ x = o /\ c = pend[t]
    BY <1>1, <1>2, <2>5
  <2> QED
    BY <2>3, <2>4, <2>6
<1> QED
  BY <1>1, <1>2 DEF EventWaitOf, ResultOf

LEMMA Timeout_Event ==
  ASSUME IpcInv, IpcInv', NEW t \in Task, tick_pend_timeout(t), UNCHANGED crit, CallReturns,
         UNCHANGED <<objVars, ring, cur_num, freesize, flags>>
  PROVE  AbsEvent!Next
<1>1. /\ unpend(t) /\ crit.op = "tick" /\ blk_state' = [blk_state EXCEPT ![t] = "BLK_TIMEOUT"]
      /\ UNCHANGED <<prio, suspend_count, rrVars, g_tick_count, cpuVars, callVars>>
      /\ crit # NoCrit /\ crit' # NoCrit /\ "BLK_TIMEOUT" \in BlkState
      /\ crit.op # "event_set" /\ crit'.op # "event_set"
  BY DEF tick_pend_timeout, NoCrit, BlkState
<1>2. UNCHANGED <<obj_kind, obj_type, flags, pend, pend_info>> /\ ret' = NoRet
  BY Timeout_Ipc DEF objVars
<1>3. PICK o \in Obj : o = blk_obj[t]
  BY <1>1, WakeInLoop DEF IpcInv
<1>4. /\ \A u \in Task \ {t} : WaitOf(u)' = WaitOf(u)
      /\ WaitOf(t) = <<"waiting", o>> /\ WaitOf(t)' = <<"expired", o>>
  BY <1>1, <1>3, WakeInLoop DEF IpcInv
<1>5. CASE obj_kind[o] # "event"
  BY <1>1, <1>2, <1>4, <1>5, QueueWake_Event
<1>6. CASE obj_kind[o] = "event"
  <2>1. \A u \in Task \ {t} : EWait'[u] = EWait[u]
    BY <1>1, <1>2, <1>4, EWaitsKept
  <2>2. pend[t] \in Options /\ EWait[t] = <<"waiting", o, pend[t]>>
    BY <1>1, <1>4, <1>6, EWaiting
  <2>3. EWait'[t] = <<"expired", o>>
    BY <1>2, <1>4, <1>6, EventWaitsAfter DEF EventWaitOf, EWait
  <2>4. AbsEvent!Move(t, <<"expired", o>>)
    BY <1>1, <1>2, <2>1, <2>3, EDataKept, EMoves
  <2>5. o \in EAlive
    BY <1>1, <1>4, <1>6, WaitsAlive DEF EAlive
  <2>6. AbsEvent!Waits(t, o)
    BY <2>2 DEF AbsEvent!Waits, EWait
  <2>7. AbsEvent!Expire(t, o)
    BY <1>2, <2>4, <2>5, <2>6, ERetNone DEF AbsEvent!Expire, EAlive, ERet
  <2> QED
    BY <2>7 DEF AbsEvent!Next
<1> QED
  BY <1>5, <1>6

LEMMA obj_del_turn_Event ==
  ASSUME IpcInv, IpcInv', NEW t \in Task, obj_del_turn(t), UNCHANGED <<msgVars, eventVars>>, ret' = NoRet
  PROVE  AbsEvent!Next
<1>1. /\ unpend(t) /\ crit.op = "obj_del" /\ blk_state' = [blk_state EXCEPT ![t] = "BLK_DEL"]
      /\ blk_list[crit.obj] # << >> /\ t = Head(blk_list[crit.obj])
      /\ UNCHANGED <<prio, suspend_count, rrVars, g_tick_count, cpuVars, callVars, crit>>
      /\ UNCHANGED <<obj_kind, obj_type, flags, pend, pend_info>>
      /\ crit # NoCrit /\ crit' # NoCrit /\ "BLK_DEL" \in BlkState
      /\ crit.op # "event_set" /\ crit'.op # "event_set"
  BY DEF obj_del_turn, pend_task_rm, NoCrit, BlkState, objVars, eventVars
<1>2. PICK o \in Obj : o = crit.obj /\ ~obj_type[o] /\ WaitOf(t) = <<"waiting", o>>
  BY <1>1, FirstOnList DEF IpcInv, LoopOK, Loops
<1>3. o = blk_obj[t]
  BY <1>2, OnList DEF IpcInv
<1>4. (\A u \in Task \ {t} : WaitOf(u)' = WaitOf(u)) /\ WaitOf(t)' = <<"cancelled", o>>
  BY <1>1, <1>3, WakeInLoop DEF IpcInv
<1>5. CASE obj_kind[o] # "event"
  BY <1>1, <1>2, <1>4, <1>5, QueueWake_Event
<1>6. CASE obj_kind[o] = "event"
  <2>1. \A u \in Task \ {t} : EWait'[u] = EWait[u]
    BY <1>1, <1>4, EWaitsKept
  <2>2. pend[t] \in Options /\ EWait[t] = <<"waiting", o, pend[t]>>
    BY <1>1, <1>2, <1>6, EWaiting
  <2>3. EWait'[t] = <<"cancelled", o>>
    BY <1>1, <1>4, <1>6, EventWaitsAfter DEF EventWaitOf, EWait
  <2>4. AbsEvent!Move(t, <<"cancelled", o>>)
    BY <1>1, <2>1, <2>3, EDataKept, EMoves
  <2>5. o \notin EAlive
    BY <1>2 DEF EAlive
  <2>6. AbsEvent!Waits(t, o)
    BY <2>2 DEF AbsEvent!Waits, EWait
  <2>7. AbsEvent!Cancel(t, o)
    BY <2>4, <2>5, <2>6, ERetNone DEF AbsEvent!Cancel, EAlive, ERet
  <2> QED
    BY <2>7 DEF AbsEvent!Next
<1> QED
  BY <1>5, <1>6

LEMMA all_send_turn_Event ==
  ASSUME IpcInv, IpcInv', NEW t \in Task, all_send_turn(t), UNCHANGED eventVars, ret' = NoRet
  PROVE  AbsEvent!Next
<1>1. /\ unpend(t) /\ crit.op = "all_send" /\ blk_state' = [blk_state EXCEPT ![t] = "BLK_FINISH"]
      /\ blk_list[crit.obj] # << >> /\ t = Head(blk_list[crit.obj])
      /\ UNCHANGED <<prio, suspend_count, rrVars, g_tick_count, cpuVars, callVars, crit>>
      /\ UNCHANGED <<obj_kind, obj_type, flags, pend, pend_info>>
      /\ crit # NoCrit /\ crit' # NoCrit /\ "BLK_FINISH" \in BlkState
      /\ crit.op # "event_set" /\ crit'.op # "event_set"
  BY DEF all_send_turn, task_msg_recv, pend_task_wakeup, NoCrit, BlkState, objVars, eventVars
<1>2. PICK o \in Obj : o = crit.obj /\ WaitOf(t) = <<"waiting", o>> /\ obj_kind[o] # "event"
  BY <1>1, FirstOnList DEF IpcInv, LoopOK, Loops
<1>3. o = blk_obj[t]
  BY <1>2, OnList DEF IpcInv
<1>4. (\A u \in Task \ {t} : WaitOf(u)' = WaitOf(u)) /\ WaitOf(t)' = <<"granted", o>>
  BY <1>1, <1>3, WakeInLoop DEF IpcInv
<1> QED
  BY <1>1, <1>2, <1>4, QueueWake_Event

LEMMA LoopDone_Event ==
  ASSUME IpcInv, IpcInv', crit.op \in Loops, LoopDone, ret' = NoRet, UNCHANGED <<pend, pend_info>>,
         crit.op = "obj_del" => blk_list[crit.obj] = << >>,
         crit.op = "event_set" => crit.iter = << >>,
         \A o \in Obj : ring'[o] \in {ring[o], << >>},
         \A o \in Obj : flags'[o] = flags[o] \/ ~obj_type[o]
  PROVE  AbsEvent!Next
<1>1. /\ \A t \in Task : WaitOf(t)' = WaitOf(t)
      /\ UNCHANGED <<obj_kind, obj_type>>
  BY LoopDone_Ipc
<1>2. crit'.op # "event_set"
  BY DEF LoopDone, NoCrit
<1>3. ToBeFreed = {} /\ ToBeFreed' = {}
  BY <1>2 DEF ToBeFreed, ToSet
<1>4. \A t \in Task : EWait'[t] = EWait[t]
  BY <1>1, <1>3, EventWaitKept
<1>5. EAlive' = EAlive
  BY <1>1 DEF EAlive
<1>6. EFlags' = EFlags
  <2>1. \A o \in Obj : EFlags[o] = IF obj_type[o] THEN flags[o] ELSE {}
    BY <1>3 DEF EFlags
  <2>2. \A o \in Obj : EFlags'[o] = IF obj_type'[o] THEN flags'[o] ELSE {}
    BY <1>2 DEF EFlags
  <2>3. \A o \in Obj : EFlags'[o] = EFlags[o]
    BY <1>1, <2>1, <2>2
  <2> QED
    BY <2>3 DEF EFlags
<1> QED
  BY <1>4, <1>5, <1>6, ERetNone, EQuiet

\* What event_set has still to clear, before and after it has looked at one waiter.
LEMMA ClearedLater ==
  ASSUME NEW S, NEW t, NEW f, NEW C(_)
  PROVE  t \in S => f \ UNION {C(u) : u \in S} = (f \ C(t)) \ UNION {C(u) : u \in S \ {t}}
  OBVIOUS

\* The step of AbstractEvent was taken when event_set began: a turn changes nothing any more.
LEMMA event_set_turn_Event ==
  ASSUME IpcInv, IpcInv', NEW t \in Task, event_set_turn(t), UNCHANGED msgVars, ret' = NoRet
  PROVE  AbsEvent!Next
<1>1. /\ crit.op = "event_set" /\ crit.iter # << >> /\ t = Head(crit.iter)
      /\ crit' = [crit EXCEPT !.iter = Tail(@)] /\ pend' = pend
      /\ UNCHANGED <<rrVars, g_tick_count, cpuVars, callVars>>
      /\ UNCHANGED <<obj_kind, obj_type>>
  BY DEF event_set_turn, objVars, eventVars
<1>2. /\ crit \in [op : {"event_set"}, obj : Obj, flags : SUBSET Flag, iter : Seq(Task)]
      /\ obj_kind[crit.obj] = "event" /\ obj_type[crit.obj] /\ ObjTypeOK
  BY <1>1, TypeParts DEF IpcInv, LoopOK
<1>3. PICK o \in Obj, f \in SUBSET Flag, s \in Seq(Task) :
         crit = [op |-> "event_set", obj |-> o, flags |-> f, iter |-> s]
  BY <1>2
<1>4. crit' = [op |-> "event_set", obj |-> o, flags |-> f, iter |-> Tail(s)] /\ s # << >> /\ t = Head(s)
  BY <1>1, <1>3
<1>5. /\ WaitOf(t) = <<"waiting", o>> /\ obj_kind[o] = "event" /\ obj_type[o]
      /\ t \in ToSet(s) /\ t \notin ToSet(Tail(s)) /\ ToSet(s) = ToSet(Tail(s)) \cup {t}
  BY <1>1, <1>2, <1>3, FirstInTurn
<1>6. /\ ToBeFreed = {u \in ToSet(s) : Met(f, pend[u])}
      /\ ToBeFreed' = {u \in ToSet(Tail(s)) : Met(f, pend[u])}
  BY <1>1, <1>3, <1>4 DEF ToBeFreed
<1>7. ToBeFreed' = ToBeFreed \ {t} /\ (t \in ToBeFreed <=> Met(f, pend[t]))
  BY <1>5, <1>6
<1>8. crit # NoCrit /\ crit' # NoCrit /\ crit.flags = f /\ crit'.flags = f
  BY <1>3, <1>4 DEF NoCrit
<1>9. EAlive' = EAlive
  BY <1>1 DEF EAlive
<1>10. CASE ~Met(f, pend[t])
  <2>1. UNCHANGED <<tcbVars, flags, pend_info>>
    BY <1>3, <1>10 DEF event_set_turn, event_set_met, eventVars
  <2>2. \A u \in Task : WaitOf(u)' = WaitOf(u)
    BY <1>1, <2>1, WaitsStay DEF IpcInv
  <2>3. ToBeFreed' = ToBeFreed
    BY <1>7, <1>10
  <2>4. \A u \in Task : EWait'[u] = EWait[u]
    BY <1>1, <1>8, <2>1, <2>2, <2>3, EventWaitKept
  <2>5. EFlags' = EFlags
    BY <1>1, <1>3, <1>4, <2>1, <2>3 DEF EFlags
  <2> QED
    BY <1>9, <2>4, <2>5, ERetNone, EQuiet
<1>11. CASE Met(f, pend[t])
  <2>1. /\ pend_info' = [pend_info EXCEPT ![t] = f] /\ pend_task_wakeup(t)
        /\ flags' = [flags EXCEPT ![o] = @ \ Cleared(pend[t])] /\ UNCHANGED <<prio, suspend_count>>
    BY <1>3, <1>11 DEF event_set_turn, event_set_met
  <2>2. unpend(t) /\ blk_state' = [blk_state EXCEPT ![t] = "BLK_FINISH"] /\ "BLK_FINISH" \in BlkState
    BY <2>1 DEF pend_task_wakeup, BlkState
  <2>3. o = blk_obj[t]
    BY <1>5, OnList DEF IpcInv
  <2>4. (\A u \in Task \ {t} : WaitOf(u)' = WaitOf(u)) /\ WaitOf(t)' = <<"granted", o>>
    BY <1>1, <1>8, <2>1, <2>2, <2>3, WakeInLoop DEF IpcInv
  <2>5. pend_info'[t] = f /\ \A u \in Task \ {t} : pend_info'[u] = pend_info[u]
    BY <1>2, <2>1 DEF ObjTypeOK
  <2>6. \A u \in Task \ {t} : EWait'[u] = EWait[u]
    BY <1>1, <1>7, <1>8, <2>4, <2>5, EventWaitKept
  <2>7. EWait[t] = <<"got", o, f>>
    BY <1>5, <1>7, <1>8, <1>11, EventWaits DEF EventWaitOf, EWait
  <2>8. EWait'[t] = <<"got", o, f>>
    BY <1>1, <1>5, <2>4, <2>5, EventWaitsAfter DEF EventWaitOf, EWait
  <2>9. flags'[o] = flags[o] \ Cleared(pend[t]) /\ \A x \in Obj \ {o} : flags'[x] = flags[x]
    BY <1>2, <2>1 DEF ObjTypeOK
  <2>10. flags[o] \ UNION {Cleared(pend[u]) : u \in ToBeFreed}
           = flags'[o] \ UNION {Cleared(pend'[u]) : u \in ToBeFreed'}
    <3> DEFINE C(u) == Cleared(pend[u])
    <3>1. PICK S : S = ToBeFreed
      OBVIOUS
    <3>2. PICK g : g = flags[o]
      OBVIOUS
    <3>3. t \in S /\ ToBeFreed' = S \ {t} /\ flags'[o] = g \ C(t)
      BY <1>7, <1>11, <2>9, <3>1, <3>2
    <3>4. \A u : Cleared(pend'[u]) = C(u)
      BY <1>1 DEF Cleared
    <3> HIDE DEF C
    <3>5. g \ UNION {C(u) : u \in S} = (g \ C(t)) \ UNION {C(u) : u \in S \ {t}}
      BY <3>3, ClearedLater
    <3>6. flags[o] \ UNION {Cleared(pend[u]) : u \in ToBeFreed} = g \ UNION {C(u) : u \in S}
      BY <3>1, <3>2 DEF C
    <3>7. {Cleared(pend'[u]) : u \in ToBeFreed'} = {C(u) : u \in S \ {t}}
      BY <3>3, <3>4
    <3> QED
      BY <3>3, <3>5, <3>6, <3>7
  <2>11. EFlags' = EFlags
    <3>1. EFlags[o] = flags[o] \ UNION {Cleared(pend[u]) : u \in ToBeFreed}
      BY <1>3, <1>5 DEF EFlags
    <3>2. EFlags'[o] = flags'[o] \ UNION {Cleared(pend'[u]) : u \in ToBeFreed'}
      BY <1>1, <1>4, <1>5 DEF EFlags
    <3>3. \A x \in Obj \ {o} : EFlags'[x] = EFlags[x]
      BY <1>1, <1>3, <1>4, <2>9 DEF EFlags
    <3>4. \A x \in Obj : EFlags'[x] = EFlags[x]
      BY <2>10, <3>1, <3>2, <3>3
    <3> QED
      BY <3>4 DEF EFlags
  <2> QED
    BY <1>9, <2>6, <2>7, <2>8, <2>11, ERetNone, EQuiet
<1> QED
  BY <1>10, <1>11

LEMMA Loop_Event ==
  ASSUME IpcInv, IpcInv', \/ QueueLoop /\ UNCHANGED eventVars
                          \/ EventLoop /\ UNCHANGED msgVars
  PROVE  AbsEvent!Next
<1>1. ret' = NoRet /\ ObjTypeOK
  BY TypeParts DEF QueueLoop, EventLoop, IpcInv
<1>2. CASE event_del_done /\ UNCHANGED msgVars
  <2>1. PICK o \in Obj : o = crit.obj /\ crit.op = "obj_del" /\ ~obj_type[o]
    BY <1>2 DEF event_del_done, obj_del_done, IpcInv, LoopOK, Loops
  <2>2. /\ LoopDone /\ blk_list[crit.obj] = << >> /\ flags' = [flags EXCEPT ![o] = {}]
        /\ UNCHANGED <<ring, pend, pend_info>>
    BY <1>2, <2>1 DEF event_del_done, obj_del_done, msgVars
  <2>3. \A x \in Obj : flags'[x] = flags[x] \/ ~obj_type[x]
    BY <1>1, <2>1, <2>2 DEF ObjTypeOK
  <2> QED
    BY <1>1, <2>1, <2>2, <2>3, LoopDone_Event DEF Loops
<1>3. CASE \/ (queue_del_done \/ all_send_done) /\ UNCHANGED eventVars
           \/ event_set_done /\ UNCHANGED msgVars
  <2>1. /\ crit.op \in Loops /\ LoopDone /\ UNCHANGED <<flags, pend, pend_info>>
        /\ crit.op = "obj_del" => blk_list[crit.obj] = << >>
        /\ crit.op = "event_set" => crit.iter = << >>
    BY <1>3 DEF queue_del_done, all_send_done, event_set_done, obj_del_done, eventVars, Loops
  <2>2. \A x \in Obj : ring'[x] \in {ring[x], << >>}
    BY <1>1, <1>3 DEF queue_del_done, ring_reset, all_send_done, msgVars, ObjTypeOK
  <2> QED
    BY <1>1, <2>1, <2>2, LoopDone_Event
<1>4. ASSUME NEW t \in Task, all_send_turn(t), UNCHANGED eventVars PROVE AbsEvent!Next
  BY <1>1, <1>4, all_send_turn_Event
<1>5. ASSUME NEW t \in Task, event_set_turn(t), UNCHANGED msgVars PROVE AbsEvent!Next
  BY <1>1, <1>5, event_set_turn_Event
<1> QED
  BY <1>2, <1>3, <1>4, <1>5 DEF QueueLoop, EventLoop

-----------------------------------------------------------------------------
\* The flags of one event change.
LEMMA EFlagsAt ==
  ASSUME NEW o \in Obj, NEW v, EFlags'[o] = v, \A x \in Obj \ {o} : EFlags'[x] = EFlags[x]
  PROVE  EFlags' = [EFlags EXCEPT ![o] = v]
<1>1. PICK g : g = EFlags
  OBVIOUS
<1>2. PICK h : h = EFlags'
  OBVIOUS
<1>3. g = [x \in Obj |-> g[x]]
  BY <1>1 DEF EFlags
<1>4. h = [x \in Obj |-> h[x]]
  BY <1>2 DEF EFlags
<1>5. h[o] = v /\ \A x \in Obj \ {o} : h[x] = g[x]
  BY <1>1, <1>2
<1>6. h = [g EXCEPT ![o] = v]
  BY <1>3, <1>4, <1>5
<1> QED
  BY <1>1, <1>2, <1>6

\* The services, as AbstractEvent sees them.
LEMMA ECreate ==
  ASSUME IpcInv, IpcInv', crit = NoCrit, crit' = crit, NEW o \in Obj, NEW kind, obj_create(o, kind),
         UNCHANGED <<pend, pend_info>>, ret' = NoRet,
         \A t \in Task : WaitOf(t)' = WaitOf(t), blk_list[o] = << >>,
         NEW f \in SUBSET Flag,
         IF kind = "event" THEN flags' = [flags EXCEPT ![o] = f] ELSE UNCHANGED flags
  PROVE  AbsEvent!Next
<1>1. /\ ObjTypeOK /\ obj_kind[o] = kind /\ ~obj_type[o] /\ obj_kind' = obj_kind /\ KindOK
      /\ obj_type' = [obj_type EXCEPT ![o] = TRUE] /\ crit.op # "event_set" /\ crit'.op # "event_set"
  BY TypeParts DEF IpcInv, obj_create, NoCrit
<1>2. obj_type'[o] /\ \A x \in Obj \ {o} : obj_type'[x] = obj_type[x] /\ flags'[x] = flags[x]
  BY <1>1 DEF ObjTypeOK
<1>3. \A t \in Task : EWait'[t] = EWait[t]
  BY <1>1, EWaitsKept
<1>4. CASE kind # "event"
  <2>1. flags'[o] = {}
    BY <1>1, <1>4 DEF KindOK
  <2>2. EFlags' = EFlags /\ EAlive' = EAlive
    BY <1>1, <1>2, <1>4, <2>1, NotFreeing, ZenonT(60) DEF EAlive
  <2> QED
    BY <1>3, <2>2, ERetNone, EQuiet
<1>5. CASE kind = "event"
  <2>1. EAlive' = EAlive \cup {o} /\ o \notin EAlive
    BY <1>1, <1>2, <1>5 DEF EAlive
  <2>2. flags'[o] = f
    BY <1>1, <1>5 DEF ObjTypeOK
  <2>3. EFlags' = [EFlags EXCEPT ![o] = f]
    <3>1. EFlags'[o] = f /\ \A x \in Obj \ {o} : EFlags'[x] = EFlags[x]
      BY <1>1, <1>2, <2>2, NotFreeing
    <3> QED
      BY <3>1, EFlagsAt
  <2>4. \A t \in Task : ~AbsEvent!Waits(t, o)
    BY <1>1, EWaiting, WaitsAlive DEF AbsEvent!Waits, EWait
  <2>5. EWait' = EWait
    BY <1>3 DEF EWait
  <2>6. AbsEvent!Create(o)
    BY <2>1, <2>3, <2>4, <2>5, ERetNone DEF AbsEvent!Create, EAlive, EFlags, EWait, ERet
  <2> QED
    BY <2>6 DEF AbsEvent!Next
<1> QED
  BY <1>4, <1>5

LEMMA EDelete ==
  ASSUME IpcInv, IpcInv', crit = NoCrit, NEW o \in Obj, NEW kind, obj_del(o, kind),
         UNCHANGED <<msgVars, eventVars>>, ret' = NoRet, \A t \in Task : WaitOf(t)' = WaitOf(t)
  PROVE  AbsEvent!Next
<1>1. /\ ObjTypeOK /\ obj_kind[o] = kind /\ obj_type[o] /\ obj_kind' = obj_kind /\ KindOK
      /\ obj_type' = [obj_type EXCEPT ![o] = FALSE] /\ UNCHANGED <<flags, pend, pend_info>>
      /\ crit.op # "event_set" /\ crit'.op # "event_set"
  BY TypeParts DEF IpcInv, obj_del, eventVars, NoCrit
<1>2. ~obj_type'[o] /\ \A x \in Obj \ {o} : obj_type'[x] = obj_type[x]
  BY <1>1 DEF ObjTypeOK
<1>3. \A t \in Task : EWait'[t] = EWait[t]
  BY <1>1, EWaitsKept
<1>4. EFlags' = [EFlags EXCEPT ![o] = {}] /\ EFlags[o] = flags[o]
  BY <1>1, <1>2, NotFreeing
<1>5. CASE kind # "event"
  <2>1. flags[o] = {}
    BY <1>1, <1>5 DEF KindOK
  <2>2. EAlive' = EAlive
    BY <1>1, <1>2, <1>5 DEF EAlive
  <2>3. EFlags' = EFlags
    BY <1>4, <2>1 DEF EFlags
  <2> QED
    BY <1>3, <2>2, <2>3, ERetNone, EQuiet
<1>6. CASE kind = "event"
  <2>1. EAlive' = EAlive \ {o} /\ o \in EAlive
    BY <1>1, <1>2, <1>6 DEF EAlive
  <2>2. EWait' = EWait
    BY <1>3 DEF EWait
  <2>3. AbsEvent!Delete(o)
    BY <1>4, <2>1, <2>2, ERetNone DEF AbsEvent!Delete, EAlive, EFlags, EWait, ERet
  <2> QED
    BY <2>3 DEF AbsEvent!Next
<1> QED
  BY <1>5, <1>6

\* The tests of event_set and krhino_event_get, and those of AbstractEvent.
LEMMA Conditions ==
  ASSUME NEW f, NEW c
  PROVE  (Met(f, c) <=> AbsEvent!Holds(f, c)) /\ Cleared(c) = AbsEvent!Cleared(c)
<1>1. f \cap c[1] = c[1] <=> c[1] \subseteq f
  OBVIOUS
<1>2. f \cap c[1] # {} <=> c[1] \cap f # {}
  OBVIOUS
<1> QED
  BY <1>1, <1>2 DEF Met, Cleared, AbsEvent!Holds, AbsEvent!Cleared

\* event_set begins: in AbstractEvent everybody whose condition holds is freed now.
LEMMA SetOr_Event ==
  ASSUME IpcInv, IpcInv', NEW o \in Obj, NEW f \in NewFlags, event_set_or(o, f), UNCHANGED msgVars,
         ret' = NoRet, \A t \in Task : WaitOf(t)' = WaitOf(t)
  PROVE  AbsEvent!Next
<1>1. /\ obj_kind[o] = "event" /\ obj_type[o] /\ crit.op # "event_set"
      /\ flags' = [flags EXCEPT ![o] = @ \cup f]
      /\ crit' = [op |-> "event_set", obj |-> o, flags |-> flags'[o], iter |-> blk_list[o]]
      /\ UNCHANGED <<obj_kind, obj_type, pend, pend_info>>
      /\ ObjTypeOK /\ CoreInv /\ CallOK /\ f \in SUBSET Flag
  BY TypeParts, CallPoint, FlagAssumption DEF event_set_or, objVars, NoCrit, IpcInv
<1>2. PICK now : now = flags[o] \cup f
  OBVIOUS
<1>3. flags'[o] = now /\ \A x \in Obj \ {o} : flags'[x] = flags[x]
  BY <1>1, <1>2 DEF ObjTypeOK
<1>4. PICK s \in Seq(Task) : s = blk_list[o]
  BY <1>1 DEF CoreInv, CoreTypeOK
<1>5. crit' = [op |-> "event_set", obj |-> o, flags |-> now, iter |-> s]
  BY <1>1, <1>3, <1>4
<1>6. crit'.op = "event_set" /\ crit'.obj = o /\ crit'.flags = now /\ crit'.iter = s
  BY <1>5
<1>7. EAlive' = EAlive /\ o \in EAlive
  BY <1>1 DEF EAlive
<1>8. EFlags[o] = flags[o] /\ EFlags = [x \in Obj |-> IF obj_type[x] THEN flags[x] ELSE {}]
  BY <1>1 DEF EFlags
<1>9. PICK freed : freed = {t \in Task : AbsEvent!Waits(t, o) /\ AbsEvent!Holds(now, AbsEvent!Cond(t))}
  OBVIOUS
<1>10. ASSUME NEW t \in Task
       PROVE  /\ AbsEvent!Waits(t, o) <=> WaitOf(t) = <<"waiting", o>>
              /\ AbsEvent!Waits(t, o) => EWait[t] = <<"waiting", o, pend[t]>> /\ AbsEvent!Cond(t) = pend[t]
  <2>1. AbsEvent!Cond(t) = EWait[t][3] /\ (AbsEvent!Waits(t, o) <=> \E c \in Options : EWait[t] = <<"waiting", o, c>>)
    BY DEF AbsEvent!Cond, AbsEvent!Waits, EWait
  <2>2. AbsEvent!Waits(t, o) => WaitOf(t) = <<"waiting", o>>
    BY <1>1, <2>1, EWaiting
  <2>3. WaitOf(t) = <<"waiting", o>> => pend[t] \in Options /\ EWait[t] = <<"waiting", o, pend[t]>>
    BY <1>1, EWaiting
  <2> QED
    BY <2>1, <2>2, <2>3
<1>11. ToBeFreed' = freed
  <2>1. ToBeFreed' = {t \in ToSet(s) : Met(now, pend[t])}
    BY <1>1, <1>6 DEF ToBeFreed
  <2>2. \A t \in Task : t \in ToSet(s) <=> WaitOf(t) = <<"waiting", o>>
    BY <1>1, <1>4, OnList
  <2>3. ToSet(s) \subseteq Task
    BY DEF ToSet
  <2>4. \A t \in Task : AbsEvent!Waits(t, o) => (AbsEvent!Holds(now, AbsEvent!Cond(t)) <=> Met(now, pend[t]))
    BY <1>10, Conditions
  <2> QED
    BY <1>9, <1>10, <2>1, <2>2, <2>3, <2>4
<1>12. ASSUME NEW t \in Task PROVE EWait'[t] = IF t \in freed THEN <<"got", o, now>> ELSE EWait[t]
  <2>1. CASE t \in freed
    <3>1. WaitOf(t)' = <<"waiting", o>> /\ t \in ToBeFreed'
      BY <1>9, <1>10, <1>11, <2>1
    <3> QED
      BY <1>1, <1>6, <2>1, <3>1, EventWaitsAfter DEF EventWaitOf, EWait
  <2>2. CASE t \notin freed
    <3>1. t \notin ToBeFreed' /\ t \notin ToBeFreed
      BY <1>1, <1>11, <2>2 DEF ToBeFreed
    <3> QED
      BY <1>1, <2>2, <3>1, EventWaitKept
  <2> QED
    BY <2>1, <2>2
<1>13. EWait' = [t \in Task |-> IF t \in freed THEN <<"got", o, now>> ELSE EWait[t]]
  BY <1>12 DEF EWait
<1>14. UNION {Cleared(pend'[t]) : t \in ToBeFreed'} = UNION {AbsEvent!Cleared(AbsEvent!Cond(t)) : t \in freed}
  <2>1. \A t \in freed : Cleared(pend'[t]) = AbsEvent!Cleared(AbsEvent!Cond(t))
    BY <1>1, <1>9, <1>10, Conditions
  <2> QED
    BY <1>11, <2>1
<1>15. EFlags' = [EFlags EXCEPT ![o] = now \ UNION {AbsEvent!Cleared(AbsEvent!Cond(t)) : t \in freed}]
  <2>1. EFlags'[o] = now \ UNION {Cleared(pend'[t]) : t \in ToBeFreed'}
    BY <1>1, <1>3, <1>6 DEF EFlags
  <2>2. \A x \in Obj \ {o} : EFlags'[x] = EFlags[x]
    BY <1>1, <1>3, <1>6 DEF EFlags
  <2>3. EFlags'[o] = now \ UNION {AbsEvent!Cleared(AbsEvent!Cond(t)) : t \in freed}
    BY <1>14, <2>1
  <2>4. PICK v : v = now \ UNION {AbsEvent!Cleared(AbsEvent!Cond(t)) : t \in freed}
    OBVIOUS
  <2> QED
    BY <2>2, <2>3, <2>4, EFlagsAt
<1>16. AbsEvent!Set(o, f)
  <2> DEFINE N == EFlags[o] \cup f
             F == {t \in Task : AbsEvent!Waits(t, o) /\ AbsEvent!Holds(N, AbsEvent!Cond(t))}
  <2>1. now = N
    BY <1>2, <1>8
  <2>2. freed = F
    BY <1>9, <2>1
  <2>3. EWait' = [t \in Task |-> IF t \in F THEN <<"got", o, N>> ELSE EWait[t]]
    <3> HIDE DEF N, F
    <3> QED
      BY <1>13, <2>1, <2>2
  <2>4. EFlags' = [EFlags EXCEPT ![o] = N \ UNION {AbsEvent!Cleared(AbsEvent!Cond(t)) : t \in F}]
    <3> HIDE DEF N, F
    <3> QED
      BY <1>15, <2>1, <2>2
  <2>5. ERet' = NoRet
    BY ERetNone
  <2> QED
    BY <1>7, <2>3, <2>4, <2>5 DEF AbsEvent!Set, EAlive, EFlags, EWait, ERet
<1> QED
  BY <1>1, <1>16 DEF AbsEvent!Next

\* The waits stay, and the flags of one event change.
LEMMA EFlagsStep ==
  ASSUME IpcInv, IpcInv', crit = NoCrit, UNCHANGED <<coreVars, objVars, pend, pend_info>>,
         NEW o \in Obj, obj_type[o], obj_kind[o] = "event", NEW v, flags' = [flags EXCEPT ![o] = v],
         \A t \in Task : WaitOf(t)' = WaitOf(t)
  PROVE  /\ EAlive' = EAlive /\ o \in EAlive /\ EWait' = EWait
         /\ EFlags[o] = flags[o] /\ EFlags' = [EFlags EXCEPT ![o] = v]
<1>1. ObjTypeOK /\ UNCHANGED <<obj_kind, obj_type>> /\ crit.op # "event_set" /\ crit'.op # "event_set"
  BY TypeParts DEF IpcInv, objVars, coreVars, NoCrit
<1>2. flags'[o] = v /\ \A x \in Obj \ {o} : flags'[x] = flags[x]
  BY <1>1 DEF ObjTypeOK
<1>3. EFlags[o] = flags[o] /\ EFlags'[o] = v /\ \A x \in Obj \ {o} : EFlags'[x] = EFlags[x]
  BY <1>1, <1>2, NotFreeing
<1>4. \A t \in Task : EWait'[t] = EWait[t]
  BY <1>1, EWaitsKept
<1>5. EWait' = EWait
  BY <1>4 DEF EWait
<1>6. EAlive' = EAlive /\ o \in EAlive
  BY <1>1 DEF EAlive
<1> QED
  BY <1>3, <1>5, <1>6, EFlagsAt

LEMMA Get_Event ==
  ASSUME IpcInv, IpcInv', NEW o \in Obj, NEW c \in Options, NEW ticks \in Ticks \cup {WaitForever},
         UNCHANGED msgVars, krhino_event_get(o, c, ticks)
  PROVE  AbsEvent!Next
<1>1. /\ TaskCall("event_get") /\ obj_type[o] /\ obj_kind[o] = "event"
      /\ ticks \in 0 .. TickMod - 1 /\ crit = NoCrit
  BY TickValues, GetParts DEF TaskCall
<1>2. PICK t \in Task : t = g_active_task
  BY GetParts
<1>3. o \in EAlive /\ EFlags[o] = flags[o]
  BY <1>1 DEF EAlive, EFlags, NoCrit
<1>4. CASE /\ Met(flags[o], c) /\ flags' = [flags EXCEPT ![o] = flags[o] \ Cleared(c)]
           /\ flags[o] \in SUBSET Flag /\ ret' = Returned(g_active_task, o, flags[o])
           /\ UNCHANGED <<coreVars, objVars, msgVars, pend, pend_info>>
  <2>1. PICK v \in SUBSET Flag : v = flags[o] \ Cleared(c)
    BY <1>4
  <2>2. \A u \in Task : WaitOf(u)' = WaitOf(u)
    BY <1>1, <1>4, <2>1, Flags_Ipc
  <2>3. EAlive' = EAlive /\ EWait' = EWait /\ EFlags' = [EFlags EXCEPT ![o] = v]
    BY <1>1, <1>4, <2>1, <2>2, EFlagsStep
  <2>4. v = EFlags[o] \ AbsEvent!Cleared(c) /\ AbsEvent!Holds(EFlags[o], c)
    BY <1>3, <1>4, <2>1, Conditions
  <2>5. ERet' = AbsEvent!Returned(t, o, EFlags[o])
    <3>1. ret' = Returned(t, o, flags[o]) /\ ret'.obj = o /\ obj_kind'[o] = "event"
      BY <1>1, <1>2, <1>4 DEF Returned, objVars
    <3> QED
      BY <1>3, <3>1 DEF ERet, Returned, AbsEvent!Returned
  <2>6. AbsEvent!Get(t, o, c)
    BY <1>3, <2>3, <2>4, <2>5 DEF AbsEvent!Get, EAlive, EFlags, EWait, ERet
  <2> QED
    BY <2>6 DEF AbsEvent!Next
<1>5. CASE /\ ~Met(flags[o], c) /\ Pend(o, ticks) /\ ret' = NoRet
           /\ pend' \in [Task -> Options \cup {NULL}] /\ pend'[g_active_task] = c
           /\ \A u \in Task \ {g_active_task} : pend'[u] = pend[u]
           /\ UNCHANGED <<rrVars, g_tick_count, cpuVars, crit>>
           /\ UNCHANGED <<objVars, msgVars, flags, pend_info>>
  <2>1. /\ ring[o] = << >> /\ UNCHANGED <<obj_kind, obj_type, flags, pend_info>>
        /\ crit.op # "event_set" /\ crit'.op # "event_set"
    BY <1>1, <1>5 DEF IpcInv, KindOK, objVars, NoCrit
  <2>2. /\ \A u \in Task \ {t} : WaitOf(u)' = WaitOf(u)
        /\ WaitOf(t) = <<"out">> /\ WaitOf(t)' = <<"waiting", o>>
    BY <1>1, <1>2, <1>5, <2>1, Pend_Ipc
  <2>3. \A u \in Task \ {t} : EWait'[u] = EWait[u]
    BY <1>2, <1>5, <2>1, <2>2, EWaitsKept
  <2>4. EWait[t] = <<"out">>
    BY <2>2, EventWaits DEF EventWaitOf, EWait
  <2>5. EWait'[t] = <<"waiting", o, c>>
    <3>1. t \notin ToBeFreed' /\ pend'[t] = c /\ obj_kind'[o] = "event"
      BY <1>1, <1>2, <1>5, <2>1, NotFreeing
    <3> QED
      BY <2>2, <3>1, EventWaitsAfter DEF EventWaitOf, EWait
  <2>6. AbsEvent!Move(t, <<"waiting", o, c>>)
    BY <2>1, <2>3, <2>5, EDataKept, EMoves
  <2>7. ~AbsEvent!Holds(EFlags[o], c)
    BY <1>3, <1>5, Conditions
  <2>8. AbsEvent!Wait(t, o, c)
    BY <1>3, <1>5, <2>4, <2>6, <2>7, ERetNone DEF AbsEvent!Wait, AbsEvent!Out, EAlive, EFlags, EWait, ERet
  <2> QED
    BY <2>8 DEF AbsEvent!Next
<1> QED
  BY <1>4, <1>5, GetParts

LEMMA EventService_Event ==
  ASSUME IpcInv, IpcInv', NEW o \in Obj, EventService(o), UNCHANGED msgVars PROVE AbsEvent!Next
<1>1. UNCHANGED <<ring, cur_num, freesize, msg>> /\ ret' = NoRet
  BY DEF msgVars, EventService
<1>2. ASSUME krhino_event_del(o) PROVE AbsEvent!Next
  <2>1. TaskCall("event_del") /\ obj_del(o, "event") /\ UNCHANGED eventVars /\ crit = NoCrit
    BY <1>2 DEF krhino_event_del, TaskCall
  <2>2. \A t \in Task : WaitOf(t)' = WaitOf(t)
    BY <2>1, Del_Ipc
  <2> QED
    BY <1>1, <2>1, <2>2, EDelete
<1>3. ASSUME NEW f \in NewFlags, event_create(o, f) PROVE AbsEvent!Next
  <2>1. /\ crit = NoCrit /\ obj_create(o, "event") /\ flags' = [flags EXCEPT ![o] = f]
        /\ UNCHANGED <<pend, pend_info>> /\ f \in SUBSET Flag
    BY <1>3, FlagAssumption DEF event_create, TaskCall
  <2>2. (\A t \in Task : WaitOf(t)' = WaitOf(t)) /\ blk_list[o] = << >> /\ crit' = crit
    BY <1>1, <2>1, Create_Ipc
  <2> QED
    BY <1>1, <2>1, <2>2, ECreate
<1>4. ASSUME NEW f \in NewFlags, event_set_or(o, f) PROVE AbsEvent!Next
  BY <1>1, <1>4, SetOr_Ipc, SetOr_Event
<1>5. ASSUME NEW f \in NewFlags, event_set_and(o, f) PROVE AbsEvent!Next
  <2>1. /\ crit = NoCrit /\ obj_kind[o] = "event" /\ obj_type[o] /\ f \in SUBSET Flag
        /\ flags' = [flags EXCEPT ![o] = flags[o] \cap f] /\ UNCHANGED <<coreVars, objVars, pend, pend_info>>
    BY <1>5, CallPoint, FlagAssumption DEF event_set_and
  <2>2. PICK v \in SUBSET Flag : v = flags[o] \cap f
    BY <2>1
  <2>3. \A t \in Task : WaitOf(t)' = WaitOf(t)
    BY <2>1, <2>2, Flags_Ipc
  <2>4. /\ EAlive' = EAlive /\ o \in EAlive /\ EWait' = EWait
        /\ EFlags[o] = flags[o] /\ EFlags' = [EFlags EXCEPT ![o] = v]
    BY <2>1, <2>2, <2>3, EFlagsStep
  <2>5. AbsEvent!Clear(o, f)
    BY <1>1, <2>2, <2>4, ERetNone DEF AbsEvent!Clear, EAlive, EFlags, EWait, ERet
  <2> QED
    BY <2>1, <2>5 DEF AbsEvent!Next
<1> QED
  BY <1>2, <1>3, <1>4, <1>5 DEF EventService

\* The services of queues are nothing that AbstractEvent sees.
LEMMA EStay ==
  ASSUME IpcInv, IpcInv', crit = NoCrit, crit'.op # "event_set", ERet' = NoRet,
         UNCHANGED <<tcbVars, callVars, objVars, flags, pend, pend_info>>
  PROVE  AbsEvent!Next
<1>1. (\A t \in Task : WaitOf(t)' = WaitOf(t)) /\ UNCHANGED <<obj_kind, obj_type>> /\ crit.op # "event_set"
  BY WaitsStay DEF IpcInv, objVars, NoCrit
<1>2. \A t \in Task : EWait'[t] = EWait[t]
  BY <1>1, EWaitsKept
<1> QED
  BY <1>1, <1>2, EDataKept, EQuiet

LEMMA Send_Event ==
  ASSUME IpcInv, IpcInv', NEW o \in Obj, NEW m \in Msg, UNCHANGED eventVars, ret' = NoRet,
         krhino_queue_back_send(o, m) \/ krhino_buf_queue_send(o, m)
  PROVE  AbsEvent!Next
<1>1. PICK api : AnyCall(api)
  BY DEF krhino_queue_back_send, krhino_buf_queue_send
<1>2. SendOne(o, m) /\ obj_kind[o] # "event" /\ crit = NoCrit /\ UNCHANGED <<flags, pend, pend_info>>
  BY <1>1, CallPoint DEF krhino_queue_back_send, krhino_buf_queue_send, eventVars
<1>3. CASE UNCHANGED <<coreVars, objVars, msg, eventVars>>
  <2>1. UNCHANGED <<tcbVars, callVars, objVars>> /\ crit'.op # "event_set"
    BY <1>2, <1>3 DEF coreVars, NoCrit
  <2> QED
    BY <1>2, <2>1, ERetNone, EStay
<1>4. CASE /\ blk_list[o] # << >> /\ task_msg_recv(Head(blk_list[o]), m) /\ RHINO_CRITICAL_EXIT_SCHED
           /\ UNCHANGED <<prio, suspend_count, rrVars, g_tick_count, cpuVars, crit>>
           /\ UNCHANGED <<objVars, ring, cur_num, freesize, eventVars>>
  <2>1. PICK t \in Task :
          /\ \A u \in Task \ {t} : WaitOf(u)' = WaitOf(u)
          /\ WaitOf(t) = <<"waiting", o>> /\ WaitOf(t)' = <<"granted", o>>
    BY <1>1, <1>2, <1>4, Hand_Ipc
  <2>2. UNCHANGED <<obj_kind, obj_type>> /\ crit.op # "event_set" /\ crit'.op # "event_set"
    BY <1>2, <1>4 DEF objVars, NoCrit
  <2> QED
    BY <1>2, <2>1, <2>2, QueueWake_Event
<1> QED
  BY <1>2, <1>3, <1>4, SendParts

LEMMA Recv_Event ==
  ASSUME IpcInv, IpcInv', NEW o \in Obj, NEW ticks \in Ticks \cup {WaitForever}, UNCHANGED eventVars,
         krhino_queue_recv(o, ticks) \/ krhino_buf_queue_recv(o, ticks)
  PROVE  AbsEvent!Next
<1>1. /\ ticks \in 0 .. TickMod - 1 /\ obj_type[o] /\ obj_kind[o] # "event" /\ crit = NoCrit
      /\ UNCHANGED <<flags, pend, pend_info>>
  BY TickValues, RecvParts, CallPoint DEF eventVars
<1>2. CASE /\ UNCHANGED <<coreVars, objVars, msg, eventVars>>
           /\ ret' = Returned(Caller, o, Head(ring[o]))
  <2>1. ret'.obj = o /\ obj_kind'[o] # "event"
    BY <1>1, <1>2 DEF Returned, objVars
  <2>2. ERet' = NoRet
    BY <2>1 DEF ERet
  <2>3. UNCHANGED <<tcbVars, callVars, objVars>> /\ crit'.op # "event_set"
    BY <1>1, <1>2 DEF coreVars, NoCrit
  <2> QED
    BY <1>1, <2>2, <2>3, EStay
<1>3. CASE /\ ring[o] = << >> /\ Pend(o, ticks) /\ ret' = NoRet
           /\ UNCHANGED <<rrVars, g_tick_count, cpuVars, crit>>
           /\ UNCHANGED <<objVars, msgVars, flags, pend, pend_info>>
           /\ \E api : TaskCall(api)
  <2>1. pend' \in [Task -> Options \cup {NULL}] /\ \A u \in Task : pend'[u] = pend[u]
    BY <1>1, TypeParts DEF IpcInv, ObjTypeOK
  <2>2. PICK t \in Task : t = g_active_task
    BY DEF IpcInv, CoreInv, CoreTypeOK
  <2>3. /\ \A u \in Task \ {t} : WaitOf(u)' = WaitOf(u)
        /\ WaitOf(t) = <<"out">> /\ WaitOf(t)' = <<"waiting", o>>
    BY <1>1, <1>3, <2>1, <2>2, Pend_Ipc
  <2>4. UNCHANGED <<obj_kind, obj_type>> /\ crit.op # "event_set" /\ crit'.op # "event_set"
    BY <1>1, <1>3 DEF objVars, NoCrit
  <2> QED
    BY <1>1, <1>3, <2>3, <2>4, QueueWake_Event
<1> QED
  BY <1>2, <1>3, RecvParts

LEMMA QueueService_Event ==
  ASSUME IpcInv, IpcInv', NEW o \in Obj, QueueService(o), UNCHANGED eventVars PROVE AbsEvent!Next
<1>1. UNCHANGED <<flags, pend, pend_info>> /\ ret' = NoRet
  BY DEF eventVars, QueueService
<1>2. ASSUME queue_create(o) \/ buf_queue_create(o) PROVE AbsEvent!Next
  <2>1. PICK kind \in {"queue", "buf_queue"} : obj_create(o, kind)
    BY <1>2 DEF queue_create, buf_queue_create
  <2>2. /\ crit = NoCrit /\ ring_reset(o) /\ cur_num' = [cur_num EXCEPT ![o] = 0] /\ UNCHANGED msg
        /\ kind # "event"
    BY <1>2 DEF queue_create, buf_queue_create, TaskCall
  <2>3. (\A t \in Task : WaitOf(t)' = WaitOf(t)) /\ blk_list[o] = << >> /\ crit' = crit
    BY <1>1, <2>1, <2>2, Create_Ipc
  <2>4. {} \in SUBSET Flag
    OBVIOUS
  <2> QED
    BY <1>1, <2>1, <2>2, <2>3, <2>4, ECreate
<1>3. ASSUME krhino_queue_del(o) \/ krhino_buf_queue_del(o) PROVE AbsEvent!Next
  <2>1. PICK api, kind : TaskCall(api) /\ obj_del(o, kind) /\ UNCHANGED msgVars
    BY <1>3 DEF krhino_queue_del, krhino_buf_queue_del
  <2>2. crit = NoCrit /\ \A t \in Task : WaitOf(t)' = WaitOf(t)
    BY <2>1, Del_Ipc DEF TaskCall
  <2> QED
    BY <1>1, <2>1, <2>2, EDelete
<1>4. ASSUME krhino_queue_flush(o) \/ krhino_buf_queue_flush(o) PROVE AbsEvent!Next
  <2>1. UNCHANGED <<tcbVars, callVars, objVars>> /\ crit = NoCrit /\ crit'.op # "event_set"
    BY <1>4 DEF krhino_queue_flush, krhino_buf_queue_flush, TaskCall, coreVars, NoCrit
  <2> QED
    BY <1>1, <2>1, ERetNone, EStay
<1>5. ASSUME NEW m \in Msg, krhino_queue_back_send(o, m) \/ krhino_buf_queue_send(o, m) PROVE AbsEvent!Next
  BY <1>1, <1>5, Send_Event
<1>6. ASSUME NEW m \in Msg, krhino_queue_all_send(o, m) PROVE AbsEvent!Next
  <2>1. UNCHANGED <<tcbVars, callVars, objVars>> /\ crit = NoCrit /\ crit'.op # "event_set"
    BY <1>6, CallPoint DEF krhino_queue_all_send, NoCrit
  <2> QED
    BY <1>1, <2>1, ERetNone, EStay
<1> QED
  BY <1>2, <1>3, <1>4, <1>5, <1>6 DEF QueueService

LEMMA Next_Event ==
  ASSUME IpcInv, IpcInv', [Next]_vars
  PROVE  AbsEvent!Next \/ UNCHANGED <<EAlive, EFlags, EWait, ERet>>
<1>1. ASSUME CoreStep PROVE AbsEvent!Next
  BY <1>1, CoreNext_Event, Timeout_Event DEF CoreStep
<1>2. ASSUME NEW t \in Task, obj_del_turn(t), ret' = NoRet, UNCHANGED <<msgVars, eventVars>>
      PROVE  AbsEvent!Next
  BY <1>2, obj_del_turn_Event
<1>3. ASSUME NEW o \in Obj, QueueService(o) \/ QueueReceive(o), UNCHANGED eventVars PROVE AbsEvent!Next
  BY <1>3, QueueService_Event, Recv_Event DEF QueueReceive
<1>4. ASSUME NEW o \in Obj, EventService(o) \/ EventReceive(o), UNCHANGED msgVars PROVE AbsEvent!Next
  BY <1>4, EventService_Event, Get_Event DEF EventReceive
<1>5. ASSUME UNCHANGED vars PROVE UNCHANGED <<EAlive, EFlags, EWait, ERet>>
  <2>1. UNCHANGED <<obj_kind, obj_type, ret, flags, pend, pend_info, crit, tcbVars, callVars>>
    BY <1>5 DEF vars, coreVars, objVars, eventVars
  <2>2. \A t \in Task : WaitOf(t)' = WaitOf(t)
    BY <2>1, WaitsStay DEF IpcInv
  <2>3. ToBeFreed' = ToBeFreed
    BY <2>1 DEF ToBeFreed
  <2>4. \A t \in Task : EWait'[t] = EWait[t]
    BY <2>1, <2>2, <2>3, EventWaitKept
  <2>5. EFlags' = EFlags
    BY <2>1, <2>3 DEF EFlags
  <2> QED
    BY <2>1, <2>4, <2>5 DEF EAlive, EWait, ERet
<1> QED
  BY <1>1, <1>2, <1>3, <1>4, <1>5, Loop_Event DEF Next

LEMMA Init_Event ==
  ASSUME Init PROVE AbsEvent!Init
<1>1. /\ \A t \in Task : task_state[t] \in {"K_RDY", "K_SEED"} /\ pc[t] = "user"
      /\ obj_type = [o \in Obj |-> FALSE] /\ ret = NoRet
  BY DEF Init, CoreInit
<1>2. \A t \in Task : EventWait(t) = <<"out">>
  BY <1>1 DEF EventWait, InCall
<1> QED
  BY <1>1, <1>2 DEF AbsEvent!Init, AbsEvent!Out

\* Event flags keep the promise of AbstractEvent: event_set, which tests the waiters one by one
\* while those it has woken clear flags, frees in one step everybody whose condition holds for
\* the flags it has set, and nobody else; each of them returns these flags, whatever those
\* before it have cleared.  A wait ends once, and the call returns how it ended (k_event.c).
THEOREM EventRefinement == Spec => ImplementsAbstractEvent
<1>1. Init => AbsEvent!Init
  BY Init_Event
<1>2. IpcInv /\ IpcInv' /\ [Next]_vars => AbsEvent!Next \/ UNCHANGED <<EAlive, EFlags, EWait, ERet>>
  BY Next_Event
<1> QED
  BY <1>1, <1>2, IpcInvariant, PTL DEF Spec, ImplementsAbstractEvent, AbsEvent!Spec, EAlive, EFlags, EWait, ERet

-----------------------------------------------------------------------------
(***************************************************************************)
(* The ring buffer under the buffer queues (k_ringbuf.c).  RingBuf is a    *)
(* specification of its own, whose constants and variables have no part in *)
(* what comes before, as those of the queues have none in what follows.    *)
(***************************************************************************)
\* An offset with the end taken for the start, and the place k bytes behind the offset h.
Home(p, n) == IF p = n THEN 0 ELSE p
Spot(h, k, n) == IF h + k < n THEN h + k ELSE h + k - n

\* The place k bytes behind an offset is a remainder.
LEMMA SpotMod ==
  ASSUME NEW n \in Nat \ {0}, NEW p \in 0 .. n, NEW k \in 0 .. n, NEW x, x = p + k
  PROVE  x % n = Spot(Home(p, n), k, n)
<1>1. CASE x < n
  BY <1>1 DEF Spot, Home
<1>2. CASE x >= n /\ x < n + n
  <2>1. x % n = x - n
    BY <1>2
  <2> QED
    BY <1>2, <2>1 DEF Spot, Home
<1>3. CASE x = n + n
  <2>1. x % n = 0
    BY <1>3
  <2> QED
    BY <1>3, <2>1 DEF Spot, Home
<1> QED
  BY <1>1, <1>2, <1>3

\* The m entries es lie one behind the other from h on, at st, and take the `used' bytes there.
Laid(n, b, h, m, st, es, used) ==
  /\ IF m = 0 THEN used = 0 ELSE st[1] = 0 /\ st[m] + Len(es[m]) = used
  /\ \A i \in 1 .. m : st[i] \in Nat /\ Len(es[i]) \in Nat /\ st[i] + Len(es[i]) <= used
  /\ \A i \in 1 .. m - 1 : st[i + 1] = st[i] + Len(es[i])
  /\ \A i, j \in 1 .. m : i < j => st[i] + Len(es[i]) <= st[j]
  /\ \A i \in 1 .. m : \A j \in 1 .. Len(es[i]) : b[Spot(h, st[i] + j - 1, n)] = es[i][j]

\* b with s behind the first u bytes from h on, and nothing else changed there.
Written(n, h, u, b, c, s) ==
  /\ \A k \in 0 .. u - 1 : c[Spot(h, k, n)] = b[Spot(h, k, n)]
  /\ \A j \in 1 .. Len(s) : c[Spot(h, u + j - 1, n)] = s[j]

\* One more entry, behind the first m.
Grown(m, st, es, st2, es2, used, e) ==
  (\A i \in 1 .. m : st2[i] = st[i] /\ es2[i] = es[i]) /\ st2[m + 1] = used /\ es2[m + 1] = e

\* The entries behind the first one, which has `size' bytes.
Behind(m, size, st, used) == \A i \in 1 .. m : st[i + 1] \in Nat /\ size <= st[i + 1] /\ st[i + 1] <= used
Shifted(m, size, st, es, st2, es2) ==
  \A i \in 1 .. m : st2[i] \in Nat /\ st[i + 1] = size + st2[i] /\ es2[i] = es[i + 1]

\* A write behind the entries lays out one more.
LEMMA LaidAppend ==
  ASSUME NEW n \in Nat, NEW h \in 0 .. n - 1, NEW b, NEW c, NEW m \in Nat, NEW used \in Nat,
         NEW st, NEW es, Laid(n, b, h, m, st, es, used), NEW st2, NEW es2, NEW e, Len(e) \in Nat,
         Grown(m, st, es, st2, es2, used, e), Written(n, h, used, b, c, e),
         NEW m2 \in Nat, m2 = m + 1, NEW used2 \in Nat, used2 = used + Len(e)
  PROVE  Laid(n, c, h, m2, st2, es2, used2)
<1> USE DEF Grown, Written
<1>1. st2[1] = 0
  BY DEF Laid
<1>2. \A i \in 1 .. m + 1 : st2[i] \in Nat /\ Len(es2[i]) \in Nat /\ st2[i] + Len(es2[i]) <= used + Len(e)
  <2> TAKE i \in 1 .. m + 1
  <2>1. CASE i = m + 1
    BY <2>1
  <2>2. CASE i \in 1 .. m
    <3>1. st2[i] = st[i] /\ es2[i] = es[i] /\ st[i] \in Nat /\ Len(es[i]) \in Nat /\ st[i] + Len(es[i]) <= used
      BY <2>2 DEF Laid
    <3> QED
      BY <3>1
  <2> QED
    BY <2>1, <2>2
<1>3. \A i \in 1 .. m : st2[i + 1] = st2[i] + Len(es2[i])
  <2> TAKE i \in 1 .. m
  <2>1. CASE i = m
    BY <2>1 DEF Laid
  <2>2. CASE i < m
    <3>1. i \in 1 .. m - 1 /\ i + 1 \in 1 .. m
      BY <2>2
    <3> QED
      BY <3>1 DEF Laid
  <2> QED
    BY <2>1, <2>2
<1>4. \A i, j \in 1 .. m + 1 : i < j => st2[i] + Len(es2[i]) <= st2[j]
  <2> SUFFICES ASSUME NEW i \in 1 .. m + 1, NEW j \in 1 .. m + 1, i < j PROVE st2[i] + Len(es2[i]) <= st2[j]
    OBVIOUS
  <2>1. i \in 1 .. m
    OBVIOUS
  <2>2. CASE j = m + 1
    BY <2>1, <2>2 DEF Laid
  <2>3. CASE j \in 1 .. m
    BY <2>1, <2>3 DEF Laid
  <2> QED
    BY <2>2, <2>3
<1>5. \A i \in 1 .. m + 1 : \A j \in 1 .. Len(es2[i]) : c[Spot(h, st2[i] + j - 1, n)] = es2[i][j]
  <2> SUFFICES ASSUME NEW i \in 1 .. m + 1, NEW j \in 1 .. Len(es2[i]) PROVE c[Spot(h, st2[i] + j - 1, n)] = es2[i][j]
    OBVIOUS
  <2>1. CASE i = m + 1
    BY <2>1
  <2>2. CASE i \in 1 .. m
    <3>1. j \in 1 .. Len(es[i]) /\ Len(es[i]) \in Nat /\ st[i] \in Nat /\ st[i] + Len(es[i]) <= used
      BY <2>2 DEF Laid
    <3>2. b[Spot(h, st[i] + j - 1, n)] = es[i][j]
      BY <2>2, <3>1 DEF Laid
    <3>3. st[i] + j - 1 \in 0 .. used - 1
      BY ONLY <3>1
    <3> QED
      BY <2>2, <3>2, <3>3
  <2> QED
    BY <2>1, <2>2
<1> QED
  BY <1>1, <1>2, <1>3, <1>4, <1>5 DEF Laid

\* Places are reckoned from any place on the way.
LEMMA SpotOn ==
  ASSUME NEW n \in Nat, NEW h \in 0 .. n - 1, NEW a \in Nat, NEW k \in Nat, NEW x \in 0 .. n, x = a + k,
         NEW g \in 0 .. n - 1, g = Spot(h, a, n)
  PROVE  Spot(g, k, n) = Spot(h, x, n)
  BY DEF Spot

\* What lies behind the first entry.
LEMMA LaidRest ==
  ASSUME NEW n \in Nat, NEW h \in 0 .. n - 1, NEW b, NEW m \in Nat, NEW used \in 0 .. n, NEW st, NEW es,
         Laid(n, b, h, m + 1, st, es, used), NEW size \in Nat, size = Len(es[1])
  PROVE  size <= used /\ st[1] = 0 /\ Behind(m, size, st, used)
<1>1. 1 \in 1 .. m + 1
  OBVIOUS
<1>2. st[1] = 0 /\ st[1] + size <= used
  BY <1>1 DEF Laid
<1> SUFFICES ASSUME NEW i \in 1 .. m PROVE st[i + 1] \in Nat /\ size <= st[i + 1] /\ st[i + 1] <= used
  BY <1>2 DEF Behind
<1>3. i + 1 \in 1 .. m + 1 /\ 1 < i + 1
  OBVIOUS
<1>4. st[1] + Len(es[1]) <= st[i + 1]
  BY <1>1, <1>3 DEF Laid
<1>5. st[i + 1] \in Nat /\ Len(es[i + 1]) \in Nat /\ st[i + 1] + Len(es[i + 1]) <= used
  BY <1>3 DEF Laid
<1> QED
  BY <1>2, <1>4, <1>5

\* Without the first entry the others lie as before, seen from the place behind it.
LEMMA LaidTail ==
  ASSUME NEW n \in Nat, NEW h \in 0 .. n - 1, NEW b, NEW m \in Nat, NEW used \in 0 .. n, NEW st, NEW es,
         NEW m1 \in Nat, m1 = m + 1, Laid(n, b, h, m1, st, es, used), NEW size \in Nat, size = Len(es[1]),
         NEW st2, NEW es2,
         Shifted(m, size, st, es, st2, es2),
         NEW g \in 0 .. n - 1, g = Spot(h, size, n), NEW rest \in Nat, used = size + rest
  PROVE  Laid(n, b, g, m, st2, es2, rest)
<1> USE DEF Shifted
<1>1. used = size + rest
  OBVIOUS
<1>2. g = Spot(h, size, n)
  OBVIOUS
<1>3. \A i \in 1 .. m : st2[i] \in Nat /\ Len(es2[i]) \in Nat /\ st2[i] + Len(es2[i]) <= rest
  <2> TAKE i \in 1 .. m
  <2>1. i + 1 \in 1 .. m + 1 /\ es2[i] = es[i + 1] /\ st[i + 1] = size + st2[i] /\ st2[i] \in Nat
    OBVIOUS
  <2>2. Len(es[i + 1]) \in Nat /\ st[i + 1] + Len(es[i + 1]) <= used
    BY <2>1 DEF Laid
  <2> QED
    BY ONLY <1>1, <2>1, <2>2
<1>4. IF m = 0 THEN rest = 0 ELSE st2[1] = 0 /\ st2[m] + Len(es2[m]) = rest
  <2>1. st[m + 1] + Len(es[m + 1]) = used /\ st[1] = 0
    BY DEF Laid
  <2>2. CASE m = 0
    BY <2>1, <2>2
  <2>3. CASE m # 0
    <3>1. 1 \in 1 .. m /\ m \in 1 .. m
      BY <2>3
    <3>2. st[1 + 1] = st[1] + Len(es[1])
      BY <3>1 DEF Laid
    <3>3. st2[1] \in Nat /\ st[1 + 1] = size + st2[1]
      BY <3>1
    <3>4. st2[1] = 0
      BY <2>1, <3>2, <3>3
    <3>5. st2[m] \in Nat /\ st[m + 1] = size + st2[m] /\ es2[m] = es[m + 1] /\ Len(es2[m]) \in Nat
      BY <1>3, <3>1
    <3>6. st2[m] + Len(es2[m]) = rest
      BY ONLY <1>1, <2>1, <3>5
    <3> QED
      BY <2>3, <3>4, <3>6
  <2> QED
    BY <2>2, <2>3
<1>5. \A i \in 1 .. m - 1 : st2[i + 1] = st2[i] + Len(es2[i])
  <2> TAKE i \in 1 .. m - 1
  <2>1. i \in 1 .. m /\ i + 1 \in 1 .. m
    OBVIOUS
  <2>2. st[(i + 1) + 1] = st[i + 1] + Len(es[i + 1])
    BY <2>1 DEF Laid
  <2>3. /\ st2[i] \in Nat /\ st[i + 1] = size + st2[i] /\ es2[i] = es[i + 1] /\ Len(es2[i]) \in Nat
        /\ st2[i + 1] \in Nat /\ st[(i + 1) + 1] = size + st2[i + 1]
    BY <1>3, <2>1
  <2>4. PICK x \in Nat, y \in Nat, l \in Nat : x = st2[i] /\ y = st2[i + 1] /\ l = Len(es2[i])
    BY ONLY <2>3
  <2>5. size + y = (size + x) + l
    BY ONLY <2>2, <2>3, <2>4
  <2>6. y = x + l
    BY ONLY <2>5
  <2> QED
    BY ONLY <2>4, <2>6
<1>6. \A i, j \in 1 .. m : i < j => st2[i] + Len(es2[i]) <= st2[j]
  <2> SUFFICES ASSUME NEW i \in 1 .. m, NEW j \in 1 .. m, i < j PROVE st2[i] + Len(es2[i]) <= st2[j]
    OBVIOUS
  <2>1. i + 1 \in 1 .. m + 1 /\ j + 1 \in 1 .. m + 1 /\ i + 1 < j + 1
    OBVIOUS
  <2>2. st[i + 1] + Len(es[i + 1]) <= st[j + 1]
    BY <2>1 DEF Laid
  <2>3. /\ st2[i] \in Nat /\ st[i + 1] = size + st2[i] /\ es2[i] = es[i + 1] /\ Len(es2[i]) \in Nat
        /\ st2[j] \in Nat /\ st[j + 1] = size + st2[j]
    BY <1>3
  <2> QED
    BY ONLY <2>2, <2>3
<1>7. \A i \in 1 .. m : \A j \in 1 .. Len(es2[i]) : b[Spot(g, st2[i] + j - 1, n)] = es2[i][j]
  <2> SUFFICES ASSUME NEW i \in 1 .. m, NEW j \in 1 .. Len(es2[i]) PROVE b[Spot(g, st2[i] + j - 1, n)] = es2[i][j]
    OBVIOUS
  <2>1. i + 1 \in 1 .. m + 1 /\ j \in 1 .. Len(es[i + 1])
    BY SMTT(30)
  <2>2. b[Spot(h, st[i + 1] + j - 1, n)] = es2[i][j]
    BY <2>1 DEF Laid
  <2>3. st2[i] \in Nat /\ Len(es2[i]) \in Nat /\ st2[i] + Len(es2[i]) <= rest /\ st[i + 1] = size + st2[i]
    BY <1>3
  <2>4. PICK k : k = st2[i] + j - 1
    OBVIOUS
  <2>5. j \in 1 .. Len(es2[i]) /\ used <= n
    OBVIOUS
  <2>6. k \in Nat /\ size + k = st[i + 1] + j - 1 /\ size + k <= n
    BY ONLY <1>1, <2>3, <2>4, <2>5, SMTT(30)
  <2>7. Spot(g, k, n) = Spot(h, size + k, n)
    <3>1. PICK x \in 0 .. n : x = size + k
      BY ONLY <2>6
    <3>2. Spot(g, k, n) = Spot(h, x, n)
      BY ONLY <1>2, <2>6, <3>1, SpotOn
    <3> QED
      BY ONLY <3>1, <3>2
  <2> QED
    BY <2>2, <2>4, <2>6, <2>7
<1> QED
  BY <1>3, <1>4, <1>5, <1>6, <1>7 DEF Laid

\* Division of natural numbers.
LEMMA DivMod ==
  ASSUME NEW x \in Nat, NEW n \in Nat \ {0}
  PROVE  x \div n \in Nat /\ x % n \in 0 .. n - 1 /\ x = n * (x \div n) + (x % n)
  OBVIOUS

LEMMA DivUnique ==
  ASSUME NEW x \in Nat, NEW n \in Nat \ {0}, NEW d \in Nat, NEW r \in 0 .. n - 1, x = n * d + r
  PROVE  x \div n = d /\ x % n = r
  OBVIOUS

LEMMA DivLess ==
  ASSUME NEW x \in Nat, NEW n \in Nat \ {0}, NEW q \in Nat, x < q * n
  PROVE  x \div n < q
<1>1. PICK d \in Nat : d = x \div n
  BY DivMod
<1>2. n * d <= x
  BY <1>1, DivMod
<1>3. CASE d >= q
  <2>1. n * d >= n * q
    BY <1>3
  <2> QED
    BY <1>2, <2>1
<1> QED
  BY <1>1, <1>3

\* The third byte of a header: two divisions are one.
LEMMA DivDiv ==
  ASSUME NEW x \in Nat, NEW n \in Nat \ {0}
  PROVE  (x \div n) \div n = x \div (n * n)
<1>1. PICK e \in Nat, r \in 0 .. n - 1 : e = x \div n /\ r = x % n /\ x = n * e + r
  BY DivMod
<1>2. PICK d \in Nat, s \in 0 .. n - 1 : d = e \div n /\ s = e % n /\ e = n * d + s
  BY DivMod
<1>3. n * n \in Nat \ {0}
  OBVIOUS
<1>4. n * s + r \in 0 .. n * n - 1
  <2>1. n * s + n <= n * n
    OBVIOUS
  <2>2. n * s \in Nat
    OBVIOUS
  <2> QED
    BY <2>1, <2>2
<1>5. x = (n * n) * d + (n * s + r)
  <2>1. n * (n * d + s) = n * (n * d) + n * s
    OBVIOUS
  <2>2. n * (n * d) = (n * n) * d
    OBVIOUS
  <2>3. n * e = (n * n) * d + n * s
    BY <1>2, <2>1, <2>2
  <2>4. PICK u \in Nat, v \in Nat, w \in Nat : u = n * e /\ v = (n * n) * d /\ w = n * s
    BY <1>3
  <2>5. x = u + r /\ u = v + w
    BY <1>1, <2>3, <2>4
  <2>6. x = v + (w + r)
    BY ONLY <2>5
  <2> QED
    BY <2>4, <2>6
<1>6. x \div (n * n) = d
  BY <1>3, <1>4, <1>5, DivUnique
<1> QED
  BY <1>1, <1>2, <1>6

\* The formats of the header: a quarter of the values of a byte is left behind its tag.
LEMMA Formats ==
  ASSUME RingAssumption
  PROVE  \E q \in Nat \ {0} :
           /\ ByteMod = 4 * q /\ ByteMod \div 4 = q /\ Max1 = 2 * q /\ ByteMod \in Nat \ {0}
           /\ Max2 = q * ByteMod /\ Max3 = q * (ByteMod * ByteMod) /\ Byte = 0 .. ByteMod - 1
           /\ Max1 \in Nat /\ Max2 \in Nat /\ Max3 \in Nat
           /\ Max1 <= Max2 /\ Max2 <= Max3
<1>1. ByteMod \in Nat /\ ByteMod >= 4 /\ ByteMod % 4 = 0
  BY DEF RingAssumption
<1>2. PICK q \in Nat \ {0} : ByteMod = 4 * q
  BY <1>1
<1>3. ByteMod \div 4 = q /\ ByteMod \div 2 = 2 * q
  BY <1>2
<1>4. (q * ByteMod) * ByteMod = q * (ByteMod * ByteMod)
  BY <1>1
<1>5. PICK m \in Nat : m = q * ByteMod
  BY <1>1
<1>6. 2 * q <= m
  BY <1>1, <1>5
<1>7. m <= m * ByteMod /\ m * ByteMod \in Nat
  BY <1>1
<1> QED
  BY <1>1, <1>2, <1>3, <1>4, <1>5, <1>6, <1>7 DEF Max1, Max2, Max3, Byte

\* A header is read as the length it was written for.
LEMMA Codec ==
  ASSUME RingAssumption, NEW len \in Nat \ {0}, len < Max3,
         NEW hd, hd = ringbuf_headlen_compress(len)
  PROVE  /\ hd \in Seq(Byte) /\ Len(hd) \in 1 .. 3
         /\ len_bytes(hd[1]) = Len(hd) /\ ringbuf_headlen_decompress(hd) = len
<1>1. PICK q \in Nat \ {0} :
           /\ ByteMod = 4 * q /\ ByteMod \div 4 = q /\ Max1 = 2 * q /\ ByteMod \in Nat \ {0}
           /\ Max2 = q * ByteMod /\ Max3 = q * (ByteMod * ByteMod) /\ Byte = 0 .. ByteMod - 1
           /\ Max1 \in Nat /\ Max2 \in Nat /\ Max3 \in Nat
           /\ Max1 <= Max2 /\ Max2 <= Max3
  BY Formats
<1>2. PICK B \in Nat \ {0} : B = ByteMod
  BY <1>1
<1>3. PICK e \in Nat, r \in 0 .. B - 1 : e = len \div B /\ r = len % B /\ len = B * e + r
  <2>1. len \div B \in Nat /\ len % B \in 0 .. B - 1 /\ len = B * (len \div B) + (len % B)
    BY ONLY DivMod
  <2> QED
    BY ONLY <2>1
<1>4. PICK d \in Nat, s \in 0 .. B - 1 : d = e \div B /\ s = e % B /\ e = B * d + s
  <2>1. e \div B \in Nat /\ e % B \in 0 .. B - 1 /\ e = B * (e \div B) + (e % B)
    BY ONLY DivMod
  <2> QED
    BY ONLY <2>1
<1>5. len \div (B * B) = d
  BY <1>3, <1>4, DivDiv
<1>6. /\ B = 4 * q /\ B \div 4 = q /\ Max1 = 2 * q /\ Byte = 0 .. B - 1
      /\ Max1 \in Nat /\ Max2 \in Nat /\ Max3 \in Nat
      /\ Max1 <= Max2 /\ Max2 <= Max3
  BY <1>1, <1>2
<1>7. ringbuf_headlen_compress(len) =
        IF len < Max1 THEN <<len>>
        ELSE IF len < Max2 THEN <<2 * q + e, r>> ELSE <<3 * q + d, s, r>>
  <2>1. len \div ByteMod = e /\ len % ByteMod = r /\ (len \div ByteMod) % ByteMod = s
        /\ len \div (ByteMod * ByteMod) = d /\ ByteMod \div 4 = q
    BY <1>2, <1>3, <1>4, <1>5, <1>6
  <2>2. PICK M1 \in Nat, M2 \in Nat, M3 \in Nat :
          M1 = Max1 /\ M2 = Max2 /\ M3 = Max3 /\ M1 <= M2 /\ len < M3
    BY <1>6
  <2> QED
    BY ONLY <2>1, <2>2 DEF ringbuf_headlen_compress
<1>8. \A b \in Nat : len_bytes(b) = IF b < 2 * q THEN 1 ELSE IF b < 3 * q THEN 2 ELSE 3
  <2>1. ByteMod \div 4 = q /\ Max1 = 2 * q
    BY <1>2, <1>6
  <2> TAKE b \in Nat
  <2>2. len_bytes(b) = CASE b < 2 * q -> 1 [] b >= 2 * q /\ b < 3 * q -> 2 [] b >= 3 * q -> 3
    BY ONLY <2>1, Zenon DEF len_bytes
  <2> QED
    BY ONLY <2>2
<1>9. CASE len < Max1
  <2>1. hd = <<len>> /\ len \in 0 .. B - 1 /\ len < 2 * q
    BY <1>6, <1>7, <1>9
  <2>2. hd[1] = len /\ Len(hd) = 1 /\ hd \in Seq(0 .. B - 1)
    BY <2>1
  <2>3. ringbuf_headlen_decompress(hd) = len
    BY <2>2 DEF ringbuf_headlen_decompress
  <2>4. len_bytes(len) = 1
    BY <1>8, <2>1
  <2> QED
    BY <1>6, <2>2, <2>3, <2>4
<1>10. CASE ~(len < Max1) /\ len < Max2
  <2>1. len < q * B
    BY <1>1, <1>2, <1>10
  <2>2. e < q
    BY <1>3, <2>1, DivLess
  <2>3. hd = <<2 * q + e, r>>
    BY <1>7, <1>10
  <2>4. PICK a \in 0 .. B - 1 : a = 2 * q + e /\ a < 3 * q
    BY <1>6, <2>2
  <2>5. a % q = e
    <3>1. a = q * 2 + e /\ e \in 0 .. q - 1
      BY <2>2, <2>4
    <3> QED
      BY <3>1, DivUnique
  <2>6. hd = <<a, r>>
    BY <2>3, <2>4
  <2>7. hd[1] = a /\ hd[2] = r /\ Len(hd) = 2 /\ hd \in Seq(0 .. B - 1)
    BY <2>6
  <2>8. len_bytes(a) = 2
    BY <1>8, <2>4
  <2>9. ringbuf_headlen_decompress(hd) = e * B + r
    BY <1>2, <1>6, <2>5, <2>7 DEF ringbuf_headlen_decompress
  <2>10. e * B + r = len
    BY ONLY <1>3
  <2> QED
    BY <1>6, <2>7, <2>8, <2>9, <2>10
<1>11. CASE ~(len < Max2)
  <2>1. len < q * (B * B)
    BY <1>1, <1>2
  <2>2. d < q
    <3>1. B * B \in Nat \ {0}
      OBVIOUS
    <3> QED
      BY <1>5, <2>1, <3>1, DivLess
  <2>3. hd = <<3 * q + d, s, r>>
    BY <1>6, <1>7, <1>11
  <2>4. PICK a \in 0 .. B - 1 : a = 3 * q + d
    BY <1>6, <2>2
  <2>5. a % q = d
    <3>1. a = q * 3 + d /\ d \in 0 .. q - 1
      BY <2>2, <2>4
    <3> QED
      BY <3>1, DivUnique
  <2>6. hd = <<a, s, r>>
    BY <2>3, <2>4
  <2>7. hd[1] = a /\ hd[2] = s /\ hd[3] = r /\ Len(hd) = 3 /\ hd \in Seq(0 .. B - 1)
    BY <2>6
  <2>8. len_bytes(a) = 3
    BY <1>8, <2>4
  <2>9. ringbuf_headlen_decompress(hd) = (d * B + s) * B + r
    BY <1>2, <1>6, <2>5, <2>7 DEF ringbuf_headlen_decompress
  <2>10. d * B + s = e
    BY ONLY <1>4
  <2>11. e * B + r = len
    BY ONLY <1>3
  <2>12. ringbuf_headlen_decompress(hd) = len
    BY ONLY <2>9, <2>10, <2>11, Zenon
  <2> QED
    BY <1>6, <2>7, <2>8, <2>12
<1> QED
  BY <1>9, <1>10, <1>11

\* The bytes in use and a copy that fits behind them do not meet.
LEMMA SpotApart ==
  ASSUME NEW n \in Nat, NEW h \in 0 .. n - 1, NEW u \in 0 .. n, NEW L \in Nat, u + L <= n,
         NEW t, t = Spot(h, u, n), NEW k \in 0 .. u - 1
  PROVE  Spot(h, k, n) \in 0 .. n - 1 /\ ~(Spot(h, k, n) >= t /\ Spot(h, k, n) < t + L)
<1>1. CASE h + u < n
  BY <1>1 DEF Spot
<1>2. CASE h + u >= n /\ h + k < n
  BY <1>2 DEF Spot
<1>3. CASE h + u >= n /\ h + k >= n
  BY <1>3 DEF Spot
<1> QED
  BY <1>1, <1>2, <1>3

\* The two pieces of a sequence that is split.
LEMMA Pieces ==
  ASSUME NEW B, NEW s \in Seq(B), NEW L \in Nat, L = Len(s), NEW w \in 1 .. L
  PROVE  /\ Len(SubSeq(s, 1, w)) = w /\ Len(SubSeq(s, w + 1, L)) = L - w
         /\ \A j \in 1 .. w : SubSeq(s, 1, w)[j] = s[j]
         /\ \A j \in 1 .. L - w : SubSeq(s, w + 1, L)[j] = s[w + j]
         /\ \A j \in 1 .. L : s[j] \in B
<1>1. Len(SubSeq(s, 1, w)) = w
  OBVIOUS
<1>2. Len(SubSeq(s, w + 1, L)) = L - w
  OBVIOUS
<1>3. ASSUME NEW j \in 1 .. w PROVE SubSeq(s, 1, w)[j] = s[j]
  BY <1>1
<1>4. ASSUME NEW j \in 1 .. L - w PROVE SubSeq(s, w + 1, L)[j] = s[w + j]
  BY <1>2
<1> QED
  BY <1>1, <1>2, <1>3, <1>4

\* A copy that fits goes behind what is in use and touches nothing of it.
LEMMA CopySpot ==
  ASSUME NEW n \in Nat \ {0}, NEW h \in 0 .. n - 1, NEW B, NEW b \in [0 .. n - 1 -> B], NEW u \in 0 .. n,
         NEW s \in Seq(B), u + Len(s) <= n, NEW t, t = Spot(h, u, n), t + Len(s) <= n,
         NEW c, c = memcpy(b, t, s)
  PROVE  /\ c \in [0 .. n - 1 -> B] /\ t + Len(s) \in 0 .. n
         /\ Home(t + Len(s), n) = Spot(h, u + Len(s), n)
         /\ Written(n, h, u, b, c, s)
<1>1. PICK L \in Nat : L = Len(s)
  OBVIOUS
<1>2. t \in 0 .. n - 1
  BY DEF Spot
<1>3. /\ c = [i \in 0 .. n - 1 |-> IF i >= t /\ i < t + L THEN s[i - t + 1] ELSE b[i]]
      /\ \A j \in 1 .. L : s[j] \in B
  BY <1>1 DEF memcpy
<1>4. c \in [0 .. n - 1 -> B]
  <2> SUFFICES ASSUME NEW i \in 0 .. n - 1, i >= t /\ i < t + L PROVE s[i - t + 1] \in B
    BY <1>3
  <2>1. i - t + 1 \in 1 .. L
    BY <1>2
  <2> QED
    BY <1>3, <2>1
<1>5. Home(t + L, n) = Spot(h, u + L, n) /\ t + L \in 0 .. n
  BY <1>1, <1>2 DEF Home, Spot
<1>6. ASSUME NEW k \in 0 .. u - 1 PROVE c[Spot(h, k, n)] = b[Spot(h, k, n)]
  <2>1. u + L <= n /\ t = Spot(h, u, n)
    BY <1>1
  <2>2. PICK i \in 0 .. n - 1 : i = Spot(h, k, n) /\ ~(i >= t /\ i < t + L)
    BY ONLY <2>1, SpotApart
  <2> QED
    BY <1>3, <2>2
<1>7. ASSUME NEW j \in 1 .. L PROVE c[Spot(h, u + j - 1, n)] = s[j]
  <2>1. PICK i \in 0 .. n - 1 : i = Spot(h, u + j - 1, n) /\ i = t + j - 1
    BY <1>1, <1>2 DEF Spot
  <2>2. i >= t /\ i < t + L /\ i - t + 1 = j
    BY <1>2, <2>1, SMTT(30)
  <2> QED
    BY <1>3, <2>1, <2>2
<1> QED
  BY <1>1, <1>4, <1>5, <1>6, <1>7 DEF Written

\* b with the first w elements of s from t to the end and the rest at the start.
Split(n, t, w, b, c, s) ==
  /\ \A i \in 0 .. n - 1 : i < Len(s) - w => c[i] = s[w + i + 1]
  /\ \A i \in 0 .. n - 1 : i >= Len(s) - w /\ i >= t => c[i] = s[i - t + 1]
  /\ \A i \in 0 .. n - 1 : i >= Len(s) - w /\ i < t => c[i] = b[i]

\* Two copies, up to the end of the buffer and from its start.
LEMMA SplitBytes ==
  ASSUME NEW n \in Nat \ {0}, NEW B, NEW b \in [0 .. n - 1 -> B], NEW L \in Nat, NEW s \in Seq(B), L = Len(s),
         NEW t \in 0 .. n - 1, NEW w \in 1 .. n, t + w = n, w < L, L <= n,
         NEW c, c = memcpy(memcpy(b, t, SubSeq(s, 1, w)), 0, SubSeq(s, w + 1, L))
  PROVE  c \in [0 .. n - 1 -> B] /\ Split(n, t, w, b, c, s)
<1>1. PICK s1, s2 : s1 = SubSeq(s, 1, w) /\ s2 = SubSeq(s, w + 1, L)
  OBVIOUS
<1>2. t + w = n /\ w < L /\ L <= n /\ L = Len(s)
  OBVIOUS
<1>3. /\ Len(s1) = w /\ Len(s2) = L - w /\ (\A j \in 1 .. w : s1[j] = s[j])
      /\ (\A j \in 1 .. L - w : s2[j] = s[w + j]) /\ \A j \in 1 .. L : s[j] \in B
  BY ONLY <1>1, <1>2, Pieces
<1>4. PICK d : d = [i \in 0 .. n - 1 |-> IF i >= t /\ i < t + w THEN s1[i - t + 1] ELSE b[i]]
  OBVIOUS
<1>5. d = memcpy(b, t, s1)
  BY <1>3, <1>4 DEF memcpy
<1>6. c = memcpy(d, 0, s2)
  BY <1>1, <1>5
<1>7. c = [i \in 0 .. n - 1 |-> IF i >= 0 /\ i < 0 + (L - w) THEN s2[i - 0 + 1] ELSE d[i]]
  BY <1>3, <1>4, <1>6 DEF memcpy
<1>8. ASSUME NEW i \in 0 .. n - 1, i < L - w PROVE c[i] = s[w + i + 1] /\ c[i] \in B
  <2>1. i >= 0 /\ i < 0 + (L - w) /\ i - 0 + 1 = i + 1
    BY ONLY <1>2, <1>8
  <2>2. c[i] = s2[i + 1]
    BY ONLY <1>7, <2>1
  <2>3. i + 1 \in 1 .. L - w /\ w + (i + 1) = w + i + 1 /\ w + i + 1 \in 1 .. L
    BY ONLY <1>2, <1>8
  <2>4. s2[i + 1] = s[w + (i + 1)] /\ s[w + i + 1] \in B
    BY ONLY <1>3, <2>3
  <2> QED
    BY ONLY <2>2, <2>3, <2>4
<1>9. ASSUME NEW i \in 0 .. n - 1, i >= L - w PROVE c[i] = d[i]
  <2>1. ~(i >= 0 /\ i < 0 + (L - w))
    BY ONLY <1>2, <1>9
  <2> QED
    BY ONLY <1>7, <2>1
<1>10. ASSUME NEW i \in 0 .. n - 1, i >= t PROVE d[i] = s[i - t + 1] /\ d[i] \in B
  <2>1. i >= t /\ i < t + w
    BY ONLY <1>2, <1>10
  <2>2. d[i] = s1[i - t + 1]
    BY ONLY <1>4, <2>1, Zenon
  <2>3. i - t + 1 \in 1 .. w /\ i - t + 1 \in 1 .. L
    BY ONLY <1>2, <1>10
  <2> QED
    BY ONLY <1>3, <2>2, <2>3
<1>11. ASSUME NEW i \in 0 .. n - 1, i < t PROVE d[i] = b[i] /\ d[i] \in B
  BY ONLY <1>4, <1>11
<1>12. ASSUME NEW i \in 0 .. n - 1 PROVE c[i] \in B
  <2>1. \/ i < L - w
        \/ i >= L - w /\ i >= t
        \/ i >= L - w /\ i < t
    BY ONLY <1>2
  <2> QED
    BY ONLY <1>8, <1>9, <1>10, <1>11, <2>1
<1>13. c \in [0 .. n - 1 -> B]
  BY ONLY <1>7, <1>12
<1> QED
  BY ONLY <1>2, <1>8, <1>9, <1>10, <1>11, <1>13 DEF Split

\* They go behind what is in use as well.
LEMMA SplitSpot ==
  ASSUME NEW n \in Nat \ {0}, NEW h \in 0 .. n - 1, NEW u \in 0 .. n, NEW L \in Nat, u + L <= n,
         NEW t \in 0 .. n - 1, t = Spot(h, u, n), t >= h, NEW w \in 1 .. n, t + w = n, w < L,
         NEW s, L = Len(s), NEW b, NEW c,
         Split(n, t, w, b, c, s)
  PROVE  Written(n, h, u, b, c, s)
<1>1. /\ \A i \in 0 .. n - 1 : i < L - w => c[i] = s[w + i + 1]
      /\ \A i \in 0 .. n - 1 : i >= L - w /\ i >= t => c[i] = s[i - t + 1]
      /\ \A i \in 0 .. n - 1 : i >= L - w /\ i < t => c[i] = b[i]
  BY ONLY L = Len(s), Split(n, t, w, b, c, s), Zenon DEF Split
<1>2. L = Len(s)
  OBVIOUS
<1>3. t = h + u /\ t + w = n /\ w < L /\ u + L <= n
  BY ONLY u + L <= n, t = Spot(h, u, n), t >= h, t + w = n, w < L DEF Spot
<1>4. ASSUME NEW k \in 0 .. u - 1 PROVE c[Spot(h, k, n)] = b[Spot(h, k, n)]
  <2>1. PICK i \in 0 .. n - 1 : i = Spot(h, k, n) /\ i >= L - w /\ i < t
    <3>1. Spot(h, k, n) = h + k
      BY ONLY <1>3 DEF Spot
    <3>2. h + k \in 0 .. n - 1 /\ h + k >= L - w /\ h + k < t
      BY ONLY <1>3
    <3> QED
      BY ONLY <3>1, <3>2
  <2> QED
    BY ONLY <1>1, <2>1
<1>5. ASSUME NEW j \in 1 .. L PROVE c[Spot(h, u + j - 1, n)] = s[j]
  <2>1. CASE j <= w
    <3>1. PICK i \in 0 .. n - 1 : i = t + j - 1 /\ i - t + 1 = j /\ i >= L - w /\ i >= t
      BY ONLY <1>3, <2>1
    <3>2. Spot(h, u + j - 1, n) = i
      BY ONLY <1>3, <2>1, <3>1 DEF Spot
    <3> QED
      BY ONLY <1>1, <3>1, <3>2
  <2>2. CASE j > w
    <3>1. PICK i \in 0 .. n - 1 : i = j - w - 1 /\ w + i + 1 = j /\ i < L - w
      BY ONLY <1>3, <2>2
    <3>2. Spot(h, u + j - 1, n) = i
      BY ONLY <1>3, <2>2, <3>1 DEF Spot
    <3> QED
      BY ONLY <1>1, <3>1, <3>2
  <2> QED
    BY ONLY <2>1, <2>2
<1> QED
  BY ONLY <1>2, <1>4, <1>5 DEF Written

\* p is buffer and tail after s has been put in behind the first u bytes.
Puts(n, B, h, u, x, b, s, p) ==
  /\ p.buf \in [0 .. n - 1 -> B] /\ p.tail \in 0 .. n
  /\ Home(p.tail, n) = Spot(h, x, n) /\ Written(n, h, u, b, p.buf, s)

\* Put writes behind what is in use.
LEMMA PutSpot ==
  ASSUME NEW n \in Nat \ {0}, end = n, NEW B, head \in 0 .. n, NEW r, NEW b \in [0 .. n - 1 -> B], r.buf = b,
         NEW T \in 0 .. n, r.tail = T, NEW h \in 0 .. n - 1, h = Home(head, n), NEW u \in 0 .. n,
         Home(T, n) = Spot(h, u, n), NEW s \in Seq(B), NEW x \in 0 .. n, x = u + Len(s), NEW p, p = Put(r, s)
  PROVE  Puts(n, B, h, u, x, b, s, p)
<1>1. PICK L \in Nat : L = Len(s)
  OBVIOUS
<1>2. b = r.buf
  OBVIOUS
<1>3. PICK t \in 0 .. n - 1 : t = Wrap(r.tail) /\ t = Spot(h, u, n)
  BY DEF Wrap, Home
<1>4. h \in 0 .. n - 1 /\ u + L <= n /\ u + Len(s) <= n /\ x = u + L
  BY <1>1 DEF Home
<1>5. p = IF t >= head /\ n - t < L
          THEN [buf  |-> memcpy(memcpy(b, t, SubSeq(s, 1, n - t)), 0, SubSeq(s, n - t + 1, L)),
                tail |-> L - (n - t)]
          ELSE [buf |-> memcpy(b, t, s), tail |-> t + L]
  BY <1>1, <1>2, <1>3 DEF Put
<1>6. CASE t >= head /\ n - t < L
  <2>1. PICK w \in 1 .. n : w = n - t /\ t + w = n
    OBVIOUS
  <2>2. PICK c : c = memcpy(memcpy(b, t, SubSeq(s, 1, w)), 0, SubSeq(s, w + 1, L))
    OBVIOUS
  <2>3. p = [buf |-> c, tail |-> L - w]
    BY ONLY <1>5, <1>6, <2>1, <2>2
  <2>4. t >= h /\ w < L /\ L <= n
    <3>1. head \in 0 .. n /\ h = Home(head, n)
      OBVIOUS
    <3> QED
      BY ONLY <1>4, <1>6, <2>1, <3>1 DEF Home
  <2>5. c \in [0 .. n - 1 -> B] /\ Split(n, t, w, b, c, s)
    BY ONLY <1>1, <2>1, <2>2, <2>4, SplitBytes
  <2>6. PICK v \in 0 .. n : v = L - w /\ x = u + L
    BY ONLY <1>4, <2>4
  <2>7. Home(v, n) = Spot(h, x, n) /\ Written(n, h, u, b, c, s)
    <3>1. L = Len(s) /\ t = Spot(h, u, n) /\ h \in 0 .. n - 1 /\ u + L <= n /\ t + w = n /\ t >= h /\ w < L
      BY ONLY <1>1, <1>3, <1>4, <2>1, <2>4
    <3>2. Home(v, n) = Spot(h, x, n)
      BY ONLY <2>6, <3>1 DEF Home, Spot
    <3>3. Written(n, h, u, b, c, s)
      BY ONLY <2>5, <3>1, SplitSpot
    <3> QED
      BY ONLY <3>2, <3>3
  <2>8. p.buf = c /\ p.tail = v
    BY ONLY <2>3, <2>6
  <2> QED
    BY ONLY <2>5, <2>6, <2>7, <2>8 DEF Puts
<1>7. CASE ~(t >= head /\ n - t < L)
  <2>1. PICK c : c = memcpy(b, t, s)
    OBVIOUS
  <2>2. p.buf = c /\ p.tail = t + L
    BY <1>5, <1>7, <2>1
  <2>3. t + Len(s) <= n
    <3>1. CASE n - t >= L
      BY <1>1, <3>1
    <3>2. CASE t < head
      <4>1. (head = n /\ h = 0) \/ head = h
        BY DEF Home
      <4>2. head \in 0 .. n
        OBVIOUS
      <4>3. t + L <= n
        BY ONLY <1>3, <1>4, <3>2, <4>1, <4>2 DEF Spot
      <4> QED
        BY <1>1, <4>3
    <3> QED
      BY <1>7, <3>1, <3>2
  <2>4. /\ c \in [0 .. n - 1 -> B] /\ t + Len(s) \in 0 .. n
        /\ Home(t + Len(s), n) = Spot(h, u + Len(s), n)
        /\ Written(n, h, u, b, c, s)
    BY ONLY <1>3, <1>4, <2>1, <2>3, CopySpot
  <2> QED
    BY <1>1, <1>4, <2>2, <2>4 DEF Puts
<1> QED
  BY <1>6, <1>7

\* g is what is read of the len bytes from at on, and the place behind them.
Reads(n, B, b, at, len, g) ==
  /\ g.s \in Seq(B) /\ Len(g.s) = len /\ \A j \in 1 .. len : g.s[j] = b[Spot(at, j - 1, n)]
  /\ g.head \in 0 .. n /\ Home(g.head, n) = Spot(at, len, n)

\* Two pieces, up to the end and from the start.
LEMMA ReadTwo ==
  ASSUME NEW n \in Nat \ {0}, NEW B, buf \in [0 .. n - 1 -> B], NEW at \in 0 .. n - 1,
         NEW len \in 0 .. n, NEW w \in 1 .. n, w = n - at, w < len, NEW v \in Nat, v = len - w,
         NEW g, g = [s |-> bytes(buf, at, w) \o bytes(buf, 0, v), head |-> v]
  PROVE  Reads(n, B, buf, at, len, g)
<1>1. w = n - at /\ w < len
  OBVIOUS
<1>2. v = len - w
  OBVIOUS
<1>3. PICK b1 : b1 = [i \in 1 .. w |-> buf[at + i - 1]]
  OBVIOUS
<1>4. PICK b2 : b2 = [i \in 1 .. v |-> buf[0 + i - 1]]
  OBVIOUS
<1>5. g = [s |-> b1 \o b2, head |-> v]
  BY <1>1, <1>2, <1>3, <1>4 DEF bytes
<1>6. \A i \in 1 .. w : at + i - 1 \in 0 .. n - 1
  BY <1>1
<1>7. \A i \in 1 .. v : 0 + i - 1 \in 0 .. n - 1
  BY <1>1, <1>2
<1>8. b1 \in Seq(B) /\ Len(b1) = w
  BY <1>3, <1>6
<1>9. b2 \in Seq(B) /\ Len(b2) = v
  BY <1>4, <1>7
<1>10. PICK s \in Seq(B) : s = b1 \o b2 /\ Len(s) = len
  <2>1. b1 \o b2 \in Seq(B)
    BY ONLY <1>8, <1>9
  <2>2. Len(b1 \o b2) = Len(b1) + Len(b2)
    BY ONLY <1>8, <1>9
  <2>3. w + v = len
    BY ONLY <1>1, <1>2
  <2>4. Len(b1 \o b2) = len
    BY ONLY <1>8, <1>9, <2>2, <2>3, Zenon
  <2> QED
    BY ONLY <2>1, <2>4
<1>11. ASSUME NEW j \in 1 .. len PROVE s[j] = buf[Spot(at, j - 1, n)]
  <2>1. CASE j <= w
    <3>1. s[j] = b1[j] /\ b1[j] = buf[at + j - 1]
      BY <1>3, <1>8, <1>9, <1>10, <2>1
    <3>2. at + j - 1 = Spot(at, j - 1, n)
      BY <1>1, <2>1 DEF Spot
    <3> QED
      BY <3>1, <3>2
  <2>2. CASE j > w
    <3>1. PICK k \in 1 .. v : k = j - w
      BY <1>1, <1>2, <2>2
    <3>2. s[j] = b2[k] /\ b2[k] = buf[0 + k - 1]
      BY <1>4, <1>8, <1>9, <1>10, <2>2, <3>1
    <3>3. 0 + k - 1 = Spot(at, j - 1, n)
      BY <1>1, <1>2, <2>2, <3>1 DEF Spot
    <3> QED
      BY <3>2, <3>3
  <2> QED
    BY <1>1, <2>1, <2>2
<1>12. v \in 0 .. n /\ Home(v, n) = Spot(at, len, n)
  BY <1>1, <1>2 DEF Home, Spot
<1>13. g.s = s /\ g.head = v
  BY ONLY <1>5, <1>10
<1> QED
  BY <1>10, <1>11, <1>12, <1>13 DEF Reads

\* One piece, when the end is not in between.
LEMMA ReadOne ==
  ASSUME NEW n \in Nat \ {0}, NEW B, buf \in [0 .. n - 1 -> B], NEW at \in 0 .. n - 1,
         NEW len \in 0 .. n, at + len <= n, NEW g, g = [s |-> bytes(buf, at, len), head |-> at + len]
  PROVE  Reads(n, B, buf, at, len, g)
<1>1. at + len <= n
  OBVIOUS
<1>2. PICK s : s = [i \in 1 .. len |-> buf[at + i - 1]]
  OBVIOUS
<1>3. g = [s |-> s, head |-> at + len]
  BY <1>2 DEF bytes
<1>4. \A i \in 1 .. len : at + i - 1 \in 0 .. n - 1 /\ at + i - 1 = Spot(at, i - 1, n)
  BY <1>1 DEF Spot
<1>5. s \in Seq(B) /\ Len(s) = len
  BY <1>2, <1>4
<1>6. at + len \in 0 .. n /\ Home(at + len, n) = Spot(at, len, n)
  BY <1>1 DEF Home, Spot
<1>7. g.s = s /\ g.head = at + len
  BY ONLY <1>3
<1>8. \A i \in 1 .. len : s[i] = buf[Spot(at, i - 1, n)]
  BY <1>2, <1>4
<1> QED
  BY <1>5, <1>6, <1>7, <1>8 DEF Reads

\* Get reads around the end when it may split the bytes.
LEMMA GetSplit ==
  ASSUME NEW n \in Nat \ {0}, end = n, NEW B, buf \in [0 .. n - 1 -> B], NEW at \in 0 .. n - 1,
         NEW len \in 0 .. n, NEW g, g = Get(at, len, TRUE)
  PROVE  Reads(n, B, buf, at, len, g)
<1>1. g = IF n - at < len
          THEN [s |-> bytes(buf, at, n - at) \o bytes(buf, 0, len - (n - at)), head |-> len - (n - at)]
          ELSE [s |-> bytes(buf, at, len), head |-> at + len]
  BY DEF Get
<1>2. CASE n - at < len
  <2>1. PICK w \in 1 .. n, v \in Nat : w = n - at /\ v = len - w /\ w < len
    BY <1>2
  <2>2. g = [s |-> bytes(buf, at, w) \o bytes(buf, 0, v), head |-> v]
    BY ONLY <1>1, <1>2, <2>1
  <2> QED
    BY <2>1, <2>2, ReadTwo
<1>3. CASE ~(n - at < len)
  <2>1. at + len <= n
    BY ONLY <1>3
  <2>2. g = [s |-> bytes(buf, at, len), head |-> at + len]
    BY ONLY <1>1, <1>3
  <2> QED
    BY <2>1, <2>2, ReadOne
<1> QED
  BY <1>2, <1>3

\* When it may not, the end must not be in between.
LEMMA GetWhole ==
  ASSUME NEW n \in Nat \ {0}, NEW B, buf \in [0 .. n - 1 -> B], NEW at \in 0 .. n - 1,
         NEW len \in 0 .. n, at + len <= n, NEW g, g = Get(at, len, FALSE)
  PROVE  Reads(n, B, buf, at, len, g)
<1>1. g = [s |-> bytes(buf, at, len), head |-> at + len]
  BY DEF Get
<1> QED
  BY <1>1, ReadOne

\* One write behind another is a write of both.
LEMMA WrittenTwice ==
  ASSUME NEW n \in Nat, NEW h \in 0 .. n - 1, NEW u \in Nat, NEW B, NEW s1 \in Seq(B), NEW s2 \in Seq(B),
         NEW b, NEW c, NEW d, NEW v \in Nat, v = u + Len(s1), Written(n, h, u, b, c, s1), Written(n, h, v, c, d, s2)
  PROVE  Written(n, h, u, b, d, s1 \o s2)
<1>1. PICK L1 \in Nat, L2 \in Nat : L1 = Len(s1) /\ L2 = Len(s2) /\ v = u + L1
  OBVIOUS
<1>2. /\ \A k \in 0 .. u - 1 : c[Spot(h, k, n)] = b[Spot(h, k, n)]
      /\ \A j \in 1 .. L1 : c[Spot(h, u + j - 1, n)] = s1[j]
      /\ \A k \in 0 .. v - 1 : d[Spot(h, k, n)] = c[Spot(h, k, n)]
      /\ \A j \in 1 .. L2 : d[Spot(h, v + j - 1, n)] = s2[j]
  BY <1>1 DEF Written
<1>3. PICK s \in Seq(B) : s = s1 \o s2 /\ Len(s) = L1 + L2
  <2>1. s1 \o s2 \in Seq(B)
    BY ONLY TRUE
  <2>2. Len(s1 \o s2) = Len(s1) + Len(s2)
    BY ONLY TRUE
  <2> QED
    BY ONLY <1>1, <2>1, <2>2
<1>4. \A j \in 1 .. L1 + L2 : s[j] = IF j <= L1 THEN s1[j] ELSE s2[j - L1]
  BY <1>1, <1>3
<1>5. ASSUME NEW k \in 0 .. u - 1 PROVE d[Spot(h, k, n)] = b[Spot(h, k, n)]
  <2>1. k \in 0 .. v - 1
    BY ONLY <1>1
  <2> QED
    BY ONLY <1>2, <2>1
<1>6. ASSUME NEW j \in 1 .. L1 + L2 PROVE d[Spot(h, u + j - 1, n)] = s[j]
  <2>1. CASE j <= L1
    <3>1. j \in 1 .. L1 /\ u + j - 1 \in 0 .. v - 1
      BY ONLY <1>1, <2>1
    <3>2. s[j] = s1[j]
      BY ONLY <1>4, <2>1
    <3> QED
      BY ONLY <1>2, <3>1, <3>2
  <2>2. CASE j > L1
    <3>1. j - L1 \in 1 .. L2
      BY ONLY <2>2
    <3>2. PICK i \in 1 .. L2 : i = j - L1
      BY ONLY <3>1
    <3>3. i = j - L1 /\ v + i - 1 = u + j - 1 /\ ~(j <= L1)
      BY ONLY <1>1, <2>2, <3>2
    <3>4. s[j] = s2[i]
      BY ONLY <1>4, <3>3
    <3>5. d[Spot(h, v + i - 1, n)] = s2[i]
      BY ONLY <1>2
    <3> QED
      BY ONLY <3>3, <3>4, <3>5
  <2> QED
    BY ONLY <2>1, <2>2
<1> QED
  BY ONLY <1>3, <1>5, <1>6 DEF Written

\* What lies in the ring for a message, and which messages go into it.
Enc(ty, m)       == IF ty = "DYN" THEN ringbuf_headlen_compress(Len(m)) \o m ELSE m
Fits(ty, m)      == IF ty = "DYN" THEN Len(m) \in 1 .. Max3 - 1 ELSE Len(m) = BlkSize
Encodings(ty, q) == [i \in 1 .. Len(q) |-> Enc(ty, q[i])]
Aligned(p)       == \E k \in Nat : p = BlkSize * k

\* The ring of n bytes holds the messages q, and the blocks of a ring of type FIX never wrap.
RingState(n, ty, b, hd, tl, fr, q, st) ==
  /\ ty \in {"DYN", "FIX"} /\ b \in [0 .. n - 1 -> Byte]
  /\ hd \in 0 .. n /\ tl \in 0 .. n /\ fr \in 0 .. n
  /\ q \in Seq(Seq(Byte)) /\ st \in Seq(0 .. n) /\ Len(st) = Len(q)
  /\ \A i \in 1 .. Len(q) : Fits(ty, q[i])
  /\ Laid(n, b, Home(hd, n), Len(q), st, Encodings(ty, q), n - fr)
  /\ Home(tl, n) = Spot(Home(hd, n), n - fr, n)
  /\ ty = "FIX" => Aligned(hd) /\ Aligned(tl)

\* e is hd and m, one behind the other.
Joined(hd, m, e) ==
  /\ \A j \in 1 .. Len(hd) : e[j] = hd[j]
  /\ \A j \in 1 .. Len(m) : e[Len(hd) + j] = m[j]

\* An entry: header and message of a ring of type DYN, one block of a ring of type FIX.
LEMMA EncDyn ==
  ASSUME RingAssumption, NEW m \in Seq(Byte), Fits("DYN", m), NEW e, e = Enc("DYN", m),
         NEW hd, hd = ringbuf_headlen_compress(Len(m))
  PROVE  /\ hd \in Seq(Byte) /\ Len(hd) \in 1 .. 3 /\ Len(m) \in Nat \ {0} /\ e = hd \o m
         /\ e \in Seq(Byte) /\ Len(e) = Len(hd) + Len(m)
         /\ len_bytes(hd[1]) = Len(hd) /\ ringbuf_headlen_decompress(hd) = Len(m)
         /\ Joined(hd, m, e)
<1>1. Max3 \in Nat
  BY Formats
<1>2. PICK len \in Nat \ {0} : len = Len(m) /\ len < Max3
  BY <1>1 DEF Fits
<1>3. /\ hd \in Seq(Byte) /\ Len(hd) \in 1 .. 3
      /\ len_bytes(hd[1]) = Len(hd) /\ ringbuf_headlen_decompress(hd) = len
  BY <1>2, Codec
<1>4. e = hd \o m
  BY DEF Enc
<1>5. e \in Seq(Byte) /\ Len(e) = Len(hd) + Len(m)
  <2>1. hd \o m \in Seq(Byte)
    BY ONLY <1>3
  <2>2. Len(hd \o m) = Len(hd) + Len(m)
    BY ONLY <1>3
  <2> QED
    BY ONLY <1>4, <2>1, <2>2
<1>6. ASSUME NEW j \in 1 .. Len(hd) PROVE e[j] = hd[j]
  BY <1>3, <1>4
<1>7. ASSUME NEW j \in 1 .. Len(m) PROVE e[Len(hd) + j] = m[j]
  <2>1. PICK c \in Nat, i \in Nat : c = Len(hd) /\ i = c + j
    BY <1>2, <1>3
  <2>2. i \in 1 .. Len(hd) + Len(m) /\ ~(i <= Len(hd)) /\ i - Len(hd) = j
    BY <1>2, <1>3, <1>7, <2>1
  <2>3. e[i] = m[j]
    BY ONLY <1>3, <1>4, <2>2
  <2> QED
    BY <2>1, <2>3
<1> QED
  BY <1>2, <1>3, <1>4, <1>5, <1>6, <1>7 DEF Joined

\* An entry is never empty.
LEMMA EncType ==
  ASSUME RingAssumption, NEW ty \in {"DYN", "FIX"}, NEW m \in Seq(Byte), Fits(ty, m)
  PROVE  Enc(ty, m) \in Seq(Byte) /\ Len(Enc(ty, m)) \in Nat \ {0}
<1>1. CASE ty = "DYN"
  BY <1>1, EncDyn
<1>2. CASE ty = "FIX"
  BY <1>2 DEF Enc, Fits, RingAssumption
<1> QED
  BY <1>1, <1>2

\* Sequences that grow at the end and shrink at the front.
LEMMA SeqAppend ==
  ASSUME NEW B, NEW s \in Seq(B), NEW x \in B, NEW m \in Nat, m = Len(s)
  PROVE  /\ Append(s, x) \in Seq(B) /\ Len(Append(s, x)) = m + 1
         /\ (\A i \in 1 .. m : Append(s, x)[i] = s[i]) /\ Append(s, x)[m + 1] = x
  OBVIOUS

LEMMA SeqTail ==
  ASSUME NEW B, NEW s \in Seq(B), NEW m \in Nat, Len(s) = m + 1
  PROVE  Tail(s) \in Seq(B) /\ Len(Tail(s)) = m /\ \A i \in 1 .. m : Tail(s)[i] = s[i + 1]
<1>1. s # << >>
  OBVIOUS
<1>2. Tail(s) \in Seq(B) /\ Len(Tail(s)) = m
  BY <1>1
<1>3. ASSUME NEW i \in 1 .. m PROVE Tail(s)[i] = s[i + 1]
  BY <1>1, <1>2
<1> QED
  BY <1>2, <1>3

\* A push: an entry is written behind the others.
LEMMA StatePush ==
  ASSUME RingAssumption, NEW n \in Nat \ {0}, NEW ty, NEW b, NEW hd, NEW tl, NEW fr, NEW q, NEW st,
         RingState(n, ty, b, hd, tl, fr, q, st), NEW s \in Seq(Byte), Fits(ty, s), NEW e, e = Enc(ty, s),
         Len(e) <= fr, NEW u \in 0 .. n, u = n - fr, NEW v \in 0 .. n, v = u + Len(e),
         NEW b2 \in [0 .. n - 1 -> Byte], NEW tl2 \in 0 .. n, Home(tl2, n) = Spot(Home(hd, n), v, n),
         Written(n, Home(hd, n), u, b, b2, e), ty = "FIX" => Aligned(tl2)
  PROVE  RingState(n, ty, b2, hd, tl2, fr - Len(e), Append(q, s), Append(st, u))
<1>1. PICK h \in 0 .. n - 1 : h = Home(hd, n)
  BY DEF RingState, Home
<1>2. /\ ty \in {"DYN", "FIX"} /\ fr \in 0 .. n /\ hd \in 0 .. n
      /\ q \in Seq(Seq(Byte)) /\ st \in Seq(0 .. n) /\ Len(st) = Len(q)
      /\ \A i \in 1 .. Len(q) : Fits(ty, q[i])
      /\ Laid(n, b, h, Len(q), st, Encodings(ty, q), u) /\ (ty = "FIX" => Aligned(hd))
  BY <1>1 DEF RingState
<1>3. e \in Seq(Byte) /\ Len(e) \in Nat
  BY <1>2, EncType
<1>4. PICK m \in Nat : m = Len(q)
  BY <1>2
<1>5. PICK q2 \in Seq(Seq(Byte)) : q2 = Append(q, s)
  BY ONLY <1>2, <1>4, SeqAppend
<1>6. PICK st2 \in Seq(0 .. n) : st2 = Append(st, u)
  <2>1. Append(st, u) \in Seq(0 .. n)
    BY ONLY <1>2, <1>4, SeqAppend
  <2> QED
    BY ONLY <2>1
<1>7. Len(q2) = m + 1 /\ (\A i \in 1 .. m : q2[i] = q[i]) /\ q2[m + 1] = s
  BY ONLY <1>2, <1>4, <1>5
<1>8. Len(st2) = m + 1 /\ (\A i \in 1 .. m : st2[i] = st[i]) /\ st2[m + 1] = u
  BY ONLY <1>2, <1>4, <1>6
<1>9. PICK es, es2 : es = Encodings(ty, q) /\ es2 = Encodings(ty, q2)
  OBVIOUS
<1>10. (\A i \in 1 .. m : es2[i] = es[i]) /\ es2[m + 1] = e
  <2>1. es = [i \in 1 .. m |-> Enc(ty, q[i])] /\ es2 = [i \in 1 .. m + 1 |-> Enc(ty, q2[i])]
    BY ONLY <1>4, <1>7, <1>9 DEF Encodings
  <2>2. e = Enc(ty, s) /\ m + 1 \in 1 .. m + 1
    OBVIOUS
  <2>3. \A i \in 1 .. m : i \in 1 .. m + 1
    OBVIOUS
  <2> QED
    BY ONLY <1>7, <2>1, <2>2, <2>3
<1>11. Laid(n, b, h, m, st, es, u)
  BY <1>2, <1>4, <1>9
<1>12. Written(n, h, u, b, b2, e)
  BY <1>1
<1>13. Laid(n, b2, h, m + 1, st2, es2, v)
  <2>1. PICK m2 \in Nat : m2 = m + 1
    OBVIOUS
  <2>2. Grown(m, st, es, st2, es2, u, e)
    BY ONLY <1>8, <1>10 DEF Grown
  <2> QED
    BY ONLY <1>3, <1>11, <1>12, <2>1, <2>2, v = u + Len(e), LaidAppend
<1>14. PICK fr2 \in 0 .. n : fr2 = fr - Len(e) /\ n - fr2 = v
  <2>1. PICK f \in 0 .. n, k \in Nat : f = fr /\ k = Len(e) /\ k <= f /\ u = n - f /\ v = u + k
    BY <1>2, <1>3
  <2>2. f - k \in 0 .. n /\ n - (f - k) = v
    BY ONLY <2>1
  <2> QED
    BY ONLY <2>1, <2>2
<1>15. \A i \in 1 .. m + 1 : Fits(ty, q2[i])
  <2> TAKE i \in 1 .. m + 1
  <2>1. CASE i = m + 1
    BY <1>7, <2>1
  <2>2. CASE i \in 1 .. m
    BY <1>2, <1>4, <1>7, <2>2
  <2> QED
    BY <2>1, <2>2
<1>16. Laid(n, b2, Home(hd, n), Len(q2), st2, Encodings(ty, q2), n - fr2)
  BY <1>1, <1>7, <1>9, <1>13, <1>14
<1>17. Home(tl2, n) = Spot(Home(hd, n), n - fr2, n)
  BY <1>14
<1>18. RingState(n, ty, b2, hd, tl2, fr2, q2, st2)
  BY <1>2, <1>7, <1>8, <1>15, <1>16, <1>17 DEF RingState
<1> QED
  BY <1>5, <1>6, <1>14, <1>18

\* The places of the entries behind the first one, seen from the new head.
Moved(m, size, st) == [i \in 1 .. m |-> st[i + 1] - size]

\* A pop: the head goes behind the first entry.
LEMMA StatePop ==
  ASSUME RingAssumption, NEW n \in Nat \ {0}, NEW ty, NEW b, NEW hd, NEW tl, NEW fr, NEW q, NEW st,
         RingState(n, ty, b, hd, tl, fr, q, st), NEW m \in Nat, Len(q) = m + 1, NEW size \in Nat,
         size = Len(Enc(ty, q[1])), NEW hd2 \in 0 .. n, Home(hd2, n) = Spot(Home(hd, n), size, n),
         ty = "FIX" => Aligned(hd2), NEW st2, st2 = Moved(m, size, st)
  PROVE  RingState(n, ty, b, hd2, tl, fr + size, Tail(q), st2)
<1>1. PICK h \in 0 .. n - 1 : h = Home(hd, n)
  BY DEF RingState, Home
<1>2. /\ ty \in {"DYN", "FIX"} /\ fr \in 0 .. n /\ hd \in 0 .. n /\ tl \in 0 .. n /\ b \in [0 .. n - 1 -> Byte]
      /\ q \in Seq(Seq(Byte)) /\ st \in Seq(0 .. n) /\ Len(st) = Len(q)
      /\ \A i \in 1 .. Len(q) : Fits(ty, q[i])
      /\ Laid(n, b, h, Len(q), st, Encodings(ty, q), n - fr) /\ Home(tl, n) = Spot(h, n - fr, n)
      /\ (ty = "FIX" => Aligned(tl))
  BY <1>1 DEF RingState
<1>3. PICK used \in 0 .. n : used = n - fr
  BY <1>2
<1>4. PICK es, es2 : es = Encodings(ty, q) /\ es2 = Encodings(ty, Tail(q))
  OBVIOUS
<1>5. PICK q2 \in Seq(Seq(Byte)) : q2 = Tail(q)
  <2>1. Tail(q) \in Seq(Seq(Byte))
    BY ONLY <1>2, Len(q) = m + 1, SeqTail
  <2> QED
    BY ONLY <2>1
<1>6. Len(q2) = m /\ \A i \in 1 .. m : q2[i] = q[i + 1]
  BY ONLY <1>2, <1>5, Len(q) = m + 1, SeqTail
<1>7. es = [i \in 1 .. m + 1 |-> Enc(ty, q[i])] /\ es2 = [i \in 1 .. m |-> Enc(ty, q2[i])]
  BY ONLY <1>4, <1>5, <1>6, Len(q) = m + 1 DEF Encodings
<1>8. \A i \in 1 .. m : es2[i] = es[i + 1]
  <2>1. \A i \in 1 .. m : i + 1 \in 1 .. m + 1
    OBVIOUS
  <2> QED
    BY ONLY <1>6, <1>7, <2>1
<1>9. size = Len(es[1])
  BY <1>7
<1>10. Laid(n, b, h, m + 1, st, es, used)
  BY <1>2, <1>3, <1>4
<1>11. size <= used /\ st[1] = 0 /\ Behind(m, size, st, used)
  BY ONLY <1>9, <1>10, LaidRest
<1>12. PICK rest \in 0 .. n : used = size + rest /\ rest = used - size
  BY ONLY <1>11
<1>13. \A i \in 1 .. m : st2[i] \in 0 .. n /\ st[i + 1] = size + st2[i]
  <2> TAKE i \in 1 .. m
  <2>1. st2[i] = st[i + 1] - size
    BY DEF Moved
  <2> QED
    BY ONLY <1>11, <2>1 DEF Behind
<1>14. st2 \in Seq(0 .. n) /\ Len(st2) = m
  BY <1>13 DEF Moved
<1>15. PICK g \in 0 .. n - 1 : g = Spot(h, size, n) /\ g = Home(hd2, n)
  BY <1>1 DEF Home
<1>16. Laid(n, b, g, m, st2, es2, rest)
  <2>1. Shifted(m, size, st, es, st2, es2)
    BY ONLY <1>8, <1>13 DEF Shifted
  <2> QED
    <3>1. PICK m1 \in Nat : m1 = m + 1 /\ Laid(n, b, h, m1, st, es, used)
      BY ONLY <1>10
    <3> QED
      <4>1. n \in Nat /\ rest \in Nat /\ used = size + rest /\ g = Spot(h, size, n)
        BY ONLY <1>12, <1>15
      <4> QED
        BY ONLY <1>9, <2>1, <3>1, <4>1, LaidTail
<1>17. PICK fr2 \in 0 .. n : fr2 = fr + size /\ n - fr2 = rest
  BY ONLY <1>2, <1>3, <1>12
<1>18. Home(tl, n) = Spot(g, rest, n)
  <2>1. Home(tl, n) = Spot(h, used, n)
    BY ONLY <1>2, <1>3
  <2>2. Spot(g, rest, n) = Spot(h, used, n)
    <3>1. n \in Nat /\ rest \in Nat /\ used = size + rest /\ g = Spot(h, size, n)
      BY ONLY <1>12, <1>15
    <3> QED
      BY ONLY <3>1, SpotOn
  <2> QED
    BY ONLY <2>1, <2>2
<1>19. \A i \in 1 .. m : Fits(ty, q2[i])
  <2>1. \A i \in 1 .. m : i + 1 \in 1 .. Len(q)
    BY ONLY Len(q) = m + 1
  <2> QED
    BY ONLY <1>2, <1>6, <2>1
<1>20. RingState(n, ty, b, hd2, tl, fr2, q2, st2)
  <2>1. Laid(n, b, Home(hd2, n), Len(q2), st2, Encodings(ty, q2), n - fr2)
    BY <1>4, <1>5, <1>6, <1>15, <1>16, <1>17
  <2>2. Home(tl, n) = Spot(Home(hd2, n), n - fr2, n)
    BY <1>15, <1>17, <1>18
  <2> QED
    BY <1>2, <1>6, <1>14, <1>19, <2>1, <2>2 DEF RingState
<1> QED
  BY <1>5, <1>17, <1>20

\* Sequences with the same elements.
LEMMA SeqEq ==
  ASSUME NEW B, NEW s \in Seq(B), NEW t \in Seq(B), Len(s) = Len(t), \A j \in 1 .. Len(t) : s[j] = t[j]
  PROVE  s = t
  OBVIOUS

\* The first entry starts at the head.
LEMMA FirstEntry ==
  ASSUME RingAssumption, NEW n \in Nat \ {0}, NEW ty, NEW b, NEW hd, NEW tl, NEW fr, NEW q, NEW st,
         RingState(n, ty, b, hd, tl, fr, q, st), NEW m \in Nat, Len(q) = m + 1, NEW h \in 0 .. n - 1, h = Home(hd, n),
         NEW e, e = Enc(ty, q[1]), NEW used \in 0 .. n, used = n - fr
  PROVE  /\ q[1] \in Seq(Byte) /\ Fits(ty, q[1]) /\ Len(e) \in Nat \ {0} /\ Len(e) <= used
         /\ \A j \in 1 .. Len(e) : b[Spot(h, j - 1, n)] = e[j]
<1>1. /\ ty \in {"DYN", "FIX"} /\ q \in Seq(Seq(Byte)) /\ \A i \in 1 .. Len(q) : Fits(ty, q[i])
  BY DEF RingState
<1>2. 1 \in 1 .. m + 1 /\ 1 \in 1 .. Len(q)
  OBVIOUS
<1>3. q[1] \in Seq(Byte) /\ Fits(ty, q[1])
  BY ONLY <1>1, <1>2
<1>4. Len(e) \in Nat \ {0}
  BY <1>1, <1>3, EncType
<1>5. PICK es : es = Encodings(ty, q) /\ es[1] = e
  <2>1. Encodings(ty, q)[1] = Enc(ty, q[1])
    BY ONLY <1>2 DEF Encodings
  <2> QED
    BY <2>1
<1>6. Laid(n, b, h, m + 1, st, es, used)
  BY <1>5 DEF RingState
<1>7. st[1] = 0 /\ st[1] + Len(e) <= used /\ \A j \in 1 .. Len(e) : b[Spot(h, st[1] + j - 1, n)] = e[j]
  <2>1. m + 1 # 0
    OBVIOUS
  <2> QED
    BY ONLY <1>2, <1>5, <1>6, <2>1 DEF Laid
<1>8. ASSUME NEW j \in 1 .. Len(e) PROVE b[Spot(h, j - 1, n)] = e[j]
  <2>1. 0 + j - 1 = j - 1
    BY <1>4
  <2>2. b[Spot(h, 0 + j - 1, n)] = e[j]
    BY ONLY <1>7
  <2> QED
    BY ONLY <2>1, <2>2
<1> QED
  BY ONLY <1>3, <1>4, <1>7, <1>8

\* A message that wraps is not read as one that does not: the tail is before it then.
LEMMA WrapSeen ==
  ASSUME NEW n \in Nat \ {0}, NEW h \in 0 .. n - 1, NEW used \in 0 .. n, NEW T \in 0 .. n,
         Home(T, n) = Spot(h, used, n),
         NEW c \in Nat \ {0}, NEW len \in Nat, c + len <= used, NEW d \in 0 .. n - 1, d = Spot(h, c, n), ~(d > T)
  PROVE  d + len <= n
<1>1. CASE h + c < n
  <2>1. d = h + c
    BY <1>1 DEF Spot
  <2>2. CASE h + used <= n
    BY <2>1, <2>2
  <2>3. CASE h + used > n
    <3>1. Spot(h, used, n) = h + used - n /\ Spot(h, used, n) <= h /\ Spot(h, used, n) > 0
      BY <2>3 DEF Spot
    <3>2. T <= h
      BY <3>1 DEF Home
    <3> QED
      BY <2>1, <3>2
  <2> QED
    BY <2>2, <2>3
<1>2. CASE h + c >= n
  BY <1>2 DEF Spot
<1> QED
  BY <1>1, <1>2

\* The message that ringbuf_pop reads is the first one, and the head goes behind it.
LEMMA PopDyn ==
  ASSUME RingAssumption, NEW n \in Nat \ {0}, end = n,
         RingState(n, "DYN", buf, head, tail, ring_free, queued, start), NEW m \in Nat, Len(queued) = m + 1,
         NEW e, e = Enc("DYN", queued[1]), NEW r, r = ringbuf_pop_dyn
  PROVE  r.s = queued[1] /\ r.size = Len(e) /\ r.head \in 0 .. n /\ Home(r.head, n) = Spot(Home(head, n), Len(e), n)
<1>1. PICK h \in 0 .. n - 1 : h = Home(head, n)
  BY DEF RingState, Home
<1>2. PICK used \in 0 .. n : used = n - ring_free
  BY DEF RingState
<1>3. PICK first : first = queued[1]
  OBVIOUS
<1>4. /\ first \in Seq(Byte) /\ Fits("DYN", first) /\ Len(e) \in Nat \ {0} /\ Len(e) <= used
      /\ \A j \in 1 .. Len(e) : buf[Spot(h, j - 1, n)] = e[j]
  BY <1>1, <1>2, <1>3, FirstEntry
<1>5. PICK hd : hd = ringbuf_headlen_compress(Len(first))
  OBVIOUS
<1>6. /\ hd \in Seq(Byte) /\ Len(hd) \in 1 .. 3 /\ Len(first) \in Nat \ {0} /\ e = hd \o first
      /\ e \in Seq(Byte) /\ Len(e) = Len(hd) + Len(first)
      /\ len_bytes(hd[1]) = Len(hd) /\ ringbuf_headlen_decompress(hd) = Len(first)
      /\ Joined(hd, first, e)
  <2>1. RingAssumption /\ e = Enc("DYN", first)
    BY <1>3
  <2> QED
    BY ONLY <1>4, <1>5, <2>1, EncDyn
<1>7. PICK c \in 1 .. 3, len \in Nat \ {0}, size \in 0 .. n :
        c = Len(hd) /\ len = Len(first) /\ size = Len(e) /\ size = c + len /\ size <= used
  <2>1. PICK c \in 1 .. 3, len \in Nat \ {0}, size \in Nat \ {0} : c = Len(hd) /\ len = Len(first) /\ size = Len(e)
    BY ONLY <1>4, <1>6
  <2>2. size = c + len /\ size <= used
    BY ONLY <1>4, <1>6, <2>1
  <2>3. size \in 0 .. n
    BY ONLY <2>2
  <2> QED
    BY ONLY <2>1, <2>2, <2>3
<1>8. buf \in [0 .. n - 1 -> Byte] /\ tail \in 0 .. n /\ Home(tail, n) = Spot(h, used, n)
  BY <1>1, <1>2 DEF RingState
<1>9. \A j \in 1 .. c : buf[Spot(h, j - 1, n)] = hd[j]
  <2> TAKE j \in 1 .. c
  <2>1. j \in 1 .. Len(e) /\ j \in 1 .. Len(hd)
    BY ONLY <1>7
  <2> QED
    BY ONLY <1>4, <1>6, <2>1 DEF Joined
<1>10. buf[h] = hd[1]
  <2>1. 1 \in 1 .. c /\ Spot(h, 1 - 1, n) = h
    BY DEF Spot
  <2> QED
    BY ONLY <1>9, <2>1
<1>11. PICK header : header = Get(h, c, TRUE)
  OBVIOUS
<1>12. /\ header.s \in Seq(Byte) /\ Len(header.s) = c /\ \A j \in 1 .. c : header.s[j] = buf[Spot(h, j - 1, n)]
       /\ header.head \in 0 .. n /\ Home(header.head, n) = Spot(h, c, n)
  <2>1. c \in 0 .. n
    BY ONLY <1>7
  <2>2. Reads(n, Byte, buf, h, c, header)
    BY <1>8, <1>11, <2>1, GetSplit
  <2> QED
    BY ONLY <2>2 DEF Reads
<1>13. header.s = hd
  <2>1. \A j \in 1 .. c : header.s[j] = hd[j]
    BY ONLY <1>9, <1>12
  <2> QED
    BY ONLY <1>6, <1>7, <1>12, <2>1, SeqEq
<1>14. PICK d \in 0 .. n - 1 : d = Wrap(header.head) /\ d = Spot(h, c, n)
  BY <1>12 DEF Wrap, Home
<1>15. PICK message : message = Get(d, len, d > tail)
  OBVIOUS
<1>16. ~(d > tail) => d + len <= n
  <2>1. c \in Nat \ {0} /\ len \in Nat /\ c + len <= used
    BY ONLY <1>7
  <2> QED
    BY ONLY <1>8, <1>14, <2>1, WrapSeen
<1>17. message = Get(d, len, TRUE) \/ (d + len <= n /\ message = Get(d, len, FALSE))
  <2>1. CASE d > tail
    <3>1. (d > tail) = TRUE
      BY <2>1
    <3> QED
      BY ONLY <1>15, <3>1, Zenon
  <2>2. CASE ~(d > tail)
    <3>1. (d > tail) = FALSE
      BY <2>2
    <3> QED
      BY ONLY <1>15, <1>16, <2>2, <3>1, Zenon
  <2> QED
    BY ONLY <2>1, <2>2
<1>18. /\ message.s \in Seq(Byte) /\ Len(message.s) = len
       /\ \A j \in 1 .. len : message.s[j] = buf[Spot(d, j - 1, n)]
       /\ message.head \in 0 .. n /\ Home(message.head, n) = Spot(d, len, n)
  <2>1. len \in 0 .. n
    BY ONLY <1>7
  <2>2. Reads(n, Byte, buf, d, len, message)
    <3>1. CASE message = Get(d, len, TRUE)
      BY <1>8, <2>1, <3>1, GetSplit
    <3>2. CASE d + len <= n /\ message = Get(d, len, FALSE)
      BY <1>8, <2>1, <3>2, GetWhole
    <3> QED
      BY ONLY <1>17, <3>1, <3>2
  <2> QED
    BY ONLY <2>2 DEF Reads
<1>19. message.s = first
  <2>1. ASSUME NEW j \in 1 .. len PROVE message.s[j] = first[j]
    <3>1. PICK x \in 0 .. n, k \in Nat, i \in 1 .. Len(e) : k = j - 1 /\ x = c + k /\ i = c + j /\ x = i - 1
      BY ONLY <1>7
    <3>2. Spot(d, k, n) = Spot(h, x, n)
      BY ONLY <1>14, <3>1, SpotOn
    <3>3. message.s[j] = buf[Spot(h, x, n)]
      BY ONLY <1>18, <3>1, <3>2
    <3>4. buf[Spot(h, x, n)] = e[i]
      BY ONLY <1>4, <3>1
    <3>5. e[i] = first[j]
      BY ONLY <1>6, <1>7, <3>1 DEF Joined
    <3> QED
      BY ONLY <3>3, <3>4, <3>5
  <2> QED
    BY ONLY <1>4, <1>7, <1>18, <2>1, SeqEq
<1>20. Spot(d, len, n) = Spot(h, size, n)
  <2>1. n \in Nat /\ c \in Nat /\ len \in Nat /\ size = c + len /\ d = Spot(h, c, n)
    BY ONLY <1>7, <1>14
  <2> QED
    BY ONLY <2>1, SpotOn
<1>21. r = [s |-> message.s, head |-> message.head, size |-> c + len]
  <2>1. Wrap(head) = h
    BY <1>1 DEF Wrap, Home
  <2>2. header = Get(Wrap(head), len_bytes(buf[Wrap(head)]), TRUE)
    BY <1>6, <1>7, <1>10, <1>11, <2>1
  <2>3. ringbuf_headlen_decompress(header.s) = len /\ Len(header.s) = c
    BY <1>6, <1>7, <1>13
  <2>4. message =
          Get(Wrap(header.head), ringbuf_headlen_decompress(header.s), Wrap(header.head) > tail)
    BY <1>14, <1>15, <2>3
  <2>5. r = ringbuf_pop_dyn
    OBVIOUS
  <2>6. r =
          [s |-> message.s, head |-> message.head, size |-> Len(header.s) + ringbuf_headlen_decompress(header.s)]
    BY ONLY <2>2, <2>4, <2>5, Zenon DEF ringbuf_pop_dyn
  <2> QED
    BY ONLY <2>3, <2>6
<1>22. r.s = message.s /\ r.head = message.head /\ r.size = c + len
  BY ONLY <1>21
<1> QED
  BY <1>1, <1>3, <1>7, <1>18, <1>19, <1>20, <1>22

\* The inductive invariant of the ring.
RingOK == RingState(end, type, buf, head, tail, ring_free, queued, start) /\ data \in Seq(Byte)

\* The ring has room for at least one byte.
LEMMA RingEnd ==
  ASSUME RingAssumption, type \in {"DYN", "FIX"}
  PROVE  end \in Nat \ {0} /\ (type = "FIX" => end = BlkSize * BlkNum)
<1>1. BlkSize * BlkNum \in Nat \ {0} /\ RingSize \in Nat \ {0}
  BY DEF RingAssumption
<1> QED
  BY <1>1 DEF end

\* A ring without messages, as ringbuf_init and ringbuf_reset leave it.
LEMMA StateEmpty ==
  ASSUME NEW n \in Nat \ {0}, NEW ty \in {"DYN", "FIX"}, NEW b \in [0 .. n - 1 -> Byte], BlkSize \in Nat
  PROVE  RingState(n, ty, b, 0, 0, n, << >>, << >>)
<1>1. PICK q : q = << >> /\ Len(q) = 0 /\ q \in Seq(Seq(Byte)) /\ q \in Seq(0 .. n)
  <2>1. << >> \in Seq(Seq(Byte))
    OBVIOUS
  <2>2. << >> \in Seq(0 .. n) /\ Len(<< >>) = 0
    OBVIOUS
  <2> QED
    BY <2>1, <2>2
<1>2. Home(0, n) = 0 /\ Spot(0, 0, n) = 0 /\ n - n = 0
  BY DEF Home, Spot
<1>3. Laid(n, b, 0, 0, q, Encodings(ty, q), 0)
  BY DEF Laid
<1>4. Aligned(0)
  BY DEF Aligned
<1>5. RingState(n, ty, b, 0, 0, n, q, q)
  BY <1>1, <1>2, <1>3, <1>4 DEF RingState
<1> QED
  BY <1>1, <1>5

\* ringbuf_init
LEMMA RingOKInit ==
  ASSUME RingAssumption, ringbuf_init
  PROVE  RingOK
<1>1. PICK n \in Nat \ {0} : n = end
  BY RingEnd DEF ringbuf_init
<1>2. 0 \in Byte /\ BlkSize \in Nat
  BY DEF RingAssumption, Byte
<1>3. buf \in [0 .. n - 1 -> Byte] /\ type \in {"DYN", "FIX"}
  BY <1>1, <1>2 DEF ringbuf_init
<1>4. head = 0 /\ tail = 0 /\ ring_free = n /\ queued = << >> /\ start = << >> /\ data \in Seq(Byte)
  BY <1>1 DEF ringbuf_init
<1>5. RingState(n, type, buf, 0, 0, n, << >>, << >>)
  BY <1>2, <1>3, StateEmpty
<1> QED
  BY <1>1, <1>4, <1>5 DEF RingOK

\* ringbuf_reset
LEMMA RingReset ==
  ASSUME RingAssumption, RingOK, ringbuf_reset
  PROVE  RingOK'
<1>1. PICK n \in Nat \ {0} : n = end
  BY RingEnd DEF RingOK, RingState
<1>2. BlkSize \in Nat
  BY DEF RingAssumption
<1>3. buf \in [0 .. n - 1 -> Byte] /\ type \in {"DYN", "FIX"} /\ data \in Seq(Byte)
  BY <1>1 DEF RingOK, RingState
<1>4. /\ head' = 0 /\ tail' = 0 /\ ring_free' = n /\ queued' = << >> /\ start' = << >>
      /\ type' = type /\ buf' = buf /\ data' = data
  BY <1>1 DEF ringbuf_reset
<1>5. RingState(n, type, buf, 0, 0, n, << >>, << >>)
  BY <1>2, <1>3, StateEmpty
<1>6. end' = n
  BY <1>1, <1>4 DEF end
<1> QED
  BY <1>3, <1>4, <1>5, <1>6 DEF RingOK

\* A block does not reach over the end of a ring of type FIX.
LEMMA BlockEnd ==
  ASSUME NEW n \in Nat, NEW z \in Nat \ {0}, NEW c \in Nat, n = z * c, NEW k \in Nat, NEW p \in 0 .. n - 1, p = z * k
  PROVE  p + z <= n /\ p + z = z * (k + 1)
<1>1. z * (k + 1) = z * k + z
  OBVIOUS
<1>2. CASE k >= c
  <2>1. z * k >= z * c
    BY <1>2
  <2> QED
    BY <2>1
<1>3. CASE k < c
  <2>1. z * (k + 1) <= z * c
    BY <1>3
  <2> QED
    BY <1>1, <2>1
<1> QED
  BY <1>2, <1>3

\* ringbuf_push into a ring of type DYN: the header, then the message.
LEMMA RingPushDyn ==
  ASSUME RingAssumption, RingOK, type = "DYN", NEW m \in Message, ringbuf_push(m)
  PROVE  RingOK'
<1>1. RingAssumption
  OBVIOUS
<1>2. PICK n \in Nat \ {0} : n = end
  BY RingEnd DEF RingOK, RingState
<1>3. RingState(n, "DYN", buf, head, tail, ring_free, queued, start) /\ data \in Seq(Byte)
  BY <1>2 DEF RingOK
<1>4. PICK h \in 0 .. n - 1, u \in 0 .. n, fr \in 0 .. n : h = Home(head, n) /\ fr = ring_free /\ u = n - fr
  BY <1>3 DEF RingState, Home
<1>5. m \in Seq(Byte) /\ m # << >>
  BY DEF RingAssumption
<1>6. PICK hd : hd = ringbuf_headlen_compress(Len(m))
  OBVIOUS
<1>7. PICK r : r = [buf |-> buf, tail |-> tail]
  OBVIOUS
<1>8. PICK r1, r2 : r1 = Put(r, hd) /\ r2 = Put(r1, m)
  OBVIOUS
<1>9. /\ Len(m) < Max3 /\ ring_free >= Len(hd) + Len(m)
      /\ buf' = r2.buf /\ tail' = r2.tail /\ ring_free' = ring_free - Len(hd) - Len(m)
      /\ queued' = Append(queued, m) /\ start' = Append(start, end - ring_free)
      /\ type' = type /\ head' = head /\ data' = data
  BY <1>6, <1>7, <1>8 DEF ringbuf_push
<1>10. Fits("DYN", m)
  <2>1. Max3 \in Nat
    BY Formats
  <2>2. Len(m) \in Nat \ {0}
    BY ONLY <1>5
  <2> QED
    BY ONLY <1>9, <2>1, <2>2 DEF Fits
<1>11. PICK e : e = Enc("DYN", m)
  OBVIOUS
<1>12. /\ hd \in Seq(Byte) /\ Len(hd) \in 1 .. 3 /\ Len(m) \in Nat \ {0} /\ e = hd \o m
       /\ e \in Seq(Byte) /\ Len(e) = Len(hd) + Len(m)
  BY ONLY <1>1, <1>5, <1>6, <1>10, <1>11, EncDyn
<1>13. PICK c \in Nat, len \in Nat, size \in Nat, x \in 0 .. n, v \in 0 .. n :
         /\ c = Len(hd) /\ len = Len(m) /\ size = Len(e) /\ size = c + len /\ size <= fr
         /\ x = u + c /\ v = x + len /\ v = u + size
  <2>1. PICK c \in Nat, len \in Nat, size \in Nat : c = Len(hd) /\ len = Len(m) /\ size = Len(e) /\ size = c + len
    BY ONLY <1>12
  <2>2. fr >= c + len
    BY ONLY <1>4, <1>9, <2>1
  <2>3. u + c \in 0 .. n /\ (u + c) + len \in 0 .. n /\ (u + c) + len = u + size /\ size <= fr
    BY ONLY <1>4, <2>1, <2>2
  <2> QED
    BY ONLY <2>1, <2>3
<1>14. /\ buf \in [0 .. n - 1 -> Byte] /\ head \in 0 .. n /\ tail \in 0 .. n
       /\ Home(tail, n) = Spot(h, u, n)
  BY <1>3, <1>4 DEF RingState
<1>15. r.buf = buf /\ r.tail = tail
  BY ONLY <1>7
<1>16. /\ r1.buf \in [0 .. n - 1 -> Byte] /\ r1.tail \in 0 .. n
       /\ Home(r1.tail, n) = Spot(h, x, n) /\ Written(n, h, u, buf, r1.buf, hd)
  <2>1. PICK b \in [0 .. n - 1 -> Byte], T \in 0 .. n :
          b = buf /\ r.buf = b /\ r.tail = T /\ Home(T, n) = Spot(h, u, n)
    BY ONLY <1>14, <1>15
  <2>2. end = n /\ head \in 0 .. n /\ h = Home(head, n) /\ x = u + Len(hd) /\ r1 = Put(r, hd)
    BY ONLY <1>2, <1>4, <1>8, <1>13, <1>14
  <2>3. Puts(n, Byte, h, u, x, b, hd, r1)
    BY ONLY <1>12, <2>1, <2>2, PutSpot
  <2> QED
    BY ONLY <2>1, <2>3 DEF Puts
<1>17. /\ r2.buf \in [0 .. n - 1 -> Byte] /\ r2.tail \in 0 .. n
       /\ Home(r2.tail, n) = Spot(h, v, n) /\ Written(n, h, x, r1.buf, r2.buf, m)
  <2>1. PICK b \in [0 .. n - 1 -> Byte], T \in 0 .. n : r1.buf = b /\ r1.tail = T /\ Home(T, n) = Spot(h, x, n)
    BY ONLY <1>16
  <2>2. end = n /\ head \in 0 .. n /\ h = Home(head, n) /\ v = x + Len(m) /\ r2 = Put(r1, m)
    BY ONLY <1>2, <1>4, <1>8, <1>13, <1>14
  <2>3. Puts(n, Byte, h, x, v, b, m, r2)
    BY ONLY <1>5, <2>1, <2>2, PutSpot
  <2> QED
    BY ONLY <2>1, <2>3 DEF Puts
<1>18. Written(n, h, u, buf, r2.buf, e)
  <2>1. Written(n, h, u, buf, r2.buf, hd \o m)
    <3>1. n \in Nat /\ u \in Nat /\ x \in Nat /\ x = u + Len(hd)
      BY ONLY <1>13
    <3> QED
      BY ONLY <1>5, <1>12, <1>16, <1>17, <3>1, WrittenTwice
  <2> QED
    BY ONLY <1>12, <2>1
<1>19. RingState(n, "DYN", r2.buf, head, r2.tail, fr - size, Append(queued, m), Append(start, u))
  <2>1. RingState(n, "DYN", buf, head, tail, fr, queued, start) /\ Len(e) <= fr /\ v = u + Len(e)
    BY ONLY <1>3, <1>4, <1>13
  <2>2. Home(r2.tail, n) = Spot(Home(head, n), v, n) /\ Written(n, Home(head, n), u, buf, r2.buf, e)
    BY ONLY <1>4, <1>17, <1>18
  <2>3. RingState(n, "DYN", r2.buf, head, r2.tail, fr - Len(e), Append(queued, m), Append(start, u))
    BY ONLY <1>1, <1>4, <1>5, <1>10, <1>11, <1>17, <2>1, <2>2, StatePush
  <2> QED
    BY ONLY <1>13, <2>3
<1>20. ring_free' = fr - size /\ start' = Append(start, u) /\ end' = n
  <2>1. ring_free' = fr - c - len /\ fr - c - len = fr - size
    BY ONLY <1>4, <1>9, <1>13
  <2>2. end' = n
    BY <1>2, <1>9 DEF end
  <2> QED
    BY <1>2, <1>4, <1>9, <2>1, <2>2
<1> QED
  BY <1>3, <1>9, <1>19, <1>20 DEF RingOK

\* ringbuf_push into a ring of type FIX: one block.
LEMMA RingPushFix ==
  ASSUME RingAssumption, RingOK, type = "FIX", NEW s \in [1 .. BlkSize -> Byte], ringbuf_push(s)
  PROVE  RingOK'
<1>1. RingAssumption
  OBVIOUS
<1>2. PICK n \in Nat \ {0} : n = end /\ n = BlkSize * BlkNum
  BY RingEnd DEF RingOK, RingState
<1>3. RingState(n, "FIX", buf, head, tail, ring_free, queued, start) /\ data \in Seq(Byte)
  BY <1>2 DEF RingOK
<1>4. PICK h \in 0 .. n - 1, u \in 0 .. n, fr \in 0 .. n : h = Home(head, n) /\ fr = ring_free /\ u = n - fr
  BY <1>3 DEF RingState, Home
<1>5. BlkSize \in Nat \ {0} /\ BlkNum \in Nat
  BY DEF RingAssumption
<1>6. s \in Seq(Byte) /\ Len(s) = BlkSize
  BY ONLY <1>5
<1>7. PICK t \in 0 .. n - 1 : t = Wrap(tail) /\ t = Home(tail, n) /\ t = Spot(h, u, n)
  BY <1>2, <1>3, <1>4 DEF RingState, Wrap, Home
<1>8. PICK b2 : b2 = memcpy(buf, t, s)
  OBVIOUS
<1>9. /\ ring_free >= Len(<< >>) + Len(s)
      /\ buf' = b2 /\ tail' = t + BlkSize /\ ring_free' = ring_free - Len(<< >>) - Len(s)
      /\ queued' = Append(queued, s) /\ start' = Append(start, end - ring_free)
      /\ type' = type /\ head' = head /\ data' = data
  BY <1>7, <1>8 DEF ringbuf_push
<1>10. PICK size \in Nat \ {0}, v \in 0 .. n : size = BlkSize /\ size <= fr /\ v = u + size /\ ring_free' = fr - size
  <2>1. Len(<< >>) = 0
    OBVIOUS
  <2>2. PICK size \in Nat \ {0} : size = BlkSize /\ size = Len(s)
    BY ONLY <1>5, <1>6
  <2>3. fr >= 0 + size /\ ring_free' = fr - 0 - size
    BY ONLY <1>4, <1>9, <2>1, <2>2
  <2>4. u + size \in 0 .. n /\ size <= fr /\ fr - 0 - size = fr - size
    BY ONLY <1>4, <2>3
  <2> QED
    BY ONLY <2>2, <2>3, <2>4
<1>11. t + size <= n /\ Aligned(t + size)
  <2>1. PICK k \in Nat : t = size * k
    <3>1. Aligned(tail)
      BY <1>3 DEF RingState
    <3>2. CASE tail = n
      <4>1. t = 0 /\ size * 0 = 0
        BY <1>7, <3>2 DEF Home
      <4> QED
        BY ONLY <4>1
    <3>3. CASE tail # n
      <4>1. t = tail
        BY <1>7, <3>3 DEF Home
      <4> QED
        BY ONLY <1>10, <3>1, <4>1 DEF Aligned
    <3> QED
      BY ONLY <3>2, <3>3
  <2>2. n \in Nat /\ n = size * BlkNum
    BY ONLY <1>2, <1>10
  <2>3. t + size <= n /\ t + size = size * (k + 1)
    BY ONLY <1>5, <2>1, <2>2, BlockEnd
  <2>4. PICK k1 \in Nat : k1 = k + 1
    OBVIOUS
  <2>5. t + size = size * k1
    BY ONLY <2>3, <2>4, Zenon
  <2>6. t + size = BlkSize * k1
    BY ONLY <1>10, <2>5, Zenon
  <2> QED
    BY ONLY <2>3, <2>6, Zenon DEF Aligned
<1>12. PICK b \in [0 .. n - 1 -> Byte] : b = buf
  BY <1>3 DEF RingState
<1>13. /\ b2 \in [0 .. n - 1 -> Byte] /\ t + size \in 0 .. n
       /\ Home(t + size, n) = Spot(h, v, n) /\ Written(n, h, u, b, b2, s)
  <2>1. u + Len(s) <= n /\ t = Spot(h, u, n) /\ t + Len(s) <= n /\ b2 = memcpy(b, t, s)
    BY ONLY <1>6, <1>7, <1>8, <1>10, <1>11, <1>12
  <2>2. /\ b2 \in [0 .. n - 1 -> Byte] /\ t + Len(s) \in 0 .. n
        /\ Home(t + Len(s), n) = Spot(h, u + Len(s), n) /\ Written(n, h, u, b, b2, s)
    BY ONLY <1>6, <2>1, CopySpot, SMTT(30)
  <2> QED
    BY ONLY <1>6, <1>10, <2>2
<1>14. RingState(n, "FIX", b2, head, t + size, fr - size, Append(queued, s), Append(start, u))
  <2>1. PICK tl2 \in 0 .. n : tl2 = t + size
    BY ONLY <1>13
  <2>2. PICK e : e = Enc("FIX", s) /\ e = s
    BY ONLY TRUE DEF Enc
  <2>3. Fits("FIX", s) /\ Len(e) <= fr /\ v = u + Len(e)
    BY <1>6, <1>10, <2>1, <2>2 DEF Fits
  <2>4. RingState(n, "FIX", buf, head, tail, fr, queued, start) /\ u = n - fr
    BY ONLY <1>3, <1>4
  <2>5. Home(tl2, n) = Spot(Home(head, n), v, n) /\ Written(n, Home(head, n), u, buf, b2, e) /\ Aligned(tl2)
    BY ONLY <1>4, <1>11, <1>12, <1>13, <2>1, <2>2
  <2>6. RingState(n, "FIX", b2, head, tl2, fr - Len(e), Append(queued, s), Append(start, u))
    BY ONLY <1>1, <1>6, <1>13, <2>1, <2>2, <2>3, <2>4, <2>5, StatePush
  <2> QED
    BY ONLY <1>6, <1>10, <2>1, <2>2, <2>6
<1>15. tail' = t + size /\ start' = Append(start, u) /\ end' = n
  <2>1. end' = n
    BY <1>2, <1>9 DEF end
  <2> QED
    BY ONLY <1>2, <1>4, <1>9, <1>10, <2>1
<1> QED
  BY <1>3, <1>9, <1>10, <1>14, <1>15 DEF RingOK

\* The block that ringbuf_pop reads in a ring of type FIX.
LEMMA PopFix ==
  ASSUME RingAssumption, NEW n \in Nat \ {0}, end = n, n = BlkSize * BlkNum,
         RingState(n, "FIX", buf, head, tail, ring_free, queued, start), NEW m \in Nat, Len(queued) = m + 1,
         NEW e, e = Enc("FIX", queued[1]), NEW r,
         r = [s |-> bytes(buf, Wrap(head), BlkSize), head |-> Wrap(head) + BlkSize, size |-> BlkSize]
  PROVE  /\ r.s = queued[1] /\ r.size = Len(e) /\ r.head \in 0 .. n
         /\ Home(r.head, n) = Spot(Home(head, n), Len(e), n) /\ Aligned(r.head)
<1>1. PICK h \in 0 .. n - 1 : h = Home(head, n) /\ h = Wrap(head)
  BY DEF RingState, Home, Wrap
<1>2. PICK used \in 0 .. n : used = n - ring_free
  BY DEF RingState
<1>3. PICK first : first = queued[1] /\ e = first
  BY DEF Enc
<1>4. /\ first \in Seq(Byte) /\ Fits("FIX", first) /\ Len(e) \in Nat \ {0} /\ Len(e) <= used
      /\ \A j \in 1 .. Len(e) : buf[Spot(h, j - 1, n)] = e[j]
  BY <1>1, <1>2, <1>3, FirstEntry
<1>5. PICK size \in 0 .. n : size = BlkSize /\ size = Len(e) /\ size # 0
  BY <1>3, <1>4 DEF Fits
<1>6. BlkNum \in Nat
  BY DEF RingAssumption
<1>7. h + size <= n /\ Aligned(h + size)
  <2>1. PICK k \in Nat : h = size * k
    <3>1. Aligned(head)
      BY DEF RingState
    <3>2. CASE head = n
      <4>1. h = 0 /\ size * 0 = 0
        BY <1>1, <3>2 DEF Home
      <4> QED
        BY ONLY <4>1
    <3>3. CASE head # n
      <4>1. h = head
        BY <1>1, <3>3 DEF Home
      <4> QED
        BY ONLY <1>5, <3>1, <4>1 DEF Aligned
    <3> QED
      BY ONLY <3>2, <3>3
  <2>2. n \in Nat /\ size \in Nat \ {0} /\ n = size * BlkNum
    BY <1>5
  <2>3. h + size <= n /\ h + size = size * (k + 1)
    BY ONLY <1>6, <2>1, <2>2, BlockEnd
  <2>4. PICK k1 \in Nat : k1 = k + 1
    OBVIOUS
  <2>5. h + size = size * k1
    BY ONLY <2>3, <2>4, Zenon
  <2>6. h + size = BlkSize * k1
    BY ONLY <1>5, <2>5, Zenon
  <2> QED
    BY ONLY <2>3, <2>6, Zenon DEF Aligned
<1>8. PICK g : g = [s |-> bytes(buf, h, size), head |-> h + size]
  OBVIOUS
<1>9. Reads(n, Byte, buf, h, size, g)
  <2>1. buf \in [0 .. n - 1 -> Byte] /\ h + size <= n
    BY <1>7 DEF RingState
  <2> QED
    BY ONLY <1>8, <2>1, ReadOne
<1>10. g.s = bytes(buf, h, size) /\ g.head = h + size
  BY ONLY <1>8
<1>11. r.s = g.s /\ r.head = g.head /\ r.size = size
  BY <1>1, <1>5, <1>10
<1>12. /\ g.s \in Seq(Byte) /\ Len(g.s) = size /\ \A j \in 1 .. size : g.s[j] = buf[Spot(h, j - 1, n)]
       /\ g.head \in 0 .. n /\ Home(g.head, n) = Spot(h, size, n)
  BY ONLY <1>9 DEF Reads
<1>13. g.s = first
  <2>1. Len(g.s) = Len(first) /\ \A j \in 1 .. Len(first) : g.s[j] = first[j]
    BY ONLY <1>3, <1>4, <1>5, <1>12
  <2> QED
    BY ONLY <1>4, <1>12, <2>1, SeqEq
<1> QED
  BY ONLY <1>1, <1>3, <1>5, <1>7, <1>10, <1>11, <1>12, <1>13

\* ringbuf_pop of a ring that is not empty: it returns the first message.
LEMMA RingPop ==
  ASSUME RingAssumption, RingOK, ringbuf_pop
  PROVE  RingOK' /\ queued # << >> /\ data' = Head(queued)
<1>1. RingAssumption
  OBVIOUS
<1>2. PICK n \in Nat \ {0} : n = end /\ (type = "FIX" => n = BlkSize * BlkNum)
  BY RingEnd DEF RingOK, RingState
<1>3. /\ RingState(n, type, buf, head, tail, ring_free, queued, start)
      /\ type \in {"DYN", "FIX"} /\ queued \in Seq(Seq(Byte)) /\ ring_free \in 0 .. n
  BY <1>2 DEF RingOK, RingState
<1>4. PICK r : r = IF type = "DYN" THEN ringbuf_pop_dyn
                   ELSE [s |-> bytes(buf, Wrap(head), BlkSize), head |-> Wrap(head) + BlkSize,
                         size |-> BlkSize]
  OBVIOUS
<1>5. /\ ring_free # n /\ data' = r.s /\ head' = r.head /\ ring_free' = ring_free + r.size
      /\ queued' = (IF queued = << >> THEN << >> ELSE Tail(queued))
      /\ start' = [i \in 1 .. Len(queued') |-> start[i + 1] - r.size]
      /\ type' = type /\ buf' = buf /\ tail' = tail
  BY <1>2, <1>4 DEF ringbuf_pop, ringbuf_is_empty
<1>6. PICK m \in Nat : Len(queued) = m + 1
  <2>1. PICK l \in Nat : l = Len(queued)
    BY ONLY <1>3
  <2>2. CASE l = 0
    <3>1. n - ring_free = 0
      BY <1>3, <2>1, <2>2 DEF RingState, Laid
    <3> QED
      BY ONLY <1>3, <1>5, <3>1
  <2>3. CASE l # 0
    <3>1. l - 1 \in Nat /\ l = (l - 1) + 1
      BY ONLY <2>3
    <3> QED
      BY ONLY <2>1, <3>1
  <2> QED
    BY ONLY <2>2, <2>3
<1>7. queued # << >> /\ queued[1] \in Seq(Byte) /\ Head(queued) = queued[1]
  BY ONLY <1>3, <1>6
<1>8. PICK e : e = Enc(type, queued[1])
  OBVIOUS
<1>9. /\ r.s = queued[1] /\ r.size = Len(e) /\ r.head \in 0 .. n /\ Home(r.head, n) = Spot(Home(head, n), Len(e), n)
      /\ (type = "FIX" => Aligned(r.head))
  <2>1. CASE type = "DYN"
    <3>1. /\ RingState(n, "DYN", buf, head, tail, ring_free, queued, start) /\ end = n
          /\ e = Enc("DYN", queued[1]) /\ r = ringbuf_pop_dyn /\ type # "FIX"
      BY <1>2, <1>3, <1>4, <1>8, <2>1
    <3> QED
      BY ONLY <1>1, <1>6, <3>1, PopDyn
  <2>2. CASE type = "FIX"
    <3>1. /\ RingState(n, "FIX", buf, head, tail, ring_free, queued, start) /\ end = n /\ n = BlkSize * BlkNum
          /\ e = Enc("FIX", queued[1])
          /\ r = [s |-> bytes(buf, Wrap(head), BlkSize),
                  head |-> Wrap(head) + BlkSize, size |-> BlkSize]
      BY <1>2, <1>3, <1>4, <1>8, <2>2
    <3> QED
      BY ONLY <1>1, <1>6, <3>1, PopFix
  <2> QED
    BY ONLY <1>3, <2>1, <2>2
<1>10. PICK size \in Nat, hd2 \in 0 .. n : size = Len(e) /\ size = r.size /\ hd2 = r.head
  <2>1. Fits(type, queued[1])
    BY <1>3, <1>6 DEF RingState
  <2>2. Len(e) \in Nat
    BY ONLY <1>1, <1>3, <1>7, <1>8, <2>1, EncType
  <2> QED
    BY ONLY <1>9, <2>2
<1>11. queued' = Tail(queued) /\ Len(queued') = m /\ start' = [i \in 1 .. m |-> start[i + 1] - size]
  <2>1. queued' = Tail(queued)
    BY ONLY <1>5, <1>7
  <2>2. Len(Tail(queued)) = m
    BY ONLY <1>3, <1>6, SeqTail
  <2> QED
    BY ONLY <1>5, <1>10, <2>1, <2>2
<1>12. RingState(n, type, buf, hd2, tail, ring_free + size, Tail(queued), start')
  <2>1. Home(hd2, n) = Spot(Home(head, n), size, n) /\ (type = "FIX" => Aligned(hd2))
          /\ size = Len(Enc(type, queued[1]))
    BY ONLY <1>8, <1>9, <1>10
  <2>2. PICK st2 : st2 = start' /\ st2 = Moved(m, size, start)
    BY ONLY <1>11 DEF Moved
  <2>3. RingState(n, type, buf, hd2, tail, ring_free + size, Tail(queued), st2)
    BY ONLY <1>1, <1>3, <1>6, <2>1, <2>2, StatePop
  <2> QED
    BY ONLY <2>2, <2>3
<1>13. end' = n
  BY <1>2, <1>5 DEF end
<1>14. data' \in Seq(Byte) /\ data' = Head(queued)
  BY ONLY <1>5, <1>7, <1>9
<1>15. RingOK'
  BY <1>5, <1>10, <1>11, <1>12, <1>13, <1>14 DEF RingOK
<1> QED
  BY ONLY <1>7, <1>14, <1>15

\* Every call keeps the invariant.
LEMMA RingOKNext ==
  ASSUME RingAssumption, RingOK, [RingNext]_ringVars
  PROVE  RingOK'
<1>1. ASSUME NEW m \in Message, type = "DYN" /\ ringbuf_push(m) PROVE RingOK'
  BY <1>1, RingPushDyn
<1>2. ASSUME NEW m \in Message, type = "FIX", NEW s \in Blocks(m), ringbuf_push(s) PROVE RingOK'
  <2>1. s \in [1 .. BlkSize -> Byte]
    BY DEF Blocks
  <2> QED
    BY <1>2, <2>1, RingPushFix
<1>3. CASE ringbuf_pop
  BY <1>3, RingPop
<1>4. CASE ringbuf_reset
  BY <1>4, RingReset
<1>5. CASE UNCHANGED ringVars
  <2>1. /\ type' = type /\ buf' = buf /\ head' = head /\ tail' = tail /\ ring_free' = ring_free /\ data' = data
        /\ queued' = queued /\ start' = start
    BY <1>5 DEF ringVars
  <2>2. end' = end
    BY <2>1 DEF end
  <2> QED
    BY <2>1, <2>2 DEF RingOK
<1> QED
  BY <1>1, <1>2, <1>3, <1>4, <1>5 DEF RingNext

\* The inductive invariant says what RingInv says, with remainders for the places behind the end.
LEMMA RingOKInv ==
  ASSUME RingAssumption, RingOK
  PROVE  RingInv
<1>1. PICK n \in Nat \ {0} : n = end
  BY RingEnd DEF RingOK, RingState
<1>2. PICK q : q = queued
  OBVIOUS
<1>3. PICK m \in Nat, used \in 0 .. n, h \in 0 .. n - 1, hd \in 0 .. n, tl \in 0 .. n :
        m = Len(q) /\ used = n - ring_free /\ h = Home(head, n) /\ hd = head /\ tl = tail
  BY <1>1, <1>2 DEF RingOK, RingState, Home
<1>4. PICK es : es = Encodings(type, q)
  OBVIOUS
<1>5. /\ Laid(n, buf, h, m, start, es, used) /\ Home(tl, n) = Spot(h, used, n) /\ h = Home(hd, n) /\ Len(start) = m
  BY <1>1, <1>2, <1>3, <1>4 DEF RingOK, RingState
<1>6. \A x : Encoded(x) = Enc(type, x)
  BY DEF Encoded, Enc
<1>7. \A i \in 1 .. m : es[i] = Encoded(q[i])
  BY ONLY <1>3, <1>4, <1>6 DEF Encodings
<1>8. RingTypeOK
  BY <1>1 DEF RingOK, RingState, RingTypeOK
<1>9. IF m = 0 THEN used = 0 ELSE start[1] = 0 /\ start[m] + Len(Encoded(q[m])) = used
  <2>1. CASE m = 0
    BY ONLY <1>5, <2>1 DEF Laid
  <2>2. CASE m # 0
    <3>1. m \in 1 .. m
      BY ONLY <2>2
    <3>2. start[1] = 0 /\ start[m] + Len(es[m]) = used
      BY ONLY <1>5, <2>2 DEF Laid
    <3> QED
      BY ONLY <1>7, <2>2, <3>1, <3>2
  <2> QED
    BY ONLY <2>1, <2>2
<1>10. \A i \in 1 .. m - 1 : start[i + 1] = start[i] + Len(Encoded(q[i]))
  <2> TAKE i \in 1 .. m - 1
  <2>1. i \in 1 .. m
    OBVIOUS
  <2>2. start[i + 1] = start[i] + Len(es[i])
    BY ONLY <1>5 DEF Laid
  <2> QED
    BY ONLY <1>7, <2>1, <2>2
<1>11. ASSUME NEW i \in 1 .. m, NEW j \in DOMAIN Encoded(q[i])
       PROVE  buf[(head + start[i] + j - 1) % n] = Encoded(q[i])[j]
  <2>1. PICK e : e = Encoded(q[i]) /\ e = es[i] /\ e = Enc(type, q[i])
    BY ONLY <1>6, <1>7
  <2>2. e \in Seq(Byte) /\ Len(e) \in Nat
    <3>1. type \in {"DYN", "FIX"} /\ q[i] \in Seq(Byte) /\ Fits(type, q[i])
      BY <1>2, <1>3 DEF RingOK, RingState
    <3> QED
      BY <2>1, <3>1, EncType
  <2>3. j \in 1 .. Len(e)
    BY <2>1, <2>2
  <2>4. start[i] \in Nat /\ start[i] + Len(e) <= used /\ buf[Spot(h, start[i] + j - 1, n)] = e[j]
    BY ONLY <1>5, <2>1, <2>3, ZenonT(60) DEF Laid
  <2>5. PICK k \in 0 .. n, x \in Nat : k = start[i] + j - 1 /\ x = head + start[i] + j - 1 /\ x = hd + k
    <3>1. PICK a \in Nat, l \in Nat : a = start[i] /\ l = Len(e)
      BY ONLY <2>2, <2>4
    <3>2. a + l <= used /\ j \in 1 .. l /\ hd = head
      BY ONLY <1>3, <2>3, <2>4, <3>1
    <3>3. a + j - 1 \in 0 .. n /\ hd + a + j - 1 \in Nat /\ hd + a + j - 1 = hd + (a + j - 1)
      BY ONLY <3>2
    <3> QED
      BY ONLY <3>1, <3>2, <3>3
  <2>6. x % n = Spot(Home(hd, n), k, n)
    BY ONLY <2>5, SpotMod
  <2> QED
    BY ONLY <1>5, <2>1, <2>4, <2>5, <2>6
<1>12. tail % n = (head + used) % n
  <2>1. PICK y \in Nat, z \in Nat : y = tl + 0 /\ y = tail /\ z = hd + used /\ z = head + used
    <3>1. tl + 0 = tl /\ tl \in Nat /\ hd + used \in Nat
      OBVIOUS
    <3> QED
      BY ONLY <1>3, <3>1
  <2>2. y % n = Spot(Home(tl, n), 0, n)
    <3>1. 0 \in 0 .. n
      OBVIOUS
    <3> QED
      BY ONLY <2>1, <3>1, SpotMod
  <2>3. z % n = Spot(h, used, n)
    BY ONLY <1>5, <2>1, SpotMod
  <2>4. Spot(Home(tl, n), 0, n) = Home(tl, n)
    BY DEF Home, Spot
  <2> QED
    BY ONLY <1>5, <2>1, <2>2, <2>3, <2>4
<1>13. ContentsOK
  <2>1. /\ end = n /\ end - ring_free = used /\ queued = q /\ Len(queued) = m
        /\ Len(start) = m
    BY <1>1, <1>2, <1>3, <1>5
  <2>2. ContentsOK <=>
          /\ Len(start) = m
          /\ IF m = 0 THEN used = 0 ELSE start[1] = 0 /\ start[m] + Len(Encoded(q[m])) = used
          /\ \A i \in 1 .. m - 1 : start[i + 1] = start[i] + Len(Encoded(q[i]))
          /\ \A i \in 1 .. m : \A j \in DOMAIN Encoded(q[i]) :
               buf[(head + start[i] + j - 1) % n] = Encoded(q[i])[j]
          /\ tail % n = (head + used) % n
    BY ONLY <2>1, Zenon DEF ContentsOK
  <2> QED
    BY ONLY <1>9, <1>10, <1>11, <1>12, <2>1, <2>2
<1> QED
  BY ONLY <1>8, <1>13 DEF RingInv

\* RingInv of RingBuf, for every size of the ring, of the blocks and of a byte, and for every
\* set of messages: no copy of ringbuf_push or ringbuf_pop leaves the buffer, freesize and tail
\* agree with what is stored, and no push has written into a message that is still to be read.
THEOREM RingContents == RingSpec => []RingInv
<1>1. ringbuf_init => RingOK
  BY RingAssumption, RingOKInit
<1>2. RingOK /\ [RingNext]_ringVars => RingOK'
  BY RingAssumption, RingOKNext
<1>3. RingOK => RingInv
  BY RingAssumption, RingOKInv
<1> QED
  BY <1>1, <1>2, <1>3, PTL DEF RingSpec

\* FirstInFirstOut of RingBuf, likewise: ringbuf_pop returns the message pushed first, whole,
\* wherever the end of the buffer divides its header or its bytes.
THEOREM RingFirstInFirstOut == RingSpec => FirstInFirstOut
<1>1. ringbuf_init => RingOK
  BY RingAssumption, RingOKInit
<1>2. RingOK /\ [RingNext]_ringVars => RingOK'
  BY RingAssumption, RingOKNext
<1>3. RingOK => [ringbuf_pop => queued # << >> /\ data' = Head(queued)]_ringVars
  BY RingAssumption, RingPop
<1> QED
  BY <1>1, <1>2, <1>3, PTL DEF RingSpec, FirstInFirstOut
=============================================================================
