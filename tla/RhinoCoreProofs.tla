--------------------------- MODULE RhinoCoreProofs ---------------------------
(***************************************************************************)
(* Proofs about RhinoCore, for any number of tasks, priorities and objects *)
(* and any width of the counters.                                          *)
(***************************************************************************)
EXTENDS RhinoCore, KListProofs

-----------------------------------------------------------------------------
(***************************************************************************)
(* The ready queue.  `place' says on the list of which priority each task  *)
(* is; PriMax, which is none, stands for no list.                          *)
(***************************************************************************)
QueueType == [cur_list_item : [Prio -> Seq(Task)],
              task_bit_map  : SUBSET Prio,
              highest_pri   : Prio]

QueueOK(rq, place) ==
  /\ rq \in QueueType
  /\ \A p \in Prio, t \in Task : t \in ToSet(rq.cur_list_item[p]) <=> place[t] = p
  /\ \A p \in Prio : IsInjective(rq.cur_list_item[p])
  /\ rq.task_bit_map = {p \in Prio : rq.cur_list_item[p] # << >>}
  /\ rq.highest_pri \in rq.task_bit_map
  /\ \A p \in rq.task_bit_map : rq.highest_pri <= p

Places == [Task -> 0 .. PriMax]

\* A list is empty exactly when no task has its place there.
LEMMA EmptyList ==
  ASSUME NEW rq, NEW place, QueueOK(rq, place), NEW p \in Prio
  PROVE  rq.cur_list_item[p] = << >> <=> \A t \in Task : place[t] # p
<1>1. rq.cur_list_item[p] \in Seq(Task)
  BY DEF QueueOK, QueueType
<1>2. ASSUME rq.cur_list_item[p] # << >> PROVE \E t \in Task : place[t] = p
  <2>1. 1 \in 1 .. Len(rq.cur_list_item[p])
    BY <1>1, <1>2, EmptySeq
  <2>2. rq.cur_list_item[p][1] \in ToSet(rq.cur_list_item[p]) /\ rq.cur_list_item[p][1] \in Task
    BY <1>1, <2>1, ToSetByIndex
  <2> QED
    BY <2>2 DEF QueueOK
<1>3. ASSUME rq.cur_list_item[p] = << >>, NEW t \in Task PROVE place[t] # p
  <2>1. ToSet(rq.cur_list_item[p]) = {}
    BY <1>3 DEF ToSet
  <2> QED
    BY <2>1 DEF QueueOK
<1> QED
  BY <1>2, <1>3

\* ready_list_init puts a task on a list that was empty.
LEMMA InitQueue ==
  ASSUME NEW rq, NEW place \in Places, QueueOK(rq, place),
         NEW t \in Task, NEW p \in Prio, place[t] = PriMax, rq.cur_list_item[p] = << >>
  PROVE  QueueOK(ready_list_init(rq, t, p), [place EXCEPT ![t] = p])
<1> DEFINE new == ready_list_init(rq, t, p)
           to  == [place EXCEPT ![t] = p]
           list == new.cur_list_item
<1>1. /\ list = [rq.cur_list_item EXCEPT ![p] = <<t>>]
      /\ new.task_bit_map = rq.task_bit_map \cup {p}
      /\ new.highest_pri = IF p < rq.highest_pri THEN p ELSE rq.highest_pri
      /\ new \in QueueType
  BY DEF ready_list_init, QueueOK, QueueType
<1>2. list \in [Prio -> Seq(Task)] /\ list[p] = <<t>> /\ \A q \in Prio \ {p} : list[q] = rq.cur_list_item[q]
  BY <1>1 DEF QueueOK, QueueType
<1>3. /\ \A u \in Task : place[u] # p
      /\ to[t] = p /\ \A u \in Task \ {t} : to[u] = place[u]
      /\ p # PriMax
  BY EmptyList, PriAssumption DEF Places, Prio
<1> HIDE DEF new, to, list
<1>4. ToSet(<<t>>) = {t} /\ IsInjective(<<t>>) /\ <<t>> # << >>
  BY DEF ToSet, IsInjective
<1>5. \A q \in Prio, u \in Task : u \in ToSet(list[q]) <=> to[u] = q
  <2>1. ASSUME NEW u \in Task PROVE u \in ToSet(list[p]) <=> to[u] = p
    BY <1>2, <1>3, <1>4
  <2>2. ASSUME NEW q \in Prio \ {p}, NEW u \in Task PROVE u \in ToSet(list[q]) <=> to[u] = q
    <3>1. PriMax # q
      BY PriAssumption DEF Prio
    <3>2. u \in ToSet(list[q]) <=> place[u] = q
      BY <1>2 DEF QueueOK
    <3> QED
      BY <1>3, <3>1, <3>2
  <2> QED
    BY <2>1, <2>2
<1>6. \A q \in Prio : IsInjective(list[q])
  BY <1>2, <1>4 DEF QueueOK
<1>7. new.task_bit_map = {q \in Prio : list[q] # << >>}
  BY <1>1, <1>2, <1>4 DEF QueueOK
<1>8. new.highest_pri \in new.task_bit_map /\ \A q \in new.task_bit_map : new.highest_pri <= q
  BY <1>1, PriAssumption DEF QueueOK, QueueType, Prio
<1> QED
  BY <1>1, <1>5, <1>6, <1>7, <1>8 DEF QueueOK, new, to, list

\* Replacing a list that is not empty by another one that is not.
LEMMA ChangeQueue ==
  ASSUME NEW rq, NEW place, QueueOK(rq, place), NEW to,
         NEW p \in Prio, NEW s \in Seq(Task), s # << >>, rq.cur_list_item[p] # << >>,
         IsInjective(s),
         \A u \in Task : u \in ToSet(s) <=> to[u] = p,
         \A q \in Prio \ {p}, u \in Task : place[u] = q <=> to[u] = q
  PROVE  QueueOK([rq EXCEPT !.cur_list_item[p] = s], to)
<1> DEFINE new  == [rq EXCEPT !.cur_list_item[p] = s]
           list == new.cur_list_item
<1>1. /\ new \in QueueType
      /\ new.task_bit_map = rq.task_bit_map /\ new.highest_pri = rq.highest_pri
      /\ list[p] = s /\ \A q \in Prio \ {p} : list[q] = rq.cur_list_item[q]
  <2>1. rq \in QueueType
    BY DEF QueueOK
  <2>2. /\ list = [rq.cur_list_item EXCEPT ![p] = s]
        /\ new.task_bit_map = rq.task_bit_map /\ new.highest_pri = rq.highest_pri
        /\ list \in [Prio -> Seq(Task)]
    BY <2>1 DEF QueueType
  <2>3. new \in QueueType
    BY <2>1, <2>2 DEF QueueType
  <2> QED
    BY <2>1, <2>2, <2>3 DEF QueueType
<1> HIDE DEF new, list
<1>2. \A q \in Prio, u \in Task : u \in ToSet(list[q]) <=> to[u] = q
  BY <1>1 DEF QueueOK
<1>3. \A q \in Prio : IsInjective(list[q])
  BY <1>1 DEF QueueOK
<1>4. new.task_bit_map = {q \in Prio : list[q] # << >>}
  BY <1>1 DEF QueueOK
<1> QED
  BY <1>1, <1>2, <1>3, <1>4 DEF QueueOK, new, list

\* ready_list_add_tail and ready_list_add_head add a task that is on no list.
LEMMA AddQueue ==
  ASSUME NEW rq, NEW place \in Places, QueueOK(rq, place),
         NEW t \in Task, NEW p \in Prio, place[t] = PriMax
  PROVE  /\ QueueOK(ready_list_add_tail(rq, t, p), [place EXCEPT ![t] = p])
         /\ QueueOK(ready_list_add_head(rq, t, p), [place EXCEPT ![t] = p])
<1> DEFINE to == [place EXCEPT ![t] = p]
           s  == rq.cur_list_item[p]
<1>1. CASE s = << >>
  BY <1>1, InitQueue DEF ready_list_add_tail, ready_list_add_head, is_ready_list_empty
<1>2. CASE s # << >>
  <2>1. s \in Seq(Task) /\ IsInjective(s) /\ \A u \in Task : u \in ToSet(s) <=> place[u] = p
    BY DEF QueueOK, QueueType
  <2>2. p # PriMax /\ to[t] = p /\ \A u \in Task \ {t} : to[u] = place[u]
    BY PriAssumption DEF Prio, Places
  <2>3. t \notin ToSet(s)
    BY <2>1, <2>2
  <2>4. \A q \in Prio \ {p}, u \in Task : place[u] = q <=> to[u] = q
    BY <2>2, PriAssumption DEF Prio
  <2>5. rq.cur_list_item[p] # << >>
    BY <1>2
  <2> HIDE DEF to, s
  <2>6. ASSUME NEW r \in Seq(Task), r # << >>, IsInjective(r), ToSet(r) = ToSet(s) \cup {t}
        PROVE  QueueOK([rq EXCEPT !.cur_list_item[p] = r], to)
    <3>1. \A u \in Task : u \in ToSet(r) <=> to[u] = p
      BY <2>1, <2>2, <2>6
    <3> QED
      BY <2>4, <2>5, <2>6, <3>1, ChangeQueue
  <2>7. /\ Append(s, t) \in Seq(Task) /\ Append(s, t) # << >> /\ IsInjective(Append(s, t))
        /\ ToSet(Append(s, t)) = ToSet(s) \cup {t}
    BY <2>1, <2>3, AppendElement
  <2>8. /\ <<t>> \o s \in Seq(Task) /\ <<t>> \o s # << >> /\ IsInjective(<<t>> \o s)
        /\ ToSet(<<t>> \o s) = ToSet(s) \cup {t}
    BY <2>1, <2>3, PrependElement
  <2>9. /\ ready_list_add_tail(rq, t, p) = [rq EXCEPT !.cur_list_item[p] = Append(s, t)]
        /\ ready_list_add_head(rq, t, p) = [rq EXCEPT !.cur_list_item[p] = <<t>> \o s]
    BY <1>2 DEF ready_list_add_tail, ready_list_add_head, is_ready_list_empty, s, QueueOK, QueueType
  <2> QED
    BY <2>6, <2>7, <2>8, <2>9, Zenon DEF to
<1> QED
  BY <1>1, <1>2

\* ready_list_rm takes a task off, as long as another one stays on the queue.
LEMMA RmQueue ==
  ASSUME NEW rq, NEW place \in Places, QueueOK(rq, place),
         NEW t \in Task, place[t] \in Prio, NEW other \in Task \ {t}, place[other] \in Prio
  PROVE  QueueOK(ready_list_rm(rq, t, place[t]), [place EXCEPT ![t] = PriMax])
<1> DEFINE p  == place[t]
           to == [place EXCEPT ![t] = PriMax]
           s  == rq.cur_list_item[p]
<1>1. /\ s \in Seq(Task) /\ IsInjective(s) /\ \A u \in Task : u \in ToSet(s) <=> place[u] = p
      /\ p \in Prio /\ p # PriMax
  <2>1. p # PriMax
    BY PriAssumption DEF Prio
  <2> QED
    BY <2>1 DEF QueueOK, QueueType
<1>2. to[t] = PriMax /\ \A u \in Task \ {t} : to[u] = place[u]
  BY DEF Places
<1>3. t \in ToSet(s)
  BY <1>1
<1>4. \A q \in Prio \ {p}, u \in Task : place[u] = q <=> to[u] = q
  BY <1>2, PriAssumption DEF Prio
<1> HIDE DEF p, to, s
<1>5. /\ klist_rm(s, t) \in Seq(Task) /\ Len(klist_rm(s, t)) = Len(s) - 1
      /\ ToSet(klist_rm(s, t)) = ToSet(s) \ {t} /\ IsInjective(klist_rm(s, t))
  BY <1>1, <1>3, RmProperties
<1>6. \A u \in Task : u \in ToSet(klist_rm(s, t)) <=> to[u] = p
  BY <1>1, <1>2, <1>5
<1>7. CASE Len(s) > 1
  <2>1. s # << >> /\ klist_rm(s, t) # << >>
    BY <1>1, <1>5, <1>7
  <2>2. QueueOK([rq EXCEPT !.cur_list_item[p] = klist_rm(s, t)], to)
    BY <1>1, <1>4, <1>5, <1>6, <2>1, ChangeQueue DEF s
  <2>3. ready_list_rm(rq, t, p) = [rq EXCEPT !.cur_list_item[p] = klist_rm(s, t)]
    BY <1>7 DEF ready_list_rm, s, QueueOK, QueueType
  <2> QED
    BY <2>2, <2>3 DEF p, to
<1>8. CASE ~(Len(s) > 1)
  <2> DEFINE new  == ready_list_rm(rq, t, p)
             list == new.cur_list_item
             h == new.highest_pri
             bitmap == rq.task_bit_map \ {p}
  <2>1. /\ list = [rq.cur_list_item EXCEPT ![p] = << >>]
        /\ new.task_bit_map = bitmap
        /\ new.highest_pri = IF p # rq.highest_pri THEN rq.highest_pri ELSE Min(bitmap)
        /\ new = [cur_list_item |-> list, task_bit_map |-> bitmap, highest_pri |-> h]
    BY <1>8 DEF ready_list_rm, krhino_find_first_bit, s
  <2>2. list \in [Prio -> Seq(Task)] /\ list[p] = << >> /\ \A q \in Prio \ {p} : list[q] = rq.cur_list_item[q]
    BY <1>1, <2>1 DEF QueueOK, QueueType
  <2> HIDE DEF new, list, h
  <2>3. ToSet(s) = {t}
    <3>1. ASSUME NEW u \in ToSet(s) PROVE u = t
      <4>1. /\ \E k \in 1 .. Len(s) : s[k] = u
            /\ \E k \in 1 .. Len(s) : s[k] = t
        BY <1>1, <1>3, ToSetByIndex
      <4> QED
        BY <1>1, <1>8, <4>1
    <3> QED
      BY <1>3, <3>1
  <2>4. \A u \in Task : to[u] # p
    BY <1>1, <1>2, <2>3
  <2>5. ToSet(<< >>) = {} /\ IsInjective(<< >>)
    BY DEF ToSet, IsInjective
  <2>6. ASSUME NEW q \in Prio, NEW u \in Task PROVE u \in ToSet(list[q]) <=> to[u] = q
    <3>1. CASE q = p
      BY <2>2, <2>4, <2>5, <3>1
    <3>2. CASE q # p
      <4>1. list[q] = rq.cur_list_item[q]
        BY <2>2, <3>2
      <4>2. u \in ToSet(rq.cur_list_item[q]) <=> place[u] = q
        BY DEF QueueOK
      <4>3. place[u] = q <=> to[u] = q
        BY <1>4, <3>2
      <4> QED
        BY <4>1, <4>2, <4>3
    <3> QED
      BY <3>1, <3>2
  <2>7. \A q \in Prio : IsInjective(list[q])
    BY <2>2, <2>5 DEF QueueOK
  <2>8. bitmap = {q \in Prio : list[q] # << >>}
    BY <2>2 DEF QueueOK
  <2>9. place[other] \in bitmap
    <3>1. place[other] # p
      BY <1>1, <2>3
    <3>2. rq.cur_list_item[place[other]] # << >>
      BY EmptyList
    <3> QED
      BY <3>1, <3>2 DEF QueueOK
  <2>10. bitmap \subseteq Nat /\ bitmap \subseteq Prio
    BY PriAssumption DEF QueueOK, QueueType, Prio
  <2>11. Min(bitmap) \in bitmap /\ \A q \in bitmap : Min(bitmap) <= q
    BY <2>9, <2>10, NatMin
  <2>12. new.highest_pri \in bitmap /\ \A q \in bitmap : new.highest_pri <= q
    BY <2>1, <2>11 DEF QueueOK
  <2>13. new \in QueueType
    <3>1. bitmap \in SUBSET Prio /\ h \in Prio
      BY <2>1, <2>10, <2>12 DEF h
    <3> QED
      BY <2>1, <2>2, <3>1 DEF QueueType
  <2>14. QueueOK(new, to)
    BY <2>1, <2>6, <2>7, <2>8, <2>12, <2>13 DEF QueueOK, list
  <2> QED
    BY <2>14 DEF new, p, to
<1> QED
  BY <1>7, <1>8

\* ready_list_head_to_tail keeps every task where it is.
LEMMA RotateQueue ==
  ASSUME NEW rq, NEW place \in Places, QueueOK(rq, place),
         NEW p \in Prio, rq.cur_list_item[p] # << >>
  PROVE  QueueOK(ready_list_head_to_tail(rq, p), place)
<1> DEFINE s == rq.cur_list_item[p]
<1>1. s \in Seq(Task) /\ IsInjective(s) /\ \A u \in Task : u \in ToSet(s) <=> place[u] = p
  BY DEF QueueOK, QueueType
<1> HIDE DEF s
<1>2. /\ klist_rotate(s) \in Seq(Task) /\ klist_rotate(s) # << >>
      /\ ToSet(klist_rotate(s)) = ToSet(s) /\ IsInjective(klist_rotate(s))
  BY <1>1, RotateProperties DEF s
<1>3. QueueOK([rq EXCEPT !.cur_list_item[p] = klist_rotate(s)], place)
  BY <1>1, <1>2, ChangeQueue DEF s
<1>4. ready_list_head_to_tail(rq, p) = [rq EXCEPT !.cur_list_item[p] = klist_rotate(s)]
  BY DEF ready_list_head_to_tail, s, QueueOK, QueueType
<1> QED
  BY <1>3, <1>4

\* The task the scheduler switches to is on the list of its own priority.
LEMMA PreferredTask ==
  ASSUME NEW rq, NEW place \in Places, QueueOK(rq, place)
  PROVE  /\ preferred_cpu_ready_task_get(rq) \in Task
         /\ place[preferred_cpu_ready_task_get(rq)] \in Prio
<1> DEFINE s == rq.cur_list_item[rq.highest_pri]
<1>1. rq.highest_pri \in Prio /\ s \in Seq(Task) /\ s # << >>
  BY DEF QueueOK, QueueType
<1>2. 1 \in 1 .. Len(s) /\ Head(s) = s[1]
  BY <1>1, EmptySeq
<1>3. Head(s) \in ToSet(s) /\ Head(s) \in Task
  BY <1>1, <1>2, ToSetByIndex
<1>4. place[Head(s)] = rq.highest_pri
  BY <1>1, <1>3 DEF QueueOK
<1> QED
  BY <1>1, <1>3, <1>4 DEF preferred_cpu_ready_task_get
-----------------------------------------------------------------------------
(***************************************************************************)
(* The inductive invariant.  ListInv is about the lists the tasks are on,  *)
(* CallInv about the task that runs.  The two depend on each other: a      *)
(* service that blocks its caller takes it off its ready list, which is    *)
(* right only because the caller, running its own code, is on it.          *)
(***************************************************************************)
\* The idle task is always ready, alone at the lowest priority, so there is
\* always a task to run.
IdleOK ==
  /\ task_state[Idle] = "K_RDY" /\ prio[Idle] = IDLE_PRI
  /\ \A t \in Task \ {Idle} : prio[t] < IDLE_PRI

\* blk_obj is set exactly while the task waits.
BlkObjOK ==
  \A t \in Task :
    /\ task_state[t] \in PendStates => blk_obj[t] \in Obj
    /\ task_state[t] \in {"K_RDY", "K_SUSPENDED"} \cup SleepStates => blk_obj[t] = NoObj

\* A task inside krhino_task_pri_change has passed its first checks.
PriArgOK ==
  \A t \in Task : pc[t] = "pri_change" => arg[t] \in (Task \ {Idle}) \X (0 .. IDLE_PRI - 1)

ListInv == /\ ReadyQueueOK /\ WaitListsOK /\ TickListOK /\ SuspendCountOK
           /\ IdleOK /\ BlkObjOK
CallInv == RunsOnlyReady /\ LockHolderReady /\ PriArgOK
CoreInv == CoreTypeOK /\ ListInv /\ CallInv


\* Where tasks with states st and priorities pr have their places.
Place(st, pr) == [t \in Task |-> IF st[t] = "K_RDY" THEN pr[t] ELSE PriMax]

\* A task has a place on the list of priority p exactly when it is ready with
\* priority p, so Place encodes K_RDY and prio together.
LEMMA PlaceMeaning ==
  ASSUME NEW st, NEW pr \in [Task -> Prio]
  PROVE  /\ Place(st, pr) \in Places
         /\ \A p \in Prio, t \in Task : Place(st, pr)[t] = p <=> st[t] = "K_RDY" /\ pr[t] = p
         /\ \A t \in Task : Place(st, pr)[t] = IF st[t] = "K_RDY" THEN pr[t] ELSE PriMax
  BY PriAssumption DEF Place, Places, Prio

\* While the ready queue agrees with the tasks (ReadyQueueOK), it has the shape
\* QueueOK with every ready task at the place of its priority.
LEMMA PlaceOfReady ==
  ASSUME CoreTypeOK, ReadyQueueOK
  PROVE  /\ Place(task_state, prio) \in Places
         /\ QueueOK(g_ready_queue, Place(task_state, prio))
<1>1. prio \in [Task -> Prio] /\ g_ready_queue \in QueueType
  BY DEF CoreTypeOK, QueueType
<1>2. /\ Place(task_state, prio) \in Places
      /\ \A p \in Prio, t \in Task :
           Place(task_state, prio)[t] = p <=> task_state[t] = "K_RDY" /\ prio[t] = p
  BY <1>1, PlaceMeaning
<1> QED
  BY <1>1, <1>2 DEF ReadyQueueOK, QueueOK

\* The converse: a queue of that shape, after a step, is ReadyQueueOK again.
LEMMA ReadyFromPlace ==
  ASSUME prio' \in [Task -> Prio], QueueOK(g_ready_queue', Place(task_state', prio'))
  PROVE  ReadyQueueOK' /\ g_ready_queue' \in QueueType
<1>1. \A p \in Prio, t \in Task :
        Place(task_state', prio')[t] = p <=> task_state'[t] = "K_RDY" /\ prio'[t] = p
  BY PlaceMeaning
<1> QED
  BY <1>1 DEF ReadyQueueOK, QueueOK

\* A task becomes ready, at priority p.
LEMMA GainReady ==
  ASSUME CoreTypeOK, ReadyQueueOK, NEW t \in Task, NEW p \in Prio, task_state[t] # "K_RDY",
         task_state' = [task_state EXCEPT ![t] = "K_RDY"], prio' = [prio EXCEPT ![t] = p],
         g_ready_queue' \in {ready_list_add_tail(g_ready_queue, t, p),
                             ready_list_add_head(g_ready_queue, t, p)}
  PROVE  ReadyQueueOK' /\ g_ready_queue' \in QueueType
<1> DEFINE from == Place(task_state, prio)
<1>1. from \in Places /\ QueueOK(g_ready_queue, from)
  BY PlaceOfReady
<1>2. from[t] = PriMax /\ Place(task_state', prio') = [from EXCEPT ![t] = p]
  BY DEF Place, CoreTypeOK
<1> HIDE DEF from
<1>3. QueueOK(g_ready_queue', [from EXCEPT ![t] = p])
  BY <1>1, <1>2, AddQueue
<1>4. prio' \in [Task -> Prio]
  BY DEF CoreTypeOK
<1> QED
  BY <1>2, <1>3, <1>4, ReadyFromPlace

\* A task other than the idle task stops being ready.
LEMMA LoseReady ==
  ASSUME CoreTypeOK, ReadyQueueOK, IdleOK, NEW t \in Task \ {Idle}, task_state[t] = "K_RDY",
         NEW st, st # "K_RDY",
         task_state' = [task_state EXCEPT ![t] = st], prio' = prio,
         g_ready_queue' = ready_list_rm(g_ready_queue, t, prio[t])
  PROVE  ReadyQueueOK' /\ g_ready_queue' \in QueueType
<1> DEFINE from == Place(task_state, prio)
<1>1. from \in Places /\ QueueOK(g_ready_queue, from)
  BY PlaceOfReady
<1>2. /\ from[t] = prio[t] /\ prio[t] \in Prio
      /\ from[Idle] = IDLE_PRI /\ IDLE_PRI \in Prio /\ Idle \in Task \ {t}
      /\ Place(task_state', prio') = [from EXCEPT ![t] = PriMax]
  BY TaskAssumption, PriAssumption DEF Place, CoreTypeOK, IdleOK, IDLE_PRI, Prio
<1> HIDE DEF from
<1>3. QueueOK(ready_list_rm(g_ready_queue, t, from[t]), [from EXCEPT ![t] = PriMax])
  BY <1>1, <1>2, RmQueue
<1>4. prio' \in [Task -> Prio]
  BY DEF CoreTypeOK
<1> QED
  BY <1>2, <1>3, <1>4, ReadyFromPlace

\* A ready task other than the idle task changes its priority.
LEMMA MoveReady ==
  ASSUME CoreTypeOK, ReadyQueueOK, IdleOK, NEW t \in Task \ {Idle}, task_state[t] = "K_RDY",
         NEW p \in Prio,
         task_state' = task_state, prio' = [prio EXCEPT ![t] = p],
         LET rq == ready_list_rm(g_ready_queue, t, prio[t])
         IN  g_ready_queue' \in {ready_list_add_tail(rq, t, p), ready_list_add_head(rq, t, p)}
  PROVE  ReadyQueueOK' /\ g_ready_queue' \in QueueType
<1> DEFINE from == Place(task_state, prio)
           off  == [from EXCEPT ![t] = PriMax]
           rq   == ready_list_rm(g_ready_queue, t, prio[t])
<1>1. from \in Places /\ QueueOK(g_ready_queue, from)
  BY PlaceOfReady
<1>2. /\ from[t] = prio[t] /\ prio[t] \in Prio
      /\ from[Idle] = IDLE_PRI /\ IDLE_PRI \in Prio /\ Idle \in Task \ {t}
      /\ Place(task_state', prio') = [off EXCEPT ![t] = p]
  BY TaskAssumption, PriAssumption DEF Place, CoreTypeOK, IdleOK, IDLE_PRI, Prio
<1>3. off \in Places /\ off[t] = PriMax
  BY <1>1, PriAssumption DEF Places
<1> HIDE DEF from, off
<1>4. QueueOK(ready_list_rm(g_ready_queue, t, from[t]), [from EXCEPT ![t] = PriMax])
  BY <1>1, <1>2, RmQueue
<1>5. QueueOK(rq, off)
  BY <1>2, <1>4 DEF off
<1> HIDE DEF rq
<1>6. QueueOK(g_ready_queue', [off EXCEPT ![t] = p])
  BY <1>3, <1>5, AddQueue DEF rq
<1>7. prio' \in [Task -> Prio]
  BY DEF CoreTypeOK
<1> QED
  BY <1>2, <1>6, <1>7, ReadyFromPlace

\* A task that is not ready changes its state, or its priority, and stays off.
LEMMA StayUnready ==
  ASSUME CoreTypeOK, ReadyQueueOK, NEW t \in Task, task_state[t] # "K_RDY",
         NEW st, st # "K_RDY", NEW p \in Prio,
         task_state' = [task_state EXCEPT ![t] = st], prio' = [prio EXCEPT ![t] = p],
         g_ready_queue' = g_ready_queue
  PROVE  ReadyQueueOK' /\ g_ready_queue' \in QueueType
<1>1. prio' \in [Task -> Prio] /\ g_ready_queue \in QueueType
  BY DEF CoreTypeOK, QueueType
<1>2. Place(task_state', prio') = Place(task_state, prio)
  BY DEF Place, CoreTypeOK
<1> QED
  BY <1>1, <1>2, PlaceOfReady, ReadyFromPlace
-----------------------------------------------------------------------------
(***************************************************************************)
(* The tick list and the lists of waiters.                                 *)
(***************************************************************************)
\* Reduction modulo the range of tick_t gives a tick_t.
LEMMA ModRange ==
  ASSUME NEW n \in Nat \ {0}, NEW x \in Int
  PROVE  x % n \in 0 .. n - 1
  OBVIOUS

\* tick_list_insert adds a task, once.
LEMMA TickInsert ==
  ASSUME CoreTypeOK, TickListOK, NEW t \in Task, t \notin ToSet(g_tick_head),
         NEW time \in 0 .. TickMod - 1, tick_list_insert(t, time)
  PROVE  /\ g_tick_head' \in Seq(Task) /\ IsInjective(g_tick_head')
         /\ ToSet(g_tick_head') = ToSet(g_tick_head) \cup {t}
         /\ tick_match' \in [Task -> 0 .. TickMod - 1]
<1> DEFINE s == g_tick_head
           I == {i \in DOMAIN s : TicksUntil(tick_match[s[i]]) > time}
<1>1. s \in Seq(Task) /\ IsInjective(s) /\ I \subseteq DOMAIN s
  BY DEF CoreTypeOK, TickListOK
<1>2. g_tick_head' = klist_insert(s, ScanStop(s, I), t)
  BY DEF tick_list_insert
<1> HIDE DEF s, I
<1>3. ScanStop(s, I) \in 1 .. Len(s) + 1
  BY <1>1, ScanStopRange
<1>4. /\ klist_insert(s, ScanStop(s, I), t) \in Seq(Task)
      /\ ToSet(klist_insert(s, ScanStop(s, I), t)) = ToSet(s) \cup {t}
      /\ IsInjective(klist_insert(s, ScanStop(s, I), t))
  BY <1>1, <1>3, InsertProperties DEF s
<1>5. (g_tick_count + time) % TickMod \in 0 .. TickMod - 1
  BY ModRange, TickAssumption DEF CoreTypeOK
<1>6. tick_match' \in [Task -> 0 .. TickMod - 1]
  BY <1>5 DEF tick_list_insert, CoreTypeOK
<1> QED
  BY <1>2, <1>4, <1>6 DEF s

\* tick_list_rm takes a task off, whether it is on the list or not.
LEMMA TickRm ==
  ASSUME CoreTypeOK, TickListOK, NEW t \in Task, tick_list_rm(t)
  PROVE  /\ g_tick_head' \in Seq(Task) /\ IsInjective(g_tick_head')
         /\ ToSet(g_tick_head') = ToSet(g_tick_head) \ {t}
         /\ tick_match' \in [Task -> 0 .. TickMod - 1]
<1>1. g_tick_head \in Seq(Task) /\ IsInjective(g_tick_head)
  BY DEF CoreTypeOK, TickListOK
<1>2. tick_match' \in [Task -> 0 .. TickMod - 1]
  <2>1. 0 \in 0 .. TickMod - 1 /\ tick_match \in [Task -> 0 .. TickMod - 1]
    BY TickAssumption DEF CoreTypeOK
  <2> QED
    BY <2>1 DEF tick_list_rm
<1>3. CASE t \in ToSet(g_tick_head)
  BY <1>1, <1>2, <1>3, RmProperties DEF tick_list_rm
<1>4. CASE t \notin ToSet(g_tick_head)
  BY <1>1, <1>2, <1>4 DEF tick_list_rm
<1> QED
  BY <1>3, <1>4

\* pend_list_add adds a task, once, whatever the priorities.
LEMMA PendAdd ==
  ASSUME NEW s \in Seq(Task), NEW t \in Task, NEW pri, IsInjective(s), t \notin ToSet(s)
  PROVE  /\ pend_list_add(s, t, pri) \in Seq(Task) /\ IsInjective(pend_list_add(s, t, pri))
         /\ ToSet(pend_list_add(s, t, pri)) = ToSet(s) \cup {t}
<1> DEFINE I == {i \in DOMAIN s : pri[s[i]] > pri[t]}
<1>1. I \subseteq DOMAIN s /\ pend_list_add(s, t, pri) = klist_insert(s, ScanStop(s, I), t)
  BY DEF pend_list_add
<1> HIDE DEF I
<1>2. ScanStop(s, I) \in 1 .. Len(s) + 1
  BY <1>1, ScanStopRange
<1> QED
  BY <1>1, <1>2, InsertProperties

\* The end of a wait takes a task off the list of its object.
LEMMA WaitRm ==
  ASSUME CoreTypeOK, WaitListsOK, BlkObjOK, NEW t \in Task, task_state[t] \in PendStates,
         blk_list' = [blk_list EXCEPT ![blk_obj[t]] = klist_rm(@, t)]
  PROVE  /\ blk_list' \in [Obj -> Seq(Task)]
         /\ \A o \in Obj : IsInjective(blk_list'[o]) /\ ToSet(blk_list'[o]) = ToSet(blk_list[o]) \ {t}
<1> DEFINE x == blk_obj[t]
           s == blk_list[x]
<1>1. /\ x \in Obj /\ blk_list \in [Obj -> Seq(Task)]
      /\ s \in Seq(Task) /\ IsInjective(s) /\ t \in ToSet(s)
      /\ \A o \in Obj : IsInjective(blk_list[o])
      /\ \A o \in Obj \ {x} : t \notin ToSet(blk_list[o])
  BY DEF CoreTypeOK, WaitListsOK, BlkObjOK
<1>2. blk_list' = [blk_list EXCEPT ![x] = klist_rm(s, t)]
  BY <1>1
<1> HIDE DEF x, s
<1>3. /\ klist_rm(s, t) \in Seq(Task) /\ IsInjective(klist_rm(s, t))
      /\ ToSet(klist_rm(s, t)) = ToSet(s) \ {t}
  BY <1>1, RmProperties
<1> QED
  BY <1>1, <1>2, <1>3 DEF s

\* A task that waits for nothing is put on the list of an object.
LEMMA WaitAdd ==
  ASSUME CoreTypeOK, WaitListsOK, NEW t \in Task, task_state[t] \notin PendStates,
         NEW x \in Obj, blk_list' = [blk_list EXCEPT ![x] = pend_list_add(@, t, prio)]
  PROVE  /\ blk_list' \in [Obj -> Seq(Task)]
         /\ \A o \in Obj : IsInjective(blk_list'[o])
         /\ ToSet(blk_list'[x]) = ToSet(blk_list[x]) \cup {t}
         /\ \A o \in Obj \ {x} : blk_list'[o] = blk_list[o]
<1> DEFINE s == blk_list[x]
<1>1. /\ blk_list \in [Obj -> Seq(Task)]
      /\ s \in Seq(Task) /\ IsInjective(s) /\ t \notin ToSet(s)
      /\ \A o \in Obj : IsInjective(blk_list[o])
  BY DEF CoreTypeOK, WaitListsOK
<1>2. blk_list' = [blk_list EXCEPT ![x] = pend_list_add(s, t, prio)]
  OBVIOUS
<1> HIDE DEF s
<1>3. /\ pend_list_add(s, t, prio) \in Seq(Task) /\ IsInjective(pend_list_add(s, t, prio))
      /\ ToSet(pend_list_add(s, t, prio)) = ToSet(s) \cup {t}
  BY <1>1, PendAdd
<1> QED
  BY <1>1, <1>2, <1>3 DEF s

\* pend_list_reorder keeps the waiters of every object.
LEMMA WaitReorder ==
  ASSUME CoreTypeOK, WaitListsOK, BlkObjOK, NEW t \in Task, task_state[t] \in PendStates,
         NEW pri, blk_list' = pend_list_reorder(t, pri)
  PROVE  /\ blk_list' \in [Obj -> Seq(Task)]
         /\ \A o \in Obj : IsInjective(blk_list'[o]) /\ ToSet(blk_list'[o]) = ToSet(blk_list[o])
<1> DEFINE x == blk_obj[t]
           s == blk_list[x]
           r == klist_rm(s, t)
<1>1. /\ x \in Obj /\ blk_list \in [Obj -> Seq(Task)]
      /\ s \in Seq(Task) /\ IsInjective(s) /\ t \in ToSet(s)
      /\ \A o \in Obj : IsInjective(blk_list[o])
  BY DEF CoreTypeOK, WaitListsOK, BlkObjOK
<1>2. blk_list' = [blk_list EXCEPT ![x] = pend_list_add(r, t, pri)]
  BY <1>1 DEF pend_list_reorder
<1> HIDE DEF x, s
<1>3. r \in Seq(Task) /\ IsInjective(r) /\ ToSet(r) = ToSet(s) \ {t}
  BY <1>1, RmProperties
<1> HIDE DEF r
<1>4. /\ pend_list_add(r, t, pri) \in Seq(Task) /\ IsInjective(pend_list_add(r, t, pri))
      /\ ToSet(pend_list_add(r, t, pri)) = ToSet(s)
  <2>1. t \notin ToSet(r) /\ ToSet(r) \cup {t} = ToSet(s)
    BY <1>1, <1>3
  <2> QED
    BY <1>3, <2>1, PendAdd
<1> QED
  BY <1>1, <1>2, <1>4 DEF s

\* A rotation of one of the lists.
LEMMA RotateReady ==
  ASSUME CoreTypeOK, ReadyQueueOK, NEW p \in Prio, g_ready_queue.cur_list_item[p] # << >>,
         task_state' = task_state, prio' = prio,
         g_ready_queue' = ready_list_head_to_tail(g_ready_queue, p)
  PROVE  ReadyQueueOK' /\ g_ready_queue' \in QueueType
<1>1. prio' \in [Task -> Prio]
  BY DEF CoreTypeOK
<1>2. QueueOK(g_ready_queue', Place(task_state, prio))
  BY PlaceOfReady, RotateQueue
<1> QED
  BY <1>1, <1>2, ReadyFromPlace

\* A ready task waits for nothing.
LEMMA ReadyIsFree ==
  ASSUME TickListOK, BlkObjOK, NEW t \in Task, task_state[t] = "K_RDY"
  PROVE  blk_obj[t] = NoObj /\ t \notin ToSet(g_tick_head)
  BY DEF TickListOK, BlkObjOK, PendStates, SleepStates

\* The scheduler switches to a ready task, or stays where it is.
LEMMA SwitchOK ==
  ASSUME CoreTypeOK, ReadyQueueOK
  PROVE  /\ SwitchTo \in Task
         /\ g_sched_lock > 0 => SwitchTo = g_active_task
         /\ ~(g_sched_lock > 0) => task_state[SwitchTo] = "K_RDY"
<1> DEFINE u == preferred_cpu_ready_task_get(g_ready_queue)
<1>1. u \in Task /\ Place(task_state, prio)[u] \in Prio
  BY PlaceOfReady, PreferredTask
<1>2. prio \in [Task -> Prio] /\ PriMax \notin Prio
  BY PriAssumption DEF CoreTypeOK, Prio
<1> HIDE DEF u
<1>3. task_state[u] = "K_RDY"
  BY <1>1, <1>2, PlaceMeaning
<1> QED
  BY <1>1, <1>3 DEF SwitchTo, CoreTypeOK, u

\* The lists are what they were.
LEMMA ListsKept ==
  ASSUME ListInv, UNCHANGED <<tcbVars, queueVars>>
  PROVE  ListInv'
  BY DEF ListInv, ReadyQueueOK, WaitListsOK, TickListOK, SuspendCountOK, IdleOK, BlkObjOK,
         tcbVars, queueVars
-----------------------------------------------------------------------------
(***************************************************************************)
(* Every step of the core keeps the invariant.  First the steps that leave *)
(* the lists alone.                                                        *)
(***************************************************************************)
\* core_sched switches to a ready task, or not at all while the scheduler is
\* locked, and leaves every list alone.
LEMMA core_sched_Inv ==
  ASSUME CoreInv, core_sched PROVE CoreInv'
<1>1. /\ SwitchTo \in Task
      /\ g_sched_lock > 0 => SwitchTo = g_active_task
      /\ ~(g_sched_lock > 0) => task_state[SwitchTo] = "K_RDY"
  BY SwitchOK DEF CoreInv, ListInv
<1>2. CoreTypeOK'
  BY <1>1 DEF CoreInv, CoreTypeOK, core_sched, tcbVars, rrVars, queueVars
<1>3. ListInv'
  BY ListsKept DEF CoreInv, core_sched, tcbVars, queueVars
<1>4. task_state[SwitchTo] = "K_RDY"
  BY <1>1 DEF CoreInv, CallInv, LockHolderReady
<1>5. blk_obj[SwitchTo] = NoObj /\ SwitchTo \notin ToSet(g_tick_head)
  BY <1>1, <1>4, ReadyIsFree DEF CoreInv, ListInv
<1>6. CallInv'
  BY <1>1, <1>4, <1>5 DEF CoreInv, CoreTypeOK, CallInv, RunsOnlyReady, LockHolderReady, PriArgOK,
     core_sched, tcbVars, queueVars
<1> QED
  BY <1>2, <1>3, <1>6 DEF CoreInv

\* Reading blk_state after a wait disturbs none of the core.
LEMMA pend_state_end_proc_Inv ==
  ASSUME CoreInv, pend_state_end_proc PROVE CoreInv'
<1>1. CoreTypeOK'
  BY DEF CoreInv, CoreTypeOK, pend_state_end_proc, tcbVars, rrVars, queueVars, cpuVars
<1>2. ListInv'
  BY ListsKept DEF CoreInv, pend_state_end_proc, tcbVars, queueVars
<1>3. CallInv'
  BY DEF CoreInv, CoreTypeOK, CallInv, RunsOnlyReady, LockHolderReady, PriArgOK,
     pend_state_end_proc, tcbVars, queueVars, cpuVars
<1> QED
  BY <1>1, <1>2, <1>3 DEF CoreInv

\* An interrupt enters without touching the lists.
LEMMA krhino_intrpt_enter_Inv ==
  ASSUME CoreInv, NEW kind \in {"tick", "dev"}, krhino_intrpt_enter(kind) PROVE CoreInv'
<1>1. CoreTypeOK'
  BY DEF CoreInv, CoreTypeOK, krhino_intrpt_enter, tcbVars, rrVars, queueVars, callVars
<1>2. ListInv'
  BY ListsKept DEF CoreInv, krhino_intrpt_enter, tcbVars, queueVars
<1>3. CallInv'
  BY DEF CoreInv, CallInv, RunsOnlyReady, LockHolderReady, PriArgOK,
     krhino_intrpt_enter, tcbVars, queueVars, callVars
<1> QED
  BY <1>1, <1>2, <1>3 DEF CoreInv

\* The exit of an interrupt switches to a ready task under the same conditions
\* as core_sched.
LEMMA krhino_intrpt_exit_Inv ==
  ASSUME CoreInv, krhino_intrpt_exit PROVE CoreInv'
<1>1. /\ SwitchTo \in Task
      /\ g_sched_lock > 0 => SwitchTo = g_active_task
      /\ ~(g_sched_lock > 0) => task_state[SwitchTo] = "K_RDY"
  BY SwitchOK DEF CoreInv, ListInv
<1>2. CoreTypeOK'
  BY <1>1 DEF CoreInv, CoreTypeOK, krhino_intrpt_exit, tcbVars, rrVars, queueVars, callVars
<1>3. ListInv'
  BY ListsKept DEF CoreInv, krhino_intrpt_exit, tcbVars, queueVars
<1>4. task_state[SwitchTo] = "K_RDY"
  BY <1>1 DEF CoreInv, CallInv, LockHolderReady
<1>5. blk_obj[SwitchTo] = NoObj /\ SwitchTo \notin ToSet(g_tick_head)
  BY <1>1, <1>4, ReadyIsFree DEF CoreInv, ListInv
<1>6. CallInv'
  BY <1>1, <1>4, <1>5 DEF CoreInv, CallInv, RunsOnlyReady, LockHolderReady, PriArgOK,
     krhino_intrpt_exit, tcbVars, queueVars, callVars
<1> QED
  BY <1>2, <1>3, <1>6 DEF CoreInv

\* Counting a tick, modulo the range of tick_t, leaves the lists alone.
LEMMA tick_list_update_Inv ==
  ASSUME CoreInv, tick_list_update PROVE CoreInv'
<1>1. g_tick_count' \in 0 .. TickMod - 1
  BY ModRange, TickAssumption DEF CoreInv, CoreTypeOK, tick_list_update
<1>2. CoreTypeOK'
  BY <1>1 DEF CoreInv, CoreTypeOK, tick_list_update, tcbVars, rrVars, queueVars, cpuVars, callVars
<1>3. ListInv'
  BY ListsKept DEF CoreInv, tick_list_update, tcbVars, queueVars
<1>4. CallInv'
  BY DEF CoreInv, CallInv, RunsOnlyReady, LockHolderReady, PriArgOK,
     tick_list_update, tcbVars, queueVars, cpuVars, callVars
<1> QED
  BY <1>2, <1>3, <1>4 DEF CoreInv

\* The end of the loop of the tick handler leaves the lists alone.
LEMMA tick_list_done_Inv ==
  ASSUME CoreInv, tick_list_done PROVE CoreInv'
<1>1. CoreTypeOK'
  BY DEF CoreInv, CoreTypeOK, tick_list_done, tcbVars, rrVars, queueVars, callVars
<1>2. ListInv'
  BY ListsKept DEF CoreInv, tick_list_done, tcbVars, queueVars
<1>3. CallInv'
  BY DEF CoreInv, CallInv, RunsOnlyReady, LockHolderReady, PriArgOK,
     tick_list_done, tcbVars, queueVars, callVars
<1> QED
  BY <1>1, <1>2, <1>3 DEF CoreInv

\* krhino_sched_disable is called by a ready task, which therefore holds the
\* lock; krhino_sched_enable gives it back.
LEMMA LockService_Inv ==
  ASSUME CoreInv, LockService PROVE CoreInv'
<1>1. UNCHANGED <<tcbVars, rrVars, queueVars, g_tick_count, g_active_task, isr, intrpt_off, arg, crit>>
  BY DEF LockService, krhino_sched_disable, krhino_sched_enable, RHINO_CRITICAL_EXIT_SCHED, callVars
<1>2. /\ isr = "none" /\ crit = NoCrit /\ pc[g_active_task] = "user"
      /\ pc' = pc \/ pc' = [pc EXCEPT ![g_active_task] = "sched"]
  BY DEF LockService, krhino_sched_disable, krhino_sched_enable, RHINO_CRITICAL_EXIT_SCHED,
     TaskCall, callVars
<1>3. g_sched_lock' \in 0 .. MaxLock
  BY BoundAssumption, SMTT(20) DEF CoreInv, CoreTypeOK, LockService, krhino_sched_disable, krhino_sched_enable
<1>4. CoreTypeOK'
  BY <1>1, <1>2, <1>3 DEF CoreInv, CoreTypeOK, tcbVars, rrVars, queueVars
<1>5. ListInv'
  BY <1>1, ListsKept DEF CoreInv, tcbVars, queueVars
<1>6. CallInv'
  BY <1>1, <1>2 DEF CoreInv, CoreTypeOK, CallInv, RunsOnlyReady, LockHolderReady, PriArgOK,
     tcbVars, queueVars
<1> QED
  BY <1>4, <1>5, <1>6 DEF CoreInv

\* The refused deletion of the idle task changes the interrupt mask only.
LEMMA task_del_idle_Inv ==
  ASSUME CoreInv, task_del_idle PROVE CoreInv'
<1>1. CoreTypeOK'
  BY DEF CoreInv, CoreTypeOK, task_del_idle, tcbVars, rrVars, queueVars, callVars
<1>2. ListInv'
  BY ListsKept DEF CoreInv, task_del_idle, tcbVars, queueVars
<1>3. CallInv'
  BY DEF CoreInv, CallInv, RunsOnlyReady, LockHolderReady, PriArgOK,
     task_del_idle, tcbVars, queueVars, callVars
<1> QED
  BY <1>1, <1>2, <1>3 DEF CoreInv

\* Changing the policy or the time slice of a task leaves the lists alone.
LEMMA RRService_Inv ==
  ASSUME CoreInv, RRService PROVE CoreInv'
<1>1. UNCHANGED <<tcbVars, queueVars, g_tick_count, cpuVars, callVars, crit>>
  BY DEF RRService, krhino_task_time_slice_set, krhino_sched_policy_set
<1>2. /\ time_slice' \in [Task -> 0 .. TimeSlice] /\ time_total' \in [Task -> 1 .. TimeSlice]
      /\ sched_policy' \in [Task -> {"KSCHED_FIFO", "KSCHED_RR"}]
  <2>1. /\ time_slice \in [Task -> 0 .. TimeSlice] /\ time_total \in [Task -> 1 .. TimeSlice]
        /\ sched_policy \in [Task -> {"KSCHED_FIFO", "KSCHED_RR"}]
    BY DEF CoreInv, CoreTypeOK
  <2>2. ASSUME NEW t \in Task, NEW slice \in 0 .. TimeSlice, krhino_task_time_slice_set(t, slice)
        PROVE  /\ time_slice' \in [Task -> 0 .. TimeSlice] /\ time_total' \in [Task -> 1 .. TimeSlice]
               /\ sched_policy' = sched_policy
    <3>1. (IF slice > 0 THEN slice ELSE TimeSlice) \in 1 .. TimeSlice
      BY BoundAssumption
    <3>2. (IF slice > 0 THEN slice ELSE TimeSlice) \in 0 .. TimeSlice
      BY BoundAssumption
    <3> QED
      BY <2>1, <2>2, <3>1, <3>2 DEF krhino_task_time_slice_set
  <2>3. ASSUME NEW t \in Task, NEW policy \in {"KSCHED_FIFO", "KSCHED_RR"}, krhino_sched_policy_set(t, policy)
        PROVE  /\ time_slice' = time_slice /\ time_total' = time_total
               /\ sched_policy' \in [Task -> {"KSCHED_FIFO", "KSCHED_RR"}]
    BY <2>1, <2>3 DEF krhino_sched_policy_set
  <2> QED
    BY <2>1, <2>2, <2>3 DEF RRService
<1>3. CoreTypeOK'
  BY <1>1, <1>2 DEF CoreInv, CoreTypeOK, tcbVars, queueVars, cpuVars, callVars
<1>4. ListInv'
  BY <1>1, ListsKept DEF CoreInv, tcbVars, queueVars
<1>5. CallInv'
  BY <1>1 DEF CoreInv, CallInv, RunsOnlyReady, LockHolderReady, PriArgOK,
     tcbVars, queueVars, cpuVars, callVars
<1> QED
  BY <1>3, <1>4, <1>5 DEF CoreInv

\* The checks that krhino_task_pri_change makes outside of its critical section
\* admit priorities of application tasks only.
LEMMA krhino_task_pri_change_Inv ==
  ASSUME CoreInv, NEW t \in Task, NEW p \in Prio, krhino_task_pri_change(t, p) PROVE CoreInv'
<1>1. <<t, p>> \in (Task \ {Idle}) \X (0 .. IDLE_PRI - 1)
  <2>1. prio[t] < IDLE_PRI /\ p < IDLE_PRI /\ prio[Idle] = IDLE_PRI /\ IDLE_PRI \in Int
    BY PriAssumption DEF CoreInv, ListInv, IdleOK, krhino_task_pri_change, IDLE_PRI
  <2>2. t # Idle
    BY <2>1
  <2>3. p \in 0 .. IDLE_PRI - 1
    BY <2>1 DEF Prio
  <2> QED
    BY <2>2, <2>3
<1>2. CoreTypeOK'
  BY DEF CoreInv, CoreTypeOK, krhino_task_pri_change, tcbVars, rrVars, queueVars, cpuVars
<1>3. ListInv'
  BY ListsKept DEF CoreInv, krhino_task_pri_change, tcbVars, queueVars
<1>4. PriArgOK'
  BY <1>1 DEF CoreInv, CoreTypeOK, CallInv, PriArgOK, krhino_task_pri_change
<1>5. RunsOnlyReady' /\ LockHolderReady'
  BY DEF CoreInv, CoreTypeOK, CallInv, RunsOnlyReady, LockHolderReady,
     krhino_task_pri_change, TaskCall, tcbVars, queueVars, cpuVars
<1> QED
  BY <1>2, <1>3, <1>4, <1>5 DEF CoreInv, CallInv
-----------------------------------------------------------------------------
(***************************************************************************)
(* The steps that change lists.                                            *)
(***************************************************************************)
\* Only the ready queue changes, and by a rotation.
LEMMA ListsRotated ==
  ASSUME CoreTypeOK, ListInv, NEW p \in Prio, g_ready_queue.cur_list_item[p] # << >>,
         UNCHANGED <<tcbVars, blk_list, g_tick_head>>,
         g_ready_queue' = ready_list_head_to_tail(g_ready_queue, p)
  PROVE  ListInv' /\ g_ready_queue' \in QueueType
<1>1. ReadyQueueOK' /\ g_ready_queue' \in QueueType
  BY RotateReady DEF ListInv, tcbVars
<1>2. (WaitListsOK /\ TickListOK /\ SuspendCountOK /\ IdleOK /\ BlkObjOK)'
  BY DEF ListInv, WaitListsOK, TickListOK, SuspendCountOK, IdleOK, BlkObjOK, tcbVars
<1> QED
  BY <1>1, <1>2 DEF ListInv

\* time_slice_update rotates the list of the running task or leaves it.
LEMMA time_slice_update_Inv ==
  ASSUME CoreInv, time_slice_update PROVE CoreInv'
<1> DEFINE p    == prio[g_active_task]
           list == g_ready_queue.cur_list_item[p]
           t    == Head(list)
           left == IF time_slice[t] > 0 THEN time_slice[t] - 1 ELSE 0
<1>1. p \in Prio /\ list \in Seq(Task) /\ isr' = "exit"
  BY DEF CoreInv, CoreTypeOK, time_slice_update
<1>2. UNCHANGED <<tcbVars, time_total, sched_policy, blk_list, g_tick_head, g_tick_count,
                  g_active_task, g_sched_lock, intrpt_off, callVars, crit>>
  BY DEF time_slice_update
<1>3. CASE UNCHANGED <<time_slice, g_ready_queue>>
  <2>1. CoreTypeOK'
    BY <1>1, <1>2, <1>3 DEF CoreInv, CoreTypeOK, tcbVars, callVars
  <2>2. ListInv'
    BY <1>2, <1>3, ListsKept DEF CoreInv, queueVars
  <2> QED
    BY <1>1, <1>2, <2>1, <2>2 DEF CoreInv, CallInv, RunsOnlyReady, LockHolderReady, PriArgOK,
       tcbVars, callVars
<1>4. CASE ~UNCHANGED <<time_slice, g_ready_queue>>
  <2>1. /\ ~(Len(list) < 2)
        /\ time_slice' = [time_slice EXCEPT ![t] = IF left > 0 THEN left ELSE time_total[t]]
        /\ g_ready_queue' = IF left > 0 THEN g_ready_queue
                            ELSE ready_list_head_to_tail(g_ready_queue, p)
    BY <1>4 DEF time_slice_update
  <2>2. list # << >>
    BY <1>1, <2>1
  <2>3. t \in Task
    BY <1>1, <2>2
  <2>4. time_slice' \in [Task -> 0 .. TimeSlice]
    <3>1. time_slice[t] \in 0 .. TimeSlice /\ time_total[t] \in 1 .. TimeSlice
      BY <2>3 DEF CoreInv, CoreTypeOK
    <3>2. (IF left > 0 THEN left ELSE time_total[t]) \in 0 .. TimeSlice
      BY <3>1, BoundAssumption
    <3> QED
      BY <2>1, <2>3, <3>2 DEF CoreInv, CoreTypeOK
  <2>5. ListInv' /\ g_ready_queue' \in QueueType
    <3>1. CASE left > 0
      <4>1. UNCHANGED g_ready_queue /\ g_ready_queue \in QueueType
        BY <2>1, <3>1 DEF CoreInv, CoreTypeOK, QueueType
      <4> QED
        BY <1>2, <4>1, ListsKept DEF CoreInv, queueVars
    <3>2. CASE ~(left > 0)
      BY <1>1, <1>2, <2>1, <2>2, <3>2, ListsRotated DEF CoreInv
    <3> QED
      BY <3>1, <3>2
  <2>6. CoreTypeOK'
    BY <1>1, <1>2, <2>4, <2>5 DEF CoreInv, CoreTypeOK, QueueType, tcbVars, callVars
  <2> QED
    BY <1>1, <1>2, <2>5, <2>6 DEF CoreInv, CallInv, RunsOnlyReady, LockHolderReady, PriArgOK,
       tcbVars, callVars
<1> QED
  BY <1>3, <1>4

\* A task that makes a call is ready, so it is on its list.
LEMMA CallerReady ==
  ASSUME CoreInv, NEW api, TaskCall(api)
  PROVE  /\ g_active_task \in Task \ {Idle} /\ task_state[g_active_task] = "K_RDY"
         /\ blk_obj[g_active_task] = NoObj /\ g_active_task \notin ToSet(g_tick_head)
         /\ isr = "none" /\ crit = NoCrit /\ pc[g_active_task] = "user"
  BY DEF CoreInv, CoreTypeOK, CallInv, RunsOnlyReady, TaskCall

\* krhino_task_yield rotates the list of its caller.
LEMMA krhino_task_yield_Inv ==
  ASSUME CoreInv, krhino_task_yield PROVE CoreInv'
<1> DEFINE p == prio[g_active_task]
<1>1. /\ g_active_task \in Task \ {Idle} /\ task_state[g_active_task] = "K_RDY"
      /\ isr = "none" /\ crit = NoCrit
  BY CallerReady DEF krhino_task_yield
<1>2. p \in Prio /\ g_ready_queue.cur_list_item[p] # << >>
  <2>1. p \in Prio /\ g_active_task \in ToSet(g_ready_queue.cur_list_item[p])
    BY <1>1 DEF CoreInv, CoreTypeOK, ListInv, ReadyQueueOK
  <2>2. ToSet(<< >>) = {}
    BY DEF ToSet
  <2> QED
    BY <2>1, <2>2
<1>3. /\ UNCHANGED <<tcbVars, rrVars, blk_list, g_tick_head, g_tick_count, cpuVars, crit, arg>>
      /\ g_ready_queue' = ready_list_head_to_tail(g_ready_queue, p)
      /\ pc' = [pc EXCEPT ![g_active_task] = "sched"]
  BY <1>1 DEF krhino_task_yield, RHINO_CRITICAL_EXIT_SCHED
<1>4. ListInv' /\ g_ready_queue' \in QueueType
  BY <1>2, <1>3, ListsRotated DEF CoreInv
<1>5. CoreTypeOK'
  BY <1>3, <1>4 DEF CoreInv, CoreTypeOK, QueueType, tcbVars, rrVars, cpuVars
<1>6. CallInv'
  BY <1>1, <1>3 DEF CoreInv, CoreTypeOK, CallInv, RunsOnlyReady, LockHolderReady, PriArgOK,
     tcbVars, cpuVars
<1> QED
  BY <1>4, <1>5, <1>6 DEF CoreInv

\* krhino_task_sleep moves its caller from the ready queue to the tick list, and
\* is refused while the scheduler is locked.
LEMMA krhino_task_sleep_Inv ==
  ASSUME CoreInv, NEW ticks \in Ticks, krhino_task_sleep(ticks) PROVE CoreInv'
<1> DEFINE t == g_active_task
<1>1. /\ t \in Task \ {Idle} /\ task_state[t] = "K_RDY" /\ t \notin ToSet(g_tick_head)
      /\ isr = "none" /\ crit = NoCrit /\ pc[t] = "user" /\ blk_obj[t] = NoObj
  BY CallerReady DEF krhino_task_sleep
<1>2. /\ task_state' = [task_state EXCEPT ![t] = "K_SLEEP"]
      /\ tick_list_insert(t, ticks)
      /\ g_ready_queue' = ready_list_rm(g_ready_queue, t, prio[t])
      /\ pc' = [pc EXCEPT ![t] = "pend_sched"] /\ arg' = [arg EXCEPT ![t] = NoArg]
      /\ UNCHANGED <<prio, suspend_count, blk_state, blk_obj, rrVars, blk_list, g_tick_count, cpuVars, crit>>
      /\ g_sched_lock = 0
  BY DEF krhino_task_sleep, PendExitSched, MayStop
<1>3. ticks \in 0 .. TickMod - 1
  BY TickAssumption
<1>4. /\ g_tick_head' \in Seq(Task) /\ IsInjective(g_tick_head')
      /\ ToSet(g_tick_head') = ToSet(g_tick_head) \cup {t}
      /\ tick_match' \in [Task -> 0 .. TickMod - 1]
  BY <1>1, <1>2, <1>3, TickInsert DEF CoreInv, ListInv
<1>5. ReadyQueueOK' /\ g_ready_queue' \in QueueType
  BY <1>1, <1>2, LoseReady DEF CoreInv, ListInv
<1>6. CoreTypeOK'
  BY <1>1, <1>2, <1>4, <1>5 DEF CoreInv, CoreTypeOK, QueueType, TaskState, rrVars, cpuVars
<1>7. WaitListsOK'
  BY <1>1, <1>2 DEF CoreInv, CoreTypeOK, ListInv, WaitListsOK, PendStates
<1>8. TickListOK'
  BY <1>1, <1>2, <1>4 DEF CoreInv, CoreTypeOK, ListInv, TickListOK, PendStates, SleepStates
<1>9. (SuspendCountOK /\ IdleOK /\ BlkObjOK)'
  BY <1>1, <1>2 DEF CoreInv, CoreTypeOK, ListInv, SuspendCountOK, IdleOK, BlkObjOK, SuspendStates,
     PendStates, SleepStates
<1>10. CallInv'
  BY <1>1, <1>2 DEF CoreInv, CoreTypeOK, CallInv, RunsOnlyReady, LockHolderReady, PriArgOK, cpuVars
<1> QED
  BY <1>5, <1>6, <1>7, <1>8, <1>9, <1>10 DEF CoreInv, ListInv

\* The end of a sleep takes a task off the tick list and makes it ready, or
\* leaves it suspended.
LEMMA tick_sleep_end_Inv ==
  ASSUME CoreInv, NEW t \in Task, tick_sleep_end(t) PROVE CoreInv'
<1>1. /\ crit.op = "tick" /\ task_state[t] \in SleepStates
      /\ blk_state' = [blk_state EXCEPT ![t] = "BLK_FINISH"]
      /\ task_state' = [task_state EXCEPT ![t] =
                          IF task_state[t] = "K_SLEEP" THEN "K_RDY" ELSE "K_SUSPENDED"]
      /\ tick_list_rm(t)
      /\ g_ready_queue' = IF task_state[t] = "K_SLEEP"
                          THEN ready_list_add(g_ready_queue, t, prio[t])
                          ELSE g_ready_queue
      /\ UNCHANGED <<prio, suspend_count, blk_obj, rrVars, blk_list, g_tick_count, cpuVars, callVars, crit>>
  BY DEF tick_sleep_end, CoreInv, CoreTypeOK
<1>2. /\ g_tick_head' \in Seq(Task) /\ IsInjective(g_tick_head')
      /\ ToSet(g_tick_head') = ToSet(g_tick_head) \ {t}
      /\ tick_match' \in [Task -> 0 .. TickMod - 1]
  BY <1>1, TickRm DEF CoreInv, ListInv
<1>3. prio' = [prio EXCEPT ![t] = prio[t]] /\ prio[t] \in Prio
  BY <1>1 DEF CoreInv, CoreTypeOK
<1>4. ReadyQueueOK' /\ g_ready_queue' \in QueueType
  <2>1. CASE task_state[t] = "K_SLEEP"
    <3>1. g_ready_queue' \in {ready_list_add_tail(g_ready_queue, t, prio[t]),
                              ready_list_add_head(g_ready_queue, t, prio[t])}
      BY <1>1, <2>1 DEF ready_list_add
    <3>2. task_state' = [task_state EXCEPT ![t] = "K_RDY"] /\ task_state[t] # "K_RDY"
      BY <1>1, <2>1
    <3> QED
      BY <1>3, <3>1, <3>2, GainReady DEF CoreInv, ListInv
  <2>2. CASE task_state[t] = "K_SLEEP_SUSPENDED"
    <3>1. /\ task_state' = [task_state EXCEPT ![t] = "K_SUSPENDED"] /\ task_state[t] # "K_RDY"
          /\ g_ready_queue' = g_ready_queue
      BY <1>1, <2>2
    <3> QED
      BY <1>3, <3>1, StayUnready DEF CoreInv, ListInv
  <2> QED
    BY <1>1, <2>1, <2>2 DEF SleepStates
<1>5. CoreTypeOK'
  BY <1>1, <1>2, <1>4 DEF CoreInv, CoreTypeOK, QueueType, TaskState, BlkState, rrVars, cpuVars, callVars
<1>6. WaitListsOK'
  <2>1. \A u \in Task : task_state'[u] \in PendStates <=> task_state[u] \in PendStates
    BY <1>1 DEF CoreInv, CoreTypeOK, PendStates, SleepStates
  <2> QED
    BY <1>1, <2>1 DEF CoreInv, ListInv, WaitListsOK
<1>7. TickListOK'
  BY <1>1, <1>2 DEF CoreInv, CoreTypeOK, ListInv, TickListOK, PendStates, SleepStates
<1>8. (SuspendCountOK /\ IdleOK /\ BlkObjOK)'
  <2>1. /\ task_state'[t] \in {"K_RDY", "K_SUSPENDED"}
        /\ task_state'[t] \in SuspendStates <=> task_state[t] \in SuspendStates
        /\ \A u \in Task \ {t} : task_state'[u] = task_state[u]
    BY <1>1 DEF CoreInv, CoreTypeOK, SuspendStates, SleepStates
  <2>2. SuspendCountOK'
    BY <1>1, <2>1 DEF CoreInv, ListInv, SuspendCountOK, SleepStates
  <2>3. IdleOK'
    BY <1>1, <2>1, TaskAssumption DEF CoreInv, ListInv, IdleOK, SleepStates
  <2>4. BlkObjOK'
    BY <1>1, <2>1 DEF CoreInv, ListInv, BlkObjOK, PendStates
  <2> QED
    BY <2>2, <2>3, <2>4
<1>9. CallInv'
  <2>1. crit' # NoCrit
    BY <1>1 DEF NoCrit
  <2>2. g_sched_lock > 0 => t # g_active_task
    BY <1>1 DEF CoreInv, CallInv, LockHolderReady, SleepStates
  <2>3. LockHolderReady'
    BY <1>1, <2>2 DEF CoreInv, CoreTypeOK, CallInv, LockHolderReady, cpuVars, callVars
  <2> QED
    BY <1>1, <2>1, <2>3 DEF CoreInv, CallInv, RunsOnlyReady, PriArgOK, callVars
<1> QED
  BY <1>4, <1>5, <1>6, <1>7, <1>8, <1>9 DEF CoreInv, ListInv

\* RHINO_CRITICAL_EXIT_SCHED after a step that may have made the running task
\* unready: a task owes core_sched, an interrupt handler krhino_intrpt_exit.
LEMMA SchedOwed ==
  ASSUME CoreTypeOK, CallInv, RHINO_CRITICAL_EXIT_SCHED, UNCHANGED cpuVars,
         isr = "none" => pc[g_active_task] \in {"user", "sched"},
         g_sched_lock > 0 => task_state'[g_active_task] = task_state[g_active_task]
  PROVE  CallInv' /\ (pc' \in [Task -> {"user", "sched", "pend_sched", "pend_end", "pri_change"}]) /\ arg' = arg
<1>1. /\ isr = "none" => pc' = [pc EXCEPT ![g_active_task] = "sched"]
      /\ isr # "none" => pc' = pc
      /\ arg' = arg
  BY DEF RHINO_CRITICAL_EXIT_SCHED
<1>2. pc' \in [Task -> {"user", "sched", "pend_sched", "pend_end", "pri_change"}]
  BY <1>1 DEF CoreTypeOK
<1>3. RunsOnlyReady'
  BY <1>1 DEF CoreTypeOK, CallInv, RunsOnlyReady, cpuVars
<1>4. LockHolderReady'
  BY <1>1 DEF CoreTypeOK, CallInv, LockHolderReady, cpuVars
<1>5. PriArgOK'
  BY <1>1, SMTT(20) DEF CoreTypeOK, CallInv, PriArgOK, cpuVars
<1> QED
  BY <1>1, <1>2, <1>3, <1>4, <1>5 DEF CallInv

\* krhino_task_suspend takes a ready task off the queue, counts suspensions, and
\* is refused for the lock holder while the scheduler is locked.
LEMMA krhino_task_suspend_Inv ==
  ASSUME CoreInv, NEW t \in Task, krhino_task_suspend(t) PROVE CoreInv'
<1>1. /\ UNCHANGED <<prio, blk_state, blk_obj, tick_match, rrVars, blk_list, g_tick_head,
                     g_tick_count, cpuVars, crit>>
      /\ RHINO_CRITICAL_EXIT_SCHED
      /\ isr = "none" => pc[g_active_task] = "user"
      /\ t = g_active_task => g_sched_lock = 0
      /\ t # Idle
  BY DEF krhino_task_suspend, AnyCall, TaskCall, IntrptCall, MayStop, CoreInv, ListInv, IdleOK
<1>2. prio' = [prio EXCEPT ![t] = prio[t]] /\ prio[t] \in Prio
  BY <1>1 DEF CoreInv, CoreTypeOK
<1>3. CASE /\ task_state[t] \in {"K_RDY", "K_SLEEP", "K_PEND"}
           /\ suspend_count' = [suspend_count EXCEPT ![t] = 1]
           /\ task_state'    = [task_state EXCEPT ![t] = Suspended(task_state[t])]
           /\ g_ready_queue' = IF task_state[t] = "K_RDY"
                               THEN ready_list_rm(g_ready_queue, t, prio[t])
                               ELSE g_ready_queue
  <2> DEFINE st == Suspended(task_state[t])
  <2>1. /\ task_state[t] = "K_RDY" => st = "K_SUSPENDED"
        /\ task_state[t] = "K_SLEEP" => st = "K_SLEEP_SUSPENDED"
        /\ task_state[t] = "K_PEND" => st = "K_PEND_SUSPENDED"
    BY DEF Suspended
  <2> HIDE DEF st
  <2>2. task_state' = [task_state EXCEPT ![t] = st]
    BY <1>3 DEF st
  <2>3. ReadyQueueOK' /\ g_ready_queue' \in QueueType
    <3>1. CASE task_state[t] = "K_RDY"
      BY <1>1, <1>3, <2>1, <2>2, <3>1, LoseReady DEF CoreInv, ListInv
    <3>2. CASE task_state[t] # "K_RDY"
      BY <1>2, <1>3, <2>1, <2>2, <3>2, StayUnready DEF CoreInv, ListInv
    <3> QED
      BY <3>1, <3>2
  <2>4. /\ task_state' \in [Task -> TaskState]
        /\ suspend_count' \in [Task -> 0 .. MaxSuspend]
    BY <1>3, <2>1, <2>2, BoundAssumption DEF CoreInv, CoreTypeOK, TaskState
  <2>5. (WaitListsOK /\ TickListOK /\ SuspendCountOK /\ IdleOK /\ BlkObjOK)'
    <3>1. WaitListsOK'
      <4>1. \A u \in Task : task_state'[u] \in PendStates <=> task_state[u] \in PendStates
        BY <1>3, <2>1, <2>2 DEF CoreInv, CoreTypeOK, PendStates
      <4> QED
        BY <1>1, <4>1 DEF CoreInv, ListInv, WaitListsOK
    <3>2. TickListOK'
      BY <1>1, <1>3, <2>1, <2>2 DEF CoreInv, CoreTypeOK, ListInv, TickListOK, PendStates, SleepStates
    <3>3. /\ task_state'[t] = st /\ suspend_count'[t] = 1
          /\ \A u \in Task \ {t} : task_state'[u] = task_state[u] /\ suspend_count'[u] = suspend_count[u]
      BY <1>3, <2>2 DEF CoreInv, CoreTypeOK
    <3>4. SuspendCountOK'
      BY <1>3, <2>1, <3>3 DEF CoreInv, ListInv, SuspendCountOK, SuspendStates
    <3>5. IdleOK'
      BY <1>1, <3>3, TaskAssumption DEF CoreInv, ListInv, IdleOK
    <3>6. BlkObjOK'
      BY <1>1, <1>3, <2>1, <3>3 DEF CoreInv, ListInv, BlkObjOK, PendStates, SleepStates
    <3> QED
      BY <3>1, <3>2, <3>4, <3>5, <3>6
  <2>6. /\ CallInv' /\ arg' = arg
        /\ pc' \in [Task -> {"user", "sched", "pend_sched", "pend_end", "pri_change"}]
    <3>1. g_sched_lock > 0 => task_state'[g_active_task] = task_state[g_active_task]
      BY <1>1, <2>2 DEF CoreInv, CoreTypeOK
    <3>2. isr = "none" => pc[g_active_task] \in {"user", "sched"}
      BY <1>1
    <3> QED
      BY <1>1, <3>1, <3>2, SchedOwed DEF CoreInv
  <2>7. CoreTypeOK'
    BY <1>1, <2>3, <2>4, <2>6 DEF CoreInv, CoreTypeOK, QueueType, rrVars, cpuVars
  <2> QED
    BY <2>3, <2>5, <2>6, <2>7 DEF CoreInv, ListInv
<1>4. CASE /\ task_state[t] \in SuspendStates
           /\ suspend_count[t] < MaxSuspend
           /\ suspend_count' = [suspend_count EXCEPT ![t] = suspend_count[t] + 1]
           /\ UNCHANGED <<task_state, g_ready_queue>>
  <2>1. suspend_count' \in [Task -> 0 .. MaxSuspend]
    <3>1. suspend_count \in [Task -> 0 .. MaxSuspend]
      BY DEF CoreInv, CoreTypeOK
    <3>2. suspend_count[t] + 1 \in 0 .. MaxSuspend
      BY <1>4, <3>1, BoundAssumption
    <3> QED
      BY <1>4, <3>1, <3>2
  <2>2. SuspendCountOK'
    <3>1. suspend_count[t] \in 0 .. MaxSuspend
      BY DEF CoreInv, CoreTypeOK
    <3>2. suspend_count'[t] > 0
      BY <1>4, <3>1 DEF CoreInv, CoreTypeOK
    <3> QED
      BY <1>4, <3>2 DEF CoreInv, CoreTypeOK, ListInv, SuspendCountOK
  <2>3. (ReadyQueueOK /\ WaitListsOK /\ TickListOK /\ IdleOK /\ BlkObjOK)'
    BY <1>1, <1>4 DEF CoreInv, ListInv, ReadyQueueOK, WaitListsOK, TickListOK, IdleOK, BlkObjOK
  <2>4. /\ CallInv' /\ arg' = arg
        /\ pc' \in [Task -> {"user", "sched", "pend_sched", "pend_end", "pri_change"}]
    BY <1>1, <1>4, SchedOwed DEF CoreInv, CoreTypeOK
  <2>5. CoreTypeOK'
    BY <1>1, <1>4, <2>1, <2>4 DEF CoreInv, CoreTypeOK, rrVars, cpuVars
  <2> QED
    BY <2>2, <2>3, <2>4, <2>5 DEF CoreInv, ListInv
<1> QED
  <2>1. suspend_count \in [Task -> 0 .. MaxSuspend] /\ task_state \in [Task -> TaskState]
    BY DEF CoreInv, CoreTypeOK
  <2> QED
    BY <1>3, <1>4, <2>1 DEF krhino_task_suspend

\* krhino_task_resume never takes a count below 0 and makes a task ready exactly
\* when its last suspension ends and it neither sleeps nor waits.
LEMMA krhino_task_resume_Inv ==
  ASSUME CoreInv, NEW t \in Task, krhino_task_resume(t) PROVE CoreInv'
<1>1. /\ UNCHANGED <<prio, blk_state, blk_obj, tick_match, rrVars, blk_list, g_tick_head,
                     g_tick_count, cpuVars, crit>>
      /\ RHINO_CRITICAL_EXIT_SCHED
      /\ isr = "none" => pc[g_active_task] = "user"
      /\ task_state[t] \in SuspendStates
  BY DEF krhino_task_resume, AnyCall, TaskCall, IntrptCall
<1>2. /\ prio' = [prio EXCEPT ![t] = prio[t]] /\ prio[t] \in Prio
      /\ suspend_count \in [Task -> 0 .. MaxSuspend] /\ task_state \in [Task -> TaskState]
      /\ suspend_count' = [suspend_count EXCEPT ![t] = suspend_count[t] - 1]
  BY <1>1 DEF CoreInv, CoreTypeOK, krhino_task_resume
<1>3. suspend_count[t] > 0
  BY <1>1 DEF CoreInv, ListInv, SuspendCountOK, SuspendStates
<1>4. suspend_count' \in [Task -> 0 .. MaxSuspend]
  <2>1. suspend_count[t] - 1 \in 0 .. MaxSuspend
    BY <1>2, <1>3, BoundAssumption
  <2> QED
    BY <1>2, <2>1
<1>5. g_sched_lock > 0 => t # g_active_task
  BY <1>1 DEF CoreInv, CallInv, LockHolderReady, SuspendStates
<1>6. isr = "none" => pc[g_active_task] \in {"user", "sched"}
  BY <1>1
<1>7. CASE suspend_count[t] = 1
  <2> DEFINE st == Resumed(task_state[t])
  <2>1. /\ task_state[t] = "K_SUSPENDED" => st = "K_RDY"
        /\ task_state[t] = "K_SLEEP_SUSPENDED" => st = "K_SLEEP"
        /\ task_state[t] = "K_PEND_SUSPENDED" => st = "K_PEND"
    BY DEF Resumed
  <2>2. /\ task_state' = [task_state EXCEPT ![t] = st]
        /\ g_ready_queue' = IF task_state[t] = "K_SUSPENDED"
                            THEN ready_list_add(g_ready_queue, t, prio[t])
                            ELSE g_ready_queue
    BY <1>2, <1>7 DEF krhino_task_resume
  <2> HIDE DEF st
  <2>3. ReadyQueueOK' /\ g_ready_queue' \in QueueType
    <3>1. CASE task_state[t] = "K_SUSPENDED"
      <4>1. g_ready_queue' \in {ready_list_add_tail(g_ready_queue, t, prio[t]),
                                ready_list_add_head(g_ready_queue, t, prio[t])}
        BY <2>2, <3>1 DEF ready_list_add
      <4>2. task_state' = [task_state EXCEPT ![t] = "K_RDY"] /\ task_state[t] # "K_RDY"
        BY <2>1, <2>2, <3>1
      <4> QED
        BY <1>2, <4>1, <4>2, GainReady DEF CoreInv, ListInv
    <3>2. CASE task_state[t] # "K_SUSPENDED"
      <4>1. task_state[t] # "K_RDY" /\ st # "K_RDY" /\ g_ready_queue' = g_ready_queue
        BY <1>1, <2>1, <2>2, <3>2 DEF SuspendStates
      <4> QED
        BY <1>2, <2>2, <4>1, StayUnready DEF CoreInv, ListInv
    <3> QED
      BY <3>1, <3>2
  <2>4. task_state' \in [Task -> TaskState]
    BY <1>1, <1>2, <2>1, <2>2 DEF TaskState, SuspendStates
  <2>5. WaitListsOK'
    <3>1. \A u \in Task : task_state'[u] \in PendStates <=> task_state[u] \in PendStates
      BY <1>1, <1>2, <2>1, <2>2 DEF PendStates, SuspendStates
    <3> QED
      BY <1>1, <3>1 DEF CoreInv, ListInv, WaitListsOK
  <2>6. TickListOK'
    BY <1>1, <1>2, <2>1, <2>2 DEF CoreInv, ListInv, TickListOK, PendStates, SleepStates, SuspendStates
  <2>7. SuspendCountOK'
    <3>1. suspend_count'[t] = 0
      BY <1>2, <1>7
    <3>2. task_state'[t] \in {"K_RDY", "K_SLEEP", "K_PEND"}
      BY <1>1, <1>2, <2>1, <2>2 DEF SuspendStates
    <3> QED
      BY <1>2, <2>2, <3>1, <3>2 DEF CoreInv, ListInv, SuspendCountOK, SuspendStates
  <2>8. (IdleOK /\ BlkObjOK)'
    BY <1>1, <1>2, <2>1, <2>2 DEF CoreInv, ListInv, IdleOK, BlkObjOK, PendStates, SleepStates, SuspendStates
  <2>9. /\ CallInv' /\ arg' = arg
        /\ pc' \in [Task -> {"user", "sched", "pend_sched", "pend_end", "pri_change"}]
    <3>1. g_sched_lock > 0 => task_state'[g_active_task] = task_state[g_active_task]
      BY <1>2, <1>5, <2>2 DEF CoreInv, CoreTypeOK
    <3> QED
      BY <1>1, <1>6, <3>1, SchedOwed DEF CoreInv
  <2>10. CoreTypeOK'
    BY <1>1, <1>4, <2>3, <2>4, <2>9 DEF CoreInv, CoreTypeOK, QueueType, rrVars, cpuVars
  <2> QED
    BY <2>3, <2>5, <2>6, <2>7, <2>8, <2>9, <2>10 DEF CoreInv, ListInv
<1>8. CASE suspend_count[t] # 1
  <2>1. UNCHANGED <<task_state, g_ready_queue>>
    BY <1>8 DEF krhino_task_resume
  <2>2. SuspendCountOK'
    <3>1. suspend_count'[t] > 0
      BY <1>2, <1>3, <1>8
    <3> QED
      BY <1>1, <1>2, <2>1, <3>1 DEF CoreInv, ListInv, SuspendCountOK
  <2>3. (ReadyQueueOK /\ WaitListsOK /\ TickListOK /\ IdleOK /\ BlkObjOK)'
    BY <1>1, <2>1 DEF CoreInv, ListInv, ReadyQueueOK, WaitListsOK, TickListOK, IdleOK, BlkObjOK
  <2>4. /\ CallInv' /\ arg' = arg
        /\ pc' \in [Task -> {"user", "sched", "pend_sched", "pend_end", "pri_change"}]
    BY <1>1, <1>6, <2>1, SchedOwed DEF CoreInv
  <2>5. CoreTypeOK'
    BY <1>1, <1>4, <2>1, <2>4 DEF CoreInv, CoreTypeOK, rrVars, cpuVars
  <2> QED
    BY <2>2, <2>3, <2>4, <2>5 DEF CoreInv, ListInv
<1> QED
  BY <1>7, <1>8

\* krhino_task_create gives life to a deleted task, ready or suspended once.
LEMMA krhino_task_create_Inv ==
  ASSUME CoreInv, NEW t \in Task, NEW p \in Prio, NEW autorun \in BOOLEAN,
         krhino_task_create(t, p, autorun)
  PROVE  CoreInv'
<1>1. /\ task_state[t] \in {"K_SEED", "K_DELETED"} /\ t # g_active_task /\ p < IDLE_PRI
      /\ task_state'    = [task_state EXCEPT ![t] = IF autorun THEN "K_RDY" ELSE "K_SUSPENDED"]
      /\ suspend_count' = [suspend_count EXCEPT ![t] = IF autorun THEN 0 ELSE 1]
      /\ prio'          = [prio EXCEPT ![t] = p]
      /\ blk_state'     = [blk_state EXCEPT ![t] = "BLK_FINISH"]
      /\ blk_obj'       = [blk_obj EXCEPT ![t] = NoObj]
      /\ tick_match'    = [tick_match EXCEPT ![t] = 0]
      /\ time_slice'    = [time_slice EXCEPT ![t] = TimeSlice]
      /\ time_total'    = [time_total EXCEPT ![t] = TimeSlice]
      /\ sched_policy'  = [sched_policy EXCEPT ![t] = "KSCHED_RR"]
      /\ g_ready_queue' = IF autorun THEN ready_list_add_tail(g_ready_queue, t, p) ELSE g_ready_queue
      /\ arg'           = [arg EXCEPT ![t] = NoArg]
      /\ intrpt_off'    = intrpt_off \ {t}
      /\ UNCHANGED <<blk_list, g_tick_head, g_tick_count, g_active_task, g_sched_lock, isr, crit>>
  BY DEF krhino_task_create
<1>2. pc' = [pc EXCEPT ![t] = "user", ![g_active_task] = IF autorun THEN "sched" ELSE "user"]
  BY DEF krhino_task_create
<1>3. /\ g_active_task \in Task \ {Idle} /\ task_state[g_active_task] = "K_RDY"
      /\ isr = "none" /\ crit = NoCrit
  BY CallerReady DEF krhino_task_create
<1>4. t # Idle
  BY <1>1 DEF CoreInv, ListInv, IdleOK
<1>5. ReadyQueueOK' /\ g_ready_queue' \in QueueType
  <2>1. CASE autorun
    BY <1>1, <2>1, GainReady DEF CoreInv, ListInv
  <2>2. CASE ~autorun
    BY <1>1, <2>2, StayUnready DEF CoreInv, ListInv
  <2> QED
    BY <2>1, <2>2
<1>6. CoreTypeOK'
  <2>1. /\ task_state' \in [Task -> TaskState] /\ prio' \in [Task -> Prio]
        /\ blk_state' \in [Task -> BlkState] /\ blk_obj' \in [Task -> Obj \cup {NoObj}]
        /\ sched_policy' \in [Task -> {"KSCHED_FIFO", "KSCHED_RR"}]
    BY <1>1 DEF CoreInv, CoreTypeOK, TaskState, BlkState
  <2>2. /\ suspend_count' \in [Task -> 0 .. MaxSuspend] /\ tick_match' \in [Task -> 0 .. TickMod - 1]
        /\ time_slice' \in [Task -> 0 .. TimeSlice] /\ time_total' \in [Task -> 1 .. TimeSlice]
    <3>1. /\ 0 \in 0 .. MaxSuspend /\ 1 \in 0 .. MaxSuspend /\ 0 \in 0 .. TickMod - 1
          /\ TimeSlice \in 0 .. TimeSlice /\ TimeSlice \in 1 .. TimeSlice
      BY BoundAssumption, TickAssumption
    <3> QED
      BY <1>1, <3>1 DEF CoreInv, CoreTypeOK
  <2>3. /\ pc' \in [Task -> {"user", "sched", "pend_sched", "pend_end", "pri_change"}]
        /\ arg' \in [Task -> Obj \cup {NoArg} \cup (Task \X Prio)]
        /\ intrpt_off' \subseteq Task
    BY <1>1, <1>2 DEF CoreInv, CoreTypeOK
  <2> QED
    BY <1>1, <1>5, <2>1, <2>2, <2>3 DEF CoreInv, CoreTypeOK, QueueType
<1>7. WaitListsOK'
  BY <1>1, SMTT(20) DEF CoreInv, CoreTypeOK, ListInv, WaitListsOK, PendStates
<1>8. TickListOK'
  BY <1>1 DEF CoreInv, CoreTypeOK, ListInv, TickListOK, PendStates, SleepStates
<1>9. SuspendCountOK'
  BY <1>1 DEF CoreInv, CoreTypeOK, ListInv, SuspendCountOK, SuspendStates
<1>10. (IdleOK /\ BlkObjOK)'
  BY <1>1, <1>4 DEF CoreInv, CoreTypeOK, ListInv, IdleOK, BlkObjOK, PendStates, SleepStates
<1>11. CallInv'
  <2>1. RunsOnlyReady'
    BY <1>1, <1>2, <1>3, <1>6, ReadyIsFree DEF CoreInv, CoreTypeOK, ListInv, RunsOnlyReady
  <2>2. LockHolderReady'
    BY <1>1, <1>2, <1>3 DEF CoreInv, CoreTypeOK, LockHolderReady
  <2>3. PriArgOK'
    BY <1>1, <1>2 DEF CoreInv, CoreTypeOK, CallInv, PriArgOK
  <2> QED
    BY <2>1, <2>2, <2>3 DEF CallInv
<1> QED
  BY <1>5, <1>6, <1>7, <1>8, <1>9, <1>10, <1>11 DEF CoreInv, ListInv

\* The lists after one turn of task_pri_change.
LEMMA PriTurn ==
  ASSUME CoreTypeOK, ListInv, NEW t \in Task \ {Idle}, NEW p \in 0 .. IDLE_PRI - 1,
         task_pri_change_turn(t, p),
         UNCHANGED <<task_state, suspend_count, blk_obj, g_tick_head>>
  PROVE  /\ ListInv' /\ prio' \in [Task -> Prio] /\ g_ready_queue' \in QueueType
         /\ blk_list' \in [Obj -> Seq(Task)]
<1>1. p \in Prio /\ p < IDLE_PRI /\ prio' = [prio EXCEPT ![t] = p]
  BY PriAssumption DEF Prio, IDLE_PRI, task_pri_change_turn
<1>2. prio' \in [Task -> Prio]
  BY <1>1 DEF CoreTypeOK
<1>3. ReadyQueueOK' /\ g_ready_queue' \in QueueType
  <2>1. CASE task_state[t] = "K_RDY"
    <3> DEFINE rq == ready_list_rm(g_ready_queue, t, prio[t])
    <3>1. g_ready_queue' \in {ready_list_add_tail(rq, t, p), ready_list_add_head(rq, t, p)}
      BY <2>1 DEF task_pri_change_turn
    <3> QED
      BY <1>1, <2>1, <3>1, MoveReady DEF ListInv
  <2>2. CASE task_state[t] # "K_RDY"
    <3>1. g_ready_queue' = g_ready_queue /\ task_state' = [task_state EXCEPT ![t] = task_state[t]]
      BY <2>2 DEF task_pri_change_turn, CoreTypeOK
    <3> QED
      BY <1>1, <2>2, <3>1, StayUnready DEF ListInv
  <2> QED
    BY <2>1, <2>2
<1>4. /\ blk_list' \in [Obj -> Seq(Task)]
      /\ \A o \in Obj : IsInjective(blk_list'[o]) /\ ToSet(blk_list'[o]) = ToSet(blk_list[o])
  <2>1. CASE task_state[t] \in PendStates
    <3>1. blk_list' = pend_list_reorder(t, prio')
      BY <2>1 DEF task_pri_change_turn
    <3> QED
      BY <2>1, <3>1, WaitReorder DEF ListInv
  <2>2. CASE task_state[t] \notin PendStates
    BY <2>2 DEF task_pri_change_turn, CoreTypeOK, ListInv, WaitListsOK
  <2> QED
    BY <2>1, <2>2
<1>5. WaitListsOK'
  BY <1>4 DEF ListInv, WaitListsOK
<1>6. (TickListOK /\ SuspendCountOK /\ BlkObjOK)'
  BY DEF ListInv, TickListOK, SuspendCountOK, BlkObjOK
<1>7. IdleOK'
  BY <1>1 DEF CoreTypeOK, ListInv, IdleOK
<1> QED
  BY <1>2, <1>3, <1>4, <1>5, <1>6, <1>7 DEF ListInv

\* krhino_task_pri_change, where there are no mutexes: one turn of
\* task_pri_change and the exit from the critical section.
LEMMA pri_change_plain_Inv ==
  ASSUME CoreInv, NEW t \in Task, NEW p \in Prio, pri_change_plain(t, p) PROVE CoreInv'
<1>1. /\ UNCHANGED <<task_state, suspend_count, blk_state, blk_obj, tick_match, rrVars,
                     g_tick_head, g_tick_count, cpuVars>>
      /\ crit = NoCrit /\ isr = "none"
      /\ pc[g_active_task] = "pri_change" /\ arg[g_active_task] = <<t, p>>
  BY DEF pri_change_plain, PriChangeEnter
<1>2. t \in Task \ {Idle} /\ p \in 0 .. IDLE_PRI - 1
  <2>1. arg[g_active_task] \in (Task \ {Idle}) \X (0 .. IDLE_PRI - 1)
    BY <1>1 DEF CoreInv, CoreTypeOK, CallInv, PriArgOK
  <2> QED
    BY <1>1, <2>1
<1>3. task_state[g_active_task] = "K_RDY" /\ g_active_task \in Task
  BY <1>1 DEF CoreInv, CoreTypeOK, CallInv, RunsOnlyReady
<1>4. /\ ListInv' /\ prio' \in [Task -> Prio] /\ g_ready_queue' \in QueueType
      /\ blk_list' \in [Obj -> Seq(Task)]
  <2>1. CASE task_pri_change_turn(t, p)
    BY <1>1, <1>2, <2>1, PriTurn DEF CoreInv
  <2>2. CASE UNCHANGED <<prio, g_ready_queue, blk_list>>
    <3>1. ListInv'
      BY <1>1, <2>2, ListsKept DEF CoreInv, tcbVars, queueVars
    <3> QED
      BY <2>2, <3>1 DEF CoreInv, CoreTypeOK, QueueType
  <2> QED
    BY <2>1, <2>2 DEF pri_change_plain
<1>5. /\ pc' \in [Task -> {"user", "sched", "pend_sched", "pend_end", "pri_change"}]
      /\ arg' \in [Task -> Obj \cup {NoArg} \cup (Task \X Prio)]
      /\ \A u \in Task : pc'[u] = "pri_change" => pc[u] = "pri_change" /\ arg'[u] = arg[u]
      /\ \/ crit' = ErrCrit /\ pc' = pc
         \/ pc'[g_active_task] = "sched"
  BY ZenonT(40) DEF pri_change_plain, CoreInv, CoreTypeOK, callVars
<1>6. CoreTypeOK'
  BY <1>1, <1>4, <1>5 DEF CoreInv, CoreTypeOK, QueueType, rrVars, cpuVars
<1>7. CallInv'
  <2>1. PriArgOK'
    BY <1>5 DEF CoreInv, CallInv, PriArgOK
  <2>2. LockHolderReady'
    BY <1>1, <1>3, <1>5 DEF LockHolderReady, cpuVars
  <2>3. ErrCrit # NoCrit
    BY DEF ErrCrit, NoCrit
  <2>4. RunsOnlyReady'
    BY <1>1, <1>5, <2>3 DEF RunsOnlyReady, cpuVars
  <2> QED
    BY <2>1, <2>2, <2>4 DEF CallInv
<1> QED
  BY <1>4, <1>6, <1>7 DEF CoreInv

\* krhino_task_del takes the task off whichever lists its state puts it on.
LEMMA UnlinkLists ==
  ASSUME CoreTypeOK, ListInv, NEW t \in Task \ {Idle}, task_unlink(t),
         UNCHANGED <<prio, suspend_count, blk_obj>>
  PROVE  /\ ListInv' /\ task_state' \in [Task -> TaskState]
         /\ task_state[t] \notin {"K_SEED", "K_DELETED"}
         /\ task_state' = [task_state EXCEPT ![t] = "K_DELETED"]
         /\ tick_match' \in [Task -> 0 .. TickMod - 1] /\ g_tick_head' \in Seq(Task)
         /\ blk_list' \in [Obj -> Seq(Task)] /\ g_ready_queue' \in QueueType
         /\ \A o \in Obj : ToSet(blk_list'[o]) = ToSet(blk_list[o]) \ {t}
<1>1. /\ task_state[t] \notin {"K_SEED", "K_DELETED"}
      /\ task_state' = [task_state EXCEPT ![t] = "K_DELETED"]
      /\ g_ready_queue' = IF task_state[t] = "K_RDY"
                          THEN ready_list_rm(g_ready_queue, t, prio[t])
                          ELSE g_ready_queue
      /\ blk_list' = IF task_state[t] \in PendStates
                     THEN [blk_list EXCEPT ![blk_obj[t]] = klist_rm(@, t)]
                     ELSE blk_list
      /\ tick_list_rm(t)
  BY DEF task_unlink
<1>2. /\ g_tick_head' \in Seq(Task) /\ IsInjective(g_tick_head')
      /\ ToSet(g_tick_head') = ToSet(g_tick_head) \ {t}
      /\ tick_match' \in [Task -> 0 .. TickMod - 1]
  BY <1>1, TickRm DEF ListInv
<1>3. ReadyQueueOK' /\ g_ready_queue' \in QueueType
  <2>1. CASE task_state[t] = "K_RDY"
    BY <1>1, <2>1, LoseReady DEF ListInv
  <2>2. CASE task_state[t] # "K_RDY"
    <3>1. prio' = [prio EXCEPT ![t] = prio[t]] /\ prio[t] \in Prio
      BY DEF CoreTypeOK
    <3> QED
      BY <1>1, <2>2, <3>1, StayUnready DEF ListInv
  <2> QED
    BY <2>1, <2>2
<1>4. /\ blk_list' \in [Obj -> Seq(Task)]
      /\ \A o \in Obj : IsInjective(blk_list'[o]) /\ ToSet(blk_list'[o]) = ToSet(blk_list[o]) \ {t}
  <2>1. CASE task_state[t] \in PendStates
    BY <1>1, <2>1, WaitRm DEF ListInv
  <2>2. CASE task_state[t] \notin PendStates
    BY <1>1, <2>2 DEF CoreTypeOK, ListInv, WaitListsOK
  <2> QED
    BY <2>1, <2>2
<1>5. WaitListsOK'
  <2>1. /\ task_state'[t] \notin PendStates
        /\ \A u \in Task \ {t} : task_state'[u] = task_state[u]
    BY <1>1 DEF CoreTypeOK, PendStates
  <2>2. ASSUME NEW o \in Obj, NEW u \in Task
        PROVE  u \in ToSet(blk_list'[o]) <=> task_state'[u] \in PendStates /\ blk_obj'[u] = o
    <3>1. u \in ToSet(blk_list[o]) <=> task_state[u] \in PendStates /\ blk_obj[u] = o
      BY DEF ListInv, WaitListsOK
    <3>2. ToSet(blk_list'[o]) = ToSet(blk_list[o]) \ {t} /\ blk_obj' = blk_obj
      BY <1>4
    <3> QED
      BY <2>1, <3>1, <3>2
  <2> QED
    BY <1>4, <2>2 DEF WaitListsOK
<1>6. TickListOK'
  BY <1>1, <1>2 DEF CoreTypeOK, ListInv, TickListOK, PendStates, SleepStates
<1>7. (SuspendCountOK /\ IdleOK /\ BlkObjOK)'
  BY <1>1, SMTT(20) DEF CoreTypeOK, ListInv, SuspendCountOK, IdleOK, BlkObjOK, PendStates, SleepStates
<1>8. task_state' \in [Task -> TaskState]
  BY <1>1 DEF CoreTypeOK, TaskState
<1> QED
  BY <1>1, <1>2, <1>3, <1>4, <1>5, <1>6, <1>7, <1>8 DEF ListInv

\* krhino_task_del, where there are no mutexes.
LEMMA task_del_plain_Inv ==
  ASSUME CoreInv, NEW t \in Task, task_del_plain(t) PROVE CoreInv'
<1>1. /\ task_unlink(t) /\ RHINO_CRITICAL_EXIT_SCHED
      /\ UNCHANGED <<prio, suspend_count, blk_state, blk_obj, rrVars, g_tick_count, cpuVars, crit>>
  BY DEF task_del_plain
<1>2. /\ t # Idle /\ pc[g_active_task] = "user"
      /\ t = g_active_task => g_sched_lock = 0
  BY DEF task_del_plain, TaskDelEnter, TaskCall, MayStop, CoreInv, ListInv, IdleOK
<1>3. /\ ListInv' /\ task_state' \in [Task -> TaskState]
      /\ task_state' = [task_state EXCEPT ![t] = "K_DELETED"]
      /\ tick_match' \in [Task -> 0 .. TickMod - 1] /\ g_tick_head' \in Seq(Task)
      /\ blk_list' \in [Obj -> Seq(Task)] /\ g_ready_queue' \in QueueType
  BY <1>1, <1>2, UnlinkLists DEF CoreInv
<1>4. /\ CallInv' /\ arg' = arg
      /\ pc' \in [Task -> {"user", "sched", "pend_sched", "pend_end", "pri_change"}]
  <2>1. g_sched_lock > 0 => task_state'[g_active_task] = task_state[g_active_task]
    BY <1>2, <1>3 DEF CoreInv, CoreTypeOK
  <2> QED
    BY <1>1, <1>2, <2>1, SchedOwed DEF CoreInv
<1>5. CoreTypeOK'
  BY <1>1, <1>3, <1>4 DEF CoreInv, CoreTypeOK, QueueType, rrVars, cpuVars
<1> QED
  BY <1>3, <1>4, <1>5 DEF CoreInv
-----------------------------------------------------------------------------
(***************************************************************************)
(* The invariant and its consequences.                                     *)
(***************************************************************************)
\* The state krhino_start leaves satisfies the invariant.
LEMMA CoreInit_Inv ==
  ASSUME CoreInit PROVE CoreInv
<1>1. Idle \in Task /\ Main \in Task /\ Main # Idle /\ MainPri \in Prio /\ IDLE_PRI \in Prio /\ MainPri < IDLE_PRI
  BY TaskAssumption, PriAssumption DEF Prio, IDLE_PRI
<1>2. CoreTypeOK
  <2>1. g_ready_queue \in QueueType
    BY <1>1 DEF CoreInit, QueueType
  <2>2. /\ suspend_count \in [Task -> 0 .. MaxSuspend] /\ tick_match \in [Task -> 0 .. TickMod - 1]
        /\ time_slice \in [Task -> 0 .. TimeSlice] /\ time_total \in [Task -> 1 .. TimeSlice]
        /\ g_tick_count \in 0 .. TickMod - 1 /\ g_sched_lock \in 0 .. MaxLock
    BY BoundAssumption, TickAssumption DEF CoreInit
  <2>3. /\ task_state \in [Task -> TaskState] /\ prio \in [Task -> Prio] /\ blk_state \in [Task -> BlkState]
        /\ blk_list \in [Obj -> Seq(Task)] /\ g_tick_head \in Seq(Task)
    BY <1>1 DEF CoreInit, TaskState, BlkState
  <2> QED
    BY <1>1, <2>1, <2>2, <2>3 DEF CoreInit, CoreTypeOK, QueueType
<1>3. /\ ToSet(<< >>) = {} /\ IsInjective(<< >>)
      /\ \A t : ToSet(<<t>>) = {t} /\ IsInjective(<<t>>) /\ <<t>> # << >>
  BY DEF ToSet, IsInjective
<1>4. ReadyQueueOK
  <2> DEFINE list == g_ready_queue.cur_list_item
  <2>1. /\ list = [p \in Prio |-> IF p = MainPri THEN <<Main>> ELSE IF p = IDLE_PRI THEN <<Idle>> ELSE << >>]
        /\ g_ready_queue.task_bit_map = {MainPri, IDLE_PRI} /\ g_ready_queue.highest_pri = MainPri
    BY DEF CoreInit
  <2>2. \A p \in Prio, t \in Task : t \in ToSet(list[p]) <=> task_state[t] = "K_RDY" /\ prio[t] = p
    <3> SUFFICES ASSUME NEW p \in Prio, NEW t \in Task
                 PROVE  t \in ToSet(list[p]) <=> task_state[t] = "K_RDY" /\ prio[t] = p
      OBVIOUS
    <3>1. /\ prio[t] = IF t = Idle THEN IDLE_PRI ELSE MainPri
          /\ task_state[t] = "K_RDY" <=> t \in {Idle, Main}
      BY DEF CoreInit
    <3>2. ToSet(list[p]) = IF p = MainPri THEN {Main} ELSE IF p = IDLE_PRI THEN {Idle} ELSE {}
      BY <1>3, <2>1
    <3>3. MainPri # IDLE_PRI
      BY <1>1, PriAssumption DEF IDLE_PRI
    <3>4. CASE t = Idle
      BY <1>1, <3>1, <3>2, <3>3, <3>4
    <3>5. CASE t # Idle
      BY <1>1, <3>1, <3>2, <3>3, <3>5
    <3> QED
      BY <3>4, <3>5
  <2>3. \A p \in Prio : IsInjective(list[p])
    BY <1>3, <2>1
  <2>4. g_ready_queue.task_bit_map = {p \in Prio : list[p] # << >>}
    BY <1>1, <1>3, <2>1
  <2>5. \A p \in {MainPri, IDLE_PRI} : MainPri <= p
    BY <1>1, PriAssumption DEF Prio
  <2> QED
    BY <2>1, <2>2, <2>3, <2>4, <2>5 DEF ReadyQueueOK
<1>5. WaitListsOK /\ TickListOK
  BY <1>3 DEF CoreInit, WaitListsOK, TickListOK, PendStates, SleepStates
<1>6. SuspendCountOK /\ IdleOK /\ BlkObjOK
  BY <1>1 DEF CoreInit, SuspendCountOK, IdleOK, BlkObjOK, PendStates, SleepStates, SuspendStates
<1>7. CallInv
  BY <1>1, <1>3 DEF CoreInit, CallInv, RunsOnlyReady, LockHolderReady, PriArgOK
<1> QED
  BY <1>2, <1>4, <1>5, <1>6, <1>7 DEF CoreInv, ListInv

\* A step that changes no variable keeps the invariant.
LEMMA CoreStutter_Inv ==
  ASSUME CoreInv, UNCHANGED coreVars PROVE CoreInv'
<1>1. ListInv'
  BY ListsKept DEF CoreInv, coreVars
<1>2. CoreTypeOK' /\ CallInv'
  BY DEF CoreInv, CoreTypeOK, CallInv, RunsOnlyReady, LockHolderReady, PriArgOK,
     coreVars, tcbVars, rrVars, queueVars, cpuVars, callVars
<1> QED
  BY <1>1, <1>2 DEF CoreInv

\* Every step of the core keeps the invariant.
LEMMA CoreNext_Inv ==
  ASSUME CoreInv, CoreNext PROVE CoreInv'
<1>1. CASE KernelStep
  BY <1>1, core_sched_Inv, pend_state_end_proc_Inv, krhino_intrpt_enter_Inv, krhino_intrpt_exit_Inv,
     tick_list_update_Inv, tick_sleep_end_Inv, tick_list_done_Inv, time_slice_update_Inv
     DEF KernelStep
<1>2. CASE LockService
  BY <1>2, LockService_Inv
<1>3. CASE SleepService
  BY <1>3, krhino_task_yield_Inv, krhino_task_sleep_Inv DEF SleepService
<1>4. CASE SuspendService
  BY <1>4, krhino_task_suspend_Inv, krhino_task_resume_Inv DEF SuspendService
<1>5. CASE RRService
  BY <1>5, RRService_Inv
<1>6. CASE TaskService
  <2>1. ASSUME NEW new \in NewTask, krhino_task_create(new[1], new[2], new[3]) PROVE CoreInv'
    <3>1. new[1] \in Task /\ new[2] \in Prio /\ new[3] \in BOOLEAN
      BY PriAssumption DEF Prio
    <3> QED
      BY <2>1, <3>1, krhino_task_create_Inv
  <2>2. ASSUME NEW new \in NewPri,
               krhino_task_pri_change(new[1], new[2]) \/ pri_change_plain(new[1], new[2])
        PROVE  CoreInv'
    <3>1. new[1] \in Task /\ new[2] \in Prio
      BY PriAssumption DEF Prio
    <3> QED
      BY <2>2, <3>1, krhino_task_pri_change_Inv, pri_change_plain_Inv
  <2> QED
    BY <1>6, <2>1, <2>2, task_del_plain_Inv, task_del_idle_Inv DEF TaskService
<1> QED
  BY <1>1, <1>2, <1>3, <1>4, <1>5, <1>6 DEF CoreNext

\* CoreInv is an invariant of the core.
THEOREM CoreInvariant == CoreSpec => []CoreInv
<1>1. CoreInit => CoreInv
  BY CoreInit_Inv
<1>2. CoreInv /\ [CoreNext]_coreVars => CoreInv'
  BY CoreNext_Inv, CoreStutter_Inv
<1> QED
  BY <1>1, <1>2, PTL DEF CoreSpec

\* Type correctness of the core: counters stay in their widths, lists hold
\* tasks.  That krhino_task_resume never takes a count below 0, and that
\* highest_pri always is a priority, need the rest of CoreInv.
THEOREM CoreTypeCorrect == CoreSpec => []CoreTypeOK
<1>1. CoreInv => CoreTypeOK
  BY DEF CoreInv
<1> QED
  BY <1>1, CoreInvariant, PTL

\* The ready queue, its bitmap and highest_pri agree with the states and
\* priorities of the tasks, whatever k_task.c and the tick handler do.
THEOREM ReadyQueueCorrect == CoreSpec => []ReadyQueueOK
<1>1. CoreInv => ReadyQueueOK
  BY DEF CoreInv, ListInv
<1> QED
  BY <1>1, CoreInvariant, PTL

\* The tick list holds every sleeping task, once, and none that is awake.
THEOREM TickListCorrect == CoreSpec => []TickListOK
<1>1. CoreInv => TickListOK
  BY DEF CoreInv, ListInv
<1> QED
  BY <1>1, CoreInvariant, PTL

\* A task is suspended exactly while its nesting count is positive, whatever ends its sleep.
THEOREM SuspendCountCorrect == CoreSpec => []SuspendCountOK
<1>1. CoreInv => SuspendCountOK
  BY DEF CoreInv, ListInv
<1> QED
  BY <1>1, CoreInvariant, PTL

\* The holder of the scheduler lock stays ready: it can always unlock it.
THEOREM LockHolderStaysReady == CoreSpec => []LockHolderReady
<1>1. CoreInv => LockHolderReady
  BY DEF CoreInv, CallInv
<1> QED
  BY <1>1, CoreInvariant, PTL
-----------------------------------------------------------------------------
(***************************************************************************)
(* What the modules with blocking objects add: waits begin and end.        *)
(***************************************************************************)
\* unpend, for whichever reason: the lists agree with the states of the tasks
\* again, no list of waiters gains a task, and no other task changes its state.
LEMMA Unpend ==
  ASSUME CoreTypeOK, ListInv, NEW t \in Task, unpend(t), UNCHANGED <<prio, suspend_count>>
  PROVE  /\ ListInv'
         /\ task_state' \in [Task -> TaskState] /\ blk_obj' \in [Task -> Obj \cup {NoObj}]
         /\ tick_match' \in [Task -> 0 .. TickMod - 1] /\ g_tick_head' \in Seq(Task)
         /\ blk_list' \in [Obj -> Seq(Task)] /\ g_ready_queue' \in QueueType
         /\ task_state[t] # "K_RDY" /\ \A u \in Task \ {t} : task_state'[u] = task_state[u]
         /\ \A o \in Obj : ToSet(blk_list'[o]) = ToSet(blk_list[o]) \ {t}
<1>1. /\ task_state[t] \in PendStates /\ tick_list_rm(t)
      /\ blk_list' = [blk_list EXCEPT ![blk_obj[t]] = klist_rm(@, t)]
      /\ blk_obj' = [blk_obj EXCEPT ![t] = NoObj]
      /\ \/ /\ task_state[t] = "K_PEND"
            /\ g_ready_queue' = ready_list_add(g_ready_queue, t, prio[t])
            /\ task_state'    = [task_state EXCEPT ![t] = "K_RDY"]
         \/ /\ task_state[t] = "K_PEND_SUSPENDED"
            /\ task_state' = [task_state EXCEPT ![t] = "K_SUSPENDED"]
            /\ g_ready_queue' = g_ready_queue
  BY DEF unpend
<1>2. /\ g_tick_head' \in Seq(Task) /\ IsInjective(g_tick_head')
      /\ ToSet(g_tick_head') = ToSet(g_tick_head) \ {t}
      /\ tick_match' \in [Task -> 0 .. TickMod - 1]
  BY <1>1, TickRm DEF ListInv
<1>3. /\ blk_list' \in [Obj -> Seq(Task)]
      /\ \A o \in Obj : IsInjective(blk_list'[o]) /\ ToSet(blk_list'[o]) = ToSet(blk_list[o]) \ {t}
  BY <1>1, WaitRm DEF ListInv
<1>4. prio' = [prio EXCEPT ![t] = prio[t]] /\ prio[t] \in Prio
  BY DEF CoreTypeOK
<1>5. ReadyQueueOK' /\ g_ready_queue' \in QueueType
  <2>1. CASE task_state[t] = "K_PEND"
    <3>1. g_ready_queue' \in {ready_list_add_tail(g_ready_queue, t, prio[t]),
                              ready_list_add_head(g_ready_queue, t, prio[t])}
      BY <1>1, <2>1 DEF ready_list_add
    <3>2. task_state' = [task_state EXCEPT ![t] = "K_RDY"] /\ task_state[t] # "K_RDY"
      BY <1>1, <2>1
    <3> QED
      BY <1>4, <3>1, <3>2, GainReady DEF ListInv
  <2>2. CASE task_state[t] = "K_PEND_SUSPENDED"
    <3>1. /\ task_state' = [task_state EXCEPT ![t] = "K_SUSPENDED"] /\ task_state[t] # "K_RDY"
          /\ g_ready_queue' = g_ready_queue
      BY <1>1, <2>2
    <3> QED
      BY <1>4, <3>1, StayUnready DEF ListInv
  <2> QED
    BY <1>1, <2>1, <2>2
<1>6. /\ task_state' \in [Task -> TaskState] /\ blk_obj' \in [Task -> Obj \cup {NoObj}]
      /\ task_state[t] # "K_RDY" /\ \A u \in Task \ {t} : task_state'[u] = task_state[u]
      /\ task_state'[t] \notin PendStates \cup SleepStates
      /\ \A u \in Task \ {t} : blk_obj'[u] = blk_obj[u]
  BY <1>1 DEF CoreTypeOK, TaskState, PendStates, SleepStates
<1>7. WaitListsOK'
  <2>1. ASSUME NEW o \in Obj, NEW u \in Task
        PROVE  u \in ToSet(blk_list'[o]) <=> task_state'[u] \in PendStates /\ blk_obj'[u] = o
    <3>1. u \in ToSet(blk_list[o]) <=> task_state[u] \in PendStates /\ blk_obj[u] = o
      BY DEF ListInv, WaitListsOK
    <3> QED
      BY <1>3, <1>6, <3>1
  <2> QED
    BY <1>3, <2>1 DEF WaitListsOK
<1>8. TickListOK'
  BY <1>2, <1>6 DEF ListInv, TickListOK
<1>9. (SuspendCountOK /\ IdleOK /\ BlkObjOK)'
  <2>1. task_state'[t] \in SuspendStates <=> task_state[t] \in SuspendStates
    BY <1>1 DEF CoreTypeOK, PendStates, SuspendStates
  <2>2. task_state[t] \notin {"K_SEED", "K_DELETED"}
    BY <1>1 DEF PendStates
  <2>3. SuspendCountOK'
    BY <1>6, <2>1, <2>2 DEF ListInv, SuspendCountOK
  <2>4. IdleOK'
    BY <1>6, TaskAssumption DEF ListInv, IdleOK
  <2>5. BlkObjOK'
    BY <1>1, <1>6 DEF CoreTypeOK, ListInv, BlkObjOK
  <2> QED
    BY <2>3, <2>4, <2>5
<1> QED
  BY <1>2, <1>3, <1>5, <1>6, <1>7, <1>8, <1>9 DEF ListInv

\* pend_to_blk_obj, by the running task: it leaves the ready queue and joins the
\* waiters of one object, and the tick list if it gave a timeout.
LEMMA PendTo ==
  ASSUME CoreTypeOK, ListInv, NEW t \in Task \ {Idle}, task_state[t] = "K_RDY",
         NEW o \in Obj, NEW ticks \in 0 .. TickMod - 1, pend_to_blk_obj(o, t, ticks),
         UNCHANGED <<prio, suspend_count>>
  PROVE  /\ ListInv'
         /\ task_state' \in [Task -> TaskState] /\ blk_obj' \in [Task -> Obj \cup {NoObj}]
         /\ tick_match' \in [Task -> 0 .. TickMod - 1] /\ g_tick_head' \in Seq(Task)
         /\ blk_list' \in [Obj -> Seq(Task)] /\ g_ready_queue' \in QueueType
         /\ \A x \in Obj \ {o} : blk_list'[x] = blk_list[x]
<1>1. /\ blk_obj' = [blk_obj EXCEPT ![t] = o]
      /\ task_state' = [task_state EXCEPT ![t] = "K_PEND"]
      /\ g_ready_queue' = ready_list_rm(g_ready_queue, t, prio[t])
      /\ blk_list' = [blk_list EXCEPT ![o] = pend_list_add(@, t, prio)]
      /\ \/ tick_list_insert(t, ticks)
         \/ g_tick_head' = g_tick_head /\ tick_match' = tick_match
  BY DEF pend_to_blk_obj
<1>2. blk_obj[t] = NoObj /\ t \notin ToSet(g_tick_head)
  BY ReadyIsFree DEF ListInv
<1>3. /\ g_tick_head' \in Seq(Task) /\ IsInjective(g_tick_head')
      /\ ToSet(g_tick_head') \in {ToSet(g_tick_head), ToSet(g_tick_head) \cup {t}}
      /\ tick_match' \in [Task -> 0 .. TickMod - 1]
  <2>1. CASE tick_list_insert(t, ticks)
    BY <1>2, <2>1, TickInsert DEF ListInv
  <2>2. CASE g_tick_head' = g_tick_head /\ tick_match' = tick_match
    BY <2>2 DEF CoreTypeOK, ListInv, TickListOK
  <2> QED
    BY <1>1, <2>1, <2>2
<1>4. /\ blk_list' \in [Obj -> Seq(Task)]
      /\ \A x \in Obj : IsInjective(blk_list'[x])
      /\ ToSet(blk_list'[o]) = ToSet(blk_list[o]) \cup {t}
      /\ \A x \in Obj \ {o} : blk_list'[x] = blk_list[x]
  BY <1>1, WaitAdd DEF ListInv, PendStates
<1>5. ReadyQueueOK' /\ g_ready_queue' \in QueueType
  BY <1>1, LoseReady DEF ListInv
<1>6. /\ task_state' \in [Task -> TaskState] /\ blk_obj' \in [Task -> Obj \cup {NoObj}]
      /\ task_state'[t] = "K_PEND" /\ blk_obj'[t] = o
      /\ \A u \in Task \ {t} : task_state'[u] = task_state[u] /\ blk_obj'[u] = blk_obj[u]
  BY <1>1 DEF CoreTypeOK, TaskState
<1>7. WaitListsOK'
  <2>1. ASSUME NEW x \in Obj, NEW u \in Task
        PROVE  u \in ToSet(blk_list'[x]) <=> task_state'[u] \in PendStates /\ blk_obj'[u] = x
    <3>1. u \in ToSet(blk_list[x]) <=> task_state[u] \in PendStates /\ blk_obj[u] = x
      BY DEF ListInv, WaitListsOK
    <3>2. "K_PEND" \in PendStates /\ task_state[t] \notin PendStates
      BY DEF PendStates
    <3> QED
      BY <1>4, <1>6, <3>1, <3>2
  <2> QED
    BY <1>4, <2>1 DEF WaitListsOK
<1>8. TickListOK'
  BY <1>3, <1>6 DEF ListInv, TickListOK, PendStates, SleepStates
<1>9. (SuspendCountOK /\ IdleOK /\ BlkObjOK)'
  <2>1. SuspendCountOK'
    BY <1>6 DEF ListInv, SuspendCountOK, SuspendStates
  <2>2. IdleOK'
    BY <1>6, TaskAssumption DEF ListInv, IdleOK
  <2>3. BlkObjOK'
    BY <1>6 DEF ListInv, BlkObjOK, SleepStates
  <2> QED
    BY <2>1, <2>2, <2>3
<1> QED
  BY <1>3, <1>4, <1>5, <1>6, <1>7, <1>8, <1>9 DEF ListInv

\* A wait ends in a loop: everything else stays disabled.
LEMMA UnpendInLoop ==
  ASSUME CoreInv, NEW t \in Task, unpend(t), crit # NoCrit, crit' # NoCrit,
         NEW b \in BlkState, blk_state' = [blk_state EXCEPT ![t] = b],
         UNCHANGED <<prio, suspend_count, rrVars, g_tick_count, cpuVars, callVars>>
  PROVE  CoreInv' /\ \A o \in Obj : blk_list[o] = << >> => blk_list'[o] = << >>
<1>1. /\ ListInv'
      /\ task_state' \in [Task -> TaskState] /\ blk_obj' \in [Task -> Obj \cup {NoObj}]
      /\ tick_match' \in [Task -> 0 .. TickMod - 1] /\ g_tick_head' \in Seq(Task)
      /\ blk_list' \in [Obj -> Seq(Task)] /\ g_ready_queue' \in QueueType
      /\ task_state[t] # "K_RDY" /\ \A u \in Task \ {t} : task_state'[u] = task_state[u]
      /\ \A o \in Obj : ToSet(blk_list'[o]) = ToSet(blk_list[o]) \ {t}
  BY Unpend DEF CoreInv
<1>2. CoreTypeOK'
  BY <1>1 DEF CoreInv, CoreTypeOK, QueueType, rrVars, cpuVars, callVars
<1>3. CallInv'
  BY <1>1 DEF CoreInv, CoreTypeOK, CallInv, RunsOnlyReady, LockHolderReady, PriArgOK, cpuVars, callVars
<1>4. ASSUME NEW o \in Obj, blk_list[o] = << >> PROVE blk_list'[o] = << >>
  <2>1. blk_list[o] \in Seq(Task) /\ blk_list'[o] \in Seq(Task)
    BY <1>1 DEF CoreInv, CoreTypeOK
  <2>2. ToSet(blk_list'[o]) = {}
    BY <1>1, <1>4, <2>1, NoElements
  <2> QED
    BY <2>1, <2>2, NoElements
<1> QED
  BY <1>1, <1>2, <1>3, <1>4 DEF CoreInv

\* No step of the core makes a task wait for an object, and none enters a loop
\* other than the tick handler's.
LEMMA CoreNoWaiter ==
  ASSUME CoreInv, CoreNext
  PROVE  /\ \A u \in Task : task_state'[u] \in PendStates =>
                              task_state[u] \in PendStates /\ blk_obj'[u] = blk_obj[u]
         /\ crit' \in {crit, NoCrit, ErrCrit, [op |-> "tick", obj |-> NoObj]}
         /\ crit = NoCrit \/ crit.op = "tick"
<1>1. CASE KernelStep
  BY <1>1 DEF KernelStep, core_sched, pend_state_end_proc, krhino_intrpt_enter, krhino_intrpt_exit,
     tick_list_update, tick_sleep_end, tick_list_done, time_slice_update, tcbVars, PendStates,
     CoreInv, CoreTypeOK
<1>2. CASE LockService \/ SleepService \/ RRService
  BY <1>2 DEF LockService, SleepService, RRService, krhino_sched_disable, krhino_sched_enable,
     krhino_task_yield, krhino_task_sleep, krhino_task_time_slice_set, krhino_sched_policy_set,
     TaskCall, tcbVars, PendStates, CoreInv, CoreTypeOK
<1>3. CASE SuspendService
  <2>1. PICK t \in Task : krhino_task_suspend(t) \/ krhino_task_resume(t)
    BY <1>3 DEF SuspendService
  <2>2. crit = NoCrit /\ crit' = crit /\ blk_obj' = blk_obj
    BY <2>1 DEF krhino_task_suspend, krhino_task_resume, AnyCall, TaskCall, IntrptCall
  <2>3. CASE krhino_task_suspend(t)
    <3>1. \/ task_state' = task_state
          \/ /\ task_state[t] \in {"K_RDY", "K_SLEEP", "K_PEND"}
             /\ task_state' = [task_state EXCEPT ![t] = Suspended(task_state[t])]
      BY <2>3 DEF krhino_task_suspend, CoreInv, CoreTypeOK
    <3> QED
      BY <2>2, <3>1 DEF Suspended, PendStates, CoreInv, CoreTypeOK
  <2>4. CASE krhino_task_resume(t)
    <3>1. \/ task_state' = task_state
          \/ /\ task_state[t] \in SuspendStates
             /\ task_state' = [task_state EXCEPT ![t] = Resumed(task_state[t])]
      BY <2>4 DEF krhino_task_resume, CoreInv, CoreTypeOK
    <3> QED
      BY <2>2, <3>1 DEF Resumed, PendStates, SuspendStates, CoreInv, CoreTypeOK
  <2> QED
    BY <2>1, <2>3, <2>4
<1>4. CASE TaskService
  <2>1. ASSUME NEW t, NEW p, NEW autorun, krhino_task_create(t, p, autorun)
        PROVE  /\ crit = NoCrit /\ crit' = crit
               /\ \A u \in Task : task_state'[u] \in PendStates =>
                                    task_state[u] \in PendStates /\ blk_obj'[u] = blk_obj[u]
    <3>1. /\ crit = NoCrit /\ crit' = crit
          /\ \E st \in {"K_RDY", "K_SUSPENDED"} : task_state' = [task_state EXCEPT ![t] = st]
          /\ blk_obj' = [blk_obj EXCEPT ![t] = NoObj]
      BY <2>1 DEF krhino_task_create, TaskCall
    <3> QED
      BY <3>1 DEF PendStates, CoreInv, CoreTypeOK
  <2>2. ASSUME NEW t, NEW p, krhino_task_pri_change(t, p) \/ pri_change_plain(t, p)
        PROVE  /\ crit = NoCrit /\ crit' \in {crit, ErrCrit}
               /\ task_state' = task_state /\ blk_obj' = blk_obj
    BY <2>2 DEF krhino_task_pri_change, pri_change_plain, PriChangeEnter, TaskCall, tcbVars
  <2>3. ASSUME NEW t \in Task, task_del_plain(t)
        PROVE  /\ crit = NoCrit /\ crit' = crit
               /\ task_state' = [task_state EXCEPT ![t] = "K_DELETED"] /\ blk_obj' = blk_obj
    BY <2>3 DEF task_del_plain, TaskDelEnter, task_unlink, TaskCall
  <2>4. ASSUME task_del_idle
        PROVE  crit = NoCrit /\ crit' = crit /\ task_state' = task_state /\ blk_obj' = blk_obj
    BY <2>4 DEF task_del_idle, TaskCall, tcbVars
  <2>5. CASE \E new \in NewTask : krhino_task_create(new[1], new[2], new[3])
    BY <2>1, <2>5
  <2>6. CASE \E new \in NewPri : krhino_task_pri_change(new[1], new[2]) \/ pri_change_plain(new[1], new[2])
    <3>1. /\ crit = NoCrit /\ crit' \in {crit, ErrCrit}
          /\ task_state' = task_state /\ blk_obj' = blk_obj
      BY <2>2, <2>6
    <3> QED
      BY <3>1
  <2>7. CASE \E t \in Task : task_del_plain(t)
    BY <2>3, <2>7 DEF PendStates, CoreInv, CoreTypeOK
  <2>8. CASE task_del_idle
    BY <2>4, <2>8
  <2> QED
    BY <1>4, <2>5, <2>6, <2>7, <2>8 DEF TaskService
<1> QED
  BY <1>1, <1>2, <1>3, <1>4 DEF CoreNext

\* A step that changes nothing of the core.
LEMMA CoreKept ==
  ASSUME CoreInv, UNCHANGED coreVars
  PROVE  /\ CoreInv' /\ crit' = crit /\ isr' = isr /\ pc' = pc /\ g_active_task' = g_active_task
         /\ blk_list' = blk_list
<1>1. CoreInv'
  BY CoreStutter_Inv
<1> QED
  BY <1>1 DEF coreVars, cpuVars, callVars, queueVars

\* A service enters a loop, or goes on in one: nothing of the core changes but crit.
LEMMA EnterLoop ==
  ASSUME CoreInv, crit' # NoCrit,
         UNCHANGED <<tcbVars, rrVars, queueVars, g_tick_count, cpuVars, callVars>>
  PROVE  CoreInv'
<1>1. ListInv'
  BY ListsKept DEF CoreInv
<1>2. CoreTypeOK'
  BY DEF CoreInv, CoreTypeOK, tcbVars, rrVars, queueVars, cpuVars, callVars
<1>3. CallInv'
  BY DEF CoreInv, CallInv, RunsOnlyReady, LockHolderReady, PriArgOK, tcbVars, cpuVars, callVars
<1> QED
  BY <1>1, <1>2, <1>3 DEF CoreInv
-----------------------------------------------------------------------------
(***************************************************************************)
(* The order of things: the task that runs is the first of the highest     *)
(* priority, waiters stand in order of priority, the tick list is in order *)
(* of the time that remains and every timeout is handled in its own tick.  *)
(***************************************************************************)
\* RunsHighest, for a task at the end of a blocking call too: it goes on to its own code
\* without another look at the ready queue.
RunsFirst ==
  /\ isr = "none" /\ crit = NoCrit /\ pc[g_active_task] \in {"user", "pri_change", "pend_end"}
  /\ g_sched_lock = 0
  => g_active_task = preferred_cpu_ready_task_get(g_ready_queue)

\* The timeouts the application asks for are below half the range of tick_t: a longer one is
\* taken for overdue by the sign of its distance (tick_list_update).
ShortTimeouts == \A ticks \in Ticks : ticks < TickMod \div 2

\* The ticks that remain to each task.
Until == [t \in Task |-> TicksUntil(tick_match[t])]

\* The tick list is sorted, also while tick_list_update takes the tasks that are due off it.
TickOrder ==
  /\ Ascending(g_tick_head, Until)
  /\ \A t \in ToSet(g_tick_head) : /\ Until[t] < TickMod \div 2
                                   /\ crit.op # "tick" => Until[t] > 0
-----------------------------------------------------------------------------
(***************************************************************************)
(* The task that runs.                                                     *)
(***************************************************************************)
\* Nothing that matters to the scheduler changes.
LEMMA Runs_Same ==
  ASSUME RunsFirst, UNCHANGED <<g_active_task, isr, g_ready_queue>>,
         crit' = NoCrit => crit = NoCrit,
         g_sched_lock' = 0 => g_sched_lock = 0,
         pc'[g_active_task] \in {"user", "pri_change", "pend_end"} =>
           pc[g_active_task] \in {"user", "pri_change", "pend_end"}
  PROVE  RunsFirst'
  BY DEF RunsFirst

\* The kernel is left through core_sched, or not in a task's code.
LEMMA Runs_Owed ==
  ASSUME UNCHANGED g_active_task,
         isr' # "none" \/ crit' # NoCrit \/ pc'[g_active_task] \in {"sched", "pend_sched"}
  PROVE  RunsFirst'
  BY DEF RunsFirst

\* The scheduler runs.
LEMMA Runs_Switch ==
  ASSUME g_active_task' = SwitchTo, UNCHANGED <<g_sched_lock, g_ready_queue>>,
         g_sched_lock \in Nat
  PROVE  RunsFirst'
  BY DEF RunsFirst, SwitchTo

LEMMA ExitSched ==
  ASSUME CoreInv, RHINO_CRITICAL_EXIT_SCHED
  PROVE  isr = "none" => pc'[g_active_task] = "sched"
  BY DEF RHINO_CRITICAL_EXIT_SCHED, CoreInv, CoreTypeOK

LEMMA KernelStep_Runs ==
  ASSUME CoreInv, RunsFirst, KernelStep PROVE RunsFirst'
<1> USE DEF cpuVars, queueVars, callVars, tcbVars
<1>1. g_sched_lock \in Nat
  BY BoundAssumption DEF CoreInv, CoreTypeOK
<1>2. CASE core_sched
  BY <1>1, <1>2, Runs_Switch DEF core_sched
<1>3. CASE pend_state_end_proc
  BY <1>3, Runs_Same DEF pend_state_end_proc
<1>4. CASE krhino_intrpt_enter("tick") \/ krhino_intrpt_enter("dev")
  BY <1>4, Runs_Owed DEF krhino_intrpt_enter
<1>5. CASE krhino_intrpt_exit
  BY <1>1, <1>5, Runs_Switch DEF krhino_intrpt_exit
<1>6. CASE tick_list_update
  BY <1>6, Runs_Owed DEF tick_list_update
<1>7. CASE \E t \in Task : tick_sleep_end(t)
  BY <1>7, Runs_Owed DEF tick_sleep_end, NoCrit
<1>8. CASE tick_list_done
  BY <1>8, Runs_Owed DEF tick_list_done
<1>9. CASE time_slice_update
  BY <1>9, Runs_Owed DEF time_slice_update
<1> QED
  BY <1>2, <1>3, <1>4, <1>5, <1>6, <1>7, <1>8, <1>9 DEF KernelStep

LEMMA Service_Runs ==
  ASSUME CoreInv, RunsFirst, LockService \/ SleepService \/ SuspendService \/ RRService
  PROVE  RunsFirst'
<1> USE DEF cpuVars, queueVars, callVars, tcbVars
<1>1. g_active_task \in Task /\ pc \in [Task -> {"user", "sched", "pend_sched", "pend_end", "pri_change"}]
      /\ g_sched_lock \in Nat
  BY BoundAssumption DEF CoreInv, CoreTypeOK
<1>2. CASE LockService
  <2>1. CASE krhino_sched_disable
    BY <1>1, <2>1, Runs_Same DEF krhino_sched_disable
  <2>2. CASE krhino_sched_enable /\ g_sched_lock = 1
    BY <2>2, ExitSched, Runs_Owed DEF krhino_sched_enable
  <2>3. CASE krhino_sched_enable /\ g_sched_lock # 1
    BY <1>1, <2>3, Runs_Same DEF krhino_sched_enable
  <2> QED
    BY <1>2, <2>1, <2>2, <2>3 DEF LockService
<1>3. CASE SleepService
  <2>1. CASE krhino_task_yield
    BY <2>1, ExitSched, Runs_Owed DEF krhino_task_yield
  <2>2. CASE \E ticks \in Ticks : krhino_task_sleep(ticks)
    BY <1>1, <2>2, Runs_Owed DEF krhino_task_sleep, PendExitSched
  <2> QED
    BY <1>3, <2>1, <2>2 DEF SleepService
<1>4. CASE SuspendService
  BY <1>4, ExitSched, Runs_Owed DEF SuspendService, krhino_task_suspend, krhino_task_resume
<1>5. CASE RRService
  BY <1>5, Runs_Same DEF RRService, krhino_task_time_slice_set, krhino_sched_policy_set
<1> QED
  BY <1>2, <1>3, <1>4, <1>5

LEMMA TaskService_Runs ==
  ASSUME CoreInv, RunsFirst, TaskService PROVE RunsFirst'
<1> USE DEF cpuVars, queueVars, callVars, tcbVars
<1>1. g_active_task \in Task /\ pc \in [Task -> {"user", "sched", "pend_sched", "pend_end", "pri_change"}]
  BY DEF CoreInv, CoreTypeOK
<1>2. ASSUME NEW t, NEW p, NEW autorun, krhino_task_create(t, p, autorun) PROVE RunsFirst'
  <2>1. /\ pc' = [pc EXCEPT ![t] = "user", ![g_active_task] = IF autorun THEN "sched" ELSE "user"]
        /\ UNCHANGED <<g_active_task, g_sched_lock, isr, crit>>
        /\ pc[g_active_task] = "user"
    BY <1>2 DEF krhino_task_create, TaskCall
  <2>2. CASE autorun
    BY <1>1, <2>1, <2>2, Runs_Owed
  <2>3. CASE ~autorun
    BY <1>1, <1>2, <2>1, <2>3, Runs_Same DEF krhino_task_create
  <2> QED
    BY <2>2, <2>3
<1>3. ASSUME NEW t, NEW p, krhino_task_pri_change(t, p) PROVE RunsFirst'
  BY <1>1, <1>3, Runs_Same DEF krhino_task_pri_change, TaskCall
<1>4. ASSUME NEW t, NEW p, pri_change_plain(t, p) PROVE RunsFirst'
  <2>1. /\ UNCHANGED <<g_active_task, isr>>
        /\ crit' = ErrCrit \/ pc' = [pc EXCEPT ![g_active_task] = "sched"]
    BY <1>4 DEF pri_change_plain
  <2>2. ErrCrit # NoCrit
    BY DEF ErrCrit, NoCrit
  <2> QED
    BY <1>1, <2>1, <2>2, Runs_Owed
<1>5. ASSUME NEW t, task_del_plain(t) PROVE RunsFirst'
  BY <1>5, ExitSched, Runs_Owed DEF task_del_plain
<1>6. CASE task_del_idle
  BY <1>6, Runs_Same DEF task_del_idle
<1> QED
  BY <1>2, <1>3, <1>4, <1>5, <1>6 DEF TaskService

LEMMA CoreNext_Runs ==
  ASSUME CoreInv, RunsFirst, CoreNext PROVE RunsFirst'
  BY KernelStep_Runs, Service_Runs, TaskService_Runs DEF CoreNext

LEMMA Init_Runs == CoreInit => RunsFirst
<1> SUFFICES ASSUME CoreInit PROVE RunsFirst
  OBVIOUS
<1>1. MainPri \in Prio /\ Head(<<Main>>) = Main
  BY PriAssumption DEF Prio
<1>2. preferred_cpu_ready_task_get(g_ready_queue) = Main
  BY <1>1 DEF CoreInit, preferred_cpu_ready_task_get
<1> QED
  BY <1>2 DEF CoreInit, RunsFirst

\* Strict priority scheduling, whatever the tasks and the interrupt handlers call: when a task
\* runs its own code with the scheduler unlocked, it is the first of the highest priority.
THEOREM HighestRuns == CoreSpec => []RunsHighest
<1>2. CoreInv /\ RunsFirst /\ [CoreNext]_coreVars => RunsFirst'
  <2>1. ASSUME RunsFirst, UNCHANGED coreVars PROVE RunsFirst'
    BY <2>1 DEF RunsFirst, coreVars, cpuVars, queueVars, callVars
  <2> QED
    BY <2>1, CoreNext_Runs
<1>3. RunsFirst => RunsHighest
  BY DEF RunsFirst, RunsHighest, RunningCode
<1> QED
  BY <1>2, <1>3, Init_Runs, CoreInvariant, PTL DEF CoreSpec
-----------------------------------------------------------------------------
(***************************************************************************)
(* The tick list.                                                          *)
(***************************************************************************)
LEMMA ModOnce ==
  ASSUME NEW n \in Nat, n > 0, NEW a \in Int, -n <= a, a < n + n
  PROVE  a % n = IF a < 0 THEN a + n ELSE IF a < n THEN a ELSE a - n
  OBVIOUS

LEMMA TickRange ==
  /\ TickMod \in Nat /\ TickMod \div 2 \in Nat /\ TickMod = 2 * (TickMod \div 2)
  /\ TickMod \div 2 >= 1 /\ TickMod > 0
  BY TickAssumption

\* The unsigned distance, as tick_t arithmetic gives it.
LEMMA Distance ==
  ASSUME NEW m \in 0 .. TickMod - 1, NEW c \in 0 .. TickMod - 1
  PROVE  (m - c) % TickMod = IF m < c THEN m - c + TickMod ELSE m - c
<1> DEFINE d == m - c
<1>1. d \in Int /\ -TickMod <= d /\ d < TickMod /\ (d < 0 <=> m < c) /\ d < TickMod + TickMod
  BY TickRange
<1>2. TickMod \in Nat /\ TickMod > 0
  BY TickRange
<1> HIDE DEF d
<1>3. d % TickMod = IF d < 0 THEN d + TickMod ELSE IF d < TickMod THEN d ELSE d - TickMod
  BY ONLY <1>1, <1>2, ModOnce
<1> QED
  BY <1>1, <1>3 DEF d

LEMMA Later ==
  ASSUME NEW c \in 0 .. TickMod - 1, NEW time \in 0 .. TickMod - 1
  PROVE  /\ (c + time) % TickMod = (IF c + time < TickMod THEN c + time ELSE c + time - TickMod)
         /\ (c + time) % TickMod \in 0 .. TickMod - 1
<1>1. PICK d \in Int : d = c + time
  BY TickRange
<1>2. TickMod \in Nat /\ TickMod > 0 /\ -TickMod <= d /\ d < TickMod + TickMod /\ ~(d < 0)
  BY <1>1, TickRange
<1>3. d % TickMod = IF d < 0 THEN d + TickMod ELSE IF d < TickMod THEN d ELSE d - TickMod
  BY ONLY <1>2, ModOnce, d \in Int
<1>4. d % TickMod = (IF d < TickMod THEN d ELSE d - TickMod) /\ d % TickMod \in 0 .. TickMod - 1
  BY <1>2, <1>3
<1> QED
  BY <1>1, <1>2, <1>4

\* A task that was inserted `time' ticks ahead has that time.
LEMMA InsertDistance ==
  ASSUME NEW c \in 0 .. TickMod - 1, NEW time \in 0 .. TickMod - 1
  PROVE  (((c + time) % TickMod) - c) % TickMod = time
<1> DEFINE m == (c + time) % TickMod
<1>1. m = (IF c + time < TickMod THEN c + time ELSE c + time - TickMod) /\ m \in 0 .. TickMod - 1
  BY Later
<1> HIDE DEF m
<1>2. (m - c) % TickMod = IF m < c THEN m - c + TickMod ELSE m - c
  BY <1>1, Distance
<1>3. (m - c) % TickMod = time
  BY <1>1, <1>2, TickRange
<1> QED
  BY <1>3 DEF m

\* A tick takes one off every distance that is not 0.
LEMMA TickDistance ==
  ASSUME NEW c \in 0 .. TickMod - 1, NEW m \in 0 .. TickMod - 1, (m - c) % TickMod > 0,
         NEW e, e = (c + 1) % TickMod
  PROVE  (m - e) % TickMod = ((m - c) % TickMod) - 1
<1>1. 1 \in 0 .. TickMod - 1
  BY TickRange
<1>2. e \in 0 .. TickMod - 1 /\ e = (IF c + 1 < TickMod THEN c + 1 ELSE c + 1 - TickMod)
  BY <1>1, Later
<1>3. (m - e) % TickMod = IF m < e THEN m - e + TickMod ELSE m - e
  BY <1>2, Distance
<1>4. (m - c) % TickMod = IF m < c THEN m - c + TickMod ELSE m - c
  BY Distance
<1>5. m # c
  BY <1>4
<1>6. (m - e) % TickMod = ((m - c) % TickMod) - 1
  <2>1. e = IF c + 1 < TickMod THEN c + 1 ELSE c + 1 - TickMod
    BY <1>2
  <2> QED
    BY <1>3, <1>4, <1>5, <2>1, TickRange
<1> QED
  BY <1>6

\* No distance is left only between equal times.
LEMMA NoDistance ==
  ASSUME NEW c \in 0 .. TickMod - 1, NEW m \in 0 .. TickMod - 1, (m - c) % TickMod = 0
  PROVE  m = c
<1>1. (m - c) % TickMod = IF m < c THEN m - c + TickMod ELSE m - c
  BY Distance
<1> QED
  BY <1>1, TickRange

LEMMA UntilValue ==
  ASSUME CoreTypeOK
  PROVE  /\ g_tick_count \in 0 .. TickMod - 1 /\ g_tick_head \in Seq(Task)
         /\ ToSet(g_tick_head) \subseteq Task
         /\ Until \in [Task -> Int]
         /\ \A t \in Task : /\ tick_match[t] \in 0 .. TickMod - 1
                            /\ Until[t] = (tick_match[t] - g_tick_count) % TickMod
                            /\ Until[t] \in 0 .. TickMod - 1
<1>1. /\ g_tick_count \in 0 .. TickMod - 1 /\ g_tick_head \in Seq(Task)
      /\ \A t \in Task : tick_match[t] \in 0 .. TickMod - 1
  BY DEF CoreTypeOK
<1>2. ASSUME NEW t \in Task
      PROVE  /\ Until[t] = (tick_match[t] - g_tick_count) % TickMod
             /\ Until[t] \in 0 .. TickMod - 1
  <2> DEFINE d == tick_match[t] - g_tick_count
  <2>1. d \in Int /\ TickMod \in Nat \ {0}
    BY <1>1, TickRange
  <2>2. Until[t] = d % TickMod
    BY DEF Until, TicksUntil
  <2> HIDE DEF d
  <2>3. d % TickMod \in 0 .. TickMod - 1
    BY <2>1, ModRange
  <2> QED
    BY ONLY <2>2, <2>3 DEF d
<1>3. Until \in [Task -> Int]
  BY <1>2, TickRange DEF Until
<1> QED
  BY <1>1, <1>2, <1>3, ToSetByIndex

\* Steps that leave the list alone.
LEMMA TickOrder_Same ==
  ASSUME CoreTypeOK, TickOrder, UNCHANGED <<g_tick_head, g_tick_count>>,
         \A t \in ToSet(g_tick_head) : tick_match'[t] = tick_match[t],
         crit'.op # "tick" => crit.op # "tick"
  PROVE  TickOrder'
<1>1. g_tick_head \in Seq(Task) /\ ToSet(g_tick_head) \subseteq Task
  BY UntilValue
<1>2. \A t \in ToSet(g_tick_head) : Until[t] = Until'[t]
  BY <1>1 DEF Until, TicksUntil
<1>3. Ascending(g_tick_head, Until')
  BY <1>1, <1>2, AscendingSame DEF TickOrder
<1> QED
  BY <1>2, <1>3 DEF TickOrder

\* A task goes off the list, in whatever loop.
LEMMA TickOrder_Rm ==
  ASSUME CoreTypeOK, TickListOK, TickOrder, NEW u \in Task, tick_list_rm(u), UNCHANGED g_tick_count,
         crit'.op # "tick" => crit.op # "tick"
  PROVE  TickOrder'
<1>1. CASE u \notin ToSet(g_tick_head)
  BY <1>1, TickOrder_Same DEF tick_list_rm
<1>2. CASE u \in ToSet(g_tick_head)
  <2>1. /\ g_tick_head' = klist_rm(g_tick_head, u)
        /\ tick_match' = [tick_match EXCEPT ![u] = 0]
    BY <1>2 DEF tick_list_rm
  <2>2. /\ g_tick_head \in Seq(Task) /\ ToSet(g_tick_head) \subseteq Task
        /\ tick_match \in [Task -> 0 .. TickMod - 1]
    BY UntilValue DEF CoreTypeOK
  <2>3. g_tick_head' \in Seq(Task) /\ ToSet(g_tick_head') = ToSet(g_tick_head) \ {u}
    BY TickRm
  <2>4. \A t \in ToSet(g_tick_head') : t \in ToSet(g_tick_head) /\ Until[t] = Until'[t]
    BY <2>1, <2>2, <2>3 DEF Until, TicksUntil
  <2>5. Ascending(g_tick_head', Until)
    BY <1>2, <2>1, <2>2, RmAscending DEF TickOrder
  <2>6. Ascending(g_tick_head', Until')
    BY <2>3, <2>4, <2>5, AscendingSame
  <2> QED
    BY <2>4, <2>6 DEF TickOrder
<1> QED
  BY <1>1, <1>2

\* A task goes on the list, a time below half the range ahead.
LEMMA TickOrder_Insert ==
  ASSUME CoreTypeOK, TickListOK, TickOrder, NEW u \in Task, u \notin ToSet(g_tick_head),
         NEW time \in 1 .. (TickMod \div 2) - 1, tick_list_insert(u, time), UNCHANGED g_tick_count,
         crit'.op # "tick" => crit.op # "tick"
  PROVE  TickOrder'
<1> DEFINE s == g_tick_head
           m == (g_tick_count + time) % TickMod
<1>1. /\ g_tick_count \in 0 .. TickMod - 1 /\ s \in Seq(Task) /\ ToSet(s) \subseteq Task
      /\ time \in 0 .. TickMod - 1 /\ tick_match \in [Task -> 0 .. TickMod - 1]
  <2>1. time \in 0 .. TickMod - 1
    BY TickRange
  <2> QED
    BY <2>1, UntilValue DEF CoreTypeOK
<1>2. tick_match' = [tick_match EXCEPT ![u] = m] /\ m \in 0 .. TickMod - 1
      /\ (m - g_tick_count) % TickMod = time
  BY <1>1, Later, InsertDistance DEF tick_list_insert
<1> HIDE DEF m
<1>3. Until'[u] = time /\ \A t \in Task \ {u} : Until'[t] = Until[t]
  BY <1>1, <1>2 DEF Until, TicksUntil
<1>4. Until' \in [Task -> Int]
  <2>1. \A t \in Task : Until'[t] \in Int
    BY <1>1, <1>3, UntilValue, TickRange
  <2>2. Until' = [t \in Task |-> Until'[t]]
    BY DEF Until
  <2> QED
    BY <2>1, <2>2
<1>5. \A t \in ToSet(s) : Until[t] = Until'[t] /\ TicksUntil(tick_match[t]) = Until[t]
  BY <1>1, <1>3 DEF Until
<1>6. Ascending(s, Until')
  BY <1>1, <1>5, AscendingSame DEF TickOrder
<1>7. \A i \in DOMAIN s : s[i] \in ToSet(s)
  BY <1>1, ToSetByIndex
<1>8. {i \in DOMAIN s : TicksUntil(tick_match[s[i]]) > time} = {i \in DOMAIN s : Until'[s[i]] > Until'[u]}
  BY <1>3, <1>5, <1>7
<1>9. g_tick_head' = klist_insert(s, ScanStop(s, {i \in DOMAIN s : Until'[s[i]] > Until'[u]}), u)
  BY <1>8 DEF tick_list_insert
<1>10. Ascending(g_tick_head', Until')
  <2>1. Ascending(klist_insert(s, ScanStop(s, {i \in DOMAIN s : Until'[s[i]] > Until'[u]}), u), Until')
    BY <1>1, <1>4, <1>6, InsertAscending
  <2> QED
    BY <1>9, <2>1
<1>11. ToSet(g_tick_head') = ToSet(s) \cup {u}
  BY <1>1, TickInsert
<1>12. \A t \in ToSet(g_tick_head') : /\ Until'[t] < TickMod \div 2
                                      /\ crit'.op # "tick" => Until'[t] > 0
  BY <1>3, <1>5, <1>11, TickRange DEF TickOrder
<1> QED
  BY <1>10, <1>12 DEF TickOrder

\* A tick brings every task one tick nearer, and none is passed over.
LEMMA TickOrder_Tick ==
  ASSUME CoreTypeOK, TickOrder, tick_list_update
  PROVE  TickOrder'
<1>1. /\ crit = NoCrit /\ g_tick_count' = (g_tick_count + 1) % TickMod /\ crit'.op = "tick"
      /\ UNCHANGED <<tick_match, g_tick_head>>
  BY DEF tick_list_update, tcbVars, queueVars
<1>2. /\ g_tick_count \in 0 .. TickMod - 1 /\ g_tick_head \in Seq(Task) /\ ToSet(g_tick_head) \subseteq Task
      /\ \A t \in Task : /\ tick_match[t] \in 0 .. TickMod - 1 /\ Until[t] \in Int
                         /\ Until[t] = (tick_match[t] - g_tick_count) % TickMod
  BY UntilValue, TickRange
<1>3. ASSUME NEW t \in ToSet(g_tick_head)
      PROVE  Until'[t] = Until[t] - 1 /\ Until[t] \in Int /\ Until[t] < TickMod \div 2
  <2>1. t \in Task /\ Until[t] > 0 /\ Until[t] < TickMod \div 2 /\ Until[t] \in Int
    BY <1>1, <1>2 DEF TickOrder, NoCrit
  <2>2. PICK e : e = (g_tick_count + 1) % TickMod
    OBVIOUS
  <2>3. (tick_match[t] - g_tick_count) % TickMod > 0
    BY <1>2, <2>1
  <2>4. (tick_match[t] - e) % TickMod = ((tick_match[t] - g_tick_count) % TickMod) - 1
    BY <1>2, <2>1, <2>2, <2>3, TickDistance
  <2>5. Until'[t] = (tick_match'[t] - g_tick_count') % TickMod
    BY <2>1 DEF Until, TicksUntil
  <2>6. tick_match'[t] = tick_match[t] /\ g_tick_count' = e
    BY <1>1, <2>2
  <2>7. Until'[t] = (tick_match[t] - e) % TickMod
    BY <2>5, <2>6, Zenon
  <2> QED
    BY <1>2, <2>1, <2>4, <2>7
<1>4. \A i \in 1 .. Len(g_tick_head) : /\ Until'[g_tick_head[i]] = Until[g_tick_head[i]] - 1
                                       /\ Until[g_tick_head[i]] \in Int
  BY <1>2, <1>3, ToSetByIndex
<1>5. Ascending(g_tick_head, Until')
  BY <1>4 DEF Ascending, TickOrder
<1>6. \A t \in ToSet(g_tick_head) : Until'[t] < TickMod \div 2
  BY <1>3, TickRange
<1> QED
  BY <1>1, <1>5, <1>6 DEF TickOrder

\* The first task of the list, and what it is to be due.
LEMMA HeadDue ==
  ASSUME CoreTypeOK, TickListOK, TickOrder, g_tick_head # << >>
  PROVE  /\ Head(g_tick_head) \in ToSet(g_tick_head) /\ Head(g_tick_head) \in Task
         /\ \A t \in ToSet(g_tick_head) : Until[Head(g_tick_head)] <= Until[t]
         /\ TickDue <=> Until[Head(g_tick_head)] = 0
<1> DEFINE h == Head(g_tick_head)
<1>1. /\ g_tick_head \in Seq(Task) /\ IsInjective(g_tick_head) /\ ToSet(g_tick_head) \subseteq Task
      /\ \A t \in Task : Until[t] \in Int
  BY UntilValue, TickRange DEF TickListOK
<1>2. h \in ToSet(g_tick_head) /\ h \in Task /\ h = g_tick_head[1] /\ Len(g_tick_head) \in Nat \ {0}
  BY <1>1, TailProperties
<1>3. ASSUME NEW t \in ToSet(g_tick_head) PROVE Until[h] <= Until[t]
  <2>1. PICK k \in 1 .. Len(g_tick_head) : g_tick_head[k] = t
    BY <1>1, ToSetByIndex
  <2>2. 1 \in 1 .. Len(g_tick_head) /\ (k = 1 \/ 1 < k)
    BY <1>2
  <2>3. CASE 1 < k
    BY <1>2, <2>1, <2>2, <2>3 DEF TickOrder, Ascending
  <2>4. CASE k = 1
    BY <1>1, <1>2, <2>1, <2>4
  <2> QED
    BY <2>2, <2>3, <2>4
<1>4. TickDue <=> Until[h] = 0 \/ Until[h] >= TickMod \div 2
  BY <1>2 DEF TickDue, Expired, Until
<1>5. Until[h] < TickMod \div 2
  BY <1>2 DEF TickOrder
<1> QED
  BY <1>1, <1>2, <1>3, <1>4, <1>5, TickRange

\* The loop of tick_list_update ends when no task is due.
LEMMA TickOrder_Done ==
  ASSUME CoreTypeOK, TickListOK, TickOrder, tick_list_done
  PROVE  TickOrder'
<1>1. /\ crit.op = "tick" /\ ~TickDue /\ UNCHANGED <<tick_match, g_tick_head, g_tick_count>>
  BY DEF tick_list_done, tcbVars, queueVars
<1>2. \A t \in ToSet(g_tick_head) : Until[t] > 0
  <2>1. ASSUME NEW t \in ToSet(g_tick_head) PROVE Until[t] > 0
    <3>1. g_tick_head # << >>
      BY DEF ToSet
    <3>2. Until[Head(g_tick_head)] # 0 /\ Until[Head(g_tick_head)] <= Until[t] /\ Head(g_tick_head) \in Task
      BY <1>1, <3>1, HeadDue
    <3>3. Until[Head(g_tick_head)] \in Nat /\ Until[t] \in Nat
      BY <3>2, UntilValue, TickRange
    <3> QED
      BY <3>2, <3>3
  <2> QED
    BY <2>1
<1>3. Until' = Until
  BY <1>1 DEF Until, TicksUntil
<1> QED
  BY <1>1, <1>2, <1>3 DEF TickOrder

LEMMA KernelStep_Tick ==
  ASSUME CoreInv, TickOrder, KernelStep PROVE TickOrder'
<1> USE DEF queueVars, tcbVars
<1>1. CoreTypeOK /\ TickListOK
  BY DEF CoreInv, ListInv
<1>2. CASE core_sched \/ pend_state_end_proc \/ krhino_intrpt_enter("tick")
           \/ krhino_intrpt_enter("dev") \/ krhino_intrpt_exit \/ time_slice_update
  <2>1. UNCHANGED <<g_tick_head, g_tick_count, tick_match, crit>>
    BY <1>2 DEF core_sched, pend_state_end_proc, krhino_intrpt_enter, krhino_intrpt_exit,
       time_slice_update
  <2> QED
    BY <1>1, <2>1, TickOrder_Same
<1>3. CASE tick_list_update
  BY <1>1, <1>3, TickOrder_Tick
<1>4. CASE \E t \in Task : tick_sleep_end(t)
  BY <1>1, <1>4, TickOrder_Rm DEF tick_sleep_end
<1>5. CASE tick_list_done
  BY <1>1, <1>5, TickOrder_Done
<1> QED
  BY <1>2, <1>3, <1>4, <1>5 DEF KernelStep

LEMMA Service_Tick ==
  ASSUME CoreInv, TickOrder, ShortTimeouts, LockService \/ SleepService \/ SuspendService \/ RRService
  PROVE  TickOrder'
<1> USE DEF queueVars, tcbVars
<1>1. CoreTypeOK /\ TickListOK
  BY DEF CoreInv, ListInv
<1>2. CASE LockService \/ SuspendService \/ RRService \/ krhino_task_yield
  <2>1. UNCHANGED <<g_tick_head, g_tick_count, tick_match, crit>>
    BY <1>2 DEF LockService, krhino_sched_disable, krhino_sched_enable,
       SuspendService, krhino_task_suspend, krhino_task_resume, RRService,
       krhino_task_time_slice_set, krhino_sched_policy_set, krhino_task_yield
  <2> QED
    BY <1>1, <2>1, TickOrder_Same
<1>3. ASSUME NEW ticks \in Ticks, krhino_task_sleep(ticks) PROVE TickOrder'
  <2>1. /\ ticks > 0 /\ tick_list_insert(g_active_task, ticks) /\ UNCHANGED <<g_tick_count, crit>>
        /\ TaskCall("task_sleep")
    BY <1>3 DEF krhino_task_sleep
  <2>2. ticks \in 1 .. (TickMod \div 2) - 1
    BY <2>1, TickAssumption, TickRange DEF ShortTimeouts
  <2>3. g_active_task \in Task /\ g_active_task \notin ToSet(g_tick_head)
    BY <2>1 DEF TaskCall, CoreInv, CoreTypeOK, CallInv, RunsOnlyReady
  <2> QED
    BY <1>1, <2>1, <2>2, <2>3, TickOrder_Insert
<1> QED
  BY <1>2, <1>3 DEF SleepService

LEMMA TaskService_Tick ==
  ASSUME CoreInv, TickOrder, TaskService PROVE TickOrder'
<1> USE DEF queueVars, tcbVars
<1>1. CoreTypeOK /\ TickListOK /\ tick_match \in [Task -> 0 .. TickMod - 1]
      /\ ToSet(g_tick_head) \subseteq Task
  BY UntilValue DEF CoreInv, ListInv, CoreTypeOK
<1>2. ASSUME NEW t, NEW p, NEW autorun, krhino_task_create(t, p, autorun) PROVE TickOrder'
  <2>1. /\ task_state[t] \in {"K_SEED", "K_DELETED"}
        /\ tick_match' = [tick_match EXCEPT ![t] = 0] /\ UNCHANGED <<g_tick_head, g_tick_count, crit>>
    BY <1>2 DEF krhino_task_create
  <2>2. t \notin ToSet(g_tick_head)
    BY <1>1, <2>1 DEF TickListOK, PendStates, SleepStates
  <2>3. \A u \in ToSet(g_tick_head) : tick_match'[u] = tick_match[u]
    BY <1>1, <2>1, <2>2
  <2> QED
    BY <1>1, <2>1, <2>3, TickOrder_Same
<1>3. ASSUME NEW t, NEW p, krhino_task_pri_change(t, p) \/ pri_change_plain(t, p) PROVE TickOrder'
  <2>1. UNCHANGED <<g_tick_head, g_tick_count, tick_match>> /\ crit = NoCrit
    BY <1>3 DEF krhino_task_pri_change, pri_change_plain, TaskCall, PriChangeEnter
  <2> QED
    BY <1>1, <2>1, TickOrder_Same DEF NoCrit
<1>4. ASSUME NEW t \in Task, task_del_plain(t) PROVE TickOrder'
  BY <1>1, <1>4, TickOrder_Rm DEF task_del_plain, task_unlink
<1>5. CASE task_del_idle
  BY <1>1, <1>5, TickOrder_Same DEF task_del_idle
<1> QED
  BY <1>2, <1>3, <1>4, <1>5 DEF TaskService

LEMMA CoreNext_Tick ==
  ASSUME CoreInv, TickOrder, ShortTimeouts, CoreNext PROVE TickOrder'
  BY KernelStep_Tick, Service_Tick, TaskService_Tick DEF CoreNext

LEMMA Init_Tick ==
  CoreInit => TickOrder
  BY DEF CoreInit, TickOrder, Ascending, ToSet

LEMMA TickOrderImplies ==
  ASSUME CoreInv, TickOrder PROVE TickListSorted
<1> SUFFICES ASSUME crit.op # "tick", NEW i \in DOMAIN g_tick_head, NEW j \in DOMAIN g_tick_head
             PROVE  /\ ~Expired(tick_match[g_tick_head[i]])
                    /\ i <= j => TicksUntil(tick_match[g_tick_head[i]]) <= TicksUntil(tick_match[g_tick_head[j]])
  BY DEF TickListSorted
<1>1. /\ g_tick_head \in Seq(Task) /\ \A t \in Task : Until[t] \in Int
      /\ ToSet(g_tick_head) \subseteq Task
  BY UntilValue, TickRange DEF CoreInv
<1>2. i \in 1 .. Len(g_tick_head) /\ j \in 1 .. Len(g_tick_head)
  BY <1>1
<1>3. \A k \in 1 .. Len(g_tick_head) :
        /\ g_tick_head[k] \in ToSet(g_tick_head) /\ g_tick_head[k] \in Task
        /\ TicksUntil(tick_match[g_tick_head[k]]) = Until[g_tick_head[k]]
  BY <1>1, ToSetByIndex DEF Until
<1>4. ~Expired(tick_match[g_tick_head[i]])
  BY <1>1, <1>2, <1>3, TickRange DEF Expired, TickOrder
<1>5. i < j => Until[g_tick_head[i]] <= Until[g_tick_head[j]]
  BY <1>2 DEF TickOrder, Ascending
<1>6. i = j => Until[g_tick_head[i]] <= Until[g_tick_head[j]]
  BY <1>1, <1>2, <1>3
<1> QED
  BY <1>2, <1>3, <1>4, <1>5, <1>6

\* TickOrder is an invariant.
THEOREM TickOrderInvariant ==
  ASSUME ShortTimeouts PROVE CoreSpec => []TickOrder
<1>1. CoreInv /\ TickOrder /\ [CoreNext]_coreVars => TickOrder'
  <2>1. ASSUME CoreInv, TickOrder, UNCHANGED coreVars PROVE TickOrder'
    <3>1. UNCHANGED <<g_tick_head, g_tick_count, tick_match, crit>>
      BY <2>1 DEF coreVars, queueVars, tcbVars
    <3> QED
      BY <2>1, <3>1, TickOrder_Same DEF CoreInv
  <2> QED
    BY <2>1, CoreNext_Tick
<1> QED
  BY <1>1, Init_Tick, CoreInvariant, PTL DEF CoreSpec

\* Outside tick_list_update the tick list is sorted and nothing on it is overdue, across the
\* wraps of the tick counter: tick_list_update may stop at the first task not yet due.
THEOREM TickSorted ==
  ASSUME ShortTimeouts PROVE CoreSpec => []TickListSorted
<1>1. CoreInv /\ TickOrder => TickListSorted
  BY TickOrderImplies
<1> QED
  BY <1>1, TickOrderInvariant, CoreInvariant, PTL

\* What tick_list_update takes off the list is due now.
LEMMA OnTime_Head ==
  ASSUME CoreInv, TickOrder, NEW u, TickDue, u = Head(g_tick_head), tick_list_rm(u),
         NEW t \in ToSet(g_tick_head), t \notin ToSet(g_tick_head')
  PROVE  tick_match[t] = g_tick_count
<1>1. CoreTypeOK /\ TickListOK /\ g_tick_head # << >>
  BY DEF CoreInv, ListInv, TickDue
<1>2. u \in Task
  BY <1>1, HeadDue
<1>3. t = u
  BY <1>1, <1>2, TickRm
<1>4. t \in Task /\ Until[t] = 0
  BY <1>1, <1>3, HeadDue
<1>5. /\ tick_match[t] \in 0 .. TickMod - 1 /\ g_tick_count \in 0 .. TickMod - 1
      /\ (tick_match[t] - g_tick_count) % TickMod = 0
  BY <1>1, <1>4, UntilValue
<1> QED
  BY <1>5, NoDistance

LEMMA OnTime_Core ==
  ASSUME CoreInv, TickOrder, CoreNext, NEW t \in ToSet(g_tick_head), crit.op = "tick",
         t \notin ToSet(g_tick_head')
  PROVE  tick_match[t] = g_tick_count
<1>1. crit # NoCrit
  BY DEF NoCrit
<1>2. \E u \in Task : tick_sleep_end(u)
  <2>1. ~LockService /\ ~SleepService /\ ~SuspendService /\ ~RRService /\ ~TaskService
    BY <1>1 DEF LockService, SleepService, SuspendService, RRService, TaskService,
       krhino_sched_disable, krhino_sched_enable, krhino_task_yield, krhino_task_sleep,
       krhino_task_suspend, krhino_task_resume, krhino_task_time_slice_set, krhino_sched_policy_set,
       krhino_task_create, krhino_task_pri_change, pri_change_plain, PriChangeEnter, task_del_plain,
       TaskDelEnter, task_del_idle, AnyCall, TaskCall, IntrptCall
  <2>2. ~tick_list_done
    BY DEF tick_list_done, queueVars
  <2> QED
    BY <1>1, <2>1, <2>2 DEF CoreNext, KernelStep, core_sched, pend_state_end_proc,
       krhino_intrpt_enter, krhino_intrpt_exit, tick_list_update, time_slice_update
<1>3. PICK u \in Task : tick_sleep_end(u)
  BY <1>2
<1>4. TickDue /\ u = Head(g_tick_head) /\ tick_list_rm(u)
  BY <1>3 DEF tick_sleep_end
<1> QED
  BY <1>4, OnTime_Head

\* A sleep ends in the very tick it was asked for.
THEOREM TimelyWakeup ==
  ASSUME ShortTimeouts PROVE CoreSpec => WakesOnTime
<1>1. CoreInv /\ TickOrder /\ [CoreNext]_coreVars =>
        [\A t \in ToSet(g_tick_head) :
           crit.op = "tick" /\ t \notin ToSet(g_tick_head)' => tick_match[t] = g_tick_count]_coreVars
  BY OnTime_Core DEF ToSet
<1> QED
  BY <1>1, TickOrderInvariant, CoreInvariant, PTL DEF CoreSpec, WakesOnTime
-----------------------------------------------------------------------------
(***************************************************************************)
(* Waiters.                                                                *)
(***************************************************************************)
\* Waiters stand in the order of their priorities.
WaitOrder == \A o \in Obj : Ascending(blk_list[o], prio)

LEMMA WaitOrderImplies ==
  ASSUME CoreTypeOK, WaitOrder PROVE WaitersByPriority
<1>1. ASSUME NEW o \in Obj, NEW i \in DOMAIN blk_list[o], NEW j \in DOMAIN blk_list[o], i < j
      PROVE  prio[blk_list[o][i]] <= prio[blk_list[o][j]]
  <2>1. blk_list[o] \in Seq(Task)
    BY DEF CoreTypeOK
  <2> QED
    BY <1>1, <2>1 DEF WaitOrder, Ascending
<1> QED
  BY <1>1 DEF WaitersByPriority

\* The lists stay, and so do the priorities of the waiters.
LEMMA WaitOrder_Same ==
  ASSUME CoreTypeOK, WaitListsOK, WaitOrder, UNCHANGED blk_list,
         \A t \in Task : task_state[t] \in PendStates => prio'[t] = prio[t]
  PROVE  WaitOrder'
<1>1. ASSUME NEW o \in Obj PROVE Ascending(blk_list[o], prio')
  <2>1. blk_list[o] \in Seq(Task)
    BY DEF CoreTypeOK
  <2>2. \A t \in ToSet(blk_list[o]) : prio[t] = prio'[t]
    BY <2>1, ToSetByIndex DEF WaitListsOK
  <2> QED
    BY <2>1, <2>2, AscendingSame DEF WaitOrder
<1> QED
  BY <1>1 DEF WaitOrder

\* A waiter leaves.
LEMMA WaitOrder_Rm ==
  ASSUME CoreTypeOK, WaitListsOK, BlkObjOK, WaitOrder, NEW t \in Task, task_state[t] \in PendStates,
         blk_list' = [blk_list EXCEPT ![blk_obj[t]] = klist_rm(@, t)], UNCHANGED prio
  PROVE  WaitOrder'
<1>1. PICK x \in Obj : x = blk_obj[t]
  BY DEF BlkObjOK
<1>2. blk_list[x] \in Seq(Task) /\ t \in ToSet(blk_list[x])
  BY <1>1 DEF CoreTypeOK, WaitListsOK
<1>3. Ascending(klist_rm(blk_list[x], t), prio)
  BY <1>2, RmAscending DEF WaitOrder
<1>4. /\ blk_list'[x] = klist_rm(blk_list[x], t)
      /\ \A o \in Obj \ {x} : blk_list'[o] = blk_list[o]
  BY <1>1 DEF CoreTypeOK
<1> QED
  BY <1>3, <1>4 DEF WaitOrder

\* A waiter comes.
LEMMA WaitOrder_Add ==
  ASSUME CoreTypeOK, WaitOrder, NEW t \in Task, NEW x \in Obj,
         blk_list' = [blk_list EXCEPT ![x] = pend_list_add(@, t, prio)], UNCHANGED prio
  PROVE  WaitOrder'
<1>1. blk_list[x] \in Seq(Task) /\ prio \in [Task -> Int]
  BY PriAssumption DEF CoreTypeOK, Prio
<1>2. Ascending(pend_list_add(blk_list[x], t, prio), prio)
  BY <1>1, InsertAscending DEF WaitOrder, pend_list_add
<1>3. /\ blk_list'[x] = pend_list_add(blk_list[x], t, prio)
      /\ \A o \in Obj \ {x} : blk_list'[o] = blk_list[o]
  BY DEF CoreTypeOK
<1> QED
  BY <1>2, <1>3 DEF WaitOrder

\* The priority of a task changes, by task_pri_change.
LEMMA WaitOrder_Change ==
  ASSUME CoreTypeOK, WaitListsOK, BlkObjOK, WaitOrder, NEW t \in Task, NEW p \in Prio,
         task_pri_change_turn(t, p)
  PROVE  WaitOrder'
<1>1. prio' = [prio EXCEPT ![t] = p] /\ prio \in [Task -> Prio]
  BY DEF task_pri_change_turn, CoreTypeOK
<1>2. prio' \in [Task -> Int] /\ \A u \in Task \ {t} : prio'[u] = prio[u]
  BY <1>1, PriAssumption DEF Prio
<1>3. CASE task_state[t] \notin PendStates
  <2>1. blk_list' = blk_list /\ \A u \in Task : task_state[u] \in PendStates => prio'[u] = prio[u]
    BY <1>2, <1>3 DEF task_pri_change_turn
  <2> QED
    BY <2>1, WaitOrder_Same
<1>4. CASE task_state[t] \in PendStates
  <2>1. PICK x \in Obj : x = blk_obj[t]
    BY <1>4 DEF BlkObjOK
  <2>2. /\ blk_list[x] \in Seq(Task) /\ t \in ToSet(blk_list[x]) /\ IsInjective(blk_list[x])
        /\ \A o \in Obj \ {x} : t \notin ToSet(blk_list[o]) /\ blk_list[o] \in Seq(Task)
    BY <1>4, <2>1 DEF CoreTypeOK, WaitListsOK
  <2>3. PICK r \in Seq(Task) : /\ r = klist_rm(blk_list[x], t) /\ ToSet(r) = ToSet(blk_list[x]) \ {t}
                               /\ Ascending(r, prio)
    BY <2>2, RmProperties, RmAscending DEF WaitOrder
  <2>4. \A u \in ToSet(r) : prio[u] = prio'[u]
    BY <1>2, <2>3, ToSetByIndex
  <2>5. Ascending(r, prio')
    BY <2>3, <2>4, AscendingSame
  <2>6. Ascending(pend_list_add(r, t, prio'), prio')
    BY <1>2, <2>5, InsertAscending DEF pend_list_add
  <2>7. /\ blk_list'[x] = pend_list_add(r, t, prio')
        /\ \A o \in Obj \ {x} : blk_list'[o] = blk_list[o]
    BY <1>4, <2>1, <2>3 DEF task_pri_change_turn, pend_list_reorder, CoreTypeOK
  <2>8. ASSUME NEW o \in Obj \ {x} PROVE Ascending(blk_list[o], prio')
    <3>1. \A u \in ToSet(blk_list[o]) : prio[u] = prio'[u]
      BY <1>2, <2>2, ToSetByIndex
    <3> QED
      BY <2>2, <3>1, AscendingSame DEF WaitOrder
  <2> QED
    BY <2>6, <2>7, <2>8 DEF WaitOrder
<1> QED
  BY <1>3, <1>4

\* The steps of the core, by the way they treat the lists of waiters.
LEMMA CoreSame_Wait ==
  ASSUME CoreInv, WaitOrder, \/ KernelStep \/ LockService \/ SleepService \/ SuspendService \/ RRService
                             \/ task_del_idle \/ \E t, p : krhino_task_pri_change(t, p)
  PROVE  WaitOrder'
<1>1. UNCHANGED <<blk_list, prio>>
  BY DEF KernelStep, LockService, SleepService, SuspendService, RRService, core_sched,
     pend_state_end_proc, krhino_intrpt_enter, krhino_intrpt_exit, tick_list_update, tick_sleep_end,
     tick_list_done, time_slice_update, krhino_sched_disable, krhino_sched_enable, krhino_task_yield,
     krhino_task_sleep, krhino_task_suspend, krhino_task_resume, krhino_task_time_slice_set,
     krhino_sched_policy_set, task_del_idle, krhino_task_pri_change, tcbVars, queueVars
<1> QED
  BY <1>1, WaitOrder_Same DEF CoreInv, ListInv

LEMMA Create_Wait ==
  ASSUME CoreInv, WaitOrder, NEW t \in Task, NEW p, NEW autorun, krhino_task_create(t, p, autorun)
  PROVE  WaitOrder'
<1>1. /\ UNCHANGED blk_list /\ prio' = [prio EXCEPT ![t] = p]
      /\ task_state[t] \in {"K_SEED", "K_DELETED"}
  BY DEF krhino_task_create
<1>2. \A u \in Task : task_state[u] \in PendStates => prio'[u] = prio[u]
  BY <1>1 DEF CoreInv, CoreTypeOK, PendStates
<1> QED
  BY <1>1, <1>2, WaitOrder_Same DEF CoreInv, ListInv

LEMMA Unlink_Wait ==
  ASSUME CoreInv, WaitOrder, NEW t \in Task, task_unlink(t) \/ unpend(t), UNCHANGED prio
  PROVE  WaitOrder'
<1>1. CASE task_state[t] \in PendStates
  BY <1>1, WaitOrder_Rm DEF task_unlink, unpend, CoreInv, ListInv
<1>2. CASE task_state[t] \notin PendStates
  BY <1>2, WaitOrder_Same DEF task_unlink, unpend, CoreInv, ListInv
<1> QED
  BY <1>1, <1>2

LEMMA CoreNext_Wait ==
  ASSUME CoreInv, WaitOrder, CoreNext PROVE WaitOrder'
<1>1. ASSUME NEW t \in Task, NEW p \in Prio, pri_change_plain(t, p) PROVE WaitOrder'
  <2>1. UNCHANGED <<prio, blk_list>> \/ task_pri_change_turn(t, p)
    BY <1>1 DEF pri_change_plain
  <2> QED
    BY <2>1, WaitOrder_Same, WaitOrder_Change DEF CoreInv, ListInv
<1>2. CASE TaskService
  <2>1. /\ \A new \in NewTask : new[1] \in Task
        /\ \A new \in NewPri : new[1] \in Task /\ new[2] \in Prio
    BY PriAssumption DEF Prio
  <2> QED
    BY <1>1, <1>2, <2>1, CoreSame_Wait, Create_Wait, Unlink_Wait DEF TaskService, task_del_plain
<1> QED
  BY <1>2, CoreSame_Wait DEF CoreNext

\* Nothing that the order of things depends on changes.
LEMMA OrderKept ==
  ASSUME CoreInv, crit = NoCrit, UNCHANGED <<tcbVars, queueVars, g_tick_count, cpuVars, callVars>>
  PROVE  (RunsFirst => RunsFirst') /\ (WaitOrder => WaitOrder') /\ (TickOrder => TickOrder')
<1> USE DEF tcbVars, queueVars, cpuVars, callVars
<1>1. RunsFirst => RunsFirst'
  BY Runs_Same
<1>2. WaitOrder => WaitOrder'
  BY WaitOrder_Same DEF CoreInv, ListInv
<1>3. TickOrder => TickOrder'
  BY TickOrder_Same DEF CoreInv, NoCrit
<1> QED
  BY <1>1, <1>2, <1>3

\* A waiter is woken: somebody still owes core_sched.
LEMMA OrderWake ==
  ASSUME CoreInv, NEW t \in Task, unpend(t), UNCHANGED <<prio, g_tick_count, g_active_task, crit>>,
         isr' # "none" \/ crit # NoCrit \/ pc'[g_active_task] \in {"sched", "pend_sched"}
  PROVE  RunsFirst' /\ (WaitOrder => WaitOrder') /\ (TickOrder => TickOrder')
<1>1. RunsFirst'
  BY Runs_Owed
<1>2. WaitOrder => WaitOrder'
  BY Unlink_Wait
<1>3. TickOrder => TickOrder'
  BY TickOrder_Rm DEF unpend, CoreInv, ListInv
<1> QED
  BY <1>1, <1>2, <1>3
-----------------------------------------------------------------------------
(***************************************************************************)
(* Blocking calls: what the wait of each task has come to.                 *)
(***************************************************************************)
\* What a task in a blocking call has to remember of it: the object it waits for is the one
\* its call will report on, a sleep reports on none, a task not created yet is in no call.
Pending == {"pend_sched", "pend_end"}
CallOf(t) ==
  /\ task_state[t] \in PendStates => pc[t] \in Pending /\ arg[t] = blk_obj[t]
  /\ task_state[t] \in SleepStates => arg[t] = NoArg
  /\ task_state[t] = "K_SEED" => pc[t] \notin Pending
CallOK == \A t \in Task : CallOf(t)

\* t is in no blocking call on an object.
Free(t) == pc[t] \notin Pending \/ arg[t] \notin Obj

\* How a wait that is over ended.
Ends == {"granted", "expired", "cancelled"}

LEMMA WaitValues ==
  ASSUME CoreTypeOK, NEW t \in Task
  PROVE  /\ task_state[t] = "K_DELETED" => WaitOf(t) = <<"dead">>
         /\ task_state[t] # "K_DELETED" /\ Free(t) => WaitOf(t) = <<"out">>
         /\ task_state[t] # "K_DELETED" /\ ~Free(t) /\ blk_obj[t] # NoObj => WaitOf(t) = <<"waiting", arg[t]>>
         /\ task_state[t] # "K_DELETED" /\ ~Free(t) /\ blk_obj[t] = NoObj =>
              /\ blk_state[t] = "BLK_FINISH"  => WaitOf(t) = <<"granted", arg[t]>>
              /\ blk_state[t] = "BLK_TIMEOUT" => WaitOf(t) = <<"expired", arg[t]>>
              /\ blk_state[t] = "BLK_DEL"     => WaitOf(t) = <<"cancelled", arg[t]>>
              /\ \E how \in Ends : WaitOf(t) = <<how, arg[t]>>
<1>1. blk_state[t] \in {"BLK_FINISH", "BLK_TIMEOUT", "BLK_DEL"}
  BY DEF CoreTypeOK, BlkState
<1> QED
  BY <1>1 DEF WaitOf, Free, Pending, Ends

\* A task that stays where it is: it may be suspended or resumed, it may call services that do
\* not block, and core_sched may switch away from it in the middle of a wait.
CallKept(t) ==
  \/ pc'[t] = pc[t] /\ arg'[t] = arg[t]
  \/ pc[t] \in Pending /\ pc'[t] \in Pending /\ arg'[t] = arg[t]
  \/ /\ pc[t] \notin Pending /\ pc'[t] \notin Pending
     /\ arg'[t] = arg[t] \/ task_state[t] \notin SleepStates
StateKept(t) ==
  \/ task_state'[t] = task_state[t]
  \/ task_state[t] \in PendStates /\ task_state'[t] \in PendStates
  \/ task_state[t] \in SleepStates /\ task_state'[t] \in SleepStates
  \/ task_state[t] \in {"K_RDY", "K_SUSPENDED"} /\ task_state'[t] \in {"K_RDY", "K_SUSPENDED"}

LEMMA Stays ==
  ASSUME NEW t \in Task, CallOf(t), CallKept(t), StateKept(t),
         blk_obj'[t] = blk_obj[t], blk_state'[t] = blk_state[t]
  PROVE  CallOf(t)' /\ WaitOf(t)' = WaitOf(t)
<1>1. task_state'[t] = "K_DELETED" <=> task_state[t] = "K_DELETED"
  BY DEF StateKept, PendStates, SleepStates
<1>2. CallOf(t)'
  BY DEF CallOf, CallKept, StateKept, PendStates, SleepStates
<1>3. CASE pc[t] \notin Pending /\ pc'[t] \notin Pending
  BY <1>1, <1>2, <1>3 DEF WaitOf, Pending
<1>4. CASE (pc'[t] \in Pending <=> pc[t] \in Pending) /\ arg'[t] = arg[t]
  <2> DEFINE How(o, b) == CASE o # NoObj -> "waiting"
                            [] o = NoObj /\ b = "BLK_FINISH"  -> "granted"
                            [] o = NoObj /\ b = "BLK_TIMEOUT" -> "expired"
                            [] o = NoObj /\ b = "BLK_DEL"     -> "cancelled"
  <2>1. /\ WaitOf(t) = IF task_state[t] = "K_DELETED" THEN <<"dead">>
                       ELSE IF pc[t] \notin Pending \/ arg[t] \notin Obj THEN <<"out">>
                       ELSE <<How(blk_obj[t], blk_state[t]), arg[t]>>
        /\ WaitOf(t)' = IF task_state'[t] = "K_DELETED" THEN <<"dead">>
                        ELSE IF pc'[t] \notin Pending \/ arg'[t] \notin Obj THEN <<"out">>
                        ELSE <<How(blk_obj'[t], blk_state'[t]), arg'[t]>>
    BY DEF WaitOf, Pending
  <2> HIDE DEF How
  <2> QED
    BY <1>1, <1>2, <1>4, <2>1
<1> QED
  BY <1>3, <1>4 DEF CallKept

\* What the steps of the core do to the waits: nothing, or one task is deleted or created
\* again ...
CoreMove ==
  \/ \A u \in Task : WaitOf(u)' = WaitOf(u)
  \/ \E t \in Task :
       /\ \A u \in Task \ {t} : WaitOf(u)' = WaitOf(u)
       /\ \/ WaitOf(t) # <<"dead">> /\ WaitOf(t)' = <<"dead">>
          \/ WaitOf(t) = <<"dead">> /\ WaitOf(t)' = <<"out">>

LEMMA AllStay ==
  ASSUME CallOK, \A t \in Task : CallKept(t) /\ StateKept(t),
         UNCHANGED <<blk_obj, blk_state>>
  PROVE  CallOK' /\ CoreMove
<1>1. \A t \in Task : CallOf(t)' /\ WaitOf(t)' = WaitOf(t)
  BY Stays DEF CallOK
<1> QED
  BY <1>1 DEF CallOK, CoreMove

\* A call that does not block ends: the caller stays outside any wait.
LEMMA ExitKeeps ==
  ASSUME CoreTypeOK, isr = "none" => pc[g_active_task] \notin Pending, RHINO_CRITICAL_EXIT_SCHED
  PROVE  \A t \in Task : CallKept(t)
  BY DEF CoreTypeOK, RHINO_CRITICAL_EXIT_SCHED, CallKept, Pending

\* ... or returns from a wait that is over.
Returning(t) ==
  /\ t = g_active_task /\ pc[t] = "pend_end" /\ pc'[t] = "user"
  /\ blk_obj[t] = NoObj /\ task_state[t] # "K_DELETED"
  /\ \A u \in Task \ {t} : WaitOf(u)' = WaitOf(u)
  /\ WaitOf(t)' = <<"out">>
  /\ arg[t] \notin Obj => WaitOf(t) = <<"out">>
  /\ arg[t] \in Obj => /\ blk_state[t] = "BLK_FINISH"  => WaitOf(t) = <<"granted", arg[t]>>
                       /\ blk_state[t] = "BLK_TIMEOUT" => WaitOf(t) = <<"expired", arg[t]>>
                       /\ blk_state[t] = "BLK_DEL"     => WaitOf(t) = <<"cancelled", arg[t]>>
                       /\ \E how \in Ends : WaitOf(t) = <<how, arg[t]>>

LEMMA EndProc_Call ==
  ASSUME CoreInv, CallOK, pend_state_end_proc PROVE CallOK' /\ \E t \in Task : Returning(t)
<1> USE DEF tcbVars
<1>1. CoreTypeOK /\ g_active_task \in Task
  BY DEF CoreInv, CoreTypeOK
<1>2. PICK t \in Task : t = g_active_task
  BY <1>1
<1>3. /\ pc[t] = "pend_end" /\ pc' = [pc EXCEPT ![t] = "user"] /\ arg' = [arg EXCEPT ![t] = NoArg]
      /\ UNCHANGED tcbVars /\ t \in Task
      /\ task_state[t] = "K_RDY" /\ blk_obj[t] = NoObj
  BY <1>1, <1>2 DEF pend_state_end_proc, CoreInv, CallInv, RunsOnlyReady
<1>4. \A u \in Task \ {t} : CallKept(u) /\ StateKept(u)
  BY <1>3 DEF CallKept, StateKept, CoreInv, CoreTypeOK
<1>5. \A u \in Task \ {t} : CallOf(u)' /\ WaitOf(u)' = WaitOf(u)
  BY <1>3, <1>4, Stays DEF CallOK
<1>6. pc'[t] = "user" /\ task_state'[t] = "K_RDY"
  BY <1>1, <1>3 DEF CoreTypeOK
<1>7. CallOf(t)' /\ WaitOf(t)' = <<"out">>
  BY <1>6 DEF CallOf, WaitOf, PendStates, SleepStates
<1>8. /\ task_state[t] # "K_DELETED" /\ (Free(t) <=> arg[t] \notin Obj)
  BY <1>3 DEF Free, Pending
<1>9. Returning(t)
  BY <1>1, <1>2, <1>3, <1>5, <1>6, <1>7, <1>8, WaitValues DEF Returning
<1> QED
  BY <1>5, <1>7, <1>9 DEF CallOK

LEMMA KernelStep_Call ==
  ASSUME CoreInv, CallOK, KernelStep PROVE CallOK' /\ (CoreMove \/ pend_state_end_proc)
<1> USE DEF cpuVars, callVars, tcbVars
<1>1. CoreTypeOK /\ g_active_task \in Task
  BY DEF CoreInv, CoreTypeOK
<1>2. CASE core_sched
  <2>1. \A t \in Task : CallKept(t) /\ StateKept(t)
    BY <1>1, <1>2 DEF core_sched, CallKept, StateKept, Pending, CoreTypeOK
  <2> QED
    BY <1>2, <2>1, AllStay DEF core_sched
<1>3. CASE pend_state_end_proc
  BY <1>3, EndProc_Call
<1>4. CASE krhino_intrpt_enter("tick") \/ krhino_intrpt_enter("dev") \/ krhino_intrpt_exit
           \/ tick_list_update \/ tick_list_done \/ time_slice_update
  <2>1. UNCHANGED <<tcbVars, callVars>>
    BY <1>4 DEF krhino_intrpt_enter, krhino_intrpt_exit, tick_list_update, tick_list_done,
       time_slice_update
  <2> QED
    BY <2>1, AllStay DEF CallKept, StateKept
<1>5. ASSUME NEW t \in Task, tick_sleep_end(t) PROVE CallOK' /\ CoreMove
  <2>1. /\ task_state[t] \in SleepStates /\ UNCHANGED <<blk_obj, pc, arg>>
        /\ \E st \in {"K_RDY", "K_SUSPENDED"} : task_state' = [task_state EXCEPT ![t] = st]
        /\ blk_state' = [blk_state EXCEPT ![t] = "BLK_FINISH"]
    BY <1>5 DEF tick_sleep_end
  <2>2. \A u \in Task \ {t} : /\ CallKept(u) /\ StateKept(u)
                              /\ blk_obj'[u] = blk_obj[u] /\ blk_state'[u] = blk_state[u]
    BY <1>1, <2>1 DEF CallKept, StateKept, CoreTypeOK
  <2>3. \A u \in Task \ {t} : CallOf(u)' /\ WaitOf(u)' = WaitOf(u)
    BY <2>2, Stays DEF CallOK
  <2>4. /\ task_state'[t] \in {"K_RDY", "K_SUSPENDED"} /\ task_state[t] # "K_DELETED"
        /\ arg[t] \notin Obj /\ arg' = arg
    BY <1>1, <2>1, TaskAssumption DEF CoreTypeOK, SleepStates, CallOK, CallOf
  <2>5. CallOf(t)' /\ WaitOf(t)' = WaitOf(t)
    BY <2>4 DEF CallOf, WaitOf, PendStates, SleepStates
  <2> QED
    BY <2>3, <2>5 DEF CallOK, CoreMove
<1> QED
  BY <1>2, <1>3, <1>4, <1>5 DEF KernelStep

LEMMA Service_Call ==
  ASSUME CoreInv, CallOK, LockService \/ SleepService \/ SuspendService \/ RRService
  PROVE  CallOK' /\ CoreMove
<1> USE DEF cpuVars, callVars, tcbVars
<1>1. CoreTypeOK /\ g_active_task \in Task
  BY DEF CoreInv, CoreTypeOK
<1>2. CASE LockService \/ RRService \/ krhino_task_yield
  <2>1. /\ UNCHANGED tcbVars /\ pc[g_active_task] = "user"
        /\ RHINO_CRITICAL_EXIT_SCHED \/ UNCHANGED callVars
    BY <1>2 DEF LockService, RRService, krhino_task_yield, krhino_sched_disable, krhino_sched_enable,
       krhino_task_time_slice_set, krhino_sched_policy_set, TaskCall
  <2>2. \A t \in Task : CallKept(t) /\ StateKept(t)
    BY <1>1, <2>1, ExitKeeps DEF Pending, CallKept, StateKept
  <2> QED
    BY <2>1, <2>2, AllStay
<1>3. ASSUME NEW ticks \in Ticks, krhino_task_sleep(ticks) PROVE CallOK' /\ CoreMove
  <2>0. PICK t \in Task : t = g_active_task
    BY <1>1
  <2>1. /\ pc[t] = "user" /\ pc' = [pc EXCEPT ![t] = "pend_sched"] /\ arg' = [arg EXCEPT ![t] = NoArg]
        /\ task_state' = [task_state EXCEPT ![t] = "K_SLEEP"] /\ UNCHANGED <<blk_obj, blk_state>>
        /\ task_state[t] = "K_RDY" /\ t \in Task
    BY <1>1, <1>3, <2>0 DEF krhino_task_sleep, TaskCall, PendExitSched, CoreInv, CallInv, RunsOnlyReady
  <2>2. \A u \in Task \ {t} : CallKept(u) /\ StateKept(u)
    BY <1>1, <2>1 DEF CallKept, StateKept, CoreTypeOK
  <2>3. \A u \in Task \ {t} : CallOf(u)' /\ WaitOf(u)' = WaitOf(u)
    BY <2>1, <2>2, Stays DEF CallOK
  <2>4. task_state'[t] = "K_SLEEP" /\ arg'[t] = NoArg
    BY <1>1, <2>1 DEF CoreTypeOK
  <2>5. CallOf(t)' /\ WaitOf(t)' = <<"out">> /\ WaitOf(t) = <<"out">>
    BY <2>1, <2>4, TaskAssumption DEF CallOf, WaitOf, PendStates, SleepStates
  <2> QED
    BY <2>3, <2>5 DEF CallOK, CoreMove
<1>4. ASSUME NEW t \in Task, krhino_task_suspend(t) \/ krhino_task_resume(t) PROVE CallOK' /\ CoreMove
  <2>1. /\ isr = "none" => pc[g_active_task] \notin Pending
        /\ RHINO_CRITICAL_EXIT_SCHED /\ UNCHANGED <<blk_obj, blk_state>>
    BY <1>4 DEF krhino_task_suspend, krhino_task_resume, AnyCall, TaskCall, IntrptCall, Pending
  <2>2. \/ task_state' = task_state
        \/ /\ task_state[t] \in {"K_RDY", "K_SLEEP", "K_PEND"}
           /\ task_state' = [task_state EXCEPT ![t] = Suspended(task_state[t])]
        \/ /\ task_state[t] \in SuspendStates
           /\ task_state' = [task_state EXCEPT ![t] = Resumed(task_state[t])]
    BY <1>1, <1>4 DEF krhino_task_suspend, krhino_task_resume, CoreTypeOK
  <2>3. \A u \in Task : StateKept(u)
    BY <1>1, <2>2, SMTT(20) DEF StateKept, Suspended, Resumed, PendStates, SleepStates, SuspendStates, CoreTypeOK
  <2> QED
    BY <1>1, <2>1, <2>3, ExitKeeps, AllStay
<1> QED
  BY <1>2, <1>3, <1>4 DEF SleepService, SuspendService

LEMMA TaskService_Call ==
  ASSUME CoreInv, CallOK, TaskService PROVE CallOK' /\ CoreMove
<1> USE DEF cpuVars, callVars, tcbVars
<1>1. CoreTypeOK /\ g_active_task \in Task
  BY DEF CoreInv, CoreTypeOK
<1>2. ASSUME NEW t \in Task, NEW n, NEW autorun, krhino_task_create(t, n, autorun) PROVE CallOK' /\ CoreMove
  <2>1. /\ task_state[t] \in {"K_SEED", "K_DELETED"} /\ t # g_active_task
        /\ \E st \in {"K_RDY", "K_SUSPENDED"} : task_state' = [task_state EXCEPT ![t] = st]
        /\ blk_state' = [blk_state EXCEPT ![t] = "BLK_FINISH"]
        /\ blk_obj' = [blk_obj EXCEPT ![t] = NoObj]
        /\ arg' = [arg EXCEPT ![t] = NoArg] /\ pc[g_active_task] = "user"
        /\ \E c \in {"user", "sched"} : pc' = [pc EXCEPT ![t] = "user", ![g_active_task] = c]
    BY <1>2 DEF krhino_task_create, TaskCall
  <2>2. \A u \in Task \ {t} : /\ CallKept(u) /\ StateKept(u)
                              /\ blk_obj'[u] = blk_obj[u] /\ blk_state'[u] = blk_state[u]
    BY <1>1, <2>1 DEF CallKept, StateKept, Pending, CoreTypeOK
  <2>3. \A u \in Task \ {t} : CallOf(u)' /\ WaitOf(u)' = WaitOf(u)
    BY <2>2, Stays DEF CallOK
  <2>4. task_state'[t] \in {"K_RDY", "K_SUSPENDED"} /\ pc'[t] = "user"
    BY <1>1, <2>1 DEF CoreTypeOK
  <2>5. CallOf(t)' /\ WaitOf(t)' = <<"out">>
    BY <2>4 DEF CallOf, WaitOf, PendStates, SleepStates
  <2>6. WaitOf(t) \in {<<"dead">>, <<"out">>}
    BY <2>1 DEF CallOK, CallOf, WaitOf, Pending
  <2> QED
    BY <2>3, <2>5, <2>6 DEF CallOK, CoreMove
<1>3. ASSUME NEW t, NEW n, krhino_task_pri_change(t, n) \/ pri_change_plain(t, n)
      PROVE  CallOK' /\ CoreMove
  <2>1. /\ UNCHANGED <<task_state, blk_obj, blk_state>>
        /\ \/ UNCHANGED callVars
           \/ /\ pc[g_active_task] \in {"user", "pri_change"} /\ isr = "none" /\ crit = NoCrit
              /\ \E c \in {"sched", "pri_change"} : pc' = [pc EXCEPT ![g_active_task] = c]
              /\ \E x : arg' = [arg EXCEPT ![g_active_task] = x]
    BY <1>3 DEF krhino_task_pri_change, pri_change_plain, PriChangeEnter, TaskCall
  <2>2. \A u \in Task : CallKept(u) /\ StateKept(u)
    <3>1. CASE UNCHANGED callVars
      BY <2>1, <3>1 DEF CallKept, StateKept
    <3>2. CASE pc[g_active_task] \in {"user", "pri_change"} /\ isr = "none" /\ crit = NoCrit
      <4>1. task_state[g_active_task] \notin SleepStates
        BY <3>2 DEF CoreInv, CallInv, RunsOnlyReady, SleepStates
      <4> QED
        BY <1>1, <2>1, <3>2, <4>1 DEF CallKept, StateKept, Pending, CoreTypeOK
    <3> QED
      BY <2>1, <3>1, <3>2
  <2> QED
    BY <2>1, <2>2, AllStay
<1>4. ASSUME NEW t \in Task, task_del_plain(t) PROVE CallOK' /\ CoreMove
  <2>1. /\ task_state[t] # "K_DELETED" /\ task_state' = [task_state EXCEPT ![t] = "K_DELETED"]
        /\ UNCHANGED <<blk_obj, blk_state>> /\ pc[g_active_task] = "user" /\ RHINO_CRITICAL_EXIT_SCHED
    BY <1>4 DEF task_del_plain, TaskDelEnter, TaskCall, task_unlink
  <2>2. \A u \in Task \ {t} : CallKept(u) /\ StateKept(u)
    BY <1>1, <2>1, ExitKeeps DEF StateKept, Pending, CoreTypeOK
  <2>3. \A u \in Task \ {t} : CallOf(u)' /\ WaitOf(u)' = WaitOf(u)
    BY <2>1, <2>2, Stays DEF CallOK
  <2>4. task_state'[t] = "K_DELETED"
    BY <1>1, <2>1 DEF CoreTypeOK
  <2>5. CallOf(t)' /\ WaitOf(t)' = <<"dead">>
    BY <2>4 DEF CallOf, WaitOf, PendStates, SleepStates
  <2>6. WaitOf(t) # <<"dead">>
    <3>1. \/ WaitOf(t) = <<"out">> \/ WaitOf(t) = <<"waiting", arg[t]>>
          \/ \E how \in Ends : WaitOf(t) = <<how, arg[t]>>
      BY <1>1, <2>1, WaitValues
    <3> QED
      BY <3>1 DEF Ends
  <2> QED
    BY <2>3, <2>5, <2>6 DEF CallOK, CoreMove
<1>5. CASE task_del_idle
  BY <1>5, AllStay DEF task_del_idle, CallKept, StateKept
<1>6. /\ \A new \in NewTask : new[1] \in Task
      /\ \A new \in NewPri : new[1] \in Task
  BY PriAssumption
<1> QED
  BY <1>2, <1>3, <1>4, <1>5, <1>6 DEF TaskService

\* Only pend_state_end_proc returns from a wait.
LEMMA CoreNext_Call ==
  ASSUME CoreInv, CallOK, CoreNext PROVE CallOK' /\ (CoreMove \/ \E t \in Task : Returning(t))
  BY KernelStep_Call, EndProc_Call, Service_Call, TaskService_Call DEF CoreNext

\* A step that takes the running task from the end of a blocking call to its own code does
\* nothing else.
LEMMA OnlyReturns ==
  ASSUME CoreInv, CoreNext, pc[g_active_task] = "pend_end", pc'[g_active_task] = "user"
  PROVE  pend_state_end_proc
<1> USE DEF callVars, TaskCall, IntrptCall, AnyCall
<1>1. CoreTypeOK /\ g_active_task \in Task
  BY DEF CoreInv, CoreTypeOK
<1>2. CASE KernelStep
  BY <1>1, <1>2 DEF KernelStep, core_sched, krhino_intrpt_enter, krhino_intrpt_exit, tick_list_update,
     tick_sleep_end, tick_list_done, time_slice_update
<1>3. CASE LockService \/ SleepService \/ RRService
  BY <1>3 DEF LockService, SleepService, RRService, krhino_sched_disable, krhino_sched_enable,
     krhino_task_yield, krhino_task_sleep, krhino_task_time_slice_set, krhino_sched_policy_set
<1>4. CASE SuspendService
  BY <1>1, <1>4 DEF SuspendService, krhino_task_suspend, krhino_task_resume, RHINO_CRITICAL_EXIT_SCHED
<1>5. CASE TaskService
  BY <1>5 DEF TaskService, krhino_task_create, krhino_task_pri_change, pri_change_plain, PriChangeEnter,
     task_del_plain, TaskDelEnter, task_del_idle
<1> QED
  BY <1>2, <1>3, <1>4, <1>5 DEF CoreNext

\* A wait ends, in whichever way: the call will report just that way.
LEMMA Wakes ==
  ASSUME CoreInv, CallOK, NEW t \in Task, unpend(t), NEW b \in BlkState,
         blk_state' = [blk_state EXCEPT ![t] = b],
         \A u \in Task : CallKept(u)
  PROVE  /\ CallOK'
         /\ \A u \in Task \ {t} : WaitOf(u)' = WaitOf(u)
         /\ blk_obj[t] \in Obj /\ t \in ToSet(blk_list[blk_obj[t]])
         /\ WaitOf(t) = <<"waiting", blk_obj[t]>>
         /\ b = "BLK_FINISH"  => WaitOf(t)' = <<"granted", blk_obj[t]>>
         /\ b = "BLK_TIMEOUT" => WaitOf(t)' = <<"expired", blk_obj[t]>>
         /\ b = "BLK_DEL"     => WaitOf(t)' = <<"cancelled", blk_obj[t]>>
<1>1. CoreTypeOK /\ WaitListsOK /\ BlkObjOK
  BY DEF CoreInv, ListInv
<1>2. /\ task_state[t] \in PendStates /\ blk_obj' = [blk_obj EXCEPT ![t] = NoObj]
      /\ \E st \in {"K_RDY", "K_SUSPENDED"} : task_state' = [task_state EXCEPT ![t] = st]
  BY DEF unpend
<1>3. \A u \in Task \ {t} : /\ StateKept(u)
                            /\ blk_obj'[u] = blk_obj[u] /\ blk_state'[u] = blk_state[u]
  BY <1>1, <1>2 DEF StateKept, CoreTypeOK
<1>4. \A u \in Task \ {t} : CallOf(u)' /\ WaitOf(u)' = WaitOf(u)
  BY <1>3, Stays DEF CallOK
<1>5. /\ blk_obj[t] \in Obj /\ t \in ToSet(blk_list[blk_obj[t]])
      /\ pc[t] \in Pending /\ arg[t] = blk_obj[t] /\ blk_obj[t] # NoObj
      /\ task_state[t] # "K_DELETED"
  BY <1>1, <1>2, TaskAssumption DEF WaitListsOK, BlkObjOK, CallOK, CallOf, PendStates
<1>6. WaitOf(t) = <<"waiting", blk_obj[t]>>
  BY <1>1, <1>5, WaitValues DEF Free
<1>7. /\ task_state'[t] \in {"K_RDY", "K_SUSPENDED"} /\ blk_obj'[t] = NoObj /\ blk_state'[t] = b
      /\ pc'[t] \in Pending /\ arg'[t] = blk_obj[t]
  BY <1>1, <1>2, <1>5 DEF CoreTypeOK, CallKept
<1>8. CallOf(t)'
  BY <1>7 DEF CallOf, PendStates, SleepStates
<1>9. /\ b = "BLK_FINISH"  => WaitOf(t)' = <<"granted", blk_obj[t]>>
      /\ b = "BLK_TIMEOUT" => WaitOf(t)' = <<"expired", blk_obj[t]>>
      /\ b = "BLK_DEL"     => WaitOf(t)' = <<"cancelled", blk_obj[t]>>
  BY <1>5, <1>7 DEF WaitOf, Pending
<1> QED
  BY <1>4, <1>5, <1>6, <1>8, <1>9 DEF CallOK

\* The steps of the services that are about an object: what they do to the core and to the
\* waits.  A wait is going on exactly while the task is on the list of its object.
LEMMA OnList ==
  ASSUME CoreInv, CallOK, NEW t \in Task, NEW o \in Obj
  PROVE  /\ WaitOf(t) = <<"waiting", o>> <=> t \in ToSet(blk_list[o])
         /\ WaitOf(t) = <<"waiting", o>> => blk_obj[t] = o /\ arg[t] = o /\ task_state[t] \in PendStates
<1>1. CoreTypeOK /\ WaitListsOK /\ BlkObjOK
  BY DEF CoreInv, ListInv
<1>2. ASSUME WaitOf(t) = <<"waiting", o>>
      PROVE  blk_obj[t] = o /\ arg[t] = o /\ task_state[t] \in PendStates
  <2>1. task_state[t] # "K_DELETED" /\ ~Free(t) /\ blk_obj[t] # NoObj /\ arg[t] = o
    BY <1>1, <1>2, WaitValues DEF Ends
  <2>2. task_state[t] \in PendStates
    BY <1>1, <2>1 DEF CoreTypeOK, TaskState, BlkObjOK, CallOK, CallOf, Free, PendStates, SleepStates
  <2> QED
    BY <2>1, <2>2 DEF CallOK, CallOf
<1>3. ASSUME task_state[t] \in PendStates, blk_obj[t] = o PROVE WaitOf(t) = <<"waiting", o>>
  <2>1. task_state[t] # "K_DELETED" /\ ~Free(t) /\ blk_obj[t] # NoObj /\ arg[t] = o
    BY <1>3, TaskAssumption DEF CallOK, CallOf, Free, PendStates
  <2> QED
    BY <1>1, <2>1, WaitValues
<1> QED
  BY <1>1, <1>2, <1>3 DEF WaitListsOK

LEMMA FirstOnList ==
  ASSUME CoreInv, CallOK, NEW o \in Obj, blk_list[o] # << >>
  PROVE  Head(blk_list[o]) \in Task /\ WaitOf(Head(blk_list[o])) = <<"waiting", o>>
<1>1. blk_list[o] \in Seq(Task)
  BY DEF CoreInv, CoreTypeOK
<1>2. Head(blk_list[o]) \in Task /\ Head(blk_list[o]) \in ToSet(blk_list[o])
  BY <1>1 DEF ToSet
<1> QED
  BY <1>2, OnList

LEMMA NobodyOnList ==
  ASSUME CoreInv, CallOK, NEW o \in Obj
  PROVE  blk_list[o] = << >> <=> \A t \in Task : WaitOf(t) # <<"waiting", o>>
<1>1. blk_list[o] \in Seq(Task)
  BY DEF CoreInv, CoreTypeOK
<1>2. ToSet(blk_list[o]) = {} <=> \A t \in Task : t \notin ToSet(blk_list[o])
  BY <1>1, ToSetByIndex
<1> QED
  BY <1>1, <1>2, NoElements, OnList

\* Neither the tasks nor their calls change.
LEMMA WaitsStay ==
  ASSUME CallOK, UNCHANGED <<tcbVars, callVars>>
  PROVE  CallOK' /\ \A t \in Task : WaitOf(t)' = WaitOf(t)
<1>1. \A t \in Task : CallKept(t) /\ StateKept(t) /\ blk_obj' = blk_obj /\ blk_state' = blk_state
  BY DEF CallKept, StateKept, tcbVars, callVars
<1>2. \A t \in Task : CallOf(t)' /\ WaitOf(t)' = WaitOf(t)
  BY <1>1, Stays DEF CallOK
<1> QED
  BY <1>2 DEF CallOK

\* A loop ends, and with it the critical section.
LEMMA LoopExit ==
  ASSUME CoreInv, CallOK, crit' = NoCrit, RHINO_CRITICAL_EXIT_SCHED,
         isr = "none" => pc[g_active_task] = "user",
         UNCHANGED <<tcbVars, rrVars, queueVars, g_tick_count, cpuVars>>
  PROVE  CoreInv' /\ CallOK' /\ \A t \in Task : WaitOf(t)' = WaitOf(t)
<1>1. ListInv'
  BY ListsKept DEF CoreInv
<1>2. /\ g_active_task \in Task /\ UNCHANGED <<cpuVars, tcbVars>>
      /\ g_sched_lock > 0 => task_state'[g_active_task] = task_state[g_active_task]
  BY DEF CoreInv, CoreTypeOK, tcbVars
<1>3. /\ CallInv' /\ arg' = arg
      /\ pc' \in [Task -> {"user", "sched", "pend_sched", "pend_end", "pri_change"}]
  BY <1>2, SchedOwed DEF CoreInv
<1>4. CoreTypeOK'
  BY <1>3 DEF CoreInv, CoreTypeOK, tcbVars, rrVars, queueVars, cpuVars
<1>5. \A t \in Task : CallKept(t) /\ StateKept(t) /\ blk_obj' = blk_obj /\ blk_state' = blk_state
  BY ExitKeeps DEF StateKept, tcbVars, CoreInv, Pending
<1>6. \A t \in Task : CallOf(t)' /\ WaitOf(t)' = WaitOf(t)
  BY <1>5, Stays DEF CallOK
<1> QED
  BY <1>1, <1>3, <1>4, <1>6 DEF CoreInv, CallOK

\* A wait ends in a loop ...
LEMMA WakeInLoop ==
  ASSUME CoreInv, CallOK, NEW t \in Task, unpend(t), crit # NoCrit, crit' # NoCrit,
         NEW b \in BlkState, blk_state' = [blk_state EXCEPT ![t] = b],
         UNCHANGED <<prio, suspend_count, rrVars, g_tick_count, cpuVars, callVars>>
  PROVE  /\ CoreInv' /\ CallOK'
         /\ \A o \in Obj : ToSet(blk_list'[o]) = ToSet(blk_list[o]) \ {t}
         /\ \A u \in Task \ {t} : WaitOf(u)' = WaitOf(u)
         /\ blk_obj[t] \in Obj /\ WaitOf(t) = <<"waiting", blk_obj[t]>>
         /\ b = "BLK_FINISH"  => WaitOf(t)' = <<"granted", blk_obj[t]>>
         /\ b = "BLK_TIMEOUT" => WaitOf(t)' = <<"expired", blk_obj[t]>>
         /\ b = "BLK_DEL"     => WaitOf(t)' = <<"cancelled", blk_obj[t]>>
<1>1. CoreInv'
  BY UnpendInLoop
<1>2. \A o \in Obj : ToSet(blk_list'[o]) = ToSet(blk_list[o]) \ {t}
  BY Unpend DEF CoreInv
<1>3. \A u \in Task : CallKept(u)
  BY DEF CallKept, callVars
<1> QED
  BY <1>1, <1>2, <1>3, Wakes

\* ... or a service wakes the first waiter of an object.
LEMMA WakeFirst ==
  ASSUME CoreInv, CallOK, isr = "none" => pc[g_active_task] = "user",
         NEW o \in Obj, blk_list[o] # << >>, NEW t, t = Head(blk_list[o]),
         pend_task_wakeup(t), RHINO_CRITICAL_EXIT_SCHED,
         UNCHANGED <<prio, suspend_count, rrVars, g_tick_count, cpuVars, crit>>
  PROVE  /\ CoreInv' /\ CallOK' /\ t \in Task
         /\ \A x \in Obj : ToSet(blk_list'[x]) = ToSet(blk_list[x]) \ {t}
         /\ \A u \in Task \ {t} : WaitOf(u)' = WaitOf(u)
         /\ WaitOf(t) = <<"waiting", o>> /\ WaitOf(t)' = <<"granted", o>>
<1>1. t \in Task /\ WaitOf(t) = <<"waiting", o>> /\ blk_obj[t] = o
  BY FirstOnList, OnList
<1>2. unpend(t) /\ blk_state' = [blk_state EXCEPT ![t] = "BLK_FINISH"]
  BY DEF pend_task_wakeup
<1>3. /\ ListInv'
      /\ task_state' \in [Task -> TaskState] /\ blk_obj' \in [Task -> Obj \cup {NoObj}]
      /\ tick_match' \in [Task -> 0 .. TickMod - 1] /\ g_tick_head' \in Seq(Task)
      /\ blk_list' \in [Obj -> Seq(Task)] /\ g_ready_queue' \in QueueType
      /\ task_state[t] # "K_RDY" /\ \A u \in Task \ {t} : task_state'[u] = task_state[u]
      /\ \A x \in Obj : ToSet(blk_list'[x]) = ToSet(blk_list[x]) \ {t}
  BY <1>1, <1>2, Unpend DEF CoreInv
<1>4. g_sched_lock > 0 => task_state'[g_active_task] = task_state[g_active_task]
  BY <1>3 DEF CoreInv, CoreTypeOK, CallInv, LockHolderReady
<1>5. /\ CallInv' /\ arg' = arg
      /\ pc' \in [Task -> {"user", "sched", "pend_sched", "pend_end", "pri_change"}]
  BY <1>4, SchedOwed DEF CoreInv
<1>6. CoreTypeOK'
  BY <1>1, <1>2, <1>3, <1>5 DEF CoreInv, CoreTypeOK, QueueType, BlkState, rrVars, cpuVars
<1>7. \A u \in Task : CallKept(u)
  BY ExitKeeps DEF CoreInv, Pending
<1>8. "BLK_FINISH" \in BlkState
  BY DEF BlkState
<1>9. /\ CallOK' /\ \A u \in Task \ {t} : WaitOf(u)' = WaitOf(u)
      /\ WaitOf(t)' = <<"granted", o>>
  BY <1>1, <1>2, <1>7, <1>8, Wakes
<1> QED
  BY <1>1, <1>3, <1>5, <1>6, <1>9 DEF CoreInv

\* The running task blocks on an object.
LEMMA PendOn ==
  ASSUME CoreInv, CallOK, NEW api, TaskCall(api), NEW o \in Obj, NEW ticks \in 0 .. TickMod - 1,
         NEW t, t = g_active_task, MayStop(t), pend_to_blk_obj(o, t, ticks), PendExitSched(t, o),
         UNCHANGED <<prio, suspend_count, blk_state, rrVars, g_tick_count, cpuVars, crit>>
  PROVE  /\ CoreInv' /\ CallOK' /\ t \in Task
         /\ \A x \in Obj \ {o} : blk_list'[x] = blk_list[x]
         /\ \A u \in Task \ {t} : WaitOf(u)' = WaitOf(u)
         /\ WaitOf(t) = <<"out">> /\ WaitOf(t)' = <<"waiting", o>>
<1>1. t \in Task \ {Idle} /\ isr = "none" /\ crit = NoCrit /\ pc[t] = "user" /\ CoreTypeOK
  BY DEF TaskCall, CoreInv, CoreTypeOK
<1>2. task_state[t] = "K_RDY" /\ g_sched_lock = 0
  BY <1>1 DEF MayStop, CoreInv, CallInv, RunsOnlyReady
<1>3. /\ ListInv'
      /\ task_state' \in [Task -> TaskState] /\ blk_obj' \in [Task -> Obj \cup {NoObj}]
      /\ tick_match' \in [Task -> 0 .. TickMod - 1] /\ g_tick_head' \in Seq(Task)
      /\ blk_list' \in [Obj -> Seq(Task)] /\ g_ready_queue' \in QueueType
      /\ \A x \in Obj \ {o} : blk_list'[x] = blk_list[x]
  BY <1>1, <1>2, PendTo DEF CoreInv
<1>4. pc' = [pc EXCEPT ![t] = "pend_sched"] /\ arg' = [arg EXCEPT ![t] = o]
  BY DEF PendExitSched
<1>5. CoreTypeOK'
  BY <1>1, <1>2, <1>3, <1>4 DEF CoreTypeOK, QueueType, rrVars, cpuVars
<1>6. CallInv'
  BY <1>1, <1>2, <1>4 DEF CoreInv, CoreTypeOK, CallInv, RunsOnlyReady, LockHolderReady, PriArgOK, cpuVars
<1>7. blk_obj' = [blk_obj EXCEPT ![t] = o] /\ task_state' = [task_state EXCEPT ![t] = "K_PEND"]
  BY DEF pend_to_blk_obj
<1>8. \A u \in Task \ {t} : /\ CallKept(u) /\ StateKept(u)
                            /\ blk_obj'[u] = blk_obj[u] /\ blk_state'[u] = blk_state[u]
  BY <1>1, <1>4, <1>7 DEF CallKept, StateKept, CoreTypeOK
<1>9. \A u \in Task \ {t} : CallOf(u)' /\ WaitOf(u)' = WaitOf(u)
  BY <1>8, Stays DEF CallOK
<1>10. pc'[t] = "pend_sched" /\ arg'[t] = o /\ blk_obj'[t] = o /\ task_state'[t] = "K_PEND"
  BY <1>1, <1>4, <1>7 DEF CoreTypeOK
<1>11. CallOf(t)' /\ WaitOf(t)' = <<"waiting", o>> /\ WaitOf(t) = <<"out">>
  BY <1>1, <1>2, <1>10, TaskAssumption DEF CallOf, WaitOf, Pending, PendStates, SleepStates
<1> QED
  BY <1>1, <1>3, <1>5, <1>6, <1>9, <1>11 DEF CoreInv, CallOK

\* The core's own steps add nobody to a list.
LEMMA CoreNext_Lists ==
  ASSUME CoreInv, CoreNext, NEW o \in Obj, blk_list[o] = << >> PROVE blk_list'[o] = << >>
<1>1. CoreInv'
  BY CoreNext_Inv
<1>2. \A u \in Task : task_state'[u] \in PendStates =>
                        task_state[u] \in PendStates /\ blk_obj'[u] = blk_obj[u]
  BY CoreNoWaiter
<1>3. blk_list[o] \in Seq(Task) /\ blk_list'[o] \in Seq(Task)
  BY <1>1 DEF CoreInv, CoreTypeOK
<1>4. \A u \in Task : ~(task_state[u] \in PendStates /\ blk_obj[u] = o)
  BY <1>3, NoElements DEF CoreInv, ListInv, WaitListsOK
<1>5. \A u \in Task : u \notin ToSet(blk_list'[o])
  BY <1>1, <1>2, <1>4 DEF CoreInv, ListInv, WaitListsOK
<1>6. ToSet(blk_list'[o]) = {}
  BY <1>3, <1>5, ToSetByIndex
<1> QED
  BY <1>3, <1>6, NoElements
=============================================================================
