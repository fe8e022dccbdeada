-------------------------- MODULE RhinoTimerProofs --------------------------
(***************************************************************************)
(* Proofs about the software timers, for every number of timers, every      *)
(* period that the services accept, every length of the command queue and   *)
(* every bound on the ticks that come while the timer task runs: the list   *)
(* holds the running timers, no callback comes early and, until a timer is  *)
(* armed while another one is overdue, the list is sorted and no timer is   *)
(* overdue for more than twice that bound.                                  *)
(***************************************************************************)
EXTENDS RhinoTimer, KListProofs, TLAPS

\* x is d ticks after y, up to one turn of the tick counter.
Near(x, y, d) == x - y = d \/ x - y = d + TickMod \/ x - y = d - TickMod

\* The ticks until a timer is due, negative if it is overdue.
Dist == [t \in Timer |-> remain[t] - age[t]]

\* The places at which the timer task works with the time it has read.
Working == {"outer_cmd", "inner_cmd", "cb"}

\* The types of the timers; the list holds exactly the running ones.
TimersOK ==
  /\ obj_type \in [Timer -> BOOLEAN] /\ timer_state \in [Timer -> BOOLEAN]
  /\ match \in [Timer -> Tick] /\ remain \in [Timer -> Tick]
  /\ init_count \in [Timer -> Tick] /\ round_ticks \in [Timer -> Tick]
  /\ age \in [Timer -> 0 .. MaxAge] /\ g_tick_count \in Tick
  /\ orderly \in BOOLEAN /\ held \in 0 .. MaxHeld
  /\ g_timer_head \in Seq(Timer) /\ IsInjective(g_timer_head)
  /\ ToSet(g_timer_head) = {t \in Timer : timer_state[t]}
  /\ \A t \in Timer : timer_state[t] => obj_type[t]

\* match is the tick the timer is due at, as long as its age is counted.
ClockOK ==
  \A t \in Timer : timer_state[t] /\ age[t] < MaxAge => Near(match[t], g_tick_count, Dist[t])

\* Before a timer is armed behind an overdue one, the list is sorted and a timer is overdue for
\* MaxHeld ticks from before the wait and those that have come since the task was woken.
OrderOK ==
  orderly =>
    /\ \A t \in Timer : timer_state[t] => remain[t] <= MaxPeriod /\ Dist[t] >= -MaxHeld - held
    /\ Ascending(g_timer_head, Dist)

\* The timer task has a command when it is past the wait for one; it is in the list only
\* while it calls the callbacks; it waits without end only for an empty list.
PlaceOK ==
  /\ g_timer_queue \in Seq(Cmd) /\ Len(g_timer_queue) <= MsgNum
  /\ pc \in Pcs /\ cb_msg \in Cmd \cup {None} /\ wait \in Tick
  /\ q \in Timer \cup {None} /\ (q = None \/ timer_state[q])
  /\ pc \in {"outer", "outer_cmd", "inner_cmd"} => cb_msg \in Cmd
  /\ pc # "cb" => q = None
  /\ pc \in {"recv_outer", "blocked_outer"} => g_timer_head = << >>
  /\ pc \in {"recv_inner", "blocked_inner"} => wait >= 1

\* The time the task works with is at most as old as the task has been awake, and every
\* running timer was armed then or before.
LagOK ==
  /\ g_timer_count \in Tick
  /\ pc \in Working =>
       /\ Minus(g_tick_count, g_timer_count) <= held
       /\ \A t \in Timer : timer_state[t] => Minus(g_tick_count, g_timer_count) <= age[t]

\* The task waits until the head is due, but for the ticks since it computed the wait.
WaitOK ==
  orderly => \A t \in Timer : timer_state[t] =>
    /\ pc = "recv_inner" => wait - held <= Dist[t]
    /\ pc = "blocked_inner" => wait - MaxHeld <= Dist[t]

\* The inductive invariant.
ClockInv == TimersOK /\ ClockOK /\ OrderOK /\ PlaceOK /\ LagOK /\ WaitOK
-----------------------------------------------------------------------------
(***************************************************************************)
(* Arithmetic of the tick counter.                                         *)
(***************************************************************************)
LEMMA ModOnce ==
  ASSUME NEW n \in Nat, n > 0, NEW a \in Nat, a < n + n
  PROVE  a % n = IF a < n THEN a ELSE a - n
  OBVIOUS

\* Half is the smallest tick count that is read as negative.
Half == TickMod \div 2

LEMMA Ranges ==
  /\ TickMod \in Nat /\ Half \in Nat /\ TickMod = 2 * Half /\ Half >= 2
  /\ MaxPeriod = Half - 2 /\ MaxHeld \in Nat /\ 2 * MaxHeld <= Half
  /\ MaxAge = MaxPeriod + 2 * MaxHeld + 1 /\ None \notin Timer
  BY TimerAssumption DEF Half, MaxPeriod, MAX_TIMER_TICKS, MaxAge

LEMMA PlusValue ==
  ASSUME NEW x \in Tick, NEW y \in Tick
  PROVE  /\ Plus(x, y) = (IF x + y < TickMod THEN x + y ELSE x + y - TickMod)
         /\ Plus(x, y) \in Tick
<1> DEFINE d == x + y
<1>1. TickMod \in Nat /\ TickMod > 0 /\ d \in Nat /\ d < TickMod + TickMod
  BY Ranges DEF Tick
<1> HIDE DEF d
<1>2. d % TickMod = IF d < TickMod THEN d ELSE d - TickMod
  BY ONLY <1>1, ModOnce
<1> USE DEF d
<1> QED
  BY <1>1, <1>2 DEF Plus, Tick

LEMMA MinusValue ==
  ASSUME NEW x \in Tick, NEW y \in Tick
  PROVE  /\ Minus(x, y) = (IF x < y THEN x - y + TickMod ELSE x - y)
         /\ Minus(x, y) \in Tick
<1> DEFINE d == x - y + TickMod
<1>1. TickMod \in Nat /\ TickMod > 0 /\ d \in Nat /\ d < TickMod + TickMod
  BY Ranges DEF Tick
<1>2. d % TickMod = IF d < TickMod THEN d ELSE d - TickMod
  BY ONLY <1>1, ModOnce
<1> QED
  BY <1>1, <1>2 DEF Minus, Tick

LEMMA SelfMinus ==
  ASSUME NEW x \in Tick
  PROVE  Minus(x, x) = 0
  BY MinusValue, Ranges DEF Tick

\* The signed reading of a difference that is in its range.
LEMMA SignedDifference ==
  ASSUME NEW x \in Tick, NEW y \in Tick, NEW d \in Int, -Half <= d, d < Half, Near(x, y, d)
  PROVE  Signed(Minus(x, y)) = d /\ (d >= 0 => Minus(x, y) = d)
<1>1. Minus(x, y) \in Tick /\ Minus(x, y) = IF x < y THEN x - y + TickMod ELSE x - y
  BY MinusValue
<1>2. Signed(Minus(x, y)) = IF Minus(x, y) < Half THEN Minus(x, y) ELSE Minus(x, y) - TickMod
  BY DEF Signed, Half
<1>3. Minus(x, y) = IF d < 0 THEN d + TickMod ELSE d
  BY <1>1, Ranges DEF Near, Tick
<1> QED
  BY <1>2, <1>3, Ranges

\* The distance from an earlier time.
LEMMA NearShift ==
  ASSUME NEW x \in Tick, NEW y \in Tick, NEW z \in Tick, NEW d \in Int, Near(x, y, d),
         -Half <= d + Minus(y, z), d + Minus(y, z) < Half
  PROVE  Near(x, z, d + Minus(y, z))
<1> DEFINE lag == Minus(y, z)
<1>1. lag \in Tick /\ (y - z = lag \/ y - z = lag - TickMod)
  BY MinusValue, Ranges DEF Tick
<1> HIDE DEF lag
<1>2. CASE y - z = lag
  BY <1>1, <1>2, Ranges DEF Near, Tick, lag
<1>3. CASE y - z = lag - TickMod
  BY <1>1, <1>3, Ranges DEF Near, Tick, lag
<1> QED
  BY <1>1, <1>2, <1>3

\* The distance after a tick.
LEMMA NearTick ==
  ASSUME NEW x \in Tick, NEW y \in Tick, NEW d \in Int, -TickMod < d, Near(x, y, d)
  PROVE  Near(x, Plus(y, 1), d - 1)
<1>1. 1 \in Tick
  BY Ranges DEF Tick
<1>2. Plus(y, 1) = IF y + 1 < TickMod THEN y + 1 ELSE y + 1 - TickMod
  BY <1>1, PlusValue
<1>3. CASE y + 1 < TickMod
  BY <1>2, <1>3, Ranges DEF Near, Tick
<1>4. CASE y = TickMod - 1
  BY <1>2, <1>4, Ranges DEF Near, Tick
<1> QED
  BY <1>3, <1>4, Ranges DEF Tick
-----------------------------------------------------------------------------
(***************************************************************************)
(* The list and the time that remains.                                     *)
(***************************************************************************)
LEMMA DistValue ==
  ASSUME TimersOK, ClockOK, OrderOK
  PROVE  /\ Dist \in [Timer -> Int] /\ held \in Nat /\ held <= MaxHeld /\ g_tick_count \in Tick
         /\ \A t \in Timer :
              /\ Dist[t] = remain[t] - age[t] /\ remain[t] \in Tick /\ remain[t] \in Nat
              /\ age[t] \in Nat /\ age[t] <= MaxAge /\ match[t] \in Tick
              /\ orderly /\ timer_state[t] =>
                   /\ -MaxHeld - held <= Dist[t] /\ -Half <= Dist[t] /\ Dist[t] <= MaxPeriod
                   /\ remain[t] <= MaxPeriod /\ age[t] < MaxAge
                   /\ Near(match[t], g_tick_count, Dist[t])
                   /\ Signed(Minus(match[t], g_tick_count)) = Dist[t]
<1>1. ASSUME NEW t \in Timer
      PROVE  /\ remain[t] \in Tick /\ remain[t] \in Nat /\ age[t] \in Nat /\ age[t] <= MaxAge
             /\ match[t] \in Tick /\ Dist[t] = remain[t] - age[t] /\ Dist[t] \in Int
  <2>1. remain[t] \in Tick /\ age[t] \in 0 .. MaxAge /\ match[t] \in Tick
    BY DEF TimersOK
  <2>2. Dist[t] = remain[t] - age[t]
    BY DEF Dist
  <2> QED
    BY <2>1, <2>2, Ranges DEF Tick
<1>2. Dist \in [Timer -> Int]
  BY <1>1 DEF Dist
<1>3. held \in Nat /\ held <= MaxHeld /\ g_tick_count \in Tick
  BY Ranges DEF TimersOK
<1>4. ASSUME NEW t \in Timer, orderly, timer_state[t]
      PROVE  /\ -MaxHeld - held <= Dist[t] /\ -Half <= Dist[t] /\ Dist[t] <= MaxPeriod
             /\ remain[t] <= MaxPeriod /\ age[t] < MaxAge
  <2>1. remain[t] <= MaxPeriod /\ Dist[t] >= -MaxHeld - held
    BY <1>4 DEF OrderOK
  <2> QED
    BY <1>1, <1>3, <2>1, Ranges
<1>5. ASSUME NEW t \in Timer, orderly, timer_state[t]
      PROVE  /\ Near(match[t], g_tick_count, Dist[t])
             /\ Signed(Minus(match[t], g_tick_count)) = Dist[t]
  <2>1. Near(match[t], g_tick_count, Dist[t])
    BY <1>4, <1>5 DEF ClockOK
  <2>2. Dist[t] < Half
    BY <1>1, <1>4, <1>5, Ranges
  <2> QED
    BY <1>1, <1>3, <1>4, <1>5, <2>1, <2>2, SignedDifference
<1> QED
  BY <1>1, <1>2, <1>3, <1>4, <1>5

\* The distance of a timer from the time `now' that the task works with.
LEMMA DistFrom ==
  ASSUME TimersOK, ClockOK, OrderOK, NEW now \in Tick, NEW t \in Timer,
         timer_state[t], remain[t] <= MaxPeriod, age[t] < MaxAge,
         Dist[t] + Minus(g_tick_count, now) >= -Half,
         Minus(g_tick_count, now) <= age[t]
  PROVE  /\ Signed(Minus(match[t], now)) = Dist[t] + Minus(g_tick_count, now)
         /\ Dist[t] + Minus(g_tick_count, now) >= 0 =>
              Minus(match[t], now) = Dist[t] + Minus(g_tick_count, now)
<1> DEFINE lag == Minus(g_tick_count, now)
           d == Dist[t] + lag
<1>1. /\ Dist[t] = remain[t] - age[t] /\ Dist[t] \in Int /\ remain[t] \in Nat /\ age[t] \in Nat
      /\ match[t] \in Tick /\ g_tick_count \in Tick /\ Near(match[t], g_tick_count, Dist[t])
  BY DistValue DEF ClockOK
<1>2. lag \in Tick /\ lag \in Nat
  BY <1>1, MinusValue, Ranges DEF Tick
<1>3. d \in Int /\ -Half <= d /\ d < Half
  BY <1>1, <1>2, Ranges
<1>4. Near(match[t], now, d)
  BY <1>1, <1>3, NearShift
<1> QED
  BY <1>1, <1>3, <1>4, SignedDifference

\* What is y after z is y less the way from z to x after x.
LEMMA PlusNear ==
  ASSUME NEW x \in Tick, NEW y \in Tick, NEW z \in Tick
  PROVE  Near(Plus(z, y), x, y - Minus(x, z))
<1> DEFINE p == Plus(z, y)
           d == Minus(x, z)
<1>1. p \in Int /\ (p = z + y \/ p = z + y - TickMod)
  BY PlusValue, Ranges DEF Tick
<1>2. d \in Int /\ (d = x - z \/ d = x - z + TickMod)
  BY MinusValue, Ranges DEF Tick
<1>3. x \in Int /\ y \in Int /\ z \in Int /\ TickMod \in Int
  BY Ranges DEF Tick
<1> HIDE DEF p, d
<1>4. p - x = y - d \/ p - x = y - d + TickMod \/ p - x = y - d - TickMod
  BY ONLY <1>1, <1>2, <1>3
<1> QED
  BY <1>4 DEF Near, p, d

\* A timer that is armed is in the list and due after its time, the others are as they were.
LEMMA Armed ==
  ASSUME TimersOK, ClockOK, OrderOK,
         NEW t \in Timer, NEW l \in Seq(Timer), NEW now \in Tick, NEW ticks \in Tick,
         IsInjective(l), ToSet(l) = {s \in Timer : timer_state[s]} \ {t},
         orderly => Ascending(l, Dist),
         Minus(g_tick_count, now) <= held,
         \A s \in Timer : timer_state[s] => Minus(g_tick_count, now) <= age[s],
         Arm(t, l, now, ticks)
  PROVE  /\ match' \in [Timer -> Tick] /\ remain' \in [Timer -> Tick]
         /\ age' \in [Timer -> 0 .. MaxAge]
         /\ \A s \in Timer \ {t} : match'[s] = match[s] /\ remain'[s] = remain[s] /\ age'[s] = age[s]
         /\ remain'[t] = ticks /\ age'[t] = Minus(g_tick_count, now) /\ age'[t] \in Nat
         /\ Near(match'[t], g_tick_count, ticks - age'[t])
         /\ g_timer_head' \in Seq(Timer) /\ IsInjective(g_timer_head')
         /\ ToSet(g_timer_head') = ToSet(l) \cup {t}
         /\ orderly' \in BOOLEAN /\ (orderly' => orderly /\ ticks <= MaxPeriod)
         /\ orderly' => Ascending(g_timer_head', Dist')
<1> DEFINE I == {i \in DOMAIN l : Minus(match[l[i]], now) > ticks}
           lag == Minus(g_tick_count, now)
<1>1. /\ g_tick_count \in Tick /\ Plus(now, ticks) \in Tick /\ lag \in Tick
      /\ lag \in Nat /\ lag \in 0 .. MaxAge /\ ticks \in Nat
  <2>1. g_tick_count \in Tick /\ held \in 0 .. MaxHeld
    BY DEF TimersOK
  <2>2. Plus(now, ticks) \in Tick /\ lag \in Tick
    BY <2>1, PlusValue, MinusValue
  <2>3. lag <= held
    OBVIOUS
  <2> HIDE DEF lag
  <2> QED
    BY ONLY <2>1, <2>2, <2>3, ticks \in Tick, Ranges DEF Tick
<1>2. /\ match' = [match EXCEPT ![t] = Plus(now, ticks)]
      /\ remain' = [remain EXCEPT ![t] = ticks]
      /\ age' = [age EXCEPT ![t] = lag]
      /\ g_timer_head' = klist_insert(l, ScanStop(l, I), t)
      /\ orderly' = (orderly /\ ticks <= MaxPeriod /\ \A u \in ToSet(l) : ~Passed(u, now))
  BY DEF Arm, timer_list_pri_insert
<1>3. /\ match' \in [Timer -> Tick] /\ remain' \in [Timer -> Tick]
      /\ age' \in [Timer -> 0 .. MaxAge]
      /\ \A s \in Timer \ {t} : match'[s] = match[s] /\ remain'[s] = remain[s] /\ age'[s] = age[s]
      /\ match'[t] = Plus(now, ticks) /\ remain'[t] = ticks /\ age'[t] = lag
  BY <1>1, <1>2 DEF TimersOK
<1>4. Near(Plus(now, ticks), g_tick_count, ticks - lag)
  BY ONLY <1>1, now \in Tick, ticks \in Tick, PlusNear
<1> DEFINE n == ScanStop(l, I)
<1>5. n \in 1 .. Len(l) + 1
  BY ScanStopRange
<1>6. t \notin ToSet(l)
  OBVIOUS
<1>7. /\ g_timer_head' \in Seq(Timer) /\ IsInjective(g_timer_head')
      /\ ToSet(g_timer_head') = ToSet(l) \cup {t}
  <2> HIDE DEF n
  <2>1. g_timer_head' = klist_insert(l, n, t)
    BY <1>2 DEF n
  <2> QED
    BY <1>5, <1>6, <2>1, InsertProperties
<1>8. ASSUME orderly' PROVE Ascending(g_timer_head', Dist')
  <2>1. orderly /\ ticks <= MaxPeriod /\ \A u \in ToSet(l) : ~Passed(u, now)
    BY <1>2, <1>8
  <2>2. /\ Dist' \in [Timer -> Int] /\ Dist'[t] = ticks - lag
        /\ \A s \in Timer \ {t} : Dist'[s] = Dist[s]
    <3>1. \A s \in Timer : remain'[s] \in Int /\ age'[s] \in Int
      BY <1>3, Ranges DEF Tick
    <3>2. \A s \in Timer : remain'[s] - age'[s] \in Int
      BY <3>1
    <3> QED
      BY <1>3, <3>2 DEF Dist
  <2>3. ASSUME NEW s \in ToSet(l)
        PROVE  /\ s \in Timer \ {t} /\ Minus(match[s], now) = Dist'[s] + lag /\ Dist'[s] \in Int
    <3>1. s \in Timer \ {t} /\ timer_state[s] /\ lag <= age[s]
      BY <2>3
    <3>2. /\ Dist[s] \in Int /\ -Half <= Dist[s] /\ remain[s] <= MaxPeriod /\ age[s] < MaxAge
      BY <2>1, <3>1, DistValue
    <3>3. Dist[s] + lag >= -Half
      BY <1>1, <3>2, Ranges
    <3>4. /\ Signed(Minus(match[s], now)) = Dist[s] + lag
          /\ Dist[s] + lag >= 0 => Minus(match[s], now) = Dist[s] + lag
      BY <3>1, <3>2, <3>3, DistFrom
    <3>5. Dist[s] + lag >= 0
      BY <1>1, <2>1, <2>3, <3>2, <3>4 DEF Passed
    <3> QED
      BY <2>2, <3>1, <3>2, <3>4, <3>5
  <2>4. \A i \in DOMAIN l : l[i] \in ToSet(l)
    BY ToSetByIndex
  <2>5. \A i \in DOMAIN l : Minus(match[l[i]], now) > ticks <=> Dist'[l[i]] > Dist'[t]
    <3> SUFFICES ASSUME NEW i \in DOMAIN l
                 PROVE  Minus(match[l[i]], now) > ticks <=> Dist'[l[i]] > Dist'[t]
      OBVIOUS
    <3> HIDE DEF lag
    <3> QED
      BY <1>1, <2>2, <2>3, <2>4
  <2>6. I = {i \in DOMAIN l : Dist'[l[i]] > Dist'[t]}
    BY <2>5
  <2>7. Ascending(l, Dist')
    BY <2>1, <2>2, <2>3, AscendingSame
  <2> QED
    BY <1>2, <2>2, <2>6, <2>7, InsertAscending
<1> QED
  BY <1>1, <1>2, <1>3, <1>4, <1>7, <1>8

\* Arming a timer keeps the timers in order.
LEMMA Arm_OK ==
  ASSUME TimersOK, ClockOK, OrderOK,
         NEW t \in Timer, NEW l \in Seq(Timer), NEW now \in Tick, NEW ticks \in Tick,
         IsInjective(l), ToSet(l) = {s \in Timer : timer_state[s]} \ {t},
         orderly => Ascending(l, Dist),
         Minus(g_tick_count, now) <= held,
         \A s \in Timer : timer_state[s] => Minus(g_tick_count, now) <= age[s],
         Arm(t, l, now, ticks), obj_type[t],
         timer_state' = [timer_state EXCEPT ![t] = TRUE],
         UNCHANGED <<obj_type, init_count, round_ticks, g_tick_count, held>>
  PROVE  /\ TimersOK' /\ ClockOK' /\ OrderOK'
         /\ \A s \in Timer : timer_state'[s] => Minus(g_tick_count, now) <= age'[s]
<1>1. /\ match' \in [Timer -> Tick] /\ remain' \in [Timer -> Tick]
      /\ age' \in [Timer -> 0 .. MaxAge]
      /\ \A s \in Timer \ {t} : match'[s] = match[s] /\ remain'[s] = remain[s] /\ age'[s] = age[s]
      /\ remain'[t] = ticks /\ age'[t] = Minus(g_tick_count, now) /\ age'[t] \in Nat
      /\ Near(match'[t], g_tick_count, ticks - age'[t])
      /\ g_timer_head' \in Seq(Timer) /\ IsInjective(g_timer_head')
      /\ ToSet(g_timer_head') = ToSet(l) \cup {t}
      /\ orderly' \in BOOLEAN /\ (orderly' => orderly /\ ticks <= MaxPeriod)
      /\ orderly' => Ascending(g_timer_head', Dist')
  BY Armed
<1>2. /\ timer_state \in [Timer -> BOOLEAN] /\ timer_state' \in [Timer -> BOOLEAN]
      /\ timer_state'[t] /\ \A s \in Timer \ {t} : timer_state'[s] = timer_state[s]
  BY DEF TimersOK
<1>3. TimersOK'
  <2>1. ToSet(g_timer_head') = {s \in Timer : timer_state'[s]}
    BY <1>1, <1>2
  <2>2. \A s \in Timer : timer_state'[s] => obj_type[s]
    BY <1>2 DEF TimersOK
  <2> QED
    BY <1>1, <1>2, <2>1, <2>2 DEF TimersOK
<1>4. \A s \in Timer : Dist'[s] = remain'[s] - age'[s]
  BY DEF Dist
<1>5. \A s \in Timer \ {t} : Dist'[s] = Dist[s]
  BY <1>1, <1>4 DEF Dist
<1>6. ClockOK'
  <2>1. ASSUME NEW s \in Timer, timer_state'[s], age'[s] < MaxAge
        PROVE  Near(match'[s], g_tick_count, Dist'[s])
    <3>1. CASE s = t
      BY <1>1, <1>4, <3>1
    <3>2. CASE s # t
      BY <1>1, <1>2, <1>5, <2>1, <3>2 DEF ClockOK
    <3> QED
      BY <3>1, <3>2
  <2> QED
    BY <2>1 DEF ClockOK, Near
<1>7. OrderOK'
  <2>1. ASSUME orderly', NEW s \in Timer, timer_state'[s]
        PROVE  remain'[s] <= MaxPeriod /\ Dist'[s] >= -MaxHeld - held
    <3>1. CASE s = t
      <4>1. held \in Nat /\ ticks \in Nat /\ age'[t] <= held /\ ticks <= MaxPeriod
        BY <1>1, <2>1, Ranges DEF TimersOK, Tick
      <4> QED
        BY <1>1, <1>4, <3>1, <4>1, Ranges
    <3>2. CASE s # t
      BY <1>1, <1>2, <1>5, <2>1, <3>2 DEF OrderOK
    <3> QED
      BY <3>1, <3>2
  <2> QED
    BY <1>1, <2>1 DEF OrderOK
<1>8. ASSUME NEW s \in Timer, timer_state'[s] PROVE Minus(g_tick_count, now) <= age'[s]
  <2>1. CASE s = t
    BY <1>1, <2>1
  <2>2. CASE s # t
    BY <1>1, <1>2, <1>8, <2>2
  <2> QED
    BY <2>1, <2>2
<1> QED
  BY <1>3, <1>6, <1>7, <1>8

\* So does stopping one.
LEMMA Disarm_OK ==
  ASSUME TimersOK, ClockOK, OrderOK, NEW t \in Timer, timer_state[t], Disarm(t),
         UNCHANGED <<obj_type, init_count, round_ticks, g_tick_count, held>>
  PROVE  /\ TimersOK' /\ ClockOK' /\ OrderOK'
         /\ \A s \in Timer : timer_state'[s] => s # t /\ timer_state[s] /\ age'[s] = age[s]
<1>1. t \in ToSet(g_timer_head) /\ g_timer_head \in Seq(Timer) /\ IsInjective(g_timer_head)
  BY DEF TimersOK
<1>2. /\ g_timer_head' \in Seq(Timer) /\ IsInjective(g_timer_head')
      /\ ToSet(g_timer_head') = ToSet(g_timer_head) \ {t}
  BY <1>1, RmProperties DEF Disarm
<1>3. /\ match' \in [Timer -> Tick] /\ remain' \in [Timer -> Tick]
      /\ age' \in [Timer -> 0 .. MaxAge] /\ timer_state' \in [Timer -> BOOLEAN] /\ ~timer_state'[t]
      /\ \A s \in Timer \ {t} : /\ match'[s] = match[s] /\ remain'[s] = remain[s]
                                /\ age'[s] = age[s] /\ timer_state'[s] = timer_state[s]
  BY Ranges DEF Disarm, TimersOK, Tick
<1>4. orderly' = orderly /\ \A s \in Timer \ {t} : Dist'[s] = Dist[s]
  BY <1>3 DEF Dist, Disarm
<1>5. TimersOK'
  <2>1. ToSet(g_timer_head') = {s \in Timer : timer_state'[s]}
    BY <1>2, <1>3 DEF TimersOK
  <2>2. \A s \in Timer : timer_state'[s] => obj_type[s]
    BY <1>3 DEF TimersOK
  <2> QED
    BY <1>2, <1>3, <1>4, <2>1, <2>2 DEF TimersOK
<1>6. ClockOK'
  BY <1>3, <1>4 DEF ClockOK, Near
<1>7. OrderOK'
  <2>1. ASSUME orderly PROVE Ascending(g_timer_head', Dist')
    <3>1. Ascending(g_timer_head, Dist)
      BY <2>1 DEF OrderOK
    <3>2. Ascending(g_timer_head', Dist)
      BY <1>1, <3>1, RmAscending DEF Disarm
    <3>3. \A s \in ToSet(g_timer_head') : Dist[s] = Dist'[s]
      BY <1>2, <1>4, <1>5 DEF TimersOK
    <3> QED
      BY <1>2, <3>2, <3>3, AscendingSame
  <2> QED
    BY <1>3, <1>4, <2>1 DEF OrderOK
<1> QED
  BY <1>3, <1>5, <1>6, <1>7

\* A change of timers that do not run, or of none; the time the task is held up may begin
\* again when no timer is overdue for more than MaxHeld ticks.
LEMMA Idle_OK ==
  ASSUME TimersOK, ClockOK, OrderOK,
         obj_type' \in [Timer -> BOOLEAN], match' \in [Timer -> Tick], remain' \in [Timer -> Tick],
         init_count' \in [Timer -> Tick], round_ticks' \in [Timer -> Tick],
         \A s \in Timer : timer_state[s] => obj_type'[s] /\ match'[s] = match[s] /\ remain'[s] = remain[s],
         timer_state' = timer_state, age' = age, g_timer_head' = g_timer_head,
         UNCHANGED <<g_tick_count, orderly>>,
         \/ held' = held
         \/ held' = 0 /\ (orderly => \A s \in Timer : timer_state[s] => Dist[s] >= -MaxHeld)
  PROVE  TimersOK' /\ ClockOK' /\ OrderOK'
<1>1. TimersOK'
  BY Ranges DEF TimersOK
<1>2. \A s \in Timer : timer_state[s] => Dist'[s] = Dist[s]
  BY DEF Dist
<1>3. ClockOK'
  BY <1>2 DEF ClockOK, Near
<1>4. OrderOK'
  <2>1. \A s \in ToSet(g_timer_head) : s \in Timer /\ Dist[s] = Dist'[s]
    BY <1>2 DEF TimersOK
  <2>2. g_timer_head \in Seq(Timer)
    BY DEF TimersOK
  <2>3. Ascending(g_timer_head, Dist) => Ascending(g_timer_head, Dist')
    BY <2>1, <2>2, AscendingSame
  <2>4. ASSUME orderly, NEW s \in Timer, timer_state[s] PROVE Dist[s] >= -MaxHeld - held'
    <3>1. CASE held' = held
      BY <2>4, <3>1 DEF OrderOK
    <3>2. CASE held' = 0 /\ Dist[s] >= -MaxHeld
      BY <3>2, Ranges
    <3> QED
      BY <2>4, <3>1, <3>2
  <2> QED
    BY <1>2, <2>3, <2>4 DEF OrderOK
<1> QED
  BY <1>1, <1>3, <1>4

\* Whatever command comes, in whatever state of its timer.
LEMMA timer_cmd_proc_OK ==
  ASSUME TimersOK, ClockOK, OrderOK, NEW cmd \in Cmd, NEW now \in Tick, timer_cmd_proc(cmd, now),
         Minus(g_tick_count, now) <= held,
         \A s \in Timer : timer_state[s] => Minus(g_tick_count, now) <= age[s],
         UNCHANGED <<g_tick_count, held>>
  PROVE  /\ TimersOK' /\ ClockOK' /\ OrderOK'
         /\ \A s \in Timer : timer_state'[s] => Minus(g_tick_count, now) <= age'[s]
<1> DEFINE t == cmd.timer
           l == IF timer_state[t] THEN klist_rm(g_timer_head, t) ELSE g_timer_head
<1>1. t \in Timer
  BY TimerAssumption DEF Cmd
<1>2. /\ g_timer_head \in Seq(Timer) /\ IsInjective(g_timer_head) /\ g_tick_count \in Tick
      /\ init_count[t] \in Tick /\ obj_type[t] \in BOOLEAN /\ timer_state[t] \in BOOLEAN
      /\ ToSet(g_timer_head) = {s \in Timer : timer_state[s]}
  BY <1>1 DEF TimersOK
<1>3. /\ l \in Seq(Timer) /\ IsInjective(l) /\ ToSet(l) = {s \in Timer : timer_state[s]} \ {t}
      /\ orderly => Ascending(l, Dist)
  <2>1. CASE timer_state[t]
    <3>1. t \in ToSet(g_timer_head)
      BY <1>1, <1>2, <2>1
    <3> QED
      BY <1>2, <2>1, <3>1, RmProperties, RmAscending DEF OrderOK
  <2>2. CASE ~timer_state[t]
    BY <1>2, <2>2 DEF OrderOK
  <2> QED
    BY <2>1, <2>2
<1> DEFINE keeps == UNCHANGED <<obj_type, init_count, round_ticks>>
<1>5. CASE cmd.op = "START" /\ obj_type[t] /\ ~timer_state[t]
  <2>1. cmd_start(t, l, now) /\ keeps
    BY <1>1, <1>5 DEF timer_cmd_proc, cmd_deletes, DelCmd, TimersOK
  <2> HIDE DEF l, t
  <2> QED
    BY <1>1, <1>2, <1>3, <1>5, <2>1, Arm_OK DEF cmd_start
<1>6. CASE cmd.op = "ARG_AUTO" /\ obj_type[t]
  <2>1. cmd_start(t, l, now) /\ keeps
    BY <1>1, <1>6 DEF timer_cmd_proc, cmd_deletes, DelCmd, TimersOK
  <2> HIDE DEF l, t
  <2> QED
    BY <1>1, <1>2, <1>3, <1>6, <2>1, Arm_OK DEF cmd_start
<1>7. CASE cmd.op = "STOP" /\ obj_type[t] /\ timer_state[t]
  <2>1. Disarm(t) /\ keeps
    BY <1>1, <1>7 DEF timer_cmd_proc, cmd_deletes, DelCmd, TimersOK
  <2> QED
    BY <1>1, <1>7, <2>1, Disarm_OK
<1>8. CASE /\ ~(cmd.op = "START" /\ obj_type[t] /\ ~timer_state[t])
           /\ ~(cmd.op = "ARG_AUTO" /\ obj_type[t])
           /\ ~(cmd.op = "STOP" /\ obj_type[t] /\ timer_state[t])
  <2>1. /\ NoCmd
        /\ obj_type' = [obj_type EXCEPT ![t] = @ /\ ~cmd_deletes(cmd)]
    BY <1>8 DEF timer_cmd_proc
  <2> DEFINE changes == cmd.op = "CHG" /\ cmd.first > 0 /\ obj_type[t] /\ ~timer_state[t]
  <2>2. init_count' \in [Timer -> Tick] /\ round_ticks' \in [Timer -> Tick]
    <3>1. CASE changes
      <4>1. PICK c \in Change : cmd.first = c[2] /\ cmd.round = c[3]
        BY <3>1 DEF Cmd
      <4>2. cmd.first \in Tick /\ cmd.round \in Tick
        BY <4>1, TimerAssumption DEF Tick
      <4>3. /\ init_count' = [init_count EXCEPT ![t] = cmd.first]
            /\ round_ticks' = [round_ticks EXCEPT ![t] = cmd.round]
        BY <3>1 DEF timer_cmd_proc
      <4> QED
        BY <4>2, <4>3 DEF TimersOK
    <3>2. CASE ~changes
      BY <3>2 DEF timer_cmd_proc, TimersOK
    <3> QED
      BY <3>1, <3>2
  <2>3. obj_type' \in [Timer -> BOOLEAN] /\ \A s \in Timer : timer_state[s] => obj_type'[s]
    BY <1>1, <2>1 DEF TimersOK, cmd_deletes
  <2>4. match \in [Timer -> Tick] /\ remain \in [Timer -> Tick]
    BY DEF TimersOK
  <2>5. UNCHANGED <<timer_state, match, remain, g_timer_head, age, orderly>>
    BY <2>1 DEF NoCmd
  <2> QED
    BY <2>2, <2>3, <2>4, <2>5, Idle_OK
<1> QED
  BY <1>5, <1>6, <1>7, <1>8
-----------------------------------------------------------------------------
(***************************************************************************)
(* The steps.                                                              *)
(***************************************************************************)
\* The timer task waits for the head of the list.
InnerWait == {"recv_inner", "blocked_inner"}

LEMMA InvImplies ==
  ClockInv => TimerInv
<1> SUFFICES ASSUME ClockInv PROVE TimerInv
  OBVIOUS
<1>1. ToSet(g_timer_head) \subseteq Timer
  BY DEF ClockInv, TimersOK
<1>2. ToSet(g_timer_queue) \subseteq Cmd
  BY ToSetByIndex DEF ClockInv, PlaceOK
<1> QED
  BY <1>1, <1>2 DEF ClockInv, TimersOK, PlaceOK, LagOK, TimerInv, TypeOK, TimerListOK

\* A step that neither begins work with a new time nor computes a wait.
LEMMA Lag_Same ==
  ASSUME ClockInv, UNCHANGED <<timer_state, age, g_tick_count, g_timer_count, held, orderly, wait>>,
         \A s \in Timer : timer_state[s] => remain'[s] = remain[s],
         pc' \in Working => pc \in Working, pc' \in InnerWait => pc' = pc
  PROVE  LagOK' /\ WaitOK'
<1>1. \A s \in Timer : timer_state[s] => Dist'[s] = Dist[s]
  BY DEF Dist
<1>2. LagOK'
  BY DEF ClockInv, LagOK, Minus
<1>3. WaitOK'
  BY <1>1 DEF ClockInv, WaitOK, InnerWait
<1> QED
  BY <1>2, <1>3

LEMMA Timers_Same ==
  ASSUME ClockInv, UNCHANGED <<timerVars, g_timer_head, g_tick_count, held, orderly, age>>
  PROVE  TimersOK' /\ ClockOK' /\ OrderOK'
  BY Idle_OK DEF ClockInv, TimersOK, timerVars

\* While the task does not wait for the head, only the places of its work matter.
LEMMA NoWait ==
  ASSUME pc' \notin InnerWait
  PROVE  WaitOK'
  BY DEF WaitOK, InnerWait

LEMMA Send_OK ==
  ASSUME ClockInv, NEW cmd \in Cmd, krhino_buf_queue_send(cmd),
         UNCHANGED <<timer_state, g_timer_head, wait, q>>
  PROVE  PlaceOK' /\ (pc' \in Working => pc \in Working) /\ (pc' \in InnerWait => pc' = pc)
<1>1. CASE Blocked
  <2>1. /\ cb_msg' = cmd /\ UNCHANGED g_timer_queue /\ q = None
        /\ pc' = IF pc = "blocked_outer" THEN "outer" ELSE "inner"
    BY <1>1 DEF krhino_buf_queue_send, Blocked, ClockInv, PlaceOK
  <2> QED
    BY <2>1 DEF ClockInv, PlaceOK, Pcs, InnerWait, Working
<1>2. CASE ~Blocked
  <2>1. /\ Len(g_timer_queue) < MsgNum /\ g_timer_queue' = Append(g_timer_queue, cmd)
        /\ UNCHANGED <<pc, cb_msg>>
    BY <1>2 DEF krhino_buf_queue_send
  <2>2. g_timer_queue \in Seq(Cmd)
    BY DEF ClockInv, PlaceOK
  <2>3. g_timer_queue' \in Seq(Cmd) /\ Len(g_timer_queue') = Len(g_timer_queue) + 1
    BY <2>1, <2>2, AppendProperties
  <2>4. Len(g_timer_queue') <= MsgNum
    BY <2>1, <2>2, <2>3, TimerAssumption
  <2> HIDE DEF Pcs
  <2> QED
    BY <2>1, <2>3, <2>4 DEF ClockInv, PlaceOK
<1> QED
  BY <1>1, <1>2

LEMMA timer_command_Inv ==
  ASSUME ClockInv, NEW cmd \in Cmd, timer_command(cmd)
  PROVE  ClockInv'
<1>1. /\ krhino_buf_queue_send(cmd)
      /\ UNCHANGED <<timerVars, g_timer_head, g_timer_count, g_tick_count, held, wait, q, age, orderly>>
      /\ UNCHANGED <<timer_state, remain>>
  BY DEF timer_command, timerVars
<1>2. TimersOK' /\ ClockOK' /\ OrderOK'
  BY <1>1, Timers_Same
<1>3. PlaceOK' /\ (pc' \in Working => pc \in Working) /\ (pc' \in InnerWait => pc' = pc)
  BY <1>1, Send_OK
<1>4. LagOK' /\ WaitOK'
  BY <1>1, <1>3, Lag_Same
<1> QED
  BY <1>2, <1>3, <1>4 DEF ClockInv

LEMMA krhino_timer_create_Inv ==
  ASSUME ClockInv, NEW t \in Timer, NEW first \in Tick, NEW round \in Tick,
         NEW auto_run \in BOOLEAN, krhino_timer_create(t, first, round, auto_run)
  PROVE  ClockInv'
<1>1. ~timer_state[t] /\ timer_state' = timer_state
  BY DEF krhino_timer_create, ClockInv, TimersOK
<1>2. /\ obj_type' \in [Timer -> BOOLEAN] /\ match' \in [Timer -> Tick]
      /\ remain' \in [Timer -> Tick] /\ init_count' \in [Timer -> Tick]
      /\ round_ticks' \in [Timer -> Tick]
      /\ \A s \in Timer : timer_state[s] => obj_type'[s] /\ match'[s] = match[s] /\ remain'[s] = remain[s]
  BY <1>1, Ranges DEF krhino_timer_create, ClockInv, TimersOK, Tick
<1>3. UNCHANGED <<g_timer_head, g_timer_count, g_tick_count, held, wait, q, age, orderly>>
  BY DEF krhino_timer_create
<1>4. TimersOK' /\ ClockOK' /\ OrderOK'
  BY <1>1, <1>2, <1>3, Idle_OK DEF ClockInv
<1>5. PlaceOK' /\ (pc' \in Working => pc \in Working) /\ (pc' \in InnerWait => pc' = pc)
  <2>1. CASE krhino_buf_queue_send([op |-> "START", timer |-> t])
    <3>1. [op |-> "START", timer |-> t] \in Cmd
      BY DEF Cmd
    <3> QED
      BY <1>1, <1>3, <2>1, <3>1, Send_OK
  <2>2. CASE UNCHANGED <<g_timer_queue, pc, cb_msg>>
    BY <1>1, <1>3, <2>2 DEF ClockInv, PlaceOK
  <2> QED
    BY <2>1, <2>2 DEF krhino_timer_create
<1>6. LagOK' /\ WaitOK'
  BY <1>1, <1>2, <1>3, <1>5, Lag_Same
<1> QED
  BY <1>4, <1>5, <1>6 DEF ClockInv

LEMMA recv_Inv ==
  ASSUME ClockInv, NEW from \in {"outer", "inner"}, recv(from)
  PROVE  ClockInv'
<1>1. /\ UNCHANGED <<timerVars, g_timer_head, g_timer_count, g_tick_count, wait, q, age, orderly>>
      /\ UNCHANGED <<obj_type, timer_state, match, remain, init_count, round_ticks>>
      /\ pc = IF from = "outer" THEN "recv_outer" ELSE "recv_inner"
  BY DEF recv, timerVars
<1>2. /\ obj_type \in [Timer -> BOOLEAN] /\ match \in [Timer -> Tick] /\ remain \in [Timer -> Tick]
      /\ init_count \in [Timer -> Tick] /\ round_ticks \in [Timer -> Tick]
      /\ \A s \in Timer : timer_state[s] => obj_type[s]
  BY DEF ClockInv, TimersOK
<1>3. CASE g_timer_queue = << >>
  <2>1. /\ pc' = (IF from = "outer" THEN "blocked_outer" ELSE "blocked_inner") /\ held' = 0
        /\ UNCHANGED <<g_timer_queue, cb_msg>>
    BY <1>3 DEF recv
  <2>2. PlaceOK'
    BY <1>1, <2>1 DEF ClockInv, PlaceOK, Pcs
  <2>3. ASSUME orderly, NEW s \in Timer, timer_state[s]
        PROVE  /\ pc = "recv_inner" /\ wait - MaxHeld <= Dist[s] /\ Dist[s] >= -MaxHeld
    <3>1. /\ Dist[s] \in Int /\ held \in Nat /\ held <= MaxHeld /\ s \in ToSet(g_timer_head)
          /\ wait \in Tick
      BY <2>3, DistValue DEF ClockInv, TimersOK, PlaceOK
    <3>2. g_timer_head # << >>
      BY <3>1 DEF ToSet
    <3>3. pc = "recv_inner"
      BY <1>1, <3>2 DEF ClockInv, PlaceOK
    <3>4. wait - held <= Dist[s] /\ wait >= 1
      BY <2>3, <3>3 DEF ClockInv, PlaceOK, WaitOK
    <3> QED
      BY <3>1, <3>3, <3>4, Ranges DEF Tick
  <2>4. TimersOK' /\ ClockOK' /\ OrderOK'
    BY <1>1, <1>2, <2>1, <2>3, Idle_OK DEF ClockInv
  <2>5. LagOK'
    BY <1>1, <2>1 DEF ClockInv, LagOK, Working
  <2>6. Dist' = Dist
    BY <1>1 DEF Dist
  <2>7. WaitOK'
    BY <1>1, <2>1, <2>3, <2>6 DEF WaitOK
  <2> QED
    BY <2>2, <2>4, <2>5, <2>7 DEF ClockInv
<1>4. CASE g_timer_queue # << >>
  <2>1. /\ pc' = from /\ cb_msg' = Head(g_timer_queue) /\ g_timer_queue' = Tail(g_timer_queue)
        /\ UNCHANGED held
    BY <1>4 DEF recv
  <2>2. g_timer_queue \in Seq(Cmd) /\ Len(g_timer_queue) <= MsgNum
    BY DEF ClockInv, PlaceOK
  <2>3. /\ Head(g_timer_queue) \in Cmd /\ Tail(g_timer_queue) \in Seq(Cmd)
        /\ Len(Tail(g_timer_queue)) <= MsgNum
    BY <1>4, <2>2, HeadTailProperties, TimerAssumption
  <2>4. PlaceOK' /\ pc' \notin Working /\ pc' \notin InnerWait
    BY <1>1, <2>1, <2>3 DEF ClockInv, PlaceOK, Pcs, InnerWait, Working
  <2> QED
    BY <1>1, <2>1, <2>4, Timers_Same, Lag_Same DEF ClockInv
<1> QED
  BY <1>3, <1>4

LEMMA FirstValue ==
  ASSUME NEW l \in Seq(Timer), IsInjective(l)
  PROVE  \/ l = << >> /\ First(l) = None
         \/ /\ l # << >> /\ First(l) # None /\ First(l) \in Timer
            /\ First(l) \in ToSet(l) /\ First(l) = l[1]
<1>1. CASE l = << >>
  BY <1>1 DEF First
<1>2. CASE l # << >>
  <2>1. Head(l) \in Timer /\ Head(l) \in ToSet(l) /\ Head(l) = l[1]
    BY <1>2, TailProperties
  <2> QED
    BY <1>2, <2>1, Ranges DEF First
<1> QED
  BY <1>1, <1>2

\* The node after an element of the list is another element, or the list head.
LEMMA NextNodeValue ==
  ASSUME NEW l \in Seq(Timer), IsInjective(l), NEW t \in ToSet(l)
  PROVE  NextNode(l, t) = None \/ (NextNode(l, t) \in ToSet(l) /\ NextNode(l, t) # t)
<1> DEFINE i == CHOOSE i \in DOMAIN l : l[i] = t
<1>1. i \in 1 .. Len(l) /\ l[i] = t
  <2>1. \E k \in DOMAIN l : l[k] = t
    BY DEF ToSet
  <2> QED
    BY <2>1
<1>2. NextNode(l, t) = IF i = Len(l) THEN None ELSE l[i + 1]
  BY DEF NextNode
<1> HIDE DEF i
<1>3. CASE i # Len(l)
  <2>1. i + 1 \in 1 .. Len(l) /\ i + 1 # i
    BY <1>1, <1>3
  <2>2. l[i + 1] \in ToSet(l) /\ l[i + 1] # l[i]
    BY <1>1, <2>1, ToSetByIndex DEF IsInjective
  <2> QED
    BY <1>1, <1>2, <1>3, <2>2
<1> QED
  BY <1>2, <1>3

\* The task begins to work with the present time.
LEMMA NewTime ==
  ASSUME ClockInv, g_timer_count' = g_tick_count, UNCHANGED <<g_tick_count, held, timer_state, age>>
  PROVE  LagOK'
<1>1. g_tick_count \in Tick /\ Minus(g_tick_count, g_tick_count) = 0 /\ held >= 0
  BY SelfMinus, Ranges DEF ClockInv, TimersOK
<1>2. \A s \in Timer : age[s] >= 0
  BY Ranges DEF ClockInv, TimersOK
<1> QED
  BY <1>1, <1>2 DEF LagOK

LEMMA received_Inv ==
  ASSUME ClockInv, NEW from \in {"outer", "inner"}, received(from)
  PROVE  ClockInv'
<1>1. /\ pc = from /\ wait' = 0 /\ g_timer_count' = g_tick_count
      /\ UNCHANGED <<timerVars, g_timer_head, g_timer_queue, g_tick_count, held, cb_msg, age, orderly>>
      /\ UNCHANGED <<timer_state>>
  BY DEF received, timerVars
<1>2. /\ g_timer_head \in Seq(Timer) /\ IsInjective(g_timer_head)
      /\ ToSet(g_timer_head) = {t \in Timer : timer_state[t]} /\ 0 \in Tick
  BY Ranges DEF ClockInv, TimersOK, Tick
<1>3. PlaceOK' /\ pc' \notin InnerWait
  <2>1. CASE from = "inner" /\ cb_msg = None
    <3>1. pc' = "cb" /\ q' = First(g_timer_head)
      BY <2>1 DEF received
    <3>2. q' \in Timer \cup {None} /\ (q' = None \/ timer_state[q'])
      BY <1>2, <3>1, FirstValue
    <3> QED
      BY <1>1, <1>2, <3>1, <3>2 DEF ClockInv, PlaceOK, Pcs, InnerWait
  <2>2. CASE ~(from = "inner" /\ cb_msg = None)
    <3>1. /\ pc' = (IF from = "outer" THEN "outer_cmd" ELSE "inner_cmd") /\ UNCHANGED q
          /\ cb_msg \in Cmd
      BY <1>1, <2>2 DEF received, ClockInv, PlaceOK
    <3> QED
      BY <1>1, <1>2, <3>1 DEF ClockInv, PlaceOK, Pcs, InnerWait
  <2> QED
    BY <2>1, <2>2
<1> QED
  BY <1>1, <1>3, Timers_Same, NewTime, NoWait DEF ClockInv

\* The command is executed as of the time that was read.
LEMMA Command_OK ==
  ASSUME ClockInv, pc \in {"outer_cmd", "inner_cmd"}, timer_cmd_proc(cb_msg, g_timer_count),
         UNCHANGED <<g_tick_count, held>>
  PROVE  /\ TimersOK' /\ ClockOK' /\ OrderOK'
         /\ \A s \in Timer : timer_state'[s] => Minus(g_tick_count, g_timer_count) <= age'[s]
<1>1. cb_msg \in Cmd /\ g_timer_count \in Tick
  BY DEF ClockInv, PlaceOK, LagOK
<1>2. /\ Minus(g_tick_count, g_timer_count) <= held
      /\ \A s \in Timer : timer_state[s] => Minus(g_tick_count, g_timer_count) <= age[s]
  BY DEF ClockInv, LagOK, Working
<1> QED
  BY <1>1, <1>2, timer_cmd_proc_OK DEF ClockInv

LEMMA outer_cmd_Inv ==
  ASSUME ClockInv, outer_cmd
  PROVE  ClockInv'
<1>1. /\ pc = "outer_cmd" /\ pc' = "test" /\ cb_msg' = None /\ g_timer_count' = 0
      /\ timer_cmd_proc(cb_msg, g_timer_count)
      /\ UNCHANGED <<g_timer_queue, g_tick_count, held, wait, q>>
  BY DEF outer_cmd
<1>2. TimersOK' /\ ClockOK' /\ OrderOK'
  BY <1>1, Command_OK
<1>3. PlaceOK'
  BY <1>1 DEF ClockInv, PlaceOK, Pcs
<1>4. LagOK'
  BY <1>1, Ranges DEF LagOK, Tick, Working
<1>5. WaitOK'
  BY <1>1, NoWait DEF InnerWait
<1> QED
  BY <1>2, <1>3, <1>4, <1>5 DEF ClockInv

LEMMA inner_cmd_Inv ==
  ASSUME ClockInv, inner_cmd
  PROVE  ClockInv'
<1>1. /\ pc = "inner_cmd" /\ pc' = "cb" /\ cb_msg' = None /\ q' = First(g_timer_head')
      /\ timer_cmd_proc(cb_msg, g_timer_count)
      /\ UNCHANGED <<g_timer_count, g_timer_queue, g_tick_count, held, wait>>
  BY DEF inner_cmd
<1>2. /\ TimersOK' /\ ClockOK' /\ OrderOK'
      /\ \A s \in Timer : timer_state'[s] => Minus(g_tick_count, g_timer_count) <= age'[s]
  BY <1>1, Command_OK
<1>3. q' \in Timer \cup {None} /\ (q' = None \/ timer_state'[q'])
  <2>1. /\ g_timer_head' \in Seq(Timer) /\ IsInjective(g_timer_head')
        /\ ToSet(g_timer_head') = {t \in Timer : timer_state'[t]}
    BY <1>2 DEF TimersOK
  <2> QED
    BY <1>1, <2>1, FirstValue
<1>4. PlaceOK'
  BY <1>1, <1>3 DEF ClockInv, PlaceOK, Pcs
<1>5. LagOK'
  BY <1>1, <1>2 DEF ClockInv, LagOK, Working
<1>6. WaitOK'
  BY <1>1, NoWait DEF InnerWait
<1> QED
  BY <1>2, <1>4, <1>5, <1>6 DEF ClockInv

LEMMA test_head_Inv ==
  ASSUME ClockInv, test_head
  PROVE  ClockInv'
<1> DEFINE t == First(g_timer_head)
           delta == Signed(Minus(match[t], g_tick_count))
<1>1. /\ pc = "test" /\ q = None
      /\ UNCHANGED <<timerVars, g_timer_head, g_timer_queue, g_tick_count, held, cb_msg, age, orderly>>
      /\ UNCHANGED <<timer_state, remain>>
  BY DEF test_head, timerVars, ClockInv, PlaceOK
<1>2. TimersOK' /\ ClockOK' /\ OrderOK'
  BY <1>1, Timers_Same
<1>3. /\ g_timer_head \in Seq(Timer) /\ IsInjective(g_timer_head) /\ g_tick_count \in Tick
      /\ ToSet(g_timer_head) = {s \in Timer : timer_state[s]} /\ match \in [Timer -> Tick]
  BY DEF ClockInv, TimersOK
<1>4. t = None => g_timer_head = << >>
  BY <1>3, FirstValue
<1>5. t # None => g_timer_head # << >> /\ t \in Timer /\ timer_state[t] /\ t = g_timer_head[1]
  BY <1>3, FirstValue
<1>6. CASE t = None /\ pc' = "recv_outer" /\ UNCHANGED <<wait, g_timer_count, q>>
  <2>1. PlaceOK'
    BY <1>1, <1>4, <1>6 DEF ClockInv, PlaceOK, Pcs
  <2>2. LagOK' /\ WaitOK'
    BY <1>6, NoWait DEF ClockInv, LagOK, Working, InnerWait
  <2> QED
    BY <1>2, <2>1, <2>2 DEF ClockInv
<1>7. CASE t # None /\ delta > 0 /\ pc' = "recv_inner" /\ wait' = delta /\ UNCHANGED <<g_timer_count, q>>
  <2>1. Minus(match[t], g_tick_count) \in Tick
    BY <1>3, <1>5, <1>7, MinusValue
  <2>2. wait' \in Tick /\ wait' >= 1
    BY <1>7, <2>1, Ranges DEF Signed, Tick
  <2>3. PlaceOK'
    BY <1>1, <1>7, <2>2 DEF ClockInv, PlaceOK, Pcs
  <2>4. ASSUME orderly, NEW s \in Timer, timer_state[s] PROVE wait' - held <= Dist'[s]
    <3>1. PICK k \in 1 .. Len(g_timer_head) : g_timer_head[k] = s
      BY <1>3, <2>4, ToSetByIndex
    <3>2. Ascending(g_timer_head, Dist)
      BY <2>4 DEF ClockInv, OrderOK
    <3>3. 1 \in 1 .. Len(g_timer_head) /\ (k = 1 \/ 1 < k)
      BY <1>3
    <3>4. k = 1 \/ Dist[t] <= Dist[s]
      BY <1>5, <1>7, <3>1, <3>2, <3>3 DEF Ascending
    <3>5. /\ delta = Dist[t] /\ Dist[t] \in Int /\ Dist[s] \in Int /\ held \in Nat
      BY <1>5, <1>7, <2>4, DistValue DEF ClockInv
    <3>6. Dist[t] <= Dist[s]
      BY <1>5, <1>7, <3>1, <3>4, <3>5
    <3>7. Dist' = Dist
      BY <1>1 DEF Dist
    <3> HIDE DEF delta
    <3> QED
      BY <1>7, <3>5, <3>6, <3>7
  <2>5. LagOK' /\ WaitOK'
    BY <1>1, <1>7, <2>4 DEF ClockInv, LagOK, WaitOK, Working
  <2> QED
    BY <1>2, <2>3, <2>5 DEF ClockInv
<1>8. CASE /\ t # None /\ pc' = "cb" /\ g_timer_count' = g_tick_count /\ q' = t
           /\ UNCHANGED wait
  <2>1. PlaceOK'
    BY <1>1, <1>5, <1>8 DEF ClockInv, PlaceOK, Pcs
  <2>2. LagOK' /\ WaitOK'
    BY <1>1, <1>8, NewTime, NoWait DEF InnerWait
  <2> QED
    BY <1>2, <2>1, <2>2 DEF ClockInv
<1> QED
  BY <1>6, <1>7, <1>8 DEF test_head

LEMMA timer_cb_end_Inv ==
  ASSUME ClockInv, timer_cb_end
  PROVE  ClockInv'
<1>1. /\ pc = "cb" /\ pc' = "test" /\ q' = None /\ g_timer_count' = 0
      /\ UNCHANGED <<timerVars, g_timer_head, g_timer_queue, g_tick_count, held, cb_msg, wait, age, orderly>>
  BY DEF timer_cb_end
<1>2. TimersOK' /\ ClockOK' /\ OrderOK'
  BY <1>1, Timers_Same
<1>3. PlaceOK'
  BY <1>1 DEF ClockInv, PlaceOK, Pcs
<1>4. LagOK' /\ WaitOK'
  BY <1>1, Ranges, NoWait DEF LagOK, Tick, Working, InnerWait
<1> QED
  BY <1>2, <1>3, <1>4 DEF ClockInv

LEMMA timer_cb_proc_Inv ==
  ASSUME ClockInv, NEW t \in Timer, timer_cb_proc(t)
  PROVE  ClockInv'
<1>1. /\ pc = "cb" /\ q = t
      /\ UNCHANGED <<obj_type, init_count, round_ticks, g_timer_count, g_timer_queue,
                     g_tick_count, held, pc, cb_msg, wait>>
  BY DEF timer_cb_proc
<1>2. /\ TimersOK /\ ClockOK /\ OrderOK /\ timer_state[t] /\ obj_type[t]
      /\ g_timer_head \in Seq(Timer) /\ IsInjective(g_timer_head) /\ t \in ToSet(g_timer_head)
      /\ ToSet(g_timer_head) = {s \in Timer : timer_state[s]}
      /\ g_timer_count \in Tick /\ round_ticks[t] \in Tick /\ timer_state \in [Timer -> BOOLEAN]
  BY <1>1, Ranges DEF ClockInv, PlaceOK, TimersOK, LagOK
<1>3. /\ Minus(g_tick_count, g_timer_count) <= held
      /\ \A s \in Timer : timer_state[s] => Minus(g_tick_count, g_timer_count) <= age[s]
  BY <1>1 DEF ClockInv, LagOK, Working
<1>4. WaitOK'
  BY <1>1, NoWait DEF InnerWait
<1>5. CASE /\ Arm(t, klist_rm(g_timer_head, t), g_timer_count, round_ticks[t])
           /\ q' = NextNode(g_timer_head', t)
           /\ UNCHANGED timer_state
  <2> DEFINE l == klist_rm(g_timer_head, t)
  <2>1. /\ l \in Seq(Timer) /\ IsInjective(l) /\ ToSet(l) = {s \in Timer : timer_state[s]} \ {t}
        /\ orderly => Ascending(l, Dist)
    BY <1>2, RmProperties, RmAscending DEF OrderOK
  <2>2. Arm(t, l, g_timer_count, round_ticks[t])
    BY <1>5
  <2> HIDE DEF l
  <2>3. timer_state' = [timer_state EXCEPT ![t] = TRUE]
    BY <1>2, <1>5
  <2>4. /\ TimersOK' /\ ClockOK' /\ OrderOK'
        /\ \A s \in Timer : timer_state'[s] => Minus(g_tick_count, g_timer_count) <= age'[s]
    BY <1>1, <1>2, <1>3, <2>1, <2>2, <2>3, Arm_OK
  <2>5. /\ g_timer_head' \in Seq(Timer) /\ IsInjective(g_timer_head')
        /\ ToSet(g_timer_head') = {s \in Timer : timer_state'[s]} /\ t \in ToSet(g_timer_head')
    BY <1>2, <1>5, <2>4 DEF TimersOK
  <2>6. q' = None \/ q' \in ToSet(g_timer_head')
    BY <1>5, <2>5, NextNodeValue
  <2>7. q' \in Timer \cup {None} /\ (q' = None \/ timer_state'[q'])
    BY <2>5, <2>6
  <2>8. PlaceOK'
    BY <1>1, <2>7 DEF ClockInv, PlaceOK, Pcs
  <2>9. LagOK'
    BY <1>1, <1>2, <1>3, <2>4 DEF LagOK
  <2> QED
    BY <1>4, <2>4, <2>8, <2>9 DEF ClockInv
<1>6. CASE q' = NextNode(g_timer_head, t) /\ Disarm(t)
  <2>1. /\ TimersOK' /\ ClockOK' /\ OrderOK'
        /\ \A s \in Timer : timer_state'[s] => s # t /\ timer_state[s] /\ age'[s] = age[s]
    BY <1>1, <1>2, <1>6, Disarm_OK
  <2>2. timer_state' = [timer_state EXCEPT ![t] = FALSE]
    BY <1>6 DEF Disarm
  <2>3. q' = None \/ (q' \in ToSet(g_timer_head) /\ q' # t)
    BY <1>2, <1>6, NextNodeValue
  <2>4. q' \in Timer \cup {None} /\ (q' = None \/ timer_state'[q'])
    BY <1>2, <2>2, <2>3
  <2>5. PlaceOK'
    BY <1>1, <2>4 DEF ClockInv, PlaceOK, Pcs
  <2>6. LagOK'
    BY <1>1, <1>2, <1>3, <2>1 DEF LagOK
  <2> QED
    BY <1>4, <2>1, <2>5, <2>6 DEF ClockInv
<1> QED
  BY <1>5, <1>6 DEF timer_cb_proc

LEMMA krhino_tick_proc_Inv ==
  ASSUME ClockInv, krhino_tick_proc
  PROVE  ClockInv'
<1>1. /\ g_tick_count' = Plus(g_tick_count, 1)
      /\ UNCHANGED <<timerVars, g_timer_head, g_timer_count, g_timer_queue, cb_msg, q, orderly>>
      /\ UNCHANGED <<obj_type, timer_state, remain, match, init_count, round_ticks>>
  BY DEF krhino_tick_proc, timerVars
<1>2. /\ TimersOK /\ ClockOK /\ OrderOK /\ g_tick_count \in Tick /\ g_timer_count \in Tick
      /\ g_timer_head \in Seq(Timer) /\ ToSet(g_timer_head) = {s \in Timer : timer_state[s]}
      /\ age \in [Timer -> 0 .. MaxAge]
  BY DEF ClockInv, TimersOK, LagOK
<1>3. 1 \in Tick /\ g_tick_count' \in Tick
      /\ g_tick_count' = IF g_tick_count + 1 < TickMod THEN g_tick_count + 1 ELSE g_tick_count + 1 - TickMod
  <2>1. 1 \in Tick
    BY Ranges DEF Tick
  <2> QED
    BY <1>1, <1>2, <2>1, PlusValue
<1>4. \A s \in Timer :
        age'[s] = IF s \in ToSet(g_timer_head) /\ age[s] < MaxAge THEN age[s] + 1 ELSE age[s]
  BY DEF krhino_tick_proc
<1>5. age' \in [Timer -> 0 .. MaxAge]
  <2>1. \A s \in Timer : age[s] \in 0 .. MaxAge
    BY <1>2
  <2>2. \A s \in Timer : age'[s] \in 0 .. MaxAge
    BY <1>4, <2>1, Ranges
  <2>3. age' = [s \in Timer |-> age'[s]]
    BY DEF krhino_tick_proc
  <2> QED
    BY <2>2, <2>3
<1>6. /\ held \in Nat /\ held <= MaxHeld /\ held' \in 0 .. MaxHeld
      /\ Blocked => held' = 0
      /\ ~Blocked => held' = held + 1
  BY Ranges DEF krhino_tick_proc, ClockInv, TimersOK
<1>7. ASSUME NEW s \in Timer, timer_state[s]
      PROVE  /\ age[s] < MaxAge => age'[s] = age[s] + 1
             /\ ~(age[s] < MaxAge) => age[s] = MaxAge /\ age'[s] = MaxAge
             /\ age[s] \in Nat /\ age'[s] \in Nat
  BY <1>2, <1>4, <1>5, <1>7, Ranges
<1>8. \A s \in Timer : /\ Dist'[s] = remain[s] - age'[s] /\ Dist[s] = remain[s] - age[s]
                       /\ remain[s] \in Nat /\ match[s] \in Tick /\ Dist[s] \in Int
  <2>1. \A s \in Timer : remain'[s] = remain[s]
    BY <1>1
  <2>2. \A s \in Timer : Dist'[s] = remain'[s] - age'[s]
    BY DEF Dist
  <2> QED
    BY <1>2, <2>1, <2>2, DistValue
<1>9. TimersOK'
  BY <1>1, <1>2, <1>3, <1>5, <1>6 DEF TimersOK
<1>10. ClockOK'
  <2>1. ASSUME NEW s \in Timer, timer_state[s], age'[s] < MaxAge
        PROVE  Near(match[s], g_tick_count', Dist'[s])
    <3>1. age[s] < MaxAge /\ age'[s] = age[s] + 1 /\ age[s] \in Nat
      BY <1>7, <2>1, Ranges
    <3>2. Near(match[s], g_tick_count, Dist[s])
      BY <1>2, <2>1, <3>1 DEF ClockOK
    <3>3. -TickMod < Dist[s] /\ Dist'[s] = Dist[s] - 1
      BY <1>8, <3>1, Ranges
    <3>4. Near(match[s], g_tick_count', Dist[s] - 1)
      BY <1>1, <1>2, <1>8, <3>2, <3>3, NearTick
    <3> QED
      BY <3>3, <3>4
  <2> QED
    BY <1>1, <2>1 DEF ClockOK, Near
<1>11. ASSUME orderly, NEW s \in Timer, timer_state[s]
       PROVE  /\ Dist'[s] = Dist[s] - 1 /\ Dist[s] >= -MaxHeld - held /\ remain[s] <= MaxPeriod
  <2>1. age[s] < MaxAge /\ Dist[s] >= -MaxHeld - held /\ remain[s] <= MaxPeriod
    BY <1>2, <1>11, DistValue
  <2> QED
    BY <1>7, <1>8, <1>11, <2>1
<1>12. /\ wait \in Tick /\ wait' \in Tick /\ pc' \in Pcs
       /\ pc = "blocked_inner" => wait' = wait - 1 /\ wait >= 1 /\ (pc' # "inner" => wait' >= 1)
       /\ pc # "blocked_inner" => wait' = wait
       /\ pc' = pc \/ (pc = "blocked_inner" /\ pc' = "inner")
  <2>1. CASE pc = "blocked_inner"
    BY <2>1, Ranges DEF krhino_tick_proc, ClockInv, PlaceOK, Pcs, Tick
  <2>2. CASE pc # "blocked_inner"
    BY <2>2 DEF krhino_tick_proc, ClockInv, PlaceOK
  <2> QED
    BY <2>1, <2>2
<1>13. ASSUME orderly, NEW s \in Timer, timer_state[s], Blocked
       PROVE  pc = "blocked_inner" /\ wait - MaxHeld <= Dist[s] /\ wait >= 1
  <2>1. pc = "blocked_inner"
    BY <1>2, <1>13 DEF Blocked, ClockInv, PlaceOK, ToSet
  <2> QED
    BY <1>13, <2>1 DEF ClockInv, WaitOK, PlaceOK
<1>14. OrderOK'
  <2>1. ASSUME orderly, NEW s \in Timer, timer_state[s] PROVE Dist'[s] >= -MaxHeld - held'
    <3>1. CASE Blocked
      BY <1>6, <1>8, <1>11, <1>12, <1>13, <2>1, <3>1, Ranges DEF Tick
    <3>2. CASE ~Blocked
      BY <1>6, <1>8, <1>11, <2>1, <3>2, Ranges
    <3> QED
      BY <3>1, <3>2
  <2>2. ASSUME orderly PROVE Ascending(g_timer_head, Dist')
    <3>1. \A i \in 1 .. Len(g_timer_head) : /\ Dist[g_timer_head[i]] \in Int
                                            /\ Dist'[g_timer_head[i]] = Dist[g_timer_head[i]] - 1
      BY <1>2, <1>8, <1>11, <2>2, ToSetByIndex
    <3>2. Ascending(g_timer_head, Dist)
      BY <2>2 DEF ClockInv, OrderOK
    <3> QED
      BY <3>1, <3>2 DEF Ascending
  <2> QED
    BY <1>1, <1>11, <2>1, <2>2 DEF OrderOK
<1>15. PlaceOK'
  BY <1>1, <1>12 DEF ClockInv, PlaceOK
<1>16. LagOK'
  <2> DEFINE lag == Minus(g_tick_count, g_timer_count)
  <2>1. ASSUME pc' \in Working
        PROVE  /\ pc \in Working /\ ~Blocked /\ lag <= held
               /\ \A s \in Timer : timer_state[s] => lag <= age[s]
    BY <1>12, <2>1 DEF ClockInv, LagOK, Working, Blocked
  <2>2. Minus(g_tick_count', g_timer_count) <= lag + 1
    <3>1. /\ Minus(g_tick_count', g_timer_count) =
               IF g_tick_count' < g_timer_count THEN g_tick_count' - g_timer_count + TickMod
               ELSE g_tick_count' - g_timer_count
          /\ lag =
               IF g_tick_count < g_timer_count THEN g_tick_count - g_timer_count + TickMod
               ELSE g_tick_count - g_timer_count
      BY <1>2, <1>3, MinusValue
    <3> QED
      BY <1>2, <1>3, <3>1, Ranges DEF Tick
  <2>3. Minus(g_tick_count', g_timer_count) \in Int /\ lag \in Int
    <3>1. Tick \subseteq Int
      BY Ranges DEF Tick
    <3> QED
      BY <1>2, <1>3, <3>1, MinusValue
  <2> HIDE DEF lag
  <2>4. ASSUME pc' \in Working PROVE Minus(g_tick_count', g_timer_count) <= held'
    BY <1>6, <2>1, <2>2, <2>3, <2>4
  <2>5. ASSUME pc' \in Working, NEW s \in Timer, timer_state[s]
        PROVE  Minus(g_tick_count', g_timer_count) <= age'[s]
    <3>1. lag <= age[s] /\ Minus(g_tick_count', g_timer_count) <= held'
      BY <2>1, <2>4, <2>5
    <3>2. CASE age[s] < MaxAge
      BY <1>7, <2>2, <2>3, <2>5, <3>1, <3>2
    <3>3. CASE ~(age[s] < MaxAge)
      BY <1>6, <1>7, <2>3, <2>5, <3>1, <3>3, Ranges
    <3> QED
      BY <3>2, <3>3
  <2> QED
    BY <1>1, <1>2, <2>4, <2>5 DEF LagOK
<1>17. WaitOK'
  <2> SUFFICES ASSUME orderly, NEW s \in Timer, timer_state[s]
               PROVE  /\ pc' = "recv_inner" => wait' - held' <= Dist'[s]
                      /\ pc' = "blocked_inner" => wait' - MaxHeld <= Dist'[s]
    BY <1>1 DEF WaitOK
  <2>1. ASSUME pc' = "recv_inner" PROVE wait' - held' <= Dist'[s]
    <3>1. pc = "recv_inner" /\ ~Blocked
      BY <1>12, <2>1 DEF Blocked
    <3>2. wait - held <= Dist[s]
      BY <3>1 DEF ClockInv, WaitOK
    <3> QED
      BY <1>6, <1>8, <1>11, <1>12, <3>1, <3>2 DEF Tick
  <2>2. ASSUME pc' = "blocked_inner" PROVE wait' - MaxHeld <= Dist'[s]
    <3>1. pc = "blocked_inner"
      BY <1>12, <2>2
    <3>2. wait - MaxHeld <= Dist[s]
      BY <3>1 DEF ClockInv, WaitOK
    <3> QED
      BY <1>8, <1>11, <1>12, <3>1, <3>2, Ranges DEF Tick
  <2> QED
    BY <2>1, <2>2
<1> QED
  BY <1>9, <1>10, <1>14, <1>15, <1>16, <1>17 DEF ClockInv
-----------------------------------------------------------------------------
LEMMA Init_Inv ==
  Init => ClockInv
<1> SUFFICES ASSUME Init PROVE ClockInv
  OBVIOUS
<1>1. 0 \in Tick /\ 0 \in 0 .. MaxHeld /\ 0 \in 0 .. MaxAge
  BY Ranges DEF Tick
<1>2. g_timer_head \in Seq(Timer) /\ IsInjective(g_timer_head) /\ ToSet(g_timer_head) = {}
  BY DEF Init, IsInjective, ToSet
<1>3. \A t \in Timer : ~timer_state[t]
  BY DEF Init
<1>4. TimersOK
  BY <1>1, <1>2, <1>3 DEF Init, TimersOK
<1>5. ClockOK /\ WaitOK
  BY <1>3 DEF ClockOK, WaitOK
<1>6. LagOK
  BY <1>1 DEF LagOK, Working, Init
<1>7. OrderOK
  BY <1>3 DEF OrderOK, Ascending, Init
<1>8. PlaceOK
  BY <1>1, TimerAssumption DEF PlaceOK, Init, Pcs
<1> QED
  BY <1>4, <1>5, <1>6, <1>7, <1>8 DEF ClockInv

LEMMA Next_Inv ==
  ClockInv /\ [Next]_vars => ClockInv'
<1> SUFFICES ASSUME ClockInv, [Next]_vars PROVE ClockInv'
  OBVIOUS
<1>1. CASE \E cmd \in Cmd : timer_command(cmd)
  BY <1>1, timer_command_Inv
<1>2. CASE \E n \in NewTimer, auto_run \in BOOLEAN : krhino_timer_create(n[1], n[2], n[3], auto_run)
  <2>1. PICK n \in NewTimer, auto_run \in BOOLEAN : krhino_timer_create(n[1], n[2], n[3], auto_run)
    BY <1>2
  <2>2. n[1] \in Timer /\ n[2] \in 0 .. MaxPeriod /\ n[3] \in 0 .. MaxPeriod
    BY TimerAssumption DEF MaxPeriod
  <2>3. n[2] \in Tick /\ n[3] \in Tick
    BY <2>2, Ranges DEF Tick
  <2> QED
    BY <2>1, <2>2, <2>3, krhino_timer_create_Inv
<1>3. CASE timer_task
  <2>1. CASE recv("outer") \/ recv("inner")
    BY <2>1, recv_Inv
  <2>2. CASE received("outer") \/ received("inner")
    BY <2>2, received_Inv
  <2>3. CASE outer_cmd \/ inner_cmd \/ test_head \/ timer_cb_end
    BY <2>3, outer_cmd_Inv, inner_cmd_Inv, test_head_Inv, timer_cb_end_Inv
  <2>4. CASE \E t \in Timer : timer_cb_proc(t)
    BY <2>4, timer_cb_proc_Inv
  <2> QED
    BY <1>3, <2>1, <2>2, <2>3, <2>4 DEF timer_task
<1>4. CASE krhino_tick_proc
  BY <1>4, krhino_tick_proc_Inv
<1>5. CASE UNCHANGED vars
  <2>1. UNCHANGED <<timerVars, g_timer_head, g_tick_count, held, orderly, age>>
    BY <1>5 DEF vars
  <2>2. PlaceOK'
    BY <1>5 DEF vars, timerVars, taskVars, ClockInv, PlaceOK
  <2>3. LagOK' /\ WaitOK'
    BY <1>5, Lag_Same DEF vars, timerVars, taskVars
  <2> QED
    BY <2>1, <2>2, <2>3, Timers_Same DEF ClockInv
<1> QED
  BY <1>1, <1>2, <1>3, <1>4, <1>5 DEF Next

\* The inductive invariant holds in every state of the timers.
THEOREM ClockInvariant == Spec => []ClockInv
  BY Init_Inv, Next_Inv, PTL DEF Spec

\* The list of k_timer.c holds the running timers, each once, whatever commands arrive in
\* whatever state, and no command is queued beyond RHINO_CONFIG_TIMER_MSG_NUM.
THEOREM ListIsRunning == Spec => []TimerInv
  BY ClockInvariant, InvImplies, PTL

\* No callback comes before its time, across the wraps of the tick counter, wherever ticks come
\* between the steps of the timer task (timer_cb_proc of k_timer.c).  A timer that is not yet
\* due has, at the earlier time the task works with, a distance that is still below half the
\* range of the counter, because it was armed then or before: it is read as positive.
THEOREM NoneEarly == Spec => NeverEarly
<1>1. ASSUME ClockInv, NEW t \in Timer, timer_cb_proc(t), remain[t] <= MaxPeriod
      PROVE  age[t] >= remain[t]
  <2> DEFINE lag == Minus(g_tick_count, g_timer_count)
  <2>1. pc = "cb" /\ q = t /\ Signed(Minus(match[t], g_timer_count)) <= 0
    BY <1>1 DEF timer_cb_proc, timer_cb_due
  <2>2. /\ TimersOK /\ ClockOK /\ OrderOK /\ timer_state[t] /\ g_timer_count \in Tick
        /\ lag <= age[t]
    BY <1>1, <2>1, Ranges DEF ClockInv, PlaceOK, LagOK, Working
  <2>3. /\ g_tick_count \in Tick /\ Dist[t] = remain[t] - age[t] /\ remain[t] \in Nat /\ age[t] \in Nat
    BY <2>2, DistValue
  <2>4. lag \in Nat
    BY <2>2, <2>3, MinusValue, Ranges DEF Tick
  <2>5. SUFFICES ASSUME age[t] < remain[t] PROVE FALSE
    BY <2>3
  <2>6. Dist[t] + lag >= 1 /\ Dist[t] + lag >= -Half /\ age[t] < MaxAge
    BY <1>1, <2>3, <2>4, <2>5, Ranges
  <2>7. Signed(Minus(match[t], g_timer_count)) = Dist[t] + lag
    BY <1>1, <2>2, <2>6, DistFrom
  <2> HIDE DEF lag
  <2> QED
    BY <2>1, <2>3, <2>4, <2>6, <2>7
<1>2. ClockInv => \A t \in Timer : timer_cb_proc(t) /\ remain[t] <= MaxPeriod => age[t] >= remain[t]
  BY <1>1
<1> QED
  BY <1>2, ClockInvariant, PTL DEF NeverEarly

\* Until a timer is armed while another one is overdue, no timer is overdue for more than twice
\* the ticks that come while the timer task runs: once for those between tick_start and the wait
\* that it computes (timer_task of k_timer.c), once for those after the wait.
THEOREM NoneVeryLate == Spec => []LateBounded
<1>1. ASSUME ClockInv PROVE LateBounded
  <2> SUFFICES ASSUME orderly, NEW t \in Timer, timer_state[t]
               PROVE  age[t] - remain[t] <= 2 * MaxHeld
    BY DEF LateBounded
  <2>1. /\ -MaxHeld - held <= Dist[t] /\ Dist[t] = remain[t] - age[t]
        /\ remain[t] \in Nat /\ age[t] \in Nat /\ held \in Nat /\ held <= MaxHeld
    BY <1>1, DistValue DEF ClockInv
  <2> QED
    BY <2>1, Ranges
<1> QED
  BY <1>1, ClockInvariant, PTL

\* Until then the list is in the order of the time that remains, overdue timers first.
THEOREM SortedHead == Spec => []SortedWhenOrderly
<1>1. ASSUME ClockInv PROVE SortedWhenOrderly
  <2> SUFFICES ASSUME orderly, NEW i \in DOMAIN g_timer_head, NEW j \in DOMAIN g_timer_head, i < j
               PROVE  Remaining(g_timer_head[i]) <= Remaining(g_timer_head[j])
    BY DEF SortedWhenOrderly, Sorted
  <2>1. /\ g_timer_head \in Seq(Timer) /\ ToSet(g_timer_head) = {s \in Timer : timer_state[s]}
        /\ Ascending(g_timer_head, Dist) /\ TimersOK /\ ClockOK /\ OrderOK
    BY <1>1 DEF ClockInv, TimersOK, OrderOK
  <2>2. i \in 1 .. Len(g_timer_head) /\ j \in 1 .. Len(g_timer_head)
    BY <2>1
  <2>3. \A k \in 1 .. Len(g_timer_head) : g_timer_head[k] \in Timer /\ timer_state[g_timer_head[k]]
    BY <2>1, ToSetByIndex
  <2>4. \A t \in Timer : timer_state[t] => Remaining(t) = Dist[t]
    BY <2>1, DistValue DEF Remaining
  <2>5. Dist[g_timer_head[i]] <= Dist[g_timer_head[j]]
    BY <2>1, <2>2 DEF Ascending
  <2> QED
    BY <2>2, <2>3, <2>4, <2>5
<1> QED
  BY <1>1, ClockInvariant, PTL
=============================================================================
