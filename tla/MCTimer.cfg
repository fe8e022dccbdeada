CONSTANTS
  T1 = T1
  T2 = T2
  None = None
  Timer = {T1, T2}
  Dynamic = {T2}
  TickMod = 8
  NewTimer <- MCNewTimer
  Change <- MCChange
  MsgNum = 1
  MaxHeld = 1
SPECIFICATION Spec
INVARIANTS TimerInv LateBounded SortedWhenOrderly
PROPERTIES NeverEarly TimersFire
