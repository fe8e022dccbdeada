SPECIFICATION FairSpec
CONSTANTS
  a = a
  b = b
  c = c
  idle = idle
  Task = {idle, a, b, c}
  NewTask <- MCNewTask
  Idle = idle
  Main = a
  Obj = {m, n}
  NoObj = NoObj
  NoArg = NoArg
  PriMax = 3
  MainPri = 1
  TickMod = 2
  Ticks = {}
  WaitForever = 1
  TimeSlice = 1
  MaxSuspend = 1
  MaxLock = 1
  Calls = {"task_create", "mutex_create", "mutex_lock", "mutex_unlock", "task_pri_change"}
  IntrptCalls = {}
  NewPri <- MCNewPri
  NoTask = NoTask
  MaxNested = 2
INVARIANTS
  MutexInv
  WaitersByPriority
  InheritanceExact
PROPERTIES
  PriChangeEnds
