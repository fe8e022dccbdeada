SPECIFICATION Spec
CONSTANTS
  a = a
  c = c
  b = b
  idle = idle
  Task = {idle, a, b}
  NewPri = {}
  Idle = idle
  Main = a
  Obj = {m, n}
  NoObj = NoObj
  NoArg = NoArg
  PriMax = 3
  MainPri = 1
  TickMod = 4
  Ticks = {1}
  WaitForever = 3
  TimeSlice = 1
  MaxSuspend = 1
  MaxLock = 1
  Calls = {"task_create", "mutex_create", "mutex_lock", "mutex_unlock", "mutex_del", "task_del", "task_suspend", "task_resume"}
  IntrptCalls = {}
  NewTask <- MCNewTask2
  NoTask = NoTask
  MaxNested = 1
SYMMETRY MutexSymmetry
INVARIANTS
  OwnershipOK
  InheritanceExact
  LockReportsOwnership
PROPERTIES
  ReleasedByItself
