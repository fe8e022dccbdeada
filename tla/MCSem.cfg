SPECIFICATION FairSpec
CONSTANTS
  a = a
  b = b
  idle = idle
  Task = {idle, a, b}
  NewTask <- MCNewTask
  NewPri = {}
  Idle = idle
  Main = a
  Obj = {s}
  NoObj = NoObj
  NoArg = NoArg
  PriMax = 3
  MainPri = 1
  TickMod = 4
  Ticks = {0, 1}
  WaitForever = 3
  TimeSlice = 1
  MaxSuspend = 1
  MaxLock = 1
  Calls = {"task_create", "task_suspend", "task_resume", "task_del", "sem_create", "sem_del", "sem_take", "sem_give", "sem_give_all", "sem_count_set", "sched_disable", "sched_enable", "task_time_slice_set"}
  IntrptCalls = {"sem_give"}
  SemMax = 1
  SemCounts = {0, 1}
INVARIANTS
  TypeOK
  WaitListsOK
  NoLostWakeup
  RunsOnlyReady
PROPERTIES
  ImplementsAbstractSem
  TimeoutsExpire
