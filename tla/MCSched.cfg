SPECIFICATION CoreSpec
CONSTANTS
  a = a
  b = b
  idle = idle
  Task = {idle, a, b}
  NewTask <- MCNewTask
  Idle = idle
  Main = a
  Obj = {}
  NoObj = NoObj
  NoArg = NoArg
  PriMax = 3
  MainPri = 1
  TickMod = 6
  Ticks = {1, 2}
  WaitForever = 5
  TimeSlice = 1
  MaxSuspend = 2
  MaxLock = 1
  Calls = {"task_create", "task_time_slice_set", "task_sleep", "task_yield", "task_suspend", "task_resume", "task_pri_change", "sched_disable", "sched_enable", "task_del_idle"}
  IntrptCalls = {"task_suspend", "task_resume"}
  NewPri <- MCNewPri
INVARIANTS
  CoreTypeOK
  ReadyQueueOK
  TickListOK
  SuspendCountOK
  TickListSorted
  RunsHighest
  LockHolderReady
PROPERTIES
  WakesOnTime
