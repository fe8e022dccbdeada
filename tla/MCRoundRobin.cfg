SPECIFICATION CoreFairSpec
CONSTANTS
  a = a
  b = b
  idle = idle
  Task = {idle, a, b}
  NewTask <- MCNewTask
  NewPri = {}
  Idle = idle
  Main = a
  Obj = {}
  NoObj = NoObj
  NoArg = NoArg
  PriMax = 3
  MainPri = 1
  TickMod = 4
  Ticks = {1}
  WaitForever = 3
  TimeSlice = 2
  MaxSuspend = 1
  MaxLock = 1
  Calls = {"task_create", "task_del", "task_sleep", "task_yield", "sched_disable", "sched_enable", "sched_policy_set", "task_suspend", "task_resume"}
  IntrptCalls = {}
PROPERTIES
  RoundRobin
  SleepsEnd
