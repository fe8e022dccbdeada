SPECIFICATION CoreSpec
CONSTANTS
  a = a
  b = b
  idle = idle
  Task = {idle, a, b}
  NewTask <- MCNewTask
  Idle = idle
  Main = a
  Obj = {}
  NoObj = NoObj
  NoArg = NoArg
  PriMax = 3
  MainPri = 1
  TickMod = 4
  Ticks = {}
  WaitForever = 3
  TimeSlice = 1
  MaxSuspend = 1
  MaxLock = 1
  Calls = {"task_create", "task_pri_change", "task_del"}
  IntrptCalls = {}
  NewPri <- MCNewPri
INVARIANTS
  NeverFatal
