SPECIFICATION Spec
CONSTANTS
  a = a
  b = b
  idle = idle
  m1 = m1
  m2 = m2
  x = x
  y = y
  Task = {idle, a, b}
  NewTask <- MCNewTask
  NewPri = {}
  Idle = idle
  Main = a
  Obj = {o}
  NoObj = NoObj
  NoArg = NoArg
  NULL = NULL
  NoRet = NoRet
  PriMax = 3
  MainPri = 1
  TickMod = 4
  Ticks = {0, 1}
  WaitForever = 3
  TimeSlice = 1
  MaxSuspend = 1
  MaxLock = 1
  Calls = {"task_create", "task_suspend", "task_resume", "queue_create", "buf_queue_create", "event_create", "queue_del", "buf_queue_del", "event_del", "queue_back_send", "queue_all_send", "buf_queue_send", "queue_recv", "buf_queue_recv", "queue_flush", "buf_queue_flush", "event_get", "event_set", "event_set_and"}
  IntrptCalls = {"queue_back_send", "buf_queue_send", "queue_recv", "event_set"}
  Msg = {m1, m2}
  MsgNum = 2
  Bytes <- MCBytes
  BufSize = 5
  MaxBytes = 3
  Flag = {x, y}
  NewFlags = {{}, {x}, {x, y}}
  Options <- MCOptions
INVARIANTS
  QueueInv
PROPERTIES
  ImplementsAbstractQueue
  ImplementsAbstractEvent
