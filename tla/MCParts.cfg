CONSTANTS
  e1 = e1
  e2 = e2
  e3 = e3
  e4 = e4
  f1 = f1
  f2 = f2
  f3 = f3
  idle = idle
  none = none
  endList = endList
  sorted = sorted
  taken = taken
  gone = gone
  Thread = {f1, f2, f3}
  Early = {f1, f2}
  Depth = 3
  Nobody = none
  Half = 4
  Increment = 3
  EndTime = 9
  Caller = {f1, f2}
  Slots = 2
  Block = {e1, e2}
  Types = {"task", "queue", "timer"}
  Traced = {"task"}
  Eager = FALSE
  Nil = none
  Reserved = taken
  Gone = gone
  CoRoutine = {f1, f2}
  Priority <- CoPriority
  Length = 1
  Delays = {0, 3}
  Woken = {FALSE}
  TickMod = 4
  MaxPassed = 2
  SoftTimer = {e1, e2}
  QueueLength = 1
  Size = 6
  Terminal = {0, 1}
  Lengths = {1, 2}
  ReadSizes = {4}
  Numbers = 2
SPECIFICATION Spec
INVARIANTS MemoryAccounted TimersPunctual ListsKeepOrder
  DeliversStream WrappersTranslate PrivilegeKept CoRoutinesServed 
  TaskTableRight TickTimerPunctual
PROPERTIES NoPeriodSkipped HeapsImplementAllocator
CHECK_DEADLOCK FALSE
