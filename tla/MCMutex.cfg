CONSTANTS
  idle = idle
  a = a
  b = b
  c = c
  m1 = m1
  m2 = m2
  Task = {idle, a, b, c}
  Idle = idle
  Object = {m1, m2}
  Recursive = {m1}
  Nobody = nobody
  MaxPrio = 4
  TickMod = 3
  OvfMod = 1
  Boot = {idle, a, b, c}
  InitPrio <- MutexPrio
  MaxPended = 1
  MaxDepth = 1
  Delays = {1}
  Sleepers = {b, c}
  NewPrios = {}
  Uses <- MutexUses
  MaxNesting = 2
  Abortable = {b}
SPECIFICATION MutexSpec
INVARIANTS MutexesConsistent NoPriorityInversion NoneWaitsForFreeMutex
