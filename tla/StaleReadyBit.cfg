CONSTANTS
  idle = idle
  a = a
  b = b
  c = c
  m1 = m1
  m2 = m2
  Nobody = Nobody
  Task = {idle, a, b, c}
  Idle = idle
  Object = {m1, m2}
  Recursive = {}
  MaxPrio = 4
  TickMod = 3
  OvfMod = 1
  Boot = {idle, a, b, c}
  InitPrio <- MCPrio
  MaxPended = 1
  MaxDepth = 1
  Delays = {1}
  Sleepers = {b, c}
  NewPrios = {}
  Uses <- MCUses
  MaxNesting = 2
  Abortable = {}
SPECIFICATION MutexSpec
INVARIANT SelectsFromNonEmptyList
