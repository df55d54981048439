CONSTANTS
  idle = idle
  a = a
  b = b
  c = c
  Task = {idle, a, b, c}
  Idle = idle
  Object = {o1}
  MaxPrio = 3
  TickMod = 4
  OvfMod = 1
  Boot = {idle, a, b, c}
  InitPrio <- MCPrio
  MaxPended = 1
  MaxDepth = 1
  Delays = {3}
  NewPrios = {0, 2}
SPECIFICATION Spec
INVARIANT HeadHasHighestPriority
