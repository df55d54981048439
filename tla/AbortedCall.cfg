CONSTANTS
  idle = idle
  a = a
  b = b
  tx = tx
  rx = rx
  Task = {idle, a, b}
  Idle = idle
  Object = {tx, rx}
  ToSend = tx
  ToReceive = rx
  MaxPrio = 3
  TickMod = 3
  OvfMod = 2
  Boot = {idle, a, b}
  InitPrio <- MCPrio
  MaxPended = 1
  MaxDepth = 1
  Delays = {2}
  NewPrios = {}
  Length = 1
  Role <- MCRole
  Abortable = {b}
SPECIFICATION QueueSpec
INVARIANT AbortEndsItsOwnCall
