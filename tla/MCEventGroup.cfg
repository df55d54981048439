CONSTANTS
  idle = idle
  a = a
  b = b
  c = c
  x = x
  y = y
  Task = {idle, a, b, c}
  Idle = idle
  Object = {group}
  Group = group
  Bit = {x, y}
  MaxPrio = 3
  TickMod = 4
  OvfMod = 1
  Boot = {idle, a, b, c}
  InitPrio <- GroupPrio
  MaxPended = 2
  MaxDepth = 1
  Delays = {1}
  NewPrios = {}
  Waits <- GroupWaits
  Sets <- GroupSets
  Clears <- GroupClears
  Syncs <- GroupSyncs
  Times = {0, 1, 3}
  Abortable = {a, b}
  Deleters = {c}
SPECIFICATION GroupSpec
INVARIANTS NoneSleepsInVain ReturnsWhatItWaitedFor
PROPERTY NoBitLost
