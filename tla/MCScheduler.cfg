CONSTANTS
  idle = idle
  a = a
  b = b
  Task = {idle, a, b}
  Idle = idle
  Object = {o1}
  MaxPrio = 3
  TickMod = 4
  OvfMod = 1
  Boot = {idle, a, b}
  InitPrio <- MCPrioTwo
  MaxPended = 2
  MaxDepth = 1
  Delays = {1, 3}
  NewPrios = {0, 2}
SPECIFICATION Spec
INVARIANTS TypeOK EveryTaskOnItsList EventItems NoOversleep TicksConserved RunsHighest CountsMatch SuspendedSectionsExclusive
PROPERTIES TickWakesExactly DelayUntilKeepsPeriod
