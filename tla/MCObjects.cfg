CONSTANTS
  idle = idle
  low = low
  high = high
  tx = tx
  rx = rx
  q1 = q1
  q2 = q2
  set = set
  count = count
  item1 = item1
  item2 = item2
  token = token
  none = none
  Task = {idle, low, high}
  Idle = idle
  Object = {tx, rx}
  ToSend = tx
  ToReceive = rx
  MaxPrio = 3
  TickMod = 3
  OvfMod = 2
  Boot = {idle, low, high}
  InitPrio <- ObjectsPrio
  MaxPended = 1
  MaxDepth = 1
  Delays = {1}
  NewPrios = {}
  Length = 1
  Role <- ObjectsRole
  Abortable = {high}
  NotifyRole <- ObjectsNotifyRole
  Times = {0, 1, 2}
  Actions = {"increment", "no_overwrite"}
  MaxValue = 2
  RingLength = 4
  LengthBytes = 1
  Kinds = {"stream", "message"}
  Triggers = {1}
  SendSizes = {1, 2}
  ReceiveSizes = {1, 3}
  Waits = {"some", "forever"}
  NewTriggers = {2}
  Stores = {q1, q2, set, count}
  StoreLength <- ObjectsStoreLength
  Sets = {set}
  Counting = {count}
  Data = {item1, item2}
  Token = token
  NoQueue = none
  Buffered = {q1}
  Shared = {q1, count}
  Removable = {q2}
  StoreTasks = 2
  MaxMiscounts = 1
SPECIFICATION ObjectsSpec
INVARIANTS NoLostWakeup LocksHeldByCurrent NoNoticeLost RingDelivers QueuesAnnounce
PROPERTY QueuesImplementBounded
CHECK_DEADLOCK FALSE
