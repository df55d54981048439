CONSTANTS
  idle = idle
  a = a
  b = b
  c = c
  tx = tx
  rx = rx
  group = group
  t1 = t1
  t2 = t2
SPECIFICATION Spec
PROPERTIES CallsEnd DelaysEnd SyncIsRendezvous WritesEnd TimersExpire
  StreamCallsEnd
CHECK_DEADLOCK FALSE
