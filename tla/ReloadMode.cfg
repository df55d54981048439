CONSTANTS
  Timer = {t1, t2}
  QueueLength = 1
SPECIFICATION ControlSpec
INVARIANT ReloadModeSticks
CHECK_DEADLOCK FALSE
