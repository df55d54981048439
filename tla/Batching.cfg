CONSTANTS
  Length = 4
  LengthBytes = 1
  Kinds = {"batching"}
  Triggers = {2}
  SendSizes = {1, 2}
  ReceiveSizes = {1, 3}
  Waits = {"none", "some", "forever"}
  NewTriggers = {}
SPECIFICATION StreamSpec
INVARIANTS BatchReaderUnblocks
CHECK_DEADLOCK FALSE
