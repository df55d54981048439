CONSTANTS
  Block = {reader, idle, a, b}
  Reader = reader
  Idle = idle
  Commands = {"ps", "kill"}
  OthersDelete = TRUE
  BufferLength = 11
  NameLength = 3
  RowLengths = {0, 4}
  MaxNumber = 6
SPECIFICATION TaskListSpec
INVARIANT EntriesFit
CHECK_DEADLOCK FALSE
