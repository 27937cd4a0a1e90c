CONSTANTS
  NoThread = NoThread
  Threads = {t1, t2}
  Values = {v1}
  Capacity = 1
  MaxCalls = 1
SPECIFICATION LiveSpec
PROPERTY CloseUnblocks
CHECK_DEADLOCK FALSE
