CONSTANTS
  NoThread = NoThread
  Threads = {t1, t2, t3}
  Values = {v1, v2}
  Capacity = 2
  MaxCalls = 2
SPECIFICATION LiveSpec
INVARIANTS NoLostWakeups
PROPERTIES ImplementsClosableQueue NoStrandedWaiter
CHECK_DEADLOCK FALSE
