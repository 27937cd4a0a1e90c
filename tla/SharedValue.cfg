CONSTANTS
  Threads = {t1, t2, t3}
  Values = {v1, v2, v3}
  Exceptions = {e1}
  Ids = {i1}
  None = None
  NoThread = NoThread
SPECIFICATION FairSpec
INVARIANTS DeliveredInOrder NoSleepOnResult
PROPERTIES EveryWaitEnds
