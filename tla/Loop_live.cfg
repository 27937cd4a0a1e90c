SPECIFICATION FairSpec
CONSTANTS
  Timers = {t1, t2}
  Intervals = {}
  Triggers = {g1}
  Events = {}
  OwnFds = {f1, f2}
  UserFds = {}
  Delays = {0, 1}
  Failures = TRUE
  None = None
CHECK_DEADLOCK FALSE
PROPERTIES TriggerDelivered TimerFires RunReturns
