SPECIFICATION LiveSpec
CONSTANTS
  Immediate = {e1}
  OneShots = {s1}
  Recurring = {r1}
  Cleaner = cleaner
  Fds = {f1, f2, f3}
  Delays = {0, 1}
  Workers = {w1}
  QueueCapacity = 1
  MaxTicks = 1
  Failures = TRUE
  None = None
INVARIANTS RunsOnce PendingCancellable ClosedNotRun
PROPERTIES CancelStopsDispatch FutureSettles FiredCleaned DestructorReturns
CHECK_DEADLOCK FALSE
