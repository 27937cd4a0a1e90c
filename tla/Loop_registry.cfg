SPECIFICATION Spec
CONSTANTS
  Timers = {t1}
  Intervals = {i1}
  Triggers = {g1}
  Events = {e1, e2}
  OwnFds = {f1, f2}
  UserFds = {u1}
  Delays = {0, 1}
  Failures = TRUE
  None = None
SYMMETRY Symmetry
CHECK_DEADLOCK FALSE
INVARIANTS RegistryConsistent FdsExclusive NoLeak CallbackWhenDue
