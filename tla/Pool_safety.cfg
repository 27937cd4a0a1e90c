CONSTANTS
  None = None
  Owner = Owner
  Workers = {w1, w2, w3, w4}
  Clients = {c1, c2}
  Tasks = {k1, k2, k3, k4, k5, k6}
  Spawners = {k1}
  Capacity = 5
  minPoolSize = 1
  maxPoolSize = 2
SPECIFICATION Spec
SYMMETRY Symmetry
INVARIANTS ThreadOwnership PoolBounds LiveThreadsBounded TaskInOnePlace
CHECK_DEADLOCK FALSE
