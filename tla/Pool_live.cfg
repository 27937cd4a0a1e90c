CONSTANTS
  None = None
  Owner = Owner
  Workers = {w1, w2, w3}
  Clients = {c1}
  Tasks = {k1, k2, k3, k4, k5}
  Spawners = {k1}
  Capacity = 3
  minPoolSize = 1
  maxPoolSize = 2
SPECIFICATION LiveSpec
PROPERTIES QueuedTaskRuns 
CHECK_DEADLOCK FALSE
