SPECIFICATION Spec
CONSTANTS
  Threads = {p, q, c}
  Producers = {p, q}
  Consumers = {c}
  Hurried = {}
  Nodes = {n1, n2, n3}
  Null = Null
  Values = {v1, v2, v3}
  slotsCount = 2
  retireThreshold = 0
  SizeModulus = 8
INVARIANT Fifo
CHECK_DEADLOCK FALSE
