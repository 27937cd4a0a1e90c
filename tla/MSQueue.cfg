SPECIFICATION MCSpec
CONSTANTS
  Threads = {p, q, c}
  Producers = {p, q}
  Consumers = {q, c}
  Hurried = {c}
  Nodes = {n1, n2, n3}
  Null = Null
  Values = {v1, v2}
  slotsCount = 2
  retireThreshold = 0
  SizeModulus = 8
  Unlucky = {p}
INVARIANTS FifoUnlessMisled NoUseAfterReclaim NodesAccounted SizeBalance
CHECK_DEADLOCK FALSE
