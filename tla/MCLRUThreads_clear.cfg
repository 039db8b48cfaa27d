CONSTANTS
  Threads = {t1, t2}
  Ids = {i1, i2}
  Payloads = {p1}
  Nodes = {n1, n2, n3, n4}
  Capacity = 1
  Nil = Nil
  Ops <- ClearOps
SPECIFICATION SafeSpec
CHECK_DEADLOCK FALSE
INVARIANT SizeWithinCapacity
