CONSTANTS
  Threads = {t1, t2}
  Ids = {i1, i2}
  Payloads = {p1}
  Nodes = {n1, n2, n3, n4}
  Capacity = 1
  Nil = Nil
  Ops <- AllOps
SPECIFICATION Spec
CHECK_DEADLOCK FALSE
INVARIANTS OwnEntry InsideHoldsLock
PROPERTY CallsEnd
