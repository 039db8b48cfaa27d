CONSTANTS
  Threads = {t1, t2}
  Ids = {i1, i2, i3}
  Payloads = {p1, p2}
  Nodes = {n1, n2, n3, n4}
  Capacity = 2
  Nil = Nil
  Ops <- LinearOps
SPECIFICATION LinearSpec
SYMMETRY Symmetry
INVARIANTS TypeOK QuiescentConsistent SizeWithinCapacity NoPanic
PROPERTIES ImplementsAtomic KeepsPromise
