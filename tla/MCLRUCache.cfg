CONSTANTS
  Ids = {i1, i2, i3, i4}
  Payloads = {p1, p2}
  Nodes = {n1, n2, n3, n4}
  Capacity = 3
  Nil = Nil
SPECIFICATION Spec
SYMMETRY Symmetry
INVARIANTS TypeOK IndexMatchesQueue SizeBounded
PROPERTY ImplementsPromise
