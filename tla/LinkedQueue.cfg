\* Up to four nodes, two elements.
CONSTANTS
  Nodes = {n1, n2, n3, n4}
  Values = {a, b}
  Null = Null
  None = None
SPECIFICATION Spec
INVARIANTS
  WellLinked
  NothingLeaks
PROPERTY
  DequeSpec
