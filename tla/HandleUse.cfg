SPECIFICATION Spec
CONSTANTS
  Capacity = 3
  GenMax = 4
  MaxFrees = 2
  None = None
  Objects = {o1, o2}
INVARIANTS
  TableExact
PROPERTIES
  ImplementsRegistry
