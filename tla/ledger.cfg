SPECIFICATION Spec
CONSTANTS
  p1 = p1
  p2 = p2
  None = None
  Processes = {p1, p2}
  Slots <- MCSlots
  Backends = {"sqlite", "postgres"}
  Budget = 2
  Limit <- MCLimit
  Costs = {1, 2}
  MaxDay = 1
  KeyAt <- MCKeyAt
  MaxRequests = 2
  MaxResets = 1
  MaxMishaps = 1
SYMMETRY Interchangeable
INVARIANTS HistoryIsComplete 
PROPERTY ActsOnlyOnOwed
CHECK_DEADLOCK FALSE
