SPECIFICATION Spec
CONSTANTS
  a1 = a1
  a2 = a2
  a3 = a3
  k0 = k0
  k1 = k1
  k2 = k2
  k3 = k3
  n1 = n1
  n2 = n2
  o1 = o1
  o2 = o2
  Global = Global
  None = None
  Clear = Clear
  Admins = {a1, a2, a3}
  MaxCalls = 3
  Names = {n1, n2}
  Organizations = {o1, o2}
  Keys = {k0, k1, k2, k3}
  Budgets = {1, 2}
  Rates = {1, 2}
  NewClients <- MCNewClients
  Configured <- MCConfigured
  ConfiguredKeys <- MCConfiguredKeys
INVARIANTS TablesInSync 
PROPERTY ScopeRespected
SYMMETRY Interchangeable
CHECK_DEADLOCK FALSE
