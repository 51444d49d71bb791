SPECIFICATION SpecWebhook
CONSTANTS
  r1 = r1
  a1 = a1
  x1 = x1
  None = None
  Requests = {r1}
  Admins = {a1}
  Budgets = {1}
  Warnings = {1}
  Periods = {"total"}
  MaxDay = 0
  FirstDay = 30
  PeriodKeyAt <- MCPeriodKeyAt
  MaxCost = 1
  MaxChunks = 1
  MaxCharged = 1
  Removals = {x1}
  MaxEvents = 2
  MaxRetries = 1
  InitialBackoff = 1
  MaxBackoff = 30
INVARIANT LostOnlyIfExhausted
PROPERTIES  DeliveriesConclude
