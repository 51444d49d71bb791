SPECIFICATION Spec
CONSTANTS
  r1 = r1
  r2 = r2
  a1 = a1
  None = None
  Requests = {r1, r2}
  Admins = {}
  Budgets = {2}
  Warnings = {1}
  Periods = {"daily"}
  MaxDay = 1
  FirstDay = 30
  PeriodKeyAt <- MCPeriodKeyAt
  MaxCost = 2
  MaxChunks = 2
PROPERTY ExhaustedStaysBlocked
