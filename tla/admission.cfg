SPECIFICATION AdmissionSpec
CONSTANTS
  Minute = 2
  Limits = {1, 3}
  MaxTime = 2
  None = None
  Handlers = {h1, h2}
  Permits = 2
  Kids = {k1, k2}
  Ttl = 1
  ConfiguredRpm = 1
  MaxFetch = 1
  MaxRequests = 3
  MaxChanges = 1
SYMMETRY Interchangeable
INVARIANTS RateBounded HeadersExact PermitsBalance KeysFollowProvider ClientsAreMetered
CHECK_DEADLOCK FALSE
