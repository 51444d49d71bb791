SPECIFICATION Spec
CONSTANTS
  None = None  Clash = Clash
  u1 = u1  u2 = u2  native = native  l1 = l1  c1 = c1
  EnvVars <- MCEnvVars
  ValidPatterns = {"ok"}
  ValidOrigins = {"good"}
  Upstreams = {u1, u2}
  Listers = {l1}
  Callers = {c1}
  Native = native
  MaxDrops = 2
  Format = "json"
  Fields <- MCFields
  BaseUrls = {"here", "there"}
  Documents <- MCDocuments
  MaxApplies = 3
  Files <- MCFiles
  Environments <- MCEnvironments
  Stored <- MCStored
  MaxEdits = 1
  MaxStarts = 1
INVARIANTS PeersAreCurrent ReportMatchesServer Recoverable
PROPERTIES CallsConclude UpstreamsComeBack
CHECK_DEADLOCK FALSE
