SPECIFICATION CallsSpec
CONSTANTS
  Unset = Unset
  NoRecord = Unset
  Lines <- MCLines
  Data <- MCData
  InlineData = {"data_image"}
  CallIds = {"c1", "c2", "c3", "g1", "g2"}
  Ids = {"c1", "c2", "c3", "g1", "g2"}
  Functions <- MCFunctions
  Models = {"m"}
  Presets = {"house", "unknown"}
  Values = {"v", "require"}
  JsonLines = {"json"}
  FreshIds <- MCFreshIds
  DefaultMaxTokens = 4
  MinThinkingBudget = 2
  FlatBudget <- MCFlatBudget
  Traits <- MCTraits
  RepeatMarker = "again"
  OmittedMarker = "omitted"
  KeepEnds <- MCKeepEnds
  DefaultReserve = 4
  RequireParameters = "require"
  Records <- MCTraces
  Capacity = 2
  Openings <- MCRequests
  ToolCalls <- MCToolCalls
  Inputs <- MCInputs
  Statuses = {302, 403, 404, 429, 503}
  Waits = {0, 7}
  Configs <- MCConfigs
  SearchResults <- MCSearchResults
  ModelAnswers <- MCAnswers
  ToolResult <- MCToolResult
  MaxTurns = 2
INVARIANTS   
  ReplayIsOwn RequiredParametersAreSent
PROPERTY HoldsRecentRecords
CHECK_DEADLOCK FALSE
