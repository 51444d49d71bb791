CONSTANTS
  a = a  b = b  c = c  A = A  B = B
  Unset = Unset
  Candidates = {a, b, c}
  Providers = {A, B}
  ProviderOf <- MCProviderOf
  Kind <- MCKind
  Zdr = {A}
  NoTraining = {B}
  Price <- MCPrice
  Quality <- MCQuality
  Routes <- MCRoutes
  Malformed = Malformed
  AutoRoutes <- MCAutoRoutes
  Prompts <- MCPrompts
  FreeTierSettings <- MCFreeTiers
  FirstDay = 30
  LastDay = 31
  TokenCounts = {1}
  MaxTokens = 2
  ProviderSets = {{A}}
  Bounds = {1}
  InitialEwma <- MCEwma
  Levels = {0, 2}
  Threshold = 1
  MaxUpdates = 1
SPECIFICATION SelectionSpec
INVARIANTS ChainIsEligible OrderIsAsRequested
CHECK_DEADLOCK FALSE
