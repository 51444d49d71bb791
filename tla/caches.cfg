SPECIFICATION Spec
SYMMETRY Symmetry
CONSTANTS
  s1 = s1
  s2 = s2
  Requests = {q1, q2}
  Scopes <- MCScopes
  Texts <- MCTexts
  Asks <- MCAsks
  Attachments <- MCAttachments
  Embedding <- MCEmbedding
  Threshold = 85
  MaxEntries = 2
  TTL = 1
  MaxAnswers = 3
  MaxTime = 2
  None = None
INVARIANTS MapWithinQueue HitsAreBestMatches
