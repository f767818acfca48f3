SPECIFICATION JobsSpec
CONSTANTS
  w1 = w1
  w2 = w2
  h1 = h1
  u2 = u2
  Keys = {w1}
  ErrorKey = ErrorKey
  Hashes = {h1}
  NoHash = NoHash
  Content <- OneContent
  Urls = {}
  SourceUrls <- NoUrls
  Retried = {}
  Handled = {}
  Calls = {c1, c2}
  PageItems <- OnePage
  ConcurrentLimit = 1
  MaxConcurrentExtractions = 3
CHECK_DEADLOCK FALSE
PROPERTY KeptNeverDemoted
