SPECIFICATION JobsFairSpec
CONSTANTS
  w1 = w1
  w2 = w2
  h1 = h1
  u2 = u2
  Keys = {w1, w2}
  ErrorKey = ErrorKey
  Hashes = {h1}
  NoHash = NoHash
  Content <- SharedContent
  Urls = {u2}
  SourceUrls <- LegacyUrl
  Retried = {}
  Handled = {w1, ErrorKey}
  Calls = {c1}
  PageItems <- TwicePage
  ConcurrentLimit = 3
  MaxConcurrentExtractions = 3
PROPERTIES KeptNeverDemoted CallsReturn
CHECK_DEADLOCK FALSE
