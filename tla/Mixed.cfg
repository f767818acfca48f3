SPECIFICATION Spec
CONSTANTS
  t1 = t1
  t2 = t2
  w1 = w1
  tg = tg
  web = web
  h1 = h1
  h2 = h2
  Keys = {t1, w1}
  ErrorKey = ErrorKey
  Hashes = {h1}
  Retried = {}
  Handled = {}
  NoHash = NoHash
  Content <- MixedContent
  u1 = u1
  Urls = {u1}
  SourceUrls <- LegacyPage
  Providers = {tg, web}
  NoProvider = NoProvider
  Kind <- MixedKind
  Feed <- MixedFeed
  PageSize = 1
  AllowedPages = {1}
  KnowsHash = {}
  DbFaults = TRUE
INVARIANTS UniqueContent SeenAccounted InboxBacked
CHECK_DEADLOCK FALSE
