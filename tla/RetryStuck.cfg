SPECIFICATION LiveSpec
CONSTANTS
  t1 = t1
  t2 = t2
  w1 = w1
  tg = tg
  web = web
  h1 = h1
  h2 = h2
  Keys = {t1}
  ErrorKey = ErrorKey
  Hashes = {h1, h2}
  NoHash = NoHash
  Content <- ChatContent
  Urls = {}
  SourceUrls <- NoUrls
  Retried = {t1}
  Handled = {}
  Providers = {tg}
  NoProvider = NoProvider
  Kind <- ChatKind
  Feed <- ChatFeed
  PageSize = 2
  AllowedPages = {}
  KnowsHash = {}
  DbFaults = FALSE
  MaxFaults = 0
CHECK_DEADLOCK FALSE
PROPERTY PendingIsReprocessed
