SPECIFICATION LiveSpec
CONSTANTS
  t1 = t1
  t2 = t2
  w1 = w1
  tg = tg
  web = web
  h1 = h1
  h2 = h2
  Keys = {t1, w1}
  ErrorKey = ErrorKey
  Hashes = {h1}
  NoHash = NoHash
  Content <- BothContent
  Urls = {}
  SourceUrls <- NoUrls
  Retried = {}
  Handled = {}
  Providers = {tg, web}
  NoProvider = NoProvider
  Kind <- BothKind
  Feed <- SmallFeed
  PageSize = 2
  AllowedPages = {}
  KnowsHash = {}
  DbFaults = FALSE
  MaxFaults = 1
PROPERTIES PublishedGetsAccounted RunsEnd
CHECK_DEADLOCK FALSE
