SPECIFICATION Spec
CONSTANTS
  t1 = t1
  t2 = t2
  w1 = w1
  tg = tg
  web = web
  h1 = h1
  h2 = h2
  Keys = {t1, t2}
  ErrorKey = ErrorKey
  Hashes = {h1}
  Retried = {t1, ErrorKey}
  Handled = {t1, t2}
  NoHash = NoHash
  Content <- SharedContent
  u1 = u1
  Urls = {}
  SourceUrls <- NoUrls
  Providers = {tg}
  NoProvider = NoProvider
  Kind <- UpdatesKind
  Feed <- UpdatesFeed
  PageSize = 2
  AllowedPages = {}
  KnowsHash = {t2}
  DbFaults = FALSE
INVARIANTS UniqueContent PassedItemsAccounted ConfirmedBehindCursor SeenAccounted OwnerBacked InboxBacked
PROPERTIES LedgerPromise ResolvedStaysResolved KeptNeverDemoted
CHECK_DEADLOCK FALSE
