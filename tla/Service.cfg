SPECIFICATION ServiceSpec
CONSTANTS
  g1 = g1
  g2 = g2
  w1 = w1
  web = web
  h1 = h1
  h2 = h2
  Keys = {g1, g2, w1}
  ErrorKey = ErrorKey
  Hashes = {h1, h2}
  NoHash = NoHash
  Content <- GalleryContent
  Urls = {}
  SourceUrls <- NoUrls
  Retried = {w1}
  Handled = {}
  Providers = {web}
  NoProvider = NoProvider
  Kind <- LinksKind
  Feed <- GalleryFeed
  PageSize = 1
  AllowedPages = {1, 3}
  KnowsHash = {}
  DbFaults = FALSE
  Calls = {c1}
  PageItems <- OnePage
  ConcurrentLimit = 1
  MaxConcurrentExtractions = 3
INVARIANT PassedItemsAccounted
CHECK_DEADLOCK FALSE
