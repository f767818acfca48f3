SPECIFICATION DashboardSpec
CONSTANTS
  p1 = p1
  p2 = p2
  b1 = b1
  b2 = b2
  b3 = b3
  \* Viewer
  Pieces = {p1, p2}
  NoPiece = NoPiece
  GalleryLists <- MCGalleryLists
  FolioLists <- MCFolioLists
  Layouts <- MCLayouts
  MaxSaves = 1
  \* PieceEdits, Favorites
  EditPieces = {p1, p2}
  MaxEdits = 2
  MaxRefetches = 1
  FavPieces = {p1, p2}
  MaxClicks = 3
  \* FolioPieces, FolioScreens
  FolioIds = {p1, p2}
  MaxJobs = 1
  MaxRemovals = 1
  Folios = {f1}
  NoFolio = NoFolio
  MaxRequests = 2
  \* InboxScreen
  Items = {i1, i2}
  NoItem = NoItem
  MaxResolves = 2
  \* StreamsScreen, SettingsScreen
  Configs = {c1, c2}
  NoConfig = NoConfig
  MaxCalls = 2
  TgSources = {s1}
  NoTgSource = NoTgSource
  MaxChains = 3
  FullBatches = 1
  \* BrowseScreen
  Arrivals = {b3}
  AtFirst <- MCAtFirst
  TextHits = {b1}
  FilterHits = {b2, b3}
  Skins <- MCSkins
  PageSize = 1
  MaxFetches = 2
  \* OfflineCache
  MaxGets = 1
  MaxWrites = 2
INVARIANTS
  DashboardTypeOK
  DraftBelongsToPiece
  FocusKeepsPanel
  SettledEditIsStored
  SettledHeartIsStored
  AddReportIsTrue
  SettledFoliosAreStored
  UndoHolds
  HiddenIsOnItsWay
  EnabledWasTested
  SettledSourcesAreShown
  SettledGalleryIsWhole
  OfflineAnswersAreFresh
PROPERTY OpenedIsShown
CHECK_DEADLOCK FALSE
