------------------------------ MODULE Dashboard ------------------------------
(***************************************************************************)
(* The dashboard's parts side by side.  They share nothing but the server: *)
(* each module has its own copy of what the server holds for it, and a     *)
(* change one part makes reaches another as an answer of the other's own   *)
(* query.  A behaviour therefore runs one part, from every initial state   *)
(* it has, and the others stand still in one of theirs.                    *)
(***************************************************************************)
EXTENDS Viewer, PieceEdits, Favorites, FolioPieces, FolioScreens, InboxScreen,
        StreamsScreen, SettingsScreen, BrowseScreen, OfflineCache

VARIABLE part   \* the part that runs

Parts ==
  {"viewer", "edits", "hearts", "folio", "folios", "inbox", "streams", "settings", "gallery",
   "offline"}

dashboardVars ==
  <<part, viewerVars, editsVars, favVars, folioVars, folioScreenVars, inboxVars, streamVars,
    settingsVars, browseVars, offlineVars>>

\* The initial values of a variable of a part: one of them while the part stands still.
AtFirstOf(name, values) == IF part = name THEN values ELSE {CHOOSE v \in values : TRUE}

DashboardInit ==
  /\ part \in Parts
  /\ gallery \in AtFirstOf("viewer", GalleryLists) /\ layout \in AtFirstOf("viewer", Layouts)
  /\ panelFlag \in IF part = "viewer" THEN BOOLEAN ELSE {layout.mode = "pinned"}
  /\ favStored \in AtFirstOf("hearts", [FavPieces -> BOOLEAN])
  /\ members \in AtFirstOf("folio", SUBSET FolioIds)
  /\ folioStored \in AtFirstOf("folios", [Folios -> {"absent", "new"}])
  /\ page \in AtFirstOf("folios", [on : {"folios"}, of : {NoFolio}, mobile : BOOLEAN])
  /\ inboxView \in AtFirstOf("inbox", [mounted : {TRUE}, mobile : BOOLEAN])
  /\ source \in AtFirstOf("streams", [there : {TRUE}, config : Configs, enabled : BOOLEAN])
  /\ telegram \in AtFirstOf("settings",
       [TgSources -> {NoTgRow, [NoTgRow EXCEPT !.there = TRUE, !.on = TRUE]}])
  /\ gallerySkin \in AtFirstOf("gallery", Skins)
  /\ ViewerInit /\ EditsInit /\ FavoritesInit /\ FolioPiecesInit /\ FolioScreensInit
  /\ InboxInit /\ StreamsInit /\ SettingsInit /\ BrowseInit /\ OfflineInit

------------------------------------------------------------------------------
\* A step of one part leaves the others alone.
ViewerRuns ==
  /\ part = "viewer" /\ ViewerNext
  /\ UNCHANGED <<part, editsVars, favVars, folioVars, folioScreenVars, inboxVars, streamVars,
                 settingsVars, browseVars, offlineVars>>

EditsRun ==
  /\ part = "edits" /\ EditsNext
  /\ UNCHANGED <<part, viewerVars, favVars, folioVars, folioScreenVars, inboxVars, streamVars,
                 settingsVars, browseVars, offlineVars>>

HeartsRun ==
  /\ part = "hearts" /\ FavoritesNext
  /\ UNCHANGED <<part, viewerVars, editsVars, folioVars, folioScreenVars, inboxVars, streamVars,
                 settingsVars, browseVars, offlineVars>>

FolioRuns ==
  /\ part = "folio" /\ FolioPiecesNext
  /\ UNCHANGED <<part, viewerVars, editsVars, favVars, folioScreenVars, inboxVars, streamVars,
                 settingsVars, browseVars, offlineVars>>

FoliosRun ==
  /\ part = "folios" /\ FolioScreensNext
  /\ UNCHANGED <<part, viewerVars, editsVars, favVars, folioVars, inboxVars, streamVars,
                 settingsVars, browseVars, offlineVars>>

InboxRuns ==
  /\ part = "inbox" /\ InboxNext
  /\ UNCHANGED <<part, viewerVars, editsVars, favVars, folioVars, folioScreenVars, streamVars,
                 settingsVars, browseVars, offlineVars>>

StreamsRun ==
  /\ part = "streams" /\ StreamsNext
  /\ UNCHANGED <<part, viewerVars, editsVars, favVars, folioVars, folioScreenVars, inboxVars,
                 settingsVars, browseVars, offlineVars>>

SettingsRun ==
  /\ part = "settings" /\ SettingsNext
  /\ UNCHANGED <<part, viewerVars, editsVars, favVars, folioVars, folioScreenVars, inboxVars,
                 streamVars, browseVars, offlineVars>>

GalleryRuns ==
  /\ part = "gallery" /\ BrowseNext
  /\ UNCHANGED <<part, viewerVars, editsVars, favVars, folioVars, folioScreenVars, inboxVars,
                 streamVars, settingsVars, offlineVars>>

OfflineRuns ==
  /\ part = "offline" /\ OfflineNext
  /\ UNCHANGED <<part, viewerVars, editsVars, favVars, folioVars, folioScreenVars, inboxVars,
                 streamVars, settingsVars, browseVars>>

DashboardNext ==
  \/ ViewerRuns \/ EditsRun \/ HeartsRun \/ FolioRuns \/ FoliosRun
  \/ InboxRuns \/ StreamsRun \/ SettingsRun \/ GalleryRuns \/ OfflineRuns

DashboardSpec == DashboardInit /\ [][DashboardNext]_dashboardVars

------------------------------------------------------------------------------
\* The values of the part that runs stay within their types; the others keep theirs.
DashboardTypeOK ==
  /\ part \in Parts
  /\ part = "viewer" => ViewerTypeOK
  /\ part = "edits" => EditsTypeOK
  /\ part = "hearts" => FavoritesTypeOK
  /\ part = "folio" => FolioPiecesTypeOK
  /\ part = "folios" => FolioScreensTypeOK
  /\ part = "inbox" => InboxTypeOK
  /\ part = "streams" => StreamsTypeOK
  /\ part = "settings" => SettingsTypeOK
  /\ part = "gallery" => BrowseTypeOK
  /\ part = "offline" => OfflineTypeOK

=============================================================================
