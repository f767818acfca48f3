------------------------------- MODULE Viewer -------------------------------
(***************************************************************************)
(* The fullscreen piece viewer (folio/PieceViewer.tsx) over the sequence   *)
(* the provider keeps for it (folio/context.tsx).  A click, a key, a swipe *)
(* or an answer is one step, and the effects React runs after the render   *)
(* it causes belong to that step.  The info panel, the chrome that hides   *)
(* itself, the folio picker and the edit form are the component's state;   *)
(* what an edit does to the catalog is module PieceEdits.  A control that  *)
(* is only transparent can still be reached with the keyboard, so what the *)
(* viewer offers is what it renders and does not disable.                  *)
(***************************************************************************)
EXTENDS Integers, Sequences

CONSTANTS
  Pieces,
  NoPiece,
  GalleryLists,   \* what the gallery query may hold, in order
  FolioLists,     \* what the query of the opened folio may hold
  Layouts,        \* [mode, mobile]: the panel mode of Settings and the viewport
  MaxSaves        \* bound: edits that wait for an answer

ASSUME ViewerAssumption ==
  /\ NoPiece \notin Pieces
  /\ GalleryLists \subseteq Seq(Pieces) /\ FolioLists \subseteq Seq(Pieces)
  /\ Layouts \subseteq [mode : {"hidden", "remember", "pinned"}, mobile : BOOLEAN]
  /\ MaxSaves \in Nat

VARIABLES
  route,       \* the screen under the viewer
  gallery,     \* the provider's pieces
  folioPieces, \* the pieces of the folio screen, <<>> elsewhere
  viewerList,  \* viewerPieces
  listSource,  \* viewerPiecesSourceRef
  selectedId,
  layout,
  panelFlag,   \* the flag that the mode reads: transient, remembered or pinned on mobile
  chrome,      \* chromeVisible
  chromeTimer, \* the 2.6 s timer is armed
  panelFocus,  \* panelFocusRef
  picker,      \* folioPickerOpen
  touch,       \* touchStartRef and suppressClickRef
  form,        \* editing, the piece the draft was copied from, and whether it was changed
  savingEdit,
  saves        \* the pieces of the edits in flight, in the order they were sent

sequenceVars == <<route, gallery, folioPieces, viewerList, listSource, selectedId>>
panelVars == <<panelFlag, chrome, chromeTimer, panelFocus, picker>>
editVars == <<form, savingEdit, saves>>
viewerVars == <<sequenceVars, layout, panelVars, touch, editVars>>

NoForm == [editing |-> FALSE, of |-> NoPiece, dirty |-> FALSE]
NoTouch == [on |-> "none", suppress |-> FALSE]

ViewerTypeOK ==
  /\ route \in {"gallery", "folio", "inbox"}
  /\ gallery \in GalleryLists /\ folioPieces \in FolioLists \cup {<<>>}
  /\ viewerList \in Seq(Pieces)
  /\ listSource \in {"explicit", "transient", "none"}
  /\ selectedId \in Pieces \cup {NoPiece}
  /\ layout \in Layouts
  /\ panelFlag \in BOOLEAN /\ chrome \in BOOLEAN /\ chromeTimer \in BOOLEAN
  /\ panelFocus \in BOOLEAN /\ picker \in BOOLEAN
  /\ touch \in [on : {"none", "art", "sheet"}, suppress : BOOLEAN]
  /\ form \in [editing : BOOLEAN, of : Pieces \cup {NoPiece}, dirty : BOOLEAN]
  /\ savingEdit \in BOOLEAN
  /\ saves \in Seq(Pieces)

------------------------------------------------------------------------------
(* What is shown *)

Has(list, p) == \E i \in DOMAIN list : list[i] = p

ActiveList(list, pieces) == IF list # <<>> THEN list ELSE pieces

\* The selected piece is looked up in the active sequence; a selection that the
\* sequence does not hold shows nothing, and is kept.
ShownIn(id, list, pieces) ==
  IF id # NoPiece /\ Has(ActiveList(list, pieces), id) THEN id ELSE NoPiece

Shown == ShownIn(selectedId, viewerList, gallery)

PinnedDesktop == layout.mode = "pinned" /\ ~layout.mobile
PanelOpen == PinnedDesktop \/ panelFlag
PanelVisible == PanelOpen /\ (PinnedDesktop \/ layout.mobile \/ chrome)

\* setPanelOpen, with the effect that closes the picker with the panel.
SetPanelOpen(open) ==
  /\ panelFlag' = IF PinnedDesktop THEN panelFlag ELSE open
  /\ picker' = (picker /\ (PinnedDesktop \/ open))

\* showChrome: visible now, and the timer starts again.
ShowChrome == chrome' = TRUE /\ chromeTimer' = TRUE

\* Slip: the reset depends on the panel mode alone.
FreshPanel_KeepsForm ==
  /\ panelFlag' = (panelFlag /\ layout.mode # "hidden")
  /\ picker' = FALSE
  /\ chrome' = TRUE
  /\ UNCHANGED <<form, savingEdit>>

\* Another piece is shown, or none: the reset effect.
FreshPanel ==
  /\ panelFlag' = (panelFlag /\ layout.mode # "hidden")
  /\ picker' = FALSE
  /\ form' = NoForm /\ savingEdit' = FALSE
  /\ chrome' = TRUE

\* The same piece is shown; when it is rendered from another object than before (a refetch,
\* an overlay, an overlaid piece in any render of the provider), the chrome effect runs again.
SameShown ==
  \/ UNCHANGED panelVars
  \/ Shown # NoPiece /\ ShowChrome /\ UNCHANGED <<panelFlag, panelFocus, picker>>

\* What is shown after a step that may change the sequence or the selection.  For another
\* piece the chrome effect runs as well, and its cleanup stops the timer when none is shown.
Shows(id, list, pieces) ==
  /\ selectedId' = id /\ viewerList' = list /\ gallery' = pieces
  /\ LET now == ShownIn(id, list, pieces)
     IN IF now = Shown THEN SameShown /\ UNCHANGED <<form, savingEdit>>
        ELSE /\ FreshPanel
             /\ chromeTimer' = (now # NoPiece)
             /\ UNCHANGED panelFocus

------------------------------------------------------------------------------
(* The sequence: context.tsx *)

\* Slip: a piece that the explicit sequence lacks is not appended to it.
ListWith_Unchanged(p) ==
  IF listSource = "transient" \/ viewerList = <<>> THEN <<p>> ELSE viewerList

\* openPiece(id, piece): the sequence with the given piece in it.
ListWith(p) ==
  IF listSource = "transient" \/ viewerList = <<>> THEN <<p>>
  ELSE IF Has(viewerList, p) THEN viewerList
  ELSE Append(viewerList, p)

OpenGiven(p) ==
  /\ Shows(p, ListWith(p), gallery)
  /\ listSource' = IF listSource = "transient" \/ viewerList = <<>> THEN "transient"
                   ELSE listSource
  /\ UNCHANGED <<route, folioPieces, layout, touch, saves>>

\* openPiece(id): a transient sequence gives way to the gallery.
OpenListed(p) ==
  /\ Shows(p, IF listSource = "transient" THEN <<>> ELSE viewerList, gallery)
  /\ listSource' = IF listSource = "transient" THEN "none" ELSE listSource
  /\ UNCHANGED <<route, folioPieces, layout, touch, saves>>

\* A tile of the gallery or of the folio, a cover in the Inbox.
OpenFromScreen ==
  /\ Shown = NoPiece
  /\ \/ route = "gallery" /\ \E i \in DOMAIN gallery : OpenListed(gallery[i])
     \/ route = "folio" /\ \E i \in DOMAIN folioPieces : OpenListed(folioPieces[i])
     \/ route = "inbox" /\ \E p \in Pieces : OpenGiven(p)

Close == Shows(NoPiece, viewerList, gallery)

\* stepPiece(dir): the next piece around the active sequence.
Neighbour(p, list, dir) ==
  LET i == CHOOSE k \in DOMAIN list : list[k] = p
  IN list[((i - 1 + dir + Len(list)) % Len(list)) + 1]

Step(dir) ==
  Shows(IF Shown = NoPiece THEN selectedId
        ELSE Neighbour(Shown, ActiveList(viewerList, gallery), dir), viewerList, gallery)

\* setViewerPieces, by the effect of the folio screen.
Explicit(list) ==
  /\ folioPieces' = list
  /\ listSource' = IF list # <<>> THEN "explicit" ELSE "none"

\* A change of screen resets the selection; the folio screen installs its pieces when it
\* mounts and takes them back when it unmounts, other screens leave the sequence alone.
Navigate(to) ==
  /\ to # route /\ route' = to
  /\ \E list \in (IF to = "folio" THEN FolioLists
                  ELSE {IF route = "folio" THEN <<>> ELSE viewerList}) :
       /\ Shows(NoPiece, list, gallery)
       /\ IF to = "folio" \/ route = "folio" THEN Explicit(list) ELSE UNCHANGED <<folioPieces, listSource>>
  /\ UNCHANGED <<layout, touch, saves>>

\* filterByArtist: the gallery, for one artist.
FilterByArtist ==
  /\ route' = "gallery"
  /\ \E pieces \in GalleryLists :
       LET list == IF route = "folio" THEN <<>> ELSE viewerList
       IN /\ Shows(NoPiece, list, pieces)
          /\ IF route = "folio" THEN Explicit(list) ELSE UNCHANGED <<folioPieces, listSource>>
  /\ UNCHANGED <<layout, touch, saves>>

\* An answer changes the gallery, or the pieces of the folio whose screen is open.
ListRefetched ==
  /\ \/ \E pieces \in GalleryLists :
          Shows(selectedId, viewerList, pieces) /\ UNCHANGED <<folioPieces, listSource>>
     \/ /\ route = "folio"
        /\ \E list \in FolioLists : Shows(selectedId, list, gallery) /\ Explicit(list)
  /\ UNCHANGED <<route, layout, touch, saves>>

------------------------------------------------------------------------------
(* What the viewer renders *)

\* renderReadTitle and the artist row: a known artist is a link.
TitleOffers == {"artist"}

EditFormOffers == {"type"} \cup (IF savingEdit THEN {} ELSE {"cancel", "save"})

PickerOffers == IF picker THEN {"choose"} ELSE {}

\* renderMoreLikeThis is not rendered while the form is.
SimilarOffers == IF form.editing THEN {} ELSE {"similar"}

MobileChromeOffers == {"info", "edit", "fav", "close"}
SwipeHintOffers == {"details"}
ScrimOffers == IF panelFlag THEN {"scrim"} ELSE {}
SheetBodyOffers ==
  (IF form.editing THEN EditFormOffers ELSE TitleOffers) \cup SimilarOffers
SheetFooterOffers == IF form.editing THEN {} ELSE {"picker", "share", "fav"}

DesktopBackdropOffers == {"close"}
DesktopActionOffers == {"picker", "share", "info", "edit", "close"} \cup PickerOffers
DesktopArrowOffers == {"previous", "next"}
PanelHeadOffers ==
  {"fav"} \cup (IF form.editing THEN EditFormOffers ELSE {"note", "addToFolio"})
PanelRowOffers == TitleOffers \cup SimilarOffers

Offers ==
  IF Shown = NoPiece THEN {}
  ELSE IF layout.mobile
    THEN MobileChromeOffers \cup SwipeHintOffers \cup ScrimOffers \cup SheetBodyOffers
           \cup PickerOffers \cup SheetFooterOffers
    ELSE DesktopBackdropOffers \cup DesktopActionOffers \cup DesktopArrowOffers
           \cup PanelHeadOffers \cup PanelRowOffers

------------------------------------------------------------------------------
(* Clicks *)

ClickClose ==
  /\ "close" \in Offers /\ Close
  /\ UNCHANGED <<route, folioPieces, listSource, layout, touch, saves>>

ClickArrow ==
  /\ {"previous", "next"} \subseteq Offers
  /\ \E dir \in {-1, 1} : Step(dir)
  /\ UNCHANGED <<route, folioPieces, listSource, layout, touch, saves>>

ClickArtist == "artist" \in Offers /\ FilterByArtist

ClickSimilar == "similar" \in Offers /\ \E p \in Pieces : OpenGiven(p)

\* The mobile buttons show the chrome again; the desktop ones leave it to the pointer.
Touched == IF layout.mobile THEN ShowChrome ELSE UNCHANGED <<chrome, chromeTimer>>

ClickInfo ==
  /\ "info" \in Offers
  /\ SetPanelOpen(~PanelOpen) /\ Touched
  /\ UNCHANGED <<sequenceVars, layout, panelFocus, touch, editVars>>

ClickDetails ==
  /\ "details" \in Offers
  /\ SetPanelOpen(TRUE) /\ ShowChrome
  /\ UNCHANGED <<sequenceVars, layout, panelFocus, touch, editVars>>

ClickScrim ==
  /\ "scrim" \in Offers
  /\ SetPanelOpen(FALSE)
  /\ UNCHANGED <<sequenceVars, layout, chrome, chromeTimer, panelFocus, touch, editVars>>

TogglePicker ==
  /\ "picker" \in Offers \/ "addToFolio" \in Offers
  /\ \/ "picker" \in Offers /\ picker' = ~picker
     \/ "addToFolio" \in Offers /\ picker' = TRUE
  /\ UNCHANGED <<sequenceVars, layout, panelFlag, chrome, chromeTimer, panelFocus, touch, editVars>>

\* handleAddToFolio: the request is FolioPieces.AddOne.
ChooseFolio ==
  /\ "choose" \in Offers /\ picker' = FALSE
  /\ UNCHANGED <<sequenceVars, layout, panelFlag, chrome, chromeTimer, panelFocus, touch, editVars>>

\* toggleFav, whose override the piece is rendered with: Favorites.ToggleFav.
ClickFavorite ==
  /\ "fav" \in Offers
  /\ SameShown /\ (layout.mobile => ShowChrome)
  /\ UNCHANGED <<sequenceVars, layout, touch, editVars>>

\* Something else renders the provider: a toast, a typed search.
Rerendered ==
  /\ Shown # NoPiece /\ SameShown
  /\ UNCHANGED <<sequenceVars, layout, touch, editVars>>

------------------------------------------------------------------------------
(* The edit form *)

\* startEditing copies the shown piece into the draft; a second call is ignored.
StartEditing ==
  form' = IF form.editing THEN form ELSE [editing |-> TRUE, of |-> Shown, dirty |-> FALSE]

ClickEdit ==
  /\ {"edit", "note"} \cap Offers # {}
  /\ SetPanelOpen(TRUE) /\ StartEditing /\ Touched
  /\ UNCHANGED <<sequenceVars, layout, panelFocus, touch, savingEdit, saves>>

\* A field, addKeyword, or the removal of a keyword.
ChangeDraft ==
  /\ "type" \in Offers /\ form' = [form EXCEPT !.dirty = TRUE]
  /\ UNCHANGED <<sequenceVars, layout, panelVars, touch, savingEdit, saves>>

\* cancelEditing: the button, which is disabled while a save is out, or Escape, which is not.
CancelEditing ==
  /\ form.editing /\ Shown # NoPiece /\ form' = NoForm
  /\ UNCHANGED <<sequenceVars, layout, panelVars, touch, savingEdit, saves>>

SaveEdit ==
  /\ "save" \in Offers /\ ~savingEdit
  /\ IF ~form.dirty THEN form' = NoForm /\ UNCHANGED <<panelVars, savingEdit, saves>>
     ELSE /\ Len(saves) < MaxSaves
          /\ saves' = Append(saves, form.of) /\ savingEdit' = TRUE
          /\ SameShown /\ UNCHANGED form
  /\ UNCHANGED <<sequenceVars, layout, touch>>

Without(s, i) == SubSeq(s, 1, i - 1) \o SubSeq(s, i + 1, Len(s))

\* The continuation of saveEdit runs in whatever form is open by then.
SaveAnswered ==
  /\ \E i \in DOMAIN saves : saves' = Without(saves, i)
  /\ savingEdit' = FALSE
  /\ \E ok \in BOOLEAN : form' = IF ok THEN NoForm ELSE form
  /\ SameShown
  /\ UNCHANGED <<sequenceVars, layout, touch>>

\* The key handler of the window; a key typed into a field other than the form's is ignored.
PressKey ==
  /\ Shown # NoPiece
  /\ IF form.editing THEN form' = NoForm /\ UNCHANGED <<sequenceVars, panelVars, savingEdit>>
     ELSE /\ Close \/ Step(-1) \/ Step(1)
          /\ UNCHANGED <<route, folioPieces, listSource>>
  /\ UNCHANGED <<layout, touch, saves>>

------------------------------------------------------------------------------
(* Chrome, focus and gestures *)

\* Slip: the idle timer does not look at the focus.
ChromeIdle_IgnoresFocus ==
  /\ chromeTimer /\ chromeTimer' = FALSE
  /\ chrome' = FALSE
  /\ UNCHANGED <<sequenceVars, layout, panelFlag, panelFocus, picker, touch, editVars>>

ChromeIdle ==
  /\ chromeTimer /\ chromeTimer' = FALSE
  /\ chrome' = (chrome /\ panelFocus)
  /\ UNCHANGED <<sequenceVars, layout, panelFlag, panelFocus, picker, touch, editVars>>

PointerMoves ==
  /\ ~layout.mobile /\ Shown # NoPiece /\ ShowChrome
  /\ UNCHANGED <<sequenceVars, layout, panelFlag, panelFocus, picker, touch, editVars>>

PointerLeaves ==
  /\ ~layout.mobile /\ Shown # NoPiece /\ ~panelFocus
  /\ chrome' = FALSE /\ chromeTimer' = FALSE
  /\ UNCHANGED <<sequenceVars, layout, panelFlag, panelFocus, picker, touch, editVars>>

\* Focus enters the panel, or leaves the viewer's surface; moving from the panel to
\* another control of the surface changes nothing.
PanelFocus ==
  /\ ~layout.mobile /\ Shown # NoPiece
  /\ panelFocus' = TRUE /\ chrome' = TRUE /\ chromeTimer' = FALSE
  /\ UNCHANGED <<sequenceVars, layout, panelFlag, picker, touch, editVars>>

PanelBlur ==
  /\ ~layout.mobile /\ Shown # NoPiece /\ panelFocus
  /\ panelFocus' = FALSE /\ ShowChrome
  /\ UNCHANGED <<sequenceVars, layout, panelFlag, picker, touch, editVars>>

TouchStart(on) ==
  /\ layout.mobile /\ Shown # NoPiece
  /\ touch' = [on |-> on, suppress |-> touch.suppress /\ on # "art"]
  /\ IF on = "art" THEN ShowChrome ELSE UNCHANGED <<chrome, chromeTimer>>
  /\ UNCHANGED <<sequenceVars, layout, panelFlag, panelFocus, picker, editVars>>

TouchMove ==
  /\ touch.on = "art" /\ Shown # NoPiece /\ touch' = [touch EXCEPT !.suppress = TRUE]
  /\ UNCHANGED <<sequenceVars, layout, panelVars, editVars>>

\* The end of a swipe: sideways steps, down closes, up opens the panel; a short one does nothing.
ArtworkTouchEnd ==
  /\ touch.on = "art" /\ Shown # NoPiece /\ touch' = [touch EXCEPT !.on = "none"]
  /\ \/ /\ touch.suppress
        /\ Step(-1) \/ Step(1) \/ Close
        /\ UNCHANGED <<route, folioPieces, listSource>>
     \/ /\ touch.suppress /\ SetPanelOpen(TRUE) /\ ShowChrome
        /\ UNCHANGED <<sequenceVars, panelFocus, form, savingEdit>>
     \/ UNCHANGED <<sequenceVars, panelVars, form, savingEdit>>
  /\ UNCHANGED <<layout, saves>>

ArtworkClick ==
  /\ layout.mobile /\ Shown # NoPiece /\ touch' = [touch EXCEPT !.suppress = FALSE]
  /\ IF touch.suppress \/ chrome
     THEN chrome' = (chrome /\ touch.suppress) /\ UNCHANGED chromeTimer
     ELSE ShowChrome
  /\ UNCHANGED <<sequenceVars, layout, panelFlag, panelFocus, picker, editVars>>

SheetTouchEnd ==
  /\ touch.on = "sheet" /\ Shown # NoPiece /\ touch' = [touch EXCEPT !.on = "none"]
  /\ \/ SetPanelOpen(FALSE) /\ UNCHANGED <<chrome, chromeTimer, panelFocus>>
     \/ UNCHANGED panelVars
  /\ UNCHANGED <<sequenceVars, layout, editVars>>

------------------------------------------------------------------------------
ViewerInit ==
  /\ route = "gallery" /\ gallery \in GalleryLists
  /\ folioPieces = <<>> /\ viewerList = <<>> /\ listSource = "none" /\ selectedId = NoPiece
  /\ layout \in Layouts
  /\ panelFlag \in (CASE layout.mode = "hidden" -> {FALSE}
                      [] layout.mode = "remember" -> BOOLEAN
                      [] OTHER -> {TRUE})
  /\ chrome = TRUE /\ chromeTimer = FALSE /\ panelFocus = FALSE /\ picker = FALSE
  /\ touch = NoTouch
  /\ form = NoForm /\ savingEdit = FALSE /\ saves = <<>>

ViewerNext ==
  \/ OpenFromScreen \/ ListRefetched
  \/ \E to \in {"gallery", "folio", "inbox"} : Navigate(to)
  \/ ClickClose \/ ClickArrow \/ ClickArtist \/ ClickSimilar
  \/ ClickInfo \/ ClickDetails \/ ClickScrim \/ TogglePicker \/ ChooseFolio \/ ClickFavorite \/ Rerendered
  \/ ClickEdit \/ ChangeDraft \/ CancelEditing \/ SaveEdit \/ SaveAnswered \/ PressKey
  \/ ChromeIdle \/ PointerMoves \/ PointerLeaves \/ PanelFocus \/ PanelBlur
  \/ \E on \in {"art", "sheet"} : TouchStart(on)
  \/ TouchMove \/ ArtworkTouchEnd \/ ArtworkClick \/ SheetTouchEnd

ViewerSpec == ViewerInit /\ [][ViewerNext]_viewerVars

------------------------------------------------------------------------------
(* Properties *)

\* The open form holds a draft of the piece on the screen, whatever swipe, arrow,
\* refetch or late answer came since it was opened: saving never writes what was typed
\* for one piece to another.
DraftBelongsToPiece == form.editing => form.of = Shown /\ Shown # NoPiece

\* Focus in the panel keeps the chrome, and with it an open panel and its inputs, in
\* view: no idle timer and no pointer that leaves hides a field that has the focus.
FocusKeepsPanel == panelFocus => chrome /\ (PanelOpen => PanelVisible)

\* A piece opened from a tile, an Inbox cover or the similar pieces is the piece that
\* is shown, whichever screen's sequence the viewer holds at the time.
OpenedIsShown ==
  [][selectedId' \notin {selectedId, NoPiece} => ShownIn(selectedId', viewerList', gallery') = selectedId']_viewerVars

=============================================================================
