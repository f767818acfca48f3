-------------------------- MODULE DashboardProofs --------------------------
(***************************************************************************)
(* Proofs about the piece viewer, the hearts, the edits, the pieces of a   *)
(* folio, the gallery, and the dashboard as a whole.  For the viewer the   *)
(* argument is that everything that can change the piece on the screen     *)
(* goes through Shows, which renders the panel afresh; for the hearts and  *)
(* the edits, that the request, the override and the server agree on every *)
(* piece that did not go astray; for a job, that its counts and what it    *)
(* has still to send make up what it was asked; for the gallery, that the  *)
(* pages no arrival overtook are a beginning of what the server finds.  A  *)
(* step of the dashboard is a step of one of its parts and leaves the      *)
(* variables of the others alone, so what is proved of a part holds of the *)
(* dashboard that the run checks.                                          *)
(***************************************************************************)
EXTENDS Dashboard, ScreenProofs, SequenceTheorems, WellFoundedInduction

------------------------------------------------------------------------------
(* The viewer *)

\* What the two properties need: the form is a record, an open one is of the piece that is
\* shown, and the panel has the focus only on the desktop and with the chrome in view.
FormRecord == form = [editing |-> form.editing, of |-> form.of, dirty |-> form.dirty]
DraftInv == FormRecord /\ (form.editing => form.of = Shown /\ Shown # NoPiece)
FocusInv == panelFocus => chrome /\ ~layout.mobile

\* The closed form is a record with no draft (PieceViewer.tsx, cancelEditing).
LEMMA NoFormClosed == ~NoForm.editing /\ NoForm = [editing |-> NoForm.editing, of |-> NoForm.of, dirty |-> NoForm.dirty]
  BY DEF NoForm

\* Every step that changes what is shown renders the panel afresh, and closes the form.
LEMMA ShowsKeeps ==
  ASSUME NEW id, NEW list, NEW pieces, Shows(id, list, pieces), DraftInv
  PROVE  DraftInv'
<1>1. Shown' = ShownIn(id, list, pieces)
  BY DEF Shows, Shown
<1>2. CASE Shown' = Shown
  BY <1>1, <1>2 DEF Shows, DraftInv, FormRecord
<1>3. CASE Shown' # Shown
  <2>1. form' = NoForm
    BY <1>1, <1>3 DEF Shows, FreshPanel
  <2> QED
    BY <2>1, NoFormClosed DEF DraftInv, FormRecord
<1> QED
  BY <1>2, <1>3

\* A panel rendered afresh shows its chrome.
LEMMA ShowsKeepsFocus ==
  ASSUME NEW id, NEW list, NEW pieces, Shows(id, list, pieces), UNCHANGED layout, FocusInv
  PROVE  FocusInv'
<1>1. CASE ShownIn(id, list, pieces) = Shown
  BY <1>1 DEF Shows, SameShown, ShowChrome, panelVars, FocusInv
<1>2. CASE ShownIn(id, list, pieces) # Shown
  BY <1>2 DEF Shows, FreshPanel, FocusInv
<1> QED
  BY <1>1, <1>2

\* The steps that change the sequence or the selection, each through Shows.
Turns == \E id, list, pieces : Shows(id, list, pieces) /\ UNCHANGED layout

\* Opening, stepping, closing, navigating, filtering by artist and refetching are such steps.
LEMMA TurningSteps ==
  OpenFromScreen \/ ListRefetched \/ (\E to \in {"gallery", "folio", "inbox"} : Navigate(to))
    \/ ClickClose \/ ClickArrow \/ ClickArtist \/ ClickSimilar => Turns
<1>1. OpenFromScreen => Turns
  BY DEF OpenFromScreen, OpenListed, OpenGiven, Turns
<1>2. ListRefetched => Turns
  BY DEF ListRefetched, Turns
<1>3. ASSUME NEW to, Navigate(to) PROVE Turns
  BY <1>3 DEF Navigate, Turns
<1>4. ClickClose => Turns
  BY DEF ClickClose, Close, Turns
<1>5. ClickArrow => Turns
  BY DEF ClickArrow, Step, Turns
<1>6. ClickArtist => Turns
  BY DEF ClickArtist, FilterByArtist, Turns
<1>7. ClickSimilar => Turns
  BY DEF ClickSimilar, OpenGiven, Turns
<1> QED
  BY <1>1, <1>2, <1>3, <1>4, <1>5, <1>6, <1>7

\* A step of the viewer keeps both: it turns to another piece, it leaves the form and what is
\* shown alone, or it opens, changes or closes the form.
LEMMA ViewerStep == DraftInv /\ FocusInv /\ [ViewerNext]_viewerVars => DraftInv' /\ FocusInv'
<1> SUFFICES ASSUME DraftInv, FocusInv, [ViewerNext]_viewerVars PROVE DraftInv' /\ FocusInv'
  OBVIOUS
<1>t. Turns => DraftInv' /\ FocusInv'
  BY ShowsKeeps, ShowsKeepsFocus DEF Turns
<1>1. CASE \/ OpenFromScreen \/ ListRefetched \/ \E to \in {"gallery", "folio", "inbox"} : Navigate(to)
           \/ ClickClose \/ ClickArrow \/ ClickArtist \/ ClickSimilar
  BY <1>1, <1>t, TurningSteps
\* The panel, the picker, the chrome and the pointer leave the form and what is shown alone.
<1>2. CASE \/ ClickInfo \/ ClickDetails \/ ClickScrim \/ TogglePicker \/ ChooseFolio \/ ClickFavorite \/ Rerendered
           \/ ChromeIdle \/ PointerMoves \/ PointerLeaves \/ PanelFocus \/ PanelBlur
           \/ (\E on \in {"art", "sheet"} : TouchStart(on))
           \/ TouchMove \/ ArtworkClick \/ SheetTouchEnd
  <2>1. UNCHANGED <<sequenceVars, layout, form>>
    BY <1>2 DEF ClickInfo, ClickDetails, ClickScrim, TogglePicker, ChooseFolio, ClickFavorite, Rerendered,
                ChromeIdle, PointerMoves, PointerLeaves, PanelFocus, PanelBlur, TouchStart,
                TouchMove, ArtworkClick, SheetTouchEnd, editVars
  <2>2. DraftInv'
    BY <2>1 DEF sequenceVars, DraftInv, FormRecord, Shown
  <2>3. FocusInv'
    BY <1>2 DEF ClickInfo, ClickDetails, ClickScrim, TogglePicker, ChooseFolio, ClickFavorite, Rerendered,
                ChromeIdle, PointerMoves, PointerLeaves, PanelFocus, PanelBlur, TouchStart,
                TouchMove, ArtworkClick, SheetTouchEnd, Touched, SameShown, ShowChrome, panelVars, FocusInv
  <2> QED
    BY <2>2, <2>3
\* The form opens on what is shown, changes, or closes.
<1>3. CASE ClickEdit \/ ChangeDraft \/ CancelEditing \/ SaveEdit \/ SaveAnswered
  <2>1. UNCHANGED sequenceVars /\ Shown' = Shown
    BY <1>3 DEF ClickEdit, ChangeDraft, CancelEditing, SaveEdit, SaveAnswered, sequenceVars, Shown
  <2>2. DraftInv'
    <3>1. CASE form' = form \/ form' = NoForm
      BY <3>1, <2>1, NoFormClosed DEF DraftInv, FormRecord
    <3>2. CASE form' = [form EXCEPT !.dirty = TRUE]
      BY <3>2, <2>1 DEF DraftInv, FormRecord
    <3>3. CASE ClickEdit
      <4>1. Shown # NoPiece
        BY <3>3 DEF ClickEdit, Offers
      <4> QED
        BY <3>3, <4>1, <2>1 DEF ClickEdit, StartEditing, DraftInv, FormRecord
    <3> QED
      BY <1>3, <3>1, <3>2, <3>3 DEF ChangeDraft, CancelEditing, SaveEdit, SaveAnswered
  <2>3. FocusInv'
    BY <1>3 DEF ClickEdit, ChangeDraft, CancelEditing, SaveEdit, SaveAnswered, Touched, SameShown, ShowChrome,
                panelVars, FocusInv
  <2> QED
    BY <2>2, <2>3
<1>4. CASE PressKey
  <2>1. CASE form.editing
    <3>1. form' = NoForm /\ UNCHANGED <<sequenceVars, panelVars, layout>>
      BY <1>4, <2>1 DEF PressKey
    <3> QED
      BY <3>1, NoFormClosed DEF DraftInv, FormRecord, FocusInv, panelVars
  <2>2. CASE ~form.editing
    BY <1>4, <2>2, <1>t DEF PressKey, Close, Step, Turns
  <2> QED
    BY <2>1, <2>2
<1>5. CASE ArtworkTouchEnd
  <2>1. \/ Step(-1) \/ Step(1) \/ Close
        \/ UNCHANGED <<sequenceVars, layout, form>> /\ ShowChrome /\ UNCHANGED panelFocus
        \/ UNCHANGED <<sequenceVars, layout, form, panelVars>>
    BY <1>5 DEF ArtworkTouchEnd
  <2>2. UNCHANGED layout
    BY <1>5 DEF ArtworkTouchEnd
  <2>3. Step(-1) \/ Step(1) \/ Close => Turns
    BY <2>2 DEF Step, Close, Turns
  <2>4. CASE UNCHANGED <<sequenceVars, layout, form>> /\ ShowChrome /\ UNCHANGED panelFocus
    BY <2>4 DEF sequenceVars, ShowChrome, DraftInv, FormRecord, Shown, FocusInv
  <2>5. CASE UNCHANGED <<sequenceVars, layout, form, panelVars>>
    BY <2>5 DEF sequenceVars, panelVars, DraftInv, FormRecord, Shown, FocusInv
  <2> QED
    BY <1>t, <2>1, <2>3, <2>4, <2>5
<1>6. CASE UNCHANGED viewerVars
  BY <1>6 DEF viewerVars, sequenceVars, panelVars, editVars, DraftInv, FormRecord, Shown, FocusInv
<1> QED
  BY <1>1, <1>2, <1>3, <1>4, <1>5, <1>6 DEF ViewerNext

\* The viewer starts closed.
LEMMA ViewerStarts == ViewerInit => DraftInv /\ FocusInv
  BY NoFormClosed DEF ViewerInit, DraftInv, FormRecord, FocusInv

\* The draft is of the piece on the screen (PieceViewer.tsx, the reset effect and startEditing),
\* for all pieces, sequences and layouts and any number of edits in flight.
THEOREM ViewerDrafts == ViewerSpec => []DraftBelongsToPiece
<1>1. DraftInv => DraftBelongsToPiece
  BY DEF DraftInv, DraftBelongsToPiece
<1> QED
  BY ViewerStarts, ViewerStep, <1>1, PTL DEF ViewerSpec

\* Focus in the panel keeps it in view (PieceViewer.tsx, the chrome timer and panelFocusRef).
THEOREM ViewerFocus == ViewerSpec => []FocusKeepsPanel
<1>1. FocusInv => FocusKeepsPanel
  BY DEF FocusInv, FocusKeepsPanel, PanelVisible
<1> QED
  BY ViewerStarts, ViewerStep, <1>1, PTL DEF ViewerSpec

------------------------------------------------------------------------------
(* The sequence *)

\* What an open piece relies on: away from the folio screen the explicit sequence is gone, and
\* on it the sequence holds the folio's pieces unless the folio has none.
SeqInv ==
  /\ viewerList \in Seq(Pieces) /\ gallery \in Seq(Pieces)
  /\ viewerList # <<>> /\ route # "folio" => listSource = "transient"
  /\ route = "folio" =>
       \A i \in DOMAIN folioPieces : listSource # "transient" /\ Has(viewerList, folioPieces[i])

\* A remainder is smaller than what it is taken by.
LEMMA Remainder ==
  ASSUME NEW n \in Nat \ {0}, NEW a \in Int
  PROVE  a % n \in 0..(n - 1)
OBVIOUS

\* Stepping around a sequence stays in it.
LEMMA NeighbourListed ==
  ASSUME NEW list \in Seq(Pieces), NEW p, Has(list, p), NEW dir \in {-1, 1}
  PROVE  Has(list, Neighbour(p, list, dir))
<1> DEFINE i == CHOOSE k \in DOMAIN list : list[k] = p
<1>1. i \in 1..Len(list) /\ Len(list) \in Nat
  BY DEF Has
<1> HIDE DEF i
<1>2. (i - 1 + dir + Len(list)) \in Int /\ Len(list) \in Nat \ {0}
  BY <1>1
<1>3. (i - 1 + dir + Len(list)) % Len(list) \in 0..(Len(list) - 1)
  BY <1>2, Remainder
<1> DEFINE m == (i - 1 + dir + Len(list)) % Len(list)
<1>4. m + 1 \in DOMAIN list
  <2>1. m \in 0..(Len(list) - 1)
    BY <1>3
  <2> HIDE DEF m
  <2> QED BY <1>1, <2>1
<1>5. Neighbour(p, list, dir) = list[m + 1]
  BY DEF Neighbour, i
<1> HIDE DEF m
<1> QED BY <1>4, <1>5 DEF Has

\* A sequence holds pieces.
LEMMA HasIsPiece == ASSUME NEW list \in Seq(Pieces), NEW p, Has(list, p) PROVE p \in Pieces
BY DEF Has

\* The given piece is in its sequence, and the pieces before stay in it.
LEMMA ListWithHas ==
  ASSUME SeqInv, NEW p \in Pieces
  PROVE  /\ ListWith(p) \in Seq(Pieces) /\ ListWith(p) # <<>> /\ Has(ListWith(p), p)
         /\ listSource # "transient" => \A q : Has(viewerList, q) => Has(ListWith(p), q)
<1>1. viewerList \in Seq(Pieces) /\ Len(viewerList) \in Nat
  BY DEF SeqInv
<1>2. /\ <<p>> \in Seq(Pieces) /\ <<p>> # <<>> /\ 1 \in DOMAIN <<p>> /\ <<p>>[1] = p
  OBVIOUS
<1>3. /\ Append(viewerList, p) \in Seq(Pieces) /\ Append(viewerList, p) # <<>>
      /\ Len(viewerList) + 1 \in DOMAIN Append(viewerList, p)
      /\ Append(viewerList, p)[Len(viewerList) + 1] = p
      /\ \A i \in DOMAIN viewerList :
           i \in DOMAIN Append(viewerList, p) /\ Append(viewerList, p)[i] = viewerList[i]
  BY <1>1, AppendProperties
<1>4. CASE listSource = "transient" \/ viewerList = <<>>
  <2>1. ListWith(p) = <<p>>
    BY <1>4 DEF ListWith
  <2>2. ~\E q : Has(<<>>, q)
    BY DEF Has
  <2> QED BY <1>2, <1>4, <2>1, <2>2 DEF Has
<1>5. CASE ~(listSource = "transient" \/ viewerList = <<>>)
  <2>1. CASE Has(viewerList, p)
    BY <1>1, <1>5, <2>1 DEF ListWith
  <2>2. CASE ~Has(viewerList, p)
    <3>1. ListWith(p) = Append(viewerList, p)
      BY <1>5, <2>2 DEF ListWith
    <3> HIDE DEF Has
    <3>2. Has(Append(viewerList, p), p)
      BY <1>3 DEF Has
    <3>3. \A q : Has(viewerList, q) => Has(Append(viewerList, p), q)
      BY <1>3 DEF Has
    <3> QED BY <1>3, <3>1, <3>2, <3>3
  <2> QED BY <2>1, <2>2
<1> QED BY <1>4, <1>5

\* A piece that the active sequence holds is shown.
LEMMA ListedIsShown ==
  ASSUME NEW p \in Pieces, NEW list, NEW pieces, Has(ActiveList(list, pieces), p)
  PROVE  ShownIn(p, list, pieces) = p
BY ViewerAssumption DEF ShownIn

\* What is shown is in the active sequence.
LEMMA ShownListed ==
  ASSUME Shown # NoPiece
  PROVE  Has(ActiveList(viewerList, gallery), Shown)
BY DEF Shown, ShownIn

\* What a step does with the sequence and the selection: it keeps both, it closes or steps, it
\* opens a piece, it moves to another screen, or an answer brings another list.
OpensRight ==
  selectedId' \notin {selectedId, NoPiece} => ShownIn(selectedId', viewerList', gallery') = selectedId'

\* Stepping shows the piece it selects.
LEMMA StepKeeps ==
  ASSUME SeqInv, NEW dir \in {-1, 1}, Step(dir), UNCHANGED <<route, folioPieces, listSource>>
  PROVE  SeqInv' /\ OpensRight
<1>1. UNCHANGED <<viewerList, gallery>>
  BY DEF Step, Shows
<1>2. SeqInv'
  BY <1>1 DEF SeqInv
<1>3. ASSUME selectedId' # selectedId PROVE ShownIn(selectedId', viewerList', gallery') = selectedId'
  <2>1. Shown # NoPiece /\ selectedId' = Neighbour(Shown, ActiveList(viewerList, gallery), dir)
    BY <1>3 DEF Step, Shows
  <2>2. ActiveList(viewerList, gallery) \in Seq(Pieces)
    BY DEF SeqInv, ActiveList
  <2>3. Has(ActiveList(viewerList, gallery), selectedId') /\ selectedId' \in Pieces
    BY <2>1, <2>2, ShownListed, NeighbourListed, HasIsPiece
  <2> QED BY <1>1, <2>3, ListedIsShown
<1> QED BY <1>2, <1>3 DEF OpensRight

\* Closing selects nothing.
LEMMA CloseKeeps ==
  ASSUME SeqInv, Close, UNCHANGED <<route, folioPieces, listSource>>
  PROVE  SeqInv' /\ OpensRight
BY DEF Close, Shows, SeqInv, OpensRight

\* A piece that is opened with its data is put into the sequence.
LEMMA GivenKeeps ==
  ASSUME SeqInv, NEW p \in Pieces, OpenGiven(p)
  PROVE  SeqInv' /\ OpensRight
<1>1. /\ selectedId' = p /\ viewerList' = ListWith(p) /\ gallery' = gallery
      /\ listSource' = IF listSource = "transient" \/ viewerList = <<>> THEN "transient" ELSE listSource
      /\ UNCHANGED <<route, folioPieces>>
  BY DEF OpenGiven, Shows
<1>2. OpensRight
  <2>1. ActiveList(viewerList', gallery') = ListWith(p)
    BY <1>1, ListWithHas DEF ActiveList
  <2> QED BY <1>1, <2>1, ListWithHas, ListedIsShown DEF OpensRight
<1>3. SeqInv'
  <2>1. viewerList' \in Seq(Pieces) /\ gallery' \in Seq(Pieces)
    BY <1>1, ListWithHas DEF SeqInv
  <2>2. viewerList' # <<>> /\ route' # "folio" => listSource' = "transient"
    BY <1>1 DEF SeqInv
  <2>3. ASSUME route' = "folio", NEW i \in DOMAIN folioPieces'
        PROVE  listSource' # "transient" /\ Has(viewerList', folioPieces'[i])
    <3>1. listSource # "transient" /\ Has(viewerList, folioPieces[i])
      BY <1>1, <2>3 DEF SeqInv
    <3>2. viewerList # <<>>
      BY <3>1 DEF Has
    <3> QED BY <1>1, <3>1, <3>2, ListWithHas
  <2> QED BY <2>1, <2>2, <2>3 DEF SeqInv
<1> QED BY <1>2, <1>3

\* A piece that is opened from its screen is in that screen's sequence.
LEMMA ListedKeeps ==
  ASSUME SeqInv, NEW p \in Pieces, OpenListed(p),
         \/ route # "folio" /\ Has(gallery, p)
         \/ route = "folio" /\ \E i \in DOMAIN folioPieces : folioPieces[i] = p
  PROVE  SeqInv' /\ OpensRight
<1>1. /\ selectedId' = p /\ gallery' = gallery
      /\ viewerList' = IF listSource = "transient" THEN <<>> ELSE viewerList
      /\ listSource' = IF listSource = "transient" THEN "none" ELSE listSource
      /\ UNCHANGED <<route, folioPieces>>
  BY DEF OpenListed, Shows
<1>2. Has(ActiveList(viewerList', gallery'), p)
  <2>1. CASE route # "folio" /\ Has(gallery, p)
    <3>1. viewerList' = <<>>
      BY <1>1, <2>1 DEF SeqInv
    <3> QED BY <1>1, <2>1, <3>1 DEF ActiveList
  <2>2. CASE route = "folio" /\ \E i \in DOMAIN folioPieces : folioPieces[i] = p
    <3>1. listSource # "transient" /\ Has(viewerList, p)
      BY <2>2 DEF SeqInv
    <3>2. viewerList # <<>>
      BY <3>1 DEF Has
    <3> QED BY <1>1, <3>1, <3>2 DEF ActiveList
  <2> QED BY <2>1, <2>2
<1>3. SeqInv'
  <2>1. viewerList' \in Seq(Pieces) /\ gallery' \in Seq(Pieces)
    BY <1>1 DEF SeqInv
  <2>2. viewerList' # <<>> /\ route' # "folio" => listSource' = "transient"
    BY <1>1 DEF SeqInv
  <2>3. route' = "folio" =>
          \A i \in DOMAIN folioPieces' : listSource' # "transient" /\ Has(viewerList', folioPieces'[i])
    BY <1>1 DEF SeqInv
  <2> QED BY <2>1, <2>2, <2>3 DEF SeqInv
<1> QED BY <1>1, <1>2, <1>3, ListedIsShown DEF OpensRight

\* What the screens may hold are sequences.
LEMMA FolioListsTyped ==
  /\ \A list \in FolioLists : list \in Seq(Pieces)
  /\ \A list \in GalleryLists : list \in Seq(Pieces)
BY ViewerAssumption

\* The folio screen installs its pieces.
LEMMA ExplicitKeeps ==
  ASSUME NEW list \in Seq(Pieces), Explicit(list), viewerList' = list, gallery' \in Seq(Pieces),
         route' = "folio" \/ list = <<>>
  PROVE  SeqInv'
<1>1. folioPieces' = list /\ (list # <<>> => listSource' # "transient")
  BY DEF Explicit
<1>2. \A i \in DOMAIN list : list # <<>> /\ Has(list, list[i])
  BY DEF Has
<1> QED BY <1>1, <1>2 DEF SeqInv

\* A change of screen, of filter or of the lists selects nothing new.
LEMMA MovesKeep ==
  ASSUME SeqInv,
         \/ \E to \in {"gallery", "folio", "inbox"} : Navigate(to)
         \/ FilterByArtist
         \/ ListRefetched
  PROVE  SeqInv' /\ OpensRight
<1>1. ASSUME NEW to \in {"gallery", "folio", "inbox"}, Navigate(to)
      PROVE  SeqInv' /\ OpensRight
  <2>1. PICK list \in (IF to = "folio" THEN FolioLists
                       ELSE {IF route = "folio" THEN <<>> ELSE viewerList}) :
          /\ Shows(NoPiece, list, gallery)
          /\ IF to = "folio" \/ route = "folio" THEN Explicit(list) ELSE UNCHANGED <<folioPieces, listSource>>
    BY <1>1 DEF Navigate
  <2>2. viewerList' = list /\ gallery' = gallery /\ selectedId' = NoPiece /\ route' = to
    BY <1>1, <2>1 DEF Navigate, Shows
  <2>3. gallery' \in Seq(Pieces) /\ list \in Seq(Pieces)
    <3>1. <<>> \in Seq(Pieces) /\ viewerList \in Seq(Pieces)
      BY DEF SeqInv
    <3>2. list \in Seq(Pieces)
      BY <2>1, <3>1, FolioListsTyped
    <3> QED BY <2>2, <3>2 DEF SeqInv
  <2>4. CASE to = "folio" \/ route = "folio"
    <3>1. Explicit(list) /\ (to = "folio" \/ list = <<>>)
      BY <2>1, <2>4
    <3> QED BY <2>2, <2>3, <3>1, ExplicitKeeps DEF OpensRight
  <2>5. CASE ~(to = "folio" \/ route = "folio")
    <3>1. list = viewerList /\ UNCHANGED <<folioPieces, listSource>>
      BY <2>1, <2>5
    <3> QED BY <2>2, <2>3, <2>5, <3>1 DEF SeqInv, OpensRight
  <2> QED BY <2>4, <2>5
<1>2. ASSUME FilterByArtist PROVE SeqInv' /\ OpensRight
  <2> DEFINE list == IF route = "folio" THEN <<>> ELSE viewerList
  <2>1. PICK pieces \in GalleryLists :
          /\ Shows(NoPiece, list, pieces)
          /\ IF route = "folio" THEN Explicit(list) ELSE UNCHANGED <<folioPieces, listSource>>
    BY <1>2 DEF FilterByArtist
  <2>2. viewerList' = list /\ gallery' = pieces /\ selectedId' = NoPiece /\ route' = "gallery"
    BY <1>2, <2>1 DEF FilterByArtist, Shows
  <2>3. gallery' \in Seq(Pieces) /\ list \in Seq(Pieces)
    BY <2>1, <2>2, FolioListsTyped DEF SeqInv
  <2>4. CASE route = "folio"
    <3>1. Explicit(list) /\ list = <<>>
      BY <2>1, <2>4
    <3> QED BY <2>2, <2>3, <3>1, ExplicitKeeps DEF OpensRight
  <2>5. CASE route # "folio"
    <3>1. list = viewerList /\ UNCHANGED <<folioPieces, listSource>>
      BY <2>1, <2>5
    <3> QED BY <2>2, <2>3, <2>5, <3>1 DEF SeqInv, OpensRight
  <2> QED BY <2>4, <2>5
<1>3. ASSUME ListRefetched PROVE SeqInv' /\ OpensRight
  <2>1. UNCHANGED route /\ selectedId' = selectedId
    BY <1>3 DEF ListRefetched, Shows
  <2>2. CASE \E pieces \in GalleryLists :
               Shows(selectedId, viewerList, pieces) /\ UNCHANGED <<folioPieces, listSource>>
    <3>1. viewerList' = viewerList /\ gallery' \in Seq(Pieces) /\ UNCHANGED <<folioPieces, listSource>>
      BY <2>2, FolioListsTyped DEF Shows
    <3> QED BY <2>1, <3>1 DEF SeqInv, OpensRight
  <2>3. CASE route = "folio" /\ \E list \in FolioLists : Shows(selectedId, list, gallery) /\ Explicit(list)
    <3>1. PICK list \in FolioLists : Shows(selectedId, list, gallery) /\ Explicit(list)
      BY <2>3
    <3>2. viewerList' = list /\ gallery' = gallery /\ gallery \in Seq(Pieces) /\ list \in Seq(Pieces)
      BY <3>1, FolioListsTyped DEF Shows, SeqInv
    <3>3. SeqInv'
      BY <2>1, <2>3, <3>1, <3>2, ExplicitKeeps
    <3> QED BY <2>1, <3>3 DEF OpensRight
  <2> QED BY <1>3, <2>2, <2>3 DEF ListRefetched
<1> QED BY <1>1, <1>2, <1>3

\* Every step of the viewer keeps the sequence in order, and shows what it opens.
LEMMA SequenceStep == SeqInv /\ [ViewerNext]_viewerVars => SeqInv' /\ OpensRight
<1> SUFFICES ASSUME SeqInv, [ViewerNext]_viewerVars PROVE SeqInv' /\ OpensRight
  OBVIOUS
<1>0. UNCHANGED sequenceVars => SeqInv' /\ OpensRight
  BY DEF sequenceVars, SeqInv, OpensRight
<1>1. CASE OpenFromScreen
  <2>1. ASSUME NEW i \in DOMAIN gallery, route = "gallery", OpenListed(gallery[i]) PROVE SeqInv' /\ OpensRight
    <3>1. Has(gallery, gallery[i]) /\ gallery[i] \in Pieces
      BY DEF Has, SeqInv
    <3> QED BY <2>1, <3>1, ListedKeeps
  <2>2. ASSUME NEW i \in DOMAIN folioPieces, route = "folio", OpenListed(folioPieces[i]) PROVE SeqInv' /\ OpensRight
    <3>1. Has(viewerList, folioPieces[i]) /\ viewerList \in Seq(Pieces)
      BY <2>2 DEF SeqInv
    <3>2. folioPieces[i] \in Pieces
      BY <3>1, HasIsPiece
    <3> QED BY <2>2, <3>2, ListedKeeps
  <2> QED BY <1>1, <2>1, <2>2, GivenKeeps DEF OpenFromScreen
<1>2. CASE ListRefetched \/ (\E to \in {"gallery", "folio", "inbox"} : Navigate(to)) \/ ClickArtist
  BY <1>2, MovesKeep DEF ClickArtist
<1>3. CASE ClickClose
  BY <1>3, CloseKeeps DEF ClickClose
<1>4. CASE ClickArrow
  <2>1. PICK dir \in {-1, 1} : Step(dir)
    BY <1>4 DEF ClickArrow
  <2> QED BY <1>4, <2>1, StepKeeps DEF ClickArrow
<1>5. CASE ClickSimilar
  BY <1>5, GivenKeeps DEF ClickSimilar
<1>6. CASE \/ ClickInfo \/ ClickDetails \/ ClickScrim \/ TogglePicker \/ ChooseFolio \/ ClickFavorite \/ Rerendered
           \/ ClickEdit \/ ChangeDraft \/ CancelEditing \/ SaveEdit \/ SaveAnswered
           \/ ChromeIdle \/ PointerMoves \/ PointerLeaves \/ PanelFocus \/ PanelBlur
           \/ (\E on \in {"art", "sheet"} : TouchStart(on))
           \/ TouchMove \/ ArtworkClick \/ SheetTouchEnd \/ UNCHANGED viewerVars
  <2>1. UNCHANGED sequenceVars
    BY <1>6 DEF ClickInfo, ClickDetails, ClickScrim, TogglePicker, ChooseFolio, ClickFavorite, Rerendered,
                ClickEdit, ChangeDraft, CancelEditing, SaveEdit, SaveAnswered,
                ChromeIdle, PointerMoves, PointerLeaves, PanelFocus, PanelBlur, TouchStart,
                TouchMove, ArtworkClick, SheetTouchEnd, viewerVars
  <2> QED BY <1>0, <2>1
<1>7. CASE PressKey
  <2>1. CASE UNCHANGED sequenceVars
    BY <1>0, <2>1
  <2>2. CASE ~UNCHANGED sequenceVars
    <3>1. (Close \/ Step(-1) \/ Step(1)) /\ UNCHANGED <<route, folioPieces, listSource>>
      BY <1>7, <2>2 DEF PressKey
    <3> QED BY <3>1, CloseKeeps, StepKeeps
  <2> QED BY <2>1, <2>2
<1>8. CASE ArtworkTouchEnd
  <2>1. CASE UNCHANGED sequenceVars
    BY <1>0, <2>1
  <2>2. CASE ~UNCHANGED sequenceVars
    <3>1. (Close \/ Step(-1) \/ Step(1)) /\ UNCHANGED <<route, folioPieces, listSource>>
      BY <1>8, <2>2 DEF ArtworkTouchEnd
    <3> QED BY <3>1, CloseKeeps, StepKeeps
  <2> QED BY <2>1, <2>2
<1> QED
  BY <1>1, <1>2, <1>3, <1>4, <1>5, <1>6, <1>7, <1>8 DEF ViewerNext

\* At first no sequence is installed.
LEMMA SequenceStarts == ViewerInit => SeqInv
<1> SUFFICES ASSUME ViewerInit PROVE SeqInv
  OBVIOUS
<1>1. viewerList = <<>> /\ folioPieces = <<>> /\ gallery \in GalleryLists /\ route = "gallery"
  BY DEF ViewerInit
<1>2. viewerList \in Seq(Pieces)
  BY <1>1
<1> QED BY <1>1, <1>2, FolioListsTyped DEF SeqInv

\* A piece that is opened is the piece that is shown (context.tsx, openPiece with stepPiece and
\* setViewerPieces), for all galleries and folios the queries may hold.
THEOREM ViewerOpens == ViewerSpec => OpenedIsShown
<1>1. SeqInv /\ [ViewerNext]_viewerVars =>
        [selectedId' \notin {selectedId, NoPiece} => ShownIn(selectedId', viewerList', gallery') = selectedId']_viewerVars
  BY SequenceStep DEF OpensRight
<1>2. SeqInv /\ [ViewerNext]_viewerVars => SeqInv'
  BY SequenceStep
<1> QED BY SequenceStarts, <1>1, <1>2, PTL DEF ViewerSpec, OpenedIsShown

------------------------------------------------------------------------------
(* The viewer's types *)

\* Nothing open, nothing touched.
LEMMA NoFormTyped ==
  /\ NoForm \in [editing : BOOLEAN, of : Pieces \cup {NoPiece}, dirty : BOOLEAN]
  /\ NoTouch \in [on : {"none", "art", "sheet"}, suppress : BOOLEAN]
  BY DEF NoForm, NoTouch

\* The types of what the panel and the form hold, and of the rest.
PanelTyped ==
  /\ panelFlag \in BOOLEAN /\ chrome \in BOOLEAN /\ chromeTimer \in BOOLEAN
  /\ panelFocus \in BOOLEAN /\ picker \in BOOLEAN
FormTyped ==
  form \in [editing : BOOLEAN, of : Pieces \cup {NoPiece}, dirty : BOOLEAN] /\ savingEdit \in BOOLEAN
SequenceTyped ==
  /\ route \in {"gallery", "folio", "inbox"}
  /\ gallery \in GalleryLists /\ folioPieces \in FolioLists \cup {<<>>}
  /\ viewerList \in Seq(Pieces)
  /\ listSource \in {"explicit", "transient", "none"}
  /\ selectedId \in Pieces \cup {NoPiece}

\* The viewer's types, part by part.
LEMMA ViewerTyped == ViewerTypeOK <=>
  /\ SequenceTyped /\ PanelTyped /\ FormTyped /\ layout \in Layouts
  /\ touch \in [on : {"none", "art", "sheet"}, suppress : BOOLEAN]
  /\ saves \in Seq(Pieces)
  BY DEF ViewerTypeOK, SequenceTyped, PanelTyped, FormTyped

\* What is shown is a piece, or none.
LEMMA ShownTyped == ViewerTypeOK => Shown \in Pieces \cup {NoPiece}
  BY DEF ViewerTypeOK, Shown, ShownIn

\* Rendering again, and showing another piece, keep the panel's types.
LEMMA SameShownTyped == PanelTyped /\ SameShown => PanelTyped'
  BY DEF PanelTyped, SameShown, ShowChrome, panelVars

\* Showing another piece, or the same, keeps the types of the panel and of the form.
LEMMA ShowsTyped ==
  ASSUME PanelTyped, FormTyped, NEW id, NEW list, NEW pieces, Shows(id, list, pieces)
  PROVE  /\ PanelTyped' /\ FormTyped'
         /\ selectedId' = id /\ viewerList' = list /\ gallery' = pieces
<1>1. CASE ShownIn(id, list, pieces) = Shown
  BY <1>1, SameShownTyped DEF Shows, FormTyped
<1>2. CASE ShownIn(id, list, pieces) # Shown
  <2>1. FormTyped'
    BY <1>2, NoFormTyped DEF Shows, FreshPanel, FormTyped
  <2>2. PanelTyped'
    BY <1>2 DEF Shows, FreshPanel, PanelTyped
  <2> QED
    BY <2>1, <2>2 DEF Shows
<1> QED
  BY <1>1, <1>2

\* An edit that is answered leaves the others in their order.
LEMMA WithoutTyped ==
  ASSUME NEW s \in Seq(Pieces), NEW i \in DOMAIN s
  PROVE  Without(s, i) \in Seq(Pieces)
<1>1. i \in 1..Len(s) /\ Len(s) \in Nat
  OBVIOUS
<1>2. SubSeq(s, 1, i - 1) \in Seq(Pieces)
  BY <1>1
<1>3. SubSeq(s, i + 1, Len(s)) \in Seq(Pieces)
  BY <1>1
<1> QED
  BY <1>2, <1>3 DEF Without

\* Only an open form can be saved.
LEMMA SaveOffered == "save" \in Offers => form.editing /\ Shown # NoPiece
  BY DEF Offers, MobileChromeOffers, SwipeHintOffers, ScrimOffers, SheetBodyOffers, PickerOffers,
         SheetFooterOffers, DesktopBackdropOffers, DesktopActionOffers, DesktopArrowOffers,
         PanelHeadOffers, PanelRowOffers, TitleOffers, SimilarOffers, EditFormOffers

\* Stepping stays within the sequence.
LEMMA NeighbourTyped ==
  ASSUME NEW list \in Seq(Pieces), NEW p, Has(list, p), NEW dir \in {-1, 1}
  PROVE  Neighbour(p, list, dir) \in Pieces
  BY NeighbourListed, HasIsPiece

\* The steps that show another piece: what they show, and what else of the sequence they set.
LEMMA TurnTyped ==
  ASSUME ViewerTypeOK, NEW id \in Pieces \cup {NoPiece}, NEW list \in Seq(Pieces), NEW pieces \in GalleryLists,
         Shows(id, list, pieces), route' \in {"gallery", "folio", "inbox"},
         folioPieces' \in FolioLists \cup {<<>>}, listSource' \in {"explicit", "transient", "none"},
         UNCHANGED <<layout, saves>>, touch' \in [on : {"none", "art", "sheet"}, suppress : BOOLEAN]
  PROVE  ViewerTypeOK'
<1>1. PanelTyped /\ FormTyped
  BY ViewerTyped
<1>2. PanelTyped' /\ FormTyped' /\ selectedId' = id /\ viewerList' = list /\ gallery' = pieces
  BY <1>1, ShowsTyped
<1> QED
  BY <1>2 DEF ViewerTypeOK, PanelTyped, FormTyped

\* A step around the sequence shows a piece of it.
LEMMA StepTyped ==
  ASSUME ViewerTypeOK, NEW dir \in {-1, 1}, Step(dir)
  PROVE  \E id \in Pieces \cup {NoPiece} : Shows(id, viewerList, gallery)
<1>1. ActiveList(viewerList, gallery) \in Seq(Pieces)
  BY ViewerAssumption DEF ViewerTypeOK, ActiveList
<1>2. Shown # NoPiece => Has(ActiveList(viewerList, gallery), Shown)
  BY DEF Shown, ShownIn
<1>3. Shown # NoPiece => Neighbour(Shown, ActiveList(viewerList, gallery), dir) \in Pieces
  BY <1>1, <1>2, NeighbourTyped
<1>4. selectedId \in Pieces \cup {NoPiece}
  BY DEF ViewerTypeOK
<1> QED
  BY <1>3, <1>4 DEF Step

\* The types are inductive, given that an open form is of a piece.
LEMMA ViewerTypeNext == ViewerTypeOK /\ DraftBelongsToPiece /\ [ViewerNext]_viewerVars => ViewerTypeOK'
<1> SUFFICES ASSUME ViewerTypeOK, DraftBelongsToPiece, [ViewerNext]_viewerVars PROVE ViewerTypeOK'
  OBVIOUS
<1>0. /\ SequenceTyped /\ PanelTyped /\ FormTyped /\ layout \in Layouts
      /\ touch \in [on : {"none", "art", "sheet"}, suppress : BOOLEAN]
      /\ saves \in Seq(Pieces)
  BY ViewerTyped
<1>l. GalleryLists \subseteq Seq(Pieces) /\ FolioLists \subseteq Seq(Pieces) /\ <<>> \in Seq(Pieces)
  BY ViewerAssumption
<1>s. selectedId \in Pieces \cup {NoPiece} /\ viewerList \in Seq(Pieces) /\ gallery \in GalleryLists
      /\ route \in {"gallery", "folio", "inbox"} /\ folioPieces \in FolioLists \cup {<<>>}
      /\ listSource \in {"explicit", "transient", "none"}
  BY <1>0 DEF SequenceTyped
<1>g. ASSUME NEW p \in Pieces, OpenGiven(p) PROVE ViewerTypeOK'
  <2>1. ListWith(p) \in Seq(Pieces)
    BY <1>s DEF ListWith
  <2>2. listSource' \in {"explicit", "transient", "none"}
    BY <1>s, <1>g DEF OpenGiven
  <2>3. Shows(p, ListWith(p), gallery) /\ UNCHANGED <<route, folioPieces, layout, touch, saves>>
    BY <1>g DEF OpenGiven
  <2> QED
    BY <1>0, <1>s, <2>1, <2>2, <2>3, TurnTyped
<1>o. ASSUME NEW p \in Pieces, OpenListed(p) PROVE ViewerTypeOK'
  <2>1. PICK list \in Seq(Pieces) : Shows(p, list, gallery)
    BY <1>s, <1>l, <1>o DEF OpenListed
  <2>2. listSource' \in {"explicit", "transient", "none"} /\ UNCHANGED <<route, folioPieces, layout, touch, saves>>
    BY <1>s, <1>o DEF OpenListed
  <2> QED
    BY <1>0, <1>s, <2>1, <2>2, TurnTyped
<1>1. CASE OpenFromScreen
  <2>1. \A i \in DOMAIN gallery : gallery[i] \in Pieces
    BY <1>s, <1>l
  <2>2. \A i \in DOMAIN folioPieces : folioPieces[i] \in Pieces
    BY <1>s, <1>l
  <2> QED
    BY <1>1, <1>g, <1>o, <2>1, <2>2 DEF OpenFromScreen
<1>2. CASE ListRefetched
  <2>0. UNCHANGED <<route, layout, touch, saves>>
    BY <1>2 DEF ListRefetched
  <2>1. ASSUME NEW pieces \in GalleryLists, Shows(selectedId, viewerList, pieces), 
               UNCHANGED <<folioPieces, listSource>>
        PROVE  ViewerTypeOK'
    BY <1>0, <1>s, <2>0, <2>1, TurnTyped
  <2>2. ASSUME NEW list \in FolioLists, Shows(selectedId, list, gallery), Explicit(list)
        PROVE  ViewerTypeOK'
    <3>1. folioPieces' \in FolioLists \cup {<<>>}
          /\ listSource' \in {"explicit", "transient", "none"} /\ list \in Seq(Pieces)
      BY <1>l, <2>2 DEF Explicit
    <3> QED
      BY <1>0, <1>s, <2>0, <2>2, <3>1, TurnTyped
  <2> QED
    BY <1>2, <2>1, <2>2 DEF ListRefetched
<1>e. ASSUME NEW list \in Seq(Pieces), list \in FolioLists \cup {<<>>, viewerList},
             NEW pieces \in GalleryLists, NEW x \in BOOLEAN, x => list \in FolioLists \cup {<<>>},
             Shows(NoPiece, list, pieces), IF x THEN Explicit(list) ELSE UNCHANGED <<folioPieces, listSource>>,
             route' \in {"gallery", "folio", "inbox"}, UNCHANGED <<layout, touch, saves>>
      PROVE  ViewerTypeOK'
  <2>1. folioPieces' \in FolioLists \cup {<<>>} /\ listSource' \in {"explicit", "transient", "none"}
    BY <1>s, <1>e DEF Explicit
  <2> QED
    BY <1>0, <1>e, <2>1, TurnTyped
<1>3. ASSUME NEW to \in {"gallery", "folio", "inbox"}, Navigate(to) PROVE ViewerTypeOK'
  <2>1. PICK list \in (IF to = "folio" THEN FolioLists ELSE {IF route = "folio" THEN <<>> ELSE viewerList}) :
           /\ Shows(NoPiece, list, gallery)
           /\ IF to = "folio" \/ route = "folio" THEN Explicit(list) ELSE UNCHANGED <<folioPieces, listSource>>
    BY <1>3, Zenon DEF Navigate
  <2>2. PICK x \in BOOLEAN : x <=> to = "folio" \/ route = "folio"
    OBVIOUS
  <2>3. list \in Seq(Pieces) /\ list \in FolioLists \cup {<<>>, viewerList} /\ (x => list \in FolioLists \cup {<<>>})
    BY <1>l, <1>s, <2>1, <2>2
  <2>4. route' \in {"gallery", "folio", "inbox"} /\ UNCHANGED <<layout, touch, saves>>
    BY <1>3 DEF Navigate
  <2> QED
    BY <1>e, <1>s, <2>1, <2>2, <2>3, <2>4
<1>a. CASE FilterByArtist
  <2>1. PICK pieces \in GalleryLists :
           LET list == IF route = "folio" THEN <<>> ELSE viewerList
           IN /\ Shows(NoPiece, list, pieces)
              /\ IF route = "folio" THEN Explicit(list) ELSE UNCHANGED <<folioPieces, listSource>>
    BY <1>a, Zenon DEF FilterByArtist
  <2>2. PICK x \in BOOLEAN : x <=> route = "folio"
    OBVIOUS
  <2>3. PICK list \in Seq(Pieces) : list = IF route = "folio" THEN <<>> ELSE viewerList
    BY <1>l, <1>s
  <2>4. route' \in {"gallery", "folio", "inbox"} /\ UNCHANGED <<layout, touch, saves>>
    BY <1>a DEF FilterByArtist
  <2>5. list \in FolioLists \cup {<<>>, viewerList} /\ (x => list \in FolioLists \cup {<<>>})
    BY <2>2, <2>3
  <2>6. Shows(NoPiece, list, pieces) /\ IF x THEN Explicit(list) ELSE UNCHANGED <<folioPieces, listSource>>
    BY <2>1, <2>2, <2>3
  <2> QED
    BY <1>e, <2>4, <2>5, <2>6
<1>t. ASSUME UNCHANGED <<route, folioPieces, listSource, layout, saves>>,
             touch' \in [on : {"none", "art", "sheet"}, suppress : BOOLEAN],
             Close \/ Step(-1) \/ Step(1)
      PROVE  ViewerTypeOK'
  <2>1. PICK id \in Pieces \cup {NoPiece} : Shows(id, viewerList, gallery)
    <3>1. Close => Shows(NoPiece, viewerList, gallery)
      BY DEF Close
    <3> QED
      BY <1>t, <3>1, StepTyped
  <2> QED
    BY <1>0, <1>s, <1>t, <2>1, TurnTyped
<1>4. CASE ClickClose \/ ClickArrow
  BY <1>0, <1>4, <1>t DEF ClickClose, ClickArrow
<1>5. CASE ClickArtist
  BY <1>5, <1>a DEF ClickArtist
<1>6. CASE ClickSimilar
  BY <1>6, <1>g DEF ClickSimilar
\* The panel and the chrome: the sequence and the form stay.
<1>p. ASSUME UNCHANGED <<sequenceVars, layout, saves>>, PanelTyped', FormTyped',
             touch' \in [on : {"none", "art", "sheet"}, suppress : BOOLEAN]
      PROVE  ViewerTypeOK'
  <2>1. SequenceTyped' /\ layout' \in Layouts /\ saves' \in Seq(Pieces)
    BY <1>0, <1>p DEF SequenceTyped, sequenceVars
  <2> QED
    BY <1>p, <2>1 DEF SequenceTyped, PanelTyped, FormTyped, ViewerTypeOK
<1>i. ASSUME NEW open \in BOOLEAN, SetPanelOpen(open) PROVE panelFlag' \in BOOLEAN /\ picker' \in BOOLEAN
  BY <1>0, <1>i DEF SetPanelOpen, PanelTyped
<1>h. PanelOpen \in BOOLEAN
  BY <1>0 DEF PanelOpen, PinnedDesktop, PanelTyped
<1>7. CASE ClickInfo
  <2>1. PICK open \in BOOLEAN : open <=> ~PanelOpen
    BY <1>h
  <2>2. panelFlag' \in BOOLEAN /\ picker' \in BOOLEAN
    BY <1>7, <1>0 DEF ClickInfo, SetPanelOpen, PanelTyped
  <2>3. PanelTyped'
    BY <1>7, <1>0, <2>2 DEF ClickInfo, Touched, ShowChrome, PanelTyped
  <2> QED
    BY <1>7, <1>0, <2>3, <1>p DEF ClickInfo, editVars, FormTyped
<1>8. CASE ClickDetails \/ ClickScrim
  <2>2. panelFlag' \in BOOLEAN /\ picker' \in BOOLEAN
    BY <1>8, <1>i DEF ClickDetails, ClickScrim
  <2>3. PanelTyped'
    BY <1>8, <1>0, <2>2 DEF ClickDetails, ClickScrim, ShowChrome, PanelTyped
  <2> QED
    BY <1>8, <1>0, <2>3, <1>p DEF ClickDetails, ClickScrim, editVars, FormTyped
<1>9. CASE TogglePicker \/ ChooseFolio
  <2>1. picker' \in BOOLEAN
    BY <1>9, <1>0 DEF TogglePicker, ChooseFolio, PanelTyped
  <2> QED
    BY <1>9, <1>0, <1>p, <2>1 DEF TogglePicker, ChooseFolio, editVars, FormTyped, PanelTyped
<1>10. CASE ClickFavorite \/ Rerendered
  <2>1. PanelTyped'
    BY <1>10, <1>0, SameShownTyped DEF ClickFavorite, Rerendered
  <2> QED
    BY <1>10, <1>0, <1>p, <2>1 DEF ClickFavorite, Rerendered, editVars, FormTyped
<1>11. CASE ClickEdit
  <2>1. panelFlag' \in BOOLEAN /\ picker' \in BOOLEAN
    BY <1>11, <1>i DEF ClickEdit
  <2>2. PanelTyped'
    BY <1>11, <1>0, <2>1 DEF ClickEdit, Touched, ShowChrome, PanelTyped
  <2>3. FormTyped'
    BY <1>11, <1>0, ShownTyped DEF ClickEdit, StartEditing, FormTyped
  <2> QED
    BY <1>11, <1>0, <1>p, <2>2, <2>3 DEF ClickEdit
<1>12. CASE ChangeDraft \/ CancelEditing
  <2>1. FormTyped'
    BY <1>12, <1>0, NoFormTyped DEF ChangeDraft, CancelEditing, FormTyped
  <2>2. PanelTyped'
    BY <1>12, <1>0 DEF ChangeDraft, CancelEditing, PanelTyped, panelVars
  <2> QED
    BY <1>12, <1>0, <1>p, <2>1, <2>2 DEF ChangeDraft, CancelEditing
<1>f. ASSUME UNCHANGED <<sequenceVars, layout, touch>>, PanelTyped', FormTyped', saves' \in Seq(Pieces)
      PROVE  ViewerTypeOK'
  <2>1. SequenceTyped'
    BY <1>0, <1>f DEF SequenceTyped, sequenceVars
  <2> QED
    BY <1>0, <1>f, <2>1 DEF SequenceTyped, PanelTyped, FormTyped, ViewerTypeOK
<1>13. CASE SaveEdit
  <2>1. PanelTyped'
    BY <1>13, <1>0, SameShownTyped DEF SaveEdit, PanelTyped, panelVars
  <2>2. FormTyped'
    BY <1>13, <1>0, NoFormTyped DEF SaveEdit, FormTyped
  <2>3. form.of \in Pieces
    BY <1>13, ShownTyped, SaveOffered DEF SaveEdit, DraftBelongsToPiece
  <2>4. saves' \in Seq(Pieces)
    BY <1>13, <1>0, <2>3 DEF SaveEdit
  <2> QED
    BY <1>13, <1>f, <2>1, <2>2, <2>4 DEF SaveEdit
<1>14. CASE SaveAnswered
  <2>1. PanelTyped'
    BY <1>14, <1>0, SameShownTyped DEF SaveAnswered
  <2>2. FormTyped'
    BY <1>14, <1>0, NoFormTyped DEF SaveAnswered, FormTyped
  <2>3. saves' \in Seq(Pieces)
    BY <1>14, <1>0, WithoutTyped DEF SaveAnswered
  <2> QED
    BY <1>14, <1>f, <2>1, <2>2, <2>3 DEF SaveAnswered
<1>15. CASE PressKey
  <2>1. CASE form.editing
    <3>1. FormTyped' /\ PanelTyped'
      BY <1>15, <1>0, <2>1, NoFormTyped DEF PressKey, FormTyped, PanelTyped, panelVars
    <3> QED
      BY <1>15, <1>0, <1>f, <2>1, <3>1 DEF PressKey
  <2>2. CASE ~form.editing
    BY <1>15, <1>0, <1>t, <2>2 DEF PressKey
  <2> QED
    BY <2>1, <2>2
<1>16. CASE ChromeIdle \/ PointerMoves \/ PointerLeaves \/ PanelFocus \/ PanelBlur
  <2>1. PanelTyped'
    BY <1>16, <1>0 DEF ChromeIdle, PointerMoves, PointerLeaves, PanelFocus, PanelBlur, ShowChrome, PanelTyped
  <2> QED
    BY <1>16, <1>0, <1>p, <2>1
    DEF ChromeIdle, PointerMoves, PointerLeaves, PanelFocus, PanelBlur, editVars, FormTyped
<1>17. ASSUME NEW on \in {"art", "sheet"}, TouchStart(on) PROVE ViewerTypeOK'
  <2>1. PanelTyped'
    BY <1>17, <1>0 DEF TouchStart, ShowChrome, PanelTyped
  <2>2. touch' \in [on : {"none", "art", "sheet"}, suppress : BOOLEAN]
    <3>1. PICK b \in BOOLEAN : b <=> touch.suppress /\ on # "art"
      OBVIOUS
    <3>2. touch' = [on |-> on, suppress |-> b]
      BY <1>17, <3>1 DEF TouchStart
    <3> QED
      BY <3>2
  <2> QED
    BY <1>17, <1>0, <1>p, <2>1, <2>2 DEF TouchStart, editVars, FormTyped
<1>18. CASE TouchMove
  <2>1. PanelTyped' /\ touch' \in [on : {"none", "art", "sheet"}, suppress : BOOLEAN]
    BY <1>18, <1>0 DEF TouchMove, panelVars, PanelTyped
  <2> QED
    BY <1>18, <1>0, <1>p, <2>1 DEF TouchMove, editVars, FormTyped
<1>19. CASE ArtworkTouchEnd
  <2>1. touch' \in [on : {"none", "art", "sheet"}, suppress : BOOLEAN]
    BY <1>19, <1>0 DEF ArtworkTouchEnd
  <2>2. UNCHANGED <<layout, saves>>
    BY <1>19 DEF ArtworkTouchEnd
  <2>3. CASE (Step(-1) \/ Step(1) \/ Close) /\ UNCHANGED <<route, folioPieces, listSource>>
    BY <1>t, <2>1, <2>2, <2>3
  <2>4. CASE SetPanelOpen(TRUE) /\ ShowChrome /\ UNCHANGED <<sequenceVars, panelFocus, form, savingEdit>>
    <3>1. PanelTyped' /\ FormTyped'
      BY <1>0, <1>i, <2>4 DEF ShowChrome, PanelTyped, FormTyped
    <3> QED
      BY <1>p, <2>1, <2>2, <2>4, <3>1
  <2>5. CASE UNCHANGED <<sequenceVars, panelVars, form, savingEdit>>
    <3>1. PanelTyped' /\ FormTyped'
      BY <1>0, <2>5 DEF panelVars, PanelTyped, FormTyped
    <3> QED
      BY <1>p, <2>1, <2>2, <2>5, <3>1
  <2> QED
    BY <1>19, <2>3, <2>4, <2>5 DEF ArtworkTouchEnd
<1>20. CASE ArtworkClick
  <2>1. chrome' \in BOOLEAN /\ chromeTimer' \in BOOLEAN
    BY <1>20, <1>0 DEF ArtworkClick, ShowChrome, PanelTyped
  <2>2. PanelTyped' /\ touch' \in [on : {"none", "art", "sheet"}, suppress : BOOLEAN]
    BY <1>20, <1>0, <2>1 DEF ArtworkClick, PanelTyped
  <2> QED
    BY <1>20, <1>0, <1>p, <2>2 DEF ArtworkClick, editVars, FormTyped
<1>21. CASE SheetTouchEnd
  <2>1. panelFlag' \in BOOLEAN /\ picker' \in BOOLEAN
    BY <1>21, <1>0, <1>i DEF SheetTouchEnd, panelVars, PanelTyped
  <2>2. PanelTyped' /\ touch' \in [on : {"none", "art", "sheet"}, suppress : BOOLEAN]
    BY <1>21, <1>0, <2>1 DEF SheetTouchEnd, panelVars, PanelTyped
  <2> QED
    BY <1>21, <1>0, <1>p, <2>2 DEF SheetTouchEnd, editVars, FormTyped
<1>22. CASE UNCHANGED viewerVars
  BY <1>22 DEF viewerVars, sequenceVars, panelVars, editVars, ViewerTypeOK
<1> QED
  BY <1>1, <1>2, <1>3, <1>4, <1>5, <1>6, <1>7, <1>8, <1>9, <1>10, <1>11, <1>12, <1>13, <1>14, <1>15,
     <1>16, <1>17, <1>18, <1>19, <1>20, <1>21, <1>22 DEF ViewerNext

\* ... and hold at first.
LEMMA ViewerTypeStarts == ViewerInit => ViewerTypeOK
<1> SUFFICES ASSUME ViewerInit PROVE ViewerTypeOK
  OBVIOUS
<1>1. panelFlag \in BOOLEAN
  BY DEF ViewerInit
<1>2. SequenceTyped /\ PanelTyped
  <2>1. SequenceTyped
    BY DEF ViewerInit, SequenceTyped
  <2>2. chrome = TRUE /\ chromeTimer = FALSE /\ panelFocus = FALSE /\ picker = FALSE
    BY DEF ViewerInit
  <2> QED
    BY <1>1, <2>1, <2>2 DEF PanelTyped
<1>3. FormTyped
  BY NoFormTyped DEF ViewerInit, FormTyped
<1>4. layout \in Layouts /\ saves \in Seq(Pieces)
  BY DEF ViewerInit
<1>5. touch \in [on : {"none", "art", "sheet"}, suppress : BOOLEAN]
  BY NoFormTyped DEF ViewerInit
<1> QED
  BY <1>2, <1>3, <1>4, <1>5, ViewerTyped

------------------------------------------------------------------------------
(* Hearts *)

\* What a piece that did not go astray keeps: the request says what the override and the
\* server hold, and a piece that was never clicked is as the catalog has it.
HeartInv(p) ==
  /\ favRequest[p].at = "none" => IsFav(p) = favStored[p]
  /\ favRequest[p].at \in {"sent", "failed"} =>
       favOverride[p] = AsOverride(favRequest[p].next) /\ favStored[p] = ~favRequest[p].next
  /\ favRequest[p].at = "served" =>
       favOverride[p] = AsOverride(favRequest[p].next) /\ favStored[p] = favRequest[p].next
  /\ favOverride[p] = "none" =>
       /\ favCached[p] = favStored[p]
       /\ favFetch.at = "read" => favFetch.saw[p] = favStored[p]

HeartsInv == FavoritesTypeOK /\ \A p \in FavPieces \ astray : HeartInv(p)

\* The type invariant of the hearts is inductive.
LEMMA HeartsTypeNext == FavoritesTypeOK /\ [FavoritesNext]_favVars => FavoritesTypeOK'
<1> SUFFICES ASSUME FavoritesTypeOK, [FavoritesNext]_favVars PROVE FavoritesTypeOK'
  OBVIOUS
<1> USE FavoritesAssumption DEF FavoritesTypeOK, Override
<1>1. ASSUME NEW p \in FavPieces, ToggleFav(p) PROVE FavoritesTypeOK'
  <2>1. IsFav(p) \in BOOLEAN
    BY DEF IsFav
  <2>2. clicks' \in 0..MaxClicks
    BY <1>1 DEF ToggleFav
  <2>3. favOverride' \in [FavPieces -> Override]
    BY <1>1 DEF ToggleFav, AsOverride
  <2>4. /\ favRequest' \in [FavPieces -> [at : {"none", "sent", "served", "failed"}, next : BOOLEAN]]
        /\ astray' \subseteq FavPieces
    <3>1. PICK b \in BOOLEAN : b = ~IsFav(p)
      BY <2>1
    <3>2. \/ favRequest' = [favRequest EXCEPT ![p] = [at |-> "sent", next |-> b]] /\ astray' = astray
          \/ favRequest' = favRequest /\ astray' = astray \cup {p}
      BY <1>1, <3>1, Zenon DEF ToggleFav
    <3> QED
      BY <3>2
  <2> QED
    BY <1>1, <2>2, <2>3, <2>4 DEF ToggleFav
<1>2. ASSUME NEW p \in FavPieces, FavoriteServed(p) PROVE FavoritesTypeOK'
  BY <1>2 DEF FavoriteServed
<1>3. ASSUME NEW p \in FavPieces, FavoriteAnswered(p) PROVE FavoritesTypeOK'
  BY <1>3 DEF FavoriteAnswered, HeartAfterFailure, AsOverride, InvalidateCatalog, NotRead
<1>4. ASSUME NEW p \in FavPieces, DetailClick(p) PROVE FavoritesTypeOK'
  <2>1. clicks' \in 0..MaxClicks
    BY <1>4 DEF DetailClick
  <2>2. detail' \in [FavPieces -> [copy : BOOLEAN, pending : BOOLEAN]]
    BY <1>4 DEF DetailClick
  <2> QED
    BY <1>4, <2>1, <2>2 DEF DetailClick
<1>5. ASSUME NEW p \in FavPieces, DetailAnswered(p) PROVE FavoritesTypeOK'
  <2>1. favStored' \in [FavPieces -> BOOLEAN]
    BY <1>5 DEF DetailAnswered
  <2>2. detail' \in [FavPieces -> [copy : BOOLEAN, pending : BOOLEAN]]
    <3>1. PICK b \in BOOLEAN : b = ~detail[p].copy
      OBVIOUS
    <3>2. \/ detail' = [detail EXCEPT ![p] = [copy |-> b, pending |-> FALSE]]
          \/ detail' = [detail EXCEPT ![p].pending = FALSE]
      BY <1>5, <3>1 DEF DetailAnswered
    <3>3. CASE detail' = [detail EXCEPT ![p] = [copy |-> b, pending |-> FALSE]]
      BY <3>3
    <3>4. CASE detail' = [detail EXCEPT ![p].pending = FALSE]
      BY <3>4
    <3> QED
      BY <3>2, <3>3, <3>4
  <2> QED
    BY <1>5, <2>1, <2>2 DEF DetailAnswered
<1>6. ASSUME NEW p \in FavPieces, DetailOpens(p) PROVE FavoritesTypeOK'
  BY <1>6 DEF DetailOpens
<1>7. CASE CatalogRead
  BY <1>7 DEF CatalogRead
<1>8. CASE CatalogShown
  BY <1>8 DEF CatalogShown, NotRead
<1>9. CASE UNCHANGED favVars
  BY <1>9 DEF favVars
<1> QED
  BY <1>1, <1>2, <1>3, <1>4, <1>5, <1>6, <1>7, <1>8, <1>9 DEF FavoritesNext

\* At first no heart is overridden and every request is to come.
LEMMA HeartsInit == FavoritesInit => HeartsInv
<1> SUFFICES ASSUME FavoritesInit PROVE HeartsInv
  OBVIOUS
<1>1. FavoritesTypeOK
  BY FavoritesAssumption DEF FavoritesInit, FavoritesTypeOK, NotRead, Override
<1>2. ASSUME NEW p \in FavPieces PROVE HeartInv(p)
  BY <1>2 DEF FavoritesInit, HeartInv, IsFav, NotRead
<1> QED
  BY <1>1, <1>2 DEF HeartsInv

\* A step on any piece keeps what HeartInv says of a piece that is not astray.
LEMMA HeartsStep == HeartsInv /\ [FavoritesNext]_favVars => HeartsInv'
<1> SUFFICES ASSUME HeartsInv, [FavoritesNext]_favVars,
                    NEW q \in FavPieces, q \notin astray'
             PROVE  HeartInv(q)'
  BY HeartsTypeNext DEF HeartsInv
<1>0. FavoritesTypeOK /\ FavoritesTypeOK'
  BY HeartsTypeNext DEF HeartsInv
<1> USE DEF FavoritesTypeOK, Override
<1>a. q \notin astray => HeartInv(q)
  BY DEF HeartsInv
<1>1. ASSUME NEW p \in FavPieces, ToggleFav(p) PROVE HeartInv(q)'
  BY <1>0, <1>1, <1>a DEF ToggleFav, HeartInv, IsFav, AsOverride
<1>2. ASSUME NEW p \in FavPieces, FavoriteServed(p) PROVE HeartInv(q)'
  BY <1>0, <1>2, <1>a DEF FavoriteServed, HeartInv, IsFav, AsOverride
<1>3. ASSUME NEW p \in FavPieces, FavoriteAnswered(p) PROVE HeartInv(q)'
  BY <1>0, <1>3, <1>a DEF FavoriteAnswered, HeartAfterFailure, InvalidateCatalog, NotRead,
                          HeartInv, IsFav, AsOverride
<1>4. ASSUME NEW p \in FavPieces, DetailClick(p) PROVE HeartInv(q)'
  BY <1>0, <1>4, <1>a DEF DetailClick, HeartInv, IsFav
<1>5. ASSUME NEW p \in FavPieces, DetailAnswered(p) PROVE HeartInv(q)'
  BY <1>0, <1>5, <1>a DEF DetailAnswered, HeartInv, IsFav
<1>6. ASSUME NEW p \in FavPieces, DetailOpens(p) PROVE HeartInv(q)'
  BY <1>0, <1>6, <1>a DEF DetailOpens, HeartInv, IsFav
<1>7. CASE CatalogRead
  BY <1>0, <1>7, <1>a DEF CatalogRead, HeartInv, IsFav
<1>8. CASE CatalogShown
  BY <1>0, <1>8, <1>a DEF CatalogShown, NotRead, HeartInv, IsFav
<1>9. CASE UNCHANGED favVars
  BY <1>0, <1>9, <1>a DEF favVars, HeartInv, IsFav
<1> QED
  BY <1>1, <1>2, <1>3, <1>4, <1>5, <1>6, <1>7, <1>8, <1>9 DEF FavoritesNext

\* A heart clicked one request at a time shows what the server holds once the answer is in
\* (context.tsx, toggleFav and its rollback),
\* for any number of pieces and clicks.
THEOREM HeartsSettle == FavoritesSpec => []SettledHeartIsStored
<1>1. HeartsInv => SettledHeartIsStored
  BY DEF HeartsInv, HeartInv, SettledHeartIsStored
<1> QED
  BY HeartsInit, HeartsStep, <1>1, PTL DEF FavoritesSpec

------------------------------------------------------------------------------
(* Metadata edits *)

\* Nothing about the piece is on its way.
Quiet(p) == \A e \in Edits : ~Touches(e, {p})

\* An edit that stayed alone shares no piece with another edit in flight, and a piece that
\* is not clouded is touched by one edit at most.
AloneInv ==
  \A d, e \in Edits : d # e /\ InFlight(d) /\ InFlight(e) =>
    /\ edit[e].alone => edit[d].pieces \cap edit[e].pieces = {}
    /\ edit[d].pieces \cap edit[e].pieces \subseteq clouded

\* What was written is what the server holds, as long as nobody else could write it.
WrittenInv ==
  \A e \in Edits : edit[e].at = "written" =>
    \A p \in edit[e].pieces : edit[e].alone \/ p \notin clouded => stored[p] = e

\* What a rollback restores is true.
PreviousInv ==
  \A e \in Edits : edit[e].at \in {"sent", "refused"} =>
    \A p \in edit[e].pieces \ clouded : edit[e].previous[p] \in {NoOverride, stored[p]}

\* Between edits an override is true; without one, the pages are, or will be read again.
QuietInv ==
  \A p \in EditPieces \ clouded : Quiet(p) =>
    /\ override[p] \in {NoOverride, stored[p]}
    /\ override[p] = NoOverride =>
         /\ refetch.at = "idle" => cached[p] = stored[p]
         /\ refetch.at = "read" => refetch.saw[p] = stored[p]

\* The inductive invariant of the edits.
EditsInv == EditsTypeOK /\ AloneInv /\ WrittenInv /\ PreviousInv /\ QuietInv

\* No edit, no selection and no answer are of their types.
LEMMA NoEditTyped ==
  /\ NoEdit("none") \in EditState /\ NoEdit("done") \in EditState
  /\ NoBulk \in [mode : BOOLEAN, ids : SUBSET EditPieces, waits : 0..MaxEdits]
  /\ \A at \in {"idle", "asked"} :
       PagesUnread(at) \in [at : {"idle", "asked", "read"}, saw : [EditPieces -> Values]]
BY PieceEditsAssumption DEF NoEdit, NoBulk, EditState, PagesUnread, Values, NoOverride

\* An edit goes on: only how far it is changes.
LEMMA EditTyped ==
  ASSUME NEW r \in EditState
  PROVE  /\ [r EXCEPT !.alone = FALSE] \in EditState
         /\ \A at \in {"written", "lost", "refused"} : [r EXCEPT !.at = at] \in EditState
BY DEF EditState

\* The type invariant of the edits is inductive.
LEMMA EditsTypeNext == EditsTypeOK /\ [EditsNext]_editsVars => EditsTypeOK'
<1> SUFFICES ASSUME EditsTypeOK, [EditsNext]_editsVars PROVE EditsTypeOK'
  OBVIOUS
<1> USE PieceEditsAssumption DEF EditsTypeOK
<1>0. \A e \in Edits : e \in Values /\ e \in 0..MaxEdits
  BY DEF Edits, Values
<1>1. ASSUME NEW e \in Edits, NEW ps \in SUBSET EditPieces, NEW many \in BOOLEAN,
             BeginEdit(e, ps, many)
      PROVE  /\ edit' \in [Edits -> EditState]
             /\ override' \in [EditPieces -> Values \cup {NoOverride}]
             /\ clouded' \subseteq EditPieces
             /\ UNCHANGED <<stored, cached, refetch, refetches>>
  <2> DEFINE others == {d \in Edits : Touches(d, ps)}
  <2>1. [at |-> "sent", pieces |-> ps, previous |-> override, many |-> many,
         alone |-> others = {}] \in EditState
    BY DEF EditState
  <2>2. \A d \in Edits : [edit[d] EXCEPT !.alone = FALSE] \in EditState
    BY EditTyped
  <2>3. edit' \in [Edits -> EditState]
    BY <1>1, <2>1, <2>2 DEF BeginEdit
  <2>4. override' \in [EditPieces -> Values \cup {NoOverride}]
    BY <1>0, <1>1 DEF BeginEdit
  <2>5. clouded' \subseteq EditPieces
    BY <1>1 DEF BeginEdit
  <2> QED BY <1>1, <2>3, <2>4, <2>5 DEF BeginEdit
<1>2. ASSUME NEW e \in Edits, EditOne(e) PROVE EditsTypeOK'
  <2>1. PICK p \in EditPieces : BeginEdit(e, {p}, FALSE) /\ UNCHANGED bulk
    BY <1>2 DEF EditOne
  <2> QED BY <1>1, <2>1
<1>3. ASSUME NEW e \in Edits, EditMany(e) PROVE EditsTypeOK'
  <2>1. bulk' \in [mode : BOOLEAN, ids : SUBSET EditPieces, waits : 0..MaxEdits]
    BY <1>0, <1>3 DEF EditMany
  <2> QED BY <1>1, <1>3, <2>1 DEF EditMany
<1>4. ASSUME NEW e \in Edits, ServerHandles(e) PROVE EditsTypeOK'
  <2>1. \A at \in {"written", "lost", "refused"} : [edit[e] EXCEPT !.at = at] \in EditState
    BY EditTyped
  <2>2. edit' \in [Edits -> EditState]
    BY <1>4, <2>1 DEF ServerHandles
  <2>3. stored' \in [EditPieces -> Values]
    BY <1>0, <1>4 DEF ServerHandles
  <2> QED BY <1>4, <2>2, <2>3 DEF ServerHandles
<1>5. ASSUME NEW e \in Edits, EditSucceeds(e) PROVE EditsTypeOK'
  BY <1>0, <1>5, NoEditTyped DEF EditSucceeds, WriteToCaches, Invalidate
<1>6. ASSUME NEW e \in Edits, EditFails(e) PROVE EditsTypeOK'
  <2>1. bulk' \in [mode : BOOLEAN, ids : SUBSET EditPieces, waits : 0..MaxEdits]
    BY <1>6 DEF EditFails
  <2>2. override' \in [EditPieces -> Values \cup {NoOverride}]
    BY <1>6 DEF EditFails, RolledBack, EditState
  <2>3. clouded' \subseteq EditPieces
    BY <1>6 DEF EditFails, EditState
  <2> QED BY <1>6, <2>1, <2>2, <2>3, NoEditTyped DEF EditFails, Invalidate
<1>7. CASE ToggleSelect
  BY <1>7, NoEditTyped DEF ToggleSelect, NoBulk
<1>8. ASSUME NEW p \in EditPieces, SelectPiece(p) PROVE EditsTypeOK'
  BY <1>8 DEF SelectPiece
<1>9. CASE Refocus
  BY <1>9, NoEditTyped DEF Refocus, Invalidate
<1>10. CASE CatalogReads
  BY <1>10 DEF CatalogReads
<1>11. CASE CatalogAnswers
  BY <1>11, NoEditTyped DEF CatalogAnswers
<1>12. CASE UNCHANGED editsVars
  BY <1>12 DEF editsVars
<1> QED
  BY <1>2, <1>3, <1>4, <1>5, <1>6, <1>7, <1>8, <1>9, <1>10, <1>11, <1>12 DEF EditsNext

\* At first every piece is as the catalog has it.
LEMMA EditsStart == EditsInit => EditsInv
<1> SUFFICES ASSUME EditsInit PROVE EditsInv
  OBVIOUS
<1>1. EditsTypeOK
  BY NoEditTyped, PieceEditsAssumption DEF EditsInit, EditsTypeOK, Values, NoOverride
<1>2. \A e \in Edits : edit[e].at = "none"
  BY DEF EditsInit, NoEdit
<1>3. QuietInv
  BY DEF EditsInit, QuietInv, PagesUnread
<1> QED BY <1>1, <1>2, <1>3 DEF EditsInv, AloneInv, WrittenInv, PreviousInv, InFlight

\* A new edit: what was there, and what it finds.
LEMMA BeginKeeps ==
  ASSUME EditsInv, NEW e \in Edits, NEW ps \in SUBSET EditPieces, NEW many \in BOOLEAN,
         BeginEdit(e, ps, many)
  PROVE  AloneInv' /\ WrittenInv' /\ PreviousInv' /\ QuietInv'
<1> USE DEF EditsInv, EditsTypeOK
<1> DEFINE others == {d \in Edits : Touches(d, ps)}
<1>1. /\ ~InFlight(e)
      /\ edit'[e] = [at |-> "sent", pieces |-> ps, previous |-> override, many |-> many,
                     alone |-> others = {}]
      /\ edit'[e].at = "sent" /\ edit'[e].pieces = ps /\ edit'[e].previous = override
      /\ edit'[e].alone => others = {}
  BY DEF BeginEdit, InFlight
<1>2. ASSUME NEW d \in Edits \ {e}
      PROVE  /\ edit'[d].at = edit[d].at /\ edit'[d].pieces = edit[d].pieces
             /\ edit'[d].previous = edit[d].previous
             /\ edit'[d].alone => edit[d].alone /\ d \notin others
  <2>1. edit[d] \in EditState
    OBVIOUS
  <2>2. edit'[d] = IF d \in others THEN [edit[d] EXCEPT !.alone = FALSE] ELSE edit[d]
    BY DEF BeginEdit
  <2> QED BY <2>1, <2>2 DEF EditState
<1>3. \A d \in others : d # e /\ ps \cap edit[d].pieces \subseteq clouded'
  BY <1>1 DEF BeginEdit, Touches
<1>4. clouded \subseteq clouded' /\ UNCHANGED <<stored, cached, refetch>>
  BY DEF BeginEdit
<1>5. \A d \in Edits \ {e} : InFlight(d) /\ d \notin others => edit[d].pieces \cap ps = {}
  BY DEF Touches
<1>6. \A d \in Edits : InFlight(d)' => d = e \/ InFlight(d)
  BY <1>2 DEF InFlight
<1> HIDE DEF others
<1>7. AloneInv'
  <2>1. ASSUME NEW c \in Edits, NEW d \in Edits, c # d, InFlight(c)', InFlight(d)'
        PROVE  /\ edit'[d].alone => edit'[c].pieces \cap edit'[d].pieces = {}
               /\ edit'[c].pieces \cap edit'[d].pieces \subseteq clouded'
    <3>1. CASE c # e /\ d # e
      BY <1>2, <1>4, <1>6, <2>1, <3>1 DEF AloneInv
    <3>2. CASE d = e
      <4>1. InFlight(c) /\ edit'[c].pieces = edit[c].pieces /\ edit'[d].pieces = ps
        BY <1>1, <1>2, <1>6, <2>1, <3>2
      <4>2. edit'[d].alone => c \notin others
        BY <1>1, <3>2
      <4> QED BY <1>3, <1>5, <2>1, <3>2, <4>1, <4>2
    <3>3. CASE c = e
      <4>1. InFlight(d) /\ edit'[d].pieces = edit[d].pieces /\ edit'[c].pieces = ps
        BY <1>1, <1>2, <1>6, <2>1, <3>3
      <4>2. edit'[d].alone => d \notin others
        BY <1>2, <2>1, <3>3
      <4> QED BY <1>3, <1>5, <2>1, <3>3, <4>1, <4>2
    <3> QED BY <3>1, <3>2, <3>3
  <2> QED BY <2>1 DEF AloneInv
<1>8. WrittenInv'
  BY <1>1, <1>2, <1>4 DEF WrittenInv
<1>9. PreviousInv'
  <2>1. ASSUME NEW p \in ps \ clouded' PROVE override[p] \in {NoOverride, stored[p]}
    <3>1. Quiet(p)
      BY <1>1, <1>3, <1>5, <2>1 DEF Quiet, Touches
    <3> QED BY <1>4, <2>1, <3>1 DEF QuietInv
  <2> QED BY <1>1, <1>2, <1>4, <2>1 DEF PreviousInv
<1>10. QuietInv'
  <2>1. ASSUME NEW p \in EditPieces \ clouded', Quiet(p)' PROVE Quiet(p) /\ override'[p] = override[p]
    <3>1. p \notin ps
      BY <1>1, <2>1 DEF Quiet, Touches, InFlight
    <3>2. override'[p] = override[p]
      BY <3>1 DEF BeginEdit
    <3>3. \A d \in Edits \ {e} : ~Touches(d, {p})
      BY <1>2, <2>1 DEF Quiet, Touches, InFlight
    <3>4. ~Touches(e, {p})
      BY <1>1 DEF Touches
    <3> QED BY <3>2, <3>3, <3>4 DEF Quiet
  <2> QED BY <1>4, <2>1 DEF QuietInv
<1> QED BY <1>7, <1>8, <1>9, <1>10

\* The server's turn.
LEMMA ServerKeeps ==
  ASSUME EditsInv, NEW e \in Edits, ServerHandles(e)
  PROVE  AloneInv' /\ WrittenInv' /\ PreviousInv' /\ QuietInv'
<1> USE DEF EditsInv, EditsTypeOK
<1>1. PICK at \in {"written", "lost", "refused"} :
        /\ edit' = [edit EXCEPT ![e].at = at]
        /\ \A p \in EditPieces :
             stored'[p] = IF at # "refused" /\ p \in edit[e].pieces THEN e ELSE stored[p]
  BY DEF ServerHandles
<1>2. UNCHANGED <<cached, override, refetch, clouded>> /\ edit[e].at = "sent"
  BY DEF ServerHandles
<1>3. /\ edit'[e].at = at /\ edit'[e].pieces = edit[e].pieces /\ edit'[e].alone = edit[e].alone
      /\ edit'[e].previous = edit[e].previous
      /\ \A d \in Edits \ {e} : edit'[d] = edit[d]
  BY <1>1 DEF EditState
<1>4. \A d \in Edits : InFlight(d)' = InFlight(d) /\ edit'[d].pieces = edit[d].pieces
  BY <1>2, <1>3 DEF InFlight
<1>5. AloneInv'
  BY <1>2, <1>3, <1>4 DEF AloneInv
<1>6. WrittenInv'
  <2>1. ASSUME NEW d \in Edits, edit'[d].at = "written", NEW p \in edit'[d].pieces,
               edit'[d].alone \/ p \notin clouded'
        PROVE  stored'[p] = d
    <3>1. p \in EditPieces
      BY <1>4, <2>1 DEF EditState
    <3>2. CASE d = e
      BY <1>1, <1>3, <2>1, <3>1, <3>2
    <3>3. CASE d # e
      <4>1. InFlight(d) /\ InFlight(e)
        BY <1>2, <1>3, <2>1, <3>3 DEF InFlight
      <4>2. p \notin edit[e].pieces
        BY <1>2, <1>3, <2>1, <3>3, <4>1 DEF AloneInv
      <4>3. stored[p] = d
        BY <1>2, <1>3, <2>1, <3>3 DEF WrittenInv
      <4> QED BY <1>1, <3>1, <4>2, <4>3
    <3> QED BY <3>2, <3>3
  <2> QED BY <2>1 DEF WrittenInv
<1>7. PreviousInv'
  <2>1. ASSUME NEW d \in Edits, edit'[d].at \in {"sent", "refused"},
               NEW p \in edit'[d].pieces \ clouded'
        PROVE  edit'[d].previous[p] \in {NoOverride, stored'[p]}
    <3>1. p \in EditPieces
      BY <1>4, <2>1 DEF EditState
    <3>2. edit[d].previous[p] \in {NoOverride, stored[p]} /\ edit'[d].previous = edit[d].previous
      BY <1>2, <1>3, <1>4, <2>1 DEF PreviousInv
    <3>3. stored'[p] = stored[p]
      <4>1. CASE d = e
        BY <1>1, <1>3, <2>1, <3>1, <4>1
      <4>2. CASE d # e
        <5>1. InFlight(d) /\ InFlight(e)
          BY <1>2, <1>3, <2>1, <4>2 DEF InFlight
        <5>2. p \notin edit[e].pieces
          BY <1>2, <1>3, <2>1, <4>2, <5>1 DEF AloneInv
        <5> QED BY <1>1, <3>1, <5>2
      <4> QED BY <4>1, <4>2
    <3> QED BY <3>2, <3>3
  <2> QED BY <2>1 DEF PreviousInv
<1>8. QuietInv'
  <2>1. ASSUME NEW p \in EditPieces \ clouded', Quiet(p)' PROVE Quiet(p) /\ stored'[p] = stored[p]
    <3>1. Quiet(p)
      BY <1>4, <2>1 DEF Quiet, Touches
    <3>2. p \notin edit[e].pieces
      BY <1>2, <3>1 DEF Quiet, Touches, InFlight
    <3> QED BY <1>1, <2>1, <3>1, <3>2
  <2> QED BY <1>2, <2>1 DEF QuietInv
<1> QED BY <1>5, <1>6, <1>7, <1>8

\* An edit is over: nothing is left of it, and the pages are asked for again.
LEMMA EditOver ==
  ASSUME EditsInv, NEW e \in Edits, InFlight(e),
         edit' = [edit EXCEPT ![e] = NoEdit("done")], Invalidate, UNCHANGED stored,
         \A p \in EditPieces \ edit[e].pieces : override'[p] = override[p],
         \A p \in edit[e].pieces \ clouded' : override'[p] \in {NoOverride, stored[p]},
         clouded' \subseteq EditPieces,
         clouded \subseteq clouded' \/ (edit[e].alone /\ clouded' = clouded \ edit[e].pieces)
  PROVE  AloneInv' /\ WrittenInv' /\ PreviousInv' /\ QuietInv'
<1> USE DEF EditsInv, EditsTypeOK
<1>1. ~InFlight(e)' /\ edit'[e].at = "done" /\ \A d \in Edits \ {e} : edit'[d] = edit[d]
  BY DEF NoEdit, InFlight
<1>2. ASSUME NEW d \in Edits \ {e}, InFlight(d)
      PROVE  \A p \in edit[d].pieces : p \notin clouded' => p \notin clouded
  <2>1. edit[e].alone => edit[d].pieces \cap edit[e].pieces = {}
    BY <1>2 DEF AloneInv
  <2> QED BY <2>1
<1>3. AloneInv'
  <2>1. ASSUME NEW c \in Edits, NEW d \in Edits, c # d, InFlight(c)', InFlight(d)'
        PROVE  /\ edit'[d].alone => edit'[c].pieces \cap edit'[d].pieces = {}
               /\ edit'[c].pieces \cap edit'[d].pieces \subseteq clouded'
    <3>1. c # e /\ d # e /\ InFlight(c) /\ InFlight(d) /\ edit'[c] = edit[c] /\ edit'[d] = edit[d]
      BY <1>1, <2>1 DEF InFlight
    <3>2. /\ edit[d].alone => edit[c].pieces \cap edit[d].pieces = {}
          /\ edit[c].pieces \cap edit[d].pieces \subseteq clouded
      BY <2>1, <3>1 DEF AloneInv
    <3> QED BY <1>2, <3>1, <3>2
  <2> QED BY <2>1 DEF AloneInv
<1>4. WrittenInv'
  BY <1>1, <1>2 DEF WrittenInv, InFlight
<1>5. PreviousInv'
  BY <1>1, <1>2 DEF PreviousInv, InFlight
<1>6. QuietInv'
  <2>1. refetch'.at = "asked"
    BY DEF Invalidate, PagesUnread
  <2>2. ASSUME NEW p \in EditPieces \ clouded', Quiet(p)'
        PROVE  override'[p] \in {NoOverride, stored[p]}
    <3>1. CASE p \in edit[e].pieces
      BY <2>2, <3>1
    <3>2. CASE p \notin edit[e].pieces
      <4>1. Quiet(p) /\ p \notin clouded
        BY <1>1, <2>2, <3>2 DEF Quiet, Touches, InFlight
      <4> QED BY <2>2, <3>2, <4>1 DEF QuietInv
    <3> QED BY <3>1, <3>2
  <2> QED BY <2>1, <2>2 DEF QuietInv
<1> QED BY <1>3, <1>4, <1>5, <1>6

\* A step of an edit, of the server or of the catalog keeps the invariant.
LEMMA EditsStep == EditsInv /\ [EditsNext]_editsVars => EditsInv'
<1> SUFFICES ASSUME EditsInv, [EditsNext]_editsVars
             PROVE  AloneInv' /\ WrittenInv' /\ PreviousInv' /\ QuietInv'
  BY EditsTypeNext DEF EditsInv
<1>0. EditsTypeOK'
  BY EditsTypeNext DEF EditsInv
<1>1. ASSUME NEW e \in Edits, EditOne(e) \/ EditMany(e)
      PROVE  AloneInv' /\ WrittenInv' /\ PreviousInv' /\ QuietInv'
  <2>1. PICK ps \in SUBSET EditPieces, many \in BOOLEAN : BeginEdit(e, ps, many)
    BY <1>1 DEF EditOne, EditMany, EditsInv, EditsTypeOK
  <2> QED BY <2>1, BeginKeeps
<1>2. ASSUME NEW e \in Edits, EditSucceeds(e)
      PROVE  AloneInv' /\ WrittenInv' /\ PreviousInv' /\ QuietInv'
  <2>1. /\ InFlight(e) /\ edit[e].at = "written" /\ edit[e].pieces \subseteq EditPieces
        /\ edit' = [edit EXCEPT ![e] = NoEdit("done")] /\ Invalidate /\ UNCHANGED stored
    BY <1>2 DEF EditSucceeds, InFlight, EditsInv, EditsTypeOK, EditState
  <2>2. /\ \A p \in EditPieces \ edit[e].pieces : override'[p] = override[p]
        /\ \A p \in edit[e].pieces : override'[p] = e
    BY <1>2, <2>1 DEF EditSucceeds, WriteToCaches
  <2>3. clouded' = IF edit[e].alone THEN clouded \ edit[e].pieces ELSE clouded
    BY <1>2 DEF EditSucceeds
  <2>4. \A p \in edit[e].pieces \ clouded' : stored[p] = e
    BY <2>1, <2>3 DEF EditsInv, WrittenInv
  <2> QED BY <1>0, <2>1, <2>2, <2>3, <2>4, EditOver DEF EditsTypeOK
<1>3. ASSUME NEW e \in Edits, EditFails(e)
      PROVE  AloneInv' /\ WrittenInv' /\ PreviousInv' /\ QuietInv'
  <2>1. /\ InFlight(e) /\ edit[e].pieces \subseteq EditPieces
        /\ edit' = [edit EXCEPT ![e] = NoEdit("done")] /\ Invalidate /\ UNCHANGED stored
    BY <1>3 DEF EditFails, InFlight, EditsInv, EditsTypeOK, EditState
  <2>2. /\ \A p \in EditPieces \ edit[e].pieces : override'[p] = override[p]
        /\ \A p \in edit[e].pieces : override'[p] = edit[e].previous[p]
    BY <1>3, <2>1 DEF EditFails, RolledBack
  <2>3. clouded' = IF edit[e].at = "lost" THEN clouded \cup edit[e].pieces ELSE clouded
    BY <1>3 DEF EditFails
  <2>4. \A p \in edit[e].pieces \ clouded' : edit[e].previous[p] \in {NoOverride, stored[p]}
    BY <1>3, <2>3 DEF EditFails, EditsInv, PreviousInv
  <2> QED BY <1>0, <2>1, <2>2, <2>3, <2>4, EditOver DEF EditsTypeOK
<1>4. CASE \/ ToggleSelect \/ (\E p \in EditPieces : SelectPiece(p))
           \/ Refocus \/ CatalogReads \/ CatalogAnswers \/ UNCHANGED editsVars
  <2>0. UNCHANGED <<edit, stored, override, clouded>>
    BY <1>4 DEF ToggleSelect, SelectPiece, Refocus, CatalogReads, CatalogAnswers, editsVars
  <2>1. AloneInv' /\ WrittenInv' /\ PreviousInv'
    BY <2>0 DEF EditsInv, AloneInv, WrittenInv, PreviousInv, InFlight
  <2>2. \A p \in EditPieces : Quiet(p)' = Quiet(p)
    BY <2>0 DEF Quiet, Touches, InFlight
  <2>3. CASE UNCHANGED <<cached, refetch>> \/ refetch'.at = "asked"
    BY <2>0, <2>1, <2>2, <2>3 DEF EditsInv, QuietInv
  <2>4. CASE CatalogReads
    BY <2>0, <2>1, <2>2, <2>4 DEF EditsInv, QuietInv, CatalogReads
  <2>5. CASE CatalogAnswers
    BY <2>0, <2>1, <2>2, <2>5 DEF EditsInv, QuietInv, CatalogAnswers, PagesUnread
  <2> QED BY <1>4, <2>3, <2>4, <2>5
      DEF ToggleSelect, SelectPiece, Refocus, Invalidate, PagesUnread, editsVars
<1>5. ASSUME NEW e \in Edits, ServerHandles(e)
      PROVE  AloneInv' /\ WrittenInv' /\ PreviousInv' /\ QuietInv'
  BY <1>5, ServerKeeps
<1> QED BY <1>1, <1>2, <1>3, <1>4, <1>5 DEF EditsNext

\* Once its edits and the refetches are over, a piece is shown as the server holds it
\* (context.tsx, editPieceMetadata and bulkEditPieces with their rollbacks), for any
\* number of pieces, edits and refetches.
THEOREM EditsSettle == EditsSpec => []SettledEditIsStored
<1>1. EditsInv => SettledEditIsStored
  BY DEF EditsInv, QuietInv, Quiet, SettledEditIsStored, ShownValue
<1> QED BY EditsStart, EditsStep, <1>1, PTL DEF EditsSpec

------------------------------------------------------------------------------
(* The pieces of a folio *)

\* The jobs as FolioPiecesTypeOK types them.
JobStates ==
  [at : {"none", "running", "ok", "error"}, asked : SUBSET FolioIds, todo : SUBSET FolioIds,
   existing : Nat, added : Nat, dup : Nat, failed : Nat]

\* A job's counts and what it has still to send make up what it was asked, and what it has
\* done with is in the folio, or was taken out of it.
JobInv(j) ==
  /\ job[j].todo \subseteq job[j].asked
  /\ job[j].added + job[j].dup + Cardinality(job[j].todo) = Cardinality(job[j].asked)
  /\ job[j].failed = IF job[j].at = "error" THEN Cardinality(job[j].todo) ELSE 0
  /\ job[j].at = "ok" => job[j].todo = {}
  /\ job[j].asked \ job[j].todo \subseteq members \cup leftFolio

\* ... which holds of the pieces it skipped because the screen's copy is of an earlier folio.
FolioInv ==
  /\ FolioPiecesTypeOK
  /\ loaded \subseteq members \cup leftFolio
  /\ \A j \in Jobs : JobInv(j)

\* Sets of pieces are finite.
LEMMA PiecesFinite ==
  ASSUME NEW S \in SUBSET FolioIds
  PROVE  /\ IsFiniteSet(S) /\ Cardinality(S) \in Nat
         /\ Cardinality(S) = 0 <=> S = {}
         /\ \A p \in S : Cardinality(S \ {p}) = Cardinality(S) - 1
<1>1. IsFiniteSet(S)
  BY FS_Subset, FolioPiecesAssumption
<1>2. Cardinality(S) \in Nat
  BY <1>1, FS_CardinalityType
<1>3. Cardinality(S) = 0 <=> S = {}
  BY <1>1, FS_EmptySet
<1>4. \A p \in S : Cardinality(S \ {p}) = Cardinality(S) - 1
  BY <1>1, FS_RemoveElement
<1> QED BY <1>1, <1>2, <1>3, <1>4

\* The known picks and the others make up the picks.
LEMMA PicksSplit ==
  ASSUME NEW S \in SUBSET FolioIds, NEW T
  PROVE  Cardinality(S \cap T) + Cardinality(S \ T) = Cardinality(S)
<1> DEFINE A == S \cap T
<1> DEFINE B == S \ T
<1>0. A \in SUBSET FolioIds /\ B \in SUBSET FolioIds
  OBVIOUS
<1>1. IsFiniteSet(A) /\ IsFiniteSet(B) /\ Cardinality(A) \in Nat /\ Cardinality(B) \in Nat
  BY <1>0, PiecesFinite
<1>2. A \cap B = {} /\ A \cup B = S
  OBVIOUS
<1>3. Cardinality(A \cup B) = Cardinality(A) + Cardinality(B) - Cardinality(A \cap B)
  BY <1>1, FS_Union
<1>4. Cardinality(A \cap B) = 0
  BY <1>2, FS_EmptySet
<1>5. Cardinality(S) = Cardinality(A) + Cardinality(B) - Cardinality(A \cap B)
  BY <1>2, <1>3
<1> HIDE DEF A, B
<1>6. Cardinality(A) + Cardinality(B) = Cardinality(S)
  BY <1>1, <1>4, <1>5
<1> QED BY <1>6 DEF A, B

\* What an answer makes of a job, and a failure, and what a press of Add makes.
Answered(r, rest, had) ==
  [r EXCEPT !.todo = rest, !.added = IF had THEN @ ELSE @ + 1,
            !.dup = IF had THEN @ + 1 ELSE @, !.at = IF rest = {} THEN "ok" ELSE @]
Stopped(r, n) == [r EXCEPT !.at = "error", !.failed = n]
Pressed(at, asked, todo, n) ==
  [NoJob EXCEPT !.at = at, !.asked = asked, !.todo = todo, !.existing = n, !.dup = n]

\* What an answer, a failure and the press of Add make of a job.
LEMMA AnsweredTyped ==
  ASSUME NEW r \in JobStates, NEW rest \in SUBSET FolioIds, NEW had \in BOOLEAN
  PROVE  LET n == Answered(r, rest, had)
         IN /\ n \in JobStates
            /\ n.todo = rest /\ n.added + n.dup = r.added + r.dup + 1
            /\ n.at = IF rest = {} THEN "ok" ELSE r.at
            /\ n.asked = r.asked /\ n.failed = r.failed
<1> DEFINE a == IF had THEN r.added ELSE r.added + 1
<1> DEFINE d == IF had THEN r.dup + 1 ELSE r.dup
<1> DEFINE at == IF rest = {} THEN "ok" ELSE r.at
<1>1. a \in Nat /\ d \in Nat /\ at \in {"none", "running", "ok", "error"} /\ a + d = r.added + r.dup + 1
  BY DEF JobStates
<1>2. Answered(r, rest, had) = [r EXCEPT !.todo = rest, !.added = a, !.dup = d, !.at = at]
  BY DEF JobStates, Answered
<1> HIDE DEF a, d, at
<1>3. LET n == Answered(r, rest, had)
      IN /\ n \in JobStates /\ n.added = a /\ n.dup = d /\ n.at = at
         /\ n.todo = rest /\ n.asked = r.asked /\ n.failed = r.failed
  BY <1>1, <1>2 DEF JobStates
<1> QED BY <1>1, <1>3 DEF at

\* A job that stops.
LEMMA StoppedTyped ==
  ASSUME NEW r \in JobStates, NEW a \in Nat
  PROVE  LET e == Stopped(r, a)
         IN /\ e \in JobStates /\ e.at = "error" /\ e.failed = a /\ e.todo = r.todo
            /\ e.asked = r.asked /\ e.added = r.added /\ e.dup = r.dup
BY DEF JobStates, Stopped

\* A job that starts.
LEMMA PressedTyped ==
  ASSUME NEW at \in {"ok", "running"}, NEW asked \in SUBSET FolioIds,
         NEW todo \in SUBSET FolioIds, NEW a \in Nat
  PROVE  LET n == Pressed(at, asked, todo, a)
         IN /\ n \in JobStates /\ n.at = at /\ n.failed = 0 /\ n.todo = todo
            /\ n.asked = asked /\ n.added = 0 /\ n.dup = a
BY DEF JobStates, Pressed, NoJob

\* At first no job runs, and the screen's copy is of the folio.
LEMMA FolioStarts == FolioPiecesInit => FolioInv
<1> SUFFICES ASSUME FolioPiecesInit PROVE FolioInv
  OBVIOUS
<1>1. FolioPiecesTypeOK
  BY FolioPiecesAssumption
  DEF FolioPiecesInit, FolioPiecesTypeOK, NoJob, NoSelection, ClosedPicker
<1>2. ASSUME NEW j \in Jobs PROVE JobInv(j)
  BY <1>2, FS_EmptySet DEF FolioPiecesInit, JobInv, NoJob
<1> QED BY <1>1, <1>2 DEF FolioPiecesInit, FolioInv

\* A job that a step does not touch stays true while nothing leaves the folio untold.
LEMMA JobFrame ==
  ASSUME NEW j \in Jobs, JobInv(j), job'[j] = job[j],
         members \cup leftFolio \subseteq members' \cup leftFolio'
  PROVE  JobInv(j)'
BY DEF JobInv

\* A closed picker is of its type.
LEMMA PickerTyped ==
  ClosedPicker \in [open : BOOLEAN, waits : 0..MaxJobs, picked : SUBSET FolioIds]
BY FolioPiecesAssumption DEF ClosedPicker

\* Pressing Add: the known picks are duplicates, the others are to be sent.
LEMMA AddStarts ==
  ASSUME FolioInv, NEW j \in Jobs, AddSelected(j)
  PROVE  FolioInv'
<1> USE FolioPiecesAssumption DEF FolioInv, FolioPiecesTypeOK
<1> DEFINE picks == pickerBox.picked
<1> DEFINE old == picks \cap loaded
<1>1. picks \in SUBSET FolioIds /\ old \in SUBSET FolioIds /\ picks \ old \in SUBSET FolioIds
  OBVIOUS
<1>2. Cardinality(old) \in Nat /\ Cardinality(picks \ old) \in Nat
  BY <1>1, PiecesFinite
<1>3. Cardinality(old) + Cardinality(picks \ old) = Cardinality(picks)
  <2>1. picks \ old = picks \ loaded
    OBVIOUS
  <2> QED BY <1>1, <2>1, PicksSplit
<1> DEFINE at == IF picks \subseteq old THEN "ok" ELSE "running"
<1> DEFINE new == Pressed(at, picks, picks \ old, Cardinality(old))
<1>4. job' = [job EXCEPT ![j] = new]
  BY DEF AddSelected, Pressed
<1>0. at \in {"ok", "running"} /\ (at = "ok" => picks \subseteq old)
  OBVIOUS
<1>5. UNCHANGED <<members, loaded, folioQuery, selection, removing, removals, leftFolio>>
  BY DEF AddSelected
<1> HIDE DEF at
<1>6. /\ new \in JobStates /\ new.at = at /\ new.failed = 0 /\ new.todo = picks \ old
      /\ new.asked = picks /\ new.added = 0 /\ new.dup = Cardinality(old)
  <2> HIDE DEF picks, old, FolioInv, FolioPiecesTypeOK
  <2>1. picks \in SUBSET FolioIds /\ picks \ old \in SUBSET FolioIds
    BY <1>1
  <2>2. Cardinality(old) \in Nat
    BY <1>2
  <2>3. at \in {"ok", "running"}
    BY <1>0
  <2> QED BY <2>1, <2>2, <2>3, PressedTyped
<1> HIDE DEF new
<1>7. FolioPiecesTypeOK'
  <2>1. job' \in [Jobs -> JobStates]
    BY <1>4, <1>6 DEF JobStates
  <2>2. j \in 0..MaxJobs
    BY DEF Jobs
  <2>3. pickerBox' \in [open : BOOLEAN, waits : 0..MaxJobs, picked : SUBSET FolioIds]
    BY <2>2, PickerTyped DEF AddSelected
  <2> QED BY <1>5, <2>1, <2>3 DEF JobStates
<1>8. JobInv(j)'
  <2>1. job'[j] = new
    BY <1>4
  <2>2. picks \subseteq old => picks \ old = {} /\ Cardinality(picks \ old) = 0
    BY FS_EmptySet
  <2>3. picks \ (picks \ old) \subseteq members \cup leftFolio
    OBVIOUS
  <2>4. old \subseteq picks /\ picks \ old \subseteq picks
    OBVIOUS
  <2> HIDE DEF picks, old, FolioInv, FolioPiecesTypeOK
  <2>5. /\ job'[j].todo \subseteq job'[j].asked
        /\ job'[j].added + job'[j].dup + Cardinality(job'[j].todo) = Cardinality(job'[j].asked)
        /\ job'[j].at = "ok" => job'[j].todo = {}
    BY <1>0, <1>2, <1>3, <1>6, <2>1, <2>2, <2>4
  <2>6. /\ job'[j].failed = 0 /\ job'[j].at # "error"
        /\ job'[j].asked \ job'[j].todo \subseteq members' \cup leftFolio'
    BY <1>0, <1>5, <1>6, <2>1, <2>3
  <2> QED BY <2>5, <2>6 DEF JobInv
<1>9. \A i \in Jobs \ {j} : JobInv(i)'
  BY <1>4, <1>5, JobFrame
<1> QED BY <1>5, <1>7, <1>8, <1>9

\* One answer, or the failure that ends the job.
LEMMA AddGoesOn ==
  ASSUME FolioInv, NEW j \in Jobs, AddNext(j)
  PROVE  FolioInv'
<1> USE FolioPiecesAssumption DEF FolioInv, FolioPiecesTypeOK
<1>1. UNCHANGED <<loaded, folioQuery, selection, removing, removals, leftFolio>>
  BY DEF AddNext
<1>2. job[j] \in JobStates /\ job[j].at = "running"
  BY DEF AddNext, JobStates
<1>3. /\ job[j].added \in Nat /\ job[j].dup \in Nat /\ job[j].existing \in Nat
      /\ job[j].todo \in SUBSET FolioIds /\ job[j].asked \in SUBSET FolioIds
  BY <1>2 DEF JobStates
<1>4. Cardinality(job[j].todo) \in Nat /\ Cardinality(job[j].asked) \in Nat
  BY <1>3, PiecesFinite
<1>5. JobInv(j)
  OBVIOUS
<1>6. members \subseteq members' /\ members' \subseteq FolioIds
  BY <1>3 DEF AddNext
<1>7. pickerBox' \in [open : BOOLEAN, waits : 0..MaxJobs, picked : SUBSET FolioIds]
  BY PickerTyped DEF AddNext, Returns
<1>8. job' \in [Jobs -> JobStates] /\ JobInv(j)' /\ \A i \in Jobs \ {j} : job'[i] = job[i]
  <2>1. ASSUME NEW p \in job[j].todo, members' = members \cup {p},
               job' = [job EXCEPT
                  ![j].todo = job[j].todo \ {p},
                  ![j].added = IF p \in members THEN @ ELSE @ + 1,
                  ![j].dup = IF p \in members THEN @ + 1 ELSE @,
                  ![j].at = IF job[j].todo \ {p} = {} THEN "ok" ELSE @]
        PROVE  job' \in [Jobs -> JobStates] /\ JobInv(j)' /\ \A i \in Jobs \ {j} : job'[i] = job[i]
    <3> DEFINE rest == job[j].todo \ {p}
    <3> DEFINE new == Answered(job[j], rest, p \in members)
    <3>0. job' = [job EXCEPT ![j] = new]
      BY <2>1 DEF Answered
    <3>1. rest \in SUBSET FolioIds /\ (p \in members) \in BOOLEAN
      BY <1>3
    <3> HIDE DEF rest
    <3>9. /\ new \in JobStates
          /\ new.todo = rest /\ new.added + new.dup = job[j].added + job[j].dup + 1
          /\ new.at = (IF rest = {} THEN "ok" ELSE job[j].at)
          /\ new.asked = job[j].asked /\ new.failed = job[j].failed
      <4> HIDE DEF FolioInv, FolioPiecesTypeOK
      <4>1. PICK had \in BOOLEAN : had <=> p \in members
        OBVIOUS
      <4>2. new = Answered(job[j], rest, had)
        BY <4>1 DEF Answered
      <4> QED BY <1>2, <3>1, <4>2, AnsweredTyped
    <3> HIDE DEF new
    <3> USE DEF rest
    <3>2. Cardinality(rest) = Cardinality(job[j].todo) - 1 /\ Cardinality(rest) \in Nat
      BY <1>3, <2>1, PiecesFinite
    <3>3. job'[j] = new
      BY <3>0
    <3>4. job' \in [Jobs -> JobStates]
      BY <3>0, <3>9 DEF JobStates
    <3>5. job[j].asked \ rest \subseteq members' \cup leftFolio
      BY <1>5, <1>6, <2>1 DEF JobInv
    <3>6. /\ rest \subseteq job[j].asked
          /\ job[j].failed = 0
          /\ job[j].added + job[j].dup + Cardinality(job[j].todo) = Cardinality(job[j].asked)
      BY <1>2, <1>5 DEF JobInv
    <3> HIDE DEF rest
    <3>7. new.added + new.dup + Cardinality(rest) = Cardinality(job[j].asked)
      BY <1>3, <1>4, <3>2, <3>6, <3>9
    <3>10. new.at # "error" /\ (new.at = "ok" => rest = {})
      BY <1>2, <3>9
    <3>8. JobInv(j)'
      BY <1>1, <3>3, <3>5, <3>6, <3>7, <3>9, <3>10 DEF JobInv
    <3> QED BY <3>0, <3>4, <3>8
  <2>2. ASSUME job' = [job EXCEPT ![j].at = "error", ![j].failed = FailedCount(j)]
        PROVE  job' \in [Jobs -> JobStates] /\ JobInv(j)' /\ \A i \in Jobs \ {j} : job'[i] = job[i]
    <3>1. FailedCount(j) = Cardinality(job[j].todo)
      BY <1>3, <1>4, <1>5 DEF FailedCount, JobInv
    <3> DEFINE new == Stopped(job[j], Cardinality(job[j].todo))
    <3>0. job' = [job EXCEPT ![j] = new]
      <4>1. job' = [job EXCEPT ![j] = Stopped(job[j], FailedCount(j))]
        BY <2>2 DEF Stopped
      <4> QED BY <3>1, <4>1
    <3>2. /\ new \in JobStates /\ new.at = "error" /\ new.failed = Cardinality(job[j].todo)
          /\ new.todo = job[j].todo /\ new.asked = job[j].asked
          /\ new.added = job[j].added /\ new.dup = job[j].dup
      BY <1>2, <1>4, StoppedTyped
    <3> HIDE DEF new
    <3>3. job'[j] = new
      BY <3>0
    <3>4. job' \in [Jobs -> JobStates]
      BY <3>0, <3>2 DEF JobStates
    <3>5. JobInv(j)'
      BY <1>1, <1>5, <1>6, <3>2, <3>3 DEF JobInv
    <3> QED BY <3>0, <3>4, <3>5
  <2> QED BY <2>1, <2>2 DEF AddNext
<1>9. \A i \in Jobs \ {j} : JobInv(i)'
  BY <1>1, <1>6, <1>8, JobFrame
<1>10. FolioPiecesTypeOK'
  BY <1>1, <1>6, <1>7, <1>8 DEF JobStates
<1> QED BY <1>1, <1>6, <1>8, <1>9, <1>10

\* Every step keeps the counts, and what is done with stays in the folio or was taken out.
LEMMA FolioStep == FolioInv /\ [FolioPiecesNext]_folioVars => FolioInv'
<1> SUFFICES ASSUME FolioInv, [FolioPiecesNext]_folioVars PROVE FolioInv'
  OBVIOUS
<1> USE DEF FolioInv
<1>1. ASSUME UNCHANGED job, FolioPiecesTypeOK', loaded' \subseteq members' \cup leftFolio',
             members \cup leftFolio \subseteq members' \cup leftFolio'
      PROVE  FolioInv'
  BY <1>1, JobFrame
<1>2. CASE OpenPicker \/ ClosePicker \/ TogglePick
  <2>1. UNCHANGED <<members, loaded, folioQuery, selection, job, removing, removals, leftFolio>>
    BY <1>2 DEF OpenPicker, ClosePicker, TogglePick
  <2>2. pickerBox' \in [open : BOOLEAN, waits : 0..MaxJobs, picked : SUBSET FolioIds]
    <3> USE DEF FolioPiecesTypeOK
    <3>1. ASSUME NEW r \in [open : BOOLEAN, waits : 0..MaxJobs, picked : SUBSET FolioIds],
                 NEW s \in SUBSET FolioIds
          PROVE  /\ [r EXCEPT !.picked = s] \in [open : BOOLEAN, waits : 0..MaxJobs, picked : SUBSET FolioIds]
                 /\ [r EXCEPT !.open = TRUE] \in [open : BOOLEAN, waits : 0..MaxJobs, picked : SUBSET FolioIds]
      OBVIOUS
    <3>2. CASE OpenPicker
      BY <3>1, <3>2, PickerTyped DEF OpenPicker
    <3>3. CASE ClosePicker
      BY <3>3, PickerTyped DEF ClosePicker
    <3>4. CASE TogglePick
      <4>1. PICK p \in FolioIds :
              pickerBox' = [pickerBox EXCEPT !.picked = IF p \in @ THEN @ \ {p} ELSE @ \cup {p}]
        BY <3>4 DEF TogglePick, PickerTileOffers
      <4> DEFINE s == IF p \in pickerBox.picked THEN pickerBox.picked \ {p} ELSE pickerBox.picked \cup {p}
      <4>2. s \in SUBSET FolioIds
        BY <4>1
      <4>3. pickerBox' = [pickerBox EXCEPT !.picked = s]
        BY <4>1
      <4> HIDE DEF s
      <4> QED BY <3>1, <4>2, <4>3
    <3> QED BY <1>2, <3>2, <3>3, <3>4
  <2>3. FolioPiecesTypeOK'
    BY <2>1, <2>2 DEF FolioPiecesTypeOK
  <2> QED BY <1>1, <2>1, <2>3
<1>3. CASE ToggleSelectionMode \/ ToggleSelected \/ ClearSelection
  <2>1. UNCHANGED <<members, loaded, folioQuery, pickerBox, job, removing, removals, leftFolio>>
    BY <1>3 DEF ToggleSelectionMode, ToggleSelected, ClearSelection
  <2>2. selection' \in [mode : BOOLEAN, ids : SUBSET FolioIds]
    <3> USE DEF FolioPiecesTypeOK
    <3>1. ASSUME NEW r \in [mode : BOOLEAN, ids : SUBSET FolioIds], NEW s \in SUBSET FolioIds
          PROVE  [r EXCEPT !.ids = s] \in [mode : BOOLEAN, ids : SUBSET FolioIds]
      OBVIOUS
    <3>2. CASE ToggleSelectionMode \/ ClearSelection
      <4>1. \/ selection' = [mode |-> ~selection.mode, ids |-> {}]
            \/ selection' = [mode |-> FALSE, ids |-> {}]
        BY <3>2 DEF ToggleSelectionMode, ClearSelection, NoSelection
      <4>2. \A b \in BOOLEAN : [mode |-> ~b, ids |-> {}] \in [mode : BOOLEAN, ids : SUBSET FolioIds]
        OBVIOUS
      <4>3. selection.mode \in BOOLEAN
        OBVIOUS
      <4>4. [mode |-> FALSE, ids |-> {}] \in [mode : BOOLEAN, ids : SUBSET FolioIds]
        OBVIOUS
      <4> QED BY <4>1, <4>2, <4>3, <4>4, Zenon
    <3>3. CASE ToggleSelected
      <4>1. PICK p \in FolioIds :
              selection' = [selection EXCEPT !.ids = IF p \in @ THEN @ \ {p} ELSE @ \cup {p}]
        BY <3>3 DEF ToggleSelected
      <4> DEFINE s == IF p \in selection.ids THEN selection.ids \ {p} ELSE selection.ids \cup {p}
      <4>2. s \in SUBSET FolioIds
        BY <4>1
      <4>3. selection' = [selection EXCEPT !.ids = s]
        BY <4>1
      <4> HIDE DEF s
      <4> QED BY <3>1, <4>2, <4>3
    <3> QED BY <1>3, <3>2, <3>3
  <2>3. FolioPiecesTypeOK'
    BY <2>1, <2>2 DEF FolioPiecesTypeOK
  <2> QED BY <1>1, <2>1, <2>3
<1>4. CASE AddOne
  BY <1>1, <1>4 DEF AddOne, FolioPiecesTypeOK
<1>5. CASE RemoveSelected
  <2>1. selection.ids \in SUBSET FolioIds /\ Cardinality(selection.ids) \in Nat
    BY PiecesFinite DEF FolioPiecesTypeOK
  <2>2. removals' \in 0..MaxRemovals
    BY <1>5, <2>1, FolioPiecesAssumption DEF RemoveSelected, FolioPiecesTypeOK
  <2>3. selection' \in [mode : BOOLEAN, ids : SUBSET FolioIds]
    BY <1>5 DEF RemoveSelected, NoSelection
  <2>4. FolioPiecesTypeOK'
    BY <1>5, <2>1, <2>2, <2>3 DEF RemoveSelected, FolioPiecesTypeOK
  <2> QED BY <1>1, <1>5, <2>4 DEF RemoveSelected
<1>6. CASE RemovalAnswered
  BY <1>1, <1>6 DEF RemovalAnswered, FolioPiecesTypeOK
<1>7. CASE FolioAnswers
  BY <1>1, <1>7 DEF FolioAnswers, FolioPiecesTypeOK
<1>8. CASE UNCHANGED folioVars
  BY <1>1, <1>8 DEF folioVars, FolioPiecesTypeOK
<1> QED
  BY <1>2, <1>3, <1>4, <1>5, <1>6, <1>7, <1>8, AddStarts, AddGoesOn DEF FolioPiecesNext

\* What a job of the picker reports is true, for any number of pieces, jobs and removals
\* (context.tsx, addPiecesToFolioAction): its counts make up the picks, and a success has
\* left none of them out, whatever copy of the folio it skipped known pieces by.
THEOREM AddReports == FolioPiecesSpec => []AddReportIsTrue
<1>1. ASSUME FolioInv, NEW j \in Jobs
      PROVE  /\ job[j].at \in {"ok", "error"} =>
                  job[j].added + job[j].dup + job[j].failed = Cardinality(job[j].asked)
             /\ job[j].at = "ok" => job[j].asked \subseteq members \cup leftFolio
  <2>1. /\ job[j].added \in Nat /\ job[j].dup \in Nat /\ job[j].todo \in SUBSET FolioIds
    BY <1>1 DEF FolioInv, FolioPiecesTypeOK
  <2>2. Cardinality(job[j].todo) \in Nat /\ (job[j].todo = {} => Cardinality(job[j].todo) = 0)
    BY <2>1, PiecesFinite
  <2>3. JobInv(j)
    BY <1>1 DEF FolioInv
  <2> QED BY <2>1, <2>2, <2>3 DEF JobInv
<1>2. FolioInv => AddReportIsTrue
  BY <1>1 DEF AddReportIsTrue
<1> QED BY FolioStarts, FolioStep, <1>2, PTL DEF FolioPiecesSpec

------------------------------------------------------------------------------
(* The gallery *)

\* A set of numbers that is not empty has a least one.
LEMMA LeastOf ==
  ASSUME NEW T \in SUBSET Nat, T # {}
  PROVE  \E m \in T : \A n \in T : m <= n
<1>1. PICK m \in T : \A n \in T : <<n, m>> \notin OpToRel(<, Nat)
  BY WFMin, NatLessThanWellFounded, Zenon
<1>2. \A n \in T : ~(n < m)
  BY <1>1, Zenon DEF OpToRel
<1> QED
  BY <1>2

\* f is the filtering of the first n pieces of s by K, prefix by prefix.
Filters(f, s, K, n) ==
  f = [i \in 0..n |-> IF i = 0 THEN <<>>
                      ELSE IF s[i] \in K THEN Append(f[i - 1], s[i]) ELSE f[i - 1]]

\* What Filters says of each prefix.
LEMMA FiltersAt ==
  ASSUME NEW f, NEW s, NEW K, NEW n \in Nat
  PROVE  Filters(f, s, K, n) <=>
           /\ f = [i \in 0..n |-> f[i]]
           /\ f[0] = <<>>
           /\ \A i \in 1..n : f[i] = IF s[i] \in K THEN Append(f[i - 1], s[i]) ELSE f[i - 1]
<1>1. ASSUME Filters(f, s, K, n)
      PROVE  /\ f = [i \in 0..n |-> f[i]]
             /\ f[0] = <<>>
             /\ \A i \in 1..n : f[i] = IF s[i] \in K THEN Append(f[i - 1], s[i]) ELSE f[i - 1]
  <2>1. f = [i \in 0..n |-> f[i]]
    BY <1>1 DEF Filters
  <2>2. \A i \in 0..n : f[i] = IF i = 0 THEN <<>>
                      ELSE IF s[i] \in K THEN Append(f[i - 1], s[i]) ELSE f[i - 1]
    BY <1>1, Zenon DEF Filters
  <2> QED
    BY <2>1, <2>2
<1>2. ASSUME f = [i \in 0..n |-> f[i]], f[0] = <<>>,
             \A i \in 1..n : f[i] = IF s[i] \in K THEN Append(f[i - 1], s[i]) ELSE f[i - 1]
      PROVE  Filters(f, s, K, n)
  <2>1. \A i \in 0..n : f[i] = IF i = 0 THEN <<>>
                      ELSE IF s[i] \in K THEN Append(f[i - 1], s[i]) ELSE f[i - 1]
    BY <1>2
  <2>2. [i \in 0..n |-> f[i]] = [i \in 0..n |-> IF i = 0 THEN <<>>
                      ELSE IF s[i] \in K THEN Append(f[i - 1], s[i]) ELSE f[i - 1]]
    BY <2>1, Zenon
  <2> QED
    BY <1>2, <2>2, Zenon DEF Filters
<1> QED
  BY <1>1, <1>2

\* The recursion is well founded: there is such a function.
LEMMA FilterExists ==
  ASSUME NEW s, NEW K, NEW n \in Nat
  PROVE  \E f : Filters(f, s, K, n)
<1> DEFINE T == {m \in Nat : ~\E f : Filters(f, s, K, m)}
<1>1. T = {}
  <2> SUFFICES ASSUME T # {} PROVE FALSE
    OBVIOUS
  <2>1. PICK m \in T : \A k \in T : m <= k
    BY LeastOf
  <2>2. m # 0
    <3> DEFINE g == [i \in 0..0 |-> <<>>]
    <3>1. /\ g = [i \in 0..0 |-> g[i]] /\ g[0] = <<>>
          /\ \A i \in 1..0 : g[i] = IF s[i] \in K THEN Append(g[i - 1], s[i]) ELSE g[i - 1]
      OBVIOUS
    <3> HIDE DEF g
    <3>2. Filters(g, s, K, 0)
      BY <3>1, FiltersAt
    <3> QED
      BY <2>1, <3>2
  <2>3. m - 1 \in Nat /\ m - 1 \notin T /\ m \in Nat
    BY <2>1, <2>2
  <2>4. PICK f : Filters(f, s, K, m - 1)
    BY <2>3
  <2>5. /\ f[0] = <<>>
        /\ \A i \in 1..(m - 1) : f[i] = IF s[i] \in K THEN Append(f[i - 1], s[i]) ELSE f[i - 1]
    BY <2>3, <2>4, FiltersAt
  <2> DEFINE last == IF s[m] \in K THEN Append(f[m - 1], s[m]) ELSE f[m - 1]
             g == [i \in 0..m |-> IF i = m THEN last ELSE f[i]]
  <2>6. g[m] = last /\ \A i \in 0..(m - 1) : g[i] = f[i]
    BY <2>3
  <2>7. g = [i \in 0..m |-> g[i]]
    OBVIOUS
  <2> HIDE DEF g
  <2>8. \A i \in 1..m : g[i] = IF s[i] \in K THEN Append(g[i - 1], s[i]) ELSE g[i - 1]
    <3> SUFFICES ASSUME NEW i \in 1..m
                 PROVE  g[i] = IF s[i] \in K THEN Append(g[i - 1], s[i]) ELSE g[i - 1]
      OBVIOUS
    <3>1. g[i - 1] = f[i - 1]
      BY <2>3, <2>6
    <3>2. CASE i = m
      BY <2>6, <3>1, <3>2
    <3>3. CASE i # m
      <4>1. i \in 1..(m - 1) /\ i \in 0..(m - 1)
        BY <2>3, <3>3
      <4> QED
        BY <2>5, <2>6, <3>1, <4>1
    <3> QED
      BY <3>2, <3>3
  <2>9. g[0] = <<>>
    BY <2>2, <2>3, <2>5, <2>6
  <2>10. Filters(g, s, K, m)
    BY <2>3, <2>7, <2>8, <2>9, FiltersAt
  <2> QED
    BY <2>1, <2>10
<1> QED
  BY <1>1

\* r is made of pieces of K, and has all that are among the first i of s.
Keeps(r, s, K, S, i) ==
  /\ r \in Seq(S \cap K)
  /\ \A j \in 1..i : s[j] \in K => \E l \in 1..Len(r) : r[l] = s[j]

\* What a filter has kept of each prefix.
LEMMA FilterKeeps ==
  ASSUME NEW S, NEW s \in Seq(S), NEW K, NEW f, Filters(f, s, K, Len(s))
  PROVE  Keeps(f[Len(s)], s, K, S, Len(s))
<1> DEFINE P(i) == Keeps(f[i], s, K, S, i)
           T == {i \in 0..Len(s) : ~P(i)}
<1>0. Len(s) \in Nat /\ \A i \in 1..Len(s) : s[i] \in S
  OBVIOUS
<1>1. /\ f[0] = <<>>
      /\ \A i \in 1..Len(s) : f[i] = IF s[i] \in K THEN Append(f[i - 1], s[i]) ELSE f[i - 1]
  BY <1>0, FiltersAt
<1> USE DEF Keeps
<1>2. P(0)
  BY <1>1
<1>3. ASSUME NEW i \in 1..Len(s), P(i - 1) PROVE P(i)
  <2>1. CASE s[i] \notin K
    <3>1. f[i] = f[i - 1]
      BY <1>1, <2>1
    <3>2. \A j \in 1..i : s[j] \in K => j \in 1..(i - 1)
      BY <1>0, <2>1
    <3> QED
      BY <1>3, <3>1, <3>2
  <2>2. CASE s[i] \in K
    <3>1. f[i] = Append(f[i - 1], s[i]) /\ f[i - 1] \in Seq(S \cap K) /\ s[i] \in S \cap K
      BY <1>0, <1>1, <1>3, <2>2
    <3>2. /\ f[i] \in Seq(S \cap K) /\ Len(f[i]) = Len(f[i - 1]) + 1 /\ Len(f[i - 1]) \in Nat
          /\ \A l \in 1..Len(f[i - 1]) : f[i][l] = f[i - 1][l]
          /\ f[i][Len(f[i - 1]) + 1] = s[i]
      BY <3>1
    <3>3. ASSUME NEW j \in 1..i, s[j] \in K PROVE \E l \in 1..Len(f[i]) : f[i][l] = s[j]
      <4>1. CASE j = i
        BY <3>2, <4>1
      <4>2. CASE j # i
        <5>1. j \in 1..(i - 1)
          BY <1>0, <4>2
        <5>2. PICK l \in 1..Len(f[i - 1]) : f[i - 1][l] = s[j]
          BY <1>3, <3>3, <5>1
        <5> QED
          BY <3>2, <5>2
      <4> QED
        BY <4>1, <4>2
    <3> QED
      BY <3>2, <3>3
  <2> QED
    BY <2>1, <2>2
<1> HIDE DEF P
<1>4. T = {}
  <2> SUFFICES ASSUME T # {} PROVE FALSE
    OBVIOUS
  <2>0. T \in SUBSET Nat
    BY <1>0
  <2>1. PICK m \in T : \A k \in T : m <= k
    BY <2>0, LeastOf, Zenon
  <2>2. m \in 1..Len(s)
    BY <1>0, <1>2, <2>1
  <2>3. m - 1 \in 0..Len(s) /\ m - 1 \notin T
    BY <1>0, <2>1, <2>2
  <2> QED
    BY <1>3, <2>1, <2>2, <2>3
<1> QED
  BY <1>0, <1>4 DEF P

\* What the server finds is exactly the matching pieces of its catalog (folio/context.tsx, the
\* filters of the catalog query), for every catalog: it has nothing else and lacks none of them.
THEOREM FoundMatches ==
  ASSUME catalog \in Seq(BrowsePieces), NEW k
  PROVE  /\ Found(k) \in Seq(BrowsePieces \cap Matches(k))
         /\ \A j \in 1..Len(catalog) :
              catalog[j] \in Matches(k) => \E l \in 1..Len(Found(k)) : Found(k)[l] = catalog[j]
<1> DEFINE F == CHOOSE f : Filters(f, catalog, Matches(k), Len(catalog))
<1>0. Len(catalog) \in Nat
  OBVIOUS
<1>1. Filters(F, catalog, Matches(k), Len(catalog))
  BY <1>0, FilterExists
<1>2. Found(k) = F[Len(catalog)]
  BY Zenon DEF Found, Filters
<1> HIDE DEF F
<1>3. Keeps(F[Len(catalog)], catalog, Matches(k), BrowsePieces, Len(catalog))
  BY <1>1, FilterKeeps, Zenon
<1> QED
  BY <1>2, <1>3 DEF Keeps

\* The pages and the fetches of a key.
LoadedPages ==
  [at : {"none", "ready"}, list : Seq(BrowsePieces), total : Nat, count : Nat, since : Nat]
PageFetches == [at : {"idle", "all", "next"}, got : LoadedPages, wants : Nat]

\* Pages that no piece overtook are the beginning of what matches, and know how much that is.
Whole(k, pg) ==
  pg # NoPages =>
    /\ pg.at = "ready" /\ pg.count # 0 /\ pg.since <= Len(catalog)
    /\ pg.since = Len(catalog) =>
         /\ pg.total = Len(Found(k)) /\ Len(pg.list) <= Len(Found(k))
         /\ pg.list = SubSeq(Found(k), 1, Len(pg.list))

\* The inductive invariant of the gallery: the types, the debounced text, and whole pages.
BrowseInv ==
  /\ catalog \in Seq(BrowsePieces)
  /\ search \in [typed : BOOLEAN, debounced : BOOLEAN, timer : BOOLEAN]
  /\ filter \in BOOLEAN /\ gallerySkin \in Skins
  /\ pages \in [Keys -> LoadedPages] /\ pageFetch \in [Keys -> PageFetches]
  /\ ~search.timer => search.typed = search.debounced
  /\ \A k \in Keys : Whole(k, pages[k]) /\ Whole(k, pageFetch[k].got)

\* What the empty records are.
LEMMA BrowseRecords ==
  /\ NoPages \in LoadedPages /\ NoPages.count = 0 /\ NoPages.list = <<>>
  /\ NoPageFetch \in PageFetches /\ NoPageFetch.got = NoPages
  /\ \A n \in Nat : /\ [NoPageFetch EXCEPT !.at = "all", !.wants = n] \in PageFetches
                    /\ [NoPageFetch EXCEPT !.at = "all", !.wants = n].got = NoPages
<1>1. NoPages \in LoadedPages /\ NoPages.count = 0 /\ NoPages.list = <<>>
  BY DEF LoadedPages, NoPages
<1>2. NoPageFetch \in PageFetches /\ NoPageFetch.got = NoPages
  BY <1>1 DEF NoPageFetch, PageFetches
<1>3. ASSUME NEW r \in PageFetches, NEW n \in Nat
      PROVE  /\ [r EXCEPT !.at = "all", !.wants = n] \in PageFetches
             /\ [r EXCEPT !.at = "all", !.wants = n].got = r.got
  BY DEF PageFetches
<1> QED
  BY <1>1, <1>2, <1>3

\* The key that is shown is the one its request is made for.
LEMMA KeyShown ==
  ASSUME BrowseInv
  PROVE  Key \in Keys /\ Asked = Key
  BY DEF BrowseInv, Key, Asked, CatalogKey, Keys

\* One more page: what is read continues what was read before.
LEMMA PageContinues ==
  ASSUME BrowseInv, NEW k \in Keys, NEW got \in LoadedPages, Whole(k, got)
  PROVE  /\ WithPage(k, got) \in LoadedPages /\ WithPage(k, got) # NoPages
         /\ Whole(k, WithPage(k, got))
<1> DEFINE found == Found(k)
           from == Len(got.list)
           upto == IF from + PageSize < Len(found) THEN from + PageSize ELSE Len(found)
           pg == WithPage(k, got)
<1>1. /\ found \in Seq(BrowsePieces) /\ Len(found) \in Nat
      /\ got.list \in Seq(BrowsePieces) /\ from \in Nat /\ PageSize \in Nat \ {0}
      /\ Len(catalog) \in Nat /\ got.since \in Nat /\ got.count \in Nat
  <2>1. found \in Seq(BrowsePieces \cap Matches(k))
    BY FoundMatches DEF BrowseInv
  <2>2. found \in Seq(BrowsePieces)
    BY <2>1
  <2> QED
    BY <2>2, BrowseAssumption DEF BrowseInv, LoadedPages
<1>2. pg = [at |-> "ready", list |-> got.list \o SubSeq(found, from + 1, upto),
            total |-> Len(found), count |-> got.count + 1,
            since |-> IF got.count = 0 THEN Len(catalog) ELSE got.since]
  BY Zenon DEF WithPage, NextOffset
<1> HIDE DEF pg, found, from
<1>3. /\ upto \in Nat /\ upto <= Len(found)
      /\ from <= Len(found) => from <= upto
  BY <1>1
<1> HIDE DEF upto
<1>4. /\ SubSeq(found, from + 1, upto) \in Seq(BrowsePieces)
      /\ from <= upto => Len(SubSeq(found, from + 1, upto)) = upto - from
  <2>1. from + 1 \in Int /\ upto \in Int /\ \A i \in (from + 1)..upto : found[i] \in BrowsePieces
    BY <1>1, <1>3
  <2>2. /\ SubSeq(found, from + 1, upto) \in Seq(BrowsePieces)
        /\ Len(SubSeq(found, from + 1, upto)) = IF from + 1 <= upto THEN upto - (from + 1) + 1 ELSE 0
    BY <2>1, SubSeqProperties, Zenon
  <2> QED
    BY <2>2, <1>1, <1>3
<1>5. /\ got.list \o SubSeq(found, from + 1, upto) \in Seq(BrowsePieces)
      /\ from <= upto => Len(got.list \o SubSeq(found, from + 1, upto)) = upto
  <2>1. /\ got.list \o SubSeq(found, from + 1, upto) \in Seq(BrowsePieces)
        /\ Len(got.list \o SubSeq(found, from + 1, upto)) = Len(got.list) + Len(SubSeq(found, from + 1, upto))
    BY <1>1, <1>4, ConcatProperties, Zenon
  <2>2. Len(got.list) = from
    BY DEF from
  <2>3. ASSUME from <= upto PROVE Len(got.list \o SubSeq(found, from + 1, upto)) = upto
    <3>1. Len(got.list \o SubSeq(found, from + 1, upto)) = from + (upto - from)
      BY <1>4, <2>1, <2>2, <2>3
    <3>2. from + (upto - from) = upto
      BY <1>1, <1>3
    <3> QED
      BY <3>1, <3>2, Zenon
  <2> QED
    BY <2>1, <2>3
<1>6. pg \in LoadedPages /\ pg.at = "ready" /\ pg.count # 0 /\ pg.count \in Nat /\ pg.since <= Len(catalog)
  <2>1. got.count # 0 => got.since <= Len(catalog)
    BY DEF Whole, NoPages
  <2> QED
    BY <1>1, <1>2, <1>5, <2>1 DEF LoadedPages
<1>7. pg # NoPages
  BY <1>6 DEF NoPages
<1>8. ASSUME pg.since = Len(catalog)
      PROVE  pg.total = Len(found) /\ Len(pg.list) <= Len(found) /\ pg.list = SubSeq(found, 1, Len(pg.list))
  <2>1. got.list = SubSeq(found, 1, from) /\ from <= Len(found)
    <3>1. CASE got = NoPages
      <4>1. got.list = <<>> /\ from = 0
        BY <3>1 DEF NoPages, from
      <4>2. SubSeq(found, 1, 0) = <<>>
        BY SubSeqEmpty
      <4> QED
        BY <1>1, <4>1, <4>2
    <3>2. CASE got # NoPages
      <4>1. got.count # 0 /\ got.since = Len(catalog)
        BY <1>2, <1>8, <3>2 DEF Whole
      <4> QED
        BY <3>2, <4>1 DEF Whole, found, from
    <3> QED
      BY <3>1, <3>2
  <2>2. from <= upto /\ from \in 0..Len(found) /\ upto \in from..Len(found) /\ 1 \in 1..(Len(found) + 1)
    BY <1>1, <1>3, <2>1
  <2>3. SubSeq(found, 1, from) \o SubSeq(found, from + 1, upto) = SubSeq(found, 1, upto)
    <3>1. from \in (1 - 1)..Len(found)
      BY <2>2
    <3> QED
      BY <1>1, <2>2, <3>1, ConcatAdjacentSubSeq, Zenon
  <2>4. pg.list = SubSeq(found, 1, upto) /\ Len(pg.list) = upto /\ pg.total = Len(found)
    BY <1>2, <1>5, <2>1, <2>2, <2>3
  <2> QED
    BY <1>1, <1>3, <2>4
<1> QED
  BY <1>6, <1>7, <1>8 DEF Whole, pg, found

\* At first nothing is read.
LEMMA BrowseStarts == BrowseInit => BrowseInv
<1> SUFFICES ASSUME BrowseInit PROVE BrowseInv
  OBVIOUS
<1>1. catalog \in Seq(BrowsePieces)
  BY BrowseAssumption DEF BrowseInit, BrowsePieces
<1>2. pages \in [Keys -> LoadedPages] /\ \A k \in Keys : pages[k] = NoPages
  BY BrowseRecords DEF BrowseInit
<1>3. pageFetch \in [Keys -> PageFetches] /\ \A k \in Keys : pageFetch[k].got = NoPages
  BY BrowseRecords DEF BrowseInit
<1>4. \A k \in Keys : Whole(k, pages[k]) /\ Whole(k, pageFetch[k].got)
  BY <1>2, <1>3 DEF Whole
<1> QED
  BY <1>1, <1>2, <1>3, <1>4 DEF BrowseInit, BrowseInv
\* What the server finds changes with its catalog only.
LEMMA FoundStays ==
  ASSUME UNCHANGED catalog, NEW k
  PROVE  Found(k)' = Found(k)
  BY DEF Found, Matches

\* What a render asks for starts from nothing.
LEMMA RenderAsks ==
  ASSUME BrowseInv, NEW k \in Keys, Renders(k)
  PROVE  /\ pageFetch' \in [Keys -> PageFetches]
         /\ \A f \in Keys : pageFetch'[f].got \in {pageFetch[f].got, NoPages}
<1>1. pageFetch \in [Keys -> PageFetches] /\ \A f \in Keys : pages[f].count \in Nat
  BY DEF BrowseInv, LoadedPages
<1>2. PICK n \in Nat : \/ UNCHANGED pageFetch
                       \/ pageFetch' = [pageFetch EXCEPT ![k] = [NoPageFetch EXCEPT !.at = "all", !.wants = n]]
  BY <1>1 DEF Renders
<1> QED
  BY <1>1, <1>2, BrowseRecords

\* The text that is searched for is what was typed, unless the timer is to say so.
Search == [typed : BOOLEAN, debounced : BOOLEAN, timer : BOOLEAN]

\* A step of the filters, of the mode or of a key leaves the pages alone.
LEMMA BrowseAsks ==
  ASSUME BrowseInv, NEW k \in Keys, UNCHANGED <<catalog, pages>>,
         search' \in Search, ~search'.timer => search'.typed = search'.debounced,
         filter' \in BOOLEAN, gallerySkin' \in Skins,
         UNCHANGED pageFetch \/ Renders(k)
  PROVE  BrowseInv'
<1>1. /\ pageFetch' \in [Keys -> PageFetches]
      /\ \A f \in Keys : pageFetch'[f].got \in {pageFetch[f].got, NoPages}
  BY RenderAsks DEF BrowseInv
<1>2. ASSUME NEW f \in Keys PROVE Whole(f, pages[f])' /\ Whole(f, pageFetch[f].got)'
  <2>1. Whole(f, pages[f]) /\ Whole(f, pageFetch'[f].got)
    BY <1>1 DEF BrowseInv, Whole
  <2> QED
    BY <2>1, FoundStays DEF Whole
<1> QED
  BY <1>1, <1>2 DEF BrowseInv, Search

\* A page goes on from those before it; an arrival makes them old.
LEMMA BrowseStep == BrowseInv /\ [BrowseNext]_browseVars => BrowseInv'
<1> SUFFICES ASSUME BrowseInv, [BrowseNext]_browseVars PROVE BrowseInv'
  OBVIOUS
<1>0. /\ search \in Search /\ filter \in BOOLEAN /\ gallerySkin \in Skins
      /\ ~search.timer => search.typed = search.debounced
  BY DEF BrowseInv, Search
<1>k. \A text, flt \in BOOLEAN : CatalogKey(text, flt) \in Keys
  BY DEF CatalogKey, Keys
<1>1. CASE Type
  <2>1. PICK t \in BOOLEAN : search' = [search EXCEPT !.typed = t, !.timer = TRUE]
    BY <1>1 DEF Type
  <2>2. search' \in Search /\ search'.timer
    BY <1>0, <2>1 DEF Search
  <2>3. UNCHANGED <<catalog, pages, filter, gallerySkin, pageFetch>>
    BY <1>1 DEF Type
  <2> QED
    BY <1>0, <1>k, <2>2, <2>3, KeyShown, BrowseAsks
<1>2. CASE Debounced
  <2>1. search' \in Search /\ search'.typed = search'.debounced
    BY <1>0, <1>2 DEF Debounced, Search
  <2>2. UNCHANGED <<catalog, pages, filter, gallerySkin>>
    BY <1>2 DEF Debounced
  <2>3. UNCHANGED pageFetch \/ Renders(CatalogKey(search.typed, filter))
    BY <1>2 DEF Debounced
  <2>4. CatalogKey(search.typed, filter) \in Keys
    BY <1>0, <1>k DEF Search
  <2> QED
    BY <1>0, <2>1, <2>2, <2>3, <2>4, BrowseAsks
<1>3. CASE SetFilter
  <2>1. PICK b \in BOOLEAN : b <=> ~filter
    BY <1>0
  <2>2. UNCHANGED <<catalog, pages, search, gallerySkin>> /\ filter' \in BOOLEAN
        /\ Renders(CatalogKey(search.debounced, ~filter))
    BY <1>3 DEF SetFilter
  <2>3. CatalogKey(search.debounced, ~filter) \in Keys
    BY <1>0 DEF CatalogKey, Keys, Search
  <2> QED
    BY <1>0, <2>2, <2>3, BrowseAsks
<1>4. CASE ResetFilters
  <2>1. search' \in Search /\ search'.timer
    BY <1>0, <1>4 DEF ResetFilters, Search
  <2>2. UNCHANGED <<catalog, pages, gallerySkin>> /\ filter' \in BOOLEAN
        /\ (UNCHANGED pageFetch \/ Renders(CatalogKey(search.debounced, FALSE)))
    BY <1>4 DEF ResetFilters
  <2>3. CatalogKey(search.debounced, FALSE) \in Keys
    BY <1>0, <1>k DEF Search
  <2> QED
    BY <1>0, <2>1, <2>2, <2>3, BrowseAsks
<1>5. CASE SetMode
  BY <1>0, <1>5, KeyShown, BrowseAsks DEF SetMode
<1>6. CASE LoadMore
  <2>1. Key \in Keys /\ pages[Key] \in LoadedPages /\ pages[Key].count \in Nat
    BY KeyShown DEF BrowseInv, LoadedPages
  <2> DEFINE n == pages[Key].count + 1
  <2>2. n \in Nat /\ pageFetch' = [pageFetch EXCEPT ![Key] = [at |-> "next", got |-> pages[Key], wants |-> n]]
    BY <1>6, <2>1 DEF LoadMore
  <2> HIDE DEF n
  <2>3. [at |-> "next", got |-> pages[Key], wants |-> n] \in PageFetches
    BY <2>1, <2>2 DEF PageFetches
  <2>4. UNCHANGED <<catalog, pages, search, filter, gallerySkin>>
    BY <1>6 DEF LoadMore
  <2>5. /\ pageFetch' \in [Keys -> PageFetches]
        /\ \A f \in Keys : pageFetch'[f].got \in {pageFetch[f].got, pages[f]}
    BY <2>1, <2>2, <2>3 DEF BrowseInv
  <2>6. ASSUME NEW f \in Keys PROVE Whole(f, pages[f])' /\ Whole(f, pageFetch[f].got)'
    <3>1. Whole(f, pages[f]) /\ Whole(f, pageFetch'[f].got)
      BY <2>5 DEF BrowseInv
    <3> QED
      BY <2>4, <3>1, FoundStays DEF Whole
  <2> QED
    BY <1>0, <2>4, <2>5, <2>6 DEF BrowseInv, Search
\* A piece that arrives makes what was read before it old.
<1>7. CASE PieceArrives
  <2>1. PICK p \in Arrivals : catalog' = <<p>> \o catalog
    BY <1>7 DEF PieceArrives
  <2>2. catalog' \in Seq(BrowsePieces) /\ Len(catalog) \in Nat /\ Len(catalog') = Len(catalog) + 1
    BY <2>1 DEF BrowseInv, BrowsePieces
  <2>3. UNCHANGED <<pages, pageFetch, search, filter, gallerySkin>>
    BY <1>7 DEF PieceArrives
  <2>4. ASSUME NEW f \in Keys PROVE Whole(f, pages[f])' /\ Whole(f, pageFetch[f].got)'
    <3>1. /\ Whole(f, pages[f]) /\ pages[f].since \in Nat
          /\ Whole(f, pageFetch[f].got) /\ pageFetch[f].got.since \in Nat
      BY DEF BrowseInv, LoadedPages, PageFetches
    <3> QED
      BY <2>2, <2>3, <3>1 DEF Whole
  <2> QED
    BY <1>0, <2>2, <2>3, <2>4 DEF BrowseInv, Search
<1>8. CASE Refetch
  BY <1>0, <1>8, KeyShown, BrowseAsks DEF Refetch
<1>9. ASSUME NEW k \in Keys, PageAnswered(k) PROVE BrowseInv'
  <2> DEFINE got == WithPage(k, pageFetch[k].got)
  <2>1. got = WithPage(IF k = Key THEN Asked ELSE k, pageFetch[k].got)
    BY KeyShown
  <2>2. got \in LoadedPages /\ got # NoPages /\ Whole(k, got)
    <3>1. pageFetch[k].got \in LoadedPages /\ Whole(k, pageFetch[k].got)
      BY DEF BrowseInv, PageFetches
    <3> QED
      BY <3>1, PageContinues
  <2> HIDE DEF got
  <2>3. UNCHANGED <<catalog, search, filter, gallerySkin>>
    BY <1>9 DEF PageAnswered
  <2>4. \/ pages' = [pages EXCEPT ![k] = got] /\ pageFetch' = [pageFetch EXCEPT ![k] = NoPageFetch]
        \/ pageFetch' = [pageFetch EXCEPT ![k].got = got] /\ UNCHANGED pages
    BY <1>9, <2>1, Zenon DEF PageAnswered
  <2>5. pages \in [Keys -> LoadedPages] /\ pageFetch \in [Keys -> PageFetches]
    BY DEF BrowseInv
  <2>6. /\ pages' \in [Keys -> LoadedPages]
        /\ \A f \in Keys : pages'[f] = pages[f] \/ (f = k /\ pages'[f] = got)
    <3>1. pages' = pages \/ pages' = [pages EXCEPT ![k] = got]
      BY <2>4
    <3> QED
      BY <2>2, <2>5, <3>1
  <2>7. /\ pageFetch' \in [Keys -> PageFetches]
        /\ \A f \in Keys : \/ pageFetch'[f].got \in {pageFetch[f].got, NoPages}
                           \/ f = k /\ pageFetch'[f].got = got
    <3>1. CASE pageFetch' = [pageFetch EXCEPT ![k] = NoPageFetch]
      BY <2>5, <3>1, BrowseRecords
    <3>2. CASE pageFetch' = [pageFetch EXCEPT ![k].got = got]
      BY <2>2, <2>5, <3>2 DEF PageFetches
    <3> QED
      BY <2>4, <3>1, <3>2
  <2>8. ASSUME NEW f \in Keys PROVE Whole(f, pages[f])' /\ Whole(f, pageFetch[f].got)'
    <3>1. Whole(f, NoPages)
      BY DEF Whole
    <3>2. Whole(f, pages'[f]) /\ Whole(f, pageFetch'[f].got)
      BY <2>2, <2>6, <2>7, <3>1 DEF BrowseInv
    <3> QED
      BY <2>3, <3>2, FoundStays DEF Whole
  <2> QED
    BY <1>0, <2>3, <2>6, <2>7, <2>8 DEF BrowseInv, Search
<1>10. ASSUME NEW k \in Keys, PageFails(k) PROVE BrowseInv'
  <2>1. UNCHANGED <<catalog, pages, search, filter, gallerySkin>>
        /\ pageFetch' = [pageFetch EXCEPT ![k] = NoPageFetch]
    BY <1>10 DEF PageFails
  <2>2. /\ pageFetch' \in [Keys -> PageFetches]
        /\ \A f \in Keys : pageFetch'[f].got \in {pageFetch[f].got, NoPages}
    BY <2>1, BrowseRecords DEF BrowseInv
  <2>3. ASSUME NEW f \in Keys PROVE Whole(f, pages[f])' /\ Whole(f, pageFetch[f].got)'
    <3>1. Whole(f, pages[f]) /\ Whole(f, pageFetch'[f].got)
      BY <2>2 DEF BrowseInv, Whole
    <3> QED
      BY <2>1, <3>1, FoundStays DEF Whole
  <2> QED
    BY <1>0, <2>1, <2>2, <2>3 DEF BrowseInv, Search
<1>11. CASE UNCHANGED browseVars
  BY <1>0, <1>11, KeyShown, BrowseAsks DEF browseVars
<1> QED
  BY <1>1, <1>2, <1>3, <1>4, <1>5, <1>6, <1>7, <1>8, <1>9, <1>10, <1>11 DEF BrowseNext

\* The loaded pages hold all that matches and nothing else (folio/context.tsx, the catalog
\* query), for every catalog, page size, filter and number of fetches.
THEOREM GallerySettles == BrowseSpec => []SettledGalleryIsWhole
<1>1. BrowseInv => SettledGalleryIsWhole
  <2> SUFFICES ASSUME BrowseInv, ~search.timer, pages[Key].at = "ready", ~HasMore(pages[Key]),
                      pages[Key].since = Len(catalog)
               PROVE  pages[Key].list = Found([text |-> search.typed, filter |-> filter])
    BY DEF SettledGalleryIsWhole
  <2>1. Key \in Keys /\ Key = [text |-> search.typed, filter |-> filter]
    BY KeyShown DEF BrowseInv, Key, CatalogKey
  <2>2. pages[Key] # NoPages /\ pages[Key].list \in Seq(BrowsePieces) /\ pages[Key].total \in Nat
    BY <2>1 DEF BrowseInv, LoadedPages, NoPages
  <2>3. /\ pages[Key].total = Len(Found(Key)) /\ Len(pages[Key].list) <= Len(Found(Key))
        /\ pages[Key].list = SubSeq(Found(Key), 1, Len(pages[Key].list))
    BY <2>1, <2>2 DEF BrowseInv, Whole
  <2>4. Found(Key) \in Seq(BrowsePieces \cap Matches(Key))
    BY FoundMatches DEF BrowseInv
  <2>5. Len(pages[Key].list) = Len(Found(Key))
    BY <2>2, <2>3, <2>4 DEF HasMore
  <2>6. SubSeq(Found(Key), 1, Len(Found(Key))) = Found(Key)
    BY <2>4, SubSeqFull, Zenon
  <2> QED
    BY <2>1, <2>3, <2>5, <2>6
<1> QED
  BY BrowseStarts, BrowseStep, <1>1, PTL DEF BrowseSpec

------------------------------------------------------------------------------
(* The dashboard *)

\* A step of the dashboard is a step of one part, or leaves its variables alone.
LEMMA DashboardStep ==
  [DashboardNext]_dashboardVars =>
    /\ [ViewerNext]_viewerVars /\ [EditsNext]_editsVars /\ [FavoritesNext]_favVars
    /\ [FolioPiecesNext]_folioVars /\ [FolioScreensNext]_folioScreenVars
    /\ [InboxNext]_inboxVars /\ [StreamsNext]_streamVars /\ [SettingsNext]_settingsVars
    /\ [BrowseNext]_browseVars /\ [OfflineNext]_offlineVars
<1> SUFFICES ASSUME [DashboardNext]_dashboardVars
             PROVE  /\ [ViewerNext]_viewerVars /\ [EditsNext]_editsVars /\ [FavoritesNext]_favVars
                    /\ [FolioPiecesNext]_folioVars /\ [FolioScreensNext]_folioScreenVars
                    /\ [InboxNext]_inboxVars /\ [StreamsNext]_streamVars /\ [SettingsNext]_settingsVars
                    /\ [BrowseNext]_browseVars /\ [OfflineNext]_offlineVars
  OBVIOUS
<1> USE DEF DashboardNext, dashboardVars, ViewerRuns, EditsRun, HeartsRun, FolioRuns, FoliosRun,
            InboxRuns, StreamsRun, SettingsRun, GalleryRuns, OfflineRuns
<1>1. [ViewerNext]_viewerVars
  OBVIOUS
<1>2. [EditsNext]_editsVars
  OBVIOUS
<1>3. [FavoritesNext]_favVars
  OBVIOUS
<1>4. [FolioPiecesNext]_folioVars
  OBVIOUS
<1>5. [FolioScreensNext]_folioScreenVars
  OBVIOUS
<1>6. [InboxNext]_inboxVars
  OBVIOUS
<1>7. [StreamsNext]_streamVars
  OBVIOUS
<1>8. [SettingsNext]_settingsVars
  OBVIOUS
<1>9. [BrowseNext]_browseVars
  OBVIOUS
<1>10. [OfflineNext]_offlineVars
  OBVIOUS
<1> QED
  BY <1>1, <1>2, <1>3, <1>4, <1>5, <1>6, <1>7, <1>8, <1>9, <1>10

\* Every part starts as it would alone.
LEMMA DashboardStarts ==
  DashboardInit =>
    /\ ViewerInit /\ EditsInit /\ FavoritesInit /\ FolioPiecesInit /\ FolioScreensInit
    /\ InboxInit /\ StreamsInit /\ SettingsInit /\ BrowseInit /\ OfflineInit
  BY DEF DashboardInit

\* The dashboard implements each of its parts.
THEOREM DashboardImplements ==
  DashboardSpec =>
    /\ ViewerSpec /\ EditsSpec /\ FavoritesSpec /\ FolioPiecesSpec /\ FolioScreensSpec
    /\ InboxSpec /\ StreamsSpec /\ SettingsSpec /\ BrowseSpec /\ OfflineSpec
  BY DashboardStarts, DashboardStep, PTL
  DEF DashboardSpec, ViewerSpec, EditsSpec, FavoritesSpec, FolioPiecesSpec, FolioScreensSpec,
      InboxSpec, StreamsSpec, SettingsSpec, BrowseSpec, OfflineSpec

\* What is proved of the parts holds of the dashboard that the run checks.
THEOREM DashboardHolds ==
  DashboardSpec =>
    /\ []DraftBelongsToPiece /\ []FocusKeepsPanel /\ OpenedIsShown
    /\ []SettledEditIsStored
    /\ []SettledHeartIsStored
    /\ []AddReportIsTrue
    /\ []SettledFoliosAreStored
    /\ []UndoHolds /\ []HiddenIsOnItsWay
    /\ []EnabledWasTested
    /\ []SettledSourcesAreShown
    /\ []SettledGalleryIsWhole
    /\ []OfflineAnswersAreFresh
  BY DashboardImplements, ViewerDrafts, ViewerFocus, ViewerOpens, EditsSettle, HeartsSettle,
     AddReports, FoliosSettle, InboxUndoHolds, InboxLosesNothing, StreamsTested,
     SettingsSettle, GallerySettles, OfflineFresh, PTL

\* The types of the two parts whose invariants need more: the viewer's rest on the draft, and
\* the numbers of the offline stores on the count of the mutators.
LEMMA ViewerTypes == ViewerSpec => []ViewerTypeOK
  BY ViewerTypeStarts, ViewerTypeNext, ViewerDrafts, PTL DEF ViewerSpec

\* The bounds of the offline stores' numbers make their type invariant.
LEMMA OfflineTyping == OfflineSpec => []OfflineTypeOK
<1>1. OfflineInv => OfflineTyped
  BY DEF OfflineInv
<1> QED
  BY OfflineStarts, OfflineBoundStarts, OfflineTypeNext, OfflineBoundStep, OfflineTypes, <1>1, PTL
  DEF OfflineSpec

\* The values of the gallery's pages are what BrowseTypeOK says.
LEMMA BrowseTypes == BrowseInv => BrowseTypeOK
  BY DEF BrowseInv, BrowseTypeOK, LoadedPages, PageFetches

\* Every part of the dashboard keeps to its types, whichever part runs.
THEOREM DashboardTyped == DashboardSpec => []DashboardTypeOK
<1>1. ViewerSpec => []ViewerTypeOK
  BY ViewerTypes
<1>2. EditsSpec => []EditsTypeOK
  <2>1. EditsInv => EditsTypeOK
    BY DEF EditsInv
  <2> QED
    BY EditsStart, EditsStep, <2>1, PTL DEF EditsSpec
<1>3. FavoritesSpec => []FavoritesTypeOK
  <2>1. HeartsInv => FavoritesTypeOK
    BY DEF HeartsInv
  <2> QED
    BY HeartsInit, HeartsStep, <2>1, PTL DEF FavoritesSpec
<1>4. FolioPiecesSpec => []FolioPiecesTypeOK
  <2>1. FolioInv => FolioPiecesTypeOK
    BY DEF FolioInv
  <2> QED
    BY FolioStarts, FolioStep, <2>1, PTL DEF FolioPiecesSpec
<1>5. FolioScreensSpec => []FolioScreensTypeOK
  <2>1. FoliosInv => FolioScreensTypeOK
    BY DEF FoliosInv
  <2> QED
    BY FoliosStart, FoliosStep, <2>1, PTL DEF FolioScreensSpec
<1>6. InboxSpec => []InboxTypeOK
  BY InboxStarts, InboxStep, InboxRestStarts, InboxRestStep, InboxTypes, PTL DEF InboxSpec
<1>7. StreamsSpec => []StreamsTypeOK
  BY StreamsStart, StreamsTypeNext, PTL DEF StreamsSpec
<1>8. SettingsSpec => []SettingsTypeOK
  <2>1. SettingsInv => SettingsTypeOK
    BY DEF SettingsInv
  <2> QED
    BY SettingsStart, SettingsStep, <2>1, PTL DEF SettingsSpec
<1>9. BrowseSpec => []BrowseTypeOK
  BY BrowseStarts, BrowseStep, BrowseTypes, PTL DEF BrowseSpec
<1>10. OfflineSpec => []OfflineTypeOK
  BY OfflineTyping
<1>11. DashboardSpec => [](part \in Parts)
  <2>1. DashboardInit => part \in Parts
    BY DEF DashboardInit
  <2>2. part \in Parts /\ [DashboardNext]_dashboardVars => (part \in Parts)'
    BY DEF DashboardNext, dashboardVars, ViewerRuns, EditsRun, HeartsRun, FolioRuns, FoliosRun,
           InboxRuns, StreamsRun, SettingsRun, GalleryRuns, OfflineRuns
  <2> QED
    BY <2>1, <2>2, PTL DEF DashboardSpec
<1>12. /\ part \in Parts /\ ViewerTypeOK /\ EditsTypeOK /\ FavoritesTypeOK /\ FolioPiecesTypeOK
       /\ FolioScreensTypeOK /\ InboxTypeOK /\ StreamsTypeOK /\ SettingsTypeOK /\ BrowseTypeOK
       /\ OfflineTypeOK
       => DashboardTypeOK
  BY Zenon DEF DashboardTypeOK
<1> QED
  BY DashboardImplements, <1>1, <1>2, <1>3, <1>4, <1>5, <1>6, <1>7, <1>8, <1>9, <1>10, <1>11, <1>12, PTL

=============================================================================
