---------------------------- MODULE FolioPieces ----------------------------
(***************************************************************************)
(* The pieces of one folio (folio/FolioDetail.tsx with the provider's      *)
(* addPiecesToFolioAction, addPieceToFolioAction and                       *)
(* removePieceFromFolioAction).  The picker adds the picked pieces one     *)
(* request after the other and stops at the first failure; the selection   *)
(* removes its pieces with requests that run side by side.  What the       *)
(* screen holds of the folio is a query's copy: the first page or more, as *)
(* of its last answer.  On desktop the backdrop closes the picker while it *)
(* adds, and a picker opened meanwhile starts a job of its own.            *)
(***************************************************************************)
EXTENDS Integers, FiniteSets

CONSTANTS
  FolioIds,    \* pieces of the gallery
  MaxJobs,     \* bound: presses of Add
  MaxRemovals  \* bound: removals sent

ASSUME FolioPiecesAssumption ==
  IsFiniteSet(FolioIds) /\ MaxJobs \in Nat /\ MaxRemovals \in Nat

Jobs == 1..MaxJobs

VARIABLES
  members,      \* the folio on the server
  loaded,       \* the pages the screen holds: existingIds and the tiles
  folioQuery,   \* the pieces query: loading, error or ready
  selection,    \* selectionMode and selectedIds
  pickerBox,    \* the picker: open, the job it waits for (0: none), its picks
  job,          \* the runs of addPiecesToFolioAction
  removing,     \* removals in flight
  removals,
  leftFolio     \* history: pieces that a removal took out of the folio

folioVars == <<members, loaded, folioQuery, selection, pickerBox, job, removing, removals, leftFolio>>

NoJob == [at |-> "none", asked |-> {}, todo |-> {}, existing |-> 0, added |-> 0, dup |-> 0, failed |-> 0]
ClosedPicker == [open |-> FALSE, waits |-> 0, picked |-> {}]
NoSelection == [mode |-> FALSE, ids |-> {}]

FolioPiecesTypeOK ==
  /\ members \subseteq FolioIds /\ loaded \subseteq FolioIds
  /\ folioQuery \in {"loading", "error", "ready"}
  /\ selection \in [mode : BOOLEAN, ids : SUBSET FolioIds]
  /\ pickerBox \in [open : BOOLEAN, waits : 0..MaxJobs, picked : SUBSET FolioIds]
  /\ job \in [Jobs -> [at : {"none", "running", "ok", "error"}, asked : SUBSET FolioIds,
                       todo : SUBSET FolioIds, existing : Nat, added : Nat, dup : Nat, failed : Nat]]
  /\ removing \subseteq FolioIds /\ removals \in 0..MaxRemovals
  /\ leftFolio \subseteq FolioIds

------------------------------------------------------------------------------
(* What the screen renders *)

\* A tile opens the viewer, or in selection mode is toggled.
TileOffers == IF selection.mode THEN {"toggle"} ELSE {"open"}

DetailBodyOffers ==
  IF folioQuery = "ready" /\ loaded # {} /\ ~pickerBox.open THEN TileOffers ELSE {}

\* The open picker is modal: it covers the header, the tiles and the bar.
DesktopHeaderOffers == IF pickerBox.open THEN {} ELSE {"select", "addPieces"}

\* The bar of the selection mode; mobile renders it without the removal.
SelectionBarOffers ==
  IF selection.mode /\ ~pickerBox.open
  THEN {"clear"} \cup (IF selection.ids # {} THEN {"remove"} ELSE {}) ELSE {}

\* Done, Add and Load more are disabled while the picker waits, Cancel too.
PickerHeadOffers == IF pickerBox.waits = 0 THEN {"cancel"} ELSE {}
PickerConfirmOffers == IF pickerBox.picked # {} /\ pickerBox.waits = 0 THEN {"add"} ELSE {}

\* A tile is disabled for the pieces the screen knows to be in the folio and while adding.
PickerTileOffers == IF pickerBox.waits = 0 THEN FolioIds \ loaded ELSE {}

\* The desktop backdrop is never disabled.
BackdropOffers == IF pickerBox.open THEN {"close"} ELSE {}

------------------------------------------------------------------------------
(* The picker *)

OpenPicker ==
  /\ "addPieces" \in DesktopHeaderOffers
  /\ pickerBox' = [ClosedPicker EXCEPT !.open = TRUE]
  /\ UNCHANGED <<members, loaded, folioQuery, selection, job, removing, removals, leftFolio>>

ClosePicker ==
  /\ "close" \in BackdropOffers \/ (pickerBox.open /\ "cancel" \in PickerHeadOffers)
  /\ pickerBox' = ClosedPicker
  /\ UNCHANGED <<members, loaded, folioQuery, selection, job, removing, removals, leftFolio>>

\* toggle: a pick that was loaded meanwhile stays picked.
TogglePick ==
  /\ pickerBox.open /\ pickerBox.waits = 0
  /\ \E p \in PickerTileOffers :
       pickerBox' = [pickerBox EXCEPT !.picked = IF p \in @ THEN @ \ {p} ELSE @ \cup {p}]
  /\ UNCHANGED <<members, loaded, folioQuery, selection, job, removing, removals, leftFolio>>

\* addSelected, and addPiecesToFolioAction up to its loop: the pieces the screen holds are
\* counted as duplicates and not sent; when none is left the job is over.
AddSelected(j) ==
  /\ pickerBox.open /\ "add" \in PickerConfirmOffers
  /\ job[j].at = "none" /\ \A i \in Jobs : i < j => job[i].at # "none"
  /\ LET known == pickerBox.picked \cap loaded
     IN /\ job' = [job EXCEPT ![j] =
             [NoJob EXCEPT !.at = IF pickerBox.picked \subseteq known THEN "ok" ELSE "running",
                           !.asked = pickerBox.picked, !.todo = pickerBox.picked \ known,
                           !.existing = Cardinality(known), !.dup = Cardinality(known)]]
        /\ pickerBox' = IF pickerBox.picked \subseteq known THEN ClosedPicker
                        ELSE [pickerBox EXCEPT !.waits = j]
  /\ UNCHANGED <<members, loaded, folioQuery, selection, removing, removals, leftFolio>>

\* The awaited job is over: a success closes the picker, whichever is open by then; the
\* flag is that of the picker that started it.
Returns(j, ok) ==
  pickerBox' = IF ok THEN ClosedPicker
               ELSE IF pickerBox.waits = j THEN [pickerBox EXCEPT !.waits = 0]
               ELSE pickerBox

\* Slip: the pieces known beforehand count as answers of the loop.
FailedCount_KnownTwice(j) ==
  Cardinality(job[j].asked) - job[j].existing - job[j].added - job[j].dup

\* result.failed: what was to be sent, less what was answered.
FailedCount(j) ==
  Cardinality(job[j].asked) - job[j].existing - job[j].added - (job[j].dup - job[j].existing)

\* One request of the loop.  A failure stops it: the piece and those after it have failed,
\* although the server may have stored the one whose answer was lost.
AddNext(j) ==
  /\ job[j].at = "running"
  /\ \E p \in job[j].todo :
       \/ LET rest == job[j].todo \ {p}
          IN /\ members' = members \cup {p}
             /\ job' = [job EXCEPT
                  ![j].todo = rest,
                  ![j].added = IF p \in members THEN @ ELSE @ + 1,
                  ![j].dup = IF p \in members THEN @ + 1 ELSE @,
                  ![j].at = IF rest = {} THEN "ok" ELSE @]
             /\ IF rest = {} THEN Returns(j, TRUE) ELSE UNCHANGED pickerBox
       \/ /\ \E stored \in BOOLEAN : members' = IF stored THEN members \cup {p} ELSE members
          /\ job' = [job EXCEPT ![j].at = "error", ![j].failed = FailedCount(j)]
          /\ Returns(j, FALSE)
  /\ UNCHANGED <<loaded, folioQuery, selection, removing, removals, leftFolio>>

------------------------------------------------------------------------------
(* One piece, the selection, and the queries *)

\* addPieceToFolioAction, from the viewer's folio picker.
AddOne ==
  /\ \E p \in FolioIds : members' = members \cup {p}
  /\ UNCHANGED <<loaded, folioQuery, selection, pickerBox, job, removing, removals, leftFolio>>

ToggleSelectionMode ==
  /\ "select" \in DesktopHeaderOffers
  /\ selection' = [mode |-> ~selection.mode, ids |-> {}]
  /\ UNCHANGED <<members, loaded, folioQuery, pickerBox, job, removing, removals, leftFolio>>

ToggleSelected ==
  /\ "toggle" \in DetailBodyOffers
  /\ \E p \in loaded : selection' = [selection EXCEPT !.ids = IF p \in @ THEN @ \ {p} ELSE @ \cup {p}]
  /\ UNCHANGED <<members, loaded, folioQuery, pickerBox, job, removing, removals, leftFolio>>

ClearSelection ==
  /\ "clear" \in SelectionBarOffers /\ selection' = NoSelection
  /\ UNCHANGED <<members, loaded, folioQuery, pickerBox, job, removing, removals, leftFolio>>

\* removeSelectedFromFolio: a request for each piece at once, and the selection is cleared.
RemoveSelected ==
  /\ "remove" \in SelectionBarOffers
  /\ removals + Cardinality(selection.ids) <= MaxRemovals
  /\ removals' = removals + Cardinality(selection.ids)
  /\ removing' = removing \cup selection.ids /\ selection' = NoSelection
  /\ UNCHANGED <<members, loaded, folioQuery, pickerBox, job, leftFolio>>

\* removePieceFromFolioAction: an answer, or a failure that leaves the piece.
RemovalAnswered ==
  /\ \E p \in removing :
       /\ removing' = removing \ {p}
       /\ \/ members' = members \ {p} /\ leftFolio' = leftFolio \cup {p}
          \/ UNCHANGED <<members, leftFolio>>
  /\ UNCHANGED <<loaded, folioQuery, selection, pickerBox, job, removals>>

\* The pieces query answers with the pages loaded so far, or fails.
FolioAnswers ==
  /\ \/ folioQuery' = "ready" /\ \E page \in SUBSET members : loaded' = page
     \/ folioQuery = "loading" /\ folioQuery' = "error" /\ UNCHANGED loaded
  /\ UNCHANGED <<members, selection, pickerBox, job, removing, removals, leftFolio>>

------------------------------------------------------------------------------
FolioPiecesInit ==
  /\ members \in SUBSET FolioIds /\ loaded = {} /\ folioQuery = "loading"
  /\ selection = NoSelection /\ pickerBox = ClosedPicker
  /\ job = [j \in Jobs |-> NoJob]
  /\ removing = {} /\ removals = 0 /\ leftFolio = {}

FolioPiecesNext ==
  \/ OpenPicker \/ ClosePicker \/ TogglePick
  \/ \E j \in Jobs : AddSelected(j) \/ AddNext(j)
  \/ AddOne \/ ToggleSelectionMode \/ ToggleSelected \/ ClearSelection
  \/ RemoveSelected \/ RemovalAnswered \/ FolioAnswers

FolioPiecesSpec == FolioPiecesInit /\ [][FolioPiecesNext]_folioVars

------------------------------------------------------------------------------
(* Properties *)

\* What a job reports is true: its counts make up the pieces that were picked, and a job
\* that reports success has left none of them out of the folio, although the copy it
\* skipped known pieces by may be old: a piece that is missing was removed.
AddReportIsTrue ==
  \A j \in Jobs :
    /\ job[j].at \in {"ok", "error"} =>
         job[j].added + job[j].dup + job[j].failed = Cardinality(job[j].asked)
    /\ job[j].at = "ok" => job[j].asked \subseteq members \cup leftFolio

=============================================================================
