---------------------------- MODULE FolioScreens ----------------------------
(***************************************************************************)
(* The folios, their screens and their dialogs (folio/Folios.tsx,          *)
(* folio/FolioDetail.tsx, ConfirmationDialog of folio/ui.tsx) with the     *)
(* provider's create, rename, cover and delete actions.  A dialog waits    *)
(* for its answer or is closed before it; the continuation of a request    *)
(* still runs: it closes what its screen has open by then, and it          *)
(* navigates even when the user has moved on.  A folio is absent, or as    *)
(* new as its last change.                                                 *)
(***************************************************************************)
EXTENDS Naturals, FiniteSets

CONSTANTS
  Folios,
  NoFolio,
  MaxRequests   \* bound: requests in a behaviour

ASSUME FolioScreensAssumption == NoFolio \notin Folios /\ MaxRequests \in Nat

Requests == 1..MaxRequests
Shapes == {"absent", "new", "changed"}

VARIABLES
  folioStored,   \* the folios of the server
  folioListed,   \* the folios query
  folioFetch,    \* its refetch: idle, asked, or read with what it read
  page,          \* the screen: the folios, one folio, or another; and the viewport
  dialog,        \* the open sheet, menu or dialog, and the request it waits for (0: none)
  request,       \* the requests, with the continuation that each one has
  unheard        \* history: an answer was lost after the change was made

folioScreenVars == <<folioStored, folioListed, folioFetch, page, dialog, request, unheard>>

NoDialog == [kind |-> "none", of |-> NoFolio, waits |-> 0, armed |-> FALSE]
NoRequest == [at |-> "none", kind |-> "none", of |-> NoFolio, closes |-> FALSE, goes |-> FALSE]

FolioScreensTypeOK ==
  /\ folioStored \in [Folios -> Shapes] /\ folioListed \in [Folios -> Shapes]
  /\ folioFetch \in [at : {"idle", "asked", "read"}, saw : [Folios -> Shapes]]
  /\ page \in [on : {"folios", "folio", "elsewhere"}, of : Folios \cup {NoFolio}, mobile : BOOLEAN]
  /\ dialog \in [kind : {"none", "actions", "create", "rename", "cover", "delete"},
                 of : Folios \cup {NoFolio}, waits : 0..MaxRequests, armed : BOOLEAN]
  /\ request \in [Requests -> [at : {"none", "sent", "served", "refused", "done"},
                               kind : {"none", "create", "rename", "cover", "delete"},
                               of : Folios \cup {NoFolio}, closes : BOOLEAN, goes : BOOLEAN]]
  /\ unheard \in BOOLEAN

FoliosUnread(at) == [at |-> at, saw |-> [f \in Folios |-> "absent"]]

Listed == {f \in Folios : folioListed[f] # "absent"}

------------------------------------------------------------------------------
(* What is rendered *)

\* The Folios screen: New folio, and a tile with a menu for each folio.
FoliosHeaderOffers == {"create"}
FolioTileOffers == IF Listed # {} THEN {"actions", "visit"} ELSE {}
MobileFoliosOffers == FoliosHeaderOffers \cup FolioTileOffers

\* The folio's own screen offers its menu when the folios query holds the folio.
FolioMenuOffers == IF page.of \in Listed THEN {"actions"} ELSE {}

\* Each menu leads to the rename form, the covers and the deletion.
TileMenuOffers == {"rename", "cover", "delete", "close"}
MobileSheetOffers == {"rename", "cover", "delete", "close"}
DetailSheetOffers == {"rename", "cover", "delete", "close"}

\* The mobile menu of a folio takes its first piece for the cover, at once.
DetailMenuOffers == {"rename", "cover", "delete", "close"}

CoverOffers ==
  {"choose", "close"} \cup (IF page.on = "folios" /\ ~page.mobile THEN {"back"} ELSE {})

\* Submit and Cancel are disabled while the answer is awaited; Escape, the backdrop and
\* the Cancel of the mobile sheet are not.
NameModalOffers == (IF dialog.waits = 0 THEN {"submit"} ELSE {}) \cup {"close"}

\* A confirmation closes itself before it sends, so it never waits.
ConfirmationOffers == {"confirm", "close"}

MenuOffers ==
  IF page.on = "folios" THEN (IF page.mobile THEN MobileSheetOffers ELSE TileMenuOffers)
  ELSE IF page.mobile THEN DetailMenuOffers ELSE DetailSheetOffers

\* Menus and dialogs of a folio's own screen, and those of a tile, go with the folio.
Rendered ==
  /\ dialog.kind # "none"
  /\ (page.on = "folio" \/ (~page.mobile /\ dialog.kind \in {"actions", "cover", "delete"}))
       => dialog.of \in Listed

FolioOffers ==
  CASE Rendered /\ dialog.kind = "actions" -> MenuOffers
    [] Rendered /\ dialog.kind = "cover" -> CoverOffers
    [] Rendered /\ dialog.kind = "delete" -> ConfirmationOffers
    [] Rendered /\ dialog.kind \in {"create", "rename"} -> NameModalOffers
    [] ~Rendered /\ page.on = "folios" -> MobileFoliosOffers
    [] ~Rendered /\ page.on = "folio" -> FolioMenuOffers
    [] OTHER -> {}

------------------------------------------------------------------------------
(* Menus and dialogs *)

OpenDialog ==
  /\ \/ "create" \in FolioOffers /\ dialog' = [NoDialog EXCEPT !.kind = "create"]
     \/ /\ "actions" \in FolioOffers
        /\ \E f \in Listed : /\ page.on = "folio" => f = page.of
                             /\ dialog' = [NoDialog EXCEPT !.kind = "actions", !.of = f]
  /\ UNCHANGED <<folioStored, folioListed, folioFetch, page, request, unheard>>

\* An entry of the menu, or back from a tile's covers to it; on mobile the deletion is
\* armed first.
SwitchDialog ==
  /\ \/ \E kind \in {"rename", "cover", "delete"} \cap FolioOffers :
          /\ ~page.mobile \/ kind # "delete"
          /\ ~page.mobile \/ page.on = "folios" \/ kind # "cover"
          /\ dialog' = [dialog EXCEPT !.kind = kind]
     \/ "back" \in FolioOffers /\ dialog' = [dialog EXCEPT !.kind = "actions"]
  /\ UNCHANGED <<folioStored, folioListed, folioFetch, page, request, unheard>>

ArmDelete ==
  /\ page.mobile /\ "delete" \in FolioOffers /\ ~dialog.armed
  /\ dialog' = [dialog EXCEPT !.armed = TRUE]
  /\ UNCHANGED <<folioStored, folioListed, folioFetch, page, request, unheard>>

CloseDialog ==
  /\ "close" \in FolioOffers /\ dialog' = NoDialog
  /\ UNCHANGED <<folioStored, folioListed, folioFetch, page, request, unheard>>

NextRequest(i) == request[i].at = "none" /\ \A k \in Requests : k < i => request[k].at # "none"

Send(i, kind, f, closes, goes) ==
  /\ NextRequest(i)
  /\ request' = [request EXCEPT ![i] =
                   [at |-> "sent", kind |-> kind, of |-> f, closes |-> closes, goes |-> goes]]

\* submit, submitName: the dialog waits; the mobile menu of a folio does not.  A create
\* opens the new folio.
SubmitName(i) ==
  /\ "submit" \in FolioOffers
  /\ \/ /\ dialog.kind = "create"
        /\ \E f \in Folios : folioStored[f] = "absent" /\ Send(i, "create", f, TRUE, TRUE)
        /\ dialog' = [dialog EXCEPT !.waits = i]
     \/ /\ dialog.kind = "rename" /\ ~(page.mobile /\ page.on = "folio")
        /\ Send(i, "rename", dialog.of, TRUE, FALSE)
        /\ dialog' = [dialog EXCEPT !.waits = i]
     \/ /\ dialog.kind = "rename" /\ page.mobile /\ page.on = "folio"
        /\ Send(i, "rename", dialog.of, FALSE, FALSE)
        /\ dialog' = NoDialog
     \/ dialog.kind = "rename" /\ dialog' = NoDialog /\ UNCHANGED request   \* same name
  /\ UNCHANGED <<folioStored, folioListed, folioFetch, page, unheard>>

\* changeFolioCoverAction, from the covers or from the mobile menu.
ChooseCover(i) ==
  /\ "choose" \in FolioOffers \/ (page.mobile /\ page.on = "folio" /\ "cover" \in FolioOffers)
  /\ Send(i, "cover", dialog.of, FALSE, FALSE)
  /\ dialog' = NoDialog
  /\ UNCHANGED <<folioStored, folioListed, folioFetch, page, unheard>>

\* deleteFolioAction, confirmed in the dialog, which closes first, or by the second press
\* on mobile; the menu of a folio's own screen stays until the answer and can be pressed
\* again.
ConfirmDelete(i) ==
  /\ "confirm" \in FolioOffers \/ (page.mobile /\ "delete" \in FolioOffers /\ dialog.armed)
  /\ Send(i, "delete", dialog.of, page.mobile /\ page.on = "folio", page.on = "folio")
  /\ dialog' = IF page.mobile /\ page.on = "folio" THEN dialog ELSE NoDialog
  /\ UNCHANGED <<folioStored, folioListed, folioFetch, page, unheard>>

------------------------------------------------------------------------------
(* Answers *)

\* Slip: an invalidation does not disturb a fetch that is already under way.
InvalidateFolios_Deduplicated ==
  folioFetch' = IF folioFetch.at = "idle" THEN FoliosUnread("asked") ELSE folioFetch

\* invalidateQueries: a fetch under way is cancelled and started again.
InvalidateFolios == folioFetch' = FoliosUnread("asked")

Applied(r) ==
  [folioStored EXCEPT ![r.of] = CASE r.kind = "create" -> "new"
                                  [] r.kind = "delete" -> "absent"
                                  [] OTHER -> "changed"]

\* The handlers of folios/{id}: a change or a deletion of a folio that is gone is a 404.
Possible(r) == (folioStored[r.of] = "absent") = (r.kind = "create")

\* The server makes the change, or refuses it for reasons of its own (a name that is taken).
RequestServed(i) ==
  LET r == request[i]
  IN /\ r.at = "sent"
     /\ \/ /\ Possible(r) /\ folioStored' = Applied(r)
           /\ request' = [request EXCEPT ![i].at = "served"]
        \/ request' = [request EXCEPT ![i].at = "refused"] /\ UNCHANGED folioStored
     /\ UNCHANGED <<folioListed, folioFetch, page, dialog, unheard>>

\* Where a continuation leads, from whatever screen the user is on by then.
Destination(r) ==
  IF ~r.goes THEN page
  ELSE IF r.kind = "create" THEN [page EXCEPT !.on = "folio", !.of = r.of]
  ELSE [page EXCEPT !.on = "folios", !.of = NoFolio]

\* A screen that is left takes its dialogs along, and no continuation can close later ones.
Forgotten == [k \in Requests |-> [request[k] EXCEPT !.closes = FALSE]]

RequestSucceeds(i) ==
  LET r == request[i]
      left == Destination(r) # page
  IN /\ r.at = "served"
     /\ page' = Destination(r)
     /\ dialog' = IF r.closes \/ left THEN NoDialog ELSE dialog
     /\ request' = [(IF left THEN Forgotten ELSE request) EXCEPT ![i] = [NoRequest EXCEPT !.at = "done"]]
     /\ InvalidateFolios
     /\ UNCHANGED <<folioStored, folioListed, unheard>>

\* A refusal, or an answer that is lost: the dialog that waits is enabled again, and the
\* list is not refetched.
RequestFails(i) ==
  /\ request[i].at \in {"served", "refused"}
  /\ unheard' = (unheard \/ request[i].at = "served")
  /\ dialog' = IF dialog.waits = i THEN [dialog EXCEPT !.waits = 0] ELSE dialog
  /\ request' = [request EXCEPT ![i] = [NoRequest EXCEPT !.at = "done"]]
  /\ UNCHANGED <<folioStored, folioListed, folioFetch, page>>

FoliosRead ==
  /\ folioFetch.at = "asked" /\ folioFetch' = [at |-> "read", saw |-> folioStored]
  /\ UNCHANGED <<folioStored, folioListed, page, dialog, request, unheard>>

FoliosShown ==
  /\ folioFetch.at = "read" /\ folioFetch' = FoliosUnread("idle")
  /\ folioListed' = folioFetch.saw
  /\ UNCHANGED <<folioStored, page, dialog, request, unheard>>

\* A link or the browser's history; entering a screen that uses the folios may refetch them.
GoTo ==
  /\ \E on \in {"folios", "folio", "elsewhere"}, f \in Folios :
       /\ on # page.on /\ (on = "folio" => f \in Listed)
       /\ page' = [page EXCEPT !.on = on, !.of = IF on = "folio" THEN f ELSE NoFolio]
       /\ \/ folioFetch.at = "idle" /\ on # "elsewhere" /\ InvalidateFolios
          \/ UNCHANGED folioFetch
  /\ dialog' = NoDialog /\ request' = Forgotten
  /\ UNCHANGED <<folioStored, folioListed, unheard>>

------------------------------------------------------------------------------
FolioScreensInit ==
  /\ folioStored \in [Folios -> {"absent", "new"}] /\ folioListed = folioStored
  /\ folioFetch = FoliosUnread("idle")
  /\ page \in [on : {"folios"}, of : {NoFolio}, mobile : BOOLEAN]
  /\ dialog = NoDialog /\ request = [i \in Requests |-> NoRequest]
  /\ unheard = FALSE

FolioScreensNext ==
  \/ OpenDialog \/ SwitchDialog \/ ArmDelete \/ CloseDialog
  \/ \E i \in Requests :
       \/ SubmitName(i) \/ ChooseCover(i) \/ ConfirmDelete(i)
       \/ RequestServed(i) \/ RequestSucceeds(i) \/ RequestFails(i)
  \/ FoliosRead \/ FoliosShown \/ GoTo

FolioScreensSpec == FolioScreensInit /\ [][FolioScreensNext]_folioScreenVars

------------------------------------------------------------------------------
(* Properties *)

\* Once the requests and the refetches are over, every screen lists the folios the server
\* holds, however changes, late answers and refetches were interleaved; only an answer
\* lost after the change leaves the list behind until the next visit.
SettledFoliosAreStored ==
  folioFetch.at = "idle" /\ ~unheard /\ (\A i \in Requests : request[i].at \in {"none", "done"})
    => folioListed = folioStored

=============================================================================
