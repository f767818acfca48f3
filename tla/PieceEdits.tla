----------------------------- MODULE PieceEdits -----------------------------
(***************************************************************************)
(* Metadata edits as the provider applies them (folio/context.tsx): the    *)
(* new values are shown at once as overrides of what the catalog query     *)
(* holds, the request is sent, its answer is written to the override and   *)
(* the cached pages, and a failure restores the override that was there    *)
(* when the edit began.  One field stands for the five; its value is the   *)
(* edit that wrote it last.  Requests reach the server, and answers come   *)
(* back, in any order; an answer may be lost after the write.  The gallery *)
(* selects the pieces of a bulk edit (folio/Gallery.tsx), and the bar      *)
(* under it (folio/BulkEditBar.tsx) sends them.                            *)
(***************************************************************************)
EXTENDS Naturals, FiniteSets

CONSTANTS
  EditPieces,
  MaxEdits,    \* bound: edits in a behaviour
  MaxRefetches \* bound: refetches the window's focus causes

ASSUME PieceEditsAssumption ==
  IsFiniteSet(EditPieces) /\ MaxEdits \in Nat /\ MaxRefetches \in Nat

Values == 0..MaxEdits      \* 0: the value before any edit
NoOverride == MaxEdits + 1
Edits == 1..MaxEdits

VARIABLES
  stored,     \* the values the server holds
  cached,     \* the pages of folio-catalog and folio-pieces
  override,   \* metadataOverrides
  edit,       \* the requests, by edit
  refetch,    \* the catalog query's fetch: idle, asked, or read with what it read
  refetches,
  bulk,       \* selectionMode, selectedIds, and the edit the bar is busy with (0: none)
  clouded     \* history: pieces whose edits overlapped or lost an answer

editsVars == <<stored, cached, override, edit, refetch, refetches, bulk, clouded>>

EditState ==
  [at : {"none", "sent", "written", "refused", "lost", "done"},
   pieces : SUBSET EditPieces,
   previous : [EditPieces -> Values \cup {NoOverride}],
   many : BOOLEAN,    \* sent by the bar
   alone : BOOLEAN]   \* history: no other edit of its pieces was in flight with it

EditsTypeOK ==
  /\ stored \in [EditPieces -> Values] /\ cached \in [EditPieces -> Values]
  /\ override \in [EditPieces -> Values \cup {NoOverride}]
  /\ edit \in [Edits -> EditState]
  /\ refetch \in [at : {"idle", "asked", "read"}, saw : [EditPieces -> Values]]
  /\ refetches \in 0..MaxRefetches
  /\ bulk \in [mode : BOOLEAN, ids : SUBSET EditPieces, waits : 0..MaxEdits]
  /\ clouded \subseteq EditPieces

NoEdit(at) ==
  [at |-> at, pieces |-> {}, previous |-> [p \in EditPieces |-> NoOverride],
   many |-> FALSE, alone |-> TRUE]

NoBulk == [mode |-> FALSE, ids |-> {}, waits |-> 0]

InFlight(e) == edit[e].at \in {"sent", "written", "refused", "lost"}
Touches(e, ps) == InFlight(e) /\ edit[e].pieces \cap ps # {}

\* overlayPiece: the override wins over the catalog.
ShownValue(p) == IF override[p] = NoOverride THEN cached[p] ELSE override[p]

PagesUnread(at) == [at |-> at, saw |-> [p \in EditPieces |-> 0]]

\* invalidateQueries: a fetch under way is cancelled and started again.
Invalidate == refetch' = PagesUnread("asked")

------------------------------------------------------------------------------
(* Edits *)

\* editPieceMetadata for one piece, bulkEditPieces for several, up to their requests.
\* The previous overrides are those of the render that the click belongs to.
BeginEdit(e, ps, many) ==
  /\ edit[e].at = "none" /\ \A d \in Edits : d < e => edit[d].at # "none"
  /\ LET others == {d \in Edits : Touches(d, ps)}
     IN /\ edit' = [d \in Edits |->
             IF d = e THEN [at |-> "sent", pieces |-> ps, previous |-> override,
                            many |-> many, alone |-> others = {}]
             ELSE IF d \in others THEN [edit[d] EXCEPT !.alone = FALSE]
             ELSE edit[d]]
        /\ clouded' = clouded \cup UNION {ps \cap edit[d].pieces : d \in others}
  /\ override' = [p \in EditPieces |-> IF p \in ps THEN e ELSE override[p]]
  /\ UNCHANGED <<stored, cached, refetch, refetches>>

\* The form of the viewer, which leaves the screen under it as it is.
EditOne(e) == \E p \in EditPieces : BeginEdit(e, {p}, FALSE) /\ UNCHANGED bulk

\* apply, of the bar: the selection stays until the answer.
EditMany(e) ==
  /\ bulk.mode /\ bulk.ids # {} /\ bulk.waits = 0
  /\ BeginEdit(e, bulk.ids, TRUE) /\ bulk' = [bulk EXCEPT !.waits = e]

\* PATCH photos/{id} and POST catalog/bulk-edit: the server writes all pieces of the request
\* in one transaction or refuses it; the answer to a write may be lost.
ServerHandles(e) ==
  /\ edit[e].at = "sent"
  /\ \/ /\ \E at \in {"written", "lost"} : edit' = [edit EXCEPT ![e].at = at]
        /\ stored' = [p \in EditPieces |-> IF p \in edit[e].pieces THEN e ELSE stored[p]]
     \/ edit' = [edit EXCEPT ![e].at = "refused"] /\ UNCHANGED stored
  /\ UNCHANGED <<cached, override, refetch, refetches, bulk, clouded>>

\* updatePhotoInCaches, updatePhotosInInfiniteCaches: the answer's photos replace those of
\* the pages and become the overrides.
WriteToCaches(e) ==
  /\ cached' = [p \in EditPieces |-> IF p \in edit[e].pieces THEN e ELSE cached[p]]
  /\ override' = [p \in EditPieces |-> IF p \in edit[e].pieces THEN e ELSE override[p]]

EditSucceeds(e) ==
  /\ edit[e].at = "written"
  /\ WriteToCaches(e) /\ Invalidate
  /\ bulk' = IF edit[e].many THEN NoBulk ELSE bulk   \* onClear, of whatever is selected now
  /\ edit' = [edit EXCEPT ![e] = NoEdit("done")]
  /\ clouded' = IF edit[e].alone THEN clouded \ edit[e].pieces ELSE clouded
  /\ UNCHANGED <<stored, refetches>>

\* Slip: the previous overrides are read after the optimistic ones were set.
RolledBack_TooLate(e) == override

\* The catch clause: the override the edit found, or none.
RolledBack(e) ==
  [p \in EditPieces |-> IF p \in edit[e].pieces THEN edit[e].previous[p] ELSE override[p]]

EditFails(e) ==
  /\ edit[e].at \in {"refused", "lost"}
  /\ override' = RolledBack(e) /\ Invalidate
  /\ bulk' = IF bulk.waits = e THEN [bulk EXCEPT !.waits = 0] ELSE bulk
  /\ edit' = [edit EXCEPT ![e] = NoEdit("done")]
  /\ clouded' = IF edit[e].at = "lost" THEN clouded \cup edit[e].pieces ELSE clouded
  /\ UNCHANGED <<stored, cached, refetches>>

------------------------------------------------------------------------------
(* The selection *)

\* Select, Done and the bar's Clear: the bar is mounted anew each time.
ToggleSelect ==
  /\ bulk' = [NoBulk EXCEPT !.mode = ~bulk.mode]
  /\ UNCHANGED <<stored, cached, override, edit, refetch, refetches, clouded>>

\* A tile of the selection grid; a filter that hides the piece leaves it selected.
SelectPiece(p) ==
  /\ bulk.mode /\ bulk' = [bulk EXCEPT !.ids = IF p \in @ THEN @ \ {p} ELSE @ \cup {p}]
  /\ UNCHANGED <<stored, cached, override, edit, refetch, refetches, clouded>>

------------------------------------------------------------------------------
(* The catalog query *)

Refocus ==
  /\ refetch.at = "idle" /\ refetches < MaxRefetches
  /\ refetches' = refetches + 1 /\ Invalidate
  /\ UNCHANGED <<stored, cached, override, edit, bulk, clouded>>

CatalogReads ==
  /\ refetch.at = "asked" /\ refetch' = [at |-> "read", saw |-> stored]
  /\ UNCHANGED <<stored, cached, override, edit, refetches, bulk, clouded>>

CatalogAnswers ==
  /\ refetch.at = "read" /\ refetch' = PagesUnread("idle")
  /\ cached' = refetch.saw
  /\ UNCHANGED <<stored, override, edit, refetches, bulk, clouded>>

------------------------------------------------------------------------------
EditsInit ==
  /\ stored = [p \in EditPieces |-> 0] /\ cached = stored
  /\ override = [p \in EditPieces |-> NoOverride]
  /\ edit = [e \in Edits |-> NoEdit("none")]
  /\ refetch = PagesUnread("idle") /\ refetches = 0
  /\ bulk = NoBulk /\ clouded = {}

EditsNext ==
  \/ \E e \in Edits : EditOne(e) \/ EditMany(e) \/ ServerHandles(e) \/ EditSucceeds(e) \/ EditFails(e)
  \/ ToggleSelect \/ \E p \in EditPieces : SelectPiece(p)
  \/ Refocus \/ CatalogReads \/ CatalogAnswers

EditsSpec == EditsInit /\ [][EditsNext]_editsVars

------------------------------------------------------------------------------
(* Properties *)

\* Once the edits of a piece and the refetches are over, the piece is shown as the server
\* holds it, after any sequence of edits, refusals and rollbacks in which no two edits of
\* the piece overlapped and no answer was lost.  An override never expires, so a wrong one
\* would hide the truth from every later refetch.
SettledEditIsStored ==
  \A p \in EditPieces \ clouded :
    refetch.at = "idle" /\ (\A e \in Edits : ~Touches(e, {p})) => ShownValue(p) = stored[p]

=============================================================================
