--------------------------- MODULE SettingsScreen ---------------------------
(***************************************************************************)
(* The Telegram sources of Settings (folio/Settings.tsx) with the          *)
(* destination controls of their forms (folio/DestinationControls.tsx).    *)
(* The screen keeps the sources in its own state: every change sends a     *)
(* request and then reads the list again, one await after the other.  A    *)
(* busy flag disables the forms and the Edit and Remove buttons, but not   *)
(* the switch of a source, so two such chains can overlap.                 *)
(***************************************************************************)
EXTENDS Naturals

CONSTANTS
  TgSources,
  NoTgSource,
  MaxChains,    \* bound: changes, with the reading on mount
  FullBatches   \* bound: full batches a backfill finds

ASSUME SettingsAssumption ==
  NoTgSource \notin TgSources /\ MaxChains \in Nat \ {0} /\ FullBatches \in Nat

Chains == 1..MaxChains
Destinations == {"library", "folio", "nowhere"}   \* nowhere: hidden, and no folio
TgRows == [there : BOOLEAN, on : BOOLEAN, dest : Destinations]
NoTgRow == [there |-> FALSE, on |-> FALSE, dest |-> "library"]

VARIABLES
  telegram,     \* the sources of the server
  tgShown,      \* sources
  tgAdd,        \* the destination of the form that adds
  tgEdit,       \* the source in the edit form, and its destination
  chain,        \* the changes and the readings under way
  sourceBusy,
  folioMade,    \* the folio that a form creates: whose it is
  backfill,     \* the backfill of the edit form, and its full batches left
  overlapped    \* history: the last list came from a chain that was not alone, or from none

settingsVars == <<telegram, tgShown, tgAdd, tgEdit, chain, sourceBusy, folioMade, backfill, overlapped>>

NoChain == [at |-> "none", kind |-> "none", of |-> NoTgSource, row |-> NoTgRow,
            saw |-> [s \in TgSources |-> NoTgRow], alone |-> FALSE]
NoTgEdit == [of |-> NoTgSource, dest |-> "library"]
NoBackfill == [at |-> "idle", left |-> 0]

SettingsTypeOK ==
  /\ telegram \in [TgSources -> TgRows] /\ tgShown \in [TgSources -> TgRows]
  /\ tgAdd \in Destinations
  /\ tgEdit \in [of : TgSources \cup {NoTgSource}, dest : Destinations]
  /\ chain \in [Chains -> [at : {"none", "sent", "served", "refused", "asked", "read", "done"},
                           kind : {"none", "mount", "add", "edit", "toggle", "remove"},
                           of : TgSources \cup {NoTgSource}, row : TgRows,
                           saw : [TgSources -> TgRows], alone : BOOLEAN]]
  /\ sourceBusy \in BOOLEAN /\ folioMade \in {"none", "add", "edit"}
  /\ backfill \in [at : {"idle", "confirm", "running"}, left : 0..FullBatches]
  /\ overlapped \in BOOLEAN

UnderWay == {i \in Chains : chain[i].at \notin {"none", "done"}}
Fresh(i) == chain[i].at = "none" /\ \A k \in Chains : k < i => chain[k].at # "none"

\* A chain starts; those under way are not alone any more.
Started(i, at, kind, s, row) ==
  [k \in Chains |->
     IF k = i THEN [NoChain EXCEPT !.at = at, !.kind = kind, !.of = s, !.row = row,
                                   !.alone = UnderWay = {}]
     ELSE [chain[k] EXCEPT !.alone = FALSE]]

------------------------------------------------------------------------------
(* What is rendered *)

\* destinationGateMessage.
DestinationError(dest) == dest = "nowhere"

AddOffers == IF sourceBusy \/ DestinationError(tgAdd) THEN {} ELSE {"add"}

\* The switch of a source is never disabled.
TgRowOffers == {"toggle"} \cup (IF sourceBusy THEN {} ELSE {"edit", "remove"})

EditOffers ==
  IF sourceBusy \/ tgEdit.of = NoTgSource THEN {}
  ELSE {"cancel"} \cup (IF DestinationError(tgEdit.dest) THEN {} ELSE {"save"})

\* DestinationControls: canBackfill compares the form with the source in the list.
ControlsOffers ==
  IF sourceBusy THEN {}
  ELSE {"destination"} \cup (IF folioMade = "none" THEN {"create"} ELSE {})

BackfillOffers ==
  IF /\ ~sourceBusy /\ tgEdit.of # NoTgSource /\ tgEdit.dest = "folio"
     /\ tgShown[tgEdit.of].dest = "folio" /\ backfill.at # "running"
  THEN {"backfill"} ELSE {}

------------------------------------------------------------------------------
(* Forms *)

BeginEditSource(s) ==
  /\ "edit" \in TgRowOffers /\ tgShown[s].there
  /\ tgEdit' = [of |-> s, dest |-> tgShown[s].dest]
  /\ UNCHANGED <<telegram, tgShown, tgAdd, chain, sourceBusy, folioMade, backfill, overlapped>>

CancelEditSource ==
  /\ "cancel" \in EditOffers /\ tgEdit' = NoTgEdit
  /\ UNCHANGED <<telegram, tgShown, tgAdd, chain, sourceBusy, folioMade, backfill, overlapped>>

ChooseDestination ==
  /\ "destination" \in ControlsOffers
  /\ \E dest \in Destinations :
       \/ tgAdd' = dest /\ UNCHANGED tgEdit
       \/ tgEdit.of # NoTgSource /\ tgEdit' = [tgEdit EXCEPT !.dest = dest] /\ UNCHANGED tgAdd
  /\ UNCHANGED <<telegram, tgShown, chain, sourceBusy, folioMade, backfill, overlapped>>

\* create, of the controls in either form.
CreateFolio ==
  /\ "create" \in ControlsOffers
  /\ \/ folioMade' = "add"
     \/ tgEdit.of # NoTgSource /\ folioMade' = "edit"
  /\ UNCHANGED <<telegram, tgShown, tgAdd, tgEdit, chain, sourceBusy, backfill, overlapped>>

\* The new folio becomes the destination in the form, whichever source it edits by now.
FolioCreated ==
  /\ folioMade # "none" /\ folioMade' = "none"
  /\ \/ folioMade = "add" /\ tgAdd' = "folio" /\ UNCHANGED tgEdit
     \/ folioMade = "edit" /\ tgEdit' = [tgEdit EXCEPT !.dest = "folio"] /\ UNCHANGED tgAdd
     \/ UNCHANGED <<tgAdd, tgEdit>>
  /\ UNCHANGED <<telegram, tgShown, chain, sourceBusy, backfill, overlapped>>

RequestBackfill ==
  /\ "backfill" \in BackfillOffers /\ backfill' = [backfill EXCEPT !.at = "confirm"]
  /\ UNCHANGED <<telegram, tgShown, tgAdd, tgEdit, chain, sourceBusy, folioMade, overlapped>>

\* runBackfill looks at the controls again, and calls until a batch is not full.
ConfirmBackfill ==
  /\ backfill.at = "confirm"
  /\ \/ /\ "backfill" \in BackfillOffers
        /\ \E n \in 0..FullBatches : backfill' = [at |-> "running", left |-> n]
     \/ backfill' = NoBackfill
  /\ UNCHANGED <<telegram, tgShown, tgAdd, tgEdit, chain, sourceBusy, folioMade, overlapped>>

\* Slip: one batch more after the last full one.
BackfillBatch_OffByOne ==
  /\ backfill.at = "running"
  /\ \/ backfill.left >= 0 /\ backfill' = [backfill EXCEPT !.left = @ - 1]
     \/ backfill' = NoBackfill
  /\ UNCHANGED <<telegram, tgShown, tgAdd, tgEdit, chain, sourceBusy, folioMade, overlapped>>

BackfillBatch ==
  /\ backfill.at = "running"
  /\ \/ backfill.left > 0 /\ backfill' = [backfill EXCEPT !.left = @ - 1]
     \/ backfill' = NoBackfill
  /\ UNCHANGED <<telegram, tgShown, tgAdd, tgEdit, chain, sourceBusy, folioMade, overlapped>>

------------------------------------------------------------------------------
(* Changes *)

\* saveSource: the server knows no other source of the chat.
SaveSource(i) ==
  /\ "add" \in AddOffers /\ Fresh(i)
  /\ \E s \in TgSources :
       /\ ~telegram[s].there
       /\ chain' = Started(i, "sent", "add", s, [there |-> TRUE, on |-> TRUE, dest |-> tgAdd])
  /\ sourceBusy' = TRUE
  /\ UNCHANGED <<telegram, tgShown, tgAdd, tgEdit, folioMade, backfill, overlapped>>

\* saveEditedSource: the form, and the switch as the list has it.
SaveEditedSource(i) ==
  /\ "save" \in EditOffers /\ Fresh(i)
  /\ chain' = Started(i, "sent", "edit", tgEdit.of, [tgShown[tgEdit.of] EXCEPT !.dest = tgEdit.dest])
  /\ sourceBusy' = TRUE
  /\ UNCHANGED <<telegram, tgShown, tgAdd, tgEdit, folioMade, backfill, overlapped>>

\* toggleSource sends the whole row of the list.
ToggleSource(i) ==
  /\ "toggle" \in TgRowOffers /\ Fresh(i)
  /\ \E s \in TgSources :
       /\ tgShown[s].there /\ tgEdit.of # s
       /\ chain' = Started(i, "sent", "toggle", s, [tgShown[s] EXCEPT !.on = ~@])
  /\ sourceBusy' = TRUE
  /\ UNCHANGED <<telegram, tgShown, tgAdd, tgEdit, folioMade, backfill, overlapped>>

RemoveTgSource(i) ==
  /\ "remove" \in TgRowOffers /\ Fresh(i)
  /\ \E s \in TgSources :
       tgShown[s].there /\ tgEdit.of # s /\ chain' = Started(i, "sent", "remove", s, NoTgRow)
  /\ sourceBusy' = TRUE
  /\ UNCHANGED <<telegram, tgShown, tgAdd, tgEdit, folioMade, backfill, overlapped>>

\* settings/connector-sources: the server makes the change, or refuses it.
ChangeServed(i) ==
  LET c == chain[i]
  IN /\ c.at = "sent"
     /\ \/ /\ telegram[c.of].there = (c.kind # "add")
           /\ telegram' = [telegram EXCEPT ![c.of] = c.row]
           /\ chain' = [chain EXCEPT ![i].at = "served"]
        \/ chain' = [chain EXCEPT ![i].at = "refused"] /\ UNCHANGED telegram
     /\ UNCHANGED <<tgShown, tgAdd, tgEdit, sourceBusy, folioMade, backfill, overlapped>>

\* finally: the flag is cleared, whatever other chain is under way.
ChainOver(i) ==
  /\ chain' = [chain EXCEPT ![i] = [NoChain EXCEPT !.at = "done"]]
  /\ sourceBusy' = (sourceBusy /\ chain[i].kind = "mount")

\* Slip: a removal does not read the list again.
ChangeSucceeds_Unread(i) ==
  /\ chain[i].at = "served"
  /\ IF chain[i].kind = "remove" THEN ChainOver(i)
     ELSE chain' = [chain EXCEPT ![i].at = "asked"] /\ UNCHANGED sourceBusy
  /\ tgAdd' = IF chain[i].kind = "add" THEN "library" ELSE tgAdd
  /\ tgEdit' = IF chain[i].kind = "edit" THEN NoTgEdit ELSE tgEdit
  /\ UNCHANGED <<telegram, tgShown, folioMade, backfill, overlapped>>

\* The await returns: the form that sent it is cleared, and the list is read again.
ChangeSucceeds(i) ==
  /\ chain[i].at = "served" /\ chain' = [chain EXCEPT ![i].at = "asked"]
  /\ tgAdd' = IF chain[i].kind = "add" THEN "library" ELSE tgAdd
  /\ tgEdit' = IF chain[i].kind = "edit" THEN NoTgEdit ELSE tgEdit
  /\ UNCHANGED <<telegram, tgShown, sourceBusy, folioMade, backfill, overlapped>>

\* A refusal, an answer that is lost, or a reading that fails: the list stays as it is.
ChainFails(i) ==
  /\ chain[i].at \in {"served", "refused", "asked", "read"}
  /\ ChainOver(i)
  /\ overlapped' = (overlapped \/ chain[i].at # "refused")
  /\ UNCHANGED <<telegram, tgShown, tgAdd, tgEdit, folioMade, backfill>>

\* reloadSources: both of its requests are answered.
ReloadReads(i) ==
  /\ chain[i].at = "asked"
  /\ chain' = [chain EXCEPT ![i].at = "read", ![i].saw = telegram]
  /\ UNCHANGED <<telegram, tgShown, tgAdd, tgEdit, sourceBusy, folioMade, backfill, overlapped>>

ReloadShown(i) ==
  /\ chain[i].at = "read" /\ tgShown' = chain[i].saw
  /\ overlapped' = ~chain[i].alone
  /\ ChainOver(i)
  /\ UNCHANGED <<telegram, tgAdd, tgEdit, folioMade, backfill>>

------------------------------------------------------------------------------
SettingsInit ==
  /\ telegram \in [TgSources -> {NoTgRow, [NoTgRow EXCEPT !.there = TRUE, !.on = TRUE]}]
  /\ tgShown = [s \in TgSources |-> NoTgRow]
  /\ tgAdd = "library" /\ tgEdit = NoTgEdit
  /\ chain = [i \in Chains |->
       IF i = 1 THEN [NoChain EXCEPT !.at = "asked", !.kind = "mount", !.alone = TRUE] ELSE NoChain]
  /\ sourceBusy = FALSE /\ folioMade = "none" /\ backfill = NoBackfill
  /\ overlapped = FALSE

SettingsNext ==
  \/ \E s \in TgSources : BeginEditSource(s)
  \/ CancelEditSource \/ ChooseDestination \/ CreateFolio \/ FolioCreated
  \/ RequestBackfill \/ ConfirmBackfill \/ BackfillBatch
  \/ \E i \in Chains :
       \/ SaveSource(i) \/ SaveEditedSource(i) \/ ToggleSource(i) \/ RemoveTgSource(i)
       \/ ChangeServed(i) \/ ChangeSucceeds(i) \/ ChainFails(i) \/ ReloadReads(i) \/ ReloadShown(i)

SettingsSpec == SettingsInit /\ [][SettingsNext]_settingsVars

------------------------------------------------------------------------------
(* Properties *)

\* After a change that no other one overlapped, and whose list came back, the screen shows
\* the sources as the server has them; the switch, which is never disabled, is what lets
\* two overlap.
SettledSourcesAreShown == UnderWay = {} /\ ~overlapped => tgShown = telegram

=============================================================================
