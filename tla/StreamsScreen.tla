--------------------------- MODULE StreamsScreen ---------------------------
(***************************************************************************)
(* The Streams screen (folio/Streams.tsx) with its editor, for one web     *)
(* gallery; the destination of a source and its backfill are in module     *)
(* SettingsScreen, whose forms have the same controls.  The editor lets a  *)
(* source be saved as enabled only after a test of the very values it      *)
(* saves.  Its fields stay open while a test or a save is out, its close   *)
(* button too, and what the list offers is a query's copy, which may be    *)
(* older than the source.                                                  *)
(***************************************************************************)
EXTENDS Naturals

CONSTANTS
  Configs,      \* what formConfig can make of the form
  NoConfig,
  MaxCalls      \* bound: requests in a behaviour

ASSUME StreamsAssumption ==
  Configs # {} /\ NoConfig \notin Configs /\ MaxCalls \in Nat

Calls == 1..MaxCalls
SourceRows == [there : BOOLEAN, config : Configs, enabled : BOOLEAN]

VARIABLES
  source,       \* the source on the server
  sourceCopy,   \* what the connector-sources query holds of it
  sourceAsked,  \* a refetch is under way
  editor,       \* WebGalleryEditor: its source, form, preview and previewKey
  call,         \* the requests
  streamBusy,   \* busyConnectors.webgallery
  vouched       \* history: the configurations that passed a test or were enabled at first

streamVars == <<source, sourceCopy, sourceAsked, editor, call, streamBusy, vouched>>

NoRow == [there |-> FALSE, config |-> CHOOSE c \in Configs : TRUE, enabled |-> FALSE]
ClosedEditor == [open |-> FALSE, base |-> NoRow, form |-> NoRow, preview |-> FALSE, key |-> NoConfig, waits |-> 0]
NoCall == [at |-> "none", kind |-> "none", row |-> NoRow, before |-> NoRow, puts |-> FALSE]

StreamsTypeOK ==
  /\ source \in SourceRows /\ sourceCopy \in SourceRows /\ sourceAsked \in BOOLEAN
  /\ editor \in [open : BOOLEAN, base : SourceRows, form : SourceRows, preview : BOOLEAN,
                 key : Configs \cup {NoConfig}, waits : 0..MaxCalls]
  /\ call \in [Calls -> [at : {"none", "sent", "served", "refused", "done"},
                         kind : {"none", "test", "save", "toggle", "delete"},
                         row : SourceRows, before : SourceRows, puts : BOOLEAN]]
  /\ streamBusy \in BOOLEAN
  /\ vouched \subseteq Configs

Unsent(i) == call[i].at = "none" /\ \A k \in Calls : k < i => call[k].at # "none"

SendCall(i, kind, row, before, puts) ==
  call' = [call EXCEPT ![i] =
             [at |-> "sent", kind |-> kind, row |-> row, before |-> before, puts |-> puts]]

------------------------------------------------------------------------------
(* What is rendered *)

StreamsOffers == IF editor.open THEN {} ELSE {"create"}

RowOffers ==
  IF editor.open \/ streamBusy \/ ~sourceCopy.there THEN {} ELSE {"edit", "toggle", "delete"}

\* The card of a connector, on mobile, turns all of its sources.
StreamCardOffers ==
  IF editor.open \/ streamBusy \/ ~sourceCopy.there THEN {} ELSE {"toggleAll"}

\* Slip: a preview on the screen stands for whatever values the form has.
PreviewOK_AnyValues ==
  editor.preview \/ (editor.base.enabled /\ editor.key = editor.form.config)

PreviewOK == editor.key = editor.form.config /\ (editor.preview \/ editor.base.enabled)

CanSaveEnabled == ~editor.form.enabled \/ PreviewOK

\* The fields and the close button are never disabled.
EditorOffers ==
  IF ~editor.open THEN {}
  ELSE {"type", "close"}
       \cup (IF editor.waits = 0 /\ ~streamBusy THEN {"test"} ELSE {})
       \cup (IF editor.waits = 0 /\ ~streamBusy /\ CanSaveEnabled
             THEN {"save"} ELSE {})

------------------------------------------------------------------------------
(* The editor *)

\* initialForm, and previewKey for a source that is enabled as it stands.
EditorFor(row) ==
  [open |-> TRUE, base |-> row, form |-> row, preview |-> FALSE,
   key |-> IF row.enabled THEN row.config ELSE NoConfig, waits |-> 0]

\* toggleSource opens the editor, too, for a source that is not enabled.
OpenEditor ==
  /\ \/ "create" \in StreamsOffers /\ editor' = EditorFor(NoRow)
     \/ "edit" \in RowOffers /\ editor' = EditorFor(sourceCopy)
     \/ "toggle" \in RowOffers /\ ~sourceCopy.enabled /\ editor' = EditorFor(sourceCopy)
  /\ UNCHANGED <<source, sourceCopy, sourceAsked, call, streamBusy, vouched>>

CloseEditor ==
  /\ "close" \in EditorOffers /\ editor' = ClosedEditor
  /\ UNCHANGED <<source, sourceCopy, sourceAsked, call, streamBusy, vouched>>

\* setValue: a change of what is tested drops the preview.
SetConfig ==
  /\ "type" \in EditorOffers
  /\ \E c \in Configs : editor' = [editor EXCEPT !.form.config = c, !.preview = FALSE, !.key = NoConfig]
  /\ UNCHANGED <<source, sourceCopy, sourceAsked, call, streamBusy, vouched>>

\* setValue for what the preview does not depend on.
SetOther ==
  /\ "type" \in EditorOffers /\ editor' = [editor EXCEPT !.form.enabled = ~@]
  /\ UNCHANGED <<source, sourceCopy, sourceAsked, call, streamBusy, vouched>>

Test(i) ==
  /\ "test" \in EditorOffers /\ Unsent(i)
  /\ SendCall(i, "test", editor.form, NoRow, FALSE)
  /\ editor' = [editor EXCEPT !.waits = i]
  /\ UNCHANGED <<source, sourceCopy, sourceAsked, streamBusy, vouched>>

\* The answer belongs to the values that were sent, whatever the form holds by now.
TestAnswered(i) ==
  /\ call[i].kind = "test" /\ call[i].at = "sent"
  /\ call' = [call EXCEPT ![i] = [NoCall EXCEPT !.at = "done"]]
  /\ \E ok \in BOOLEAN :
       /\ vouched' = IF ok THEN vouched \cup {call[i].row.config} ELSE vouched
       /\ editor' = IF editor.waits # i THEN editor
                    ELSE [editor EXCEPT !.preview = ok, !.waits = 0,
                                        !.key = IF ok THEN call[i].row.config ELSE NoConfig]
  /\ UNCHANGED <<source, sourceCopy, sourceAsked, streamBusy>>

Save(i) ==
  /\ "save" \in EditorOffers /\ Unsent(i)
  /\ SendCall(i, "save", [editor.form EXCEPT !.there = TRUE], editor.base, FALSE)
  /\ editor' = [editor EXCEPT !.waits = i]
  /\ UNCHANGED <<source, sourceCopy, sourceAsked, streamBusy, vouched>>

------------------------------------------------------------------------------
(* The rows *)

\* toggleConnector and toggleSource send the whole row of the copy; the first turns the
\* copy at once.
ToggleOff(i) ==
  /\ sourceCopy.enabled /\ Unsent(i)
  /\ \E all \in BOOLEAN :
       /\ IF all THEN "toggleAll" \in StreamCardOffers ELSE "toggle" \in RowOffers
       /\ SendCall(i, "toggle", [sourceCopy EXCEPT !.enabled = FALSE], sourceCopy, all)
       /\ sourceCopy' = IF all THEN [sourceCopy EXCEPT !.enabled = FALSE] ELSE sourceCopy
  /\ streamBusy' = TRUE
  /\ UNCHANGED <<source, sourceAsked, editor, vouched>>

\* confirmRemoveSource, from a dialog that another request may have overtaken.
RemoveSource(i) ==
  /\ ~editor.open /\ sourceCopy.there /\ Unsent(i)
  /\ SendCall(i, "delete", sourceCopy, NoRow, FALSE) /\ streamBusy' = TRUE
  /\ UNCHANGED <<source, sourceCopy, sourceAsked, editor, vouched>>

\* settings/connector-sources: a create, or a change of a source that is there; or a refusal.
CallServed(i) ==
  LET c == call[i]
  IN /\ c.at = "sent" /\ c.kind # "test"
     /\ \/ /\ source.there = (c.kind # "save" \/ c.before.there)
           /\ source' = IF c.kind = "delete" THEN NoRow ELSE c.row
           /\ call' = [call EXCEPT ![i].at = "served"]
        \/ call' = [call EXCEPT ![i].at = "refused"] /\ UNCHANGED source
     /\ UNCHANGED <<sourceCopy, sourceAsked, editor, streamBusy, vouched>>

\* onSaved closes the editor that is open by then; a failed save, or one whose answer is
\* lost, refetches nothing.
SaveReturns(i) ==
  /\ call[i].kind = "save" /\ call[i].at \in {"served", "refused"}
  /\ \/ call[i].at = "served" /\ editor' = ClosedEditor /\ sourceAsked' = TRUE
     \/ /\ editor' = IF editor.waits = i THEN [editor EXCEPT !.waits = 0] ELSE editor
        /\ UNCHANGED sourceAsked
  /\ call' = [call EXCEPT ![i] = [NoCall EXCEPT !.at = "done"]]
  /\ UNCHANGED <<source, sourceCopy, streamBusy, vouched>>

\* Toggles and removals refetch either way; toggleConnector puts the old copy back first.
RowAnswered(i) ==
  /\ call[i].kind \in {"toggle", "delete"} /\ call[i].at \in {"served", "refused"}
  /\ \/ call[i].at = "served" /\ UNCHANGED sourceCopy
     \/ sourceCopy' = IF call[i].puts THEN call[i].before ELSE sourceCopy
  /\ sourceAsked' = TRUE /\ streamBusy' = FALSE
  /\ call' = [call EXCEPT ![i] = [NoCall EXCEPT !.at = "done"]]
  /\ UNCHANGED <<source, editor, vouched>>

SourcesRefetched ==
  /\ sourceAsked /\ sourceAsked' = FALSE /\ sourceCopy' = source
  /\ UNCHANGED <<source, editor, call, streamBusy, vouched>>

------------------------------------------------------------------------------
StreamsInit ==
  /\ source \in [there : {TRUE}, config : Configs, enabled : BOOLEAN]
  /\ sourceCopy = source /\ sourceAsked = FALSE
  /\ editor = ClosedEditor /\ call = [i \in Calls |-> NoCall]
  /\ streamBusy = FALSE
  /\ vouched = IF source.enabled THEN {source.config} ELSE {}

StreamsNext ==
  \/ OpenEditor \/ CloseEditor \/ SetConfig \/ SetOther
  \/ \E i \in Calls :
       \/ Test(i) \/ TestAnswered(i) \/ Save(i) \/ ToggleOff(i) \/ RemoveSource(i)
       \/ CallServed(i) \/ SaveReturns(i) \/ RowAnswered(i)
  \/ SourcesRefetched

StreamsSpec == StreamsInit /\ [][StreamsNext]_streamVars

------------------------------------------------------------------------------
(* Properties *)

\* A web gallery that is enabled runs with values that passed a test, or that it was enabled
\* with before, although the form can be typed in while the test is out and the source the
\* editor started from may be an old copy.
EnabledWasTested == source.there /\ source.enabled => source.config \in vouched

=============================================================================
