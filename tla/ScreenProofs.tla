---------------------------- MODULE ScreenProofs ----------------------------
(***************************************************************************)
(* Proofs about the Inbox, the Streams screen, the folios, the Telegram    *)
(* sources of Settings and the offline stores.  The inbox: a dismissal is  *)
(* a timer or a request, and never both nor, once undone, either.          *)
(* Streams: a test vouches for the values it was run on, and every row     *)
(* that is enabled somewhere carries such values.  Folios and sources: a   *)
(* screen differs from the server only while a change or its list is on    *)
(* the way, or one was lost.  Offline: what is stored, or on its way to    *)
(* be, is as new as every change a mutator has cleared for, unless it      *)
(* escaped the clearing.                                                   *)
(***************************************************************************)
EXTENDS InboxScreen, StreamsScreen, FolioScreens, SettingsScreen, OfflineCache,
        FiniteSetTheorems, TLAPS

------------------------------------------------------------------------------
(* The inbox *)

\* The requests as InboxTypeOK types them.
ResolveStates ==
  [at : {"none", "sent", "served", "failed", "done"}, of : Items \cup {NoItem},
   kind : {"none", "dismiss", "keep", "skip", "move"}, here : BOOLEAN]

\* What the requests alone tell: their types, an item answered for does not wait any more,
\* and an item that was taken back has no dismissal left.
InboxInv ==
  /\ resolve \in [Resolves -> ResolveStates]
  /\ hidden \subseteq Items /\ dismissTimer \subseteq Items
  /\ \A r \in Resolves : resolve[r].at = "served" => resolve[r].of \notin waiting
  /\ \A i \in takenBack :
       i \notin dismissTimer /\ \A r \in Resolves :
         resolve[r].of = i /\ resolve[r].at \in {"sent", "served", "failed"} => resolve[r].kind # "dismiss"
  /\ \A i \in hidden \cap waiting :
       i \in dismissTimer \/ \E r \in Resolves :
         /\ resolve[r].of = i /\ resolve[r].at \in {"sent", "failed"}
         /\ resolve[r].kind = "dismiss" /\ resolve[r].here

\* The state a screen starts in.
LEMMA InboxStarts == InboxInit => InboxInv
  BY DEF InboxInit, InboxInv, NoResolve, ResolveStates

\* What a request that is sent changes: one request, of a place that was free.
LEMMA InboxSent ==
  ASSUME InboxInv, NEW r \in Resolves, Free(r), NEW i \in Items,
         NEW kind \in {"dismiss", "keep", "skip", "move"}, NEW here \in BOOLEAN,
         resolve' = Sent(r, i, kind, here)
  PROVE  /\ resolve' \in [Resolves -> ResolveStates]
         /\ resolve'[r] = [at |-> "sent", of |-> i, kind |-> kind, here |-> here]
         /\ \A k \in Resolves \ {r} : resolve'[k] = resolve[k]
         /\ resolve[r].at = "none"
  BY DEF InboxInv, ResolveStates, Free, Sent

\* A step of the screen, of the server or of an answer keeps all of it.
LEMMA InboxStep == InboxInv /\ [InboxNext]_inboxVars => InboxInv'
<1> SUFFICES ASSUME InboxInv, [InboxNext]_inboxVars PROVE InboxInv'
  OBVIOUS
<1>1. ASSUME NEW i \in Items, DismissWithUndo(i) PROVE InboxInv'
  BY <1>1 DEF DismissWithUndo, InboxInv
<1>2. ASSUME NEW r \in Resolves, CommitDismiss(r) PROVE InboxInv'
  <2>1. PICK i \in dismissTimer : dismissTimer' = dismissTimer \ {i} /\ resolve' = Sent(r, i, "dismiss", TRUE)
    BY <1>2 DEF CommitDismiss
  <2>2. i \in Items /\ Free(r)
    BY <1>2 DEF InboxInv, CommitDismiss
  <2>3. /\ resolve' \in [Resolves -> ResolveStates]
        /\ resolve'[r] = [at |-> "sent", of |-> i, kind |-> "dismiss", here |-> TRUE]
        /\ \A k \in Resolves \ {r} : resolve'[k] = resolve[k]
        /\ resolve[r].at = "none"
    BY <2>1, <2>2, InboxSent
  <2>4. UNCHANGED <<waiting, hidden, takenBack>>
    BY <1>2 DEF CommitDismiss
  <2>5. ASSUME NEW q \in hidden' \cap waiting'
        PROVE  q \in dismissTimer' \/ \E k \in Resolves :
                 /\ resolve'[k].of = q /\ resolve'[k].at \in {"sent", "failed"}
                 /\ resolve'[k].kind = "dismiss" /\ resolve'[k].here
    <3>1. CASE q = i
      BY <2>3, <3>1
    <3>2. CASE q # i
      <4>1. CASE q \in dismissTimer
        BY <2>1, <3>2, <4>1
      <4>2. ASSUME NEW k \in Resolves, resolve[k].of = q, resolve[k].at \in {"sent", "failed"},
                   resolve[k].kind = "dismiss", resolve[k].here
            PROVE  resolve'[k] = resolve[k]
        BY <2>3, <4>2
      <4> QED
        BY <2>4, <2>5, <4>1, <4>2 DEF InboxInv
    <3> QED
      BY <3>1, <3>2
  <2>6. ASSUME NEW q \in takenBack'
        PROVE  q \notin dismissTimer' /\ \A k \in Resolves :
                 resolve'[k].of = q /\ resolve'[k].at \in {"sent", "served", "failed"}
                   => resolve'[k].kind # "dismiss"
    <3>1. q # i
      BY <2>1, <2>4, <2>6 DEF InboxInv
    <3>2. q \in takenBack /\ q \notin dismissTimer'
      BY <2>1, <2>4, <2>6 DEF InboxInv
    <3>3. ASSUME NEW k \in Resolves, resolve'[k].of = q,
                 resolve'[k].at \in {"sent", "served", "failed"}
          PROVE  resolve'[k].kind # "dismiss"
      <4>1. k # r
        BY <2>3, <3>1, <3>3
      <4>2. resolve'[k] = resolve[k]
        BY <2>3, <4>1
      <4> QED
        BY <3>2, <3>3, <4>2 DEF InboxInv
    <3> QED
      BY <3>2, <3>3
  <2>7. \A k \in Resolves : resolve'[k].at = "served" => resolve'[k].of \notin waiting'
    BY <2>3, <2>4 DEF InboxInv
  <2>8. hidden' \subseteq Items /\ dismissTimer' \subseteq Items
    BY <2>1, <2>4 DEF InboxInv
  <2> QED
    BY <2>3, <2>5, <2>6, <2>7, <2>8 DEF InboxInv
<1>3. ASSUME NEW r \in Resolves, ResolveServed(r) PROVE InboxInv'
  <2> USE DEF ResolveStates
  <2>1. PICK at \in {"served", "failed"} : resolve' = [resolve EXCEPT ![r].at = at]
    BY <1>3 DEF ResolveServed
  <2>2. waiting' \subseteq waiting /\ (at = "served" => resolve[r].of \notin waiting')
    BY <1>3, <2>1 DEF ResolveServed, InboxInv
  <2>3. resolve[r].at = "sent" /\ UNCHANGED <<hidden, dismissTimer, takenBack>>
    BY <1>3 DEF ResolveServed
  <2>4. /\ resolve' \in [Resolves -> ResolveStates] /\ resolve'[r].at = at
        /\ resolve'[r].of = resolve[r].of /\ resolve'[r].kind = resolve[r].kind
        /\ resolve'[r].here = resolve[r].here
        /\ \A k \in Resolves \ {r} : resolve'[k] = resolve[k]
    BY <2>1 DEF InboxInv
  <2>5. ASSUME NEW i \in hidden' \cap waiting'
        PROVE  i \in dismissTimer' \/ \E k \in Resolves :
                 /\ resolve'[k].of = i /\ resolve'[k].at \in {"sent", "failed"}
                 /\ resolve'[k].kind = "dismiss" /\ resolve'[k].here
    BY <2>2, <2>3, <2>4, <2>5 DEF InboxInv
  <2> QED
    BY <2>2, <2>3, <2>4, <2>5 DEF InboxInv
<1>4. ASSUME NEW r \in Resolves, ResolveAnswered(r) PROVE InboxInv'
  <2>1. resolve' = [resolve EXCEPT ![r] = [NoResolve EXCEPT !.at = "done"]]
    BY <1>4 DEF ResolveAnswered
  <2>2. /\ resolve' \in [Resolves -> ResolveStates] /\ resolve'[r].at = "done"
        /\ \A k \in Resolves \ {r} : resolve'[k] = resolve[k]
    BY <2>1 DEF InboxInv, NoResolve, ResolveStates
  <2>3. resolve[r].at \in {"served", "failed"} /\ UNCHANGED <<waiting, dismissTimer, takenBack>>
    BY <1>4 DEF ResolveAnswered
  <2>4. /\ hidden' \subseteq hidden
        /\ resolve[r].at = "failed" /\ resolve[r].kind = "dismiss" /\ resolve[r].here =>
             resolve[r].of \notin hidden'
    BY <1>4 DEF ResolveAnswered, Restored
  <2>5. ASSUME NEW i \in hidden' \cap waiting'
        PROVE  i \in dismissTimer' \/ \E k \in Resolves :
                 /\ resolve'[k].of = i /\ resolve'[k].at \in {"sent", "failed"}
                 /\ resolve'[k].kind = "dismiss" /\ resolve'[k].here
    BY <2>2, <2>3, <2>4, <2>5 DEF InboxInv
  <2> QED
    BY <2>2, <2>3, <2>4, <2>5 DEF InboxInv
<1>5. ASSUME NEW r \in Resolves, NEW i \in Items, NEW kind \in {"keep", "move", "skip"},
             RowAction(r, i, kind) PROVE InboxInv'
  <2>1. /\ resolve' \in [Resolves -> ResolveStates]
        /\ resolve'[r] = [at |-> "sent", of |-> i, kind |-> kind, here |-> FALSE]
        /\ \A k \in Resolves \ {r} : resolve'[k] = resolve[k]
        /\ resolve[r].at = "none"
    <3>1. Free(r) /\ resolve' = Sent(r, i, kind, FALSE)
      BY <1>5 DEF RowAction
    <3> QED
      BY <3>1, InboxSent
  <2>2. takenBack' = takenBack \ {i} /\ UNCHANGED <<waiting, hidden, dismissTimer>>
    BY <1>5 DEF RowAction
  <2> QED
    BY <2>1, <2>2 DEF InboxInv
<1>6. CASE UndoDismiss
  <2>1. /\ dismissTimer' = dismissTimer \ {undoItem} /\ hidden' = hidden \ {undoItem}
        /\ UNCHANGED <<waiting, resolve>>
    BY <1>6 DEF UndoDismiss
  <2>2. takenBack' = takenBack \/ (takenBack' = takenBack \cup {undoItem} /\ Out(undoItem) = {})
    BY <1>6 DEF UndoDismiss
  <2> QED
    BY <2>1, <2>2 DEF InboxInv, Out
<1>7. CASE LeaveInbox
  <2> DEFINE free == {r \in Resolves : resolve[r].at = "none"}
  <2>1. PICK of \in [free -> dismissTimer \cup {NoItem}] :
          resolve' = [r \in Resolves |->
            IF r \in free /\ of[r] # NoItem
            THEN [at |-> "sent", of |-> of[r], kind |-> "dismiss", here |-> FALSE]
            ELSE [resolve[r] EXCEPT !.here = FALSE]]
    BY <1>7 DEF LeaveInbox
  <2>2. hidden' = {} /\ dismissTimer' = {} /\ UNCHANGED <<waiting, takenBack>>
    BY <1>7 DEF LeaveInbox
  <2>3. ASSUME NEW r \in Resolves
        PROVE  /\ resolve'[r] \in ResolveStates
               /\ \/ /\ resolve'[r].at = "sent" /\ resolve'[r].of \in dismissTimer
                  \/ /\ resolve'[r].at = resolve[r].at /\ resolve'[r].of = resolve[r].of
                     /\ resolve'[r].kind = resolve[r].kind
    <3>0. resolve[r] \in ResolveStates
      BY DEF InboxInv
    <3>1. CASE r \in free /\ of[r] # NoItem
      <4>1. resolve'[r] = [at |-> "sent", of |-> of[r], kind |-> "dismiss", here |-> FALSE]
        BY <2>1, <3>1
      <4>2. of[r] \in dismissTimer
        BY <3>1
      <4> QED
        BY <4>1, <4>2, <3>1 DEF ResolveStates, InboxInv
    <3>2. CASE ~(r \in free /\ of[r] # NoItem)
      <4>1. resolve'[r] = [resolve[r] EXCEPT !.here = FALSE]
        BY <2>1, <3>2
      <4> QED
        BY <4>1, <3>0 DEF ResolveStates
    <3> QED
      BY <3>1, <3>2
  <2>4. resolve' \in [Resolves -> ResolveStates]
    BY <2>1, <2>3
  <2> QED
    BY <2>2, <2>3, <2>4 DEF InboxInv
<1>8. CASE EnterInbox \/ Rotate \/ ChangeTab \/ InboxRefetched \/ UNCHANGED inboxVars
  BY <1>8 DEF EnterInbox, Rotate, ChangeTab, InboxRefetched, inboxVars, InboxInv
<1> QED
  BY <1>1, <1>2, <1>3, <1>4, <1>5, <1>6, <1>7, <1>8 DEF InboxNext

\* A dismissal undone before it was sent is never carried out (folio/Inbox.tsx, undoDismiss
\* against the timers and the unmount), for any number of items and requests.
THEOREM InboxUndoHolds == InboxSpec => []UndoHolds
<1>1. InboxInv => UndoHolds
  BY DEF InboxInv, UndoHolds, Out
<1> QED
  BY InboxStarts, InboxStep, <1>1, PTL DEF InboxSpec

\* No item stays hidden and unresolved with nothing under way for it (folio/Inbox.tsx,
\* commitDismiss and its failures), for any number of items and requests.
THEOREM InboxLosesNothing == InboxSpec => []HiddenIsOnItsWay
<1>1. InboxInv => HiddenIsOnItsWay
  BY DEF InboxInv, HiddenIsOnItsWay, Out
<1> QED
  BY InboxStarts, InboxStep, <1>1, PTL DEF InboxSpec

\* The rest of the screen's types.
InboxRest ==
  /\ waiting \subseteq Items /\ inboxListed \subseteq Items /\ takenBack \subseteq Items
  /\ undoItem \in Items \cup {NoItem} /\ inboxAsked \in BOOLEAN
  /\ inboxView \in [mounted : BOOLEAN, mobile : BOOLEAN]

\* They hold at first ...
LEMMA InboxRestStarts == InboxInit => InboxRest
  BY DEF InboxInit, InboxRest

\* ... and every step keeps them.
LEMMA InboxRestStep == InboxRest /\ [InboxNext]_inboxVars => InboxRest'
<1> SUFFICES ASSUME InboxRest, [InboxNext]_inboxVars PROVE InboxRest'
  OBVIOUS
<1> USE DEF InboxRest
<1>1. ASSUME NEW i \in Items, DismissWithUndo(i) PROVE InboxRest'
  BY <1>1 DEF DismissWithUndo
<1>2. ASSUME NEW r \in Resolves, CommitDismiss(r) PROVE InboxRest'
  BY <1>2 DEF CommitDismiss
<1>3. ASSUME NEW r \in Resolves, ResolveServed(r) PROVE InboxRest'
  BY <1>3 DEF ResolveServed
<1>4. ASSUME NEW r \in Resolves, ResolveAnswered(r) PROVE InboxRest'
  BY <1>4 DEF ResolveAnswered, UndoOver
<1>5. ASSUME NEW r \in Resolves, NEW i \in Items, NEW kind, RowAction(r, i, kind) PROVE InboxRest'
  BY <1>5 DEF RowAction
<1>6. CASE UndoDismiss
  BY <1>6 DEF UndoDismiss, UndoOffered
<1>7. CASE LeaveInbox
  BY <1>7 DEF LeaveInbox
<1>8. CASE EnterInbox
  <2>1. inboxAsked' \in BOOLEAN
    BY <1>8 DEF EnterInbox
  <2> QED
    BY <1>8, <2>1 DEF EnterInbox
<1>9. CASE Rotate
  BY <1>9 DEF Rotate
<1>10. CASE ChangeTab
  BY <1>10 DEF ChangeTab
<1>11. CASE InboxRefetched
  BY <1>11 DEF InboxRefetched
<1>12. CASE UNCHANGED inboxVars
  BY <1>12 DEF inboxVars
<1> QED
  BY <1>1, <1>2, <1>3, <1>4, <1>5, <1>6, <1>7, <1>8, <1>9, <1>10, <1>11, <1>12 DEF InboxNext

\* With the requests they are the type invariant.
LEMMA InboxTypes == InboxInv /\ InboxRest => InboxTypeOK
  BY DEF InboxInv, InboxRest, InboxTypeOK, ResolveStates

------------------------------------------------------------------------------
(* Streams *)

VouchedRow(row) == row.enabled => row.config \in vouched

\* Every enabled row that the server, the screen, the editor or a request holds has a
\* configuration that passed a test, and so has the key of the editor's preview.
StreamsVouched ==
  /\ VouchedRow(source) /\ VouchedRow(sourceCopy) /\ VouchedRow(editor.base)
  /\ editor.key # NoConfig => editor.key \in vouched
  /\ \A i \in Calls : call[i].kind # "test" => VouchedRow(call[i].row) /\ VouchedRow(call[i].before)

\* No source is a row that is not enabled.
LEMMA NoRowTyped == NoRow \in SourceRows /\ ~NoRow.enabled
  BY StreamsAssumption DEF NoRow, SourceRows

\* The requests and the editor as StreamsTypeOK types them.
CallStates ==
  [at : {"none", "sent", "served", "refused", "done"},
   kind : {"none", "test", "save", "toggle", "delete"},
   row : SourceRows, before : SourceRows, puts : BOOLEAN]

EditorStates ==
  [open : BOOLEAN, base : SourceRows, form : SourceRows, preview : BOOLEAN,
   key : Configs \cup {NoConfig}, waits : 0..MaxCalls]

\* No request and the closed editor are of these types.
LEMMA NoCallTyped == NoCall \in CallStates /\ ClosedEditor \in EditorStates
  BY NoRowTyped, StreamsAssumption DEF NoCall, CallStates, ClosedEditor, EditorStates

\* The type invariant of the Streams screen is inductive.
LEMMA StreamsTypeNext == StreamsTypeOK /\ [StreamsNext]_streamVars => StreamsTypeOK'
<1> SUFFICES ASSUME StreamsTypeOK, [StreamsNext]_streamVars PROVE StreamsTypeOK'
  OBVIOUS
<1>t. /\ source \in SourceRows /\ sourceCopy \in SourceRows /\ sourceAsked \in BOOLEAN
      /\ editor \in EditorStates /\ call \in [Calls -> CallStates]
      /\ streamBusy \in BOOLEAN /\ vouched \subseteq Configs
  BY DEF StreamsTypeOK, EditorStates, CallStates
<1>g. /\ source' \in SourceRows /\ sourceCopy' \in SourceRows /\ sourceAsked' \in BOOLEAN
      /\ editor' \in EditorStates /\ call' \in [Calls -> CallStates]
      /\ streamBusy' \in BOOLEAN /\ vouched' \subseteq Configs
      => StreamsTypeOK'
  BY DEF StreamsTypeOK, EditorStates, CallStates
<1>s. ASSUME NEW i \in Calls, NEW row \in SourceRows, NEW before \in SourceRows, NEW puts \in BOOLEAN,
             NEW kind \in {"none", "test", "save", "toggle", "delete"},
             SendCall(i, kind, row, before, puts)
      PROVE  call' \in [Calls -> CallStates]
  BY <1>t, <1>s DEF SendCall, CallStates
<1>d. ASSUME NEW i \in Calls PROVE [call EXCEPT ![i] = [NoCall EXCEPT !.at = "done"]] \in [Calls -> CallStates]
  BY <1>t, NoCallTyped DEF CallStates
<1>e. ASSUME NEW ok \in BOOLEAN, NEW key \in Configs \cup {NoConfig}
      PROVE  [editor EXCEPT !.preview = ok, !.waits = 0, !.key = key] \in EditorStates
  <2>1. 0 \in 0..MaxCalls
    BY StreamsAssumption
  <2> QED
    BY <1>t, <2>1 DEF EditorStates
<1>1. CASE OpenEditor
  <2>1. ASSUME NEW row \in SourceRows PROVE EditorFor(row) \in EditorStates
    BY StreamsAssumption DEF EditorFor, EditorStates, SourceRows
  <2> QED
    BY <1>1, <1>t, <1>g, <2>1, NoRowTyped DEF OpenEditor
<1>2. CASE CloseEditor
  BY <1>2, <1>t, <1>g, NoCallTyped DEF CloseEditor
<1>3. CASE SetConfig
  <2>1. editor' \in EditorStates
    BY <1>3, <1>t DEF SetConfig, EditorStates, SourceRows
  <2> QED
    BY <1>3, <1>t, <1>g, <2>1 DEF SetConfig
<1>4. CASE SetOther
  <2>1. editor' \in EditorStates
    BY <1>4, <1>t DEF SetOther, EditorStates, SourceRows
  <2> QED
    BY <1>4, <1>t, <1>g, <2>1 DEF SetOther
<1>5. ASSUME NEW i \in Calls, Test(i) PROVE StreamsTypeOK'
  <2>1. editor' \in EditorStates
    BY <1>5, <1>t, StreamsAssumption DEF Test, EditorStates, Calls
  <2>2. call' \in [Calls -> CallStates]
    BY <1>5, <1>t, <1>s, NoRowTyped DEF Test, EditorStates
  <2> QED
    BY <1>5, <1>t, <1>g, <2>1, <2>2 DEF Test
<1>6. ASSUME NEW i \in Calls, TestAnswered(i) PROVE StreamsTypeOK'
  <2>1. call[i].row.config \in Configs
    BY <1>t DEF CallStates, SourceRows
  <2>2. PICK ok \in BOOLEAN, key \in Configs \cup {NoConfig} :
          editor' = IF editor.waits # i THEN editor
                    ELSE [editor EXCEPT !.preview = ok, !.waits = 0, !.key = key]
    BY <1>6, <2>1 DEF TestAnswered
  <2>3. editor' \in EditorStates
    <3>1. [editor EXCEPT !.preview = ok, !.waits = 0, !.key = key] \in EditorStates
      BY <1>t, <1>e, <2>2
    <3> QED
      BY <1>t, <2>2, <3>1
  <2>4. vouched' \subseteq Configs
    BY <1>6, <1>t, <2>1 DEF TestAnswered
  <2> QED
    BY <1>6, <1>t, <1>g, <1>d, <2>3, <2>4 DEF TestAnswered
<1>7. ASSUME NEW i \in Calls, Save(i) PROVE StreamsTypeOK'
  <2>1. editor' \in EditorStates
    BY <1>7, <1>t, StreamsAssumption DEF Save, EditorStates, Calls
  <2>2. [editor.form EXCEPT !.there = TRUE] \in SourceRows /\ editor.base \in SourceRows
    BY <1>t DEF EditorStates, SourceRows
  <2>3. call' \in [Calls -> CallStates]
    BY <1>7, <2>2, <1>s DEF Save
  <2> QED
    BY <1>7, <1>t, <1>g, <2>1, <2>3 DEF Save
<1>8. ASSUME NEW i \in Calls, ToggleOff(i) PROVE StreamsTypeOK'
  <2>1. [sourceCopy EXCEPT !.enabled = FALSE] \in SourceRows
    BY <1>t DEF SourceRows
  <2>2. call' \in [Calls -> CallStates]
    BY <1>8, <1>t, <1>s, <2>1 DEF ToggleOff
  <2> QED
    BY <1>8, <1>t, <1>g, <2>1, <2>2 DEF ToggleOff
<1>9. ASSUME NEW i \in Calls, RemoveSource(i) PROVE StreamsTypeOK'
  BY <1>9, <1>t, <1>g, <1>s, NoRowTyped DEF RemoveSource
<1>10. ASSUME NEW i \in Calls, CallServed(i) PROVE StreamsTypeOK'
  <2>1. call' \in [Calls -> CallStates]
    BY <1>10, <1>t DEF CallServed, CallStates
  <2>2. source' \in SourceRows
    BY <1>10, <1>t, NoRowTyped DEF CallServed, CallStates
  <2> QED
    BY <1>10, <1>t, <1>g, <2>1, <2>2 DEF CallServed
<1>11. ASSUME NEW i \in Calls, SaveReturns(i) PROVE StreamsTypeOK'
  <2>1. editor' \in EditorStates /\ sourceAsked' \in BOOLEAN
    <3>1. [editor EXCEPT !.waits = 0] \in EditorStates
      BY <1>t, StreamsAssumption DEF EditorStates
    <3> QED
      BY <1>11, <1>t, <3>1, NoCallTyped DEF SaveReturns
  <2> QED
    BY <1>11, <1>t, <1>g, <1>d, <2>1 DEF SaveReturns
<1>12. ASSUME NEW i \in Calls, RowAnswered(i) PROVE StreamsTypeOK'
  <2>1. sourceCopy' \in SourceRows
    BY <1>12, <1>t DEF RowAnswered, CallStates
  <2> QED
    BY <1>12, <1>t, <1>g, <1>d, <2>1 DEF RowAnswered
<1>13. CASE SourcesRefetched
  BY <1>13, <1>t, <1>g DEF SourcesRefetched
<1>14. CASE UNCHANGED streamVars
  BY <1>14, <1>t, <1>g DEF streamVars
<1> QED
  BY <1>1, <1>2, <1>3, <1>4, <1>5, <1>6, <1>7, <1>8, <1>9, <1>10, <1>11, <1>12, <1>13, <1>14
  DEF StreamsNext

\* The source the server starts with has been vouched for when it was enabled.
LEMMA StreamsStart == StreamsInit => StreamsTypeOK /\ StreamsVouched
<1> SUFFICES ASSUME StreamsInit PROVE StreamsTypeOK /\ StreamsVouched
  OBVIOUS
<1>1. source \in SourceRows /\ sourceCopy = source
  BY DEF StreamsInit, SourceRows
<1>2. vouched \subseteq Configs
  BY <1>1 DEF StreamsInit, SourceRows
<1>3. StreamsTypeOK
  BY <1>1, <1>2, NoCallTyped DEF StreamsInit, StreamsTypeOK, CallStates, EditorStates
<1>4. VouchedRow(source) /\ VouchedRow(sourceCopy)
  BY DEF StreamsInit, VouchedRow
<1>5. VouchedRow(NoRow)
  BY NoRowTyped DEF VouchedRow
<1> QED
  BY <1>3, <1>4, <1>5 DEF StreamsInit, StreamsVouched, ClosedEditor, NoCall

\* The invariant says what a row may be; a step that keeps the vouched configurations, or
\* adds to them, keeps every row that it does not write.
LEMMA StreamsStep ==
  StreamsTypeOK /\ StreamsVouched /\ [StreamsNext]_streamVars => StreamsVouched'
<1> SUFFICES ASSUME StreamsTypeOK, StreamsVouched, [StreamsNext]_streamVars PROVE StreamsVouched'
  OBVIOUS
<1>t. /\ source \in SourceRows /\ sourceCopy \in SourceRows
      /\ editor \in EditorStates /\ call \in [Calls -> CallStates]
  BY DEF StreamsTypeOK, EditorStates, CallStates
<1>n. VouchedRow(NoRow) /\ VouchedRow(NoRow)'
  BY NoRowTyped DEF VouchedRow
<1>m. vouched \subseteq vouched'
  <2>1. ASSUME NEW i \in Calls, TestAnswered(i) PROVE vouched \subseteq vouched'
    BY <2>1 DEF TestAnswered
  <2> QED
    BY <2>1 DEF StreamsNext, OpenEditor, CloseEditor, SetConfig, SetOther, Test, Save, ToggleOff,
                RemoveSource, CallServed, SaveReturns, RowAnswered, SourcesRefetched, streamVars
<1>r. ASSUME NEW row, VouchedRow(row) PROVE row.enabled => row.config \in vouched'
  BY <1>m, <1>r DEF VouchedRow
<1>k. editor.key # NoConfig => editor.key \in vouched'
  BY <1>m DEF StreamsVouched
<1>h. ASSUME NEW i \in Calls, call[i].kind # "test"
      PROVE  VouchedRow(call[i].row) /\ VouchedRow(call[i].before)
  BY <1>h DEF StreamsVouched
<1>v. VouchedRow(source) /\ VouchedRow(sourceCopy) /\ VouchedRow(editor.base)
  BY DEF StreamsVouched
\* The three parts of the goal.
<1>g. /\ source'.enabled => source'.config \in vouched'
      /\ sourceCopy'.enabled => sourceCopy'.config \in vouched'
      /\ editor'.base.enabled => editor'.base.config \in vouched'
      /\ editor'.key # NoConfig => editor'.key \in vouched'
      /\ \A k \in Calls : call'[k].kind # "test" =>
           /\ call'[k].row.enabled => call'[k].row.config \in vouched'
           /\ call'[k].before.enabled => call'[k].before.config \in vouched'
      => StreamsVouched'
  BY DEF StreamsVouched, VouchedRow
<1>c. ASSUME NEW i \in Calls, NEW c \in CallStates, call' = [call EXCEPT ![i] = c],
             c.kind # "test" => /\ c.row.enabled => c.row.config \in vouched'
                                /\ c.before.enabled => c.before.config \in vouched'
      PROVE  \A k \in Calls : call'[k].kind # "test" =>
               /\ call'[k].row.enabled => call'[k].row.config \in vouched'
               /\ call'[k].before.enabled => call'[k].before.config \in vouched'
  <2> TAKE k \in Calls
  <2>1. CASE k = i
    BY <1>t, <1>c, <2>1
  <2>2. CASE k # i
    BY <1>t, <1>c, <1>h, <1>r, <2>2
  <2> QED
    BY <2>1, <2>2
<1>u. call' = call =>
        \A k \in Calls : call'[k].kind # "test" =>
          /\ call'[k].row.enabled => call'[k].row.config \in vouched'
          /\ call'[k].before.enabled => call'[k].before.config \in vouched'
  BY <1>h, <1>r
<1>1. CASE OpenEditor
  <2>1. ASSUME NEW row, VouchedRow(row), editor' = EditorFor(row)
        PROVE  /\ editor'.base.enabled => editor'.base.config \in vouched'
               /\ editor'.key # NoConfig => editor'.key \in vouched'
    BY <2>1, <1>r DEF EditorFor
  <2> QED
    BY <1>1, <1>g, <1>u, <1>r, <1>v, <1>n, <2>1 DEF OpenEditor
<1>2. CASE CloseEditor
  BY <1>2, <1>g, <1>u, <1>r, <1>v, <1>n DEF CloseEditor, ClosedEditor
<1>3. CASE SetConfig
  BY <1>3, <1>t, <1>g, <1>u, <1>r, <1>v DEF SetConfig, EditorStates
<1>4. CASE SetOther
  BY <1>4, <1>t, <1>g, <1>u, <1>r, <1>v, <1>k DEF SetOther, EditorStates
<1>5. ASSUME NEW i \in Calls, Test(i) PROVE StreamsVouched'
  <2>1. editor'.base = editor.base /\ editor'.key = editor.key
    BY <1>5, <1>t DEF Test, EditorStates
  <2> DEFINE c == [at |-> "sent", kind |-> "test", row |-> editor.form, before |-> NoRow, puts |-> FALSE]
  <2>2. call' = [call EXCEPT ![i] = c]
    BY <1>5 DEF Test, SendCall
  <2>3. c \in CallStates /\ c.kind = "test"
    BY <1>t, NoRowTyped DEF CallStates, EditorStates
  <2> HIDE DEF c
  <2> QED
    BY <1>5, <1>g, <1>c, <1>r, <1>v, <1>k, <2>1, <2>2, <2>3 DEF Test
<1>6. ASSUME NEW i \in Calls, TestAnswered(i) PROVE StreamsVouched'
  <2>1. editor'.base = editor.base
    BY <1>6, <1>t DEF TestAnswered, EditorStates
  <2>2. editor'.key # NoConfig => editor'.key \in vouched'
    BY <1>6, <1>t, <1>k DEF TestAnswered, EditorStates
  <2>3. /\ [NoCall EXCEPT !.at = "done"] \in CallStates
        /\ [NoCall EXCEPT !.at = "done"].row = NoRow /\ [NoCall EXCEPT !.at = "done"].before = NoRow
    BY NoCallTyped, NoRowTyped DEF CallStates, NoCall
  <2> QED
    BY <1>6, <1>g, <1>c, <1>r, <1>v, <1>n, <2>1, <2>2, <2>3 DEF TestAnswered
<1>7. ASSUME NEW i \in Calls, Save(i) PROVE StreamsVouched'
  <2>1. editor'.base = editor.base /\ editor'.key = editor.key
    BY <1>7, <1>t DEF Save, EditorStates
  <2>2. editor.form.enabled => editor.form.config \in vouched'
    <3>1. CanSaveEnabled
      BY <1>7 DEF Save, EditorOffers
    <3>2. editor.form.config \in Configs
      BY <1>t DEF EditorStates, SourceRows
    <3> QED
      BY <1>k, <3>1, <3>2, StreamsAssumption DEF CanSaveEnabled, PreviewOK
  <2> DEFINE c == [at |-> "sent", kind |-> "save", row |-> [editor.form EXCEPT !.there = TRUE],
                   before |-> editor.base, puts |-> FALSE]
  <2>3. call' = [call EXCEPT ![i] = c]
    BY <1>7 DEF Save, SendCall
  <2>4. /\ c \in CallStates /\ c.kind # "test" /\ c.before = editor.base
        /\ c.row.enabled = editor.form.enabled /\ c.row.config = editor.form.config
    BY <1>t DEF CallStates, EditorStates, SourceRows
  <2> HIDE DEF c
  <2> QED
    BY <1>7, <1>g, <1>c, <1>r, <1>v, <1>k, <2>1, <2>2, <2>3, <2>4 DEF Save
<1>8. ASSUME NEW i \in Calls, ToggleOff(i) PROVE StreamsVouched'
  <2>1. PICK all \in BOOLEAN :
          /\ SendCall(i, "toggle", [sourceCopy EXCEPT !.enabled = FALSE], sourceCopy, all)
          /\ sourceCopy' = IF all THEN [sourceCopy EXCEPT !.enabled = FALSE] ELSE sourceCopy
    BY <1>8, Zenon DEF ToggleOff
  <2>2. [sourceCopy EXCEPT !.enabled = FALSE] \in SourceRows /\ ~[sourceCopy EXCEPT !.enabled = FALSE].enabled
    BY <1>t DEF SourceRows
  <2> DEFINE c == [at |-> "sent", kind |-> "toggle", row |-> [sourceCopy EXCEPT !.enabled = FALSE],
                   before |-> sourceCopy, puts |-> all]
  <2>3. call' = [call EXCEPT ![i] = c]
    BY <2>1 DEF SendCall
  <2>4. /\ c \in CallStates /\ c.before = sourceCopy /\ ~c.row.enabled
    BY <1>t, <2>2 DEF CallStates
  <2>5. sourceCopy'.enabled => sourceCopy'.config \in vouched'
    BY <1>r, <1>v, <2>1, <2>2
  <2> HIDE DEF c
  <2> QED
    BY <1>8, <1>g, <1>c, <1>r, <1>v, <1>k, <2>3, <2>4, <2>5 DEF ToggleOff
<1>9. ASSUME NEW i \in Calls, RemoveSource(i) PROVE StreamsVouched'
  <2> DEFINE c == [at |-> "sent", kind |-> "delete", row |-> sourceCopy, before |-> NoRow, puts |-> FALSE]
  <2>1. call' = [call EXCEPT ![i] = c]
    BY <1>9 DEF RemoveSource, SendCall
  <2>2. c \in CallStates /\ c.row = sourceCopy /\ c.before = NoRow
    BY <1>t, NoRowTyped DEF CallStates
  <2> HIDE DEF c
  <2> QED
    BY <1>9, <1>g, <1>c, <1>r, <1>v, <1>k, <1>n, <2>1, <2>2 DEF RemoveSource
<1>10. ASSUME NEW i \in Calls, CallServed(i) PROVE StreamsVouched'
  <2>1. source'.enabled => source'.config \in vouched'
    BY <1>10, <1>h, <1>r, <1>v, <1>n DEF CallServed
  <2>2. PICK at \in {"served", "refused"} : call' = [call EXCEPT ![i].at = at]
    BY <1>10 DEF CallServed
  <2>3. \A k \in Calls : /\ call'[k].kind = call[k].kind /\ call'[k].row = call[k].row
                         /\ call'[k].before = call[k].before
    BY <1>t, <2>2 DEF CallStates
  <2> QED
    BY <1>10, <1>g, <1>h, <1>r, <1>v, <1>k, <2>1, <2>3 DEF CallServed
<1>d. /\ [NoCall EXCEPT !.at = "done"] \in CallStates
      /\ [NoCall EXCEPT !.at = "done"].row = NoRow /\ [NoCall EXCEPT !.at = "done"].before = NoRow
  BY NoCallTyped, NoRowTyped DEF CallStates, NoCall
<1>11. ASSUME NEW i \in Calls, SaveReturns(i) PROVE StreamsVouched'
  <2>1. /\ editor'.base.enabled => editor'.base.config \in vouched'
        /\ editor'.key # NoConfig => editor'.key \in vouched'
    BY <1>11, <1>t, <1>r, <1>v, <1>k, <1>n DEF SaveReturns, ClosedEditor, EditorStates
  <2> QED
    BY <1>11, <1>g, <1>c, <1>r, <1>v, <1>n, <1>d, <2>1 DEF SaveReturns
<1>12. ASSUME NEW i \in Calls, RowAnswered(i) PROVE StreamsVouched'
  <2>1. sourceCopy'.enabled => sourceCopy'.config \in vouched'
    BY <1>12, <1>h, <1>r, <1>v DEF RowAnswered
  <2> QED
    BY <1>12, <1>g, <1>c, <1>r, <1>v, <1>k, <1>n, <1>d, <2>1 DEF RowAnswered
<1>13. CASE SourcesRefetched
  BY <1>13, <1>g, <1>u, <1>r, <1>v, <1>k DEF SourcesRefetched
<1>14. CASE UNCHANGED streamVars
  BY <1>14, <1>g, <1>u, <1>r, <1>v, <1>k DEF streamVars
<1> QED
  BY <1>1, <1>2, <1>3, <1>4, <1>5, <1>6, <1>7, <1>8, <1>9, <1>10, <1>11, <1>12, <1>13, <1>14
  DEF StreamsNext

\* A web gallery that is enabled runs with values that passed a test, for any number of
\* configurations and requests.
THEOREM StreamsTested == StreamsSpec => []EnabledWasTested
<1>1. StreamsVouched => EnabledWasTested
  BY DEF StreamsVouched, VouchedRow, EnabledWasTested
<1> QED
  BY StreamsStart, StreamsTypeNext, StreamsStep, <1>1, PTL DEF StreamsSpec

------------------------------------------------------------------------------
(* Folios and their dialogs *)

\* The page, the dialogs and the requests as FolioScreensTypeOK types them.
PageSet == [on : {"folios", "folio", "elsewhere"}, of : Folios \cup {NoFolio}, mobile : BOOLEAN]
DialogSet == [kind : {"none", "actions", "create", "rename", "cover", "delete"},
              of : Folios \cup {NoFolio}, waits : 0..MaxRequests, armed : BOOLEAN]
RequestSet == [at : {"none", "sent", "served", "refused", "done"},
               kind : {"none", "create", "rename", "cover", "delete"},
               of : Folios \cup {NoFolio}, closes : BOOLEAN, goes : BOOLEAN]

\* While no change is unheard, whether its answer is to come or was lost, the list is what
\* the server holds, and so is what a refetch has read.
FoliosListed ==
  ~unheard /\ (\A i \in Requests : request[i].at # "served") =>
    /\ folioFetch.at = "idle" => folioListed = folioStored
    /\ folioFetch.at = "read" => folioFetch.saw = folioStored

\* The inductive invariant of the folios.
FoliosInv == FolioScreensTypeOK /\ FoliosListed

\* The records of the screen stay records.
LEMMA DialogTyped ==
  ASSUME NEW d \in DialogSet
  PROVE  /\ \A w \in 0..MaxRequests : [d EXCEPT !.waits = w] \in DialogSet
         /\ [d EXCEPT !.armed = TRUE] \in DialogSet
         /\ \A kind \in {"none", "actions", "create", "rename", "cover", "delete"} :
              /\ [d EXCEPT !.kind = kind] \in DialogSet
              /\ \A f \in Folios : [d EXCEPT !.kind = kind, !.of = f] \in DialogSet
BY DEF DialogSet

\* A closed dialog is a dialog.
LEMMA NoDialogTyped == NoDialog \in DialogSet
BY FolioScreensAssumption DEF NoDialog, DialogSet

\* An answer changes how far a request is.
LEMMA RequestTyped ==
  /\ NoRequest \in RequestSet /\ NoRequest.at = "none"
  /\ \A r \in RequestSet, at \in {"none", "sent", "served", "refused", "done"} :
       [r EXCEPT !.at = at] \in RequestSet /\ [r EXCEPT !.at = at].at = at
  /\ \A r \in RequestSet :
       [r EXCEPT !.closes = FALSE] \in RequestSet /\ [r EXCEPT !.closes = FALSE].at = r.at
BY DEF NoRequest, RequestSet

\* A page that gives way to another screen's is a page.
LEMMA PageTyped ==
  ASSUME NEW p \in PageSet, NEW on \in {"folios", "folio", "elsewhere"},
         NEW f \in Folios \cup {NoFolio}
  PROVE  [p EXCEPT !.on = on, !.of = f] \in PageSet
BY DEF PageSet

\* A refetch that is over, and one that is asked for.
LEMMA UnreadTyped ==
  ASSUME NEW at \in {"idle", "asked"}
  PROVE  FoliosUnread(at) \in [at : {"idle", "asked", "read"}, saw : [Folios -> Shapes]]
         /\ FoliosUnread(at).at = at
BY DEF FoliosUnread, Shapes

\* The types of the folios are inductive.
LEMMA FoliosTypeNext == FolioScreensTypeOK /\ [FolioScreensNext]_folioScreenVars => FolioScreensTypeOK'
<1> SUFFICES ASSUME FolioScreensTypeOK, [FolioScreensNext]_folioScreenVars
             PROVE  FolioScreensTypeOK'
  OBVIOUS
<1>0. /\ page \in PageSet /\ dialog \in DialogSet /\ request \in [Requests -> RequestSet]
      /\ \A i \in Requests : request[i] \in RequestSet
  BY DEF FolioScreensTypeOK, PageSet, DialogSet, RequestSet
<1>g. ASSUME folioStored' \in [Folios -> Shapes], folioListed' \in [Folios -> Shapes],
             folioFetch' \in [at : {"idle", "asked", "read"}, saw : [Folios -> Shapes]],
             page' \in PageSet, dialog' \in DialogSet, request' \in [Requests -> RequestSet],
             unheard' \in BOOLEAN
      PROVE  FolioScreensTypeOK'
  BY <1>g DEF FolioScreensTypeOK, PageSet, DialogSet, RequestSet
<1>t. /\ folioStored \in [Folios -> Shapes] /\ folioListed \in [Folios -> Shapes]
      /\ folioFetch \in [at : {"idle", "asked", "read"}, saw : [Folios -> Shapes]]
      /\ unheard \in BOOLEAN
  BY DEF FolioScreensTypeOK
<1>f. Forgotten \in [Requests -> RequestSet]
  BY <1>0, RequestTyped DEF Forgotten
<1>w. \A i \in Requests : i \in 0..MaxRequests
  BY FolioScreensAssumption DEF Requests
<1>1. CASE OpenDialog
  <2>1. dialog' \in DialogSet
    <3>1. PICK f \in Folios \cup {NoFolio} :
            \/ dialog' = [NoDialog EXCEPT !.kind = "create"]
            \/ f \in Folios /\ dialog' = [NoDialog EXCEPT !.kind = "actions", !.of = f]
      BY <1>1 DEF OpenDialog, Listed
    <3>2. [NoDialog EXCEPT !.kind = "create"] \in DialogSet
      BY NoDialogTyped, DialogTyped
    <3>3. ASSUME f \in Folios PROVE [NoDialog EXCEPT !.kind = "actions", !.of = f] \in DialogSet
      BY <3>3, NoDialogTyped, DialogTyped
    <3> QED BY <3>1, <3>2, <3>3
  <2> QED BY <1>0, <1>1, <1>g, <1>t, <2>1 DEF OpenDialog
<1>2. CASE SwitchDialog \/ ArmDelete \/ CloseDialog
  <2>1. dialog' \in DialogSet
    <3>1. \/ \E kind \in {"rename", "cover", "delete", "actions"} : dialog' = [dialog EXCEPT !.kind = kind]
          \/ dialog' = [dialog EXCEPT !.armed = TRUE]
          \/ dialog' = NoDialog
      BY <1>2 DEF SwitchDialog, ArmDelete, CloseDialog
    <3> QED BY <1>0, <3>1, DialogTyped, NoDialogTyped
  <2> QED BY <1>0, <1>2, <1>g, <1>t, <2>1 DEF SwitchDialog, ArmDelete, CloseDialog
<1>s. ASSUME NEW i \in Requests, NEW kind \in {"create", "rename", "cover", "delete"},
             NEW f \in Folios \cup {NoFolio}, NEW closes \in BOOLEAN, NEW goes \in BOOLEAN,
             Send(i, kind, f, closes, goes)
      PROVE  request' \in [Requests -> RequestSet]
  BY <1>0, <1>s DEF Send, RequestSet
<1>d. dialog.of \in Folios \cup {NoFolio}
  BY <1>0 DEF DialogSet
<1>3. ASSUME NEW i \in Requests, SubmitName(i) PROVE FolioScreensTypeOK'
  <2>1. dialog' \in DialogSet
    <3>1. dialog' = [dialog EXCEPT !.waits = i] \/ dialog' = NoDialog
      BY <1>3 DEF SubmitName
    <3>2. i \in 0..MaxRequests
      BY <1>w
    <3>3. [dialog EXCEPT !.waits = i] \in DialogSet
      BY <1>0, <3>2, DialogTyped
    <3> QED BY <3>1, <3>3, NoDialogTyped
  <2>2. request' \in [Requests -> RequestSet]
    BY <1>0, <1>3, <1>s, <1>d DEF SubmitName
  <2> QED BY <1>0, <1>3, <1>g, <1>t, <2>1, <2>2 DEF SubmitName
<1>4. ASSUME NEW i \in Requests, ChooseCover(i) PROVE FolioScreensTypeOK'
  <2>1. request' \in [Requests -> RequestSet]
    BY <1>4, <1>s, <1>d DEF ChooseCover
  <2> QED BY <1>0, <1>4, <1>g, <1>t, <2>1, NoDialogTyped DEF ChooseCover
<1>5. ASSUME NEW i \in Requests, ConfirmDelete(i) PROVE FolioScreensTypeOK'
  <2>1. PICK closes \in BOOLEAN, goes \in BOOLEAN : Send(i, "delete", dialog.of, closes, goes)
    <3>1. (page.mobile /\ page.on = "folio") \in BOOLEAN /\ (page.on = "folio") \in BOOLEAN
      OBVIOUS
    <3>2. Send(i, "delete", dialog.of, page.mobile /\ page.on = "folio", page.on = "folio")
      BY <1>5 DEF ConfirmDelete
    <3> QED BY <3>1, <3>2, Zenon
  <2>2. request' \in [Requests -> RequestSet]
    BY <1>s, <1>d, <2>1
  <2> QED BY <1>0, <1>5, <1>g, <1>t, <2>2, NoDialogTyped DEF ConfirmDelete
<1>6. ASSUME NEW i \in Requests, RequestServed(i) PROVE FolioScreensTypeOK'
  <2>1. request' \in [Requests -> RequestSet]
    <3>1. PICK at \in {"served", "refused"} : request' = [request EXCEPT ![i].at = at]
      BY <1>6 DEF RequestServed
    <3>2. [request[i] EXCEPT !.at = at] \in RequestSet
      BY <1>0, <3>1, RequestTyped
    <3> QED BY <1>0, <3>1, <3>2
  <2>2. folioStored' \in [Folios -> Shapes]
    BY <1>t, <1>6 DEF RequestServed, Applied, Shapes
  <2> QED BY <1>0, <1>6, <1>g, <1>t, <2>1, <2>2 DEF RequestServed
<1>7. ASSUME NEW i \in Requests, RequestSucceeds(i) PROVE FolioScreensTypeOK'
  <2>1. request' \in [Requests -> RequestSet]
    BY <1>0, <1>f, <1>7, RequestTyped DEF RequestSucceeds
  <2>2. page' \in PageSet
    <3>1. request[i].of \in Folios \cup {NoFolio}
      BY <1>0 DEF RequestSet
    <3>2. /\ [page EXCEPT !.on = "folio", !.of = request[i].of] \in PageSet
          /\ [page EXCEPT !.on = "folios", !.of = NoFolio] \in PageSet
      BY <1>0, <3>1, PageTyped
    <3> QED BY <1>0, <1>7, <3>2 DEF RequestSucceeds, Destination
  <2>3. dialog' \in DialogSet
    BY <1>0, <1>7, NoDialogTyped DEF RequestSucceeds
  <2>4. folioFetch' \in [at : {"idle", "asked", "read"}, saw : [Folios -> Shapes]]
    BY <1>7, UnreadTyped DEF RequestSucceeds, InvalidateFolios
  <2> QED BY <1>7, <1>g, <1>t, <2>1, <2>2, <2>3, <2>4 DEF RequestSucceeds
<1>8. ASSUME NEW i \in Requests, RequestFails(i) PROVE FolioScreensTypeOK'
  <2>1. request' \in [Requests -> RequestSet]
    BY <1>0, <1>8, RequestTyped DEF RequestFails
  <2>2. dialog' \in DialogSet
    <3>1. dialog' = [dialog EXCEPT !.waits = 0] \/ dialog' = dialog
      BY <1>8 DEF RequestFails
    <3>2. 0 \in 0..MaxRequests
      BY FolioScreensAssumption
    <3> QED BY <1>0, <3>1, <3>2, DialogTyped
  <2>3. unheard' \in BOOLEAN
    BY <1>t, <1>8 DEF RequestFails
  <2> QED BY <1>0, <1>8, <1>g, <1>t, <2>1, <2>2, <2>3 DEF RequestFails
<1>9. CASE FoliosRead
  <2>1. folioFetch' \in [at : {"idle", "asked", "read"}, saw : [Folios -> Shapes]]
    BY <1>t, <1>9 DEF FoliosRead
  <2> QED BY <1>0, <1>9, <1>g, <1>t, <2>1 DEF FoliosRead
<1>10. CASE FoliosShown
  <2>1. folioListed' \in [Folios -> Shapes]
    BY <1>t, <1>10 DEF FoliosShown
  <2> QED BY <1>0, <1>10, <1>g, <1>t, <2>1, UnreadTyped DEF FoliosShown
<1>11. CASE GoTo
  <2>1. page' \in PageSet
    <3>1. PICK on \in {"folios", "folio", "elsewhere"}, f \in Folios :
            page' = [page EXCEPT !.on = on, !.of = IF on = "folio" THEN f ELSE NoFolio]
      BY <1>11 DEF GoTo
    <3>2. PICK g \in Folios \cup {NoFolio} : g = IF on = "folio" THEN f ELSE NoFolio
      OBVIOUS
    <3>3. page' = [page EXCEPT !.on = on, !.of = g]
      BY <3>1, <3>2
    <3> QED BY <1>0, <3>3, PageTyped
  <2>2. folioFetch' \in [at : {"idle", "asked", "read"}, saw : [Folios -> Shapes]]
    BY <1>t, <1>11, UnreadTyped DEF GoTo, InvalidateFolios
  <2> QED BY <1>11, <1>f, <1>g, <1>t, <2>1, <2>2, NoDialogTyped DEF GoTo
<1>12. CASE UNCHANGED folioScreenVars
  BY <1>12 DEF folioScreenVars, FolioScreensTypeOK
<1> QED
  BY <1>1, <1>2, <1>3, <1>4, <1>5, <1>6, <1>7, <1>8, <1>9, <1>10, <1>11, <1>12
  DEF FolioScreensNext

\* At first the list is what the server holds, and nothing is under way.
LEMMA FoliosStart == FolioScreensInit => FoliosInv
<1> SUFFICES ASSUME FolioScreensInit PROVE FoliosInv
  OBVIOUS
<1>1. FolioScreensTypeOK
  <2>1. request \in [Requests -> RequestSet] /\ dialog \in DialogSet
    <3>1. request = [i \in Requests |-> NoRequest] /\ dialog = NoDialog
      BY DEF FolioScreensInit
    <3> QED BY <3>1, RequestTyped, NoDialogTyped
  <2>2. folioFetch \in [at : {"idle", "asked", "read"}, saw : [Folios -> Shapes]]
    <3>1. folioFetch = FoliosUnread("idle")
      BY DEF FolioScreensInit
    <3> QED BY <3>1, UnreadTyped
  <2>3. folioStored \in [Folios -> Shapes] /\ folioListed \in [Folios -> Shapes]
    BY DEF FolioScreensInit, Shapes
  <2>4. page \in [on : {"folios", "folio", "elsewhere"}, of : Folios \cup {NoFolio}, mobile : BOOLEAN]
    BY DEF FolioScreensInit
  <2>5. unheard \in BOOLEAN
    BY DEF FolioScreensInit
  <2> QED BY <2>1, <2>2, <2>3, <2>4, <2>5 DEF FolioScreensTypeOK, RequestSet, DialogSet
<1>2. FoliosListed
  BY UnreadTyped DEF FolioScreensInit, FoliosListed
<1> QED BY <1>1, <1>2 DEF FoliosInv

\* A step that leaves no change unheard brings the list, or changes nothing on the server.
LEMMA FoliosStep == FoliosInv /\ [FolioScreensNext]_folioScreenVars => FoliosInv'
<1> SUFFICES ASSUME FoliosInv, [FolioScreensNext]_folioScreenVars PROVE FoliosListed'
  BY FoliosTypeNext DEF FoliosInv
<1>0. /\ FoliosListed /\ request \in [Requests -> RequestSet]
      /\ \A i \in Requests : request[i] \in RequestSet
  BY DEF FoliosInv, FolioScreensTypeOK, RequestSet
<1>f. \A k \in Requests : Forgotten[k].at = request[k].at
  BY <1>0, RequestTyped DEF Forgotten
\* The lists stay, and no answer that is to come is forgotten.
<1>k. ASSUME UNCHANGED <<folioStored, folioListed, folioFetch>>, unheard => unheard',
             \A k \in Requests : request[k].at = "served" => request'[k].at = "served" \/ unheard'
      PROVE  FoliosListed'
  BY <1>0, <1>k DEF FoliosListed
<1>a. folioFetch' = FoliosUnread("asked") => FoliosListed'
  BY UnreadTyped DEF FoliosListed
<1>1. CASE OpenDialog \/ SwitchDialog \/ ArmDelete \/ CloseDialog \/ UNCHANGED folioScreenVars
  <2>1. UNCHANGED <<folioStored, folioListed, folioFetch, request, unheard>>
    BY <1>1 DEF OpenDialog, SwitchDialog, ArmDelete, CloseDialog, folioScreenVars
  <2> QED BY <1>k, <2>1
<1>2. ASSUME NEW i \in Requests, SubmitName(i) \/ ChooseCover(i) \/ ConfirmDelete(i)
      PROVE  FoliosListed'
  <2>1. UNCHANGED <<folioStored, folioListed, folioFetch, unheard>>
    BY <1>2 DEF SubmitName, ChooseCover, ConfirmDelete
  <2>2. \A k \in Requests : request[k].at = "served" => request'[k].at = "served"
    BY <1>0, <1>2 DEF SubmitName, ChooseCover, ConfirmDelete, Send, NextRequest
  <2> QED BY <1>k, <2>1, <2>2
<1>3. ASSUME NEW i \in Requests, RequestServed(i) PROVE FoliosListed'
  <2>1. CASE request' = [request EXCEPT ![i].at = "served"]
    <3>1. request'[i].at = "served"
      BY <1>0, <2>1, RequestTyped
    <3> QED BY <3>1 DEF FoliosListed
  <2>2. CASE request' = [request EXCEPT ![i].at = "refused"] /\ UNCHANGED folioStored
    <3>1. \A k \in Requests : request[k].at = "served" => request'[k].at = "served"
      BY <1>0, <1>3, <2>2 DEF RequestServed
    <3> QED BY <1>3, <1>k, <2>2, <3>1 DEF RequestServed
  <2> QED BY <1>3, <2>1, <2>2 DEF RequestServed
<1>4. ASSUME NEW i \in Requests, RequestSucceeds(i) PROVE FoliosListed'
  BY <1>4, <1>a DEF RequestSucceeds, InvalidateFolios
<1>5. ASSUME NEW i \in Requests, RequestFails(i) PROVE FoliosListed'
  <2>1. \A k \in Requests \ {i} : request'[k] = request[k]
    BY <1>0, <1>5 DEF RequestFails
  <2>2. unheard' = (unheard \/ request[i].at = "served")
    BY <1>5 DEF RequestFails
  <2> QED BY <1>5, <1>k, <2>1, <2>2 DEF RequestFails
<1>6. CASE FoliosRead
  BY <1>0, <1>6 DEF FoliosRead, FoliosListed
<1>7. CASE FoliosShown
  BY <1>0, <1>7, UnreadTyped DEF FoliosShown, FoliosListed
<1>8. CASE GoTo
  <2>1. request' = Forgotten /\ UNCHANGED <<folioStored, folioListed, unheard>>
    BY <1>8 DEF GoTo
  <2>2. folioFetch' = folioFetch \/ folioFetch' = FoliosUnread("asked")
    BY <1>8 DEF GoTo, InvalidateFolios
  <2> QED BY <1>a, <1>f, <1>k, <2>1, <2>2
<1> QED BY <1>1, <1>2, <1>3, <1>4, <1>5, <1>6, <1>7, <1>8 DEF FolioScreensNext

\* Once requests and refetches are over, every screen lists the folios of the server
\* (context.tsx, the folio actions with their invalidations), for any number of folios,
\* requests and refetches; only an answer that was lost leaves the list behind.
THEOREM FoliosSettle == FolioScreensSpec => []SettledFoliosAreStored
<1>1. FoliosInv => SettledFoliosAreStored
  BY DEF FoliosInv, FoliosListed, SettledFoliosAreStored
<1> QED BY FoliosStart, FoliosStep, <1>1, PTL DEF FolioScreensSpec

------------------------------------------------------------------------------
(* Telegram sources *)

\* The chains as SettingsTypeOK types them, and those that run.
ChainSet == [at : {"none", "sent", "served", "refused", "asked", "read", "done"},
             kind : {"none", "mount", "add", "edit", "toggle", "remove"},
             of : TgSources \cup {NoTgSource}, row : TgRows,
             saw : [TgSources -> TgRows], alone : BOOLEAN]
Runs(i) == chain[i].at \notin {"none", "done"}

\* A change that was alone from its start is the only one under way, so what it has read is
\* what the server holds.
LoneInv ==
  \A i \in Chains : chain[i].alone /\ Runs(i) =>
    /\ \A k \in Chains : Runs(k) => k = i
    /\ chain[i].at = "read" => chain[i].saw = telegram

\* Until an answer is lost or lists overlap, the screen is behind only of a change that was made
\* and whose list is to come.
ShownInv ==
  ~overlapped /\ (\A i \in Chains : Runs(i) => chain[i].at \in {"sent", "refused"})
    => tgShown = telegram

\* The inductive invariant of the sources.
SettingsInv == SettingsTypeOK /\ LoneInv /\ ShownInv

\* What a chain becomes from one request to the next.
LEMMA ChainTyped ==
  /\ NoChain \in ChainSet /\ NoChain.at = "none" /\ ~NoChain.alone
  /\ [NoChain EXCEPT !.at = "done"] \in ChainSet
  /\ [NoChain EXCEPT !.at = "done"].at = "done"
  /\ ~[NoChain EXCEPT !.at = "done"].alone
  /\ \A c \in ChainSet, at \in {"none", "sent", "served", "refused", "asked", "read", "done"} :
       /\ [c EXCEPT !.at = at] \in ChainSet /\ [c EXCEPT !.at = at].at = at
       /\ [c EXCEPT !.at = at].alone => c.alone
  /\ \A c \in ChainSet, at \in {"none", "sent", "served", "refused", "asked", "read", "done"},
        saw \in [TgSources -> TgRows] :
       /\ [c EXCEPT !.at = at, !.saw = saw] \in ChainSet
       /\ [c EXCEPT !.at = at, !.saw = saw].at = at
       /\ [c EXCEPT !.at = at, !.saw = saw].saw = saw
       /\ [c EXCEPT !.at = at, !.saw = saw].alone => c.alone
  /\ \A c \in ChainSet :
       /\ [c EXCEPT !.alone = FALSE] \in ChainSet /\ [c EXCEPT !.alone = FALSE].at = c.at
       /\ ~[c EXCEPT !.alone = FALSE].alone
<1>1. NoTgRow \in TgRows
  BY DEF NoTgRow, TgRows, Destinations
<1>2. [s \in TgSources |-> NoTgRow] \in [TgSources -> TgRows]
  BY <1>1
<1>3. /\ NoChain \in ChainSet /\ NoChain.at = "none" /\ ~NoChain.alone
      /\ [NoChain EXCEPT !.at = "done"] \in ChainSet
      /\ [NoChain EXCEPT !.at = "done"].at = "done"
      /\ ~[NoChain EXCEPT !.at = "done"].alone
  BY <1>1, <1>2 DEF NoChain, ChainSet
<1>4. \A c \in ChainSet, at \in {"none", "sent", "served", "refused", "asked", "read", "done"} :
        /\ [c EXCEPT !.at = at] \in ChainSet /\ [c EXCEPT !.at = at].at = at
        /\ [c EXCEPT !.at = at].alone => c.alone
  BY DEF ChainSet
<1>5. \A c \in ChainSet, at \in {"none", "sent", "served", "refused", "asked", "read", "done"},
         saw \in [TgSources -> TgRows] :
        /\ [c EXCEPT !.at = at, !.saw = saw] \in ChainSet
        /\ [c EXCEPT !.at = at, !.saw = saw].at = at
        /\ [c EXCEPT !.at = at, !.saw = saw].saw = saw
        /\ [c EXCEPT !.at = at, !.saw = saw].alone => c.alone
  BY DEF ChainSet
<1>6. \A c \in ChainSet :
        /\ [c EXCEPT !.alone = FALSE] \in ChainSet /\ [c EXCEPT !.alone = FALSE].at = c.at
        /\ ~[c EXCEPT !.alone = FALSE].alone
  BY DEF ChainSet
<1> QED BY <1>3, <1>4, <1>5, <1>6

\* The rows of the sources that an edit, a toggle or a removal leaves.
LEMMA RowTyped ==
  /\ NoTgRow \in TgRows
  /\ \A r \in TgRows : /\ [r EXCEPT !.on = ~r.on] \in TgRows
                       /\ \A d \in Destinations : [r EXCEPT !.dest = d] \in TgRows
BY DEF TgRows, NoTgRow, Destinations

\* A new chain.
NewChain(at, kind, s, row) ==
  [NoChain EXCEPT !.at = at, !.kind = kind, !.of = s, !.row = row, !.alone = UnderWay = {}]

\* A change that is sent.
LEMMA NewTyped ==
  ASSUME NEW at \in {"sent", "asked"}, NEW kind \in {"add", "edit", "toggle", "remove", "mount"},
         NEW s \in TgSources \cup {NoTgSource}, NEW row \in TgRows
  PROVE  /\ NewChain(at, kind, s, row) \in ChainSet
         /\ NewChain(at, kind, s, row).at = at
         /\ NewChain(at, kind, s, row).alone => UnderWay = {}
<1>1. PICK b \in BOOLEAN : b <=> UnderWay = {}
  OBVIOUS
<1>2. NewChain(at, kind, s, row) =
        [NoChain EXCEPT !.at = at, !.kind = kind, !.of = s, !.row = row, !.alone = b]
  BY <1>1 DEF NewChain
<1>3. NoChain \in ChainSet
  BY ChainTyped
<1>4. ASSUME NEW c \in ChainSet
      PROVE  LET n == [c EXCEPT !.at = at, !.kind = kind, !.of = s, !.row = row, !.alone = b]
             IN n \in ChainSet /\ n.at = at /\ (n.alone => b)
  BY DEF ChainSet
<1> QED BY <1>1, <1>2, <1>3, <1>4

\* Its row and its start are of their types.
LEMMA StartTyped ==
  ASSUME chain \in [Chains -> ChainSet], NEW i \in Chains,
         NEW at \in {"sent", "asked"}, NEW kind \in {"add", "edit", "toggle", "remove", "mount"},
         NEW s \in TgSources \cup {NoTgSource}, NEW row \in TgRows,
         chain' = Started(i, at, kind, s, row)
  PROVE  /\ chain' \in [Chains -> ChainSet]
         /\ chain'[i].at = at /\ (chain'[i].alone => UnderWay = {})
         /\ \A k \in Chains \ {i} : chain'[k].at = chain[k].at /\ ~chain'[k].alone
<1>1. chain' = [k \in Chains |-> IF k = i THEN NewChain(at, kind, s, row)
                                 ELSE [chain[k] EXCEPT !.alone = FALSE]]
  BY DEF Started, NewChain
<1>2. \A k \in Chains : /\ [chain[k] EXCEPT !.alone = FALSE] \in ChainSet
                        /\ [chain[k] EXCEPT !.alone = FALSE].at = chain[k].at
                        /\ ~[chain[k] EXCEPT !.alone = FALSE].alone
  BY ChainTyped
<1>3. /\ NewChain(at, kind, s, row) \in ChainSet
      /\ NewChain(at, kind, s, row).at = at
      /\ NewChain(at, kind, s, row).alone => UnderWay = {}
  BY NewTyped
<1>4. chain'[i] = NewChain(at, kind, s, row)
  BY <1>1
<1>5. \A k \in Chains \ {i} : chain'[k] = [chain[k] EXCEPT !.alone = FALSE]
  BY <1>1
<1>6. chain' \in [Chains -> ChainSet]
  BY <1>1, <1>2, <1>3
<1> QED BY <1>2, <1>3, <1>4, <1>5, <1>6

\* The changes start a chain with a row of the list or of a form.
LEMMA ChangeStarts ==
  ASSUME SettingsTypeOK, NEW i \in Chains,
         SaveSource(i) \/ SaveEditedSource(i) \/ ToggleSource(i) \/ RemoveTgSource(i)
  PROVE  /\ chain' \in [Chains -> ChainSet]
         /\ chain'[i].at = "sent" /\ (chain'[i].alone => UnderWay = {})
         /\ \A k \in Chains \ {i} : chain'[k].at = chain[k].at /\ ~chain'[k].alone
<1>0. /\ tgShown \in [TgSources -> TgRows] /\ tgAdd \in Destinations
      /\ tgEdit \in [of : TgSources \cup {NoTgSource}, dest : Destinations]
      /\ chain \in [Chains -> ChainSet]
  BY DEF SettingsTypeOK, ChainSet
<1>1. PICK kind \in {"add", "edit", "toggle", "remove", "mount"},
           s \in TgSources \cup {NoTgSource}, row \in TgRows :
             chain' = Started(i, "sent", kind, s, row)
  <2>1. CASE SaveSource(i)
    <3>1. [there |-> TRUE, on |-> TRUE, dest |-> tgAdd] \in TgRows
      BY <1>0 DEF TgRows
    <3> QED BY <2>1, <3>1 DEF SaveSource
  <2>2. CASE SaveEditedSource(i)
    <3>1. tgEdit.of \in TgSources
      BY <1>0, <2>2 DEF SaveEditedSource, EditOffers
    <3>2. [tgShown[tgEdit.of] EXCEPT !.dest = tgEdit.dest] \in TgRows
      BY <1>0, <3>1, RowTyped
    <3> QED BY <2>2, <3>1, <3>2 DEF SaveEditedSource
  <2>3. CASE ToggleSource(i)
    <3>1. PICK s \in TgSources :
            chain' = Started(i, "sent", "toggle", s, [tgShown[s] EXCEPT !.on = ~@])
      BY <2>3 DEF ToggleSource
    <3>2. [tgShown[s] EXCEPT !.on = ~@] \in TgRows
      BY <1>0, RowTyped
    <3> QED BY <3>1, <3>2
  <2>4. CASE RemoveTgSource(i)
    BY <2>4, RowTyped DEF RemoveTgSource
  <2> QED BY <2>1, <2>2, <2>3, <2>4
<1> QED BY <1>0, <1>1, StartTyped

\* The types of the sources are inductive.
LEMMA SettingsTypeNext == SettingsTypeOK /\ [SettingsNext]_settingsVars => SettingsTypeOK'
<1> SUFFICES ASSUME SettingsTypeOK, [SettingsNext]_settingsVars PROVE SettingsTypeOK'
  OBVIOUS
<1> DEFINE EditSet == [of : TgSources \cup {NoTgSource}, dest : Destinations]
<1> DEFINE BackfillSet == [at : {"idle", "confirm", "running"}, left : 0..FullBatches]
<1>0. /\ telegram \in [TgSources -> TgRows] /\ tgShown \in [TgSources -> TgRows]
      /\ tgAdd \in Destinations /\ tgEdit \in EditSet
      /\ chain \in [Chains -> ChainSet] /\ \A i \in Chains : chain[i] \in ChainSet
      /\ sourceBusy \in BOOLEAN /\ folioMade \in {"none", "add", "edit"}
      /\ backfill \in BackfillSet /\ overlapped \in BOOLEAN
  BY DEF SettingsTypeOK, ChainSet
<1>g. ASSUME telegram' \in [TgSources -> TgRows], tgShown' \in [TgSources -> TgRows],
             tgAdd' \in Destinations, tgEdit' \in EditSet, chain' \in [Chains -> ChainSet],
             sourceBusy' \in BOOLEAN, folioMade' \in {"none", "add", "edit"},
             backfill' \in BackfillSet, overlapped' \in BOOLEAN
      PROVE  SettingsTypeOK'
  BY <1>g DEF SettingsTypeOK, ChainSet
<1>e. /\ NoTgEdit \in EditSet
      /\ \A d \in Destinations : [tgEdit EXCEPT !.dest = d] \in EditSet
      /\ \A s \in TgSources, d \in Destinations : [of |-> s, dest |-> d] \in EditSet
      /\ tgEdit.dest \in Destinations
  BY <1>0 DEF NoTgEdit, Destinations
<1>b. /\ NoBackfill \in BackfillSet /\ backfill.left \in 0..FullBatches
      /\ \A n \in 0..FullBatches : [at |-> "running", left |-> n] \in BackfillSet
      /\ [backfill EXCEPT !.at = "confirm"] \in BackfillSet
      /\ \A n \in 0..FullBatches : [backfill EXCEPT !.left = n] \in BackfillSet
  BY <1>0, SettingsAssumption DEF NoBackfill
<1>r. \A s \in TgSources : tgShown[s] \in TgRows /\ tgShown[s].dest \in Destinations
  BY <1>0 DEF TgRows
<1> HIDE DEF EditSet, BackfillSet
<1>1. ASSUME NEW s \in TgSources, BeginEditSource(s) PROVE SettingsTypeOK'
  <2>1. tgEdit' \in EditSet
    BY <1>1, <1>e, <1>r DEF BeginEditSource
  <2> QED BY <1>0, <1>1, <1>g, <2>1 DEF BeginEditSource
<1>2. CASE CancelEditSource
  BY <1>0, <1>2, <1>e, <1>g DEF CancelEditSource
<1>3. CASE ChooseDestination
  <2>1. tgAdd' \in Destinations /\ tgEdit' \in EditSet
    BY <1>0, <1>3, <1>e DEF ChooseDestination
  <2> QED BY <1>0, <1>3, <1>g, <2>1 DEF ChooseDestination
<1>4. CASE CreateFolio
  BY <1>0, <1>4, <1>g DEF CreateFolio
<1>5. CASE FolioCreated
  <2>1. tgAdd' \in Destinations /\ tgEdit' \in EditSet
    BY <1>0, <1>5, <1>e DEF FolioCreated, Destinations
  <2> QED BY <1>0, <1>5, <1>g, <2>1 DEF FolioCreated
<1>6. CASE RequestBackfill \/ ConfirmBackfill \/ BackfillBatch
  <2>1. backfill' \in BackfillSet
    <3>1. CASE RequestBackfill
      BY <1>b, <3>1 DEF RequestBackfill
    <3>2. CASE ConfirmBackfill
      BY <1>b, <3>2 DEF ConfirmBackfill
    <3>3. CASE BackfillBatch
      <4>1. \/ backfill.left > 0 /\ backfill' = [backfill EXCEPT !.left = backfill.left - 1]
            \/ backfill' = NoBackfill
        BY <3>3 DEF BackfillBatch
      <4>2. backfill.left > 0 => backfill.left - 1 \in 0..FullBatches
        BY <1>b, SettingsAssumption
      <4> QED BY <1>b, <4>1, <4>2
    <3> QED BY <1>6, <3>1, <3>2, <3>3
  <2> QED BY <1>0, <1>6, <1>g, <2>1 DEF RequestBackfill, ConfirmBackfill, BackfillBatch
<1>7. ASSUME NEW i \in Chains, SaveSource(i) \/ SaveEditedSource(i) \/ ToggleSource(i) \/ RemoveTgSource(i)
      PROVE  SettingsTypeOK'
  BY <1>0, <1>7, <1>g, ChangeStarts DEF SaveSource, SaveEditedSource, ToggleSource, RemoveTgSource
<1>8. ASSUME NEW i \in Chains, ChangeServed(i) PROVE SettingsTypeOK'
  <2>1. telegram' \in [TgSources -> TgRows]
    <3>1. chain[i].row \in TgRows
      BY <1>0 DEF ChainSet
    <3>2. telegram' = [telegram EXCEPT ![chain[i].of] = chain[i].row] \/ telegram' = telegram
      BY <1>8 DEF ChangeServed
    <3> QED BY <1>0, <3>1, <3>2
  <2>2. chain' \in [Chains -> ChainSet]
    <3>1. PICK at \in {"served", "refused"} : chain' = [chain EXCEPT ![i].at = at]
      BY <1>8 DEF ChangeServed
    <3>2. [chain[i] EXCEPT !.at = at] \in ChainSet
      BY <1>0, <3>1, ChainTyped
    <3> QED BY <1>0, <3>1, <3>2
  <2> QED BY <1>0, <1>8, <1>g, <2>1, <2>2 DEF ChangeServed
<1>9. ASSUME NEW i \in Chains, ChangeSucceeds(i) PROVE SettingsTypeOK'
  <2>1. chain' \in [Chains -> ChainSet]
    <3>1. chain' = [chain EXCEPT ![i].at = "asked"]
      BY <1>9 DEF ChangeSucceeds
    <3>2. [chain[i] EXCEPT !.at = "asked"] \in ChainSet
      BY <1>0, ChainTyped
    <3> QED BY <1>0, <3>1, <3>2
  <2>2. tgAdd' \in Destinations /\ tgEdit' \in EditSet
    BY <1>0, <1>9, <1>e DEF ChangeSucceeds, Destinations
  <2> QED BY <1>0, <1>9, <1>g, <2>1, <2>2 DEF ChangeSucceeds
<1>o. ASSUME NEW i \in Chains, ChainOver(i)
      PROVE  chain' \in [Chains -> ChainSet] /\ sourceBusy' \in BOOLEAN
  BY <1>0, <1>o, ChainTyped DEF ChainOver
<1>10. ASSUME NEW i \in Chains, ChainFails(i) PROVE SettingsTypeOK'
  <2>1. overlapped' \in BOOLEAN
    BY <1>0, <1>10 DEF ChainFails
  <2> QED BY <1>0, <1>10, <1>g, <1>o, <2>1 DEF ChainFails
<1>11. ASSUME NEW i \in Chains, ReloadReads(i) PROVE SettingsTypeOK'
  <2>1. chain' = [chain EXCEPT ![i].at = "read", ![i].saw = telegram]
    BY <1>11 DEF ReloadReads
  <2>2. [chain[i] EXCEPT !.at = "read", !.saw = telegram] \in ChainSet
    BY <1>0, ChainTyped
  <2>3. chain' \in [Chains -> ChainSet]
    BY <1>0, <2>1, <2>2
  <2> QED BY <1>0, <1>11, <1>g, <2>3 DEF ReloadReads
<1>12. ASSUME NEW i \in Chains, ReloadShown(i) PROVE SettingsTypeOK'
  <2>1. overlapped' \in BOOLEAN
    BY <1>0, <1>12 DEF ReloadShown
  <2>2. tgShown' \in [TgSources -> TgRows]
    BY <1>0, <1>12 DEF ReloadShown, ChainSet
  <2> QED BY <1>0, <1>12, <1>g, <1>o, <2>1, <2>2 DEF ReloadShown
<1>13. CASE UNCHANGED settingsVars
  BY <1>0, <1>13, <1>g DEF settingsVars
<1> QED
  BY <1>1, <1>2, <1>3, <1>4, <1>5, <1>6, <1>7, <1>8, <1>9, <1>10, <1>11, <1>12, <1>13
  DEF SettingsNext

\* The mount sends the first reading.
LEMMA SettingsStart == SettingsInit => SettingsInv
<1> SUFFICES ASSUME SettingsInit PROVE SettingsInv
  OBVIOUS
<1>1. /\ 1 \in Chains
      /\ chain = [i \in Chains |->
            IF i = 1 THEN [NoChain EXCEPT !.at = "asked", !.kind = "mount", !.alone = TRUE] ELSE NoChain]
  BY SettingsAssumption DEF SettingsInit, Chains
<1>2. LET n == [NoChain EXCEPT !.at = "asked", !.kind = "mount", !.alone = TRUE]
      IN n \in ChainSet /\ n.at = "asked"
  <2>1. ASSUME NEW c \in ChainSet
        PROVE  LET n == [c EXCEPT !.at = "asked", !.kind = "mount", !.alone = TRUE]
               IN n \in ChainSet /\ n.at = "asked"
    BY DEF ChainSet
  <2>2. NoChain \in ChainSet
    BY ChainTyped
  <2> QED BY <2>1, <2>2
<1>3. /\ chain \in [Chains -> ChainSet] /\ chain[1].at = "asked"
      /\ \A k \in Chains \ {1} : chain[k].at = "none"
  BY <1>1, <1>2, ChainTyped
<1>4. SettingsTypeOK
  <2>1. telegram \in [TgSources -> TgRows]
    <3>1. [NoTgRow EXCEPT !.there = TRUE, !.on = TRUE] \in TgRows
      BY DEF NoTgRow, TgRows, Destinations
    <3>2. telegram \in [TgSources -> {NoTgRow, [NoTgRow EXCEPT !.there = TRUE, !.on = TRUE]}]
      BY DEF SettingsInit
    <3> QED BY <3>1, <3>2, RowTyped
  <2>2. tgShown \in [TgSources -> TgRows]
    BY RowTyped DEF SettingsInit
  <2>3. tgEdit \in [of : TgSources \cup {NoTgSource}, dest : Destinations] /\ tgAdd \in Destinations
    BY DEF SettingsInit, NoTgEdit, Destinations
  <2>4. backfill \in [at : {"idle", "confirm", "running"}, left : 0..FullBatches]
    BY SettingsAssumption DEF SettingsInit, NoBackfill
  <2>5. sourceBusy \in BOOLEAN /\ folioMade \in {"none", "add", "edit"} /\ overlapped \in BOOLEAN
    BY DEF SettingsInit
  <2> QED BY <1>3, <2>1, <2>2, <2>3, <2>4, <2>5 DEF SettingsTypeOK, ChainSet
<1>5. LoneInv
  BY <1>3 DEF LoneInv, Runs
<1>6. ShownInv
  BY <1>1, <1>3 DEF ShownInv, Runs
<1> QED BY <1>4, <1>5, <1>6 DEF SettingsInv

\* A list is shown as it was read, and was read after the only change under way.
LEMMA SettingsStep == SettingsInv /\ [SettingsNext]_settingsVars => SettingsInv'
<1> SUFFICES ASSUME SettingsInv, [SettingsNext]_settingsVars PROVE LoneInv' /\ ShownInv'
  BY SettingsTypeNext DEF SettingsInv
<1>0. /\ LoneInv /\ ShownInv /\ chain \in [Chains -> ChainSet]
      /\ \A i \in Chains : chain[i] \in ChainSet
      /\ telegram \in [TgSources -> TgRows]
  BY DEF SettingsInv, SettingsTypeOK, ChainSet
\* A form changes neither the chains nor the sources.
<1>1. CASE UNCHANGED <<telegram, tgShown, chain, overlapped>>
  BY <1>0, <1>1 DEF LoneInv, ShownInv, Runs
\* A chain starts: it is alone if no other one is under way, and they are not alone any more.
<1>2. ASSUME NEW i \in Chains, SaveSource(i) \/ SaveEditedSource(i) \/ ToggleSource(i) \/ RemoveTgSource(i)
      PROVE  LoneInv' /\ ShownInv'
  <2>0. chain[i].at = "none" /\ UNCHANGED <<telegram, tgShown, overlapped>>
    BY <1>2 DEF SaveSource, SaveEditedSource, ToggleSource, RemoveTgSource, Fresh
  <2>1. /\ chain'[i].at = "sent" /\ (chain'[i].alone => UnderWay = {})
        /\ \A k \in Chains \ {i} : chain'[k].at = chain[k].at /\ ~chain'[k].alone
    BY <1>2, ChangeStarts DEF SettingsInv
  <2>2. LoneInv'
    BY <2>1 DEF LoneInv, Runs, UnderWay
  <2>3. ShownInv'
    BY <1>0, <2>0, <2>1 DEF ShownInv, Runs
  <2> QED BY <2>2, <2>3
\* A step of one chain that goes on: it keeps whether it is alone.
<1>c. ASSUME NEW i \in Chains, Runs(i), NEW at \in {"served", "refused", "asked"},
             chain' = [chain EXCEPT ![i].at = at]
      PROVE  /\ chain'[i].at = at /\ (chain'[i].alone => chain[i].alone)
             /\ \A k \in Chains \ {i} : chain'[k] = chain[k]
  <2>1. chain'[i] = [chain[i] EXCEPT !.at = at] /\ \A k \in Chains \ {i} : chain'[k] = chain[k]
    BY <1>0, <1>c
  <2>2. /\ [chain[i] EXCEPT !.at = at].at = at
        /\ [chain[i] EXCEPT !.at = at].alone => chain[i].alone
    <3>1. chain[i] \in ChainSet
      BY <1>0
    <3> QED BY <3>1 DEF ChainSet
  <2> QED BY <2>1, <2>2
<1>3. ASSUME NEW i \in Chains, ChangeServed(i) PROVE LoneInv' /\ ShownInv'
  <2>0. Runs(i) /\ chain[i].at = "sent" /\ UNCHANGED <<tgShown, overlapped>>
    BY <1>3 DEF ChangeServed, Runs
  <2>1. PICK at \in {"served", "refused"} :
          chain' = [chain EXCEPT ![i].at = at] /\ (at = "refused" => telegram' = telegram)
    BY <1>3 DEF ChangeServed
  <2>2. /\ chain'[i].at = at /\ (chain'[i].alone => chain[i].alone)
        /\ \A k \in Chains \ {i} : chain'[k] = chain[k]
    BY <1>c, <2>0, <2>1
  <2>3. LoneInv'
    BY <1>0, <2>0, <2>2 DEF LoneInv, Runs
  <2>4. ShownInv'
    BY <1>0, <2>0, <2>1, <2>2 DEF ShownInv, Runs
  <2> QED BY <2>3, <2>4
<1>4. ASSUME NEW i \in Chains, ChangeSucceeds(i) PROVE LoneInv' /\ ShownInv'
  <2>0. Runs(i) /\ UNCHANGED <<telegram, tgShown, overlapped>> /\ chain' = [chain EXCEPT ![i].at = "asked"]
    BY <1>4 DEF ChangeSucceeds, Runs
  <2>1. /\ chain'[i].at = "asked" /\ (chain'[i].alone => chain[i].alone)
        /\ \A k \in Chains \ {i} : chain'[k] = chain[k]
    BY <1>c, <2>0
  <2> QED BY <1>0, <2>0, <2>1 DEF LoneInv, ShownInv, Runs
<1>o. ASSUME NEW i \in Chains, ChainOver(i)
      PROVE  /\ ~Runs(i)' /\ ~chain'[i].alone
             /\ \A k \in Chains \ {i} : chain'[k] = chain[k]
  <2>1. chain'[i] = [NoChain EXCEPT !.at = "done"] /\ \A k \in Chains \ {i} : chain'[k] = chain[k]
    BY <1>0, <1>o DEF ChainOver
  <2>2. [NoChain EXCEPT !.at = "done"].at = "done" /\ ~[NoChain EXCEPT !.at = "done"].alone
    BY ChainTyped
  <2> QED BY <2>1, <2>2 DEF Runs
<1>5. ASSUME NEW i \in Chains, ChainFails(i) PROVE LoneInv' /\ ShownInv'
  <2>1. /\ UNCHANGED <<telegram, tgShown>> /\ overlapped' = (overlapped \/ chain[i].at # "refused")
        /\ ChainOver(i)
    BY <1>5 DEF ChainFails
  <2>2. LoneInv'
    BY <1>0, <1>o, <2>1 DEF LoneInv, Runs
  <2>3. ShownInv'
    BY <1>0, <1>o, <2>1 DEF ShownInv, Runs
  <2> QED BY <2>2, <2>3
<1>6. ASSUME NEW i \in Chains, ReloadReads(i) PROVE LoneInv' /\ ShownInv'
  <2>0. /\ Runs(i) /\ UNCHANGED <<telegram, tgShown, overlapped>>
        /\ chain' = [chain EXCEPT ![i].at = "read", ![i].saw = telegram]
    BY <1>6 DEF ReloadReads, Runs
  <2>1. /\ chain'[i].at = "read" /\ chain'[i].saw = telegram
        /\ (chain'[i].alone => chain[i].alone)
        /\ \A k \in Chains \ {i} : chain'[k] = chain[k]
    <3> DEFINE new == [chain[i] EXCEPT !.at = "read", !.saw = telegram]
    <3>1. chain'[i] = new /\ \A k \in Chains \ {i} : chain'[k] = chain[k]
      BY <1>0, <2>0
    <3>2. new.at = "read" /\ new.saw = telegram /\ (new.alone => chain[i].alone)
      <4>1. chain[i] \in ChainSet
        BY <1>0
      <4> QED BY <4>1 DEF ChainSet
    <3> QED BY <3>1, <3>2
  <2> QED BY <1>0, <2>0, <2>1 DEF LoneInv, ShownInv, Runs
<1>7. ASSUME NEW i \in Chains, ReloadShown(i) PROVE LoneInv' /\ ShownInv'
  <2>1. /\ UNCHANGED telegram /\ tgShown' = chain[i].saw /\ overlapped' = ~chain[i].alone
        /\ ChainOver(i) /\ Runs(i) /\ chain[i].at = "read"
    BY <1>7 DEF ReloadShown, Runs
  <2>2. LoneInv'
    BY <1>0, <1>o, <2>1 DEF LoneInv, Runs
  <2>3. ShownInv'
    BY <1>0, <2>1 DEF LoneInv, ShownInv
  <2> QED BY <2>2, <2>3
<1>8. CASE \/ (\E s \in TgSources : BeginEditSource(s))
           \/ CancelEditSource \/ ChooseDestination \/ CreateFolio \/ FolioCreated
           \/ RequestBackfill \/ ConfirmBackfill \/ BackfillBatch \/ UNCHANGED settingsVars
  BY <1>1, <1>8 DEF BeginEditSource, CancelEditSource, ChooseDestination, CreateFolio, FolioCreated,
                    RequestBackfill, ConfirmBackfill, BackfillBatch, settingsVars
<1> QED BY <1>2, <1>3, <1>4, <1>5, <1>6, <1>7, <1>8 DEF SettingsNext

\* After a change that no other one overlapped, Settings shows the sources of the server
\* (Settings.tsx, the changes and reloadSources), for any number of sources and changes.
THEOREM SettingsSettle == SettingsSpec => []SettledSourcesAreShown
<1>1. SettingsInv => SettledSourcesAreShown
  BY DEF SettingsInv, ShownInv, Runs, SettledSourcesAreShown, UnderWay
<1> QED BY SettingsStart, SettingsStep, <1>1, PTL DEF SettingsSpec

------------------------------------------------------------------------------
(* The offline stores *)

\* A value that is stored or will be, and did not escape a deletion, is at least as new as n.
AtLeast(s, n) ==
  /\ store[s] # NoEntry /\ ~store[s].late => store[s].value >= n
  /\ \A g \in Gets : get[g].at = "read" /\ get[g].of = s /\ ~get[g].late => get[g].saw >= n

\* The requests and the mutators as OfflineTypeOK types them, without the bounds.
GetStates == [at : {"none", "sent", "read", "done"}, of : Stores, saw : Int, late : BOOLEAN]

WriteStates ==
  [at : {"none", "sent", "served", "refused", "cleared", "done"},
   images : BOOLEAN, made : [Stores -> Int]]

\* The types a proof needs: how far the changes count is a bound of the runs.
OfflineTyped ==
  /\ version \in [Stores -> Int] /\ known \in [Stores -> Int]
  /\ store \in [Stores -> [value : Int, late : BOOLEAN]]
  /\ get \in [Gets -> GetStates]
  /\ write \in [Writes -> WriteStates]

\* The stores hold nothing older than the changes that mutators have cleared for, whether or
\* not they have returned, and no change is ahead of the server.
OfflineInv ==
  /\ OfflineTyped
  /\ \A s \in Stores : known[s] <= version[s] /\ AtLeast(s, known[s])
  /\ \A w \in Writes, s \in Stores :
       /\ write[w].at \in {"served", "cleared"} => write[w].made[s] <= version[s]
       /\ write[w].at = "cleared" /\ s \in TouchedBy(w) => AtLeast(s, write[w].made[s])

\* No request and no mutator are of these types.
LEMMA NoGetTyped == NoGet \in GetStates /\ NoWrite \in WriteStates
<1>1. NoGet \in GetStates
  <2>1. -1 \in Int /\ FALSE \in BOOLEAN
    OBVIOUS
  <2> QED
    BY <2>1 DEF NoGet, Missing, Stores, GetStates
<1>2. NoWrite \in WriteStates
  <2>1. FALSE \in BOOLEAN /\ [s \in Stores |-> 0] \in [Stores -> Int]
    OBVIOUS
  <2> QED
    BY <2>1 DEF NoWrite, WriteStates
<1> QED
  BY <1>1, <1>2

\* The types are inductive.
LEMMA OfflineTypeNext == OfflineTyped /\ [OfflineNext]_offlineVars => OfflineTyped'
<1> SUFFICES ASSUME OfflineTyped, [OfflineNext]_offlineVars PROVE OfflineTyped'
  OBVIOUS
<1> USE DEF OfflineTyped, GetStates, WriteStates
<1>1. ASSUME NEW g \in Gets, NEW s \in Stores, GetSent(g, s) PROVE OfflineTyped'
  <2>1. get' = [get EXCEPT ![g] = [get[g] EXCEPT !.at = "sent", !.of = s]]
    BY <1>1 DEF GetSent
  <2>2. [get[g] EXCEPT !.at = "sent", !.of = s] \in GetStates
    <3>1. PICK x \in GetStates : x = get[g]
      OBVIOUS
    <3>2. [x EXCEPT !.at = "sent", !.of = s] \in GetStates
      OBVIOUS
    <3> QED
      BY <3>1, <3>2
  <2>3. get' \in [Gets -> GetStates]
    <3> HIDE DEF GetStates
    <3> QED
      BY <2>1, <2>2
  <2> QED
    BY <1>1, <2>3 DEF GetSent
<1>2. ASSUME NEW g \in Gets, GetServed(g) PROVE OfflineTyped'
  <2>0. version[get[g].of] \in Int
    OBVIOUS
  <2>1. get' = [get EXCEPT ![g] = [get[g] EXCEPT !.at = "read", !.saw = version[get[g].of]]]
    BY <1>2 DEF GetServed
  <2>2. [get[g] EXCEPT !.at = "read", !.saw = version[get[g].of]] \in GetStates
    <3>1. PICK x \in GetStates, n \in Int : x = get[g] /\ n = version[get[g].of]
      BY <2>0
    <3>2. [x EXCEPT !.at = "read", !.saw = n] \in GetStates
      OBVIOUS
    <3> QED
      BY <3>1, <3>2
  <2>3. get' \in [Gets -> GetStates]
    <3> HIDE DEF GetStates
    <3> QED
      BY <2>1, <2>2
  <2> QED
    BY <1>2, <2>3 DEF GetServed
<1>n. [NoGet EXCEPT !.at = "done"] \in GetStates
  <2>1. PICK x \in GetStates : x = NoGet
    BY NoGetTyped
  <2>2. [x EXCEPT !.at = "done"] \in GetStates
    OBVIOUS
  <2> QED
    BY <2>1, <2>2
<1>3. ASSUME NEW g \in Gets, GetStored(g) PROVE OfflineTyped'
  <2>1. get' \in [Gets -> GetStates]
    <3>1. get' = [get EXCEPT ![g] = [NoGet EXCEPT !.at = "done"]]
      BY <1>3 DEF GetStored
    <3> HIDE DEF GetStates
    <3> QED
      BY <3>1, <1>n
  <2>2. store' \in [Stores -> [value : Int, late : BOOLEAN]]
    <3>1. PICK v \in Int, b \in BOOLEAN : store' = [store EXCEPT ![get[g].of] = [value |-> v, late |-> b]]
      BY <1>3 DEF GetStored
    <3> QED
      BY <3>1
  <2> QED
    BY <1>3, <2>1, <2>2 DEF GetStored
<1>4. ASSUME NEW g \in Gets, GetFails(g) PROVE OfflineTyped'
  <2>1. get' = [get EXCEPT ![g] = [NoGet EXCEPT !.at = "done"]]
    BY <1>4 DEF GetFails
  <2>2. get' \in [Gets -> GetStates]
    <3> HIDE DEF GetStates
    <3> QED
      BY <2>1, <1>n
  <2> QED
    BY <1>4, <2>2 DEF GetFails
<1>5. ASSUME NEW s \in Stores, EntryExpires(s) PROVE OfflineTyped'
  <2>1. store' = [store EXCEPT ![s] = NoEntry] /\ UNCHANGED <<version, known, get, write>>
    BY <1>5 DEF EntryExpires
  <2>2. NoEntry \in [value : Int, late : BOOLEAN]
    BY DEF NoEntry, Missing
  <2> QED
    BY <2>1, <2>2
<1>6. ASSUME NEW w \in Writes, NEW images \in BOOLEAN, WriteSent(w, images) PROVE OfflineTyped'
  <2>1. write' = [write EXCEPT ![w] = [write[w] EXCEPT !.at = "sent", !.images = images]]
    BY <1>6 DEF WriteSent
  <2>2. [write[w] EXCEPT !.at = "sent", !.images = images] \in WriteStates
    OBVIOUS
  <2>3. write' \in [Writes -> WriteStates]
    <3> HIDE DEF WriteStates
    <3> QED
      BY <2>1, <2>2
  <2> QED
    BY <1>6, <2>3 DEF WriteSent
<1>7. ASSUME NEW w \in Writes, WriteServed(w) PROVE OfflineTyped'
  <2>1. version' \in [Stores -> Int]
    BY <1>7 DEF WriteServed
  <2>2. write' = [write EXCEPT ![w] = [write[w] EXCEPT !.at = "served", !.made = version']]
    BY <1>7 DEF WriteServed
  <2>3. [write[w] EXCEPT !.at = "served", !.made = version'] \in WriteStates
    BY <2>1
  <2>4. write' \in [Writes -> WriteStates]
    <3> HIDE DEF WriteStates
    <3> QED
      BY <2>2, <2>3
  <2> QED
    BY <1>7, <2>1, <2>4 DEF WriteServed
<1>8. ASSUME NEW w \in Writes, WriteRefused(w) PROVE OfflineTyped'
  BY <1>8 DEF WriteRefused
<1>9. ASSUME NEW w \in Writes, NEW kept \in SUBSET Stores, ClearOfflineCaches(w, kept)
      PROVE  OfflineTyped'
  <2>1. store' \in [Stores -> [value : Int, late : BOOLEAN]]
    <3>1. ASSUME NEW s \in Stores PROVE store'[s] \in [value : Int, late : BOOLEAN]
      <4>1. store'[s] = [store[s] EXCEPT !.late = TRUE] \/ store'[s] = NoEntry \/ store'[s] = store[s]
        BY <1>9 DEF ClearOfflineCaches
      <4>2. NoEntry \in [value : Int, late : BOOLEAN]
        BY DEF NoEntry, Missing
      <4> QED
        BY <4>1, <4>2
    <3> QED
      BY <1>9, <3>1 DEF ClearOfflineCaches
  <2>2. get' \in [Gets -> GetStates]
    <3>1. ASSUME NEW g \in Gets PROVE get'[g] \in GetStates
      <4>1. get'[g] = [get[g] EXCEPT !.late = TRUE] \/ get'[g] = get[g]
        BY <1>9 DEF ClearOfflineCaches
      <4> QED
        BY <4>1
    <3> HIDE DEF GetStates
    <3> QED
      BY <1>9, <3>1 DEF ClearOfflineCaches
  <2>3. write' \in [Writes -> WriteStates]
    BY <1>9 DEF ClearOfflineCaches
  <2> QED
    BY <1>9, <2>1, <2>2, <2>3 DEF ClearOfflineCaches
<1>d. [NoWrite EXCEPT !.at = "done"] \in WriteStates
  <2>1. PICK x \in WriteStates : x = NoWrite
    BY NoGetTyped
  <2>2. [x EXCEPT !.at = "done"] \in WriteStates
    OBVIOUS
  <2> QED
    BY <2>1, <2>2
<1>10. ASSUME NEW w \in Writes, WriteReturns(w) PROVE OfflineTyped'
  <2>1. known' \in [Stores -> Int]
    BY <1>10 DEF WriteReturns
  <2>2. write' = [write EXCEPT ![w] = [NoWrite EXCEPT !.at = "done"]]
    BY <1>10 DEF WriteReturns
  <2>3. write' \in [Writes -> WriteStates]
    <3> HIDE DEF WriteStates
    <3> QED
      BY <2>2, <1>d
  <2> QED
    BY <1>10, <2>1, <2>3 DEF WriteReturns
<1>11. ASSUME NEW w \in Writes, WriteThrows(w) PROVE OfflineTyped'
  <2>1. write' = [write EXCEPT ![w] = [NoWrite EXCEPT !.at = "done"]]
    BY <1>11 DEF WriteThrows
  <2>2. write' \in [Writes -> WriteStates]
    <3> HIDE DEF WriteStates
    <3> QED
      BY <2>1, <1>d
  <2> QED
    BY <1>11, <2>2 DEF WriteThrows
<1>12. CASE UNCHANGED offlineVars
  BY <1>12 DEF offlineVars
<1> QED
  BY <1>1, <1>2, <1>3, <1>4, <1>5, <1>6, <1>7, <1>8, <1>9, <1>10, <1>11, <1>12 DEF OfflineNext

\* The stores start empty.
LEMMA OfflineStarts == OfflineInit => OfflineInv
  BY OfflineAssumption DEF OfflineInit, OfflineInv, OfflineTyped, AtLeast, NoEntry, NoGet, NoWrite, Stores,
         Missing, GetStates, WriteStates

\* A step keeps what is known and what was cleared for, on every store: a clearing empties the
\* store and marks what is on its way, and a request the server answers later sees the change.
LEMMA OfflineStep == OfflineInv /\ [OfflineNext]_offlineVars => OfflineInv'
<1> SUFFICES ASSUME OfflineInv, [OfflineNext]_offlineVars PROVE OfflineInv'
  OBVIOUS
<1>0. OfflineTyped'
  BY OfflineTypeNext DEF OfflineInv
<1> SUFFICES ASSUME NEW s \in Stores, NEW w
             PROVE  /\ known'[s] <= version'[s] /\ AtLeast(s, known[s])'
                    /\ w \in Writes =>
                         /\ write'[w].at \in {"served", "cleared"} => write'[w].made[s] <= version'[s]
                         /\ write'[w].at = "cleared" /\ s \in TouchedBy(w)' => AtLeast(s, write[w].made[s])'
  BY <1>0 DEF OfflineInv
<1>t. OfflineTyped
  BY DEF OfflineInv
<1> USE DEF OfflineTyped, GetStates, WriteStates
<1>u. known[s] \in Int /\ version[s] \in Int /\ (w \in Writes => write[w].made[s] \in Int)
  BY <1>t
<1>i. /\ known[s] <= version[s] /\ AtLeast(s, known[s])
      /\ w \in Writes =>
           /\ write[w].at \in {"served", "cleared"} => write[w].made[s] <= version[s]
           /\ write[w].at = "cleared" /\ s \in TouchedBy(w) => AtLeast(s, write[w].made[s])
  BY DEF OfflineInv
<1> DEFINE Goal ==
             /\ known'[s] <= version'[s] /\ AtLeast(s, known[s])'
             /\ w \in Writes =>
                  /\ write'[w].at \in {"served", "cleared"} => write'[w].made[s] <= version'[s]
                  /\ write'[w].at = "cleared" /\ s \in TouchedBy(w)' => AtLeast(s, write[w].made[s])'
<1>1. ASSUME NEW g \in Gets, NEW t \in Stores, GetSent(g, t) PROVE Goal
  BY <1>1, <1>t, <1>i DEF GetSent, AtLeast, TouchedBy
<1>2. ASSUME NEW g \in Gets, GetServed(g) PROVE Goal
  BY <1>2, <1>t, <1>u, <1>i DEF GetServed, AtLeast, TouchedBy
<1>3. ASSUME NEW g \in Gets, GetStored(g) PROVE Goal
  BY <1>3, <1>t, <1>i DEF GetStored, AtLeast, TouchedBy, NoGet
<1>4. ASSUME NEW g \in Gets, GetFails(g) PROVE Goal
  BY <1>4, <1>t, <1>i DEF GetFails, AtLeast, TouchedBy, NoGet
<1>5. ASSUME NEW t \in Stores, EntryExpires(t) PROVE Goal
  BY <1>5, <1>t, <1>i DEF EntryExpires, AtLeast, TouchedBy
<1>6. ASSUME NEW v \in Writes, NEW images \in BOOLEAN, WriteSent(v, images) PROVE Goal
  BY <1>6, <1>t, <1>i DEF WriteSent, AtLeast, TouchedBy
<1>7. ASSUME NEW v \in Writes, WriteServed(v) PROVE Goal
  BY <1>7, <1>t, <1>u, <1>i DEF WriteServed, AtLeast, TouchedBy
<1>8. ASSUME NEW v \in Writes, WriteRefused(v) PROVE Goal
  BY <1>8, <1>t, <1>i DEF WriteRefused, AtLeast, TouchedBy
<1>9. ASSUME NEW v \in Writes, NEW kept \in SUBSET Stores, ClearOfflineCaches(v, kept) PROVE Goal
  BY <1>9, <1>t, <1>i DEF ClearOfflineCaches, AtLeast, TouchedBy, StoresCleared
<1>10. ASSUME NEW v \in Writes, WriteReturns(v) PROVE Goal
  <2>1. /\ write[v].at = "cleared" /\ write[v].made[s] <= version[s]
        /\ s \in TouchedBy(v) => AtLeast(s, write[v].made[s])
    BY <1>10 DEF WriteReturns, OfflineInv
  <2>2. known'[s] = known[s] \/ (known'[s] = write[v].made[s] /\ s \in TouchedBy(v))
    BY <1>10, <1>t DEF WriteReturns
  <2>3. UNCHANGED <<version, store, get>>
    BY <1>10 DEF WriteReturns
  <2>4. known'[s] <= version'[s] /\ AtLeast(s, known[s])'
    BY <1>i, <2>1, <2>2, <2>3 DEF AtLeast
  <2>5. w \in Writes => write'[w].at = "done" \/ write'[w] = write[w]
    BY <1>10, <1>t DEF WriteReturns, NoWrite
  <2> QED
    BY <1>i, <2>3, <2>4, <2>5 DEF AtLeast, TouchedBy
<1>11. ASSUME NEW v \in Writes, WriteThrows(v) PROVE Goal
  BY <1>11, <1>t, <1>i DEF WriteThrows, AtLeast, TouchedBy, NoWrite
<1>12. CASE UNCHANGED offlineVars
  BY <1>12, <1>i DEF offlineVars, AtLeast, TouchedBy
<1> QED
  BY <1>1, <1>2, <1>3, <1>4, <1>5, <1>6, <1>7, <1>8, <1>9, <1>10, <1>11, <1>12 DEF OfflineNext

\* Nothing older than a change a mutator has returned from is answered offline (api.ts,
\* clearOfflineCaches; vite.config.ts), for any number of requests and changes.
THEOREM OfflineFresh == OfflineSpec => []OfflineAnswersAreFresh
<1>1. OfflineInv => OfflineAnswersAreFresh
  BY DEF OfflineInv, AtLeast, OfflineAnswersAreFresh
<1> QED
  BY OfflineStarts, OfflineStep, <1>1, PTL DEF OfflineSpec

\* The mutators that may still change the server.
Unserved == {w \in Writes : write[w].at \in {"none", "sent"}}

\* The numbers of changes stay within the bound: each mutator makes one change at most.
OfflineBounded ==
  /\ \A s \in Stores : /\ version[s] \in 0..MaxWrites /\ known[s] \in 0..MaxWrites
                       /\ store[s].value \in Missing..MaxWrites
                       /\ version[s] + Cardinality(Unserved) <= MaxWrites
  /\ \A g \in Gets : get[g].saw \in Missing..MaxWrites
  /\ \A w \in Writes, s \in Stores : write[w].made[s] \in 0..MaxWrites

\* Sets of mutators are finite.
LEMMA UnservedFinite ==
  ASSUME NEW U \in SUBSET Writes
  PROVE  IsFiniteSet(U) /\ Cardinality(U) \in Nat
<1>1. MaxWrites \in Int /\ 1 \in Int
  BY OfflineAssumption
<1>2. IsFiniteSet(Writes)
  BY <1>1, FS_Interval, Zenon DEF Writes
<1>3. IsFiniteSet(U)
  BY <1>2, FS_Subset, Zenon
<1> QED
  BY <1>3, FS_CardinalityType, Zenon

\* At first every mutator is unserved and nothing has changed.
LEMMA OfflineBoundStarts == OfflineInit => OfflineBounded
<1> SUFFICES ASSUME OfflineInit PROVE OfflineBounded
  OBVIOUS
<1>1. Unserved = Writes
  BY DEF OfflineInit, Unserved, NoWrite
<1>2. Cardinality(Writes) = MaxWrites
  <2>1. Cardinality(1..MaxWrites) = IF 1 > MaxWrites THEN 0 ELSE MaxWrites - 1 + 1
    BY OfflineAssumption, FS_Interval
  <2> QED
    BY <2>1, OfflineAssumption DEF Writes
<1>3. MaxWrites \in Nat /\ 0 \in 0..MaxWrites /\ Missing \in Missing..MaxWrites
  BY OfflineAssumption DEF Missing
<1>4. \A s \in Stores : /\ version[s] = 0 /\ known[s] = 0 /\ store[s].value = Missing
                        /\ version[s] + Cardinality(Unserved) <= MaxWrites
  BY <1>1, <1>2, <1>3 DEF OfflineInit, NoEntry
<1>5. \A g \in Gets : get[g].saw = Missing
  BY DEF OfflineInit, NoGet
<1>6. \A w \in Writes, s \in Stores : write[w].made[s] = 0
  BY DEF OfflineInit, NoWrite
<1> QED
  BY <1>3, <1>4, <1>5, <1>6 DEF OfflineBounded

\* A step that serves nobody leaves the count alone, and copies numbers that are in bounds.
LEMMA OfflineBoundStep ==
  OfflineTyped /\ OfflineBounded /\ [OfflineNext]_offlineVars => OfflineBounded'
<1> SUFFICES ASSUME OfflineTyped, OfflineBounded, [OfflineNext]_offlineVars PROVE OfflineBounded'
  OBVIOUS
<1>0. /\ MaxWrites \in Nat /\ Missing \in Missing..MaxWrites /\ 0 \in 0..MaxWrites
      /\ 0..MaxWrites \subseteq Missing..MaxWrites
  BY OfflineAssumption DEF Missing
\* Requests and entries.
<1>1. ASSUME NEW g \in Gets PROVE get'[g].saw \in Missing..MaxWrites
  <2>1. get[g].saw \in Missing..MaxWrites /\ get[g].of \in Stores
    BY DEF OfflineBounded, OfflineTyped, GetStates
  <2>2. version[get[g].of] \in Missing..MaxWrites
    BY <1>0, <2>1 DEF OfflineBounded
  <2>3. /\ get \in [Gets -> GetStates] /\ NoGet \in GetStates
        /\ [NoGet EXCEPT !.at = "done"].saw = Missing
    BY NoGetTyped DEF OfflineTyped, NoGet
  <2>4. ASSUME NEW k \in Gets, NEW s \in Stores, GetSent(k, s) PROVE get'[g].saw = get[g].saw
    BY <2>3, <2>4 DEF GetSent, GetStates
  <2>5. ASSUME NEW k \in Gets, GetServed(k) PROVE get'[g].saw \in {get[g].saw, version[get[g].of]}
    BY <2>3, <2>5 DEF GetServed, GetStates
  <2>6. ASSUME NEW k \in Gets, GetStored(k) \/ GetFails(k) PROVE get'[g].saw \in {get[g].saw, Missing}
    BY <2>3, <2>6 DEF GetStored, GetFails
  <2>7. ASSUME NEW w \in Writes, NEW kept \in SUBSET Stores, ClearOfflineCaches(w, kept)
        PROVE  get'[g].saw = get[g].saw
    BY <2>3, <2>7 DEF ClearOfflineCaches, GetStates
  <2>8. CASE UNCHANGED get
    BY <2>8, <2>1
  <2> QED
    BY <1>0, <2>1, <2>2, <2>4, <2>5, <2>6, <2>7, <2>8
    DEF OfflineNext, offlineVars, EntryExpires, WriteSent, WriteServed, WriteRefused, WriteReturns, WriteThrows
<1>2. ASSUME NEW s \in Stores PROVE store'[s].value \in Missing..MaxWrites
  <2>1. store[s].value \in Missing..MaxWrites /\ store \in [Stores -> [value : Int, late : BOOLEAN]]
    BY DEF OfflineBounded, OfflineTyped
  <2>2. NoEntry.value = Missing
    BY DEF NoEntry
  <2>3. ASSUME NEW k \in Gets, GetStored(k) PROVE store'[s].value \in {store[s].value, get[k].saw}
    BY <2>1, <2>3 DEF GetStored
  <2>4. ASSUME NEW k \in Stores, EntryExpires(k) PROVE store'[s].value \in {store[s].value, Missing}
    BY <2>1, <2>2, <2>4 DEF EntryExpires
  <2>5. ASSUME NEW w \in Writes, NEW kept \in SUBSET Stores, ClearOfflineCaches(w, kept)
        PROVE  store'[s].value \in {store[s].value, Missing}
    BY <2>1, <2>2, <2>5 DEF ClearOfflineCaches
  <2>6. CASE UNCHANGED store
    BY <2>6, <2>1
  <2>7. \A k \in Gets : get[k].saw \in Missing..MaxWrites
    BY DEF OfflineBounded
  <2> QED
    BY <1>0, <2>1, <2>3, <2>4, <2>5, <2>6, <2>7
    DEF OfflineNext, offlineVars, GetSent, GetServed, GetFails, WriteSent, WriteServed, WriteRefused,
        WriteReturns, WriteThrows
\* A mutator that is served is one fewer.
<1>3. ASSUME NEW w \in Writes, WriteServed(w)
      PROVE  \A s \in Stores : version'[s] \in 0..MaxWrites /\ version'[s] + Cardinality(Unserved') <= MaxWrites
  <2>1. w \in Unserved /\ Unserved \in SUBSET Writes
    BY <1>3 DEF WriteServed, Unserved
  <2>2. Unserved' = Unserved \ {w}
    BY <1>3 DEF WriteServed, Unserved, OfflineTyped, WriteStates
  <2>3. Cardinality(Unserved \ {w}) = Cardinality(Unserved) - 1 /\ Cardinality(Unserved \ {w}) \in Nat
    BY <2>1, UnservedFinite, FS_RemoveElement
  <2>4. Cardinality(Unserved) \in Nat
    BY <2>1, UnservedFinite
  <2>5. ASSUME NEW s \in Stores PROVE version'[s] \in {version[s], version[s] + 1}
    BY <1>3 DEF WriteServed, OfflineTyped
  <2> QED
    BY <1>0, <2>2, <2>3, <2>4, <2>5 DEF OfflineBounded
<1>4. ASSUME \A w \in Writes : ~WriteServed(w)
      PROVE  \A s \in Stores : version'[s] \in 0..MaxWrites /\ version'[s] + Cardinality(Unserved') <= MaxWrites
  <2>1. UNCHANGED version
    BY <1>4 DEF OfflineNext, offlineVars, GetSent, GetServed, GetStored, GetFails, EntryExpires,
                WriteSent, WriteRefused, WriteReturns, WriteThrows, ClearOfflineCaches
  <2>2. Unserved' \subseteq Unserved /\ Unserved \in SUBSET Writes
    <3>1. ASSUME NEW k \in Writes, write'[k].at \in {"none", "sent"} PROVE write[k].at \in {"none", "sent"}
      <4>0. write \in [Writes -> WriteStates] /\ [NoWrite EXCEPT !.at = "done"].at = "done"
        BY DEF OfflineTyped, NoWrite
      <4>1. ASSUME NEW w \in Writes, NEW images \in BOOLEAN, WriteSent(w, images)
            PROVE  write[k].at \in {"none", "sent"}
        BY <3>1, <4>0, <4>1 DEF WriteSent, WriteStates
      <4>2. ASSUME NEW w \in Writes, WriteRefused(w) PROVE write[k].at \in {"none", "sent"}
        BY <3>1, <4>0, <4>2 DEF WriteRefused, WriteStates
      <4>3. ASSUME NEW w \in Writes, WriteReturns(w) \/ WriteThrows(w)
            PROVE  write[k].at \in {"none", "sent"}
        BY <3>1, <4>0, <4>3 DEF WriteReturns, WriteThrows
      <4>4. ASSUME NEW w \in Writes, NEW kept \in SUBSET Stores, ClearOfflineCaches(w, kept)
            PROVE  write[k].at \in {"none", "sent"}
        BY <3>1, <4>0, <4>4 DEF ClearOfflineCaches, WriteStates
      <4>5. CASE UNCHANGED write
        BY <3>1, <4>5
      <4> QED
        BY <1>4, <4>1, <4>2, <4>3, <4>4, <4>5
        DEF OfflineNext, offlineVars, GetSent, GetServed, GetStored, GetFails, EntryExpires
    <3> QED
      BY <3>1 DEF Unserved
  <2>3. Cardinality(Unserved') <= Cardinality(Unserved)
        /\ Cardinality(Unserved) \in Nat /\ Cardinality(Unserved') \in Nat
    BY <2>2, UnservedFinite, FS_Subset
  <2> QED
    BY <1>0, <2>1, <2>3 DEF OfflineBounded
<1>5. \A s \in Stores : version'[s] \in 0..MaxWrites /\ version'[s] + Cardinality(Unserved') <= MaxWrites
  BY <1>3, <1>4
<1>6. ASSUME NEW k \in Writes, NEW s \in Stores PROVE write'[k].made[s] \in 0..MaxWrites
  <2>1. write \in [Writes -> WriteStates] /\ write[k].made[s] \in 0..MaxWrites /\ NoWrite \in WriteStates
    BY NoGetTyped DEF OfflineBounded, OfflineTyped
  <2>2. [NoWrite EXCEPT !.at = "done"].made[s] = 0
    BY DEF NoWrite
  <2>3. ASSUME NEW w \in Writes, WriteServed(w) PROVE write'[k].made[s] \in {write[k].made[s], version'[s]}
    BY <2>1, <2>3 DEF WriteServed, WriteStates
  <2>4. ASSUME NEW w \in Writes, NEW images \in BOOLEAN, WriteSent(w, images)
        PROVE  write'[k].made = write[k].made
    BY <2>1, <2>4 DEF WriteSent, WriteStates
  <2>5. ASSUME NEW w \in Writes, WriteRefused(w) PROVE write'[k].made = write[k].made
    BY <2>1, <2>5 DEF WriteRefused, WriteStates
  <2>6. ASSUME NEW w \in Writes, WriteReturns(w) \/ WriteThrows(w)
        PROVE  write'[k].made[s] \in {write[k].made[s], 0}
    BY <2>1, <2>2, <2>6 DEF WriteReturns, WriteThrows
  <2>7. ASSUME NEW w \in Writes, NEW kept \in SUBSET Stores, ClearOfflineCaches(w, kept)
        PROVE  write'[k].made = write[k].made
    BY <2>1, <2>7 DEF ClearOfflineCaches, WriteStates
  <2>8. CASE UNCHANGED write
    BY <2>8, <2>1
  <2> QED
    BY <1>0, <1>5, <2>1, <2>3, <2>4, <2>5, <2>6, <2>7, <2>8
    DEF OfflineNext, offlineVars, GetSent, GetServed, GetStored, GetFails, EntryExpires
<1>7. ASSUME NEW s \in Stores PROVE known'[s] \in 0..MaxWrites
  <2>1. known[s] \in 0..MaxWrites /\ \A w \in Writes : write[w].made[s] \in 0..MaxWrites
    BY DEF OfflineBounded
  <2>2. ASSUME NEW w \in Writes, WriteReturns(w) PROVE known'[s] \in {known[s], write[w].made[s]}
    BY <2>2 DEF WriteReturns
  <2>3. CASE UNCHANGED known
    BY <2>3, <2>1
  <2> QED
    BY <2>1, <2>2, <2>3
    DEF OfflineNext, offlineVars, GetSent, GetServed, GetStored, GetFails, EntryExpires,
        WriteSent, WriteServed, WriteRefused, WriteThrows, ClearOfflineCaches
<1> QED
  BY <1>1, <1>2, <1>5, <1>6, <1>7 DEF OfflineBounded

\* Within their bounds the types are those of the runs.
LEMMA OfflineTypes == OfflineTyped /\ OfflineBounded => OfflineTypeOK
<1> SUFFICES ASSUME OfflineTyped, OfflineBounded PROVE OfflineTypeOK
  OBVIOUS
<1>1. version \in [Stores -> 0..MaxWrites] /\ known \in [Stores -> 0..MaxWrites]
  BY DEF OfflineTyped, OfflineBounded
<1>2. store \in [Stores -> [value : Missing..MaxWrites, late : BOOLEAN]]
  BY DEF OfflineTyped, OfflineBounded
<1>3. get \in [Gets -> [at : {"none", "sent", "read", "done"}, of : Stores,
                       saw : Missing..MaxWrites, late : BOOLEAN]]
  BY DEF OfflineTyped, OfflineBounded, GetStates
<1>4. write \in [Writes -> [at : {"none", "sent", "served", "refused", "cleared", "done"},
                           images : BOOLEAN, made : [Stores -> 0..MaxWrites]]]
  <2>1. ASSUME NEW w \in Writes PROVE write[w].made \in [Stores -> 0..MaxWrites]
    BY DEF OfflineTyped, OfflineBounded, WriteStates
  <2> QED
    BY <2>1 DEF OfflineTyped, WriteStates
<1> QED
  BY <1>1, <1>2, <1>3, <1>4 DEF OfflineTypeOK

=============================================================================
