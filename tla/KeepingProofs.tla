---------------------------- MODULE KeepingProofs ----------------------------
(***************************************************************************)
(* What the scheduler's global mutex buys: between the moment a run finds  *)
(* that an item is not kept and the moment it records the outcome nobody   *)
(* else keeps the item (FreshInv), so no scheduled run ever demotes a kept *)
(* piece, and a duplicate parked in the Inbox points at bytes a row holds; *)
(* and the whole of Ingest implements the ledger. Then what needs no       *)
(* mutex: with page calls of the API beside the runs (Extraction) the      *)
(* deduplication, the accounting, the ledger and the Inbox stand as        *)
(* before, because a step of either changes one row in a way the other     *)
(* allows for. What is lost is that kept pieces stay kept, as two calls    *)
(* have no lock in common; last, the key locks of a single call give it    *)
(* back to that call.                                                      *)
(***************************************************************************)
EXTENDS AccountingProofs, Extraction

------------------------------------------------------------------------------
(* One run at a time *)

MutexInv == \A p \in Providers : pc[p] \in InLoop => extractionMu = p

LEMMA MutexInit == Init => MutexInv
BY DEF Init, IngestInit, MutexInv, InLoop, Outcome

LEMMA MutexStep == TypeInv /\ MutexInv /\ [Next]_vars => MutexInv'
<1> SUFFICES ASSUME TypeInv, MutexInv, [Next]_vars PROVE MutexInv'
  OBVIOUS
<1> USE DEF TypeInv, TypeOK, IngestTypeOK
<1>1. ASSUME NEW p \in Providers, UNCHANGED extractionMu,
             pc'[p] \in InLoop => pc[p] \in InLoop,
             \A q \in Providers \ {p} : pc'[q] = pc[q]
      PROVE  MutexInv'
  BY <1>1 DEF MutexInv
<1>2. ASSUME NEW p \in Providers, Begin(p) PROVE MutexInv'
  BY <1>2, IngestAssumption DEF Begin, MutexInv
<1>3. ASSUME NEW p \in Providers, Finish(p) \/ FinishFails(p) PROVE MutexInv'
  <2>1. pc'[p] \notin InLoop /\ \A q \in Providers \ {p} : pc'[q] = pc[q]
    BY <1>3 DEF Finish, FinishFails, EndRun, RunStatus, EndState, InLoop, Outcome
  <2>2. extractionMu = p
    BY <1>3 DEF Finish, FinishFails, EndRun, RunStatus, EndState, MutexInv, InLoop
  <2> QED BY <2>1, <2>2 DEF MutexInv
<1>4. ASSUME NEW p \in Providers,
             \/ Tick(p) \/ BeginFails(p) \/ DiscoverFails(p) \/ DiscoverBroken(p)
             \/ ItemWithoutKey(p)
             \/ ItemSeen(p) \/ ItemKept(p) \/ ItemNew(p) \/ Resolve(p) \/ ResolveGone(p)
             \/ ResolveStops(p) \/ Park(p) \/ Download(p) \/ DownloadFails(p) \/ Insert(p)
             \/ Update(p) \/ Route(p) \/ RecordFailure(p) \/ Mark(p) \/ MarkOwner(p)
             \/ Abort(p) \/ SavePage(p) \/ SavePageFails(p) \/ DiscoverUpdates(p)
             \/ DiscoverGalleryPage(p)
      PROVE  MutexInv'
  <2>1. UNCHANGED extractionMu
    BY <1>4 DEF Tick, BeginFails, DiscoverFails, Confirm, DiscoverBroken, ItemWithoutKey,
                ItemSeen, ItemKept,
                ItemNew, Resolve, ResolveGone, ResolveStops, Park, Download, DownloadFails,
                Insert, Update, Route, RecordFailure, Mark, MarkOwner, Abort, SavePage,
                SavePageFails, DiscoverUpdates, DiscoverGalleryPage
  <2>2. \A q \in Providers \ {p} : pc'[q] = pc[q]
    BY <1>4 DEF Tick, BeginFails, DiscoverFails, Confirm, DiscoverBroken, ItemWithoutKey,
                ItemSeen, ItemKept,
                ItemNew, Resolve, ResolveGone, ResolveStops, Park, Download, DownloadFails,
                Insert, Update, Route, RecordFailure, Mark, MarkOwner, Abort, SavePage,
                SavePageFails, DiscoverUpdates, DiscoverGalleryPage, Goto, NextItem,
                Discovered
  <2>3. pc'[p] \in InLoop => pc[p] \in InLoop
    <3>1. CASE Tick(p) \/ BeginFails(p)
      BY <3>1 DEF Tick, BeginFails, Goto, InLoop, Outcome
    <3>2. CASE ~(Tick(p) \/ BeginFails(p))
      BY <1>4, <3>2
      DEF DiscoverFails, Confirm, DiscoverBroken, ItemWithoutKey, ItemSeen, ItemKept,
          ItemNew, Resolve, ResolveGone, ResolveStops, Park, Download, DownloadFails,
          Insert, Update, Route, RecordFailure, Mark, MarkOwner, Abort, SavePage,
          SavePageFails, DiscoverUpdates, DiscoverGalleryPage, HasItem, At, InLoop
    <3> QED BY <3>1, <3>2
  <2> QED BY <1>1, <2>1, <2>2, <2>3
<1>5. CASE Crash
  BY <1>5 DEF Crash, MutexInv, InLoop, Outcome
<1>6. ASSUME UNCHANGED <<extractionMu, pc>> PROVE MutexInv'
  BY <1>6 DEF MutexInv
<1>7. ASSUME NEW p \in Providers, Publish(p) PROVE UNCHANGED <<extractionMu, pc>>
  BY <1>7 DEF Publish, runVars
<1>8. CASE CacheFails \/ Operator \/ UNCHANGED vars
  BY <1>6, <1>8 DEF CacheFails, Operator, vars, ingestVars, runVars
<1> QED BY <1>2, <1>3, <1>4, <1>5, <1>6, <1>7, <1>8, NextCases

------------------------------------------------------------------------------
(* The item in hand stays new until its outcome is recorded *)

Fresh == {"resolve", "park", "gone", "fetch", "insert", "update", "route", "fail"}

FreshInv ==
  /\ \A p \in Providers : pc[p] \in Fresh => ~IsPhotoDownloaded(Item(p))
  /\ \A p \in Providers : At(p, "update") => rows[Item(p)].status # "absent"
  /\ \A p \in Providers : At(p, "route") => Held(Content[Item(p)])
  /\ ~IsPhotoDownloaded(ErrorKey)
  /\ InboxBacked

KeepInv == AllInv /\ MutexInv /\ FreshInv

\* What any step may do to the Inbox.
InboxOp ==
  \/ UNCHANGED inbox
  \/ \E k \in Keys : RecordInboxException(k, "duplicate", Content[k]) /\ Held(Content[k])
  \/ \E k \in Entries, s \in ActiveInbox : RecordInboxException(k, s, NoHash)
  \/ \E k \in Entries : ResolveInboxItem(k) \/ MoveInboxItem(k) \/ DeleteInboxItem(k)

\* Bytes on their way to the Inbox are held by a row.
RouteInv == \A p \in Providers : At(p, "route") => Held(Content[Item(p)])

LEMMA InboxStep ==
  ASSUME AllInv, RouteInv, [Next]_vars
  PROVE  InboxOp
<1>1. ASSUME NEW p \in Providers, Park(p) \/ Route(p) PROVE InboxOp
  <2>1. pc[p] \in InHand /\ (pc[p] \in Kept \/ At(p, "route"))
    BY <1>1 DEF Park, Route, At, InHand, Kept
  <2>2. Item(p) \in Keys /\ Held(Content[Item(p)])
    BY <2>1 DEF AllInv, TypeInv, HandInv, RunInv, RouteInv
  <2> QED BY <1>1, <2>2 DEF Park, Route, InboxOp
<1>2. ASSUME NEW p \in Providers,
             \/ Tick(p) \/ BeginFails(p) \/ Begin(p) \/ Finish(p) \/ FinishFails(p)
             \/ Publish(p)
             \/ DiscoverUpdates(p) \/ DiscoverGalleryPage(p) \/ DiscoverFails(p)
             \/ ItemSeen(p) \/ ItemKept(p) \/ ItemNew(p)
             \/ Resolve(p) \/ ResolveGone(p) \/ ResolveStops(p)
             \/ Download(p) \/ DownloadFails(p) \/ Mark(p) \/ MarkOwner(p)
             \/ SavePage(p) \/ SavePageFails(p) \/ Abort(p)
      PROVE  InboxOp
  BY <1>2 DEF Tick, BeginFails, Begin, Finish, FinishFails, EndRun, RunStatus, EndState,
              Publish, DiscoverUpdates, Confirm, DiscoverGalleryPage,
              DiscoverFails, ItemSeen, ItemKept, ItemNew, Resolve, ResolveGone,
              ResolveStops, Download, DownloadFails, Mark, MarkOwner, SavePage,
              SavePageFails, Abort, catalogVars, InboxOp
<1>3. ASSUME NEW p \in Providers, DiscoverBroken(p) \/ ItemWithoutKey(p) \/ RecordFailure(p)
      PROVE  InboxOp
  BY <1>3 DEF DiscoverBroken, ItemWithoutKey, RecordFailure, RecordFailedDownload,
              catalogVars, InboxOp
<1>4. ASSUME NEW p \in Providers, Insert(p) \/ Update(p) PROVE InboxOp
  BY <1>4 DEF Insert, Update, InsertWins, InsertHitsKey, InsertHitsHash, UpdateWins,
              UpdateLoses, catalogVars, InboxOp
<1>5. CASE CacheFails \/ Crash \/ UNCHANGED vars
  BY <1>5 DEF CacheFails, Crash, vars, catalogVars, InboxOp
<1>6. CASE Operator
  BY <1>6, CatalogAssumption DEF Operator, OperatorAct, ResetPhotoStatus, InboxOp
<1> QED BY <1>1, <1>2, <1>3, <1>4, <1>5, <1>6, NextCases

\* Duplicates stay backed by bytes of the catalog.
LEMMA InboxBackedStep ==
  ASSUME CatalogTypeOK, InboxBacked, Grows, InboxOp
  PROVE  InboxBacked'
<1> USE CatalogAssumption DEF CatalogTypeOK, InboxRow
<1>1. \A h \in Hashes : Held(h) => Held(h)'
  BY AccountedStays
<1>2. ASSUME NEW k \in Entries, inbox'[k].hash \in {inbox[k].hash, NoHash}, inbox'[k].hash # NoHash
      PROVE  \E j \in Keys : rows'[j].hash = inbox'[k].hash
  <2>1. PICK h \in Hashes : h = inbox[k].hash /\ h = inbox'[k].hash
    BY <1>2
  <2>2. Held(h)'
    BY <1>1, <2>1 DEF InboxBacked, Held
  <2> QED BY <2>1, <2>2 DEF Held
<1>3. CASE UNCHANGED inbox
  BY <1>2, <1>3 DEF InboxBacked, Held
<1>4. ASSUME NEW k \in Keys, RecordInboxException(k, "duplicate", Content[k]), Held(Content[k])
      PROVE  InboxBacked'
  <2>1. /\ inbox'[k].hash = Content[k]
        /\ \A j \in Entries \ {k} : inbox'[j] = inbox[j]
    BY <1>4 DEF RecordInboxException, RowKeys, Entries
  <2>2. \E j \in Keys : rows'[j].hash = Content[k]
    BY <1>1, <1>4 DEF Held
  <2> QED BY <1>2, <2>1, <2>2 DEF InboxBacked, Held
<1>5. ASSUME NEW k \in Entries, ResolveInboxItem(k) \/ MoveInboxItem(k)
  \/ DeleteInboxItem(k)
      PROVE  InboxBacked'
  <2>1. \A j \in Entries : inbox'[j].hash \in {inbox[j].hash, NoHash}
    BY <1>5 DEF ResolveInboxItem, MoveInboxItem, DeleteInboxItem, NoInboxRow
  <2> QED BY <1>2, <2>1 DEF InboxBacked, Held
<1>6. ASSUME NEW k \in Entries, NEW s \in ActiveInbox, RecordInboxException(k, s, NoHash)
      PROVE  InboxBacked'
  <2>1. \A j \in Entries : inbox'[j].hash = inbox[j].hash
    BY <1>6 DEF RecordInboxException
  <2> QED BY <1>2, <2>1 DEF InboxBacked, Held
<1> QED BY <1>3, <1>4, <1>5, <1>6 DEF InboxOp

\* No write but a kept download makes a row 'downloaded'.
NoneKept ==
  \A k \in RowKeys : rows'[k].status = "downloaded" => rows[k].status = "downloaded"

LEMMA NoneKeptBy ==
  ASSUME CatalogTypeOK
  PROVE  /\ UNCHANGED rows => NoneKept
         /\ \A k \in RowKeys : RecordFailedDownload(k) \/ ResetPhotoStatus(k) => NoneKept
BY DEF NoneKept, CatalogTypeOK, Row, RecordFailedDownload, ResetPhotoStatus

LEMMA FreshInit == Init => FreshInv
BY CatalogAssumption
DEF Init, CatalogInit, IngestInit, FreshInv, Fresh, At, IsPhotoDownloaded, InboxBacked,
    RowKeys, Entries, NoRow, NoInboxRow

\* While rows are only lost to failures and retries, a run that keeps its item
\* or leaves it keeps what it knows.
LEMMA FreshFrame ==
  ASSUME KeepInv, Grows, NoneKept, InboxBacked',
         \A q \in Providers : pc'[q] \in Fresh =>
            /\ Item(q)' = Item(q) /\ Item(q) \in Keys
            /\ ~IsPhotoDownloaded(Item(q))
            /\ At(q, "update")' => rows[Item(q)].status # "absent"
            /\ At(q, "route")' => Held(Content[Item(q)])
  PROVE  FreshInv'
<1> USE DEF KeepInv, AllInv, TypeInv, TypeOK
<1>1. ASSUME NEW q \in Providers, pc'[q] \in Fresh
      PROVE  /\ ~IsPhotoDownloaded(Item(q))'
             /\ At(q, "update")' => rows'[Item(q)'].status # "absent"
             /\ At(q, "route")' => Held(Content[Item(q)])'
  <2>1. PICK k \in Keys : k = Item(q) /\ k = Item(q)'
    BY <1>1
  <2>2. k \in RowKeys /\ Content[k] \in Hashes
    BY CatalogAssumption DEF RowKeys, Entries
  <2>3. rows'[k].status # "downloaded"
    BY <1>1, <2>1, <2>2 DEF NoneKept, IsPhotoDownloaded
  <2>4. At(q, "update")' => rows'[k].status # "absent"
    BY <1>1, <2>1, <2>2 DEF Grows
  <2>5. At(q, "route")' => \E j \in Keys : rows'[j].hash = Content[k]
    BY <1>1, <2>1, <2>2, AccountedStays DEF Held
  <2> QED BY <2>1, <2>3, <2>4, <2>5 DEF IsPhotoDownloaded, Held
<1>2. ~IsPhotoDownloaded(ErrorKey)'
  BY DEF FreshInv, NoneKept, IsPhotoDownloaded, RowKeys, Entries
<1>3. \A q \in Providers : At(q, "update")' \/ At(q, "route")' => pc'[q] \in Fresh
  BY DEF At, Fresh
<1> QED BY <1>1, <1>2, <1>3 DEF FreshInv

\* Steps that record nothing as kept.
LEMMA FreshQuiet ==
  ASSUME KeepInv, Grows, InboxBacked', NEW p \in Providers,
         \/ Tick(p) \/ BeginFails(p) \/ Begin(p) \/ Finish(p) \/ FinishFails(p)
         \/ DiscoverUpdates(p) \/ DiscoverGalleryPage(p) \/ DiscoverFails(p)
         \/ DiscoverBroken(p) \/ ItemWithoutKey(p) \/ ItemSeen(p) \/ ItemKept(p)
         \/ ItemNew(p) \/ Resolve(p) \/ ResolveGone(p) \/ ResolveStops(p) \/ Park(p)
         \/ Download(p) \/ DownloadFails(p) \/ Route(p) \/ RecordFailure(p)
         \/ Mark(p) \/ MarkOwner(p) \/ SavePage(p) \/ SavePageFails(p) \/ Abort(p)
  PROVE  FreshInv'
<1> USE DEF KeepInv, AllInv, TypeInv, TypeOK
<1>1. NoneKept
  <2>1. CASE DiscoverBroken(p) \/ ItemWithoutKey(p) \/ RecordFailure(p)
    <3>1. At(p, "gone") \/ At(p, "fail") => Item(p) \in RowKeys
      BY DEF HandInv, At, InHand, RowKeys, Entries
    <3>2. UNCHANGED rows \/ \E k \in RowKeys : RecordFailedDownload(k)
      BY <2>1, <3>1 DEF DiscoverBroken, ItemWithoutKey, RecordFailure, catalogVars,
                        RowKeys, Entries, At
    <3> QED BY <3>2, NoneKeptBy
  <2>2. CASE ~(DiscoverBroken(p) \/ ItemWithoutKey(p) \/ RecordFailure(p))
    <3>1. UNCHANGED rows
      BY <2>2 DEF Tick, BeginFails, Begin, Finish, FinishFails, EndRun, RunStatus,
                  EndState, DiscoverUpdates, Confirm, DiscoverGalleryPage,
                  DiscoverFails, ItemSeen, ItemKept, ItemNew, Resolve, ResolveGone,
                  ResolveStops, Park, Download, DownloadFails, Route, Mark, MarkOwner,
                  SavePage, SavePageFails, Abort, RecordInboxException, catalogVars
    <3> QED BY <3>1, NoneKeptBy
  <2> QED BY <2>1, <2>2
<1>2. /\ \A q \in Providers \ {p} : pc'[q] = pc[q] /\ page'[q] = page[q] /\ index'[q] = index[q]
      /\ pc'[p] \in Fresh =>
           /\ page'[p] = page[p] /\ index'[p] = index[p] /\ pc'[p] # "update" /\ pc'[p] # "route"
           /\ pc[p] \in Fresh \/ (HasItem(p) /\ ItemNew(p))
  <2> USE DEF IngestTypeOK
  <2>1. CASE \/ Tick(p) \/ BeginFails(p) \/ DiscoverFails(p) \/ DiscoverBroken(p)
             \/ ItemNew(p) \/ Resolve(p)
             \/ ResolveGone(p) \/ ResolveStops(p) \/ Park(p) \/ Download(p)
             \/ DownloadFails(p) \/ Route(p) \/ Abort(p)
    <3>1. PICK l : Goto(p, l)
      BY <2>1 DEF Tick, BeginFails, DiscoverFails, Confirm, DiscoverBroken, ItemNew,
                  Resolve, ResolveGone,
                  ResolveStops, Park, Download, DownloadFails, Route, Abort
    <3>2. /\ pc'[p] = l /\ UNCHANGED <<page, index>>
          /\ \A q \in Providers \ {p} : pc'[q] = pc[q]
      BY <3>1 DEF Goto
    <3>3. l \in Fresh => /\ l # "update" /\ l # "route"
                         /\ pc[p] \in Fresh \/ (HasItem(p) /\ ItemNew(p))
      BY <2>1, <3>2 DEF Tick, BeginFails, DiscoverFails, Confirm, DiscoverBroken, ItemNew,
                        Resolve, ResolveGone,
                  ResolveStops, Park, Download, DownloadFails, Route, Abort, Goto, At, Fresh
    <3> QED BY <3>2, <3>3
  <2>2. CASE ItemWithoutKey(p) \/ ItemSeen(p) \/ ItemKept(p) \/ RecordFailure(p)
    \/ MarkOwner(p)
    BY <2>2 DEF ItemWithoutKey, ItemSeen, ItemKept, RecordFailure, MarkOwner, NextItem,
                Fresh
  <2>3. CASE Mark(p)
    BY <2>3 DEF Mark, NextItem, Goto, Fresh
  <2>4. CASE \/ Begin(p) \/ Finish(p) \/ FinishFails(p) \/ DiscoverUpdates(p)
             \/ DiscoverGalleryPage(p)
             \/ SavePage(p) \/ SavePageFails(p)
    BY <2>4 DEF Begin, Finish, FinishFails, EndRun, RunStatus, EndState, DiscoverUpdates,
                Confirm, DiscoverGalleryPage, SavePage,
                SavePageFails, Discovered, Fresh, Outcome
  <2> QED BY <2>1, <2>2, <2>3, <2>4
<1>3. ASSUME NEW q \in Providers, pc'[q] \in Fresh
      PROVE  /\ Item(q)' = Item(q) /\ Item(q) \in Keys
             /\ ~IsPhotoDownloaded(Item(q))
             /\ At(q, "update")' => rows[Item(q)].status # "absent"
             /\ At(q, "route")' => Held(Content[Item(q)])
  <2>1. Item(q)' = Item(q)
    BY <1>2, <1>3 DEF Item
  <2>2. CASE pc[q] \in Fresh
    BY <1>2, <1>3, <2>1, <2>2 DEF FreshInv, HandInv, At, Fresh, InHand
  <2>3. CASE q = p /\ HasItem(p) /\ ItemNew(p)
    <3>1. Item(p)' \in Keys
      BY <1>3, <2>3, ChoiceTypes DEF HandInv, Fresh, InHand
    <3> QED BY <1>2, <1>3, <2>1, <2>3, <3>1 DEF ItemNew, IsMediaAlreadyKept, At
  <2> QED BY <1>2, <1>3, <2>2, <2>3
<1> QED BY <1>1, <1>3, FreshFrame

\* Recording a download: only this run has an item in hand.
LEMMA FreshDownload ==
  ASSUME KeepInv, Grows, InboxBacked', NEW p \in Providers, Insert(p) \/ Update(p)
  PROVE  FreshInv'
<1> USE DEF KeepInv, AllInv, TypeInv, TypeOK
<1>1. PICK l \in {"kept", "update", "route"} : Goto(p, l)
  BY DEF Insert, Update
<1>2. /\ pc'[p] = l /\ UNCHANGED <<page, index>>
      /\ \A q \in Providers \ {p} : pc'[q] = pc[q]
  BY <1>1 DEF Goto, IngestTypeOK
<1>3. pc[p] \in {"insert", "update"} /\ pc[p] \in Fresh /\ pc[p] \in InHand /\ pc[p] \in InLoop
  BY DEF Insert, Update, At, Fresh, InHand, InLoop
<1>4. PICK k \in Keys : k = Item(p) /\ k \in RowKeys /\ Content[k] \in Hashes
  BY <1>3, CatalogAssumption DEF HandInv, RowKeys, Entries
<1>5. ~IsPhotoDownloaded(k)
  BY <1>3, <1>4 DEF FreshInv
<1>6. \A q \in Providers \ {p} : pc'[q] \notin Fresh
  BY <1>2, <1>3 DEF MutexInv, Fresh, InLoop
<1>7. CASE InsertWins(k) \/ UpdateWins(k)
  <2>1. l = "kept"
    <3>1. rows' # rows
      BY <1>4, <1>5, <1>7
      DEF InsertWins, UpdateWins, DownloadedRow, IsPhotoDownloaded, CatalogTypeOK, Row
    <3> QED BY <1>2, <1>4, <3>1
        DEF Insert, Update, InsertHitsKey, InsertHitsHash, UpdateLoses, catalogVars, Goto,
            IngestTypeOK
  <2>2. ~IsPhotoDownloaded(ErrorKey)'
    BY <1>4, <1>7, CatalogAssumption
    DEF FreshInv, InsertWins, UpdateWins, IsPhotoDownloaded, CatalogTypeOK, RowKeys, Entries
  <2> QED BY <1>2, <1>6, <2>1, <2>2 DEF FreshInv, At, Fresh
<1>8. CASE ~(InsertWins(k) \/ UpdateWins(k))
  <2>1. /\ UNCHANGED rows
        /\ \/ InsertHitsKey(k) /\ l = "update"
           \/ InsertHitsHash(k) /\ l = "route"
           \/ At(p, "update") /\ UpdateLoses(k) /\ l = "route"
    BY <1>2, <1>4, <1>8
    DEF Insert, Update, InsertHitsKey, InsertHitsHash, UpdateLoses, catalogVars, Goto,
        IngestTypeOK
  <2>2. NoneKept
    BY <2>1, NoneKeptBy
  <2>3. l = "update" => rows[k].status # "absent"
    BY <2>1 DEF InsertHitsKey
  <2>4. l = "route" => Held(Content[k])
    <3>1. l = "route" => HashTaken(k)
      BY <1>4, <1>5, <2>1 DEF InsertHitsHash, UpdateLoses, FreshInv, At, IsPhotoDownloaded
    <3>2. HashTaken(k) => Held(Content[k])
      BY <1>4, CatalogAssumption DEF HashTaken, Held, TableInv, HashShape, RowKeys, Entries
    <3> QED BY <3>1, <3>2
  <2>5. Item(p)' = Item(p)
    BY <1>2 DEF Item
  <2> QED BY <1>2, <1>4, <1>5, <1>6, <2>2, <2>3, <2>4, <2>5, FreshFrame DEF At
<1> QED BY <1>7, <1>8

\* Nothing else touches a run's item, or all runs are gone.
LEMMA FreshSurroundings ==
  ASSUME KeepInv, Grows, InboxBacked',
         \/ CacheFails \/ Crash \/ Operator \/ UNCHANGED vars
         \/ \E p \in Providers : Publish(p)
  PROVE  FreshInv'
<1> USE DEF KeepInv, AllInv, TypeInv, TypeOK
<1>1. NoneKept
  <2>1. UNCHANGED rows \/ \E k \in RowKeys : ResetPhotoStatus(k)
    BY CatalogAssumption
    DEF CacheFails, Crash, Operator, OperatorAct, ResolveInboxItem, MoveInboxItem,
        DeleteInboxItem, Publish, vars, catalogVars
  <2> QED BY <2>1, NoneKeptBy
<1>2. UNCHANGED <<pc, page, index>> \/ \A q \in Providers : pc'[q] = "idle"
  BY DEF CacheFails, Crash, Operator, Publish, vars, ingestVars, runVars
<1>3. \A q \in Providers : pc'[q] \in Fresh =>
         /\ pc[q] \in Fresh /\ Item(q)' = Item(q)
         /\ At(q, "update")' => At(q, "update")
         /\ At(q, "route")' => At(q, "route")
  BY <1>2 DEF Fresh, Item, At
<1>4. \A q \in Providers : pc[q] \in Fresh => Item(q) \in Keys
  BY DEF HandInv, Fresh, InHand
<1> QED BY <1>1, <1>3, <1>4, FreshFrame DEF FreshInv

LEMMA KeepStep == KeepInv /\ [Next]_vars => KeepInv'
<1> SUFFICES ASSUME KeepInv, [Next]_vars PROVE KeepInv'
  OBVIOUS
<1>1. AllInv' /\ Grows
  BY TypeStep, TableInvStep, RunInvStep DEF KeepInv, AllInv
<1>2. MutexInv'
  BY MutexStep DEF KeepInv, AllInv
<1>3. InboxBacked'
  BY <1>1, InboxStep, InboxBackedStep
  DEF KeepInv, AllInv, TypeInv, TypeOK, FreshInv, RouteInv
<1>4. FreshInv'
  BY <1>1, <1>3, NextCases, FreshQuiet, FreshDownload, FreshSurroundings
<1> QED BY <1>1, <1>2, <1>4 DEF KeepInv

LEMMA KeepInvHolds == Spec => []KeepInv
<1>1. Init => KeepInv
  BY TypeInit, TableInit, RunInvInit, MutexInit, FreshInit DEF KeepInv, AllInv
<1> QED BY <1>1, KeepStep, PTL DEF Spec

\* A duplicate parked in the Inbox with a hash points at bytes a row holds, in
\* every interleaving of runs, crashes, retries and decisions.
THEOREM DuplicatesAreBacked == Spec => []InboxBacked
<1>1. KeepInv => InboxBacked
  BY DEF KeepInv, FreshInv
<1> QED BY <1>1, KeepInvHolds, PTL

------------------------------------------------------------------------------
(* What steps never do *)

\* A failure is recorded of a row that is not kept, or rows change as RowsOp says.
LEMMA FailuresAreNew ==
  ASSUME KeepInv, [Next]_vars
  PROVE  \/ UNCHANGED rows
         \/ \E k \in Keys : InsertWins(k) \/ UpdateWins(k)
         \/ \E k \in RowKeys : RecordFailedDownload(k) /\ ~IsPhotoDownloaded(k)
         \/ \E k \in RowKeys : ResetPhotoStatus(k)
<1> USE DEF KeepInv, AllInv
<1>1. ASSUME NEW p \in Providers, DiscoverBroken(p) \/ ItemWithoutKey(p) \/ RecordFailure(p)
      PROVE  UNCHANGED rows
        \/ \E k \in RowKeys : RecordFailedDownload(k) /\ ~IsPhotoDownloaded(k)
  <2>1. CASE DiscoverBroken(p) \/ ItemWithoutKey(p)
    BY <2>1 DEF DiscoverBroken, ItemWithoutKey, catalogVars, FreshInv, RowKeys, Entries
  <2>2. CASE RecordFailure(p)
    <3>1. Item(p) \in RowKeys /\ ~IsPhotoDownloaded(Item(p))
      BY <2>2 DEF RecordFailure, TypeInv, HandInv, InHand, FreshInv, Fresh, RowKeys, Entries
    <3> QED BY <2>2, <3>1 DEF RecordFailure, catalogVars
  <2> QED BY <1>1, <2>1, <2>2
<1>2. ASSUME NEW p \in Providers,
             \/ Tick(p) \/ BeginFails(p) \/ Begin(p) \/ Finish(p) \/ FinishFails(p)
             \/ Publish(p)
             \/ DiscoverUpdates(p) \/ DiscoverGalleryPage(p) \/ DiscoverFails(p)
             \/ ItemSeen(p) \/ ItemKept(p) \/ ItemNew(p)
             \/ Resolve(p) \/ ResolveGone(p) \/ ResolveStops(p) \/ Park(p) \/ Route(p)
             \/ Download(p) \/ DownloadFails(p) \/ Mark(p) \/ MarkOwner(p)
             \/ SavePage(p) \/ SavePageFails(p) \/ Abort(p)
      PROVE  UNCHANGED rows
  BY <1>2 DEF Tick, BeginFails, Begin, Finish, FinishFails, EndRun, RunStatus, EndState,
              Publish, DiscoverUpdates, Confirm, DiscoverGalleryPage,
              DiscoverFails, ItemSeen, ItemKept, ItemNew, Resolve, ResolveGone,
              ResolveStops, Park, Route, Download, DownloadFails, Mark, MarkOwner,
              SavePage, SavePageFails, Abort, RecordInboxException, catalogVars
<1>3. ASSUME NEW p \in Providers, Insert(p) \/ Update(p)
      PROVE  UNCHANGED rows \/ \E k \in Keys : InsertWins(k) \/ UpdateWins(k)
  <2>1. Item(p) \in Keys
    BY <1>3 DEF Insert, Update, At, TypeInv, HandInv, InHand
  <2> QED BY <1>3, <2>1 DEF Insert, Update, InsertHitsKey, InsertHitsHash, UpdateLoses,
                            catalogVars
<1>4. CASE CacheFails \/ Crash \/ UNCHANGED vars
  BY <1>4 DEF CacheFails, Crash, vars, catalogVars
<1>5. CASE Operator
  BY <1>5, CatalogAssumption
  DEF Operator, OperatorAct, ResolveInboxItem, MoveInboxItem, DeleteInboxItem
<1> QED BY <1>1, <1>2, <1>3, <1>4, <1>5, NextCases

\* No scheduled run demotes a kept piece: a row leaves 'downloaded' only for
\* 'pending', by the operator's retry.  (Two page calls of the API that overlap on
\* a piece demote it, as each has its own key locks: run Demotion.)
THEOREM KeptStaysKept == Spec => KeptNeverDemoted
<1>1. ASSUME KeepInv, [Next]_vars
      PROVE  [\A k \in RowKeys :
                rows[k].status = "downloaded" => rows'[k].status \in {"downloaded", "pending"}]_rows
  <2>1. rows \in [RowKeys -> Row]
    BY <1>1 DEF KeepInv, AllInv, TypeInv, TypeOK, CatalogTypeOK
  <2>2. ASSUME NEW k \in Keys, InsertWins(k) \/ UpdateWins(k)
        PROVE  \A j \in RowKeys : rows[j].status = "downloaded" => rows'[j].status = "downloaded"
    BY <2>1, <2>2 DEF InsertWins, UpdateWins, DownloadedRow, RowKeys, Entries
  <2>3. ASSUME NEW k \in RowKeys,
               \/ RecordFailedDownload(k) /\ ~IsPhotoDownloaded(k)
               \/ ResetPhotoStatus(k)
        PROVE  \A j \in RowKeys :
                 rows[j].status = "downloaded" => rows'[j].status \in {"downloaded", "pending"}
    BY <2>1, <2>3 DEF RecordFailedDownload, ResetPhotoStatus, IsPhotoDownloaded, Row
  <2> QED BY <1>1, <2>2, <2>3, FailuresAreNew
<1> QED BY <1>1, KeepInvHolds, PTL DEF Spec, KeptNeverDemoted

LEMMA ResolvedStays ==
  ASSUME CatalogTypeOK, InboxOp
  PROVE  \A k \in Entries :
           inbox[k].status \in ResolvedInbox => inbox'[k].status = inbox[k].status
<1>1. inbox \in [Entries -> InboxRow]
  BY DEF CatalogTypeOK
<1>2. ASSUME NEW k \in Entries, NEW s, NEW h, RecordInboxException(k, s, h)
      PROVE  \A j \in Entries :
               inbox[j].status \in ResolvedInbox => inbox'[j].status = inbox[j].status
  BY <1>1, <1>2 DEF RecordInboxException, ResolvedInbox
<1>3. ASSUME NEW k \in Entries, ResolveInboxItem(k) \/ MoveInboxItem(k) \/ DeleteInboxItem(k)
      PROVE  \A j \in Entries :
               inbox[j].status \in ResolvedInbox => inbox'[j].status = inbox[j].status
  BY <1>1, <1>3
  DEF ResolveInboxItem, MoveInboxItem, DeleteInboxItem, ResolvedInbox, ActiveInbox
<1> QED BY <1>2, <1>3 DEF InboxOp, Entries

\* An operator's decision is final: no run, crash or later decision changes the
\* status of a kept, skipped or moved Inbox item.
THEOREM ResolvedIsFinal == Spec => ResolvedStaysResolved
<1>1. ASSUME KeepInv, [Next]_vars
      PROVE  [\A k \in Entries :
                inbox[k].status \in ResolvedInbox => inbox'[k].status = inbox[k].status]_inbox
  BY <1>1, InboxStep, ResolvedStays
  DEF KeepInv, AllInv, TypeInv, TypeOK, FreshInv, RouteInv
<1> QED BY <1>1, KeepInvHolds, PTL DEF Spec, ResolvedStaysResolved

------------------------------------------------------------------------------
(* Ingest implements the ledger *)

LEMMA LedgerInitially == Init => Promise!LedgerInit
BY DEF Init, IngestInit, Promise!LedgerInit

LEMMA LedgerStep == FullInv /\ FullInv' /\ [Next]_vars => [Promise!LedgerNext]_Promise!ledgerVars
<1> SUFFICES ASSUME FullInv, FullInv', [Next]_vars
             PROVE  [Promise!LedgerNext]_Promise!ledgerVars
  OBVIOUS
<1> DEFINE acc == {k \in Entries : Accounted(k)}
<1> DEFINE cur == [p \in Providers |-> IF Kind[p] = "updates" THEN state[p].cursor ELSE 0]
<1>1. acc \subseteq acc' /\ acc' \subseteq Entries
  BY TableInvStep, AccountedStays DEF RowKeys, FullInv, AllInv, TypeInv, TypeOK
<1>2. CASE cur' = cur
  BY <1>1, <1>2 DEF Promise!LedgerNext, Promise!Account
<1>3. ASSUME NEW p \in Providers, Finish(p) \/ FinishFails(p) \/ SavePage(p)
      PROVE  cur' = cur \/ Promise!Pass
  <2>1. UNCHANGED rows /\ acc' = acc
    BY <1>3 DEF Finish, FinishFails, EndRun, RunStatus, EndState, SavePage, catalogVars,
                Accounted
  <2>2. \A q \in Providers \ {p} : state'[q] = state[q]
    BY <1>3 DEF Finish, FinishFails, EndRun, RunStatus, EndState, SavePage, FullInv,
                AllInv, TypeInv, TypeOK, IngestTypeOK
  <2>3. CASE Kind[p] # "updates"
    BY <2>2, <2>3
  <2>4. CASE Kind[p] = "updates"
    <3>1. /\ state'[p].cursor \in Nat /\ state[p].cursor \in Nat
          /\ Feed[p] \in Seq(Entries) /\ Len(Feed[p]) \in Nat
      BY IngestAssumption, LenProperties
      DEF FullInv, AllInv, TypeInv, TypeOK, IngestTypeOK, ConnectorState
    <3>2. state'[p].cursor <= Len(Feed[p])
      BY DEF FullInv, CursorInv, Placed, InFeed
    <3>3. state[p].cursor <= state'[p].cursor
      <4>1. CASE Finish(p) \/ FinishFails(p)
        <5>1. state'[p].cursor \in {state[p].cursor, page[p].cursor}
          BY <4>1 DEF Finish, FinishFails, EndRun, RunStatus, EndState, FullInv, AllInv,
                      TypeInv, TypeOK, IngestTypeOK
        <5>2. state[p].cursor <= page[p].cursor
          BY <2>4, <4>1 DEF Finish, FinishFails, EndRun, RunStatus, EndState, FullInv,
                            CursorInv, Placed
        <5> QED BY <3>1, <5>1, <5>2
      <4>2. CASE SavePage(p)
        <5>1. state'[p].cursor = PageDone(p).cursor
          BY <4>2 DEF SavePage, FullInv, AllInv, TypeInv, TypeOK, IngestTypeOK
        <5> QED BY <2>4, <4>2, <5>1, PageDoneBounds DEF SavePage, FullInv, AllInv
      <4> QED BY <1>3, <4>1, <4>2
    <3>4. \A m \in (state[p].cursor + 1)..state'[p].cursor : Feed[p][m] \in acc
      <4>1. \A m \in 1..state'[p].cursor : Accounted(Feed[p][m])'
        BY <2>4 DEF FullInv, PassInv, Passed, Behind
      <4>2. \A m \in 1..state'[p].cursor : Feed[p][m] \in Entries
        BY <3>1, <3>2, ElementOfSeq
      <4> QED BY <2>1, <3>1, <4>1, <4>2 DEF Accounted
    <3>5. cur' = [cur EXCEPT ![p] = state'[p].cursor]
      BY <2>2, <2>4
    <3>6. state'[p].cursor \in cur[p]..Len(Feed[p])
      BY <2>4, <3>1, <3>2, <3>3
    <3>7. \A m \in (cur[p] + 1)..state'[p].cursor : Feed[p][m] \in acc
      BY <2>4, <3>4
    <3> QED BY <2>1, <3>5, <3>6, <3>7 DEF Promise!Pass
  <2> QED BY <2>3, <2>4
<1>4. CASE ~ \E p \in Providers : Finish(p) \/ FinishFails(p) \/ SavePage(p)
  <2>1. UNCHANGED state
    BY <1>4, NextCases
    DEF Tick, BeginFails, Begin, Publish, DiscoverUpdates, Confirm, DiscoverGalleryPage,
        DiscoverFails,
        DiscoverBroken, ItemWithoutKey, ItemSeen, ItemKept, ItemNew, Resolve, ResolveGone,
        ResolveStops, Park, Download, DownloadFails, Insert, Update, Route, RecordFailure,
        Mark, MarkOwner, SavePageFails, Abort, CacheFails, Crash, Operator, vars,
        ingestVars, recordVars
  <2> QED BY <1>2, <2>1
<1> QED BY <1>2, <1>3, <1>4 DEF Promise!LedgerNext

\* Runs, crashes, retries and decisions together implement the ledger: nothing
\* accounted for is forgotten, and a durable offset only moves forward, over
\* accounted items.
THEOREM ImplementsLedger == ~DbFaults => (Spec => LedgerPromise)
<1> SUFFICES ASSUME ~DbFaults PROVE Spec => LedgerPromise
  OBVIOUS
<1> QED BY LedgerInitially, LedgerStep, FullInvHolds, PTL
        DEF Spec, LedgerPromise, Promise!LedgerSpec

------------------------------------------------------------------------------
(* With page calls of the API beside the runs: what needs no mutex *)

\* A goroutine that holds a key lock works on an item with a key.
LockInv == \A c \in Calls : \A n \in Slots : task[c][n] \in Locked => PageItems[n] \in Keys

\* The slots hold entries.
LEMMA SlotEntries == \A n \in Slots : PageItems[n] \in Entries /\ PageItems[n] \in RowKeys
BY ScrapeAssumption, ElementOfSeq DEF Slots, RowKeys

LEMMA CallTypes ==
  ASSUME ScrapeTypeOK, LockInv, ScrapeNext \/ ScrapeStop \/ UNCHANGED scrapeVars
  PROVE  ScrapeTypeOK' /\ LockInv'
<1> USE DEF ScrapeTypeOK, LockInv, Working, Locked
<1>1. CASE UNCHANGED scrapeVars
  BY <1>1 DEF scrapeVars
<1>2. CASE ScrapeStop
  BY <1>2 DEF ScrapeStop
<1>3. ASSUME NEW c \in Calls, StartCall(c) PROVE ScrapeTypeOK' /\ LockInv'
  BY <1>3 DEF StartCall
<1>4. ASSUME NEW c \in Calls, ReturnCall(c) PROVE ScrapeTypeOK' /\ LockInv'
  BY <1>4 DEF ReturnCall
<1>5. ASSUME NEW c \in Calls, NEW n \in Slots, TaskStep(c, n)
      PROVE  ScrapeTypeOK' /\ LockInv'
  <2>1. UNCHANGED call
    BY <1>5 DEF TaskStep, Acquire, TaskWithoutKey, TaskLock, TaskCheck, TaskKnown,
                TaskGivesUp, TaskFetch, TaskFetchFails, TaskInsert, TaskUpdate, TaskRoute,
                TaskFail
  <2>2. PICK l \in {"done"} \cup Working :
          TaskGoto(c, n, l) /\ (l \in Locked => PageItems[n] \in Keys)
    <3>1. CASE Acquire(c, n) \/ TaskWithoutKey(c, n) \/ TaskKnown(c, n)
               \/ TaskGivesUp(c, n) \/ TaskRoute(c, n) \/ TaskFail(c, n)
      BY <3>1 DEF Acquire, TaskWithoutKey, TaskKnown, TaskGivesUp, TaskRoute, TaskFail
    <3>2. CASE TaskLock(c, n)
      BY <3>2, SlotEntries DEF TaskLock, Entries
    <3>3. CASE TaskCheck(c, n) \/ TaskFetch(c, n) \/ TaskFetchFails(c, n)
               \/ TaskInsert(c, n) \/ TaskUpdate(c, n)
      BY <3>3 DEF TaskCheck, TaskFetch, TaskFetchFails, TaskInsert, TaskUpdate, TaskAt
    <3> QED BY <1>5, <3>1, <3>2, <3>3 DEF TaskStep
  <2> QED BY <2>1, <2>2 DEF TaskGoto
<1> QED BY <1>1, <1>2, <1>3, <1>4, <1>5 DEF ScrapeNext

\* What a step of a call does to the tables.
LEMMA CallWrites ==
  ASSUME CatalogTypeOK, ScrapeTypeOK, LockInv, ScrapeNext
  PROVE  CatalogTypeOK' /\ RowsOp
<1>1. ASSUME NEW c \in Calls, StartCall(c) \/ ReturnCall(c)
      PROVE  CatalogTypeOK' /\ RowsOp
  BY <1>1 DEF StartCall, ReturnCall, catalogVars, CatalogTypeOK, RowsOp
<1>2. ASSUME NEW c \in Calls, NEW n \in Slots, TaskStep(c, n)
      PROVE  CatalogTypeOK' /\ RowsOp
  <2>1. PageItems[n] \in Entries /\ PageItems[n] \in RowKeys
    BY SlotEntries
  <2>2. CASE \/ Acquire(c, n) \/ TaskLock(c, n) \/ TaskCheck(c, n) \/ TaskGivesUp(c, n)
             \/ TaskFetch(c, n) \/ TaskFetchFails(c, n)
    BY <2>2 DEF Acquire, TaskLock, TaskCheck, TaskGivesUp, TaskFetch, TaskFetchFails,
                catalogVars, CatalogTypeOK, RowsOp
  <2>3. CASE TaskWithoutKey(c, n)
    <3>1. ErrorKey \in Entries /\ "ambiguous" \in ActiveInbox /\ NoHash \in Hashes \cup {NoHash}
      BY DEF Entries, ActiveInbox
    <3>2. UNCHANGED rows
      BY <2>3 DEF TaskWithoutKey, RecordInboxException, catalogVars
    <3> QED BY <2>3, <3>1, <3>2, InboxTypes
            DEF TaskWithoutKey, CatalogTypeOK, catalogVars, RowsOp
  <2>4. CASE TaskKnown(c, n) \/ TaskRoute(c, n)
    <3>1. "duplicate" \in ActiveInbox /\ NoHash \in Hashes \cup {NoHash}
      BY DEF ActiveInbox
    <3>2. TaskRoute(c, n) => Content[PageItems[n]] \in Hashes \cup {NoHash}
      BY CatalogAssumption DEF TaskRoute, TaskAt, LockInv, Locked
    <3>3. CatalogTypeOK'
      BY <2>1, <2>4, <3>1, <3>2, InboxTypes DEF TaskKnown, TaskRoute
    <3> QED BY <2>4, <3>3 DEF TaskKnown, TaskRoute, RecordInboxException, RowsOp
  <2>5. CASE TaskInsert(c, n) \/ TaskUpdate(c, n)
    <3>1. PageItems[n] \in Keys
      BY <2>5 DEF TaskInsert, TaskUpdate, TaskAt, LockInv, Locked
    <3>2. \/ InsertWins(PageItems[n]) \/ UpdateWins(PageItems[n]) \/ UNCHANGED catalogVars
      BY <2>5 DEF TaskInsert, TaskUpdate, InsertHitsKey, InsertHitsHash, UpdateLoses
    <3>3. CatalogTypeOK'
      BY <2>1, <3>1, <3>2, CatalogTypes
    <3> QED BY <3>1, <3>2, <3>3 DEF catalogVars, RowsOp
  <2>6. CASE TaskFail(c, n)
    <3>1. RecordFailedDownload(PageItems[n]) \/ UNCHANGED catalogVars
      BY <2>6 DEF TaskFail
    <3> QED BY <2>1, <3>1, CatalogTypes DEF catalogVars, RowsOp
  <2> QED BY <1>2, <2>2, <2>3, <2>4, <2>5, <2>6 DEF TaskStep
<1> QED BY <1>1, <1>2 DEF ScrapeNext

\* A step of a call disturbs nothing a run relies on: it only makes the table grow.
LEMMA CallsKeepRuns ==
  ASSUME AllInv, ScrapeTypeOK, LockInv, ScrapeNext, UNCHANGED ingestVars
  PROVE  AllInv' /\ Grows
<1> USE DEF AllInv, TypeInv, TypeOK
<1>1. CatalogTypeOK' /\ RowsOp
  BY CallWrites
<1>2. TableInv' /\ Grows
  BY <1>1, TableStep
<1>3. UNCHANGED <<published, seen, owned, pc, page, index>>
  BY DEF ingestVars
<1>4. TypeInv'
  <2>1. IngestTypeOK'
    BY DEF ingestVars, IngestTypeOK
  <2> QED BY <1>1, <1>3, <2>1 DEF PublishedInFeed, HandInv, At, Item
<1>5. RunInv'
  <2>1. \A q \in Providers : pc[q] \in Known => Item(q) \in Keys /\ Item(q) \in RowKeys
    BY DEF HandInv, Known, InHand, RowKeys, Entries
  <2>2. ASSUME NEW q \in Providers, pc'[q] \in Known PROVE (Accounted(Item(q)))'
    <3>1. PICK k \in Keys : k = Item(q) /\ k = Item(q)' /\ k \in RowKeys
      BY <1>3, <2>1, <2>2 DEF Item
    <3>2. Accounted(k)'
      BY <1>2, <1>3, <2>2, <3>1, AccountedStays DEF RunInv
    <3> QED BY <3>1, <3>2 DEF Accounted
  <2>3. ASSUME NEW q \in Providers, pc'[q] \in Kept PROVE (Held(Content[Item(q)]))'
    <3>1. PICK k \in Keys : k = Item(q) /\ k = Item(q)' /\ Content[k] \in Hashes
      BY <1>3, <2>1, <2>3, CatalogAssumption DEF Known, Kept, Item
    <3>2. Held(Content[k])'
      BY <1>2, <1>3, <2>3, <3>1, AccountedStays DEF RunInv
    <3> QED BY <3>1, <3>2 DEF Held
  <2>4. SeenAccounted'
    BY <1>2, <1>3, AccountedStays DEF RunInv, SeenAccounted, IngestTypeOK, RowKeys, Entries
  <2>5. OwnerBacked'
    <3>1. ASSUME NEW h \in owned PROVE \E j \in Keys : rows'[j].hash = h
      BY <1>2, AccountedStays DEF RunInv, OwnerBacked, IngestTypeOK, Held
    <3> QED BY <1>3, <3>1 DEF OwnerBacked
  <2> QED BY <2>2, <2>3, <2>4, <2>5 DEF RunInv
<1> QED BY <1>2, <1>4, <1>5

\* A step of the service is a step of the runs (a restart and a decision of the
\* operator are), or a step of a call that leaves the runs alone.
LEMMA ServiceCases ==
  ASSUME [ServiceNext]_serviceVars
  PROVE  /\ [Next]_vars \/ (ScrapeNext /\ UNCHANGED ingestVars)
         /\ ScrapeNext \/ ScrapeStop \/ UNCHANGED scrapeVars
BY DEF ServiceNext, Restart, Next, serviceVars, vars, scrapeVars

ServiceInv == AllInv /\ CursorInv /\ ScrapeTypeOK /\ LockInv

LEMMA ServiceInitially == ServiceInit => ServiceInv
<1> SUFFICES ASSUME ServiceInit PROVE ServiceInv
  OBVIOUS
<1>1. Init
  BY DEF ServiceInit, Init
<1>2. ScrapeTypeOK /\ LockInv
  BY DEF ServiceInit, ScrapeInit, ScrapeTypeOK, LockInv, Locked
<1> QED BY <1>1, <1>2, TypeInit, TableInit, RunInvInit, CursorInit DEF ServiceInv, AllInv

LEMMA ServiceStep == ServiceInv /\ [ServiceNext]_serviceVars => ServiceInv' /\ Grows
<1> SUFFICES ASSUME ServiceInv, [ServiceNext]_serviceVars PROVE ServiceInv' /\ Grows
  OBVIOUS
<1> USE DEF ServiceInv
<1>1. ScrapeTypeOK' /\ LockInv'
  BY ServiceCases, CallTypes
<1>2. CASE [Next]_vars
  <2>1. AllInv' /\ Grows
    BY <1>2, TypeStep, TableInvStep, RunInvStep DEF AllInv
  <2>2. CursorInv'
    BY <1>2, CursorStep DEF AllInv
  <2> QED BY <1>1, <2>1, <2>2
<1>3. CASE ScrapeNext /\ UNCHANGED ingestVars
  <2>1. AllInv' /\ Grows
    BY <1>3, CallsKeepRuns
  <2>2. UNCHANGED <<confirmed, state, pc, page>>
    BY <1>3 DEF ingestVars
  <2>3. CursorInv'
    BY <2>2, PlacedFrame DEF CursorInv
  <2> QED BY <1>1, <2>1, <2>3
<1> QED BY <1>2, <1>3, ServiceCases

LEMMA ServiceInvHolds == ServiceSpec => []ServiceInv
BY ServiceInitially, ServiceStep, PTL DEF ServiceSpec

\* Runs and page calls write the same tables without a common lock, and yet: no
\* two rows hold the same bytes, and neither the seen-set nor an owner in Valkey
\* stands for bytes the catalog lacks.
THEOREM ServiceDedupes == ServiceSpec => [](UniqueContent /\ SeenAccounted /\ OwnerBacked)
<1>1. ServiceInv => UniqueContent /\ SeenAccounted /\ OwnerBacked
  BY DEF ServiceInv, AllInv, TableInv, RunInv
<1> QED BY <1>1, ServiceInvHolds, PTL

LEMMA ServicePassStep ==
  ~DbFaults /\ ServiceInv /\ PassInv /\ [ServiceNext]_serviceVars => PassInv'
<1> SUFFICES ASSUME ~DbFaults, ServiceInv, PassInv, [ServiceNext]_serviceVars PROVE PassInv'
  OBVIOUS
<1>1. FullInv
  BY DEF ServiceInv, FullInv
<1>2. CASE [Next]_vars
  BY <1>1, <1>2, PassStep
<1>3. CASE ScrapeNext /\ UNCHANGED ingestVars
  <2>1. Grows
    BY ServiceStep
  <2>2. UNCHANGED <<state, pc, page, index>>
    BY <1>3 DEF ingestVars
  <2> QED BY <1>1, <2>1, <2>2, PassFrame DEF PassInv
<1> QED BY <1>2, <1>3, ServiceCases

LEMMA ServicePassed == ~DbFaults => (ServiceSpec => []PassInv)
<1> SUFFICES ASSUME ~DbFaults PROVE ServiceSpec => []PassInv
  OBVIOUS
<1>1. ServiceInit => PassInv
  BY DEF ServiceInit, IngestInit, PassInv, Passed, Behind, Outcome, OnPage, InHand
<1> QED BY <1>1, ServicePassStep, ServiceInvHolds, PTL DEF ServiceSpec

\* Offsets and links of the scheduled runs leave accounted items behind only while
\* page calls of the API keep, fail and route pieces with the same bytes, or with
\* the same keys, and across restarts that kill both.
THEOREM ServiceAccounts == ~DbFaults => (ServiceSpec => []PassedItemsAccounted)
<1> SUFFICES ASSUME ~DbFaults PROVE ServiceSpec => []PassedItemsAccounted
  OBVIOUS
<1>1. PassInv => PassedItemsAccounted
  BY DEF PassInv, Passed, PassedItemsAccounted
<1> QED BY <1>1, ServicePassed, PTL

LEMMA ServiceLedgerStep ==
  ASSUME ServiceInv, PassInv, ServiceInv', PassInv', [ServiceNext]_serviceVars
  PROVE  [Promise!LedgerNext]_Promise!ledgerVars
<1>1. FullInv /\ FullInv'
  BY DEF ServiceInv, FullInv
<1>2. CASE [Next]_vars
  BY <1>1, <1>2, LedgerStep
<1>3. CASE ScrapeNext /\ UNCHANGED ingestVars
  <2> DEFINE acc == {k \in Entries : Accounted(k)}
  <2> DEFINE cur == [p \in Providers |-> IF Kind[p] = "updates" THEN state[p].cursor ELSE 0]
  <2>1. acc \subseteq acc' /\ acc' \subseteq Entries
    BY <1>1, ServiceStep, AccountedStays DEF RowKeys, FullInv, AllInv, TypeInv, TypeOK
  <2>2. cur' = cur
    BY <1>3 DEF ingestVars
  <2> QED BY <2>1, <2>2 DEF Promise!LedgerNext, Promise!Account
<1> QED BY <1>2, <1>3, ServiceCases

\* The running service, runs and page calls together, implements the ledger.
THEOREM ServiceImplementsLedger == ~DbFaults => (ServiceSpec => LedgerPromise)
<1> SUFFICES ASSUME ~DbFaults PROVE ServiceSpec => LedgerPromise
  OBVIOUS
<1>1. ServiceInit => Promise!LedgerInit
  BY LedgerInitially DEF ServiceInit, Init
<1> QED BY <1>1, ServiceLedgerStep, ServiceInvHolds, ServicePassed, PTL
        DEF ServiceSpec, LedgerPromise, Promise!LedgerSpec

------------------------------------------------------------------------------
(* The Inbox of the service *)

\* A kept piece of a connector has its bytes in the catalog.
KeptHeld == \A k \in Keys : IsPhotoDownloaded(k) => Held(Content[k])

\* Who is about to update or to route knows why, also while others write.
BackedInv ==
  /\ KeptHeld
  /\ RouteInv
  /\ \A p \in Providers : At(p, "update") => rows[Item(p)].status # "absent"
  /\ \A c \in Calls : \A n \in Slots :
       TaskAt(c, n, "route") => Held(Content[PageItems[n]])
  /\ \A c \in Calls : \A n \in Slots :
       TaskAt(c, n, "update") => rows[PageItems[n]].status # "absent"
  /\ InboxBacked

LEMMA KeptHeldStep ==
  ASSUME CatalogTypeOK, KeptHeld, Grows, RowsOp
  PROVE  KeptHeld'
<1> USE CatalogAssumption DEF CatalogTypeOK, Row, RowKeys, Entries
<1>1. ASSUME NEW k \in Keys, IsPhotoDownloaded(k) PROVE Held(Content[k])'
  BY <1>1, AccountedStays DEF KeptHeld
<1>2. ASSUME NEW k \in Keys, InsertWins(k) \/ UpdateWins(k) PROVE KeptHeld'
  <2>1. rows'[k].hash = Content[k] /\ \A j \in Keys \ {k} : rows'[j] = rows[j]
    BY <1>2 DEF InsertWins, UpdateWins, DownloadedRow
  <2>2. Held(Content[k])'
    BY <2>1 DEF Held
  <2>3. \A j \in Keys \ {k} : IsPhotoDownloaded(j)' => IsPhotoDownloaded(j)
    BY <2>1 DEF IsPhotoDownloaded
  <2> QED BY <1>1, <2>2, <2>3 DEF KeptHeld
<1>3. CASE ~ \E k \in Keys : InsertWins(k) \/ UpdateWins(k)
  <2>1. NoneKept
    BY <1>3, NoneKeptBy DEF RowsOp
  <2>2. \A j \in Keys : IsPhotoDownloaded(j)' => IsPhotoDownloaded(j)
    BY <2>1 DEF NoneKept, IsPhotoDownloaded
  <2> QED BY <1>1, <2>2 DEF KeptHeld
<1> QED BY <1>2, <1>3

\* A download that loses to a row leaves its bytes held by one.
LEMMA LosersHeld ==
  ASSUME CatalogTypeOK, TableInv, KeptHeld, NEW k \in Keys,
         InsertHitsHash(k) \/ (UpdateLoses(k) /\ rows[k].status # "absent")
  PROVE  Held(Content[k])
<1>1. HashTaken(k) \/ IsPhotoDownloaded(k)
  BY DEF InsertHitsHash, UpdateLoses, IsPhotoDownloaded
<1>2. CASE HashTaken(k)
  <2>1. PICK j \in RowKeys : rows[j].hash = Content[k]
    BY <1>2 DEF HashTaken
  <2>2. j \in Keys
    BY <2>1, CatalogAssumption DEF TableInv, HashShape
  <2> QED BY <2>1, <2>2 DEF Held
<1> QED BY <1>1, <1>2 DEF KeptHeld

\* A run comes to the update and to the Inbox through a lost insert or update.
LEMMA RunEnters ==
  ASSUME AllInv, [Next]_vars, NEW p \in Providers, pc'[p] \in {"update", "route"}
  PROVE  /\ Item(p)' = Item(p) /\ Item(p) \in Keys
         /\ pc'[p] = pc[p] \/ Insert(p) \/ Update(p)
<1> USE DEF AllInv, TypeInv, TypeOK, IngestTypeOK
<1>1. ASSUME NEW q \in Providers, NEW l, Goto(q, l), Insert(q) \/ Update(q) \/ l \notin {"update", "route"}
      PROVE  page'[p] = page[p] /\ index'[p] = index[p] /\ (pc'[p] = pc[p] \/ Insert(p) \/ Update(p))
  BY <1>1 DEF Goto
<1>2. ASSUME NEW q \in Providers,
             \A r \in Providers \ {q} : pc'[r] = pc[r] /\ page'[r] = page[r] /\ index'[r] = index[r],
             pc'[q] \notin {"update", "route"}
      PROVE  page'[p] = page[p] /\ index'[p] = index[p] /\ pc'[p] = pc[p]
  BY <1>2
<1>3. page'[p] = page[p] /\ index'[p] = index[p] /\ (pc'[p] = pc[p] \/ Insert(p) \/ Update(p))
  <2>1. ASSUME NEW q \in Providers,
               \/ Tick(q) \/ BeginFails(q) \/ DiscoverFails(q) \/ DiscoverBroken(q)
               \/ ItemNew(q) \/ Resolve(q) \/ ResolveGone(q) \/ ResolveStops(q) \/ Park(q)
               \/ Download(q) \/ DownloadFails(q) \/ Route(q) \/ Abort(q)
        PROVE  \E l : Goto(q, l) /\ l \notin {"update", "route"}
    BY <2>1 DEF Tick, BeginFails, DiscoverFails, DiscoverBroken, ItemNew, Resolve,
                ResolveGone, ResolveStops, Park, Download, DownloadFails, Route, Abort
  <2>2. ASSUME NEW q \in Providers, Insert(q) \/ Update(q) PROVE \E l : Goto(q, l)
    BY <2>2 DEF Insert, Update
  <2>3. ASSUME NEW q \in Providers,
               \/ Begin(q) \/ Finish(q) \/ FinishFails(q) \/ DiscoverUpdates(q)
               \/ DiscoverGalleryPage(q) \/ SavePage(q) \/ SavePageFails(q)
        PROVE  /\ \A r \in Providers \ {q} :
                    pc'[r] = pc[r] /\ page'[r] = page[r] /\ index'[r] = index[r]
               /\ pc'[q] \notin {"update", "route"}
    BY <2>3 DEF Begin, Finish, FinishFails, EndRun, DiscoverUpdates, DiscoverGalleryPage,
                SavePage, SavePageFails, Discovered
  <2>4. ASSUME NEW q \in Providers,
               \/ ItemWithoutKey(q) \/ ItemSeen(q) \/ ItemKept(q) \/ RecordFailure(q)
               \/ Mark(q) \/ MarkOwner(q)
        PROVE  /\ \A r \in Providers \ {q} :
                    pc'[r] = pc[r] /\ page'[r] = page[r] /\ index'[r] = index[r]
               /\ pc'[q] \notin {"update", "route"}
    BY <2>4 DEF ItemWithoutKey, ItemSeen, ItemKept, RecordFailure, Mark, MarkOwner, NextItem,
                Goto
  <2>5. CASE Crash
    BY <2>5 DEF Crash
  <2>6. ASSUME NEW q \in Providers, Publish(q) PROVE UNCHANGED <<pc, page, index>>
    BY <2>6 DEF Publish, runVars
  <2>7. CASE CacheFails \/ Operator \/ UNCHANGED vars
    BY <2>7 DEF CacheFails, Operator, vars, ingestVars, runVars
  <2> QED BY <1>1, <1>2, <2>1, <2>2, <2>3, <2>4, <2>5, <2>6, <2>7, NextCases
<1>4. pc[p] \in InHand
  BY <1>3 DEF Insert, Update, At, InHand
<1> QED BY <1>3, <1>4 DEF HandInv, Item

\* What a run knows at the update and at the Inbox survives every step.
LEMMA RunBacked ==
  ASSUME AllInv, BackedInv, Grows, [Next]_vars, NEW p \in Providers, pc'[p] \in {"update", "route"}
  PROVE  /\ At(p, "update")' => rows'[Item(p)'].status # "absent"
         /\ At(p, "route")' => Held(Content[Item(p)])'
<1> USE DEF AllInv, TypeInv, TypeOK
<1>1. PICK k \in Keys : k = Item(p) /\ k = Item(p)' /\ k \in RowKeys /\ Content[k] \in Hashes
  BY RunEnters, CatalogAssumption DEF RowKeys, Entries
<1>2. CASE pc'[p] = pc[p]
  <2>1. At(p, "update")' => rows'[k].status # "absent"
    BY <1>1, <1>2 DEF At, BackedInv, Grows
  <2>2. At(p, "route")' => Held(Content[k])'
    BY <1>1, <1>2, AccountedStays DEF At, BackedInv, RouteInv
  <2> QED BY <1>1, <2>1, <2>2 DEF Held
<1>3. CASE Insert(p) \/ Update(p)
  <2>1. pc[p] \in InHand /\ pc'[p] # "kept"
    BY <1>3 DEF Insert, Update, At, InHand
  <2>2. \/ InsertHitsKey(k) /\ pc'[p] = "update"
        \/ InsertHitsHash(k) /\ pc'[p] = "route"
        \/ UpdateLoses(k) /\ At(p, "update") /\ pc'[p] = "route"
    BY <1>1, <1>3, <2>1 DEF Insert, Update, Goto, IngestTypeOK
  <2>3. pc'[p] = "update" => rows'[k].status # "absent"
    BY <1>1, <2>2 DEF InsertHitsKey, Grows
  <2>4. pc'[p] = "route" => Held(Content[k])'
    <3>1. pc'[p] = "route" => Held(Content[k])
      BY <1>1, <2>2, LosersHeld DEF BackedInv
    <3> QED BY <1>1, <3>1, AccountedStays
  <2> QED BY <1>1, <2>3, <2>4 DEF At, Held
<1> QED BY <1>2, <1>3, RunEnters

\* A goroutine comes to them the same way.
LEMMA CallEnters ==
  ASSUME ScrapeTypeOK, ScrapeNext, NEW c \in Calls, NEW n \in Slots,
         task'[c][n] \in {"update", "route"}
  PROVE  \/ task'[c][n] = task[c][n]
         \/ TaskAt(c, n, "insert") /\ InsertHitsKey(PageItems[n]) /\ task'[c][n] = "update"
         \/ TaskAt(c, n, "insert") /\ InsertHitsHash(PageItems[n]) /\ task'[c][n] = "route"
         \/ TaskAt(c, n, "update") /\ UpdateLoses(PageItems[n]) /\ task'[c][n] = "route"
<1> USE DEF ScrapeTypeOK
<1>1. ASSUME NEW d \in Calls, StartCall(d) \/ ReturnCall(d)
      PROVE  task'[c][n] = task[c][n]
  BY <1>1 DEF StartCall, ReturnCall
<1>2. ASSUME NEW d \in Calls, NEW m \in Slots, TaskStep(d, m), d # c \/ m # n
      PROVE  task'[c][n] = task[c][n]
  <2>1. PICK l : TaskGoto(d, m, l)
    BY <1>2 DEF TaskStep, Acquire, TaskWithoutKey, TaskLock, TaskCheck, TaskKnown,
                TaskGivesUp, TaskFetch, TaskFetchFails, TaskInsert, TaskUpdate, TaskRoute,
                TaskFail
  <2> QED BY <1>2, <2>1 DEF TaskGoto
<1>3. ASSUME TaskStep(c, n)
      PROVE  \/ TaskAt(c, n, "insert") /\ InsertHitsKey(PageItems[n]) /\ task'[c][n] = "update"
             \/ TaskAt(c, n, "insert") /\ InsertHitsHash(PageItems[n]) /\ task'[c][n] = "route"
             \/ TaskAt(c, n, "update") /\ UpdateLoses(PageItems[n]) /\ task'[c][n] = "route"
  <2>1. CASE TaskInsert(c, n) \/ TaskUpdate(c, n)
    BY <2>1 DEF TaskInsert, TaskUpdate, TaskGoto
  <2>2. CASE ~(TaskInsert(c, n) \/ TaskUpdate(c, n))
    <3>1. PICK l : TaskGoto(c, n, l) /\ l \notin {"update", "route"}
      BY <1>3, <2>2
      DEF TaskStep, Acquire, TaskWithoutKey, TaskLock, TaskCheck, TaskKnown, TaskGivesUp,
          TaskFetch, TaskFetchFails, TaskRoute, TaskFail
    <3> QED BY <3>1 DEF TaskGoto
  <2> QED BY <2>1, <2>2
<1> QED BY <1>1, <1>2, <1>3 DEF ScrapeNext

LEMMA CallBacked ==
  ASSUME ServiceInv, ServiceInv', BackedInv, Grows, [ServiceNext]_serviceVars,
         NEW c \in Calls, NEW n \in Slots, task'[c][n] \in {"update", "route"}
  PROVE  /\ TaskAt(c, n, "update")' => rows'[PageItems[n]].status # "absent"
         /\ TaskAt(c, n, "route")' => Held(Content[PageItems[n]])'
<1> USE DEF ServiceInv, AllInv, TypeInv, TypeOK
<1>1. PICK k \in Keys : k = PageItems[n] /\ k \in RowKeys /\ Content[k] \in Hashes
  BY CatalogAssumption DEF LockInv, Locked, RowKeys, Entries
<1>2. CASE task'[c][n] = task[c][n]
  <2>1. TaskAt(c, n, "update")' => rows'[k].status # "absent"
    BY <1>1, <1>2 DEF TaskAt, BackedInv, Grows
  <2>2. TaskAt(c, n, "route")' => Held(Content[k])'
    BY <1>1, <1>2, AccountedStays DEF TaskAt, BackedInv
  <2> QED BY <1>1, <2>1, <2>2 DEF Held
<1>3. CASE ScrapeNext /\ task'[c][n] # task[c][n]
  <2>1. \/ InsertHitsKey(k) /\ task'[c][n] = "update"
        \/ InsertHitsHash(k) /\ task'[c][n] = "route"
        \/ TaskAt(c, n, "update") /\ UpdateLoses(k) /\ task'[c][n] = "route"
    BY <1>1, <1>3, CallEnters
  <2>2. task'[c][n] = "update" => rows'[k].status # "absent"
    BY <1>1, <2>1 DEF InsertHitsKey, Grows
  <2>3. task'[c][n] = "route" => Held(Content[k])'
    <3>1. task'[c][n] = "route" => Held(Content[k])
      BY <1>1, <2>1, LosersHeld DEF BackedInv
    <3> QED BY <1>1, <3>1, AccountedStays
  <2> QED BY <1>1, <2>2, <2>3 DEF TaskAt, Held
<1>4. CASE ScrapeStop \/ UNCHANGED scrapeVars
  BY <1>2, <1>4 DEF ScrapeStop, scrapeVars, ScrapeTypeOK
<1> QED BY <1>2, <1>3, <1>4, ServiceCases

\* What the service does to the Inbox.
LEMMA ServiceInboxStep ==
  ASSUME ServiceInv, BackedInv, [ServiceNext]_serviceVars
  PROVE  InboxOp
<1> USE DEF ServiceInv
<1>1. CASE [Next]_vars
  BY <1>1, InboxStep DEF BackedInv
<1>2. ASSUME NEW c \in Calls, StartCall(c) \/ ReturnCall(c) PROVE InboxOp
  BY <1>2 DEF StartCall, ReturnCall, catalogVars, InboxOp
<1>3. ASSUME NEW c \in Calls, NEW n \in Slots, TaskStep(c, n) PROVE InboxOp
  <2>1. PageItems[n] \in Entries /\ ErrorKey \in Entries
    BY SlotEntries DEF Entries
  <2>2. CASE TaskWithoutKey(c, n)
    BY <2>1, <2>2 DEF TaskWithoutKey, catalogVars, InboxOp, ActiveInbox
  <2>3. CASE TaskKnown(c, n)
    BY <2>1, <2>3 DEF TaskKnown, InboxOp, ActiveInbox
  <2>4. CASE TaskRoute(c, n)
    <3>1. PageItems[n] \in Keys /\ Held(Content[PageItems[n]])
      BY <2>4 DEF TaskRoute, TaskAt, LockInv, Locked, BackedInv
    <3> QED BY <2>4, <3>1 DEF TaskRoute, InboxOp
  <2>5. CASE ~(TaskWithoutKey(c, n) \/ TaskKnown(c, n) \/ TaskRoute(c, n))
    BY <1>3, <2>5
    DEF TaskStep, Acquire, TaskLock, TaskCheck, TaskGivesUp, TaskFetch, TaskFetchFails,
        TaskInsert, TaskUpdate, TaskFail, InsertWins, InsertHitsKey, InsertHitsHash,
        UpdateWins, UpdateLoses, RecordFailedDownload, catalogVars, InboxOp
  <2> QED BY <2>2, <2>3, <2>4, <2>5
<1> QED BY <1>1, <1>2, <1>3, ServiceCases DEF ScrapeNext

LEMMA ServiceRowsOp ==
  ASSUME ServiceInv, [ServiceNext]_serviceVars
  PROVE  RowsOp
BY ServiceCases, RowsStep, CallWrites DEF ServiceInv, AllInv, TypeInv, TypeOK

LEMMA BackedStep == ServiceInv /\ BackedInv /\ [ServiceNext]_serviceVars => BackedInv'
<1> SUFFICES ASSUME ServiceInv, BackedInv, [ServiceNext]_serviceVars PROVE BackedInv'
  OBVIOUS
<1>1. ServiceInv' /\ Grows
  BY ServiceStep
<1>2. CatalogTypeOK
  BY DEF ServiceInv, AllInv, TypeInv, TypeOK
<1>3. KeptHeld'
  BY <1>1, <1>2, ServiceRowsOp, KeptHeldStep DEF BackedInv
<1>4. InboxBacked'
  BY <1>1, <1>2, ServiceInboxStep, InboxBackedStep DEF BackedInv
<1>5. ASSUME NEW p \in Providers, pc'[p] \in {"update", "route"}
      PROVE  /\ At(p, "update")' => rows'[Item(p)'].status # "absent"
             /\ At(p, "route")' => Held(Content[Item(p)])'
  <2>1. CASE [Next]_vars
    BY <1>1, <1>5, <2>1, RunBacked DEF ServiceInv
  <2>2. CASE ScrapeNext /\ UNCHANGED ingestVars
    <3>1. pc'[p] = pc[p] /\ Item(p)' = Item(p)
      BY <2>2 DEF ingestVars, Item
    <3>2. PICK k \in Keys : k = Item(p) /\ k = Item(p)' /\ k \in RowKeys /\ Content[k] \in Hashes
      BY <1>5, <3>1, CatalogAssumption
      DEF ServiceInv, AllInv, TypeInv, HandInv, InHand, RowKeys, Entries
    <3>3. At(p, "update")' => rows'[k].status # "absent"
      BY <1>1, <3>1, <3>2 DEF At, BackedInv, Grows
    <3>4. At(p, "route")' => Held(Content[k])'
      BY <1>1, <1>2, <3>1, <3>2, AccountedStays DEF At, BackedInv, RouteInv
    <3> QED BY <3>2, <3>3, <3>4 DEF Held
  <2> QED BY <2>1, <2>2, ServiceCases
<1>6. \A p \in Providers : At(p, "update")' => rows'[Item(p)'].status # "absent"
  BY <1>5 DEF At
<1>7. RouteInv'
  BY <1>5 DEF RouteInv, At, Held
<1>8. \A c \in Calls : \A n \in Slots :
        TaskAt(c, n, "route")' => Held(Content[PageItems[n]])'
  BY <1>1, CallBacked DEF TaskAt
<1>9. \A c \in Calls : \A n \in Slots :
        TaskAt(c, n, "update")' => rows'[PageItems[n]].status # "absent"
  BY <1>1, CallBacked DEF TaskAt
<1> QED BY <1>3, <1>4, <1>6, <1>7, <1>8, <1>9 DEF BackedInv

LEMMA BackedInvHolds == ServiceSpec => []BackedInv
<1>1. ServiceInit => BackedInv
  BY CatalogAssumption
  DEF ServiceInit, CatalogInit, IngestInit, ScrapeInit, BackedInv, KeptHeld, RouteInv,
      InboxBacked, IsPhotoDownloaded, At, TaskAt, RowKeys, Entries, NoRow, NoInboxRow
<1> QED BY <1>1, BackedStep, ServiceInvHolds, PTL DEF ServiceSpec

\* What the Inbox calls a duplicate is one, whoever parked it: its bytes are held
\* by a row, though runs and page calls may take, fail and take over the row of a
\* key between two steps of each other.
THEOREM ServiceDuplicatesBacked == ServiceSpec => []InboxBacked
<1>1. BackedInv => InboxBacked
  BY DEF BackedInv
<1> QED BY <1>1, BackedInvHolds, PTL

\* An operator's decision is final for runs and page calls together.
THEOREM ServiceDecisionsFinal == ServiceSpec => ResolvedStaysResolved
<1>1. ASSUME ServiceInv, BackedInv, [ServiceNext]_serviceVars
      PROVE  [\A k \in Entries :
                inbox[k].status \in ResolvedInbox => inbox'[k].status = inbox[k].status]_inbox
  BY <1>1, ServiceInboxStep, ResolvedStays DEF ServiceInv, AllInv, TypeInv, TypeOK
<1> QED BY <1>1, BackedInvHolds, ServiceInvHolds, PTL DEF ServiceSpec, ResolvedStaysResolved

------------------------------------------------------------------------------
(* What the key locks of one call buy *)

\* The goroutines that work on a new item: past the check, before the outcome.
OnNew == {"fetch", "insert", "update", "route", "fail"}

\* One goroutine per key, and while it works on a new item nobody keeps the item.
CallInv ==
  /\ JobsTypeOK
  /\ LockInv
  /\ \A c \in Calls : \A m, n \in Slots :
       PageItems[m] = PageItems[n] /\ task[c][m] \in Locked /\ task[c][n] \in Locked => m = n
  /\ \A c \in Calls : \A n \in Slots :
       task[c][n] \in OnNew => ~IsPhotoDownloaded(PageItems[n])

LEMMA CallInitially == JobsInit => CallInv
<1> SUFFICES ASSUME JobsInit PROVE CallInv
  OBVIOUS
<1>1. CatalogTypeOK
  BY CatalogAssumption
  DEF JobsInit, CatalogInit, CatalogTypeOK, RowKeys, Entries, Row, RowStatus, NoRow, InboxRow,
      NoInboxRow, ActiveInbox, ResolvedInbox
<1> QED BY <1>1 DEF JobsInit, ScrapeInit, ScrapeTypeOK, JobsTypeOK, CallInv, LockInv, Locked, OnNew

\* A goroutine's step moves it alone.
LEMMA TaskMoves ==
  ASSUME ScrapeTypeOK, NEW c \in Calls, NEW n \in Slots, TaskStep(c, n)
  PROVE  /\ \A d \in Calls : \A m \in Slots : d # c \/ m # n => task'[d][m] = task[d][m]
         /\ task'[c][n] \in Locked => task[c][n] \in Locked \/ TaskLock(c, n)
         /\ task'[c][n] \in OnNew => task[c][n] \in OnNew \/ TaskCheck(c, n)
<1> USE DEF ScrapeTypeOK
<1>1. PICK l : /\ TaskGoto(c, n, l)
               /\ l \in Locked => task[c][n] \in Locked \/ TaskLock(c, n)
               /\ l \in OnNew => task[c][n] \in OnNew \/ TaskCheck(c, n)
  <2>1. CASE \/ Acquire(c, n) \/ TaskWithoutKey(c, n) \/ TaskLock(c, n) \/ TaskKnown(c, n)
             \/ TaskGivesUp(c, n) \/ TaskRoute(c, n) \/ TaskFail(c, n)
    BY <2>1 DEF Acquire, TaskWithoutKey, TaskLock, TaskKnown, TaskGivesUp, TaskRoute,
                TaskFail, Locked, OnNew
  <2>2. CASE \/ TaskCheck(c, n) \/ TaskFetch(c, n) \/ TaskFetchFails(c, n)
             \/ TaskInsert(c, n) \/ TaskUpdate(c, n)
    BY <2>2 DEF TaskCheck, TaskFetch, TaskFetchFails, TaskInsert, TaskUpdate, TaskAt,
                Locked, OnNew
  <2> QED BY <2>1, <2>2 DEF TaskStep
<1> QED BY <1>1 DEF TaskGoto

\* What a goroutine's step does to the rows.
LEMMA TaskWrites ==
  ASSUME CallInv, NEW c \in Calls, NEW n \in Slots, TaskStep(c, n)
  PROVE  \/ UNCHANGED rows
         \/ /\ PageItems[n] \in Keys /\ task[c][n] \in OnNew /\ task'[c][n] = "done"
            /\ InsertWins(PageItems[n]) \/ UpdateWins(PageItems[n])
         \/ RecordFailedDownload(PageItems[n]) /\ ~IsPhotoDownloaded(PageItems[n])
<1> USE DEF CallInv, JobsTypeOK, ScrapeTypeOK
<1>1. CASE TaskInsert(c, n) \/ TaskUpdate(c, n)
  <2>1. PageItems[n] \in Keys /\ task[c][n] \in OnNew
    BY <1>1 DEF TaskInsert, TaskUpdate, TaskAt, LockInv, Locked, OnNew
  <2> QED BY <1>1, <2>1 DEF TaskInsert, TaskUpdate, InsertHitsKey, InsertHitsHash,
                            UpdateLoses, TaskGoto, catalogVars
<1>2. CASE TaskFail(c, n)
  <2>1. task[c][n] \in OnNew
    BY <1>2 DEF TaskFail, TaskAt, OnNew
  <2> QED BY <1>2, <2>1 DEF TaskFail, catalogVars
<1>3. CASE ~(TaskInsert(c, n) \/ TaskUpdate(c, n) \/ TaskFail(c, n))
  BY <1>3 DEF TaskStep, Acquire, TaskWithoutKey, TaskLock, TaskCheck, TaskKnown, TaskGivesUp,
              TaskFetch, TaskFetchFails, TaskRoute, RecordInboxException, catalogVars
<1> QED BY <1>1, <1>2, <1>3

LEMMA CallTaskStep ==
  ASSUME CallInv, \A c, d \in Calls : c = d, NEW c \in Calls, NEW n \in Slots,
         TaskStep(c, n), JobsTypeOK', LockInv'
  PROVE  CallInv'
<1> USE DEF CallInv, JobsTypeOK
<1>1. \A m \in Slots \ {n} : task'[c][m] = task[c][m]
  BY TaskMoves
<1>2. ASSUME NEW m \in Slots, NEW o \in Slots, PageItems[m] = PageItems[o],
             task'[c][m] \in Locked, task'[c][o] \in Locked
      PROVE  m = o
  <2>1. CASE TaskLock(c, n)
    <3>1. \A r \in Slots : PageItems[r] = PageItems[n] => task[c][r] \notin Locked
      BY <2>1 DEF TaskLock, KeyLockFree
    <3> QED BY <1>1, <1>2, <3>1
  <2>2. CASE ~TaskLock(c, n)
    <3>1. \A r \in Slots : task'[c][r] \in Locked => task[c][r] \in Locked
      BY <1>1, <2>2, TaskMoves
    <3> QED BY <1>2, <3>1
  <2> QED BY <2>1, <2>2
<1>3. ASSUME NEW m \in Slots, task'[c][m] \in OnNew
      PROVE  ~IsPhotoDownloaded(PageItems[m])'
  <2>1. PageItems[m] \in RowKeys /\ PageItems[n] \in RowKeys
    BY SlotEntries
  <2>2. ~IsPhotoDownloaded(PageItems[m])
    <3>1. CASE task[c][m] \in OnNew
      BY <3>1
    <3>2. CASE m = n /\ TaskCheck(c, n)
      <4>1. task'[c][n] = "fetch"
        BY <1>3, <3>2 DEF TaskCheck, TaskGoto, ScrapeTypeOK, OnNew
      <4>2. ~IsMediaAlreadyKept(PageItems[n])
        BY <3>2, <4>1 DEF TaskCheck, TaskGoto, ScrapeTypeOK
      <4> QED BY <3>2, <4>2 DEF IsMediaAlreadyKept
    <3> QED BY <1>1, <1>3, <3>1, <3>2, TaskMoves
  <2>3. CASE UNCHANGED rows \/ RecordFailedDownload(PageItems[n])
    <3>1. NoneKept
      BY <2>1, <2>3, NoneKeptBy
    <3> QED BY <2>1, <2>2, <3>1 DEF NoneKept, IsPhotoDownloaded
  <2>4. CASE /\ PageItems[n] \in Keys /\ task[c][n] \in OnNew /\ task'[c][n] = "done"
             /\ InsertWins(PageItems[n]) \/ UpdateWins(PageItems[n])
    <3>1. m # n
      BY <1>3, <2>4 DEF OnNew
    <3>2. PageItems[m] # PageItems[n]
      BY <1>1, <1>3, <2>4, <3>1 DEF OnNew, Locked
    <3>3. rows'[PageItems[m]] = rows[PageItems[m]]
      BY <2>1, <2>4, <3>2 DEF InsertWins, UpdateWins, CatalogTypeOK
    <3> QED BY <2>2, <3>3 DEF IsPhotoDownloaded
  <2> QED BY <2>3, <2>4, TaskWrites
<1> QED BY <1>2, <1>3

LEMMA CallStep ==
  ASSUME CallInv, \A c, d \in Calls : c = d, [JobsNext]_jobVars
  PROVE  CallInv'
<1> USE DEF CallInv, JobsTypeOK
<1>1. JobsTypeOK' /\ LockInv'
  <2>1. CatalogTypeOK'
    BY CallWrites, OperatorTypes DEF JobsNext, ScrapeStop, jobVars, catalogVars, CatalogTypeOK
  <2>2. ScrapeNext \/ ScrapeStop \/ UNCHANGED scrapeVars
    BY DEF JobsNext, jobVars, scrapeVars
  <2> QED BY <2>1, <2>2, CallTypes
<1>2. ASSUME NEW c \in Calls, NEW n \in Slots, TaskStep(c, n) PROVE CallInv'
  BY <1>1, <1>2, CallTaskStep
<1>3. CASE ~ \E c \in Calls : \E n \in Slots : TaskStep(c, n)
  <2>1. \A c \in Calls : \A n \in Slots : task'[c][n] \in Locked => task'[c][n] = task[c][n]
    <3>1. ASSUME NEW d \in Calls, StartCall(d) \/ ReturnCall(d)
          PROVE  \A c \in Calls : \A n \in Slots :
                   task'[c][n] \in Locked => task'[c][n] = task[c][n]
      BY <3>1 DEF StartCall, ReturnCall, ScrapeTypeOK, Locked
    <3>2. CASE ScrapeStop
      BY <3>2 DEF ScrapeStop, Locked
    <3>3. CASE UNCHANGED scrapeVars
      BY <3>3 DEF scrapeVars
    <3> QED BY <1>3, <3>1, <3>2, <3>3 DEF JobsNext, ScrapeNext, jobVars, scrapeVars
  <2>2. NoneKept
    <3>1. UNCHANGED rows \/ \E k \in RowKeys : ResetPhotoStatus(k)
      BY <1>3, CatalogAssumption
      DEF JobsNext, ScrapeNext, StartCall, ReturnCall, ScrapeStop, OperatorAct,
          ResolveInboxItem, MoveInboxItem, DeleteInboxItem, jobVars, catalogVars
    <3> QED BY <3>1, NoneKeptBy
  <2>3. \A c \in Calls : \A n \in Slots :
          task'[c][n] \in OnNew => ~IsPhotoDownloaded(PageItems[n])'
    BY <2>1, <2>2, SlotEntries DEF NoneKept, IsPhotoDownloaded, OnNew, Locked
  <2> QED BY <1>1, <2>1, <2>3
<1> QED BY <1>2, <1>3

\* The goroutines of one page call never demote a piece one of them kept, however
\* often the page lists its key.  (Two calls do: their key locks are their own.)
THEOREM OneCallKeeps ==
  (\A c, d \in Calls : c = d) => (JobsSpec => KeptNeverDemoted)
<1> SUFFICES ASSUME \A c, d \in Calls : c = d PROVE JobsSpec => KeptNeverDemoted
  OBVIOUS
<1>1. CallInv /\ [JobsNext]_jobVars => CallInv'
  BY CallStep
<1>2. ASSUME CallInv, [JobsNext]_jobVars
      PROVE  [\A k \in RowKeys :
                rows[k].status = "downloaded" => rows'[k].status \in {"downloaded", "pending"}]_rows
  <2>1. rows \in [RowKeys -> Row]
    BY <1>2 DEF CallInv, JobsTypeOK, CatalogTypeOK
  <2>2. ASSUME NEW c \in Calls, NEW n \in Slots, TaskStep(c, n), NEW j \in RowKeys,
               rows[j].status = "downloaded"
        PROVE  rows'[j].status = "downloaded"
    <3>1. PageItems[n] \in RowKeys
      BY SlotEntries
    <3> QED BY <1>2, <2>1, <2>2, <3>1, TaskWrites
        DEF InsertWins, UpdateWins, DownloadedRow, RecordFailedDownload, IsPhotoDownloaded, Row
  <2>3. CASE OperatorAct
    BY <2>1, <2>3, CatalogAssumption
    DEF OperatorAct, ResetPhotoStatus, ResolveInboxItem, MoveInboxItem, DeleteInboxItem, Row
  <2>4. CASE ScrapeStop \/ UNCHANGED jobVars \/ \E c \in Calls : StartCall(c) \/ ReturnCall(c)
    BY <2>4 DEF ScrapeStop, StartCall, ReturnCall, jobVars, catalogVars
  <2> QED BY <1>2, <2>2, <2>3, <2>4 DEF JobsNext, ScrapeNext
<1> QED BY <1>1, <1>2, CallInitially, PTL DEF JobsSpec, KeptNeverDemoted

==============================================================================
