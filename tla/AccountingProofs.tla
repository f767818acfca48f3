-------------------------- MODULE AccountingProofs ---------------------------
(***************************************************************************)
(* Safety of Ingest for every feed: exact dedupe, the seen-set and the     *)
(* dedupe owners never hide bytes the catalog lacks, the server is never   *)
(* told to forget an update the cursor has not passed, and the cursor, an  *)
(* offset or a link, leaves accounted items behind only.                   *)
(*                                                                         *)
(* TableInv says what rows look like and makes every write monotone (a row *)
(* never disappears, a hash is never replaced); RunInv says what a run     *)
(* knows about the item in hand; CursorInv places the page of a run in the *)
(* feed; PassInv, over the other three, is the accounting itself.          *)
(***************************************************************************)
EXTENDS IngestProofs

------------------------------------------------------------------------------
(* Rows *)

\* A row's hash is that of its own bytes; error rows, rows of the ETL and absent
\* rows have none.
HashShape ==
  /\ \A k \in Keys : rows[k].hash \in {NoHash, Content[k]}
  /\ \A k \in RowKeys \ Keys : rows[k].hash = NoHash
  /\ \A k \in RowKeys : rows[k].status = "absent" => rows[k].hash = NoHash

TableInv == HashShape /\ UniqueContent

\* What any step may do to the rows.
RowsOp ==
  \/ \E k \in Keys : InsertWins(k) \/ UpdateWins(k)
  \/ \E k \in RowKeys : RecordFailedDownload(k) \/ ResetPhotoStatus(k)
  \/ UNCHANGED rows

\* Rows stay, and a hash once known stays what it is.
Grows ==
  \A k \in RowKeys :
    /\ rows[k].status # "absent" => rows'[k].status # "absent"
    /\ rows[k].hash # NoHash => rows'[k].hash = rows[k].hash

\* The bytes are in the catalog, under some key.
Held(h) == \E j \in Keys : rows[j].hash = h

LEMMA RowsStep == TypeInv /\ [Next]_vars => RowsOp
<1> SUFFICES ASSUME TypeInv, [Next]_vars PROVE RowsOp
  OBVIOUS
<1>1. ASSUME NEW p \in Providers, pc[p] \in InHand PROVE Item(p) \in Keys /\ Item(p) \in RowKeys
  BY <1>1 DEF TypeInv, HandInv, RowKeys, Entries
<1>2. ErrorKey \in RowKeys
  BY DEF RowKeys, Entries
<1>3. ASSUME NEW p \in Providers,
             Tick(p) \/ BeginFails(p) \/ Begin(p) \/ Finish(p) \/ FinishFails(p)
               \/ Publish(p) \/ DiscoverUpdates(p)
               \/ DiscoverGalleryPage(p) \/ DiscoverFails(p)
      PROVE  RowsOp
  BY <1>3 DEF Tick, BeginFails, Begin, Finish, FinishFails, EndRun, RunStatus, EndState,
              Publish, DiscoverUpdates, Confirm, DiscoverGalleryPage,
              DiscoverFails, catalogVars, RowsOp
<1>4. ASSUME NEW p \in Providers, DiscoverBroken(p) \/ ItemWithoutKey(p) PROVE RowsOp
  BY <1>2, <1>4 DEF DiscoverBroken, ItemWithoutKey, catalogVars, RowsOp
<1>5. ASSUME NEW p \in Providers,
             ItemSeen(p) \/ ItemKept(p) \/ ItemNew(p) \/ Resolve(p) \/ ResolveGone(p)
               \/ ResolveStops(p) \/ Download(p) \/ DownloadFails(p) \/ Mark(p)
               \/ MarkOwner(p)
      PROVE  RowsOp
  BY <1>5 DEF ItemSeen, ItemKept, ItemNew, Resolve, ResolveGone, ResolveStops, Download,
              DownloadFails, Mark, MarkOwner, catalogVars, RowsOp
<1>6. ASSUME NEW p \in Providers, Park(p) \/ Route(p) PROVE RowsOp
  BY <1>6 DEF Park, Route, RecordInboxException, RowsOp
<1>7. ASSUME NEW p \in Providers, Insert(p) PROVE RowsOp
  BY <1>1, <1>7 DEF Insert, InsertHitsKey, InsertHitsHash, catalogVars, At, InHand, RowsOp
<1>8. ASSUME NEW p \in Providers, Update(p) PROVE RowsOp
  BY <1>1, <1>8 DEF Update, UpdateLoses, catalogVars, At, InHand, RowsOp
<1>9. ASSUME NEW p \in Providers, RecordFailure(p) PROVE RowsOp
  BY <1>1, <1>9 DEF RecordFailure, catalogVars, InHand, RowsOp
<1>10. ASSUME NEW p \in Providers, SavePage(p) \/ SavePageFails(p) \/ Abort(p) PROVE RowsOp
  BY <1>10 DEF SavePage, SavePageFails, Abort, catalogVars, RowsOp
<1>11. CASE CacheFails \/ Crash \/ UNCHANGED vars
  BY <1>11 DEF CacheFails, Crash, vars, catalogVars, RowsOp
<1>12. CASE Operator
  BY <1>12, CatalogAssumption
  DEF Operator, OperatorAct, ResolveInboxItem, MoveInboxItem, DeleteInboxItem, RowsOp
<1> QED BY <1>3, <1>4, <1>5, <1>6, <1>7, <1>8, <1>9, <1>10, <1>11, <1>12, NextCases

LEMMA TableInit == Init => TableInv
BY CatalogAssumption
DEF Init, CatalogInit, TableInv, HashShape, UniqueContent, RowKeys, Entries, NoRow

\* Every write of the rows keeps their shape, and is monotone.
LEMMA TableStep ==
  ASSUME CatalogTypeOK, TableInv, RowsOp
  PROVE  TableInv' /\ Grows
<1> USE CatalogAssumption DEF CatalogTypeOK, TableInv, Grows, RowKeys, Entries, Row
<1>1. ASSUME NEW k \in Keys, InsertWins(k) \/ UpdateWins(k)
      PROVE  TableInv' /\ Grows
  <2>1. /\ rows' = [rows EXCEPT ![k] = DownloadedRow(k)]
        /\ \A j \in RowKeys \ {k} : rows[j].hash # Content[k]
    BY <1>1 DEF InsertWins, UpdateWins, HashTaken
  <2>2. /\ rows'[k].status = "downloaded" /\ rows'[k].hash = Content[k]
        /\ \A j \in RowKeys \ {k} : rows'[j] = rows[j]
    BY <2>1 DEF DownloadedRow
  <2>3. HashShape'
    BY <2>2 DEF HashShape
  <2>4. UniqueContent'
    BY <2>1, <2>2 DEF UniqueContent
  <2>5. Grows
    BY <2>2 DEF HashShape
  <2> QED BY <2>3, <2>4, <2>5
<1>2. ASSUME NEW k \in RowKeys, RecordFailedDownload(k) \/ ResetPhotoStatus(k)
      PROVE  TableInv' /\ Grows
  <2>1. /\ rows'[k].status \in {"failed", "pending"} /\ rows'[k].hash = rows[k].hash
        /\ \A j \in RowKeys \ {k} : rows'[j] = rows[j]
    BY <1>2 DEF RecordFailedDownload, ResetPhotoStatus
  <2>2. HashShape'
    BY <2>1 DEF HashShape
  <2>3. UniqueContent'
    BY <2>1 DEF UniqueContent
  <2> QED BY <2>1, <2>2, <2>3
<1>3. CASE UNCHANGED rows
  BY <1>3 DEF HashShape, UniqueContent
<1> QED BY <1>1, <1>2, <1>3 DEF RowsOp

\* What is accounted for or held stays so.
LEMMA AccountedStays ==
  ASSUME Grows, CatalogTypeOK
  PROVE  /\ \A k \in RowKeys : Accounted(k) => Accounted(k)'
         /\ \A h \in Hashes : Held(h) => Held(h)'
BY CatalogAssumption DEF Grows, Accounted, Held, RowKeys, Entries, CatalogTypeOK

\* IsMediaAlreadyKept says yes only of what is accounted for.
LEMMA KeptIsAccounted ==
  ASSUME TypeInv, NEW p \in Providers, ItemKept(p)
  PROVE  Accounted(Item(p))
<1>1. index[p] \in 1..Len(page[p].items) /\ page[p].items \in Seq(Entries)
  BY LenProperties DEF ItemKept, HasItem, TypeInv, TypeOK, IngestTypeOK, Page, HandInv
<1>2. Item(p) \in Keys
  BY <1>1, ElementOfSeq DEF ItemKept, Item, Entries
<1> QED BY <1>2 DEF ItemKept, IsMediaAlreadyKept, IsPhotoDownloaded, Accounted

LEMMA TableInvStep == TypeInv /\ TableInv /\ [Next]_vars => TableInv' /\ Grows
BY RowsStep, TableStep DEF TypeInv, TypeOK

\* Exact dedupe across scheduled runs, crashes and retries: no two rows ever
\* hold the same content hash.
THEOREM ContentIsUnique == Spec => []UniqueContent
<1>1. Init => TypeInv /\ TableInv
  BY TypeInit, TableInit
<1>2. TypeInv /\ TableInv /\ [Next]_vars => TypeInv' /\ TableInv'
  BY TypeStep, TableInvStep
<1>3. TableInv => UniqueContent
  BY DEF TableInv
<1> QED BY <1>1, <1>2, <1>3, PTL DEF Spec

------------------------------------------------------------------------------
(* What a run knows about the item in hand *)

\* Steps that are reached only when the item is in the catalog one way or the
\* other, and steps reached only when a row holds its bytes.
Known == {"park", "update", "route", "parked", "kept", "owner"}
Kept == {"park", "kept", "owner"}

RunInv ==
  /\ \A p \in Providers : pc[p] \in Known => Accounted(Item(p))
  /\ \A p \in Providers : pc[p] \in Kept => Held(Content[Item(p)])
  /\ SeenAccounted
  /\ OwnerBacked

AllInv == TypeInv /\ TableInv /\ RunInv

LEMMA RunInvInit == Init => RunInv
BY DEF Init, IngestInit, RunInv, SeenAccounted, OwnerBacked, Known, Kept

\* A step that leaves the marks and the other runs alone, and brings p to a
\* step with nothing to know or with what it knows, keeps RunInv.
LEMMA RunFrame ==
  ASSUME AllInv, Grows, NEW p \in Providers,
         UNCHANGED <<seen, owned>>,
         \A q \in Providers \ {p} : pc'[q] = pc[q] /\ Item(q)' = Item(q),
         pc'[p] \in Known => Item(p)' \in Keys /\ Accounted(Item(p))',
         pc'[p] \in Kept => Held(Content[Item(p)])'
  PROVE  RunInv'
<1> USE DEF AllInv, TypeInv, TypeOK
<1>1. \A q \in Providers : pc[q] \in Known => Item(q) \in Keys /\ Item(q) \in RowKeys
  BY DEF HandInv, Known, InHand, RowKeys, Entries
<1>2. \A q \in Providers : pc'[q] \in Known => Accounted(Item(q))'
  <2>1. ASSUME NEW q \in Providers \ {p}, pc'[q] \in Known PROVE Accounted(Item(q))'
    <3>1. Item(q) \in RowKeys /\ Accounted(Item(q))
      BY <1>1, <2>1 DEF RunInv
    <3>2. PICK k \in RowKeys : k = Item(q) /\ k = Item(q)' /\ Accounted(k)
      BY <2>1, <3>1
    <3>3. Accounted(k)'
      BY <3>2, AccountedStays
    <3> QED BY <3>2, <3>3 DEF Accounted
  <2> QED BY <2>1
<1>3. \A q \in Providers : pc'[q] \in Kept => (Held(Content[Item(q)]))'
  <2>1. ASSUME NEW q \in Providers \ {p}, pc'[q] \in Kept PROVE (Held(Content[Item(q)]))'
    <3>1. Item(q) \in Keys /\ Held(Content[Item(q)])
      BY <1>1, <2>1 DEF RunInv, Known, Kept
    <3>2. \E j \in Keys : rows'[j].hash = Content[Item(q)]
      BY <3>1, CatalogAssumption DEF Held, Grows, CatalogTypeOK, RowKeys, Entries
    <3> QED BY <2>1, <3>2 DEF Held
  <2> QED BY <2>1
<1>4. SeenAccounted'
  BY AccountedStays DEF RunInv, SeenAccounted, IngestTypeOK, RowKeys, Entries
<1>5. OwnerBacked'
  <2>1. ASSUME NEW h \in owned PROVE \E j \in Keys : rows'[j].hash = h
    BY AccountedStays DEF RunInv, OwnerBacked, IngestTypeOK, Held
  <2> QED BY <2>1 DEF OwnerBacked
<1> QED BY <1>2, <1>3, <1>4, <1>5 DEF RunInv

\* Where a run goes decides what it has to know; the page and the item in hand
\* change only where a run leaves the item.
LEMMA RunMoves ==
  ASSUME AllInv, NEW p \in Providers
  PROVE  /\ \A l \in {"idle", "waiting"} \cup InLoop : Goto(p, l) =>
              /\ pc'[p] = l /\ Item(p)' = Item(p)
              /\ \A q \in Providers \ {p} : pc'[q] = pc[q] /\ Item(q)' = Item(q)
         /\ NextItem(p) =>
              /\ pc'[p] = "item"
              /\ \A q \in Providers \ {p} : pc'[q] = pc[q] /\ Item(q)' = Item(q)
BY DEF AllInv, TypeInv, TypeOK, IngestTypeOK, Goto, NextItem, Item

LEMMA RunQuiet ==
  ASSUME AllInv, Grows, NEW p \in Providers,
         \/ Tick(p) \/ BeginFails(p) \/ Begin(p) \/ Finish(p) \/ FinishFails(p)
         \/ Publish(p)
         \/ DiscoverUpdates(p) \/ DiscoverGalleryPage(p) \/ DiscoverFails(p)
         \/ DiscoverBroken(p)
         \/ ItemWithoutKey(p) \/ ItemSeen(p) \/ ItemNew(p)
         \/ ResolveGone(p) \/ ResolveStops(p) \/ Download(p) \/ DownloadFails(p)
         \/ RecordFailure(p) \/ SavePage(p) \/ SavePageFails(p) \/ Abort(p)
  PROVE  RunInv'
<1> USE DEF AllInv, TypeInv, TypeOK, IngestTypeOK
<1>1. CASE \/ Tick(p) \/ BeginFails(p) \/ DiscoverFails(p) \/ DiscoverBroken(p)
           \/ ItemNew(p)
           \/ ResolveGone(p) \/ ResolveStops(p) \/ Download(p) \/ DownloadFails(p)
           \/ Abort(p)
  <2>1. UNCHANGED <<seen, owned>>
    BY <1>1 DEF Tick, BeginFails, DiscoverFails, Confirm, DiscoverBroken, ItemNew,
                ResolveGone, ResolveStops,
                Download, DownloadFails, Abort, cacheVars
  <2>2. PICK l \in {"idle", "waiting", "failed", "permission_halt", "resolve", "gone", "insert", "fail"} :
          Goto(p, l)
    BY <1>1 DEF Tick, BeginFails, DiscoverFails, Confirm, DiscoverBroken, ItemNew,
                ResolveGone, ResolveStops,
                Download, DownloadFails, Abort
  <2>3. l \in {"idle", "waiting"} \cup InLoop /\ l \notin Known /\ l \notin Kept
    BY <2>2 DEF InLoop, Outcome, Known, Kept
  <2>4. pc'[p] = l /\ \A q \in Providers \ {p} : pc'[q] = pc[q] /\ Item(q)' = Item(q)
    BY <2>2, <2>3, RunMoves
  <2> QED BY <2>1, <2>3, <2>4, RunFrame
<1>2. CASE ItemWithoutKey(p) \/ ItemSeen(p) \/ RecordFailure(p)
  <2>1. UNCHANGED <<seen, owned>> /\ NextItem(p)
    BY <1>2 DEF ItemWithoutKey, ItemSeen, RecordFailure, cacheVars
  <2>2. pc'[p] = "item" /\ \A q \in Providers \ {p} : pc'[q] = pc[q] /\ Item(q)' = Item(q)
    BY <2>1, RunMoves
  <2> QED BY <2>1, <2>2, RunFrame DEF Known, Kept
<1>3. CASE \/ Begin(p) \/ Finish(p) \/ FinishFails(p) \/ SavePage(p) \/ SavePageFails(p)
           \/ DiscoverUpdates(p) \/ DiscoverGalleryPage(p)
  <2>1. UNCHANGED <<seen, owned>>
    BY <1>3 DEF Begin, Finish, FinishFails, EndRun, RunStatus, EndState, SavePage,
                SavePageFails, DiscoverUpdates, Confirm,
                DiscoverGalleryPage, cacheVars
  <2>2. /\ pc'[p] \in {"discover", "item", "idle", "completed", "failed"}
        /\ \A q \in Providers \ {p} : pc'[q] = pc[q] /\ page'[q] = page[q] /\ index'[q] = index[q]
    BY <1>3 DEF Begin, Finish, FinishFails, EndRun, RunStatus, EndState, SavePage,
                SavePageFails, DiscoverUpdates, Confirm,
                DiscoverGalleryPage, Discovered
  <2>3. \A q \in Providers \ {p} : Item(q)' = Item(q)
    BY <2>2 DEF Item
  <2> QED BY <2>1, <2>2, <2>3, RunFrame DEF Known, Kept
<1>4. CASE Publish(p)
  <2>1. UNCHANGED <<rows, seen, owned, pc, page, index>>
    BY <1>4 DEF Publish, catalogVars, cacheVars, runVars
  <2> QED BY <2>1 DEF RunInv, SeenAccounted, OwnerBacked, Accounted, Held, Item
<1> QED BY <1>1, <1>2, <1>3, <1>4

\* The steps that learn something about the item, or rely on it.
LEMMA RunLearns ==
  ASSUME AllInv, Grows, NEW p \in Providers,
         \/ Resolve(p) \/ Park(p) \/ Insert(p) \/ Update(p) \/ Route(p)
  PROVE  RunInv'
<1> USE DEF AllInv, TypeInv, TypeOK
<1>1. PICK k \in Keys : k = Item(p)
  BY DEF Resolve, Park, Insert, Update, Route, At, HandInv, InHand
<1>2. k \in RowKeys /\ Content[k] \in Hashes
  BY <1>1, CatalogAssumption DEF RowKeys, Entries
<1>3. UNCHANGED <<seen, owned>>
  BY DEF Resolve, Park, Insert, Update, Route, cacheVars
<1>4. (Accounted(k) => Accounted(k)') /\ (Held(Content[k]) => Held(Content[k])')
  BY <1>2, AccountedStays
<1>5. PICK l \in {"park", "fetch", "parked", "kept", "update", "route"} : Goto(p, l)
  BY DEF Resolve, Park, Insert, Update, Route
<1>6. /\ pc'[p] = l /\ Item(p)' = k
      /\ \A q \in Providers \ {p} : pc'[q] = pc[q] /\ Item(q)' = Item(q)
  BY <1>1, <1>5, RunMoves DEF InLoop
<1>7. (l \in Known => Accounted(k)') /\ (l \in Kept => Held(Content[k])')
  <2>1. CASE Resolve(p)
    <3>1. l \in {"park", "fetch"}
      BY <1>6, <2>1 DEF Resolve, Goto, IngestTypeOK
    <3>2. l = "park" => Content[k] \in owned
      BY <1>1, <1>6, <2>1 DEF Resolve, Goto, IngestTypeOK
    <3>3. l = "park" => Held(Content[k])
      BY <3>2 DEF RunInv, OwnerBacked, Held
    <3>4. l = "park" => Accounted(k)
      BY <3>3 DEF Held, Accounted
    <3> QED BY <1>4, <3>1, <3>3, <3>4 DEF Known, Kept
  <2>2. CASE Park(p) \/ Route(p)
    <3>1. l = "parked"
      BY <1>6, <2>2 DEF Park, Route, Goto, IngestTypeOK
    <3>2. Accounted(k)
      BY <1>1, <2>2 DEF Park, Route, At, RunInv, Known
    <3> QED BY <1>4, <3>1, <3>2 DEF Kept
  <2>3. CASE Insert(p)
    <3>1. CASE InsertWins(k) /\ l = "kept"
      <4>1. Held(Content[k])'
        BY <1>2, <3>1 DEF InsertWins, DownloadedRow, Held, CatalogTypeOK
      <4> QED BY <4>1 DEF Held, Accounted
    <3>2. CASE InsertHitsKey(k) /\ l = "update"
      <4>1. Accounted(k)
        BY <3>2 DEF InsertHitsKey, Accounted
      <4> QED BY <1>4, <3>2, <4>1 DEF Kept
    <3>3. CASE InsertHitsHash(k) /\ l = "route"
      <4>1. PICK j \in RowKeys : rows[j].hash = Content[k]
        BY <3>3 DEF InsertHitsHash, HashTaken
      <4>2. j \in Keys
        BY <1>2, <4>1, CatalogAssumption DEF TableInv, HashShape, RowKeys, Entries
      <4>3. Accounted(k)
        BY <4>1, <4>2 DEF Accounted
      <4> QED BY <1>4, <3>3, <4>3 DEF Kept
    <3> QED BY <1>1, <1>6, <2>3, <3>1, <3>2, <3>3 DEF Insert, Goto, IngestTypeOK
  <2>4. CASE Update(p)
    <3>1. CASE UpdateWins(k) /\ l = "kept"
      <4>1. Held(Content[k])'
        BY <1>2, <3>1 DEF UpdateWins, DownloadedRow, Held, CatalogTypeOK
      <4> QED BY <4>1 DEF Held, Accounted
    <3>2. CASE l = "route"
      <4>1. Accounted(k)
        BY <1>1, <2>4 DEF Update, At, RunInv, Known
      <4> QED BY <1>4, <3>2, <4>1 DEF Kept
    <3> QED BY <1>1, <1>6, <2>4, <3>1, <3>2 DEF Update, Goto, IngestTypeOK
  <2> QED BY <2>1, <2>2, <2>3, <2>4
<1>8. (l \in Known => Accounted(Item(p))') /\ (l \in Kept => Held(Content[Item(p)])')
  BY <1>6, <1>7 DEF Accounted, Held
<1> QED BY <1>3, <1>6, <1>8, RunFrame

\* Marking leaves the rows alone, and marks only what the run knows.
LEMMA RunMarks ==
  ASSUME AllInv, NEW p \in Providers, ItemKept(p) \/ Mark(p) \/ MarkOwner(p)
  PROVE  RunInv'
<1> USE DEF AllInv, TypeInv, TypeOK
<1>1. UNCHANGED rows
  BY DEF ItemKept, Mark, MarkOwner, catalogVars
<1>2. (\A k \in Keys : Accounted(k)' = Accounted(k)) /\ (\A h \in Hashes : Held(h)' = Held(h))
  BY <1>1 DEF Accounted, Held
<1>3. /\ \A q \in Providers \ {p} : pc'[q] = pc[q] /\ Item(q)' = Item(q)
      /\ pc'[p] \in {"item", "owner"}
      /\ pc'[p] = "owner" => At(p, "kept") /\ Item(p)' = Item(p)
  <2>1. CASE ItemKept(p)
    <3>1. NextItem(p)
      BY <2>1 DEF ItemKept
    <3> QED BY <3>1, RunMoves
  <2>2. CASE Mark(p)
    <3>1. NextItem(p) \/ (At(p, "kept") /\ Goto(p, "owner"))
      BY <2>2 DEF Mark
    <3> QED BY <3>1, RunMoves DEF InLoop
  <2>3. CASE MarkOwner(p)
    <3>1. NextItem(p)
      BY <2>3 DEF MarkOwner
    <3> QED BY <3>1, RunMoves
  <2> QED BY <2>1, <2>2, <2>3
<1>4. \A q \in Providers : pc'[q] \in Known => pc[q] \in Known /\ Item(q)' = Item(q)
  BY <1>3 DEF Known, At
<1>5. \A q \in Providers : pc'[q] \in Kept => pc[q] \in Kept /\ Item(q)' = Item(q)
  BY <1>3 DEF Kept, At
<1>6. \A q \in Providers : pc[q] \in Known => Item(q) \in Keys
  BY DEF HandInv, Known, InHand
<1>7. \A q \in Providers : pc'[q] \in Known => (Accounted(Item(q)))'
  <2>1. ASSUME NEW q \in Providers, pc'[q] \in Known PROVE (Accounted(Item(q)))'
    <3>1. Accounted(Item(q)) /\ Item(q)' = Item(q)
      BY <1>4, <2>1 DEF RunInv
    <3> QED BY <1>1, <3>1 DEF Accounted
  <2> QED BY <2>1
<1>8. \A q \in Providers : pc'[q] \in Kept => (Held(Content[Item(q)]))'
  <2>1. ASSUME NEW q \in Providers, pc'[q] \in Kept PROVE (Held(Content[Item(q)]))'
    <3>1. Held(Content[Item(q)]) /\ Item(q)' = Item(q)
      BY <1>5, <2>1 DEF RunInv
    <3> QED BY <1>1, <3>1 DEF Held
  <2> QED BY <2>1
<1>9. SeenAccounted'
  <2>1. ASSUME NEW q \in Providers, NEW k \in seen'[q] PROVE Accounted(k)
    <3>1. CASE k \in seen[q]
      BY <3>1 DEF RunInv, SeenAccounted
    <3>2. CASE k \notin seen[q]
      <4>1. k = Item(p) /\ (ItemKept(p) \/ Mark(p))
        BY <2>1, <3>2 DEF ItemKept, Mark, MarkOwner, MarkSeen, IngestTypeOK
      <4>2. CASE ItemKept(p)
        BY <4>1, <4>2, KeptIsAccounted
      <4>3. CASE Mark(p)
        BY <4>1, <4>3 DEF Mark, At, Known, RunInv
      <4> QED BY <4>1, <4>2, <4>3
    <3> QED BY <3>1, <3>2
  <2> QED BY <1>1, <2>1 DEF SeenAccounted, Accounted
<1>10. OwnerBacked'
  <2>1. ASSUME NEW h \in owned' PROVE Held(h)
    <3>1. CASE h \in owned
      BY <3>1 DEF RunInv, OwnerBacked, Held
    <3>2. CASE h \notin owned
      BY <2>1, <3>2 DEF ItemKept, Mark, MarkOwner, MarkSeen, At, Kept, RunInv
    <3> QED BY <3>1, <3>2
  <2> QED BY <1>1, <2>1 DEF OwnerBacked, Held
<1> QED BY <1>7, <1>8, <1>9, <1>10 DEF RunInv

LEMMA RunSurroundings ==
  ASSUME AllInv, Grows, CacheFails \/ Crash \/ Operator \/ UNCHANGED vars
  PROVE  RunInv'
<1> USE DEF AllInv, TypeInv, TypeOK
<1>1. UNCHANGED <<seen, owned>>
  BY DEF CacheFails, Crash, Operator, ingestVars, vars
<1>2. \A q \in Providers : pc'[q] \in Known => pc[q] \in Known /\ Item(q)' = Item(q)
  BY DEF CacheFails, Crash, Operator, ingestVars, vars, runVars, Known, Item
<1>3. \A q \in Providers : pc[q] \in Known => Item(q) \in Keys /\ Item(q) \in RowKeys
  BY DEF HandInv, Known, InHand, RowKeys, Entries
<1>4. \A q \in Providers : pc'[q] \in Known => (Accounted(Item(q)))'
  <2>1. ASSUME NEW q \in Providers, pc'[q] \in Known PROVE (Accounted(Item(q)))'
    <3>1. PICK k \in Keys : k = Item(q) /\ k = Item(q)' /\ k \in RowKeys
      BY <1>2, <1>3, <2>1
    <3>2. Accounted(k)'
      BY <1>2, <2>1, <3>1, AccountedStays DEF RunInv
    <3> QED BY <3>1, <3>2 DEF Accounted
  <2> QED BY <2>1
<1>5. \A q \in Providers : pc'[q] \in Kept => (Held(Content[Item(q)]))'
  <2>1. ASSUME NEW q \in Providers, pc'[q] \in Kept PROVE (Held(Content[Item(q)]))'
    <3>1. pc[q] \in Kept
      BY <2>1 DEF CacheFails, Crash, Operator, ingestVars, vars, runVars, Kept
    <3>2. PICK k \in Keys : k = Item(q) /\ k = Item(q)' /\ Content[k] \in Hashes
      BY <1>2, <1>3, <2>1, CatalogAssumption DEF Known, Kept
    <3>3. Held(Content[k])'
      BY <3>1, <3>2, AccountedStays DEF RunInv
    <3> QED BY <3>2, <3>3 DEF Held
  <2> QED BY <2>1
<1>6. SeenAccounted'
  BY <1>1, AccountedStays DEF RunInv, SeenAccounted, IngestTypeOK, RowKeys, Entries
<1>7. OwnerBacked'
  <2>1. ASSUME NEW h \in owned PROVE \E j \in Keys : rows'[j].hash = h
    BY AccountedStays DEF RunInv, OwnerBacked, IngestTypeOK, Held
  <2> QED BY <1>1, <2>1 DEF OwnerBacked
<1> QED BY <1>4, <1>5, <1>6, <1>7 DEF RunInv

LEMMA RunInvStep == AllInv /\ [Next]_vars => RunInv'
<1> SUFFICES ASSUME AllInv, [Next]_vars PROVE RunInv'
  OBVIOUS
<1>1. Grows
  BY TableInvStep DEF AllInv
<1> QED BY <1>1, NextCases, RunQuiet, RunLearns, RunMarks, RunSurroundings

LEMMA AllInvHolds == Spec => []AllInv
<1>1. Init => AllInv
  BY TypeInit, TableInit, RunInvInit DEF AllInv
<1>2. AllInv /\ [Next]_vars => AllInv'
  BY TypeStep, TableInvStep, RunInvStep DEF AllInv
<1> QED BY <1>1, <1>2, PTL DEF Spec

\* The Valkey seen-set only short-cuts: a key in it is in the catalog, under its
\* own row or as bytes another row holds, whatever crashed or failed in between.
THEOREM SeenIsAccounted == Spec => []SeenAccounted
<1>1. AllInv => SeenAccounted
  BY DEF AllInv, RunInv
<1> QED BY <1>1, AllInvHolds, PTL

\* A hash Valkey calls owned is held by a row: parking an item on a hit without
\* downloading it drops no bytes.
THEOREM OwnersAreBacked == Spec => []OwnerBacked
<1>1. AllInv => OwnerBacked
  BY DEF AllInv, RunInv
<1> QED BY <1>1, AllInvHolds, PTL

------------------------------------------------------------------------------
(* Where the page of a run lies in the feed *)

\* The steps between the scheduler's lock and the end of a run, and those of a
\* run that holds a discovered page.
Running == InLoop \ Outcome
OnPage == {"item"} \cup InHand

\* Where a cursor points, and where its walk began, is in the feed.
InFeed(p, s) == s.cursor <= Len(Feed[p]) /\ s.walked <= Len(Feed[p])

\* Updates follow the offset they were asked with; the pieces of a gallery page
\* go down from its first one, which is not older than the link to the page.
Placed(p) ==
  /\ confirmed[p] <= IF Kind[p] = "updates" THEN state[p].cursor ELSE 0
  /\ InFeed(p, state[p])
  /\ InFeed(p, page[p])
  /\ pc[p] \in Running => /\ page[p].cursor = state[p].cursor
                          /\ page[p].walked = state[p].walked
  /\ pc[p] \in Running /\ page[p].request # 0 => page[p].request = page[p].cursor
  /\ Kind[p] = "updates" =>
       /\ pc[p] \in Running => page[p].request = page[p].cursor
       /\ pc[p] \in Outcome => state[p].cursor <= page[p].cursor
       /\ pc[p] \in OnPage /\ page[p].items # <<>> =>
            /\ page[p].base = page[p].cursor
            /\ page[p].base + Len(page[p].items) <= Len(Feed[p])
            /\ \A n \in 1..Len(page[p].items) : page[p].items[n] = Feed[p][page[p].base + n]
  /\ Kind[p] # "updates" /\ pc[p] \in OnPage =>
       /\ page[p].base <= Len(Feed[p])
       /\ Kind[p] = "links" => page[p].request <= page[p].base
       /\ Len(page[p].items) <= page[p].base
       /\ \A n \in 1..Len(page[p].items) : page[p].items[n] = Feed[p][page[p].base + 1 - n]

CursorInv == \A p \in Providers : Placed(p)

\* A provider a step does not touch stays placed.
LEMMA PlacedFrame ==
  ASSUME NEW q \in Providers, Placed(q),
         pc'[q] = pc[q], page'[q] = page[q], state'[q] = state[q],
         confirmed'[q] = confirmed[q]
  PROVE  Placed(q)'
BY DEF Placed, InFeed

LEMMA CursorInit == Init => CursorInv
<1> SUFFICES ASSUME Init PROVE CursorInv
  OBVIOUS
<1>1. \A p \in Providers : Len(Feed[p]) \in Nat
  BY IngestAssumption, LenProperties
<1> QED BY <1>1
  DEF Init, IngestInit, NoPage, FreshPage, CursorInv, Placed, InFeed, Running, InLoop, Outcome,
      OnPage, InHand

\* The cursor a finished page leaves.
LEMMA PageDoneBounds ==
  ASSUME TypeInv, CursorInv, NEW p \in Providers, At(p, "item")
  PROVE  /\ NextCursor(p) \in Nat
         /\ PageDone(p).cursor \in Nat /\ PageDone(p).walked \in Nat
         /\ InFeed(p, PageDone(p))
         /\ NextCursor(p) # 0 => PageDone(p).cursor = NextCursor(p)
         /\ Kind[p] = "updates" =>
              /\ state[p].cursor <= PageDone(p).cursor
              /\ PageDone(p).cursor = page[p].cursor + Len(page[p].items)
              /\ PagesAfter(p, page[p].number) = {page[p].number + 1}
              /\ HasNext(p) => PageDone(p).cursor = NextCursor(p)
<1>1. page[p] \in Page /\ state[p] \in ConnectorState
  BY DEF TypeInv, TypeOK, IngestTypeOK
<1>2. /\ Len(page[p].items) \in Nat
      /\ page[p].items = <<>> <=> Len(page[p].items) = 0
  BY <1>1, LenProperties, EmptySeq DEF Page
<1>3. Len(Feed[p]) \in Nat
  BY IngestAssumption, LenProperties
<1>4. /\ NextCursor(p) \in Nat /\ PageDone(p).cursor \in Nat /\ PageDone(p).walked \in Nat
  BY CursorType
<1>5. /\ page[p].cursor = state[p].cursor /\ page[p].walked = state[p].walked
      /\ InFeed(p, page[p]) /\ Placed(p) /\ pc[p] \in OnPage
  BY DEF CursorInv, Placed, At, Running, InLoop, Outcome, OnPage
<1>6. NextCursor(p) # 0 => PageDone(p).cursor = NextCursor(p)
  BY DEF PageDone
<1>7. CASE Kind[p] = "updates"
  <2>1. PageDone(p).walked = page[p].walked
    BY <1>7 DEF PageDone
  <2>2. page[p].items # <<>> =>
          page[p].base = page[p].cursor /\ page[p].base + Len(page[p].items) <= Len(Feed[p])
    BY <1>5, <1>7 DEF Placed
  <2>3. NextCursor(p) = IF Len(page[p].items) > 0 THEN page[p].base + Len(page[p].items) ELSE 0
    BY <1>7 DEF NextCursor
  <2>4. PageDone(p).cursor = IF NextCursor(p) # 0 THEN NextCursor(p) ELSE page[p].cursor
    BY DEF PageDone
  <2>5. PageDone(p).cursor = page[p].cursor + Len(page[p].items)
    BY <1>1, <1>2, <2>2, <2>3, <2>4 DEF Page
  <2>6. PageDone(p).cursor <= Len(Feed[p]) /\ state[p].cursor <= PageDone(p).cursor
    BY <1>1, <1>2, <1>3, <1>5, <2>2, <2>5 DEF Page, InFeed
  <2>7. PagesAfter(p, page[p].number) = {page[p].number + 1}
    BY <1>7 DEF PagesAfter
  <2>8. HasNext(p) => NextCursor(p) # 0
    BY <1>7 DEF HasNext
  <2> QED BY <1>4, <1>5, <1>6, <2>1, <2>5, <2>6, <2>7, <2>8 DEF InFeed
<1>8. CASE Kind[p] # "updates"
  <2>1. page[p].base <= Len(Feed[p])
    BY <1>5, <1>8 DEF Placed
  <2>2. NextCursor(p) <= page[p].base
    BY <1>1, <1>2, <1>8 DEF NextCursor, Page
  <2>3. /\ PageDone(p).cursor \in {NextCursor(p), page[p].cursor}
        /\ PageDone(p).walked \in {page[p].base, page[p].walked}
    BY DEF PageDone
  <2>4. InFeed(p, PageDone(p))
    BY <1>1, <1>3, <1>4, <1>5, <2>1, <2>2, <2>3 DEF InFeed, Page
  <2> QED BY <1>4, <1>6, <1>8, <2>4
<1> QED BY <1>7, <1>8

\* Steps of a run that stays on its page, or leaves it with its cursor.
LEMMA CursorFrame ==
  ASSUME TypeInv, CursorInv, NEW p \in Providers,
         UNCHANGED <<confirmed, state>>,
         \/ NextItem(p) /\ pc[p] \in OnPage
         \/ \E l \in Outcome : Goto(p, l) /\ pc[p] \in Running
         \/ \E l \in InHand : Goto(p, l) /\ pc[p] \in OnPage
         \/ Goto(p, "waiting") \/ Goto(p, "idle")
  PROVE  CursorInv'
<1>1. UNCHANGED page
  BY DEF NextItem, Goto
<1>2. pc'[p] \in Running => pc[p] \in Running
  BY DEF NextItem, Goto, TypeInv, TypeOK, IngestTypeOK, Running, InLoop, Outcome, OnPage,
         InHand
<1>3. pc'[p] \in Outcome => pc[p] \in Running
  BY DEF NextItem, Goto, TypeInv, TypeOK, IngestTypeOK, Running, InLoop, Outcome, OnPage,
         InHand
<1>4. pc'[p] \in OnPage => pc[p] \in OnPage
  BY DEF NextItem, Goto, TypeInv, TypeOK, IngestTypeOK, Outcome, OnPage, InHand
<1>5. \A q \in Providers \ {p} : pc'[q] = pc[q]
  BY DEF NextItem, Goto, TypeInv, TypeOK, IngestTypeOK
<1>6. page[p].cursor \in Nat /\ state[p].cursor \in Nat
  BY DEF TypeInv, TypeOK, IngestTypeOK, Page, ConnectorState
<1>7. Placed(p)'
  BY <1>1, <1>2, <1>3, <1>4, <1>6 DEF CursorInv, Placed, InFeed
<1>8. \A q \in Providers \ {p} : Placed(q)'
  BY <1>1, <1>5, PlacedFrame DEF CursorInv
<1> QED BY <1>7, <1>8 DEF CursorInv

\* The steps at the borders of a page.
LEMMA CursorBorders ==
  ASSUME TypeInv, CursorInv, NEW p \in Providers,
         \/ Begin(p) \/ Finish(p) \/ FinishFails(p) \/ SavePage(p) \/ SavePageFails(p)
         \/ DiscoverUpdates(p) \/ DiscoverGalleryPage(p)
  PROVE  CursorInv'
<1> USE DEF TypeInv, TypeOK, IngestTypeOK
<1>1. /\ page[p].cursor \in Nat /\ state[p].cursor \in Nat /\ confirmed[p] \in Nat
      /\ Len(Feed[p]) \in Nat
  BY IngestAssumption, LenProperties DEF Page, ConnectorState
<1>2. \A q \in Providers \ {p} : /\ pc'[q] = pc[q] /\ page'[q] = page[q]
                                 /\ state'[q] = state[q] /\ confirmed'[q] = confirmed[q]
  BY DEF Begin, Finish, FinishFails, EndRun, RunStatus, EndState, SavePage, SavePageFails,
         DiscoverUpdates, Confirm, DiscoverGalleryPage,
         Discovered, feedVars, recordVars
<1>3. \A q \in Providers \ {p} : Placed(q)'
  BY <1>2, PlacedFrame DEF CursorInv
<1>4. Placed(p)
  BY DEF CursorInv
<1>5. CASE Begin(p)
  <2>1. /\ pc'[p] = "discover" /\ page'[p].cursor = state[p].cursor
        /\ page'[p].walked = state[p].walked /\ page'[p].request = state[p].cursor
        /\ UNCHANGED <<state, confirmed>>
    BY <1>5 DEF Begin, FreshPage, feedVars
  <2>2. Placed(p)'
    BY <1>1, <1>4, <2>1 DEF Placed, InFeed, Outcome, OnPage, InHand
  <2> QED BY <1>3, <2>2 DEF CursorInv
<1>6. CASE Finish(p) \/ FinishFails(p)
  <2>1. /\ pc'[p] = "idle" /\ page'[p].cursor = 0 /\ page'[p].walked = 0
        /\ \/ state'[p].cursor = state[p].cursor /\ state'[p].walked = state[p].walked
           \/ state'[p].cursor = page[p].cursor /\ state'[p].walked = page[p].walked
        /\ Kind[p] = "updates" => state[p].cursor <= page[p].cursor
        /\ UNCHANGED confirmed
    BY <1>4, <1>6 DEF Finish, FinishFails, EndRun, RunStatus, EndState, NoPage, FreshPage,
                      feedVars, Placed
  <2>2. Placed(p)'
    BY <1>1, <1>4, <2>1 DEF Placed, InFeed, Running, InLoop, Outcome, OnPage, InHand
  <2> QED BY <1>3, <2>2 DEF CursorInv
<1>7. CASE SavePage(p)
  <2> DEFINE done == PageDone(p)
  <2>1. /\ done.cursor \in Nat /\ done.walked \in Nat /\ InFeed(p, done)
        /\ NextCursor(p) # 0 => done.cursor = NextCursor(p)
        /\ Kind[p] = "updates" => /\ state[p].cursor <= done.cursor
                                  /\ PagesAfter(p, page[p].number) = {page[p].number + 1}
                                  /\ HasNext(p) => done.cursor = NextCursor(p)
    BY <1>7, PageDoneBounds DEF SavePage
  <2>2. /\ state'[p].cursor = done.cursor /\ state'[p].walked = done.walked
        /\ UNCHANGED confirmed
    BY <1>7 DEF SavePage, feedVars
  <2>3. CASE HasNext(p)
    <3>1. PICK n \in PagesAfter(p, page[p].number) :
            page' = [page EXCEPT ![p] = NextPage(p, n)]
      BY <1>7, <2>3 DEF SavePage
    <3>2. pc'[p] = "discover"
      BY <1>7, <2>3 DEF SavePage
    <3>3. /\ page'[p].cursor = done.cursor /\ page'[p].walked = done.walked
          /\ page'[p].request = IF n = page[p].number + 1 THEN NextCursor(p) ELSE 0
      BY <3>1 DEF NextPage, FreshPage
    <3>4. Kind[p] = "updates" => n = page[p].number + 1
      BY <2>1, <3>1
    <3> HIDE DEF done
    <3>5. Placed(p)'
      BY <1>1, <1>4, <2>1, <2>2, <2>3, <3>2, <3>3, <3>4 DEF Placed, InFeed, Outcome, OnPage, InHand
    <3> QED BY <1>3, <3>5 DEF CursorInv
  <2>4. CASE ~HasNext(p)
    <3>1. /\ pc'[p] = "completed"
          /\ page'[p].cursor = done.cursor /\ page'[p].walked = done.walked
      BY <1>7, <2>4 DEF SavePage, FreshPage
    <3> HIDE DEF done
    <3>2. Placed(p)'
      BY <1>1, <1>4, <2>1, <2>2, <3>1 DEF Placed, InFeed, Running, Outcome, OnPage, InHand
    <3> QED BY <1>3, <3>2 DEF CursorInv
  <2> QED BY <2>3, <2>4
<1>8. CASE SavePageFails(p)
  <2> DEFINE done == PageDone(p)
  <2>1. /\ pc'[p] = "failed" /\ UNCHANGED <<state, confirmed>>
        /\ \/ page'[p].cursor = page[p].cursor /\ page'[p].walked = page[p].walked
           \/ page'[p].cursor = done.cursor /\ page'[p].walked = done.walked
    BY <1>8 DEF SavePageFails, FreshPage, feedVars, recordVars
  <2>2. /\ done.cursor \in Nat /\ done.walked \in Nat /\ InFeed(p, done)
        /\ Kind[p] = "updates" => state[p].cursor <= done.cursor
    BY <1>8, PageDoneBounds DEF SavePageFails
  <2>3. page[p].cursor = state[p].cursor
    BY <1>4, <1>8 DEF SavePageFails, At, Placed, Running, InLoop, Outcome
  <2> HIDE DEF done
  <2>4. Placed(p)'
    BY <1>1, <1>4, <2>1, <2>2, <2>3 DEF Placed, InFeed, Running, InLoop, Outcome, OnPage, InHand
  <2> QED BY <1>3, <2>4 DEF CursorInv
<1>9. CASE DiscoverUpdates(p)
  <2> DEFINE base == Larger(confirmed[p], page[p].request)
  <2>1. /\ page[p].cursor = state[p].cursor /\ page[p].request = page[p].cursor
        /\ Kind[p] = "updates" /\ pc[p] \in Running
    BY <1>4, <1>9 DEF DiscoverUpdates, Confirm, At, Placed, Running, InLoop, Outcome
  <2>2. base = page[p].cursor
    BY <1>1, <1>4, <2>1 DEF Larger, Placed
  <2> HIDE DEF base
  <2>3. /\ pc'[p] = "item" /\ page'[p].cursor = page[p].cursor /\ page'[p].base = base
        /\ page'[p].walked = page[p].walked /\ page'[p].request = page[p].request
        /\ page'[p].items = Updates(p, base)
    BY <1>9 DEF DiscoverUpdates, Confirm, Discovered, base, Page
  <2>4. UNCHANGED state /\ confirmed'[p] = base
    BY <1>9 DEF DiscoverUpdates, Confirm, recordVars, base
  <2>5. /\ Updates(p, base) # <<>> => base + Len(Updates(p, base)) <= published[p]
        /\ \A n \in 1..Len(Updates(p, base)) : Updates(p, base)[n] = Feed[p][base + n]
        /\ Updates(p, base) \in Seq(Entries)
    BY <1>1, <2>2, UpdatesBatch
  <2>6. published[p] \in Nat /\ published[p] <= Len(Feed[p])
    BY DEF PublishedInFeed
  <2>7. Len(Updates(p, base)) \in Nat
    BY <2>5, LenProperties
  <2>8. Updates(p, base) # <<>> => base + Len(Updates(p, base)) <= Len(Feed[p])
    BY <1>1, <2>2, <2>5, <2>6, <2>7
  <2>9. Placed(p)'
    BY <1>1, <1>4, <2>1, <2>2, <2>3, <2>4, <2>5, <2>8 DEF Placed, InFeed, Outcome
  <2> QED BY <1>3, <2>9 DEF CursorInv
<1>10. CASE DiscoverGalleryPage(p)
  <2>1. PICK first \in FirstPieces(p) : Discovered(p, first, GalleryPage(p, first))
    BY <1>10 DEF DiscoverGalleryPage
  <2>2. /\ pc'[p] = "item" /\ page'[p].cursor = page[p].cursor
        /\ page'[p].walked = page[p].walked /\ page'[p].request = page[p].request
        /\ page'[p].base = first /\ page'[p].items = GalleryPage(p, first)
    BY <2>1 DEF Discovered, Page
  <2>3. /\ UNCHANGED <<state, confirmed>> /\ Kind[p] # "updates"
        /\ pc[p] \in Running
    BY <1>10 DEF DiscoverGalleryPage, feedVars, recordVars, At, Running, InLoop, Outcome
  <2>4. first \in 0..published[p] /\ published[p] \in Nat /\ published[p] <= Len(Feed[p])
    BY FirstIsPublished DEF PublishedInFeed
  <2>5. /\ Len(GalleryPage(p, first)) <= first
        /\ \A n \in 1..Len(GalleryPage(p, first)) :
             GalleryPage(p, first)[n] = Feed[p][first + 1 - n]
    BY <2>4, GalleryBatch
  <2>6. Kind[p] = "links" => page[p].request <= first
    BY <1>1, <2>4 DEF FirstPieces, Page
  <2>7. first <= Len(Feed[p])
    BY <1>1, <2>4
  <2>8. Placed(p)'
    BY <1>1, <1>4, <2>2, <2>3, <2>5, <2>6, <2>7 DEF Placed, InFeed, Outcome
  <2> QED BY <1>3, <2>8 DEF CursorInv
<1> QED BY <1>5, <1>6, <1>7, <1>8, <1>9, <1>10

LEMMA CursorStep == TypeInv /\ CursorInv /\ [Next]_vars => CursorInv'
<1> SUFFICES ASSUME TypeInv, CursorInv, [Next]_vars PROVE CursorInv'
  OBVIOUS
<1>1. ASSUME NEW p \in Providers,
             DiscoverFails(p) \/ DiscoverBroken(p) \/ ResolveStops(p) \/ Abort(p)
      PROVE  CursorInv'
  <2>1. pc[p] \in Running
    BY <1>1 DEF DiscoverFails, DiscoverBroken, ResolveStops, Abort, HasItem, At, Running,
                InLoop, Outcome
  <2>2. PICK l \in Outcome : Goto(p, l)
    BY <1>1 DEF DiscoverFails, DiscoverBroken, ResolveStops, Abort, Outcome
  <2>3. UNCHANGED state
    BY <1>1 DEF DiscoverFails, DiscoverBroken, ResolveStops, Abort, recordVars
  <2>4. CASE UNCHANGED confirmed
    BY <2>1, <2>2, <2>3, <2>4, CursorFrame
  <2>5. CASE Confirm(p)
    <3>1. /\ page[p].cursor = state[p].cursor /\ page[p].cursor \in Nat /\ confirmed[p] \in Nat
          /\ page[p].request = page[p].cursor
      BY <2>1, <2>5 DEF Confirm, CursorInv, Placed, TypeInv, TypeOK, IngestTypeOK, Page
    <3>2. /\ confirmed'[p] <= state[p].cursor /\ Kind[p] = "updates"
          /\ \A q \in Providers \ {p} : confirmed'[q] = confirmed[q]
      BY <2>1, <2>5, <3>1 DEF Confirm, Larger, CursorInv, Placed, TypeInv, TypeOK,
                              IngestTypeOK
    <3>3. /\ UNCHANGED page /\ pc'[p] = l
          /\ \A q \in Providers \ {p} : pc'[q] = pc[q]
      BY <2>2 DEF Goto, TypeInv, TypeOK, IngestTypeOK
    <3>4. Placed(p)'
      BY <2>3, <3>1, <3>2, <3>3
      DEF CursorInv, Placed, InFeed, Running, InLoop, Outcome, OnPage, InHand
    <3>5. \A q \in Providers \ {p} : Placed(q)'
      BY <2>3, <3>2, <3>3, PlacedFrame DEF CursorInv
    <3> QED BY <3>4, <3>5 DEF CursorInv
  <2> QED BY <1>1, <2>4, <2>5 DEF DiscoverFails, DiscoverBroken, ResolveStops, Abort,
                                  feedVars
<1>2. ASSUME NEW p \in Providers,
             \/ ItemWithoutKey(p) \/ ItemSeen(p) \/ ItemKept(p) \/ RecordFailure(p)
             \/ MarkOwner(p) \/ ItemNew(p) \/ Resolve(p) \/ ResolveGone(p) \/ Park(p)
             \/ Download(p) \/ DownloadFails(p) \/ Insert(p) \/ Update(p) \/ Route(p)
             \/ Mark(p)
      PROVE  CursorInv'
  <2>1. UNCHANGED <<confirmed, state>>
    BY <1>2 DEF ItemWithoutKey, ItemSeen, ItemKept, RecordFailure, MarkOwner, ItemNew,
                Resolve, ResolveGone, Park, Download, DownloadFails, Insert, Update, Route,
                Mark, feedVars, recordVars
  <2>2. pc[p] \in OnPage
    BY <1>2 DEF ItemWithoutKey, ItemSeen, ItemKept, RecordFailure, MarkOwner, ItemNew,
                Resolve, ResolveGone, Park, Download, DownloadFails, Insert, Update, Route,
                Mark, HasItem, At, OnPage, InHand
  <2>3. NextItem(p) \/ \E l \in InHand : Goto(p, l)
    BY <1>2 DEF ItemWithoutKey, ItemSeen, ItemKept, RecordFailure, MarkOwner, ItemNew,
                Resolve, ResolveGone, Park, Download, DownloadFails, Insert, Update, Route,
                Mark, InHand
  <2> QED BY <2>1, <2>2, <2>3, CursorFrame
<1>3. ASSUME NEW p \in Providers, Tick(p) \/ BeginFails(p) PROVE CursorInv'
  BY <1>3, CursorFrame DEF Tick, BeginFails, feedVars, recordVars
<1>4. ASSUME NEW p \in Providers, Publish(p) PROVE CursorInv'
  <2>1. UNCHANGED <<confirmed, state, pc, page>>
    BY <1>4 DEF Publish, recordVars, runVars
  <2> QED BY <2>1, PlacedFrame DEF CursorInv
<1>5. CASE CacheFails \/ Operator \/ UNCHANGED vars
  <2>1. UNCHANGED <<confirmed, state, pc, page>>
    BY <1>5 DEF CacheFails, Operator, vars, ingestVars, feedVars, recordVars, runVars
  <2> QED BY <2>1, PlacedFrame DEF CursorInv
<1>6. CASE Crash
  <2>1. ASSUME NEW q \in Providers PROVE Placed(q)'
    <3>1. /\ pc'[q] = "idle" /\ page'[q].cursor = 0 /\ page'[q].walked = 0
          /\ UNCHANGED <<confirmed, state>>
      BY <1>6 DEF Crash, NoPage, FreshPage, feedVars, recordVars
    <3>2. Len(Feed[q]) \in Nat
      BY IngestAssumption, LenProperties
    <3> QED BY <3>1, <3>2 DEF CursorInv, Placed, InFeed, Running, InLoop, Outcome, OnPage, InHand
  <2> QED BY <2>1 DEF CursorInv
<1> QED BY <1>1, <1>2, <1>3, <1>4, <1>5, <1>6, CursorBorders, NextCases

\* At-least-once delivery, for every feed, page size and crash: the server is
\* never told to forget an update the durable cursor has not passed.
THEOREM ConfirmedStaysBehind == Spec => []ConfirmedBehindCursor
<1>1. Init => TypeInv /\ CursorInv
  BY TypeInit, CursorInit
<1>2. TypeInv /\ CursorInv /\ [Next]_vars => TypeInv' /\ CursorInv'
  BY TypeStep, CursorStep
<1>3. TypeInv /\ CursorInv => ConfirmedBehindCursor
  <2>1. ASSUME TypeInv, CursorInv, NEW p \in Providers PROVE confirmed[p] <= state[p].cursor
    BY <2>1 DEF CursorInv, Placed, TypeInv, TypeOK, IngestTypeOK, ConnectorState
  <2> QED BY <2>1 DEF ConfirmedBehindCursor
<1> QED BY <1>1, <1>2, <1>3, PTL DEF Spec

------------------------------------------------------------------------------
(* Accounting *)

Passed(p) ==
  /\ \A n \in Behind(p, state[p]) : Accounted(Feed[p][n])
  /\ pc[p] \in Outcome => \A n \in Behind(p, page[p]) : Accounted(Feed[p][n])
  /\ pc[p] \in OnPage =>
       /\ index[p] \in 1..(Len(page[p].items) + 1)
       /\ \A n \in 1..(index[p] - 1) : Accounted(page[p].items[n])

PassInv == \A p \in Providers : Passed(p)

FullInv == AllInv /\ CursorInv /\ PassInv

\* What a cursor has left behind depends on where it points and where its walk
\* began, and lies in the feed.
LEMMA BehindSame ==
  ASSUME NEW p, NEW s, NEW t, s.cursor = t.cursor, s.walked = t.walked
  PROVE  Behind(p, s) = Behind(p, t)
BY DEF Behind

LEMMA BehindInFeed ==
  ASSUME NEW p \in Providers, NEW s, s.cursor \in Nat, s.walked \in Nat, InFeed(p, s),
         NEW n \in Behind(p, s)
  PROVE  n \in 1..Len(Feed[p]) /\ Feed[p][n] \in RowKeys
<1>1. Feed[p] \in Seq(Entries) /\ Len(Feed[p]) \in Nat
  BY IngestAssumption, LenProperties
<1>2. n \in 1..s.cursor \/ n \in (s.cursor + 1)..s.walked
  BY DEF Behind
<1>3. n \in 1..Len(Feed[p])
  BY <1>1, <1>2 DEF InFeed
<1> QED BY <1>1, <1>3, ElementOfSeq DEF RowKeys

\* What the positions of a run are, and that feeds and pages hold row keys.
LEMMA Positions ==
  ASSUME FullInv, NEW p \in Providers
  PROVE  /\ state[p].cursor \in Nat /\ page[p].cursor \in Nat /\ index[p] \in Nat
         /\ Len(Feed[p]) \in Nat /\ Len(page[p].items) \in Nat
         /\ \A n \in Behind(p, state[p]) : Feed[p][n] \in RowKeys
         /\ \A n \in Behind(p, page[p]) : Feed[p][n] \in RowKeys
         /\ \A n \in 1..Len(page[p].items) : page[p].items[n] \in RowKeys
<1>1. /\ state[p].cursor \in Nat /\ page[p].cursor \in Nat /\ index[p] \in Nat
      /\ page[p].items \in Seq(Entries)
  BY DEF FullInv, AllInv, TypeInv, TypeOK, IngestTypeOK, ConnectorState, Page
<1>2. Len(Feed[p]) \in Nat
  BY IngestAssumption, LenProperties
<1>3. /\ InFeed(p, state[p]) /\ InFeed(p, page[p])
      /\ state[p].walked \in Nat /\ page[p].walked \in Nat
  BY DEF FullInv, CursorInv, Placed, AllInv, TypeInv, TypeOK, IngestTypeOK, ConnectorState, Page
<1>4. /\ \A n \in Behind(p, state[p]) : Feed[p][n] \in RowKeys
      /\ \A n \in Behind(p, page[p]) : Feed[p][n] \in RowKeys
  BY <1>1, <1>3, BehindInFeed
<1>5. Len(page[p].items) \in Nat /\ \A n \in 1..Len(page[p].items) : page[p].items[n] \in RowKeys
  BY <1>1, LenProperties, ElementOfSeq DEF RowKeys
<1> QED BY <1>1, <1>2, <1>3, <1>4, <1>5

\* A run that keeps its page and its position knows no less than before.
LEMMA PassFrame ==
  ASSUME FullInv, Grows, NEW q \in Providers,
         state'[q].cursor = state[q].cursor, state'[q].walked = state[q].walked,
         page'[q] = page[q], index'[q] = index[q],
         pc'[q] \in Outcome => pc[q] \in Outcome \cup Running,
         pc'[q] \in OnPage => pc[q] \in OnPage
  PROVE  Passed(q)'
<1>1. \A k \in RowKeys : Accounted(k) => Accounted(k)'
  BY AccountedStays DEF FullInv, AllInv, TypeInv, TypeOK
<1>2. Passed(q) /\ Placed(q)
  BY DEF FullInv, PassInv, CursorInv
<1>3. \A n \in Behind(q, state[q]) : Accounted(Feed[q][n])'
  BY <1>1, <1>2, Positions DEF Passed
<1>4. pc[q] \in Running => Behind(q, page[q]) = Behind(q, state[q])
  BY <1>2, BehindSame DEF Placed
<1>5. pc'[q] \in Outcome => \A n \in Behind(q, page[q]) : Accounted(Feed[q][n])'
  BY <1>1, <1>2, <1>3, <1>4, Positions DEF Passed
<1>6. Behind(q, state[q])' = Behind(q, state[q]) /\ Behind(q, page[q])' = Behind(q, page[q])
  BY DEF Behind
<1>7. pc'[q] \in OnPage =>
        /\ index[q] \in 1..(Len(page[q].items) + 1)
        /\ \A n \in 1..(index[q] - 1) : page[q].items[n] \in RowKeys /\ Accounted(page[q].items[n])
  BY <1>2, Positions DEF Passed
<1>8. ASSUME pc'[q] \in OnPage, NEW n \in 1..(index[q] - 1)
      PROVE  (Accounted(page[q].items[n]))'
  <2>1. PICK k \in RowKeys : k = page[q].items[n] /\ Accounted(k)
    BY <1>7, <1>8
  <2>2. Accounted(k)' /\ k = page'[q].items[n]
    BY <1>1, <2>1
  <2> QED BY <2>2 DEF Accounted
<1> QED BY <1>3, <1>5, <1>6, <1>7, <1>8 DEF Passed

\* Going on to the next item over one that is accounted for now.
LEMMA PassItem ==
  ASSUME FullInv, Grows, NEW p \in Providers, NEW k \in RowKeys,
         pc[p] \in OnPage, index[p] <= Len(page[p].items), k = Item(p), Accounted(k)',
         NextItem(p), UNCHANGED state
  PROVE  PassInv'
<1>1. \A j \in RowKeys : Accounted(j) => Accounted(j)'
  BY AccountedStays DEF FullInv, AllInv, TypeInv, TypeOK
<1>2. Passed(p)
  BY DEF FullInv, PassInv
<1>3. pc'[p] = "item" /\ page' = page /\ index'[p] = index[p] + 1
  BY DEF NextItem, FullInv, AllInv, TypeInv, TypeOK, IngestTypeOK
<1>4. \A n \in Behind(p, state[p]) : Accounted(Feed[p][n])'
  BY <1>1, <1>2, Positions DEF Passed
<1>5. /\ index[p] \in 1..(Len(page[p].items) + 1) /\ Len(page[p].items) \in Nat
      /\ \A n \in 1..(index[p] - 1) : page[p].items[n] \in RowKeys /\ Accounted(page[p].items[n])
  BY <1>2, Positions DEF Passed
<1>6. ASSUME NEW n \in 1..index[p] PROVE (Accounted(page[p].items[n]))'
  <2>1. PICK j \in RowKeys : j = page[p].items[n] /\ Accounted(j)'
    BY <1>1, <1>5, <1>6 DEF Item
  <2> QED BY <1>3, <2>1 DEF Accounted
<1>7. Passed(p)'
  BY <1>3, <1>4, <1>5, <1>6 DEF Passed, Outcome
<1>8. \A q \in Providers \ {p} : Passed(q)'
  <2>1. \A q \in Providers \ {p} : pc'[q] = pc[q] /\ page'[q] = page[q] /\ index'[q] = index[q]
    BY DEF NextItem, FullInv, AllInv, TypeInv, TypeOK, IngestTypeOK
  <2> QED BY <2>1, PassFrame
<1> QED BY <1>7, <1>8 DEF PassInv

\* The steps that finish an item leave it accounted for.
LEMMA PassItems ==
  ASSUME FullInv, Grows, ~DbFaults, NEW p \in Providers,
         \/ ItemWithoutKey(p) \/ ItemSeen(p) \/ ItemKept(p) \/ RecordFailure(p)
         \/ (Mark(p) /\ At(p, "parked")) \/ MarkOwner(p)
  PROVE  PassInv'
<1> USE DEF FullInv, AllInv, TypeInv, TypeOK
<1>1. NextItem(p) /\ UNCHANGED state
  BY DEF ItemWithoutKey, ItemSeen, ItemKept, RecordFailure, Mark, MarkOwner, At, recordVars
<1>2. pc[p] \in OnPage
  BY DEF ItemWithoutKey, ItemSeen, ItemKept, RecordFailure, Mark, MarkOwner, HasItem, At,
         OnPage, InHand
<1>3. index[p] \in 1..Len(page[p].items) /\ Item(p) \in RowKeys
  <2>1. CASE pc[p] \in InHand
    BY <2>1 DEF HandInv, RowKeys, Entries
  <2>2. CASE HasItem(p)
    BY <2>2, Positions DEF HandInv, HasItem, Item
  <2> QED BY <2>1, <2>2
      DEF ItemWithoutKey, ItemSeen, ItemKept, RecordFailure, Mark, MarkOwner, At, InHand
<1>4. PICK k \in RowKeys : k = Item(p)
  BY <1>3
<1>5. Accounted(k) => Accounted(k)'
  BY AccountedStays
<1>6. Accounted(k)'
  <2>1. CASE ItemWithoutKey(p) \/ RecordFailure(p)
    <3>1. RecordFailedDownload(k)
      BY <1>4, <2>1 DEF ItemWithoutKey, RecordFailure
    <3> QED BY <3>1 DEF RecordFailedDownload, Accounted, CatalogTypeOK, Row
  <2>2. CASE ItemSeen(p)
    <3>1. Accounted(k)
      BY <1>4, <2>2 DEF ItemSeen, IsSeen, RunInv, SeenAccounted
    <3> QED BY <1>5, <3>1
  <2>3. CASE ItemKept(p)
    <3>1. Accounted(k)
      BY <1>4, <2>3, KeptIsAccounted
    <3> QED BY <1>5, <3>1
  <2>4. CASE (Mark(p) /\ At(p, "parked")) \/ MarkOwner(p)
    <3>1. Accounted(k)
      BY <1>4, <2>4 DEF MarkOwner, At, RunInv, Known
    <3> QED BY <1>5, <3>1
  <2> QED BY <2>1, <2>2, <2>3, <2>4
<1> QED BY <1>1, <1>2, <1>3, <1>4, <1>6, PassItem

\* What the cursor of a finished page has left behind is in the feed...
LEMMA PageDoneInFeed ==
  ASSUME FullInv, NEW p \in Providers, At(p, "item")
  PROVE  \A n \in Behind(p, PageDone(p)) : Feed[p][n] \in RowKeys
BY PageDoneBounds, BehindInFeed DEF FullInv, AllInv

\* ... and accounted for: it was behind the last cursor, or it is on the page.
LEMMA PageDoneAccounted ==
  ASSUME FullInv, NEW p \in Providers, At(p, "item"), index[p] > Len(page[p].items)
  PROVE  \A n \in Behind(p, PageDone(p)) : Accounted(Feed[p][n])
<1> DEFINE done == PageDone(p)
<1> DEFINE read == Len(page[p].items)
<1>1. pc[p] \in OnPage /\ pc[p] \in Running
  BY DEF At, OnPage, Running, InLoop, Outcome
<1>2. Passed(p) /\ Placed(p)
  BY DEF FullInv, PassInv, CursorInv
<1>3. /\ read \in Nat /\ index[p] \in Nat /\ page[p].cursor \in Nat /\ page[p].walked \in Nat
      /\ page[p].base \in Nat /\ page[p].request \in Nat
      /\ page[p].items = <<>> <=> read = 0
  BY Positions, EmptySeq DEF FullInv, AllInv, TypeInv, TypeOK, IngestTypeOK, Page
<1>4. \A n \in 1..read : Accounted(page[p].items[n])
  <2>1. index[p] = read + 1
    BY <1>1, <1>2, <1>3 DEF Passed
  <2>2. index[p] - 1 = read
    BY <1>3, <2>1
  <2> QED BY <1>1, <1>2, <2>2 DEF Passed
<1>5. \A n \in Behind(p, page[p]) : Accounted(Feed[p][n])
  <2>1. page[p].cursor = state[p].cursor /\ page[p].walked = state[p].walked
    BY <1>1, <1>2 DEF Placed
  <2> QED BY <1>2, <2>1, BehindSame DEF Passed
<1>6. CASE Kind[p] = "updates"
  <2>1. done.cursor = page[p].cursor + read
    BY <1>6, PageDoneBounds DEF FullInv, AllInv
  <2>2. Behind(p, done) = 1..done.cursor /\ Behind(p, page[p]) = 1..page[p].cursor
    BY <1>6 DEF Behind
  <2>3. read > 0 => \A m \in 1..read : page[p].items[m] = Feed[p][page[p].cursor + m]
    BY <1>1, <1>2, <1>3, <1>6 DEF Placed
  <2> HIDE DEF read
  <2>4. ASSUME NEW n \in (page[p].cursor + 1)..done.cursor PROVE Accounted(Feed[p][n])
    <3>1. PICK m \in 1..read : n = page[p].cursor + m
      <4>1. n - page[p].cursor \in 1..read /\ n = page[p].cursor + (n - page[p].cursor)
        BY <1>3, <2>1, <2>4
      <4> QED BY <4>1
    <3>2. Feed[p][n] = page[p].items[m]
      BY <1>3, <2>3, <3>1
    <3> QED BY <1>4, <3>1, <3>2
  <2> QED BY <1>3, <1>5, <2>1, <2>2, <2>4
<1>7. CASE Kind[p] = "links" /\ NextCursor(p) # 0
  <2>1. NextCursor(p) = page[p].base - read /\ read < page[p].base
    BY <1>7 DEF NextCursor
  <2>2. /\ done.cursor = page[p].base - read
        /\ done.walked = IF page[p].request = 0 THEN page[p].base ELSE page[p].walked
    BY <1>7, <2>1 DEF PageDone
  <2>3. Behind(p, done) = (done.cursor + 1)..done.walked
    BY <1>3, <1>7, <2>1, <2>2 DEF Behind
  <2>4. \A m \in 1..read : page[p].items[m] = Feed[p][page[p].base + 1 - m]
    BY <1>1, <1>2, <1>7 DEF Placed
  <2> HIDE DEF read
  <2>5. ASSUME NEW n \in (page[p].base - read + 1)..page[p].base PROVE Accounted(Feed[p][n])
    <3>1. PICK m \in 1..read : n = page[p].base + 1 - m
      <4>1. \A b, r \in Nat : \A i \in (b - r + 1)..b :
              b + 1 - i \in 1..r /\ i = b + 1 - (b + 1 - i)
        OBVIOUS
      <4>2. /\ page[p].base + 1 - n \in 1..read
            /\ n = page[p].base + 1 - (page[p].base + 1 - n)
        BY <1>3, <2>5, <4>1
      <4> QED BY <4>2
    <3>2. Feed[p][n] = page[p].items[m]
      BY <2>4, <3>1
    <3> QED BY <1>4, <3>1, <3>2
  <2>6. CASE page[p].request = 0
    BY <2>2, <2>3, <2>5, <2>6
  <2>7. CASE page[p].request # 0
    <3>1. page[p].request = page[p].cursor /\ page[p].request <= page[p].base
      BY <1>1, <1>2, <1>7, <2>7 DEF Placed
    <3>2. Behind(p, page[p]) = (page[p].cursor + 1)..page[p].walked
      BY <1>7, <2>7, <3>1 DEF Behind
    <3>3. \A n \in (page[p].cursor + 1)..page[p].walked : Accounted(Feed[p][n])
      BY <1>5, <3>2
    <3>4. done.cursor = page[p].base - read /\ done.walked = page[p].walked
      BY <2>2, <2>7
    <3>5. ASSUME NEW n \in (done.cursor + 1)..done.walked PROVE Accounted(Feed[p][n])
      <4>1. \/ n \in (page[p].base - read + 1)..page[p].base
            \/ n \in (page[p].cursor + 1)..page[p].walked
        BY <1>3, <2>1, <3>1, <3>4, <3>5
      <4> QED BY <2>5, <3>3, <4>1
    <3> QED BY <2>3, <3>5
  <2> QED BY <2>6, <2>7
<1>8. CASE Kind[p] # "updates" /\ NextCursor(p) = 0
  <2>1. Behind(p, done) = Behind(p, page[p])
    BY <1>8 DEF PageDone, Behind
  <2> QED BY <1>5, <2>1
<1>9. CASE Kind[p] # "updates" /\ Kind[p] # "links"
  BY <1>9 DEF Behind
<1> QED BY <1>6, <1>7, <1>8, <1>9

\* The steps that move a run's cursor or open a page.
LEMMA PassBorders ==
  ASSUME FullInv, Grows, NEW p \in Providers,
         \/ Begin(p) \/ Finish(p) \/ FinishFails(p) \/ SavePage(p) \/ SavePageFails(p)
         \/ DiscoverUpdates(p) \/ DiscoverGalleryPage(p)
  PROVE  PassInv'
<1> USE DEF FullInv, AllInv, TypeInv, TypeOK, IngestTypeOK
<1>1. \A q \in Providers \ {p} : /\ pc'[q] = pc[q] /\ page'[q] = page[q]
                                 /\ index'[q] = index[q] /\ state'[q] = state[q]
  BY DEF Begin, Finish, FinishFails, EndRun, RunStatus, EndState, SavePage, SavePageFails,
         DiscoverUpdates, Confirm, DiscoverGalleryPage,
         Discovered, recordVars
<1>2. \A q \in Providers \ {p} : Passed(q)'
  BY <1>1, PassFrame
<1>3. \A k \in RowKeys : Accounted(k) => Accounted(k)'
  BY AccountedStays
<1>4. Passed(p) /\ Placed(p)
  BY DEF PassInv, CursorInv
<1>5. \A n \in Behind(p, state[p]) : Accounted(Feed[p][n])'
  BY <1>3, <1>4, Positions DEF Passed
<1>6. CASE Begin(p)
  <2>1. pc'[p] = "discover" /\ UNCHANGED state
    BY <1>6 DEF Begin
  <2>2. Passed(p)'
    BY <1>5, <2>1 DEF Passed, Outcome, OnPage, InHand
  <2> QED BY <1>2, <2>2 DEF PassInv
<1>7. CASE Finish(p) \/ FinishFails(p)
  <2>1. EndRun(p)
    BY <1>7 DEF Finish, FinishFails
  <2>2. pc[p] \in Outcome /\ pc'[p] = "idle"
    BY <2>1 DEF EndRun
  <2>3. state' = [state EXCEPT ![p] = EndState(p)] \/ UNCHANGED state
    BY <1>7 DEF Finish, FinishFails
  <2>4. Behind(p, state[p])' \in {Behind(p, state[p]), Behind(p, page[p])}
    BY <2>3 DEF EndState, Behind
  <2>5. \A n \in Behind(p, page[p]) : Accounted(Feed[p][n])'
    <3>1. \A n \in Behind(p, page[p]) : Accounted(Feed[p][n])
      BY <1>4, <2>2 DEF Passed
    <3>2. \A n \in Behind(p, page[p]) : Feed[p][n] \in RowKeys
      BY Positions
    <3> QED BY <1>3, <3>1, <3>2
  <2>6. Passed(p)'
    BY <1>5, <2>2, <2>4, <2>5 DEF Passed, Outcome, OnPage, InHand
  <2> QED BY <1>2, <2>6 DEF PassInv
<1>8. ASSUME At(p, "item"), index[p] > Len(page[p].items)
      PROVE  \A n \in Behind(p, PageDone(p)) : Accounted(Feed[p][n])'
  BY <1>3, <1>8, PageDoneAccounted, PageDoneInFeed
<1>9. CASE SavePage(p)
  <2>1. /\ pc'[p] \in {"discover", "completed"}
        /\ state'[p].cursor = PageDone(p).cursor /\ state'[p].walked = PageDone(p).walked
        /\ page'[p].cursor = PageDone(p).cursor /\ page'[p].walked = PageDone(p).walked
    BY <1>9 DEF SavePage, NextPage, FreshPage
  <2>2. \A n \in Behind(p, PageDone(p)) : Accounted(Feed[p][n])'
    BY <1>8, <1>9 DEF SavePage
  <2>3. /\ Behind(p, state[p])' = Behind(p, PageDone(p))
        /\ Behind(p, page[p])' = Behind(p, PageDone(p))
    BY <2>1 DEF Behind
  <2>4. Passed(p)'
    BY <2>1, <2>2, <2>3 DEF Passed, OnPage, InHand
  <2> QED BY <1>2, <2>4 DEF PassInv
<1>10. CASE SavePageFails(p)
  <2>1. /\ pc'[p] = "failed" /\ UNCHANGED state
        /\ \/ page'[p].cursor = page[p].cursor /\ page'[p].walked = page[p].walked
           \/ page'[p].cursor = PageDone(p).cursor /\ page'[p].walked = PageDone(p).walked
    BY <1>10 DEF SavePageFails, FreshPage, recordVars
  <2>2. \A n \in Behind(p, PageDone(p)) : Accounted(Feed[p][n])'
    BY <1>8, <1>10 DEF SavePageFails
  <2>3. page[p].cursor = state[p].cursor /\ page[p].walked = state[p].walked
    BY <1>4, <1>10 DEF SavePageFails, At, Placed, Running, InLoop, Outcome
  <2>4. /\ Behind(p, state[p])' = Behind(p, state[p])
        /\ Behind(p, page[p])' \in {Behind(p, state[p]), Behind(p, PageDone(p))}
    BY <2>1, <2>3 DEF Behind
  <2>5. Passed(p)'
    BY <1>5, <2>1, <2>2, <2>4 DEF Passed, OnPage, InHand
  <2> QED BY <1>2, <2>5 DEF PassInv
<1>11. CASE DiscoverUpdates(p) \/ DiscoverGalleryPage(p)
  <2>1. /\ pc'[p] = "item" /\ index'[p] = 1 /\ UNCHANGED state
    BY <1>11 DEF DiscoverUpdates, Confirm, DiscoverGalleryPage, Discovered, recordVars
  <2>2. page' \in [Providers -> Page]
    BY <1>11, DiscoveryTypes DEF TypeInv
  <2>3. Len(page'[p].items) \in Nat
    BY <2>2, LenProperties DEF Page
  <2>4. Passed(p)'
    BY <1>5, <2>1, <2>3 DEF Passed, Outcome
  <2> QED BY <1>2, <2>4 DEF PassInv
<1> QED BY <1>6, <1>7, <1>9, <1>10, <1>11

LEMMA PassStep == ~DbFaults /\ FullInv /\ [Next]_vars => PassInv'
<1> SUFFICES ASSUME ~DbFaults, FullInv, [Next]_vars PROVE PassInv'
  OBVIOUS
<1> USE DEF FullInv
<1>1. Grows
  BY TableInvStep DEF AllInv
<1>2. ASSUME NEW p \in Providers,
             \/ Tick(p) \/ BeginFails(p) \/ DiscoverFails(p) \/ DiscoverBroken(p)
             \/ ItemNew(p) \/ Resolve(p)
             \/ ResolveGone(p) \/ ResolveStops(p) \/ Park(p) \/ Download(p)
             \/ DownloadFails(p) \/ Insert(p) \/ Update(p) \/ Route(p) \/ Abort(p)
             \/ (Mark(p) /\ At(p, "kept"))
      PROVE  PassInv'
  <2>1. PICK l \in {"idle", "waiting"} \cup InLoop :
          /\ Goto(p, l)
          /\ l \in Outcome => pc[p] \in Running
          /\ l \in OnPage => pc[p] \in OnPage
    <3>1. CASE \/ Tick(p) \/ BeginFails(p) \/ DiscoverFails(p) \/ DiscoverBroken(p)
               \/ ResolveStops(p) \/ Abort(p)
      BY <3>1 DEF Tick, BeginFails, DiscoverFails, Confirm, DiscoverBroken, ResolveStops,
                  Abort, HasItem, At,
                  Outcome, Running, InLoop, OnPage, InHand
    <3>2. CASE \/ ItemNew(p) \/ Resolve(p) \/ ResolveGone(p) \/ Park(p) \/ Download(p)
               \/ DownloadFails(p) \/ Insert(p) \/ Update(p) \/ Route(p)
      BY <3>2 DEF ItemNew, Resolve, ResolveGone, Park, Download, DownloadFails, Insert,
                  Update, Route, HasItem, At, Outcome, InLoop, OnPage, InHand
    <3>3. CASE Mark(p) /\ At(p, "kept")
      BY <3>3 DEF Mark, At, Outcome, InLoop, OnPage, InHand
    <3> QED BY <1>2, <3>1, <3>2, <3>3
  <2>2. UNCHANGED <<state, page, index>>
    BY <1>2, <2>1 DEF Goto, Tick, BeginFails, DiscoverFails, Confirm, DiscoverBroken,
                      ItemNew, Resolve,
                      ResolveGone, ResolveStops, Park, Download, DownloadFails, Insert,
                      Update, Route, Abort, Mark, recordVars
  <2>3. pc'[p] = l /\ \A q \in Providers \ {p} : pc'[q] = pc[q]
    BY <2>1 DEF Goto, AllInv, TypeInv, TypeOK, IngestTypeOK
  <2>4. \A q \in Providers : Passed(q)'
    BY <1>1, <2>1, <2>2, <2>3, PassFrame
  <2> QED BY <2>4 DEF PassInv
<1>3. ASSUME NEW p \in Providers, Publish(p) PROVE PassInv'
  <2>1. UNCHANGED <<state, page, index, pc>>
    BY <1>3 DEF Publish, recordVars, runVars
  <2> QED BY <1>1, <2>1, PassFrame DEF PassInv
<1>4. CASE CacheFails \/ Operator \/ UNCHANGED vars
  <2>1. UNCHANGED <<state, page, index, pc>>
    BY <1>4 DEF CacheFails, Operator, vars, ingestVars, recordVars, runVars
  <2> QED BY <1>1, <2>1, PassFrame DEF PassInv
<1>5. CASE Crash
  <2>1. \A k \in RowKeys : Accounted(k) => Accounted(k)'
    BY <1>1, AccountedStays DEF AllInv, TypeInv, TypeOK
  <2>2. ASSUME NEW q \in Providers PROVE Passed(q)'
    <3>1. pc'[q] = "idle" /\ UNCHANGED state
      BY <1>5 DEF Crash, recordVars
    <3>2. \A n \in Behind(q, state[q]) : Accounted(Feed[q][n])'
      BY <2>1, Positions DEF PassInv, Passed
    <3>3. Behind(q, state[q])' = Behind(q, state[q])
      BY <3>1 DEF Behind
    <3> QED BY <3>1, <3>2, <3>3 DEF Passed, Outcome, OnPage, InHand
  <2> QED BY <2>2 DEF PassInv
<1>6. ASSUME NEW p \in Providers, Mark(p) PROVE At(p, "kept") \/ At(p, "parked")
  BY <1>6 DEF Mark
<1> QED BY <1>1, <1>2, <1>3, <1>4, <1>5, <1>6, PassItems, PassBorders, NextCases

LEMMA FullInvHolds == ~DbFaults => (Spec => []FullInv)
<1> SUFFICES ASSUME ~DbFaults PROVE Spec => []FullInv
  OBVIOUS
<1>1. Init => FullInv
  <2>1. Init => PassInv
    BY DEF Init, IngestInit, PassInv, Passed, Behind, Outcome, OnPage, InHand
  <2> QED BY <2>1, TypeInit, TableInit, RunInvInit, CursorInit DEF FullInv, AllInv
<1>2. FullInv /\ [Next]_vars => FullInv'
  BY TypeStep, TableInvStep, RunInvStep, CursorStep, PassStep DEF FullInv, AllInv
<1> QED BY <1>1, <1>2, PTL DEF Spec

\* What the durable cursor has left behind is in the catalog, be it an offset of
\* updates or the link to a gallery page: for every feed, page size, restriction of
\* pages, crash, retry and operator, as long as the failed row of a failed download
\* is written (its error is only logged in the code).
THEOREM PassedAreAccounted == ~DbFaults => (Spec => []PassedItemsAccounted)
<1> SUFFICES ASSUME ~DbFaults PROVE Spec => []PassedItemsAccounted
  OBVIOUS
<1>1. FullInv => PassedItemsAccounted
  BY DEF FullInv, PassInv, Passed, PassedItemsAccounted
<1> QED BY <1>1, FullInvHolds, PTL

==============================================================================
