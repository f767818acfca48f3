---------------------------- MODULE IngestProofs -----------------------------
(***************************************************************************)
(* Theorems about Ingest, for every feed, every set of keys and providers  *)
(* and every page size.  The argument is layered: the types of the state   *)
(* and the item in hand (TypeInv) here; what the rows and the runs in      *)
(* flight know of each other, and where a cursor lies in its feed, in      *)
(* AccountingProofs; what is kept and decided, in KeepingProofs.           *)
(***************************************************************************)
EXTENDS Ingest, SequenceTheorems, TLAPS

------------------------------------------------------------------------------
(* Pages *)

PublishedInFeed == \A p \in Providers : published[p] <= Len(Feed[p])

\* A batch of updates is what follows the offset in the feed, and no more than
\* has been published (the reply of getUpdates).
LEMMA UpdatesBatch ==
  ASSUME NEW p \in Providers, NEW base \in Nat, IngestTypeOK, PublishedInFeed
  PROVE  /\ Updates(p, base) \in Seq(Entries)
         /\ Updates(p, base) # <<>> => base + Len(Updates(p, base)) <= published[p]
         /\ \A n \in 1..Len(Updates(p, base)) : Updates(p, base)[n] = Feed[p][base + n]
<1> DEFINE size == IF base < published[p] THEN Smaller(PageSize, published[p] - base) ELSE 0
<1> DEFINE b == [n \in 1..size |-> Feed[p][base + n]]
<1>1. /\ published[p] \in Nat
      /\ published[p] <= Len(Feed[p])
      /\ Feed[p] \in Seq(Entries)
      /\ PageSize \in Nat \ {0}
  BY IngestAssumption DEF IngestTypeOK, PublishedInFeed
<1>2. size \in Nat /\ (size > 0 => base + size <= published[p])
  BY <1>1 DEF Smaller
<1>3. Len(Feed[p]) \in Nat /\ \A n \in 1..Len(Feed[p]) : Feed[p][n] \in Entries
  BY <1>1, LenProperties, ElementOfSeq
<1>4. \A n \in 1..size : base + n \in 1..Len(Feed[p])
  BY <1>1, <1>2, <1>3
<1> HIDE DEF size
<1>5. b \in [1..size -> Entries]
  BY <1>3, <1>4
<1>6. b \in Seq(Entries)
  BY <1>2, <1>5, SeqDef
<1>7. Len(b) = size
  BY <1>2, <1>5, <1>6, LenProperties
<1>8. Updates(p, base) = b
  BY DEF Updates, size
<1>9. b # <<>> => size > 0
  BY <1>2, <1>6, <1>7, EmptySeq
<1> QED BY <1>2, <1>6, <1>7, <1>8, <1>9

\* A gallery page begins with a piece that is published.
LEMMA FirstIsPublished ==
  ASSUME IngestTypeOK, NEW p \in Providers, NEW first \in FirstPieces(p)
  PROVE  first \in 0..published[p]
<1> DEFINE skip == (page[p].number - 1) * PageSize
<1>1. /\ published[p] \in Nat /\ page[p].number \in Nat \ {0} /\ page[p].request \in Nat
      /\ PageSize \in Nat \ {0}
  BY IngestAssumption DEF IngestTypeOK, Page
<1>2. \A m, n \in Nat : m * n \in Nat
  OBVIOUS
<1>3. page[p].number - 1 \in Nat
  BY <1>1
<1>4. skip \in Nat
  BY <1>1, <1>2, <1>3
<1> HIDE DEF skip
<1>5. \/ first = IF skip < published[p] THEN published[p] - skip ELSE 0
      \/ first \in page[p].request..published[p]
      \/ first = published[p]
  BY DEF FirstPieces, skip
<1> QED BY <1>1, <1>4, <1>5

\* A gallery page holds the pieces of the feed from its first one down.
LEMMA GalleryBatch ==
  ASSUME NEW p \in Providers, IngestTypeOK, PublishedInFeed, NEW first \in 0..published[p]
  PROVE  /\ GalleryPage(p, first) \in Seq(Entries)
         /\ Len(GalleryPage(p, first)) <= first
         /\ \A n \in 1..Len(GalleryPage(p, first)) :
              GalleryPage(p, first)[n] = Feed[p][first + 1 - n]
<1> DEFINE size == Smaller(PageSize, first)
<1>1. /\ published[p] \in Nat
      /\ published[p] <= Len(Feed[p])
      /\ Feed[p] \in Seq(Entries)
      /\ PageSize \in Nat \ {0}
  BY IngestAssumption DEF IngestTypeOK, PublishedInFeed
<1>2. Len(Feed[p]) \in Nat /\ \A n \in 1..Len(Feed[p]) : Feed[p][n] \in Entries
  BY <1>1, LenProperties, ElementOfSeq
<1>3. size \in Nat /\ size <= first
  BY <1>1 DEF Smaller
<1>4. \A n \in 1..size : first + 1 - n \in 1..Len(Feed[p])
  BY <1>1, <1>2, <1>3
<1> HIDE DEF size
<1> DEFINE b == [n \in 1..size |-> Feed[p][first + 1 - n]]
<1>5. b \in [1..size -> Entries]
  BY <1>2, <1>4
<1>6. b \in Seq(Entries)
  BY <1>3, <1>5, SeqDef
<1>7. Len(b) = size
  BY <1>3, <1>5, <1>6, LenProperties
<1>8. GalleryPage(p, first) = b
  BY DEF GalleryPage, size
<1> QED BY <1>3, <1>6, <1>7, <1>8

------------------------------------------------------------------------------
(* Types *)

\* An item in hand: the steps from IsMediaAlreadyKept to MarkDedupeHash.
InHand == {"resolve", "park", "gone", "fetch", "insert", "update", "route",
           "fail", "parked", "kept", "owner"}

HandInv ==
  \A p \in Providers :
    /\ At(p, "item") => index[p] >= 1
    /\ pc[p] \in InHand => index[p] \in 1..Len(page[p].items) /\ Item(p) \in Keys

TypeInv == TypeOK /\ PublishedInFeed /\ HandInv

LEMMA TypeInit == Init => TypeInv
<1> SUFFICES ASSUME Init PROVE TypeInv
  OBVIOUS
<1>1. CatalogTypeOK
  BY CatalogAssumption
  DEF Init, CatalogInit, CatalogTypeOK, RowKeys, Entries, Row, RowStatus, NoRow, InboxRow,
      NoInboxRow, ActiveInbox, ResolvedInbox
<1>2. NoPage \in Page
  BY EmptySeq DEF NoPage, FreshPage, Page
<1>3. IngestTypeOK
  BY <1>2, IngestAssumption
  DEF Init, IngestInit, IngestTypeOK, ConnectorState
<1>4. PublishedInFeed
  BY IngestAssumption, LenProperties DEF Init, IngestInit, PublishedInFeed
<1>5. HandInv
  BY DEF Init, IngestInit, HandInv, At, InHand
<1> QED BY <1>1, <1>3, <1>4, <1>5 DEF TypeInv, TypeOK

\* The catalog operations keep the tables well typed.
LEMMA CatalogTypes ==
  ASSUME CatalogTypeOK, NEW k \in RowKeys
  PROVE  /\ k \in Keys /\ InsertWins(k) => CatalogTypeOK'
         /\ k \in Keys /\ UpdateWins(k) => CatalogTypeOK'
         /\ RecordFailedDownload(k) => CatalogTypeOK'
         /\ ResetPhotoStatus(k) => CatalogTypeOK'
         /\ k \in Entries /\ ResolveInboxItem(k) => CatalogTypeOK'
         /\ k \in Entries /\ MoveInboxItem(k) => CatalogTypeOK'
         /\ k \in Entries /\ DeleteInboxItem(k) => CatalogTypeOK'
         /\ UNCHANGED catalogVars => CatalogTypeOK'
<1> USE CatalogAssumption DEF CatalogTypeOK, RowKeys, Entries, Row, RowStatus, InboxRow, ActiveInbox,
                              ResolvedInbox
<1>1. k \in Keys => DownloadedRow(k) \in Row
  BY DEF DownloadedRow
<1>2. k \in Keys /\ InsertWins(k) => CatalogTypeOK'
  BY <1>1 DEF InsertWins
<1>3. k \in Keys /\ UpdateWins(k) => CatalogTypeOK'
  BY <1>1 DEF UpdateWins
<1>4. RecordFailedDownload(k) => CatalogTypeOK'
  BY DEF RecordFailedDownload
<1>5. ResetPhotoStatus(k) => CatalogTypeOK'
  BY DEF ResetPhotoStatus
<1>6. k \in Entries /\ ResolveInboxItem(k) => CatalogTypeOK'
  BY DEF ResolveInboxItem
<1>7. k \in Entries /\ MoveInboxItem(k) => CatalogTypeOK'
  BY DEF MoveInboxItem
<1>8. k \in Entries /\ DeleteInboxItem(k) => CatalogTypeOK'
  BY DEF DeleteInboxItem, NoInboxRow
<1>9. UNCHANGED catalogVars => CatalogTypeOK'
  BY DEF catalogVars
<1> QED BY <1>2, <1>3, <1>4, <1>5, <1>6, <1>7, <1>8, <1>9

LEMMA InboxTypes ==
  ASSUME CatalogTypeOK, NEW k \in Entries, NEW s \in ActiveInbox,
         NEW h \in Hashes \cup {NoHash}, RecordInboxException(k, s, h)
  PROVE  CatalogTypeOK'
BY DEF CatalogTypeOK, RecordInboxException, InboxRow, ActiveInbox, ResolvedInbox

LEMMA OperatorTypes ==
  ASSUME CatalogTypeOK, OperatorAct
  PROVE  CatalogTypeOK'
<1>1. ASSUME NEW k \in Retried, ResetPhotoStatus(k)
      PROVE  CatalogTypeOK'
  BY <1>1, CatalogTypes, CatalogAssumption
<1>2. ASSUME NEW k \in Handled, ResolveInboxItem(k) \/ MoveInboxItem(k)
  \/ DeleteInboxItem(k)
      PROVE  CatalogTypeOK'
  BY <1>2, CatalogTypes, CatalogAssumption DEF RowKeys
<1> QED BY <1>1, <1>2 DEF OperatorAct

\* Moving to a step in hand, to the next item and to the end of a run keep the
\* item in hand within its page.
LEMMA MoveTypes ==
  ASSUME TypeInv, NEW p \in Providers
  PROVE  /\ \A l \in {"idle", "waiting"} \cup Outcome : Goto(p, l) => HandInv'
         /\ \A l \in InHand : pc[p] \in InHand /\ Goto(p, l) => HandInv'
         /\ At(p, "item") \/ pc[p] \in InHand => (NextItem(p) => HandInv')
<1> USE DEF TypeInv, TypeOK, IngestTypeOK, HandInv, At, Item
<1>1. ASSUME NEW l \in {"idle", "waiting"} \cup Outcome, Goto(p, l) PROVE HandInv'
  BY <1>1 DEF Goto, InHand, Outcome
<1>2. ASSUME NEW l \in InHand, pc[p] \in InHand, Goto(p, l) PROVE HandInv'
  BY <1>2 DEF Goto, InHand
<1>3. ASSUME At(p, "item") \/ pc[p] \in InHand, NextItem(p) PROVE HandInv'
  BY <1>3 DEF NextItem, InHand
<1> QED BY <1>1, <1>2, <1>3

\* A run's own moves keep the types of its locals.
LEMMA LocalTypes ==
  ASSUME TypeInv, NEW p \in Providers
  PROVE  LET LocalsOK == /\ pc \in [Providers -> {"idle", "waiting"} \cup InLoop]
                         /\ page \in [Providers -> Page]
                         /\ index \in [Providers -> Nat]
         IN  /\ \A l \in {"idle", "waiting"} \cup InLoop : Goto(p, l) => LocalsOK'
             /\ NextItem(p) => LocalsOK'
BY DEF TypeInv, TypeOK, IngestTypeOK, Goto, NextItem, InLoop

\* Most steps of a run change the catalog and the run's locals only.
LEMMA TypeFrame ==
  ASSUME TypeInv, CatalogTypeOK', HandInv',
         UNCHANGED <<feedVars, recordVars, cacheVars, extractionMu>>,
         NEW p \in Providers,
         NextItem(p) \/ \E l \in {"idle", "waiting"} \cup InLoop : Goto(p, l)
  PROVE  TypeInv'
<1>1. UNCHANGED <<published, confirmed, state, lastRun, seen, owned, passthrough, extractionMu>>
  BY DEF feedVars, recordVars, cacheVars
<1>2. PublishedInFeed'
  BY <1>1 DEF PublishedInFeed, TypeInv
<1>3. IngestTypeOK'
  BY <1>1, LocalTypes DEF IngestTypeOK, TypeInv, TypeOK
<1> QED BY <1>2, <1>3 DEF TypeInv, TypeOK

LEMMA SchedulerTypes ==
  ASSUME TypeInv, NEW p \in Providers,
         Tick(p) \/ BeginFails(p) \/ Begin(p) \/ Finish(p) \/ FinishFails(p) \/ Publish(p)
  PROVE  TypeInv'
<1> USE IngestAssumption
    DEF TypeInv, TypeOK, IngestTypeOK, CatalogTypeOK, catalogVars, feedVars,
        recordVars, cacheVars, runVars
<1>1. CASE Tick(p) \/ BeginFails(p)
  <2>1. CatalogTypeOK' /\ HandInv'
    BY <1>1, MoveTypes DEF Tick, BeginFails
  <2> QED BY <1>1, <2>1, TypeFrame DEF Tick, BeginFails
<1>2. CASE Begin(p)
  <2>1. PICK n \in PagesAfter(p, 0) :
          page' = [page EXCEPT ![p] = FreshPage(n, state[p].cursor, state[p])]
    BY <1>2 DEF Begin
  <2>2. n \in Nat \ {0}
    BY DEF PagesAfter
  <2>3. FreshPage(n, state[p].cursor, state[p]) \in Page
    BY <2>2, EmptySeq DEF FreshPage, Page, ConnectorState
  <2>4. IngestTypeOK'
    BY <1>2, <2>1, <2>3 DEF Begin, InLoop
  <2>5. HandInv'
    BY <1>2, <2>1 DEF Begin, HandInv, At, InHand, Item
  <2> QED BY <1>2, <2>4, <2>5 DEF Begin, PublishedInFeed
<1>3. CASE Finish(p) \/ FinishFails(p)
  <2>1. NoPage \in Page
    BY EmptySeq DEF NoPage, FreshPage, Page
  <2>2. EndRun(p)
    BY <1>3 DEF Finish, FinishFails
  <2>3. RunStatus(p) \in {"completed", "failed"} /\ EndState(p) \in ConnectorState
    BY <2>2 DEF EndRun, RunStatus, EndState, ConnectorState, Page
  <2>4. lastRun' \in [Providers -> {"none", "running", "completed", "failed"}]
    BY <1>3, <2>3 DEF Finish, FinishFails
  <2>5. state' \in [Providers -> ConnectorState]
    BY <1>3, <2>3 DEF Finish, FinishFails
  <2>6. IngestTypeOK'
    BY <2>1, <2>2, <2>4, <2>5 DEF EndRun
  <2>7. HandInv'
    BY <2>2 DEF EndRun, HandInv, At, InHand, Item
  <2> QED BY <2>2, <2>6, <2>7 DEF EndRun, PublishedInFeed
<1>4. CASE Publish(p)
  <2>1. Len(Feed[p]) \in Nat
    BY LenProperties
  <2>2. IngestTypeOK' /\ PublishedInFeed'
    BY <1>4, <2>1 DEF Publish, PublishedInFeed
  <2>3. HandInv'
    BY <1>4 DEF Publish, HandInv, At, Item
  <2> QED BY <1>4, <2>2, <2>3 DEF Publish
<1> QED BY <1>1, <1>2, <1>3, <1>4

LEMMA DiscoveryTypes ==
  ASSUME TypeInv, NEW p \in Providers,
         DiscoverUpdates(p) \/ DiscoverGalleryPage(p) \/ DiscoverFails(p)
           \/ DiscoverBroken(p)
  PROVE  TypeInv'
<1> USE DEF TypeInv, TypeOK, IngestTypeOK, catalogVars, feedVars, recordVars, cacheVars
<1>1. ASSUME NEW base \in Nat, NEW items \in Seq(Entries), Discovered(p, base, items)
      PROVE  /\ pc' \in [Providers -> {"idle", "waiting"} \cup InLoop]
             /\ page' \in [Providers -> Page]
             /\ index' \in [Providers -> Nat]
             /\ HandInv'
  <2>1. /\ page' = [page EXCEPT ![p] = [@ EXCEPT !.base = base, !.items = items]]
        /\ index' = [index EXCEPT ![p] = 1] /\ pc' = [pc EXCEPT ![p] = "item"]
    BY <1>1 DEF Discovered
  <2>2. [page[p] EXCEPT !.base = base, !.items = items] \in Page
    BY DEF Page
  <2>3. page' \in [Providers -> Page]
    BY <2>1, <2>2
  <2>4. HandInv'
    BY <2>1 DEF HandInv, At, Item, InHand
  <2> QED BY <2>1, <2>3, <2>4 DEF InLoop
<1>2. CASE DiscoverUpdates(p)
  <2> DEFINE base == Larger(confirmed[p], page[p].request)
  <2>1. base \in Nat
    BY DEF Larger, Page
  <2>2. Updates(p, base) \in Seq(Entries)
    BY <2>1, UpdatesBatch
  <2>3. Discovered(p, base, Updates(p, base))
    BY <1>2 DEF DiscoverUpdates, Confirm
  <2>4. confirmed' \in [Providers -> Nat]
    BY <1>2, <2>1 DEF DiscoverUpdates, Confirm
  <2> HIDE DEF base
  <2> QED BY <1>1, <1>2, <2>1, <2>2, <2>3, <2>4 DEF DiscoverUpdates, Confirm,
                                                    CatalogTypeOK, PublishedInFeed
<1>3. CASE DiscoverGalleryPage(p)
  <2>1. PICK first \in FirstPieces(p) : Discovered(p, first, GalleryPage(p, first))
    BY <1>3 DEF DiscoverGalleryPage
  <2>2. first \in 0..published[p] /\ published[p] \in Nat
    BY FirstIsPublished
  <2>3. GalleryPage(p, first) \in Seq(Entries)
    BY <2>2, GalleryBatch
  <2>4. first \in Nat
    BY <2>2
  <2>5. /\ pc' \in [Providers -> {"idle", "waiting"} \cup InLoop]
        /\ page' \in [Providers -> Page] /\ index' \in [Providers -> Nat] /\ HandInv'
    BY <1>1, <2>1, <2>3, <2>4
  <2> QED BY <1>3, <2>5 DEF DiscoverGalleryPage, CatalogTypeOK, PublishedInFeed
<1>4. CASE DiscoverFails(p)
  <2>1. CatalogTypeOK'
    BY <1>4 DEF DiscoverFails, Confirm, CatalogTypeOK
  <2>2. PICK o \in Outcome : Goto(p, o)
    BY <1>4 DEF DiscoverFails, Confirm, Outcome
  <2>3. confirmed' \in [Providers -> Nat] /\ UNCHANGED published
    BY <1>4 DEF DiscoverFails, Confirm, Larger, Page
  <2>4. HandInv'
    BY <2>2, MoveTypes DEF InLoop
  <2>5. IngestTypeOK'
    BY <1>4, <2>2, <2>3, LocalTypes DEF DiscoverFails, Confirm, InLoop
  <2> QED BY <2>1, <2>3, <2>4, <2>5 DEF PublishedInFeed
<1>5. CASE DiscoverBroken(p)
  <2>1. CatalogTypeOK'
    BY <1>5, CatalogTypes DEF DiscoverBroken, RowKeys, Entries
  <2> QED BY <1>5, <2>1, MoveTypes, TypeFrame DEF DiscoverBroken, Outcome, InLoop
<1> QED BY <1>2, <1>3, <1>4, <1>5

LEMMA SeenTypes ==
  ASSUME IngestTypeOK, NEW p \in Providers, NEW k \in Keys, MarkSeen(p, k)
  PROVE  seen' \in [Providers -> SUBSET Keys]
BY DEF IngestTypeOK, MarkSeen

\* Choosing what to do with the item at hand.
LEMMA ChoiceTypes ==
  ASSUME TypeInv, NEW p \in Providers,
         \/ ItemWithoutKey(p) \/ ItemSeen(p) \/ ItemKept(p) \/ ItemNew(p)
         \/ Resolve(p) \/ ResolveGone(p) \/ ResolveStops(p)
  PROVE  TypeInv'
<1> USE DEF TypeInv, TypeOK
<1>1. UNCHANGED catalogVars => CatalogTypeOK'
  BY DEF catalogVars, CatalogTypeOK
<1>2. HasItem(p) => index[p] \in 1..Len(page[p].items) /\ Item(p) \in Entries
  <2> SUFFICES ASSUME HasItem(p)
               PROVE  index[p] \in 1..Len(page[p].items) /\ Item(p) \in Entries
    OBVIOUS
  <2>1. page[p].items \in Seq(Entries) /\ index[p] \in Nat /\ index[p] >= 1
    BY DEF HasItem, HandInv, IngestTypeOK, Page
  <2>2. index[p] \in 1..Len(page[p].items)
    BY <2>1, LenProperties DEF HasItem
  <2> QED BY <2>1, <2>2, ElementOfSeq DEF Item
<1>3. CASE ItemWithoutKey(p)
  <2>1. CatalogTypeOK'
    BY <1>1, <1>3, CatalogTypes DEF ItemWithoutKey, RowKeys, Entries
  <2> QED BY <1>3, <2>1, MoveTypes, TypeFrame DEF ItemWithoutKey, HasItem
<1>4. CASE ItemSeen(p)
  BY <1>1, <1>4, MoveTypes, TypeFrame DEF ItemSeen, HasItem
<1>5. CASE ItemKept(p)
  <2>1. Item(p) \in Keys
    BY <1>2, <1>5 DEF ItemKept, RowKeys, Entries
  <2>2. seen' \in [Providers -> SUBSET Keys]
    BY <1>5, <2>1, SeenTypes DEF ItemKept
  <2>3. HandInv'
    BY <1>5, MoveTypes DEF ItemKept, HasItem
  <2>4. IngestTypeOK'
    BY <1>5, <2>2, LocalTypes DEF ItemKept, MarkSeen, IngestTypeOK, feedVars, recordVars
  <2> QED BY <1>1, <1>5, <2>3, <2>4 DEF ItemKept, feedVars, PublishedInFeed
<1>6. CASE ItemNew(p)
  <2>1. Item(p) \in Keys /\ index[p] \in 1..Len(page[p].items)
    BY <1>2, <1>6 DEF ItemNew, RowKeys, Entries
  <2>2. HandInv'
    BY <1>6, <2>1 DEF ItemNew, Goto, HandInv, At, Item, InHand, IngestTypeOK
  <2> QED BY <1>1, <1>6, <2>2, TypeFrame DEF ItemNew, InLoop
<1>7. CASE Resolve(p)
  <2>1. PICK l \in {"park", "fetch"} : Goto(p, l)
    BY <1>7 DEF Resolve
  <2> QED BY <1>1, <1>7, <2>1, MoveTypes, TypeFrame DEF Resolve, At, InHand, InLoop
<1>8. CASE ResolveGone(p)
  BY <1>1, <1>8, MoveTypes, TypeFrame DEF ResolveGone, At, InHand, InLoop
<1>9. CASE ResolveStops(p)
  <2>1. PICK o \in Outcome : Goto(p, o)
    BY <1>9 DEF ResolveStops, Outcome
  <2> QED BY <1>1, <1>9, <2>1, MoveTypes, TypeFrame DEF ResolveStops, InLoop
<1> QED BY <1>3, <1>4, <1>5, <1>6, <1>7, <1>8, <1>9

\* Downloading, recording and marking the item in hand.
LEMMA HandledTypes ==
  ASSUME TypeInv, NEW p \in Providers,
         \/ Park(p) \/ Download(p) \/ DownloadFails(p) \/ Insert(p) \/ Update(p)
         \/ Route(p) \/ RecordFailure(p) \/ Mark(p) \/ MarkOwner(p)
  PROVE  TypeInv'
<1> USE DEF TypeInv, TypeOK
<1>1. UNCHANGED catalogVars => CatalogTypeOK'
  BY DEF catalogVars, CatalogTypeOK
<1>2. pc[p] \in InHand => Item(p) \in Keys /\ Item(p) \in Entries /\ Item(p) \in RowKeys
                          /\ Content[Item(p)] \in Hashes
  BY CatalogAssumption DEF HandInv, RowKeys, Entries
<1>3. CASE Park(p)
  <2>1. CatalogTypeOK'
    BY <1>2, <1>3, InboxTypes DEF Park, At, InHand, ActiveInbox
  <2> QED BY <1>3, <2>1, MoveTypes, TypeFrame DEF Park, At, InHand, InLoop
<1>4. CASE Download(p)
  BY <1>1, <1>4, MoveTypes, TypeFrame DEF Download, At, InHand, InLoop
<1>5. CASE DownloadFails(p)
  BY <1>1, <1>5, MoveTypes, TypeFrame DEF DownloadFails, InHand, InLoop
<1>6. CASE Insert(p)
  <2>1. CatalogTypeOK'
    BY <1>1, <1>2, <1>6, CatalogTypes DEF Insert, InsertHitsKey, InsertHitsHash, At, InHand
  <2>2. PICK l \in {"kept", "update", "route"} : Goto(p, l)
    BY <1>6 DEF Insert
  <2> QED BY <1>6, <2>1, <2>2, MoveTypes, TypeFrame DEF Insert, At, InHand, InLoop
<1>7. CASE Update(p)
  <2>1. CatalogTypeOK'
    BY <1>1, <1>2, <1>7, CatalogTypes DEF Update, UpdateLoses, At, InHand
  <2>2. PICK l \in {"kept", "route"} : Goto(p, l)
    BY <1>7 DEF Update
  <2> QED BY <1>7, <2>1, <2>2, MoveTypes, TypeFrame DEF Update, At, InHand, InLoop
<1>8. CASE Route(p)
  <2>1. CatalogTypeOK'
    BY <1>2, <1>8, InboxTypes DEF Route, At, InHand, ActiveInbox
  <2> QED BY <1>8, <2>1, MoveTypes, TypeFrame DEF Route, At, InHand, InLoop
<1>9. CASE RecordFailure(p)
  <2>1. CatalogTypeOK'
    BY <1>1, <1>2, <1>9, CatalogTypes DEF RecordFailure, InHand
  <2> QED BY <1>9, <2>1, MoveTypes, TypeFrame DEF RecordFailure, InHand
<1>10. CASE Mark(p)
  <2>1. Item(p) \in Keys /\ pc[p] \in InHand
    BY <1>2, <1>10 DEF Mark, At, InHand
  <2>2. seen' \in [Providers -> SUBSET Keys]
    BY <1>10, <2>1, SeenTypes DEF Mark
  <2>3. HandInv'
    BY <1>10, <2>1, MoveTypes DEF Mark, InHand
  <2>4. IngestTypeOK'
    BY <1>10, <2>2, LocalTypes DEF Mark, MarkSeen, IngestTypeOK, feedVars, recordVars,
                                   InLoop
  <2> QED BY <1>1, <1>10, <2>3, <2>4 DEF Mark, feedVars, PublishedInFeed
<1>11. CASE MarkOwner(p)
  <2>1. Content[Item(p)] \in Hashes /\ pc[p] \in InHand
    BY <1>2, <1>11 DEF MarkOwner, At, InHand
  <2>2. owned' \subseteq Hashes
    BY <1>11, <2>1 DEF MarkOwner, IngestTypeOK
  <2>3. HandInv'
    BY <1>11, <2>1, MoveTypes DEF MarkOwner
  <2>4. IngestTypeOK'
    BY <1>11, <2>2, LocalTypes DEF MarkOwner, IngestTypeOK, feedVars, recordVars
  <2> QED BY <1>1, <1>11, <2>3, <2>4 DEF MarkOwner, feedVars, PublishedInFeed
<1> QED BY <1>3, <1>4, <1>5, <1>6, <1>7, <1>8, <1>9, <1>10, <1>11

\* What a page leaves is a cursor.
LEMMA CursorType ==
  ASSUME TypeInv, NEW p \in Providers
  PROVE  /\ NextCursor(p) \in Nat
         /\ PageDone(p).cursor \in Nat /\ PageDone(p).walked \in Nat
<1>1. page[p] \in Page
  BY DEF TypeInv, TypeOK, IngestTypeOK
<1>2. Len(page[p].items) \in Nat
  BY <1>1, LenProperties DEF Page
<1>3. NextCursor(p) \in Nat
  BY <1>1, <1>2 DEF NextCursor, Page
<1> QED BY <1>1, <1>3 DEF PageDone, Page

LEMMA PageEndTypes ==
  ASSUME TypeInv, NEW p \in Providers, SavePage(p) \/ SavePageFails(p) \/ Abort(p)
  PROVE  TypeInv'
<1> USE DEF TypeInv, TypeOK
<1>1. UNCHANGED catalogVars => CatalogTypeOK'
  BY DEF catalogVars, CatalogTypeOK
<1>2. \A n \in Nat \ {0}, r \in Nat : FreshPage(n, r, PageDone(p)) \in Page
                                    /\ FreshPage(n, r, page[p]) \in Page
  BY CursorType, EmptySeq DEF FreshPage, Page, IngestTypeOK
<1>3. /\ NextCursor(p) \in Nat /\ page[p].cursor \in Nat /\ page[p].number \in Nat \ {0}
      /\ PageDone(p).cursor \in Nat /\ PageDone(p).walked \in Nat
  BY CursorType DEF IngestTypeOK, Page
<1>4. CASE SavePage(p)
  <2>1. PICK n \in Nat \ {0}, r \in Nat : page' = [page EXCEPT ![p] = FreshPage(n, r, PageDone(p))]
    <3>1. CASE HasNext(p)
      <4>1. PICK n \in PagesAfter(p, page[p].number) : page' = [page EXCEPT ![p] = NextPage(p, n)]
        BY <1>4, <3>1 DEF SavePage
      <4>2. n \in Nat \ {0}
        BY <1>3, IngestAssumption DEF PagesAfter
      <4> QED BY <1>3, <4>1, <4>2 DEF NextPage
    <3>2. CASE ~HasNext(p)
      BY <1>4, <3>2 DEF SavePage
    <3> QED BY <3>1, <3>2
  <2>2. page' \in [Providers -> Page]
    BY <1>2, <1>3, <2>1 DEF IngestTypeOK
  <2>3. PICK l \in {"discover", "completed"} : pc' = [pc EXCEPT ![p] = l]
    BY <1>4 DEF SavePage
  <2>4. IngestTypeOK'
    BY <1>3, <1>4, <2>2, <2>3
    DEF SavePage, IngestTypeOK, feedVars, cacheVars, ConnectorState, Outcome, InLoop
  <2>5. HandInv'
    BY <1>4, <2>1, <2>3 DEF SavePage, HandInv, At, InHand, Item, IngestTypeOK
  <2> QED BY <1>1, <1>4, <2>4, <2>5 DEF SavePage, feedVars, PublishedInFeed
<1>5. CASE SavePageFails(p)
  <2>1. PICK s \in {page[p], PageDone(p)} : page' = [page EXCEPT ![p] = FreshPage(1, 0, s)]
    BY <1>5 DEF SavePageFails
  <2>2. page' \in [Providers -> Page]
    BY <1>2, <2>1 DEF IngestTypeOK
  <2>3. IngestTypeOK'
    BY <1>5, <2>2
    DEF SavePageFails, IngestTypeOK, feedVars, recordVars, cacheVars, Outcome, InLoop
  <2>4. HandInv'
    BY <1>5, <2>1 DEF SavePageFails, HandInv, At, InHand, Item, IngestTypeOK
  <2> QED BY <1>1, <1>5, <2>3, <2>4 DEF SavePageFails, feedVars, PublishedInFeed
<1>6. CASE Abort(p)
  BY <1>1, <1>6, MoveTypes, TypeFrame DEF Abort, Outcome, InLoop
<1> QED BY <1>4, <1>5, <1>6

LEMMA SurroundingTypes ==
  ASSUME TypeInv, CacheFails \/ Crash \/ Operator \/ UNCHANGED vars
  PROVE  TypeInv'
<1> USE DEF TypeInv, TypeOK
<1>1. CASE CacheFails
  BY <1>1
  DEF CacheFails, catalogVars, feedVars, recordVars, runVars, CatalogTypeOK, IngestTypeOK,
      PublishedInFeed, HandInv, At, Item
<1>2. CASE Crash
  <2>1. NoPage \in Page
    BY EmptySeq DEF NoPage, FreshPage, Page
  <2>2. CatalogTypeOK' /\ IngestTypeOK' /\ PublishedInFeed'
    BY <1>2, <2>1
    DEF Crash, catalogVars, feedVars, recordVars, CatalogTypeOK, IngestTypeOK,
        PublishedInFeed
  <2>3. HandInv'
    BY <1>2 DEF Crash, HandInv, At, InHand
  <2> QED BY <2>2, <2>3
<1>3. CASE Operator
  BY <1>3, OperatorTypes
  DEF Operator, ingestVars, IngestTypeOK, PublishedInFeed, HandInv, At, Item
<1>4. CASE UNCHANGED vars
  BY <1>4
  DEF vars, ingestVars, CatalogTypeOK, IngestTypeOK, PublishedInFeed, HandInv, At, Item
<1> QED BY <1>1, <1>2, <1>3, <1>4

\* Every disjunct of Next, by name: the case split of the proofs below.
LEMMA NextCases ==
  ASSUME [Next]_vars
  PROVE  \/ \E p \in Providers :
              \/ Tick(p) \/ BeginFails(p) \/ Begin(p) \/ Finish(p) \/ FinishFails(p)
              \/ Publish(p)
              \/ DiscoverUpdates(p) \/ DiscoverGalleryPage(p) \/ DiscoverFails(p)
              \/ DiscoverBroken(p)
              \/ ItemWithoutKey(p) \/ ItemSeen(p) \/ ItemKept(p) \/ ItemNew(p)
              \/ Resolve(p) \/ ResolveGone(p) \/ ResolveStops(p)
              \/ Park(p) \/ Download(p) \/ DownloadFails(p) \/ Insert(p) \/ Update(p)
              \/ Route(p) \/ RecordFailure(p) \/ Mark(p) \/ MarkOwner(p)
              \/ SavePage(p) \/ SavePageFails(p) \/ Abort(p)
         \/ CacheFails \/ Crash \/ Operator \/ UNCHANGED vars
BY DEF Next, IngestNext, RunStep, RunError, ProcessItem

LEMMA TypeStep == TypeInv /\ [Next]_vars => TypeInv'
BY NextCases, SchedulerTypes, DiscoveryTypes, ChoiceTypes, HandledTypes, PageEndTypes,
   SurroundingTypes

\* Type correctness: whatever is published, fails, crashes or is decided by the
\* operator, the tables and every run keep their shape.
THEOREM TypeCorrect == Spec => []TypeOK
<1>1. Init => TypeInv
  BY TypeInit
<1>2. TypeInv /\ [Next]_vars => TypeInv'
  BY TypeStep
<1>3. TypeInv => TypeOK
  BY DEF TypeInv
<1> QED BY <1>1, <1>2, <1>3, PTL DEF Spec

==============================================================================
