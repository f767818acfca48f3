# ok-folio in TLA+

ok-folio is a self-hosted visual aggregator: connectors (Telegram chats, a web
gallery) publish pictures, the Go service keeps and de-duplicates them in
PostgreSQL, short-cuts repeated work through Valkey, and a React dashboard and an
iOS client show the gallery, its folios and an Inbox of doubtful items
(`docs/product-prd.md`). This directory models the parts of the service where
processes, failures and restarts interleave, and the screens of the dashboard, where
clicks, timers, requests and refetches do. TLC checks the models on small
instances; TLAPS proves the main safety properties for every value of the constants.

All paths below are relative to the repository. Modules are run from this
directory, e.g. `tlc -config Updates.cfg MCIngest`, `tlapm KeepingProofs.tla`.

## 1. Inventory

| Component | State | Operations | Talks to | What makes it correct |
|---|---|---|---|---|
| Scheduler and ingest (`internal/scheduler`, `internal/ingest`) | a mutex per connector, `extractionMu`, `connector_state`, `extraction_runs`, locals of the run | tick, begin, discover a page, process an item, save the cursor, finish | connectors, scraper, database, Valkey | no published item is lost, doubled or demoted; the cursor passes recorded items only; a run always ends |
| Connectors (`internal/provider/*`) | the Telegram server's confirmed offset; page numbers or links of a gallery | `DiscoverPage`, `ResolveMedia`, `DownloadMedia` | the provider | no offset is asked for that is not durable |
| Catalog and Inbox (`internal/database`, `internal/scraper`) | `downloaded_photos`, `inbox_items` | insert, claim of a failed row, failure upsert, Inbox record, retry, Inbox decisions | every ingest path, the operator | bytes are kept once; kept stays kept; a decision stands |
| Page extraction (`scraper.ScrapePage`) | a semaphore and key locks, local to a call | spawn, lock, check, download, record | database, scheduled runs | parallel items of a page do not undo each other; the call returns |
| Extraction queue (`internal/api/api.go`, `cmd/extractor`) | `jobQueue`, workers, run rows, the server's context | request, take, scrape, count, close, shutdown | page extraction | run rows tell the truth; accepted jobs end; workers stop |
| Routing (`internal/database`, `internal/api/settings.go`, `folios.go`) | `connector_sources`, `folios`, `folio_pieces`, `hidden_from_gallery` | route a kept piece, edit a source, create or delete a folio, add, remove, backfill | scheduled runs, the operator | a kept piece can be found somewhere |
| Valkey client (`internal/cache`) | `okf:epoch`, catalog pages, locks, seen-sets, hash owners, passthrough | read, compute under a lock, bump, mark seen | API handlers, runs | no answer is older than what was promised; the sets never hide a new item |
| Derivatives, similarity, embedder | thumbnail files, embeddings | warm, prune, backfill, search | database, sidecar | a prune frees what it must and no more; a backfill reaches every row |
| File store and EXIF | originals on disk | download, overwrite, remove | scraper | a row's file is its own |
| Metadata, favorites, uploads | columns of a piece, `manual_fields` | edit, lock a field, toggle, upload | database, epoch | an operator's edit is not overwritten |
| Legacy ETL (`internal/legacyetl`) | rows under page URLs, without a hash | load, hash pass | database | the hash pass reaches every row |
| Stats cache, analytics, SSE, status | a TTL cache in memory | get, set, invalidate | database | no stale entry outlives an invalidation |
| Retry, pagination, configuration, preflight, admin | none that is shared | pure or sequential | - | back-off bounds, page arithmetic |
| PhotoPrism client | a session token | trigger an index | PhotoPrism | failures do not fail a run |
| Viewer (`dashboard/src/folio/PieceViewer.tsx`) | the shown piece and its sequence, panel, chrome and timer, edit form, picker | open, step, close, toggle the panel, edit, save | every list below it | a draft is of the piece on the screen; what is opened is shown |
| Provider (`folio/context.tsx`) | overrides of hearts and metadata, pages of the catalog, requests in flight | toggle, edit, bulk edit, import, load more, roll back | API, every screen | the picture agrees with the server in the end |
| Gallery (`folio/Gallery.tsx`, `Nav.tsx`, `BulkEditBar.tsx`) | text with its debounce, filters, mode, selection | type, filter, load more, select, bulk edit | provider | the list is the one that was asked for, whole and in order |
| Folios (`folio/Folios.tsx`, `FolioDetail.tsx`) | menus and dialogs, the picker, the selection | create, rename, cover, delete, add, remove | provider | lists agree with the server; reports are true |
| Inbox screen (`folio/Inbox.tsx`) | hidden items, undo timers | dismiss, undo, keep, skip, move | provider | an undo holds; nothing hidden is lost |
| Streams, Settings (`folio/Streams.tsx`, `Settings.tsx`, `DestinationControls.tsx`) | the editor and its test, lists of sources, busy flags | test, save, toggle, remove, backfill | API | only what was tested is enabled; the list is the server's |
| Offline cache (`dashboard/vite.config.ts`, `api.ts`) | two stores of answers | answer, store, clear, expire | every request | no answer older than a change this client made |
| iOS client | its own view state | browse, favorite | API | - |

The components are listed with their sources in `PROJECT.json`, together with the
hazards at the lines where they bite. The hard behaviours are these.

* **Statements are the atoms.** Ingest checks, downloads, inserts and routes in
  separate statements, with other runs, API calls and the operator in between.
* **A crash may come at any step.** PostgreSQL and Valkey survive it, mutexes and
  locals do not; Telegram forgets what is below the offset it was last asked for.
* **Errors that are only logged.** Some writes (failure rows, closing writes of a
  run) may fail and the code goes on.
* **Answers come when they come.** In the dashboard every request's continuation runs over
  whatever the user has done meanwhile: another piece, another screen, a second click,
  a refetch that started before the change and ends after it.
* **Optimistic state.** What a screen shows is a query's copy under overrides that are
  set before the request, and taken back when it fails.
* **Valkey may disappear.** Any failing operation turns the client to passthrough
  until the process restarts; what Valkey held comes back with the restart.

## 2. Modules

| Module | Models | Composes |
|---|---|---|
| `Catalog` | the two tables and every statement ingest, retry and the Inbox issue | - |
| `Ledger` | abstract: items get accounted for, a position moves over accounted items | - |
| `Ingest` | scheduler, page loop, item loop, seen-set, hash owners, crash, Valkey outage | `Catalog`; implements `Ledger` |
| `IngestLive` | `Ingest` with finitely many faults and fairness | `Ingest` |
| `ScrapeJobs` | the goroutines of `ScrapePage` calls | `Catalog` |
| `Extraction` | the service: scheduled runs and page calls over one database | `Ingest`, `ScrapeJobs` |
| `JobQueue` | requests, bounded queue, workers, run rows, shutdown | - |
| `Routing` | sources, folios, membership and visibility | - |
| `Metadata` | fields an operator edits, their locks, and everyone who writes the row | - |
| `PieceRow` | where a piece is seen, and what an operator writes about it | `Routing`, `Metadata` |
| `CacheAside` | epoch, cached pages, locks, ETags, passthrough, restart | - |
| `Viewer` | the fullscreen viewer over the provider's sequence | - |
| `PieceEdits` | metadata edits, single and in bulk, with overrides and roll-backs | - |
| `Favorites` | hearts of the provider and of a piece's own page | - |
| `FolioPieces` | the picker's bulk addition, single additions and removals | - |
| `FolioScreens` | the folios' menus and dialogs, requests and navigation | - |
| `InboxScreen` | dismissal with undo, the other actions of a row | - |
| `StreamsScreen` | a web gallery's editor, test, save, switches, removal | - |
| `SettingsScreen` | the Telegram sources, one await chain per change | - |
| `BrowseScreen` | search, filters, modes and pages of the gallery | - |
| `OfflineCache` | the service worker's stores and the mutators that clear them | - |
| `Dashboard` | the ten above side by side | all ten |
| `MC*` | constants of the small instances | one module each |
| `*Proofs` | invariants, lemmas and theorems | see section 5 |

### How state and actions correspond to the code

**Catalog.** `rows[k]` is the row of `downloaded_photos` with the unique `url_hash`
of dedupe key `k`, cut down to `status` and `content_hash`; `inbox[k]` is the
`inbox_items` row of `k`'s fingerprint. `InsertWins`, `InsertHitsKey` and
`InsertHitsHash` are the three outcomes of the insert (it succeeds, or one of the two unique
indexes, on the key or partial on the hash, refuses it with error 23505, which the code handles);
`UpdateWins`/`UpdateLoses` are the second statement, which claims a failed row.
`RecordFailedDownload` is the upsert that writes `failed` whatever the row says.
`RecordInboxException` leaves a resolved item alone. `OperatorAct` is the retry
handler and the Inbox handlers. Rows under synthetic error keys are one row,
`ErrorKey`.

**Ingest.** One process per provider. `Tick` is `TryLock` on the job's own mutex: while
a job waits or runs no further tick gets in. `Begin` takes `extractionMu`, loads the
cursor and opens the run row. `DiscoverUpdates` confirms at the server what is below
its offset *and then* receives: the reply may be lost (`DiscoverFails` with
`Confirm`). A gallery is of one of three kinds, the strategies of its configuration: numbered pages
(`page_param`), one page (`none`), or pages of which each links to the next (`next_link`). On the
last, the link is the cursor: it is saved after each page, and a later run starts from it. `FirstPieces` is
the piece a request is answered from: newly published pieces push a linked page down, so the link to it
may show any piece from the one it began with to the newest. A run that skips pages which are not allowed drops
the link (`NextPage`) and reads the list again, as the code does. `Behind` is what a cursor has left behind: the
updates below an offset, or the pieces between the linked page and the top of the list when the
walk set out; `walked`, history, remembers that top. The labels of `pc` are the points between two statements of the item
path: `resolve`, `park` (a known hash with an owner in Valkey), `fetch`, `insert`,
`update`, `route`, `fail`, `parked`, `kept`, `owner`. `SavePage` is the save at the end
of a page with the choice of the next page, `Finish`/`FinishFails` the two writes at
the end of a run, `Abort` every error that the loop returns. `Crash` resets the
locals and passthrough and keeps tables, sets and the provider's state.

**ScrapeJobs, Extraction.** `task[c][n]` is the goroutine of item `n` of call `c`;
`Acquire` is the semaphore, `KeyLockFree` the call's lock for a key. A call shares
nothing with another call or with the scheduler but the database, and `Extraction`
interleaves exactly that; its `Restart` stops both. Of the keys the module assumes nothing. In
the code a scheduled gallery's keys begin with `webgallery:<source id>`
(`cmd/extractor/main.go:241-254`, `285-293`) and those of the API's scraper with `webgallery`
(`scraper.go:94`, `webgallery/connector.go:131-136`): a run and a call meet in one row by its bytes, and by its key
only in the gallery that is started when the sources cannot be listed or seeded (`main.go:196`,
`235-238`). Two page calls always have the same prefix.

**JobQueue.** `service` walks through the shutdown in `main`: cancel the context, close
the channel, end the process. `Request` is the handler's `select` with `default`
(429), and a send on the closed channel (a recovered panic, 500) is a refusal as well.
`ScrapeHangs` then `Deadline` is a provider that does not answer before the job's
context expires: `ScrapePage` returns the context's error, or nil when its last item had been
started by then, and the page is counted. `Count` and `Close` may lose their writes, as the code drops their
errors; `unclosed` is a history variable that remembers it.

**Routing.** `run` is the scheduled run's *copy* of its source row, read before the
download and used after it. `edit`, `fill` and `add` are requests between their
reads and their writes. `excused` is a history variable: the pieces whose folio was
deleted, which were taken out of a folio by hand, or whose run stopped between
keeping and routing.

**Metadata.** `metaRow[r]` is the row with its editable fields and `manual_fields`; a
value is the number of the edit that wrote it, or `Automatic`. An edit and a claim of a
failed row are a read (`EditReads`, `ClaimReads`) and a write (`EditWrites`, `ClaimWrites`):
the transaction between them has PostgreSQL's default isolation and takes no row lock when it
reads. The failure upsert, the retry (which does not look at the status) and the
loader's upsert are single statements. `wanted` is history, the edits the operator was told are
saved; so is `raced`, the rows an edit wrote while another transaction had read
them and not yet written.

**CacheAside.** `version` counts changes of the catalog; `Write` and `BumpEpoch` are the
two halves of a handler. A reader's labels are the steps of the cache-aside read:
`epoch`, `get`, `lock`, `compute`, `store`, `release` (the winner), `loser`, `wait`
(the others), `direct` (passthrough). `promised` and `floor` are history: the newest
change whose writer has returned, and the newest change each epoch stands for.

**PieceRow.** `columns` is the part that runs, `Routing` or `Metadata`: neither reads what the other writes.

**The dashboard's modules** follow one pattern. What the server holds is a variable
(`favStored`, `members`, `folioStored`, `waiting`, `telegram`, ...), what the screen holds
of it is another, and a query's refetch is a third: idle, asked, or read with what it
read, because the answer is shown some time after it was computed. `invalidateQueries`
gives up a refetch under way and asks again. A request has the states
*sent*, *served* or *refused*, and its continuation is one more step
(`RequestSucceeds`, `ResolveAnswered`, `ChainFails`, ...), which reads the state of that
moment. A failure after *served* is a lost answer. What an action may be applied to is
not guessed: operators named `...Offers` and `...Shows` say what each component renders
and does not disable in a state, on desktop and on mobile, and the actions are guarded by them.

* `Viewer`: `Shows(id, list, pieces)` is what happens when the selection or the sequence
  changes: if another piece comes on the screen, the effects of the new render (form closed,
  panel fresh, chrome in view, timer armed) are part of the same step. `ListRefetched` is
  a list that changes below the open viewer.
* `PieceEdits`: `override`, `cached` and `stored` are the three layers; an edit's number is
  the value it writes. `clouded` is history: pieces whose edits overlapped or lost an answer.
* `Favorites`: `favRequest` is `inFlight`; a click while it is set turns the override and
  sends nothing. `astray` is history.
* `FolioPieces`: a `job` is a run of `addPiecesToFolioAction` with its loop variables;
  `loaded` is the copy by which it skips known pieces.
* `FolioScreens`: `request[i].closes` and `.goes` are the continuation: whether it closes what
  its screen has open, and where it navigates. `Forgotten` is a screen that is unmounted.
* `InboxScreen`: `dismissTimer` stands for the timer and for the entry of
  `pendingDismisses`, which the code sets and deletes together.
* `StreamsScreen`: `editor.key` is `previewKey`; a test's answer sets it to the values the test
  was sent with, and any keystroke in the configuration clears it.
* `SettingsScreen`: a `chain` is a handler with its awaits: send, clear the form, read the
  list again, show it, clear the busy flag.
* `BrowseScreen`: `pages` is the query cache by key, `pageFetch` the fetch of a key with the pages
  read so far; `Keys` are the pairs of debounced text and filter.
* `OfflineCache`: the value of a resource is the number of changes it has seen; `late` marks an
  entry that escaped a clearing.
* `Dashboard`: the parts share nothing but the server, and each has its copy of what the
  server holds for it, so a behaviour runs one part (`part`) while the others stand still.

Definitions with an underscore in their names (`InsertWins_IgnoresHash`,
`Finish_KeepsMutex`) are slips: what the code would be after a plausible mistake. No
specification uses them; put in place of the definition they vary, each makes TLC find
the property beside it in `PROJECT.json` violated.

## 3. Runs

| Run | Module, cfg | Instance | What it shows |
|---|---|---|---|
| Updates | `MCIngest`, `Updates.cfg` | one chat; feed: a message, a message without a key, a second key with the same bytes, the first again; 2 updates per call | exact dedupe, cursor accounting, at-least-once confirmation, soundness of both Valkey sets, backing of Inbox duplicates, no demotion, decisions stand, and `Ingest` implements `Ledger` |
| Mixed | `MCIngest`, `Mixed.cfg` | a chat and a single-page gallery with the same bytes; a legacy row under the gallery page's URL; failure writes may get lost | dedupe, the seen-set and the Inbox across two kinds of provider, also when a failure goes unrecorded |
| OneCall | `MCScrapeJobs`, `OneCall.cfg` | one call; items `w1, w2, w1` and one without a key; the same bytes twice; a legacy row under `w2`'s page | the key lock protects the first goroutine's work from the second's failure; the call returns |
| Service | `MCExtraction`, `Service.cfg` | a scheduled gallery of linked pages of one piece, restricted to pages 1 and 3, and a page call whose piece has the bytes of one of them; the call's row may be retried | what the stored link has left behind stays accounted for, across paths that share no lock |
| Demotion | `MCScrapeJobs`, `Demotion.cfg` | two page calls over a page of one piece | violated: see Findings |
| Progress | `MCIngestLive`, `Progress.cfg` | a chat and a gallery, one item each; one fault | whatever is published gets accounted for; every run ends |
| RetryStuck | `MCIngestLive`, `RetryStuck.cfg` | one chat, one message | violated: see Findings |
| PieceRow | `MCPieceRow`, `PieceRow.cfg` | one source, one piece and two folios; two more pieces, two fields of which the loader writes one, two edits (single or bulk), the ingest | a kept piece stays reachable; a hidden row names its source; what an operator saved stands, with its lock |
| FolioGone | `MCRouting`, `FolioGone.cfg` | `MCRouting`'s part of PieceRow | violated: see Findings |
| Cache | `MCCacheAside`, `Cache.cfg` | two browsers, one writer, one change | answers are current; two requests compute one page only after a lock lapsed |
| Jobs | `MCJobQueue`, `Jobs.cfg` | three requests (2, 1 and 0 pages), two workers, a queue of one | run rows tell the truth; accepted jobs end; workers stop |
| Dashboard | `MCDashboard`, `Dashboard.cfg` | two pieces, a folio, two Inbox items, one source of each kind, a catalog of two pieces and one that arrives | the thirteen properties of the screens: drafts, focus, overrides that agree with the server, true reports, undo, tested sources, whole lists, fresh offline answers |

`CHECK_DEADLOCK FALSE` is set throughout: the inputs of an instance run out (its
requests, its feed), and a service with nothing to do is at rest, not stuck.
That nothing gets stuck half way is what `RunsEnd`, `CallsReturn`, `AcceptedJobsEnd`
and `WorkersStop` say.

### Bounds, and why they are enough

* *Feed* (four entries in Updates). It has every relation two entries can have: same
  key, another key with the same bytes, no key at all. With two updates per call the
  four entries make two pages, so that a crash, a lost reply or a failed save falls
  inside a page, between two pages and at the end.
* *PageSize, AllowedPages.* Two pages suffice to see a cursor that is saved too late or
  too early. `AllowedPages = {1}` in Mixed is a gallery that ends with its start page. In
  Service `{1, 3}` skips a linked page: the run stores a link, drops it from its request, reads the list again, and
  the next run resumes at the link.
* *Retried, Handled.* Which rows the operator may retry and which Inbox items he may
  decide about; retry has no limit in number. A resolved item is never re-opened,
  so one decision for each item is the whole story.
* *KnowsHash.* In Updates the second key's hash is known before the download, which
  is the way into the hash-owner shortcut; the first has to be downloaded.
* *MaxFaults = 1* in Progress: one error at every possible point, then recovery.
  `Updates` and `Mixed` have no limit of faults.
* *PieceRow*, routing: pieces do not share a column and the source's row does not depend on them,
  so one piece shows the interleavings; two folios are needed for a retarget. The
  theorems below hold for every number of pieces, sources and folios.
* *PieceRow*, edits: two edits overlap or follow one another; a third meets the rows no differently. Two
  fields separate what an edit locks from what it does not, and what the loader writes from what
  it does not. With two ingest paths the property was checked as well (2.3 million states); the
  theorem holds for any number.
* *MaxVersion = 1* in Cache: one change, before which and after which a page may have
  been computed, with two readers for the lock. One reader with two writers and two
  changes was run as well; the theorem holds for any number.
* *Jobs*: three requests into two workers and a queue of one fill the queue, and a
  refusal occurs once one waits. Pages 2, 1 and 0 cover a failure between two
  pages, at the last page, and a job with nothing to do.

* *Dashboard*: two pieces, because every confusion of the viewer, the edits and the hearts is
  between one piece and another. `MaxEdits = 2` and `MaxClicks = 3`: two requests that
  overlap, and for hearts one more after a failure. `MaxJobs = 1` and `MaxRemovals = 1`: a
  job beside a removal; two jobs share nothing but the copy, which the refetches already vary.
  `MaxRequests`, `MaxResolves` and `MaxCalls` are 2, a request and the one that overtakes it; `MaxChains = 3` is the
  reading on mount and two changes. `PageSize = 1` gives two pages out of two pieces and a
  third by an arrival. `MaxWrites = 2` lets one mutator return while another is
  out. The layouts and skins of `MCDashboard` are those that differ in what they render.
  One run serves all ten parts since they do not share a variable: it visits the union, and not the
  product, of their states.

### Fairness

* `DashboardSpec` has none: users may stop at any time, and nothing the screens promise depends on
  a step being taken. What has to agree in the end is stated for the states in which
  requests and refetches are over (`Settled...`).

* `LiveSpec`: cron fires each connector's schedule again and again (WF of `Tick`); a run
  that started goes on, as its calls have timeouts (WF of `RunStep`); Go's mutex hands
  over to waiters in its starvation mode (SF of `Begin`). Errors and crashes are
  bounded by `MaxFaults`; no fairness is assumed of the provider, of Valkey or of the
  operator. A failed download is no fault: it leaves a failed row, which accounts for
  the item.
* `JobsFairSpec`: goroutines are scheduled, and a download ends by success or by timeout.
* `JobsLiveSpec`: each worker's steps are weakly fair, `Deadline` among them because the
  job's context has a timeout of 30 minutes and is derived from the server's. The end
  of the process is not fair: the workers must stop by themselves.

## 4. Findings

1. **`RecordFailedDownload` demotes a kept piece** (run Demotion,
   `internal/database/database.go:1120`). Two page calls of the API, which runs three at once, list the same
   piece and both find it new; one keeps it; the other's download fails, and its upsert turns the row to
   `failed` while the file and the hash stay. The sibling statement leaves a downloaded row
   alone (`database.go:929`). Within one call the key lock excludes this (run OneCall; `OneCallKeeps`, proved),
   but each call has locks of its own (`scraper.go:130-147`); among scheduled runs `extractionMu`
   excludes it (`KeptStaysKept`, proved). A scheduled run and a page call write the same key in the
   startup's fallback only (section 2).
2. **A retried Telegram piece stays pending** (run RetryStuck, `database.go:2054`). The
   comment says that a connector re-processes a reset row; no connector is offered the
   update again, and the key may be in the seen-set.
3. **Deleting a folio hides pieces** (run FolioGone, `database.go:1646`). The dashboard says
   that the pieces stay in the gallery; those which a stream with "show in library" off
   had routed there stay hidden and are in no folio.
Met on the way, and not checked by a run: `ApplyConnectorSourceRouting` gets the source
by value, so the warning at `internal/ingest/ingestor.go:249` can never fire.

Nor the following: a gallery of linked pages ends its first walk with the link to its last page in `connector_state`
(the last page has no link, and an empty cursor leaves the stored one, `ingestor.go:278`). Every later run
starts from there (`webgallery/connector.go:287-290`), reads the last page again, and does not look at
the list, so what is published afterwards is taken up only when it is pushed down to that page.
`PublishedGetsAccounted` is false of such a gallery; its
run has numbered pages, and `PassedItemsAccounted` speaks of what the walk had set out to read. No
line of the repository says otherwise, so it is not a finding.

Nor by a run of its own: a claim may write over an edit (`database.go:1075`). The ingest reads a failed
row, an edit commits, and the claim writes back the values and the locks it read; the operator's
value and its lock are gone, though the test of the recovery (`database_test.go:576-637`) expects the manual
fields to survive. Two edits that overlap lose a lock in the same way (`database.go:2193`, `2270`), and the
next ingest overwrites the value. `EditsStand` excuses the rows of such overlaps (`raced`); with
`raced` left out of it, TLC finds either.

## 5. Proofs

The theorems hold for every instance that satisfies the modules' assumptions
(`CatalogAssumption`, `IngestAssumption`, `RoutingAssumption`, `CacheAssumption`, `JobAssumption`, `MetadataAssumption`, and those
of the dashboard's modules): they say
that the sentinels are not members of the sets, that functions and sequences have the domains
and ranges named, that a page is not empty, that there is room for one chain of requests in
`SettingsScreen`, and in `CacheAside` and `FolioPieces` that writers and pieces are finitely many.
`~DbFaults` and `OneCallKeeps`'s single call are hypotheses of their theorems, not assumptions.

| Module | Theorems |
|---|---|
| `IngestProofs` | `TypeCorrect` |
| `AccountingProofs` | `ContentIsUnique`, `SeenIsAccounted`, `OwnersAreBacked`, `ConfirmedStaysBehind`, `PassedAreAccounted` |
| `KeepingProofs` | of the runs `DuplicatesAreBacked`, `KeptStaysKept`, `ResolvedIsFinal`, `ImplementsLedger`; of the service `ServiceDedupes`, `ServiceAccounts`, `ServiceImplementsLedger`, `ServiceDuplicatesBacked`, `ServiceDecisionsFinal`; of one page call `OneCallKeeps` |
| `PieceRowProofs` | `RoutingTyped`, `HiddenIsClaimed`, `KeptStaysReachable`, `EditsAreKept`, `PieceRowHolds` |
| `CacheProofs` | `CacheTyped`, `AnswersStayCurrent`, `OneComputes` |
| `JobProofs` | `JobsTyped`, `RowsTellTruth` |
| `ScreenProofs` | `InboxUndoHolds`, `InboxLosesNothing`, `StreamsTested`, `FoliosSettle`, `SettingsSettle`, `OfflineFresh` |
| `DashboardProofs` | `ViewerDrafts`, `ViewerFocus`, `ViewerOpens`, `HeartsSettle`, `EditsSettle`, `AddReports`, `FoundMatches`, `GallerySettles`, `DashboardImplements`, `DashboardHolds`, `DashboardTyped` |

**Ingest.** The invariant is built in layers, each resting on those above it.

* `TypeInv`: the types; `published` within the feed; an item "in hand" is an entry with a
  key. Without it the labels that read `Item(p)` have no type.
* `TableInv`: a row holds the hash of its own bytes or none, error rows, legacy rows and
  absent rows hold none, and no two rows share one. From it every step is a `RowsOp` (one row
  changes, in one of the ways of `Catalog`), and what is accounted for stays so (`Grows`).
* `RunInv`: what a run has learned at each label. At `park` the hash owner is backed,
  at `parked` and `kept` the item is accounted for, and so on. This is why a key enters
  the seen-set only after the catalog holds it (`SeenIsAccounted`, `OwnersAreBacked`).
* `CursorInv` (`Placed`): while a run is in the loop its copy of the cursor equals the
  durable one, a page of updates is the part of the feed that starts at it, and the
  server's offset is not beyond it. That gives
  `ConfirmedStaysBehind`. A gallery's page is the part of the feed below its first piece, which is not
  older than the link it was asked with.
* `PassInv` (`Passed`): every entry before the item in hand is accounted for. With
  `CursorInv`, moving the cursor to the end of a page keeps `PassedItemsAccounted`: an offset moves up
  over the page, a link down over it, and a link found on the list itself begins a walk at the page's top. This
  is the one place where a failure upsert must not get lost, hence `~DbFaults`.
* `MutexInv` and `FreshInv`: only the holder of `extractionMu` is inside the loop, so
  what it found not kept is still not kept when its failure is recorded. That is
  `KeptStaysKept`; two page calls have nothing like it, and run Demotion shows what that costs.

`ImplementsLedger` maps `accounted` to the entries the catalog accounts for and
`passed` to the durable offsets (0 for galleries, whose links move down): each step is `Account`, `Pass` or a stutter.

**Service.** Everything of the above that needs no mutex is proved again of `Extraction`, where page
calls run beside the scheduled runs and a restart ends both. A page call leaves the runs' own
variables alone, and all it does to the tables is a `RowsOp` that keeps what is accounted for
(`Grows`), whatever the others do: so what a run has learned at its label outlives the call's step.
`ServiceInv` is the layers `AllInv` and `CursorInv`, the types of the calls, and `LockInv` (who
holds a key lock works on an item with a key); `PassInv` comes on top as before. For the
Inbox the argument by `MutexInv` is not available. `BackedInv` replaces it by something
weaker that others cannot undo: a kept row has its bytes in the catalog, who is about to
route has them there, and who is about to update has a row. A row that is taken back to `failed` keeps its hash, which is why a
demotion does not break it.

**One page call.** `CallInv`: goroutines past the key lock hold different keys, and nobody keeps the
item that one of them found new. It holds of `JobsSpec` with at most one call; with two it is
false, as each call has its own locks.

**Routing.** `RoutingInv` is the types, `RouteInv` (a run between its first and last
statement routes a piece that names a source, what it is about to hide is in a live
folio or excused, and a backfill half way has a source), `HiddenHasSource` and
`KeptIsReachable`. `RouteInv` is needed because `KeptIsReachable` exempts the piece being
routed: it carries the obligation until the last statement.

**CacheAside.** `CountInv`: the epoch plus the bumps still to come is at most the number of
changes, so the epoch stays in its range. `FloorInv`: an entry under an epoch is not
older than that epoch's floor, and outside passthrough the current epoch's floor is
not older than `promised`. `ReaderInv`: what a reader has in hand is not older than the floor of the
epoch it read, nor that floor older than what was promised when its request came.
`LockInv`: a request that won the lock of its page and did not see it lapse still holds it, as a
release takes back its own lock only. `SingleFlight` is two winners of one page compared by it.

**JobQueue.** `PlaceInv`: a job is in the queue once, or in the hands of one worker, or nowhere any
more. So what a worker knows of the pages of its job (`CountedInv`) stays true until its
own next step, a row is closed after the last page only, and what is closed is never taken again.
`UntouchedInv` says that a job nobody has begun has neither pages nor a row. A running row is
somebody's, and when the process ends `End` moves those to `unclosed`.

**Metadata.** Outside the rows that raced, what a transaction read of the locks is still true when it
writes (`EditsReadTrue`, `ClaimsReadTrue`); without that clause `EditsStand` is not inductive, as an edit or a
claim in flight might carry anything. Every writer but an edit leaves the locks of such a row, and the
values under them, as they are (`LocksFrame`). `PieceRowHolds` carries this and the theorems about routing
over to the composition that the run checks.

**Viewer.** Everything that can change the piece on the screen goes through `Shows`
(`TurningSteps`), and `Shows` renders the panel afresh when it does (`ShowsKeeps`): so an open
form is of the shown piece, whatever list changed below it (`DraftInv`). `FocusInv` adds what
`FocusKeepsPanel` leaves out, that the panel takes the focus on the desktop only, where the
chrome decides about its visibility. `SeqInv` is for `OpenedIsShown`: away from the folio screen
a sequence that is set is a transient one, which `openPiece` drops, and on that screen the
sequence holds what the folio lists, so the piece opened is in whichever sequence is looked up. The
viewer's types rest on `DraftBelongsToPiece`: an edit that is saved is of a piece.

**Hearts.** `HeartInv(p)`, for a piece that did not go astray: without a request the override, or
the copy under it, is what the server holds; while one is sent or has failed the server still holds the opposite
of `next`; when it is served it holds `next`. A refetch may carry an old answer, which is why a
piece without an override needs the clause on what the refetch has read.

**Edits.** `EditsSettle` excuses `clouded` pieces only, those on which two edits met or an answer
was lost. `AloneInv`: two edits in flight meet on clouded pieces only. So what was written is what
the server holds (`WrittenInv`), what a rollback would restore is true (`PreviousInv`), and
between edits the override, or else the pages and what a refetch has read, agree with the
server (`QuietInv`). None of the four is inductive without the others.

**Pieces of a folio.** `JobInv`: what a job has added, skipped and has still to send make up
what it was asked, as numbers, and what it is done with is in the folio or was taken out. Its skips
are right because the screen's copy of the folio, however old, holds nothing that is neither in
the folio nor taken out of it (`FolioInv`).

**Folios.** `FoliosListed`: while no change is unheard, made but with its answer to come or lost, the list is what the
server holds, and so is what a refetch has read. An answer that arrives starts a refetch, and a
refetch that read too early is thrown away by that.

**Telegram sources.** `LoneInv`: a chain that ran alone is the only one, so the list it read is the
server's. `ShownInv`: until an answer is lost or two lists overlap, the screen is behind only of a change that was
made and whose list is to come.

**Gallery.** `Whole(k, pg)`: pages that no arrival overtook are the beginning of what the server finds
under the key, and know how much that is; it holds of what is cached and of what a fetch has
in hand. A page that is appended continues the beginning (`PageContinues`), and pages with
nothing more to load are all of it. That says little unless `Found` is right: `FoundMatches` shows
that it has the matching pieces, all of them and no others. `Found` is a recursive
function, and the library's induction theorems take an operator that no installed prover can
instantiate, so its properties are proved by the least counterexample (`LeastOf`, from
`WFMin`): the first length at which the filter goes wrong has one below it where it does not.
That it keeps the catalog's order is not stated. All of this is about the pages the query
cache has loaded: what a mode renders of them (eight on the desktop's wall, `Gallery.tsx:1390`; a favourite first, `:1106`)
is `ListShown` in the model and in no property, and the service worker's stale page is not in this module.

**Inbox.** `InboxInv`: a request that was served has resolved its item; an item taken back has neither timer
nor dismissal out; a hidden item that still waits has a timer, or a dismissal of this mounted
screen that is sent or has failed. The last clause is what makes the restore on failure
reach the right item.

**Streams.** `StreamsVouched`: every enabled row in sight (the server's, the list's, a request's,
the one an editor was opened on) carries a vouched configuration, and an editor's key is vouched when it is
set. An editor's form may hold anything; `CanSaveEnabled` compares it with the key.

**Offline cache.** `OfflineInv`: an entry, and an answer on its way that no clearing has met, is at
least as new as every change this client knows of (`AtLeast`), and after a clearing also as new as the change it was for.
That the numbers of changes stay within `MaxWrites` is a count (`OfflineBounded`): the changes made and the mutators that
may still make one are together no more than there are mutators.

**Dashboard.** `DashboardImplements`: a behaviour of the whole is one of each of the ten parts under its own
specification, as a step of another part leaves its variables alone. `DashboardHolds` carries the
theorems of the parts over, all thirteen properties of the run, and `DashboardTyped` the types.

**Model-checked only.** Liveness (`PublishedGetsAccounted`, `RunsEnd`, `CallsReturn`,
`AcceptedJobsEnd`, `WorkersStop`), since the prover does not handle fairness and ENABLED. Every
other property of a passing run is stated by a theorem. The type
invariants of `Ingest`, `Routing` and `CacheAside` are proved and need no run.

## 6. What is abstracted, and what is left out

* Messages, HTML, captions and file names: an item is its key and the hash of its bytes.
  A feed holds items of allowed chats only.
* `DbFaults` switches the one write whose lost error lets a cursor pass an unrecorded
  item. With it on, `PassedItemsAccounted` does not hold, and the code says no more than
  a log line about it; Mixed shows what holds nevertheless.
* Valkey loses no single members: eviction or a flush of a seen-set only offers items
  again.
* Folio, backfill and Inbox changes do not bump the epoch, nor does a run that fails in
  the middle of a page: they are not writers of `CacheAside`.
* `Metadata` counts a quarantined row as a failed one (neither is downloaded), and takes the loader's rows
  one by one: its transaction holds a row's lock from the upsert to the commit.
* Ids of sources and folios are not re-used.
* One catalog page stands for all pages, which share the epoch and nothing else.
* React batches what a handler sets, and an effect runs after the render it belongs to: a handler
  with its effects is one step. Time is left out; a timer fires at some point after it
  was armed.
* The values of a stream in `StreamsScreen` are the fields of the editor's form. A save merges them over the
  stored configuration (`Streams.tsx:723`): fields the form does not show stay as they are, and
  are not sent with the test.
* Several properties of the dashboard leave out the cases in which the code itself does not settle
  (`astray`, `clouded`, `late`, overlapping chains, arrivals between pages); the
  first five entries about the dashboard in the list below are about them.
* Of texts the dashboard's modules keep whether they differ, of images nothing.
* Hearts, edits and pages of the catalog are modelled apart: the catalog's refetch is in each with
  what it holds for it.
* Row data other than status, hash, source and visibility; files on disk and EXIF.
* The components with status `not_modelled` in `PROJECT.json`, each with its reason.

### Hazards beyond those `PROJECT.json` lists

Seen in the code, and covered by no property:

* `internal/api/settings.go:174`: Create and update validate the target folio, then write in
  later statements; DeleteFolio in between leaves a stream with show_in_library off and no
  target folio, which the validation forbids.
* `internal/database/database.go:1823`: ensureConnectorTargetFolio resets the source by id only:
  an operator who has just chosen a new target finds the stream back in the library.
* `internal/cache/cache.go:94`: The request's context is used for every Valkey call: a browser
  that disconnects cancels it, and the error turns the whole process to passthrough until a
  restart.
* `internal/api/api.go:284`: The statistics cache is filled after an unlocked query: a Set that
  follows an Invalidate stores the old numbers for five minutes.
* `internal/api/sse.go:75`: handleWorkerStatus takes the queue's length for the number of busy
  workers: with a full queue workers_idle is negative, and with three jobs running and none
  waiting all workers look idle.
* `internal/scraper/scraper.go:553`: Two items with the same artist and file name download to
  one path; a failed download removes the file of the piece that was kept.
* `internal/provider/telegram/connector.go:152`: Updates of a chat that is not allowed are
  confirmed with the others; when the chat is allowed later they are gone.
* `internal/api/pieces.go:62`: An upload whose bytes belong to a row that is pending, failed or
  quarantined is answered 'duplicate' and is nowhere to be seen.
* `internal/derivatives/cache.go:283`: Two prunes of the thumbnail directory (every warm has a
  Cache of its own) each list the same files; what one has removed the other does not subtract,
  and goes on removing.
* `internal/legacyetl/loader.go:275`: Each pass reads the first rows without a hash: when that
  many originals cannot be read, no pass ever reaches the rows behind them.
* `internal/database/database.go:1738`: Two sources of one type match the same older pieces by
  provider and page: the backfills of the two, with different visibility, flip the pieces back
  and forth.
* `dashboard/src/folio/context.tsx:482`: A second click on a heart while its request is out turns the
  override and sends nothing: picture and server stay apart, and nothing repairs it.
* `dashboard/src/folio/context.tsx:996`: Of two edits of one piece that overlap, the rollback of one
  restores an override that the other has replaced, or removes the one that succeeded.
* `dashboard/src/folio/Settings.tsx:553`: The switch is not disabled while another change is out: the second
  PUTs the row as the list had it, and the lists the two read may be shown in either order.
* `dashboard/src/folio/context.tsx:443`: The next page's offset is the number of pieces loaded: a piece that
  arrives between two pages shifts them, and one is shown twice.
* `dashboard/src/api.ts:39`: A GET answered before a mutation may be stored after the stores were
  cleared: offline the old answer is shown until it expires.
* `dashboard/src/folio/PieceViewer.tsx:519`: The answer of a save closes whatever form is open by then: after
  stepping on, another piece's form with its draft.
* `dashboard/src/folio/FolioDetail.tsx:1039`: A refetch of a folio replaces the open viewer's list: a piece
  opened from outside it (a similar one) disappears under the user.
* `dashboard/src/folio/PieceViewer.tsx:365`: The flag that the panel holds the focus is cleared by blur only: a panel
  unmounted with the focus inside leaves it set, and the idle timer never hides the controls again.
* `internal/provider/webgallery/connector.go:308`: The link to the last page stays the durable cursor
  (section 4): new pieces on the list are not looked at.
* `dashboard/src/folio/context.tsx:1077`: A bulk edit rolls back every piece when its one
  request fails, also those whose single edit was answered meanwhile.
* `dashboard/src/folio/PieceViewer.tsx:509`: saveEdit compares the draft with the piece as it is
  now, not as it was when the form opened: a field another client changed meanwhile is sent back
  to its old text.
* `dashboard/src/folio/PieceViewer.tsx:479`: handleAddToFolio invalidates the piece's folios in
  the same turn as it sends the addition: the refetch may be answered before the addition, and
  nothing asks again.
* `dashboard/src/folio/ui.tsx:276`: OkfImage never resets its failed flag when its src changes:
  a tile that is given another piece, or the same one after a retry, goes on showing the matte.
* `dashboard/src/folio/FolioDetail.tsx:422`: The backdrop closes the picker while it adds; the
  answer's onClose then closes the next picker, which the user opened meanwhile.
* `dashboard/src/folio/Inbox.tsx:731`: Undo is still offered while the request is out: the item
  comes back on the screen and is skipped on the server nevertheless.
* `dashboard/src/folio/Streams.tsx:942`: A switch sends the whole row as the list has it: right
  after a save in the editor it writes the old configuration back.
* `dashboard/src/folio/Streams.tsx:914`: Promise.all rejects at the first failure: the list is
  restored and refetched while the other updates are still under way.
* `dashboard/src/folio/Settings.tsx:189`: The reading after a change fails: the change is
  reported as failed, though it was made, and the list stays old.
* `dashboard/src/folio/DestinationControls.tsx:123`: The answer of a folio's creation sets the
  destination of the form, whichever source it edits by then.
* `dashboard/src/folio/Gallery.tsx:1562`: The selection survives a change of the filters: a bulk
  edit reaches pieces that are not on the screen any more.
* `dashboard/src/folio/BulkEditBar.tsx:59`: The answer of a bulk edit clears the selection of
  the moment, also one the user has made since.
* `dashboard/src/hooks/useSSE.ts:30`: The first error closes the stream of statistics for good:
  the browser's own reconnection is given up, and nothing opens it again.
* `dashboard/src/components/Search.tsx:24`: The function that would clear the debounce timer is
  returned to an event handler, which drops it: every keystroke's timer fires, and a late one
  puts the page back to the first.
* `dashboard/src/api.ts:83`: The answer of a mutation is lost or is an error after the change
  was made: the mutator throws before it clears the offline stores.

## 7. Plan

Built: `Catalog`, `Ingest` with `Ledger`, `ScrapeJobs`, `Extraction`, `Routing` and `Metadata` with `PieceRow`,
`CacheAside`, `JobQueue`, the ten modules of the dashboard with their composition, and the proofs above.

Next modules, in this order:

1. `Metadata` composed with `PieceEdits`: what the dashboard shows of an edit that lost its race.
2. `FileStore`: downloads to one path, overwrites, removal after a failure.
3. `ThumbCache`: concurrent prunes that each list the same files; the debounce.
4. Uploads and the legacy hash pass as actions over `Catalog`; the Telegram chat filter.
5. The stats cache, the worker status and the similarity backfill.
6. Back-off, pagination and allowed pages as functions, checked against definitions.
7. `Routing` with `CacheAside`: the changes that do not bump the epoch, and streams left
   hidden without a target folio.

Next theorems: that `Found` keeps the catalog's order; `KeptNeverDemoted` of the service when the scheduled feeds and the
page calls have disjoint keys and one call runs at a time; what the code would have to change for the
three findings, as theorems with that change for a hypothesis (a `RecordFailedDownload` that spares
kept rows makes `KeptNeverDemoted` one of the whole service); the safety half of `RunsEnd`, that
a run holds `extractionMu` only between `begin` and its last save.
