------------------------------- MODULE Ingest --------------------------------
(***************************************************************************)
(* The scheduled connector runs: cron ticks (internal/scheduler), the page *)
(* loop (internal/ingest) and the download path it calls (internal/        *)
(* scraper), over the catalog, the Valkey sets that short-cut it, and the  *)
(* durable connector_state row.  The process may stop at any step and be   *)
(* started again; the tables and Valkey survive.                           *)
(*                                                                         *)
(* A feed is the sequence of what a provider publishes.  An "updates"      *)
(* provider (Telegram) serves updates after an offset and forgets those    *)
(* below the last offset it was asked for; its cursor is that offset       *)
(* (updates that carry no media of an allowed chat are not in the feed).   *)
(* A web gallery serves its pieces newest first: on numbered pages         *)
(* ("pages", page_param), on pages of which each links to the next, whose  *)
(* link is the cursor ("links", next_link), or on one page ("single",      *)
(* none).                                                                  *)
(***************************************************************************)
EXTENDS Catalog, Sequences

CONSTANTS
  Providers,     \* the connectors registered with the scheduler
  NoProvider,    \* "nobody holds extractionMu"
  Kind,          \* [Providers -> {"updates", "pages", "links", "single"}]
  Feed,          \* [Providers -> sequence of keys]; ErrorKey = item without a key
  PageSize,      \* items per page, or updates per getUpdates call
  AllowedPages,  \* scheduler.pages; {} allows every page
  KnowsHash,     \* keys whose connector gives the content hash before download
  DbFaults       \* TRUE: a RecordFailedDownload whose error is only logged may fail

ASSUME IngestAssumption ==
  /\ NoProvider \notin Providers
  /\ Kind \in [Providers -> {"updates", "pages", "links", "single"}]
  /\ Feed \in [Providers -> Seq(Entries)]
  /\ PageSize \in Nat \ {0}
  /\ AllowedPages \in SUBSET (Nat \ {0})
  /\ KnowsHash \subseteq Keys
  /\ DbFaults \in BOOLEAN

VARIABLES
  published,     \* how much of each feed the provider has published
  confirmed,     \* updates the Telegram server has been told to forget
  state,         \* connector_state: durable cursor and last status
  lastRun,       \* status of the provider's latest extraction_runs row
  seen,          \* Valkey okf:seen:<provider>
  owned,         \* Valkey okf:dh:<hash> keys
  passthrough,   \* the cache client gave up on Valkey until restart
  extractionMu,  \* the scheduler's global mutex
  pc,            \* where each connectorJob is
  page,          \* its page: the request, the items, and result.Cursor
  index          \* the item of the page it is working on

feedVars == <<published, confirmed>>
cacheVars == <<seen, owned, passthrough>>
recordVars == <<state, lastRun>>
runVars == <<pc, page, index>>
ingestVars == <<published, confirmed, state, lastRun, seen, owned, passthrough,
                extractionMu, pc, page, index>>
vars == <<rows, inbox, ingestVars>>

------------------------------------------------------------------------------
(* State *)

\* A run has ended when its pc is its outcome.
Outcome == {"completed", "failed", "permission_halt"}
InLoop == {"discover", "item", "resolve", "park", "gone", "fetch", "insert", "update",
           "route", "fail", "parked", "kept", "owner"} \cup Outcome

\* A cursor is "" (0), an update offset (the updates below it), or the link to a
\* gallery page (the piece that page began with when the link was read).  walked
\* is history: the piece the list began with when the walk that left the link
\* set out from it.
Page == [number  : Nat \ {0},      \* req.Page
         request : Nat,            \* req.Cursor
         base    : Nat,            \* updates: the position in the feed before the
                                   \* items; galleries: the first item's position
         items   : Seq(Entries),   \* page.Items
         cursor  : Nat,            \* result.Cursor
         walked  : Nat]

ConnectorState ==
  [cursor : Nat, walked : Nat, status : {"none", "running"} \cup Outcome]

\* A page that is still to be discovered; the cursor is that of s.
FreshPage(n, request, s) ==
  [number |-> n, request |-> request, base |-> 0, items |-> <<>>,
   cursor |-> s.cursor, walked |-> s.walked]
NoPage == FreshPage(1, 0, [cursor |-> 0, walked |-> 0])

IngestTypeOK ==
  /\ published \in [Providers -> Nat]
  /\ confirmed \in [Providers -> Nat]
  /\ state \in [Providers -> ConnectorState]
  /\ lastRun \in [Providers -> {"none", "running", "completed", "failed"}]
  /\ seen \in [Providers -> SUBSET Keys]
  /\ owned \subseteq Hashes
  /\ passthrough \in BOOLEAN
  /\ extractionMu \in Providers \cup {NoProvider}
  /\ pc \in [Providers -> {"idle", "waiting"} \cup InLoop]
  /\ page \in [Providers -> Page]
  /\ index \in [Providers -> Nat]

TypeOK == CatalogTypeOK /\ IngestTypeOK

IngestInit ==
  /\ published = [p \in Providers |-> 0]
  /\ confirmed = [p \in Providers |-> 0]
  /\ state = [p \in Providers |-> [cursor |-> 0, walked |-> 0, status |-> "none"]]
  /\ lastRun = [p \in Providers |-> "none"]
  /\ seen = [p \in Providers |-> {}]
  /\ owned = {}
  /\ passthrough = FALSE
  /\ extractionMu = NoProvider
  /\ pc = [p \in Providers |-> "idle"]
  /\ page = [p \in Providers |-> NoPage]
  /\ index = [p \in Providers |-> 0]

Init == CatalogInit /\ IngestInit

------------------------------------------------------------------------------
(* Helpers *)

IsLeast(n, S) == n \in S /\ \A m \in S : n <= m
Larger(m, n) == IF m < n THEN n ELSE m
Smaller(m, n) == IF m < n THEN m ELSE n

Item(p) == page[p].items[index[p]]

\* normalizeRunOptions, pageAllowed, nextAllowedAfter: the next page is the least
\* allowed one after n, and the first page the least after 0.  The scheduler
\* restricts pages for web galleries only.
PagesAfter(p, n) ==
  IF Kind[p] # "updates" /\ AllowedPages # {} THEN {m \in AllowedPages : m > n} ELSE {n + 1}

\* getUpdates(offset): up to PageSize updates the server has not forgotten.
Updates(p, base) ==
  LET size == IF base < published[p] THEN Smaller(PageSize, published[p] - base) ELSE 0
  IN [n \in 1..size |-> Feed[p][base + n]]

\* pageURL: the piece the page begins with, 0 when it is past the last one.  The
\* list holds what is published at this moment.  On a site that numbers its pages
\* a linked page has been pushed down by what was published since.
FirstPieces(p) ==
  LET skip == (page[p].number - 1) * PageSize
  IN CASE Kind[p] = "pages" -> {IF skip < published[p] THEN published[p] - skip ELSE 0}
       [] Kind[p] = "links" /\ page[p].request # 0 -> page[p].request..published[p]
       [] OTHER -> {published[p]}

\* A gallery page: pieces in order, newest first.
GalleryPage(p, first) ==
  [n \in 1..Smaller(PageSize, first) |-> Feed[p][first + 1 - n]]

\* pagination.NextCursor of the page being processed, 0 for "": after the last
\* update of a batch, or the link to the pieces below the page if there are any.
NextCursor(p) ==
  LET read == Len(page[p].items)
  IN CASE Kind[p] = "updates" /\ read > 0 -> page[p].base + read
       [] Kind[p] = "links" /\ read < page[p].base -> page[p].base - read
       [] OTHER -> 0

\* result.Cursor once the page is done: "" leaves it alone.  A link found on the
\* list itself begins a walk.
PageDone(p) ==
  [cursor |-> IF NextCursor(p) # 0 THEN NextCursor(p) ELSE page[p].cursor,
   walked |-> IF Kind[p] = "links" /\ NextCursor(p) # 0 /\ page[p].request = 0
              THEN page[p].base ELSE page[p].walked]

\* pagination.HasNext, and a page that is allowed to follow.
HasNext(p) ==
  /\ NextCursor(p) # 0 \/ (Kind[p] = "pages" /\ page[p].items # <<>>)
  /\ PagesAfter(p, page[p].number) # {}

\* The next request: after skipped pages it goes without a cursor.
NextPage(p, n) ==
  FreshPage(n, IF n = page[p].number + 1 THEN NextCursor(p) ELSE 0, PageDone(p))

IsSeen(p, k) == ~passthrough /\ k \in seen[p]

At(p, l) == pc[p] = l
Goto(p, l) == pc' = [pc EXCEPT ![p] = l] /\ UNCHANGED <<page, index>>
NextItem(p) ==
  /\ pc' = [pc EXCEPT ![p] = "item"]
  /\ index' = [index EXCEPT ![p] = @ + 1]
  /\ UNCHANGED page

------------------------------------------------------------------------------
(* Scheduler: a tick takes the job's mutex, then waits for extractionMu *)

\* A cron tick.  While the job's own mutex is held, TryLock drops the tick.
Tick(p) ==
  /\ At(p, "idle")
  /\ Goto(p, "waiting")
  /\ UNCHANGED <<catalogVars, feedVars, recordVars, cacheVars, extractionMu>>

\* extractionMu is free: load the durable cursor, open an extraction_runs row.
Begin(p) ==
  /\ At(p, "waiting")
  /\ extractionMu = NoProvider
  /\ extractionMu' = p
  /\ \E n \in PagesAfter(p, 0) :
       /\ IsLeast(n, PagesAfter(p, 0))
       /\ page' = [page EXCEPT ![p] = FreshPage(n, state[p].cursor, state[p])]
  /\ pc' = [pc EXCEPT ![p] = "discover"]
  /\ index' = [index EXCEPT ![p] = 0]
  /\ lastRun' = [lastRun EXCEPT ![p] = "running"]
  /\ UNCHANGED <<catalogVars, feedVars, state, cacheVars>>

\* LoadConnectorState or StartExtractionRun fails once the mutex is taken: the
\* run is over before it started.
BeginFails(p) ==
  /\ At(p, "waiting")
  /\ extractionMu = NoProvider
  /\ Goto(p, "idle")
  /\ UNCHANGED <<catalogVars, feedVars, recordVars, cacheVars, extractionMu>>

\* The status FinishExtractionRun writes, and the row saveConnectorState writes.
RunStatus(p) == IF At(p, "completed") THEN "completed" ELSE "failed"
EndState(p) ==
  [cursor |-> page[p].cursor, walked |-> page[p].walked, status |-> pc[p]]

\* The job is over: its locals are gone, both mutexes are released.
EndRun(p) ==
  /\ pc[p] \in Outcome
  /\ pc' = [pc EXCEPT ![p] = "idle"]
  /\ page' = [page EXCEPT ![p] = NoPage]
  /\ index' = [index EXCEPT ![p] = 0]
  /\ extractionMu' = NoProvider
  /\ UNCHANGED <<catalogVars, feedVars, cacheVars>>

\* Slip: the scheduler's mutex is not released.
Finish_KeepsMutex(p) ==
  /\ pc[p] \in Outcome
  /\ lastRun' = [lastRun EXCEPT ![p] = RunStatus(p)]
  /\ state' = [state EXCEPT ![p] = EndState(p)]
  /\ pc' = [pc EXCEPT ![p] = "idle"]
  /\ page' = [page EXCEPT ![p] = NoPage]
  /\ index' = [index EXCEPT ![p] = 0]
  /\ UNCHANGED <<catalogVars, feedVars, cacheVars, extractionMu>>

\* Slip: a run that did not complete saves an empty cursor.
Finish_DropsCursor(p) ==
  /\ EndRun(p)
  /\ lastRun' = [lastRun EXCEPT ![p] = RunStatus(p)]
  /\ state' = [state EXCEPT ![p] =
                 [EndState(p) EXCEPT !.cursor = IF At(p, "completed") THEN @ ELSE 0]]

\* FinishExtractionRun, then saveConnectorState with result.Cursor.
Finish(p) ==
  /\ EndRun(p)
  /\ lastRun' = [lastRun EXCEPT ![p] = RunStatus(p)]
  /\ state' = [state EXCEPT ![p] = EndState(p)]

\* Either of the two writes fails, alone or with the other.
FinishFails(p) ==
  /\ EndRun(p)
  /\ UNCHANGED lastRun \/ lastRun' = [lastRun EXCEPT ![p] = RunStatus(p)]
  /\ UNCHANGED state \/ (UNCHANGED lastRun /\ state' = [state EXCEPT ![p] = EndState(p)])

------------------------------------------------------------------------------
(* Discovery of one page *)

\* The reply becomes the page; its items are processed in order.
Discovered(p, base, items) ==
  /\ page' = [page EXCEPT ![p].base = base, ![p].items = items]
  /\ index' = [index EXCEPT ![p] = 1]
  /\ pc' = [pc EXCEPT ![p] = "item"]

\* getUpdates with an offset makes the server forget everything below it.
Confirm(p) ==
  /\ Kind[p] = "updates"
  /\ confirmed' = [confirmed EXCEPT ![p] = Larger(@, page[p].request)]

DiscoverUpdates(p) ==
  /\ At(p, "discover")
  /\ Confirm(p)
  /\ LET base == Larger(confirmed[p], page[p].request) IN Discovered(p, base, Updates(p, base))
  /\ UNCHANGED <<catalogVars, published, recordVars, cacheVars, extractionMu>>

DiscoverGalleryPage(p) ==
  /\ At(p, "discover")
  /\ Kind[p] # "updates"
  /\ \E first \in FirstPieces(p) : Discovered(p, first, GalleryPage(p, first))
  /\ UNCHANGED <<catalogVars, feedVars, recordVars, cacheVars, extractionMu>>

\* A temporary error ends the run after its backoff, a permission error halts it;
\* the server may have acted on the offset before the reply was lost, or before
\* the lookup of the allowed chats failed.
DiscoverFails(p) ==
  /\ At(p, "discover")
  /\ \E outcome \in {"failed", "permission_halt"} : Goto(p, outcome)
  /\ Confirm(p) \/ UNCHANGED confirmed
  /\ UNCHANGED <<catalogVars, published, recordVars, cacheVars, extractionMu>>

\* not_found, parse, missing_media: a failed row under the discovery-error key.
DiscoverBroken(p) ==
  /\ At(p, "discover")
  /\ RecordFailedDownload(ErrorKey)
  /\ Goto(p, "failed")
  /\ UNCHANGED <<feedVars, recordVars, cacheVars, extractionMu>>

------------------------------------------------------------------------------
(* The item loop *)

HasItem(p) == At(p, "item") /\ index[p] <= Len(page[p].items)

\* RecordFailedDownload under the empty key; an error there is only logged.
ItemWithoutKey(p) ==
  /\ HasItem(p)
  /\ Item(p) = ErrorKey
  /\ RecordFailedDownload(ErrorKey) \/ (DbFaults /\ UNCHANGED catalogVars)
  /\ NextItem(p)
  /\ UNCHANGED <<feedVars, recordVars, cacheVars, extractionMu>>

ItemSeen(p) ==
  /\ HasItem(p)
  /\ Item(p) # ErrorKey
  /\ IsSeen(p, Item(p))
  /\ NextItem(p)
  /\ UNCHANGED <<catalogVars, feedVars, recordVars, cacheVars, extractionMu>>

\* cache.MarkSeen is a no-op in passthrough.
MarkSeen(p, k) ==
  /\ seen' = [seen EXCEPT ![p] = IF passthrough THEN @ ELSE @ \cup {k}]
  /\ UNCHANGED <<owned, passthrough>>

\* IsMediaAlreadyKept says yes.
ItemKept(p) ==
  /\ HasItem(p)
  /\ Item(p) # ErrorKey
  /\ ~IsSeen(p, Item(p))
  /\ IsMediaAlreadyKept(Item(p))
  /\ MarkSeen(p, Item(p))
  /\ NextItem(p)
  /\ UNCHANGED <<catalogVars, feedVars, recordVars, extractionMu>>

\* Slip: the seen-set alone decides whether an item is new.
ItemNew_SkipsKeptCheck(p) ==
  /\ HasItem(p)
  /\ Item(p) # ErrorKey
  /\ ~IsSeen(p, Item(p))
  /\ Goto(p, "resolve")
  /\ UNCHANGED <<catalogVars, feedVars, recordVars, cacheVars, extractionMu>>

\* Slip: the item is marked seen before anything is recorded of it.
ItemNew_MarksFirst(p) ==
  /\ HasItem(p)
  /\ Item(p) # ErrorKey
  /\ ~IsSeen(p, Item(p))
  /\ ~IsMediaAlreadyKept(Item(p))
  /\ MarkSeen(p, Item(p))
  /\ Goto(p, "resolve")
  /\ UNCHANGED <<catalogVars, feedVars, recordVars, extractionMu>>

ItemNew(p) ==
  /\ HasItem(p)
  /\ Item(p) # ErrorKey
  /\ ~IsSeen(p, Item(p))
  /\ ~IsMediaAlreadyKept(Item(p))
  /\ Goto(p, "resolve")
  /\ UNCHANGED <<catalogVars, feedVars, recordVars, cacheVars, extractionMu>>

\* Slip: a known hash is parked without asking for its owner.
Resolve_NoOwnerCheck(p) ==
  /\ At(p, "resolve")
  /\ Goto(p, IF Item(p) \in KnowsHash THEN "park" ELSE "fetch")
  /\ UNCHANGED <<catalogVars, feedVars, recordVars, cacheVars, extractionMu>>

\* ResolveMedia answers.  With a known hash that Valkey has an owner for, the
\* item is parked as a duplicate without a download.
Resolve(p) ==
  /\ At(p, "resolve")
  /\ LET k == Item(p)
         hit == ~passthrough /\ k \in KnowsHash /\ Content[k] \in owned
     IN Goto(p, IF hit THEN "park" ELSE "fetch")
  /\ UNCHANGED <<catalogVars, feedVars, recordVars, cacheVars, extractionMu>>

\* not_found, parse, missing_media: the item fails and the loop goes on.
ResolveGone(p) ==
  /\ At(p, "resolve")
  /\ Goto(p, "gone")
  /\ UNCHANGED <<catalogVars, feedVars, recordVars, cacheVars, extractionMu>>

\* A retryable or permission error stops the run with the cursor where it was.
ResolveStops(p) ==
  /\ At(p, "resolve")
  /\ \E outcome \in {"failed", "permission_halt"} : Goto(p, outcome)
  /\ UNCHANGED <<catalogVars, feedVars, recordVars, cacheVars, extractionMu>>

\* recordInboxDuplicate of a known hash; MarkSeen and the next item follow.
Park(p) ==
  /\ At(p, "park")
  /\ RecordInboxException(Item(p), "duplicate", Content[Item(p)])
  /\ Goto(p, "parked")
  /\ UNCHANGED <<feedVars, recordVars, cacheVars, extractionMu>>

------------------------------------------------------------------------------
(* DownloadResolvedMediaOrDuplicate *)

\* Slip: the dedupe owner is written when the bytes arrive, not when they are kept.
Download_ClaimsHash(p) ==
  /\ At(p, "fetch")
  /\ owned' = IF passthrough THEN owned ELSE owned \cup {Content[Item(p)]}
  /\ Goto(p, "insert")
  /\ UNCHANGED <<catalogVars, feedVars, recordVars, seen, passthrough, extractionMu>>

Download(p) ==
  /\ At(p, "fetch")
  /\ Goto(p, "insert")
  /\ UNCHANGED <<catalogVars, feedVars, recordVars, cacheVars, extractionMu>>

\* The download fails after its retries, or a database statement before the
\* Inbox record does: the caller records the item as failed.
DownloadFails(p) ==
  /\ pc[p] \in {"fetch", "insert", "update", "route"}
  /\ Goto(p, "fail")
  /\ UNCHANGED <<catalogVars, feedVars, recordVars, cacheVars, extractionMu>>

Insert(p) ==
  /\ At(p, "insert")
  /\ \/ InsertWins(Item(p)) /\ Goto(p, "kept")
     \/ InsertHitsKey(Item(p)) /\ Goto(p, "update")
     \/ InsertHitsHash(Item(p)) /\ Goto(p, "route")
  /\ UNCHANGED <<feedVars, recordVars, cacheVars, extractionMu>>

\* Slip: every taken key is a duplicate, a failed row of it included.
Update_RoutesAll(p) ==
  /\ At(p, "update")
  /\ Goto(p, "route")
  /\ UNCHANGED <<catalogVars, feedVars, recordVars, cacheVars, extractionMu>>

Update(p) ==
  /\ At(p, "update")
  /\ \/ UpdateWins(Item(p)) /\ Goto(p, "kept")
     \/ UpdateLoses(Item(p)) /\ Goto(p, "route")
  /\ UNCHANGED <<feedVars, recordVars, cacheVars, extractionMu>>

\* routeDuplicateToInbox, with the hash of the bytes just downloaded.
Route(p) ==
  /\ At(p, "route")
  /\ RecordInboxException(Item(p), "duplicate", Content[Item(p)])
  /\ Goto(p, "parked")
  /\ UNCHANGED <<feedVars, recordVars, cacheVars, extractionMu>>

\* Slip: the failed row is not written.
RecordFailure_Unrecorded(p) ==
  /\ pc[p] \in {"gone", "fail"}
  /\ NextItem(p)
  /\ UNCHANGED <<catalogVars, feedVars, recordVars, cacheVars, extractionMu>>

\* Slip: a failed item is marked seen as well, whether or not its row was written.
RecordFailure_MarksSeen(p) ==
  /\ pc[p] \in {"gone", "fail"}
  /\ \/ RecordFailedDownload(Item(p))
     \/ DbFaults /\ At(p, "fail") /\ UNCHANGED catalogVars
  /\ MarkSeen(p, Item(p))
  /\ NextItem(p)
  /\ UNCHANGED <<feedVars, recordVars, extractionMu>>

\* RecordFailedDownload of the item.  After a failed download its own error is
\* only logged; after a failed resolve it ends the run (see Abort).
RecordFailure(p) ==
  /\ pc[p] \in {"gone", "fail"}
  /\ \/ RecordFailedDownload(Item(p))
     \/ DbFaults /\ At(p, "fail") /\ UNCHANGED catalogVars
  /\ NextItem(p)
  /\ UNCHANGED <<feedVars, recordVars, cacheVars, extractionMu>>

\* MarkSeen after the item was kept or parked.
Mark(p) ==
  /\ \/ At(p, "parked") /\ NextItem(p)
     \/ At(p, "kept") /\ Goto(p, "owner")
  /\ MarkSeen(p, Item(p))
  /\ UNCHANGED <<catalogVars, feedVars, recordVars, extractionMu>>

\* MarkDedupeHash of a kept item (routing to folios is in module Routing).
MarkOwner(p) ==
  /\ At(p, "owner")
  /\ owned' = IF passthrough THEN owned ELSE owned \cup {Content[Item(p)]}
  /\ NextItem(p)
  /\ UNCHANGED <<catalogVars, feedVars, recordVars, seen, passthrough, extractionMu>>

------------------------------------------------------------------------------
(* End of a page, and the ways a run ends early *)

\* Slip: the cursor is saved at the end of the run only.
SavePage_NotSaved(p) ==
  /\ At(p, "item")
  /\ index[p] > Len(page[p].items)
  /\ HasNext(p)
  /\ \E n \in PagesAfter(p, page[p].number) :
       /\ IsLeast(n, PagesAfter(p, page[p].number))
       /\ page' = [page EXCEPT ![p] = NextPage(p, n)]
  /\ pc' = [pc EXCEPT ![p] = "discover"]
  /\ index' = [index EXCEPT ![p] = 0]
  /\ UNCHANGED <<catalogVars, feedVars, recordVars, cacheVars, extractionMu>>

\* saveConnectorState("running") with the new cursor, then the next page.
SavePage(p) ==
  /\ At(p, "item")
  /\ index[p] > Len(page[p].items)
  /\ state' = [state EXCEPT ![p] = [cursor |-> PageDone(p).cursor,
                                    walked |-> PageDone(p).walked, status |-> "running"]]
  /\ \/ /\ HasNext(p)
        /\ \E n \in PagesAfter(p, page[p].number) :
             /\ IsLeast(n, PagesAfter(p, page[p].number))
             /\ page' = [page EXCEPT ![p] = NextPage(p, n)]
        /\ pc' = [pc EXCEPT ![p] = "discover"]
     \/ /\ ~HasNext(p)
        /\ page' = [page EXCEPT ![p] = FreshPage(1, 0, PageDone(p))]
        /\ pc' = [pc EXCEPT ![p] = "completed"]
  /\ index' = [index EXCEPT ![p] = 0]
  /\ UNCHANGED <<catalogVars, feedVars, lastRun, cacheVars, extractionMu>>

\* UpdateExtractionRun or saveConnectorState fails: result.Cursor may already
\* be the next one, the page being done.
SavePageFails(p) ==
  /\ At(p, "item")
  /\ index[p] > Len(page[p].items)
  /\ \E s \in {page[p], PageDone(p)} : page' = [page EXCEPT ![p] = FreshPage(1, 0, s)]
  /\ pc' = [pc EXCEPT ![p] = "failed"]
  /\ index' = [index EXCEPT ![p] = 0]
  /\ UNCHANGED <<catalogVars, feedVars, recordVars, cacheVars, extractionMu>>

\* A database error on a step whose caller returns it (IsMediaAlreadyKept, the
\* Inbox record of a known hash, the failed row of an unresolved item, the lookup
\* of the connector source before a download, the routing after it).
Abort(p) ==
  /\ HasItem(p) \/ pc[p] \in {"park", "gone", "fetch", "owner"}
  /\ Goto(p, "failed")
  /\ UNCHANGED <<catalogVars, feedVars, recordVars, cacheVars, extractionMu>>

------------------------------------------------------------------------------
(* Surroundings *)

Publish(p) ==
  /\ published[p] < Len(Feed[p])
  /\ published' = [published EXCEPT ![p] = @ + 1]
  /\ UNCHANGED <<catalogVars, confirmed, recordVars, cacheVars, extractionMu, runVars>>

\* Any Valkey error: the client stays in passthrough until the process restarts.
CacheFails ==
  /\ passthrough' = TRUE
  /\ UNCHANGED <<catalogVars, feedVars, recordVars, seen, owned, extractionMu, runVars>>

\* The process dies and comes back: locals, mutexes and passthrough are gone.
Crash ==
  /\ pc' = [p \in Providers |-> "idle"]
  /\ page' = [p \in Providers |-> NoPage]
  /\ index' = [p \in Providers |-> 0]
  /\ extractionMu' = NoProvider
  /\ passthrough' = FALSE
  /\ UNCHANGED <<catalogVars, feedVars, recordVars, seen, owned>>

Operator == OperatorAct /\ UNCHANGED ingestVars

ProcessItem(p) ==
  \/ ItemWithoutKey(p) \/ ItemSeen(p) \/ ItemKept(p) \/ ItemNew(p)
  \/ Resolve(p) \/ ResolveGone(p) \/ Park(p)
  \/ Download(p) \/ DownloadFails(p) \/ Insert(p) \/ Update(p) \/ Route(p)
  \/ RecordFailure(p) \/ Mark(p) \/ MarkOwner(p)

\* A step of a run after which the run goes on or ends in good order.
RunStep(p) ==
  \/ Begin(p) \/ DiscoverUpdates(p) \/ DiscoverGalleryPage(p)
  \/ ProcessItem(p) \/ SavePage(p) \/ Finish(p)

\* An error that ends the run of p early.
RunError(p) ==
  \/ BeginFails(p) \/ DiscoverFails(p) \/ DiscoverBroken(p) \/ ResolveStops(p)
  \/ SavePageFails(p) \/ Abort(p) \/ FinishFails(p)

IngestNext ==
  \/ \E p \in Providers : Tick(p) \/ RunStep(p) \/ RunError(p) \/ Publish(p)
  \/ CacheFails

Next == IngestNext \/ Crash \/ Operator

Spec == Init /\ [][Next]_vars

------------------------------------------------------------------------------
(* Properties *)

\* The positions of a feed that the cursor of s has left behind: the updates
\* below an offset; the pieces between the linked page and where the list began
\* when the walk to it set out.
Behind(p, s) ==
  CASE Kind[p] = "updates" -> 1..s.cursor
    [] Kind[p] = "links" /\ s.cursor # 0 -> (s.cursor + 1)..s.walked
    [] OTHER -> {}

\* Between its runs and across crashes, a provider's durable cursor has left
\* behind only items that are in the catalog, as a row of their own (kept,
\* failed, pending) or as bytes another key holds: no crash, retry, dedupe hit,
\* failed download or skipped page lets an offset or a link slip over an item
\* nothing remembers.
PassedItemsAccounted ==
  \A p \in Providers : \A n \in Behind(p, state[p]) : Accounted(Feed[p][n])

\* At-least-once delivery: the server is never told to forget an update that
\* the durable cursor has not passed, so a restart is offered it again.
ConfirmedBehindCursor ==
  \A p \in Providers : confirmed[p] <= state[p].cursor

\* The Valkey seen-set only short-cuts: whatever it skips is in the catalog.
SeenAccounted ==
  \A p \in Providers : \A k \in seen[p] : Accounted(k)

\* What this module promises, seen from the outside (module Ledger).
Promise == INSTANCE Ledger WITH
  Sources <- Providers,
  Items <- Entries,
  Feeds <- Feed,
  accounted <- {k \in Entries : Accounted(k)},
  passed <- [p \in Providers |-> IF Kind[p] = "updates" THEN state[p].cursor ELSE 0]

\* Runs, crashes, retries and operators together implement the ledger: nothing
\* that was accounted for is forgotten, and a durable offset moves forward only,
\* over accounted items.
LedgerPromise == Promise!LedgerSpec

\* A hash with an owner in Valkey is held by a row, so parking an item on a
\* hit without downloading it drops no bytes.
OwnerBacked ==
  \A h \in owned : \E j \in Keys : rows[j].hash = h

==============================================================================
