------------------------------- MODULE Catalog -------------------------------
(***************************************************************************)
(* The two Postgres tables every ingest path writes: downloaded_photos     *)
(* (one row per dedupe key) and inbox_items (one row per fingerprint).     *)
(* Each operation below is one SQL statement or one transaction of         *)
(* internal/database/database.go; a caller that issues several of them is  *)
(* modelled as several steps (Ingest, ScrapeJobs).                         *)
(*                                                                         *)
(* Data is abstracted to what the guards read: a row is its status and its *)
(* content hash, an Inbox item its status and its content hash.  The rows  *)
(* keyed by the empty string and by "<provider>:discovery-error" are one   *)
(* row here, ErrorKey: no connector item has either key.                   *)
(***************************************************************************)
EXTENDS Naturals, FiniteSets

CONSTANTS
  Keys,       \* the stable dedupe keys of media items ("<provider>:<value>")
  ErrorKey,   \* stands for the synthetic keys of error rows
  Hashes,     \* sha256 content hashes
  NoHash,     \* SQL NULL in a content_hash column
  Content,    \* the bytes behind a key: Content[k] is what downloading k hashes to
  Urls,       \* source-page URLs: the row keys of the one-off legacy ETL
  SourceUrls, \* SourceUrls[k]: the URL of a web gallery item's page, else {}
  Retried,    \* bound: the rows the operator may retry
  Handled     \* bound: the Inbox items the operator may decide about

\* What a provider can list: an item with a stable key, or one without.
Entries == Keys \cup {ErrorKey}
RowKeys == Entries \cup Urls

ASSUME CatalogAssumption ==
  /\ ErrorKey \notin Keys
  /\ NoHash \notin Hashes
  /\ Content \in [Keys -> Hashes]
  /\ Urls \cap Entries = {}
  /\ SourceUrls \in [Keys -> SUBSET Urls]
  /\ Retried \subseteq RowKeys
  /\ Handled \subseteq Entries

VARIABLES
  rows,   \* downloaded_photos, by dedupe key (unique on url_hash)
  inbox   \* inbox_items, by the dedupe key of the fingerprint

catalogVars == <<rows, inbox>>

------------------------------------------------------------------------------
(* Tables *)

RowStatus == {"absent", "downloaded", "failed", "pending", "deleted"}
Row == [status : RowStatus, hash : Hashes \cup {NoHash}]
NoRow == [status |-> "absent", hash |-> NoHash]

ActiveInbox == {"duplicate", "ambiguous"}
ResolvedInbox == {"kept", "skipped", "moved"}
InboxRow == [status : {"none"} \cup ActiveInbox \cup ResolvedInbox,
             hash : Hashes \cup {NoHash}]
NoInboxRow == [status |-> "none", hash |-> NoHash]

CatalogTypeOK ==
  /\ rows \in [RowKeys -> Row]
  /\ inbox \in [Entries -> InboxRow]

\* A fresh database, but for rows the ETL brought over with a NULL hash.
CatalogInit ==
  /\ \E s \in [Urls -> {"downloaded", "failed", "deleted"}] :
       rows = [k \in RowKeys |->
                 IF k \in Urls THEN [status |-> s[k], hash |-> NoHash] ELSE NoRow]
  /\ inbox = [k \in Entries |-> NoInboxRow]

\* IsPhotoDownloaded: the row exists and its status is 'downloaded'.
IsPhotoDownloaded(k) == rows[k].status = "downloaded"

\* scraper.IsMediaAlreadyKept: under the stable key, or under the page's URL.
IsMediaAlreadyKept(k) ==
  IsPhotoDownloaded(k) \/ \E u \in SourceUrls[k] : IsPhotoDownloaded(u)

\* Another row, whatever its status, holds the hash in the partial unique index.
HashTaken(k) == \E j \in RowKeys \ {k} : rows[j].hash = Content[k]

------------------------------------------------------------------------------
(* RecordDownloadOrDuplicate: INSERT, then UPDATE of a row that is not yet *)
(* downloaded, then the Inbox; each step is its own statement.             *)

DownloadedRow(k) == [status |-> "downloaded", hash |-> Content[k]]

\* Slip: the partial unique index on content_hash is missing.
InsertWins_IgnoresHash(k) ==
  /\ rows[k].status = "absent"
  /\ rows' = [rows EXCEPT ![k] = DownloadedRow(k)]
  /\ UNCHANGED inbox

\* Neither unique index is violated: the row is created.
InsertWins(k) ==
  /\ rows[k].status = "absent"
  /\ ~HashTaken(k)
  /\ rows' = [rows EXCEPT ![k] = DownloadedRow(k)]
  /\ UNCHANGED inbox

\* 23505 on the url_hash index: the key already has a row.
InsertHitsKey(k) ==
  /\ rows[k].status # "absent"
  /\ UNCHANGED catalogVars

\* 23505 on the content_hash index only.
InsertHitsHash(k) ==
  /\ rows[k].status = "absent"
  /\ HashTaken(k)
  /\ UNCHANGED catalogVars

\* Slip: taking over a row is not subject to the content_hash index.
UpdateWins_IgnoresHash(k) ==
  /\ rows[k].status \notin {"absent", "downloaded"}
  /\ rows' = [rows EXCEPT ![k] = DownloadedRow(k)]
  /\ UNCHANGED inbox

\* updateNonDownloadedURLHashOwner takes over a failed, pending or deleted row.
UpdateWins(k) ==
  /\ rows[k].status \notin {"absent", "downloaded"}
  /\ ~HashTaken(k)
  /\ rows' = [rows EXCEPT ![k] = DownloadedRow(k)]
  /\ UNCHANGED inbox

\* The row is downloaded after all, or the update violates content_hash.
UpdateLoses(k) ==
  /\ rows[k].status \in {"absent", "downloaded"} \/ HashTaken(k)
  /\ UNCHANGED catalogVars

\* Slip: the upsert also assigns the status.
RecordInboxException_Reopens(k, status, hash) ==
  /\ inbox' = [inbox EXCEPT
       ![k] = [status |-> status, hash |-> IF hash = NoHash THEN @.hash ELSE hash]]
  /\ UNCHANGED rows

\* RecordInboxException: an upsert that never touches an existing status.
RecordInboxException(k, status, hash) ==
  /\ inbox' = [inbox EXCEPT
       ![k] = [status |-> IF @.status = "none" THEN status ELSE @.status,
               hash |-> IF hash = NoHash THEN @.hash ELSE hash]]
  /\ UNCHANGED rows

------------------------------------------------------------------------------
(* The other writes of a row *)

\* RecordFailedDownload upserts 'failed' whatever the row's status is.
RecordFailedDownload(k) ==
  /\ rows' = [rows EXCEPT ![k].status = "failed"]
  /\ UNCHANGED inbox

\* Slip: a retry starts from scratch and clears the content hash as well.
ResetPhotoStatus_ForgetsHash(k) ==
  /\ rows[k].status # "absent"
  /\ rows' = [rows EXCEPT ![k] = [status |-> "pending", hash |-> NoHash]]
  /\ UNCHANGED inbox

\* ResetPhotoStatus (POST /photos/retry) has no guard on the old status.
ResetPhotoStatus(k) ==
  /\ rows[k].status # "absent"
  /\ rows' = [rows EXCEPT ![k].status = "pending"]
  /\ UNCHANGED inbox

------------------------------------------------------------------------------
(* The operator's decisions about Inbox items *)

\* ResolveInboxItem, from the keep and the skip endpoint.
ResolveInboxItem(k) ==
  /\ inbox[k].status \in ActiveInbox
  /\ \E s \in {"kept", "skipped"} : inbox' = [inbox EXCEPT ![k].status = s]
  /\ UNCHANGED rows

\* MoveInboxItemToFolio needs a downloaded piece with the item's hash.
MoveInboxItem(k) ==
  /\ inbox[k].status \in ActiveInbox
  /\ inbox[k].hash # NoHash
  /\ \E j \in Keys : IsPhotoDownloaded(j) /\ rows[j].hash = inbox[k].hash
  /\ inbox' = [inbox EXCEPT ![k].status = "moved"]
  /\ UNCHANGED rows

\* DeleteInboxItem (dismiss) removes the row of an active exception.
DeleteInboxItem(k) ==
  /\ inbox[k].status \in ActiveInbox
  /\ inbox' = [inbox EXCEPT ![k] = NoInboxRow]
  /\ UNCHANGED rows

\* What the operator can do to the catalog from the dashboard.
OperatorAct ==
  \/ \E k \in Retried : ResetPhotoStatus(k)
  \/ \E k \in Handled : ResolveInboxItem(k) \/ MoveInboxItem(k) \/ DeleteInboxItem(k)

------------------------------------------------------------------------------
(* Properties of the tables, for every module that writes them *)

\* The key has a row (of its own, or of the ETL under its page's URL), or its
\* bytes are in the catalog under another key.
Accounted(k) ==
  \/ rows[k].status # "absent"
  \/ k \in Keys /\ \E u \in SourceUrls[k] : rows[u].status # "absent"
  \/ k \in Keys /\ \E j \in Keys : rows[j].hash = Content[k]

\* Exact dedupe: no two rows hold the same content hash, whatever path
\* (scheduled run, page job, retry of a failed row) wrote them.
UniqueContent ==
  \A j, k \in RowKeys :
    rows[j].hash = rows[k].hash /\ rows[j].hash # NoHash => j = k

\* A duplicate parked in the Inbox with a hash points at bytes the catalog holds.
InboxBacked ==
  \A k \in Entries :
    inbox[k].hash # NoHash => \E j \in Keys : rows[j].hash = inbox[k].hash

\* A decision of the operator is final: re-recording the same exception never
\* puts a kept, skipped or moved item back among the active ones.
ResolvedStaysResolved ==
  [][\A k \in Entries :
       inbox[k].status \in ResolvedInbox => inbox'[k].status = inbox[k].status]_inbox

\* A kept piece leaves 'downloaded' only for 'pending', by the operator's retry:
\* no ingest path demotes it to 'failed' (the file and the hash stay behind).
KeptNeverDemoted ==
  [][\A k \in RowKeys :
       rows[k].status = "downloaded" => rows'[k].status \in {"downloaded", "pending"}]_rows

==============================================================================
