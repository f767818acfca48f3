------------------------------ MODULE Metadata ------------------------------
(***************************************************************************)
(* The fields of a piece that an operator may edit and the locks that keep *)
(* automatic writes from them (manual_fields; internal/api/metadata.go,    *)
(* internal/database/database.go).  An edit, of one piece or in bulk,      *)
(* reads the rows, merges the locks and writes in one transaction, under   *)
(* PostgreSQL's default isolation: what it read may have changed when it   *)
(* writes.  The ingest claims a row that is not downloaded in the same     *)
(* way; the legacy loader decides about the locks in its one statement.    *)
(***************************************************************************)
EXTENDS Naturals

CONSTANTS
  MetaRows,      \* pieces, by url_hash
  MetaFields,    \* title, artist, date, keywords, note
  LoaderFields,  \* those the legacy loader writes: title, artist, date
  MaxMetaEdits,  \* bound: edits in a behaviour
  MetaRuns       \* ingest paths, scheduled or of a page call

ASSUME MetadataAssumption ==
  MetaRows # {} /\ LoaderFields \subseteq MetaFields /\ MaxMetaEdits \in Nat

MetaEdits == 1..MaxMetaEdits
Automatic == 0     \* a value that no operator wrote; an edit's number is the value it writes
MetaValues == 0..MaxMetaEdits
\* Any status but downloaded may be claimed: quarantined counts as failed.
RowStates == {"absent", "pending", "failed", "downloaded"}

VARIABLES
  metaRow,    \* downloaded_photos: status, the fields, manual_fields
  metaEdit,   \* the edits: the rows and fields they are of, the locks they read
  claiming,   \* the claims of rows that are not downloaded, with the row they read
  wanted,     \* history: the last edit of each field, which the operator was told is saved
  raced       \* history: rows an edit wrote between another transaction's read and write

metadataVars == <<metaRow, metaEdit, claiming, wanted, raced>>

Untouched == [f \in MetaFields |-> Automatic]
NoMetaRow == [status |-> "absent", fields |-> Untouched, manual |-> {}]
MetaRowStates == [status : RowStates, fields : [MetaFields -> MetaValues], manual : SUBSET MetaFields]
WithStatus(row, status) == [status |-> status, fields |-> row.fields, manual |-> row.manual]
NoMetaEdit == [at |-> "none", rows |-> {}, fields |-> {}, saw |-> [r \in MetaRows |-> {}]]
NoClaim == [at |-> "none", of |-> CHOOSE r \in MetaRows : TRUE, saw |-> NoMetaRow]

MetadataTypeOK ==
  /\ metaRow \in [MetaRows -> MetaRowStates]
  /\ metaEdit \in [MetaEdits -> [at : {"none", "read", "done"}, rows : SUBSET MetaRows,
                                 fields : SUBSET MetaFields, saw : [MetaRows -> SUBSET MetaFields]]]
  /\ claiming \in [MetaRuns -> [at : {"none", "conflict", "read"}, of : MetaRows, saw : MetaRowStates]]
  /\ wanted \in [MetaRows -> [MetaFields -> MetaValues]]
  /\ raced \subseteq MetaRows

\* A transaction other than edit e's has read the row and not written it yet.
OthersHaveRead(e, r) ==
  \/ \E k \in MetaEdits \ {e} : metaEdit[k].at = "read" /\ r \in metaEdit[k].rows
  \/ \E c \in MetaRuns : claiming[c].at = "read" /\ claiming[c].of = r

------------------------------------------------------------------------------
(* Edits *)

\* handleUpdatePieceMetadata (one row), handleBulkEditCatalog (the ids that exist): the
\* transaction begins and reads.
EditReads(e, rows, fields) ==
  /\ metaEdit[e].at = "none" /\ \A k \in MetaEdits : k < e => metaEdit[k].at # "none"
  /\ rows # {} /\ fields # {} /\ \A r \in rows : metaRow[r].status # "absent"
  /\ metaEdit' = [metaEdit EXCEPT ![e] =
       [at |-> "read", rows |-> rows, fields |-> fields,
        saw |-> [r \in MetaRows |-> IF r \in rows THEN metaRow[r].manual ELSE {}]]]
  /\ UNCHANGED <<metaRow, claiming, wanted, raced>>

\* mergeManualFields.
MergedLocks(saw, fields) == saw \cup fields

\* UpdateColumns of every row and the commit.  The rows of a bulk edit become visible
\* together, and whoever else writes one of them meanwhile waits.
EditWrites(e) ==
  LET d == metaEdit[e]
  IN /\ d.at = "read"
     /\ metaRow' = [r \in MetaRows |->
          IF r \notin d.rows THEN metaRow[r]
          ELSE [status |-> metaRow[r].status, manual |-> MergedLocks(d.saw[r], d.fields),
                fields |-> [f \in MetaFields |-> IF f \in d.fields THEN e ELSE metaRow[r].fields[f]]]]
     /\ metaEdit' = [metaEdit EXCEPT ![e] = [NoMetaEdit EXCEPT !.at = "done"]]
     /\ wanted' = [r \in MetaRows |-> [f \in MetaFields |->
          IF r \in d.rows /\ f \in d.fields THEN e ELSE wanted[r][f]]]
     /\ raced' = raced \cup {r \in d.rows : OthersHaveRead(e, r)}
     /\ UNCHANGED claiming

\* The transaction fails, or two bulk edits wait for one another and one is given up.
EditFails(e) ==
  /\ metaEdit[e].at = "read"
  /\ metaEdit' = [metaEdit EXCEPT ![e] = [NoMetaEdit EXCEPT !.at = "done"]]
  /\ UNCHANGED <<metaRow, claiming, wanted, raced>>

------------------------------------------------------------------------------
(* Ingest *)

\* RecordDownloadOrDuplicate: the insert wins, or the key is taken.
InsertPiece(c, r) ==
  /\ claiming[c].at = "none"
  /\ \/ /\ metaRow[r].status = "absent"
        /\ metaRow' = [metaRow EXCEPT ![r] = WithStatus(@, "downloaded")]
        /\ UNCHANGED claiming
     \/ /\ metaRow[r].status # "absent"
        /\ claiming' = [claiming EXCEPT ![c] = [at |-> "conflict", of |-> r, saw |-> NoMetaRow]]
        /\ UNCHANGED metaRow
  /\ UNCHANGED <<metaEdit, wanted, raced>>

\* updateNonDownloadedURLHashOwner reads the row; there is none to claim when it is downloaded.
ClaimReads(c) ==
  LET r == claiming[c].of
  IN /\ claiming[c].at = "conflict"
     /\ claiming' = [claiming EXCEPT ![c] =
          IF metaRow[r].status = "downloaded" THEN NoClaim
          ELSE [at |-> "read", of |-> r, saw |-> metaRow[r]]]
     /\ UNCHANGED <<metaRow, metaEdit, wanted, raced>>

\* Slip: the locked values are kept, and the locks are not.
LocksApplied_Dropped(saw) ==
  [status |-> "downloaded", manual |-> {},
   fields |-> [f \in MetaFields |-> IF f \in saw.manual THEN saw.fields[f] ELSE Automatic]]

\* applyManualFieldLocks and downloadAssignments.
LocksApplied(saw) ==
  [status |-> "downloaded", manual |-> saw.manual,
   fields |-> [f \in MetaFields |-> IF f \in saw.manual THEN saw.fields[f] ELSE Automatic]]

\* The update, or none: the row is downloaded by now, or its bytes are another piece's.
ClaimWrites(c) ==
  LET r == claiming[c].of
  IN /\ claiming[c].at = "read"
     /\ claiming' = [claiming EXCEPT ![c] = NoClaim]
     /\ \/ /\ metaRow[r].status # "downloaded"
           /\ metaRow' = [metaRow EXCEPT ![r] = LocksApplied(claiming[c].saw)]
        \/ UNCHANGED metaRow
     /\ UNCHANGED <<metaEdit, wanted, raced>>

\* RecordFailedDownload changes no field, whatever the status was.
FailureRecorded(r) ==
  /\ metaRow[r].status # "failed" /\ metaRow' = [metaRow EXCEPT ![r] = WithStatus(@, "failed")]
  /\ UNCHANGED <<metaEdit, claiming, wanted, raced>>

\* handleRetryPhoto does not look at the status: a downloaded row becomes pending as well.
Retried(r) ==
  /\ metaRow[r].status \notin {"absent", "pending"} /\ metaRow' = [metaRow EXCEPT ![r] = WithStatus(@, "pending")]
  /\ UNCHANGED <<metaEdit, claiming, wanted, raced>>

------------------------------------------------------------------------------
(* The legacy loader *)

\* The upsert: one statement, which looks at the locks of the row as it is.
LoaderUpserts(r) ==
  /\ \E status \in RowStates \ {"absent"} :
       metaRow' = [metaRow EXCEPT ![r] =
         [status |-> status, manual |-> metaRow[r].manual,
          fields |-> [f \in MetaFields |-> IF f \in LoaderFields /\ f \notin metaRow[r].manual
                                           THEN Automatic ELSE metaRow[r].fields[f]]]]
  /\ UNCHANGED <<metaEdit, claiming, wanted, raced>>

------------------------------------------------------------------------------
MetadataInit ==
  /\ metaRow = [r \in MetaRows |-> NoMetaRow]
  /\ metaEdit = [e \in MetaEdits |-> NoMetaEdit]
  /\ claiming = [c \in MetaRuns |-> NoClaim]
  /\ wanted = [r \in MetaRows |-> Untouched] /\ raced = {}

MetadataNext ==
  \/ \E e \in MetaEdits, rows \in SUBSET MetaRows, fields \in SUBSET MetaFields : EditReads(e, rows, fields)
  \/ \E e \in MetaEdits : EditWrites(e) \/ EditFails(e)
  \/ \E c \in MetaRuns, r \in MetaRows : InsertPiece(c, r)
  \/ \E c \in MetaRuns : ClaimReads(c) \/ ClaimWrites(c)
  \/ \E r \in MetaRows : FailureRecorded(r) \/ Retried(r) \/ LoaderUpserts(r)

MetadataSpec == MetadataInit /\ [][MetadataNext]_metadataVars

------------------------------------------------------------------------------
(* Properties *)

\* What an operator saved stands, with its lock: no ingest, retry, failure or load of the
\* legacy catalog writes over it, in any order, as long as no edit of the piece fell
\* between another transaction's read and write.
EditsStand ==
  \A r \in MetaRows \ raced, f \in MetaFields :
    wanted[r][f] # Automatic => metaRow[r].fields[f] = wanted[r][f] /\ f \in metaRow[r].manual

=============================================================================
