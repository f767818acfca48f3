------------------------------- MODULE Routing -------------------------------
(***************************************************************************)
(* Where a kept piece is shown.  A connector source may route its pieces   *)
(* into a target folio and keep them out of the library ("show in library" *)
(* off).  The scheduled run routes each piece it keeps in three statements *)
(* after the row is written (ingest, ApplyConnectorSourceRouting); the     *)
(* operator meanwhile edits sources, creates and deletes folios, adds and  *)
(* removes pieces, and backfills a source (api/settings.go, api/folios.go).*)
(* Every step is one statement or one transaction; a handler that reads    *)
(* before it writes is two steps.  Ids of deleted rows are never reused.   *)
(***************************************************************************)
EXTENDS Naturals, FiniteSets

CONSTANTS
  Sources,   \* ids of connector_sources
  Folios,    \* ids of folios
  Pieces,    \* ids of downloaded_photos
  NoSource,  \* SQL NULL in connector_source_id
  NoFolio,   \* SQL NULL in target_folio_id
  Origin     \* [Pieces -> Sources]: the source whose feed holds the piece

ASSUME RoutingAssumption ==
  /\ NoSource \notin Sources
  /\ NoFolio \notin Folios
  /\ Origin \in [Pieces -> Sources]

VARIABLES
  folio,    \* which folios exist
  source,   \* connector_sources
  photo,    \* the columns of downloaded_photos that routing reads and writes
  members,  \* folio_pieces
  run,      \* the scheduled run's item after its source was looked up
  edit,     \* a create or update request for a source, half way
  fill,     \* a backfill request, half way
  add,      \* an "add piece to folio" request, half way
  excused   \* history: pieces a deletion, a removal or a stop took out of reach

tableVars == <<folio, source, photo, members>>
routingVars == <<folio, source, photo, members, run, edit, fill, add, excused>>

------------------------------------------------------------------------------
(* State *)

Life == {"unused", "live", "deleted"}
Target == Folios \cup {NoFolio}

SourceRow == [life : Life, target : Target, show : BOOLEAN]
PhotoRow == [kept : BOOLEAN, hidden : BOOLEAN, source : Sources \cup {NoSource}]

\* A copy of a source row, as a handler or a run read it.
Copy == [pc : {"idle", "record", "ensure", "unhide", "add", "hide", "commit"},
         source : Sources \cup {NoSource}, target : Target, show : BOOLEAN]
NoCopy == [pc |-> "idle", source |-> NoSource, target |-> NoFolio, show |-> TRUE]

\* The fields of a request; a field that is not given keeps its value.
Request == [pc : {"idle", "insert", "hide", "recheck", "write"},
            source : Sources \cup {NoSource},
            setTarget : BOOLEAN, target : Target, setShow : BOOLEAN, show : BOOLEAN]
NoRequest == [pc |-> "idle", source |-> NoSource, setTarget |-> FALSE, target |-> NoFolio,
              setShow |-> FALSE, show |-> TRUE]

RoutingTypeOK ==
  /\ folio \in [Folios -> Life]
  /\ source \in [Sources -> SourceRow]
  /\ photo \in [Pieces -> PhotoRow]
  /\ members \subseteq Folios \X Pieces
  /\ run \in [copy : Copy, piece : Pieces]
  /\ edit \in Request
  /\ fill \in Copy
  /\ add \subseteq Folios \X Pieces
  /\ excused \subseteq Pieces

\* Some pieces may have been kept before rows named their source.
RoutingInit ==
  /\ folio = [f \in Folios |-> "unused"]
  /\ source = [s \in Sources |-> [life |-> "unused", target |-> NoFolio, show |-> TRUE]]
  /\ \E old \in SUBSET Pieces :
       photo = [p \in Pieces |->
                  [kept |-> p \in old, hidden |-> FALSE, source |-> NoSource]]
  /\ members = {}
  /\ \E p \in Pieces : run = [copy |-> NoCopy, piece |-> p]
  /\ edit = NoRequest
  /\ fill = NoCopy
  /\ add = {}
  /\ excused = {}

SourceLive(s) == s \in Sources /\ source[s].life = "live"
FolioLive(f) == f \in Folios /\ folio[f] = "live"

\* "target folio is required when show in library is disabled"
DestinationOK(target, show) == show \/ target # NoFolio

------------------------------------------------------------------------------
(* Folios *)

CreateFolio(f) ==
  /\ folio[f] = "unused"
  /\ folio' = [folio EXCEPT ![f] = "live"]
  /\ UNCHANGED <<source, photo, members, run, edit, fill, add, excused>>

\* What a deletion of f takes out of reach: its pieces, and the one that the run is
\* about to put there.
Losing(f) ==
  {p \in Pieces :
     \/ <<f, p>> \in members
     \/ run.copy.pc = "add" /\ run.copy.target = f /\ run.piece = p}

\* One transaction: the folio, the sources that target it, its folio_pieces.
\* The pieces themselves stay as they are.
DeleteFolio(f) ==
  /\ FolioLive(f)
  /\ folio' = [folio EXCEPT ![f] = "deleted"]
  /\ source' = [s \in Sources |->
                  IF source[s].target = f
                  THEN [source[s] EXCEPT !.target = NoFolio, !.show = TRUE] ELSE source[s]]
  /\ members' = {m \in members : m[1] # f}
  /\ excused' = excused \cup Losing(f)
  /\ UNCHANGED <<photo, run, edit, fill, add>>

\* POST /folios/{id}/pieces: folio and piece are looked up, then the row inserted.
StartAdd(f, p) ==
  /\ add = {}
  /\ FolioLive(f) /\ photo[p].kept
  /\ add' = {<<f, p>>}
  /\ UNCHANGED <<folio, source, photo, members, run, edit, fill, excused>>

FinishAdd ==
  /\ add # {}
  /\ members' = members \cup add
  /\ add' = {}
  /\ UNCHANGED <<folio, source, photo, run, edit, fill, excused>>

RemovePiece(f, p) ==
  /\ FolioLive(f)
  /\ <<f, p>> \in members
  /\ members' = members \ {<<f, p>>}
  /\ excused' = excused \cup {p}
  /\ UNCHANGED <<folio, source, photo, run, edit, fill, add>>

------------------------------------------------------------------------------
(* Source settings *)

\* POST: the destination is validated, then the row inserted with show on (the
\* column's default wins over false), then show turned off.
StartCreate(s) ==
  /\ edit.pc = "idle"
  /\ source[s].life = "unused"
  /\ \E target \in Target, show \in BOOLEAN :
       /\ target = NoFolio \/ FolioLive(target)
       /\ DestinationOK(target, show)
       /\ edit' = [pc |-> "insert", source |-> s, setTarget |-> TRUE, target |-> target,
                   setShow |-> ~show, show |-> show]
  /\ UNCHANGED <<tableVars, run, fill, add, excused>>

InsertSource ==
  /\ edit.pc = "insert"
  /\ source' = [source EXCEPT ![edit.source] =
                  [life |-> "live", target |-> edit.target, show |-> TRUE]]
  /\ edit' = IF edit.setShow THEN [edit EXCEPT !.pc = "hide"] ELSE NoRequest
  /\ UNCHANGED <<folio, photo, members, run, fill, add, excused>>

\* The fields that are given are written, if the row is still there.
Written(row) ==
  IF row.life # "live" THEN row
  ELSE [row EXCEPT !.target = IF edit.setTarget THEN edit.target ELSE @,
                   !.show = IF edit.setShow THEN edit.show ELSE @]

HideSource ==
  /\ edit.pc = "hide"
  /\ source' = [source EXCEPT ![edit.source].show = @ /\ ~SourceLive(edit.source)]
  /\ edit' = NoRequest
  /\ UNCHANGED <<folio, photo, members, run, fill, add, excused>>

\* PATCH: the handler validates the destination the row would get ...
StartUpdate(s) ==
  /\ edit.pc = "idle"
  /\ SourceLive(s)
  /\ \E setTarget, setShow, show \in BOOLEAN, target \in Target :
       LET finalTarget == IF setTarget THEN target ELSE source[s].target
           finalShow == IF setShow THEN show ELSE source[s].show
       IN /\ setTarget \/ setShow
          /\ setTarget \/ target = NoFolio  \* a field that is not given has
          /\ setShow \/ show                \* one value here
          /\ finalTarget = NoFolio \/ FolioLive(finalTarget)
          /\ DestinationOK(finalTarget, finalShow)
          /\ edit' = [pc |-> "recheck", source |-> s, setTarget |-> setTarget,
                      target |-> target, setShow |-> setShow, show |-> show]
  /\ UNCHANGED <<tableVars, run, fill, add, excused>>

\* ... UpdateConnectorSource reads the row again and checks again ...
Recheck ==
  /\ edit.pc = "recheck"
  /\ LET row == Written(source[edit.source])
     IN edit' = IF SourceLive(edit.source) /\ DestinationOK(row.target, row.show)
                THEN [edit EXCEPT !.pc = "write"] ELSE NoRequest
  /\ UNCHANGED <<tableVars, run, fill, add, excused>>

\* ... and updates the given columns.
WriteSource ==
  /\ edit.pc = "write"
  /\ source' = [source EXCEPT ![edit.source] = Written(@)]
  /\ edit' = NoRequest
  /\ UNCHANGED <<folio, photo, members, run, fill, add, excused>>

DeleteSource(s) ==
  /\ SourceLive(s)
  /\ source' = [source EXCEPT ![s].life = "deleted"]
  /\ UNCHANGED <<folio, photo, members, run, edit, fill, add, excused>>

------------------------------------------------------------------------------
(* ensureConnectorTargetFolio, for the copy of a source row *)

\* The target is gone: the row, if there still is one, falls back to the library,
\* whatever its target is by now.
FallBack(s) ==
  source' = IF SourceLive(s)
            THEN [source EXCEPT ![s] = [life |-> "live", target |-> NoFolio, show |-> TRUE]]
            ELSE source

------------------------------------------------------------------------------
(* The scheduled run keeps a piece and routes it *)

RunGoto(pc) == run' = [run EXCEPT !.copy.pc = pc]
RunIdle == run' = [run EXCEPT !.copy = NoCopy]

\* connectorSourceForResolved: no row, no routing.
Lookup(p) ==
  /\ run.copy.pc = "idle"
  /\ ~photo[p].kept
  /\ LET s == Origin[p]
     IN run' = [piece |-> p,
                copy |-> IF SourceLive(s)
                         THEN [pc |-> "record", source |-> s, target |-> source[s].target,
                               show |-> source[s].show]
                         ELSE [NoCopy EXCEPT !.pc = "record"]]
  /\ UNCHANGED <<tableVars, edit, fill, add, excused>>

\* Slip: the row is hidden, but does not say which source hid it.
Record_NoSource(p) ==
  /\ run.copy.pc = "record" /\ run.piece = p
  /\ photo' = [photo EXCEPT ![p] =
                 [kept |-> TRUE, source |-> NoSource,
                  hidden |-> run.copy.target # NoFolio /\ ~run.copy.show]]
  /\ IF run.copy.source = NoSource THEN RunIdle ELSE RunGoto("ensure")
  /\ UNCHANGED <<folio, source, members, edit, fill, add, excused>>

\* RecordDownloadOrDuplicate writes the row with what routing knows by now.
Record(p) ==
  /\ run.copy.pc = "record" /\ run.piece = p
  /\ photo' = [photo EXCEPT ![p] =
                 [kept |-> TRUE, source |-> run.copy.source,
                  hidden |-> run.copy.target # NoFolio /\ ~run.copy.show]]
  /\ IF run.copy.source = NoSource THEN RunIdle ELSE RunGoto("ensure")
  /\ UNCHANGED <<folio, source, members, edit, fill, add, excused>>

\* ApplyConnectorSourceRouting: is the target folio there?
Ensure ==
  /\ run.copy.pc = "ensure"
  /\ \/ run.copy.target = NoFolio /\ RunGoto("unhide") /\ UNCHANGED source
     \/ FolioLive(run.copy.target) /\ RunGoto("add") /\ UNCHANGED source
     \/ /\ run.copy.target # NoFolio /\ ~FolioLive(run.copy.target)
        /\ FallBack(run.copy.source)
        /\ RunGoto("unhide")
  /\ UNCHANGED <<folio, photo, members, edit, fill, add, excused>>

Unhide ==
  /\ run.copy.pc = "unhide"
  /\ photo' = [photo EXCEPT ![run.piece].hidden = FALSE]
  /\ RunIdle
  /\ UNCHANGED <<folio, source, members, edit, fill, add, excused>>

\* Slip: a piece of a hidden stream is not put into the folio.
AddToFolio_ShownOnly ==
  /\ run.copy.pc = "add"
  /\ members' = IF run.copy.show THEN members \cup {<<run.copy.target, run.piece>>}
                ELSE members
  /\ RunGoto("hide")
  /\ UNCHANGED <<folio, source, photo, edit, fill, add, excused>>

\* AddPieceToFolio: folio_pieces has no foreign key.
AddToFolio ==
  /\ run.copy.pc = "add"
  /\ members' = members \cup {<<run.copy.target, run.piece>>}
  /\ RunGoto("hide")
  /\ UNCHANGED <<folio, source, photo, edit, fill, add, excused>>

Hide ==
  /\ run.copy.pc = "hide"
  /\ photo' = [photo EXCEPT ![run.piece].hidden = ~run.copy.show]
  /\ RunIdle
  /\ UNCHANGED <<folio, source, members, edit, fill, add, excused>>

\* A database error or the end of the process: a row that is written stays, and
\* the next run skips it as already kept.
RunStops ==
  /\ run.copy.pc # "idle"
  /\ RunIdle
  /\ excused' = excused \cup {run.piece}
  /\ UNCHANGED <<tableVars, edit, fill, add>>

------------------------------------------------------------------------------
(* POST /settings/connector-sources/{id}/backfill *)

ReadBackfill(s) ==
  /\ fill.pc = "idle"
  /\ SourceLive(s)
  /\ fill' = [pc |-> "ensure", source |-> s, target |-> source[s].target,
              show |-> source[s].show]
  /\ UNCHANGED <<tableVars, run, edit, add, excused>>

EnsureBackfill ==
  /\ fill.pc = "ensure"
  /\ \/ /\ fill.target = NoFolio \/ FolioLive(fill.target)
        /\ fill' = [fill EXCEPT !.pc = "commit"]
        /\ UNCHANGED source
     \/ /\ fill.target # NoFolio /\ ~FolioLive(fill.target)
        /\ FallBack(fill.source)
        /\ fill' = [fill EXCEPT !.pc = "commit", !.target = NoFolio, !.show = TRUE]
  /\ UNCHANGED <<folio, photo, members, run, edit, add, excused>>

\* The rows one backfill touches: those that name the source, or whose provider or
\* chat does (its limit of 1000 rows is above any here).
Stale(p) ==
  /\ photo[p].kept
  /\ Origin[p] = fill.source
  /\ \/ photo[p].source = NoSource
     \/ photo[p].hidden # (fill.target # NoFolio /\ ~fill.show)
     \/ fill.target # NoFolio /\ <<fill.target, p>> \notin members

Filled == {p \in Pieces : Stale(p)}

CommitBackfill ==
  /\ fill.pc = "commit"
  /\ photo' = [p \in Pieces |->
                 IF Stale(p) THEN [kept |-> TRUE, source |-> fill.source,
                                   hidden |-> fill.target # NoFolio /\ ~fill.show]
                 ELSE photo[p]]
  /\ members' = IF fill.target = NoFolio THEN members
                ELSE members \cup ({fill.target} \X Filled)
  /\ excused' = IF fill.target = NoFolio \/ FolioLive(fill.target) THEN excused
                ELSE excused \cup Filled
  /\ fill' = NoCopy
  /\ UNCHANGED <<folio, source, run, edit, add>>

------------------------------------------------------------------------------

RoutingNext ==
  \/ \E f \in Folios : CreateFolio(f) \/ DeleteFolio(f)
  \/ \E f \in Folios, p \in Pieces : StartAdd(f, p) \/ RemovePiece(f, p)
  \/ FinishAdd
  \/ \E s \in Sources :
       StartCreate(s) \/ StartUpdate(s) \/ DeleteSource(s) \/ ReadBackfill(s)
  \/ InsertSource \/ HideSource \/ Recheck \/ WriteSource
  \/ \E p \in Pieces : Lookup(p) \/ Record(p)
  \/ Ensure \/ Unhide \/ AddToFolio \/ Hide \/ RunStops
  \/ EnsureBackfill \/ CommitBackfill

RoutingSpec == RoutingInit /\ [][RoutingNext]_routingVars

------------------------------------------------------------------------------
(* Properties *)

\* The operator can find the piece: in the library, or in a folio.
Reachable(p) == ~photo[p].hidden \/ \E f \in Folios : FolioLive(f) /\ <<f, p>> \in members

\* A kept piece that is not being routed is in the library or in some folio,
\* whatever runs, edits of sources and backfills do at the same time, unless one
\* of three things happened to it: its folio was deleted, it was taken out of a
\* folio by hand, or the run stopped between keeping and routing it.
KeptIsReachable ==
  \A p \in Pieces :
    \/ ~photo[p].kept \/ p \in excused \/ Reachable(p)
    \/ run.copy.pc # "idle" /\ run.piece = p

\* A hidden row names the source that hides it, so that a backfill of that source
\* finds it: no interleaving leaves a hidden row that nothing claims.
HiddenHasSource == \A p \in Pieces : photo[p].hidden => photo[p].source # NoSource

\* The dashboard on deleting a folio: its pieces "stay in your gallery".
PiecesStayInGallery ==
  [][\A f \in Folios, p \in Pieces :
       /\ folio[f] = "live" /\ folio'[f] = "deleted"
       /\ <<f, p>> \in members /\ photo[p].kept
       => ~photo'[p].hidden]_<<folio, photo>>

==============================================================================
