--------------------------- MODULE PieceRowProofs ----------------------------
(***************************************************************************)
(* What happens to a piece's row, for every number of streams, folios,     *)
(* pieces, edits and runs.  Routing never strands a piece by itself: a     *)
(* hidden row names its source, and a kept piece is in the library or in a *)
(* folio unless a deletion, a removal or a stopped run took it out.        *)
(* RouteInv says what the run already knows at each of its steps;          *)
(* StayReachable adds what the property needs.                             *)
(* An operator's edit stands: outside the rows that raced, what a          *)
(* transaction has read of the locks is still true when it writes, and     *)
(* every writer but an edit leaves the locks of such a row, and the values *)
(* under them, as they are.  The last part carries both over to PieceRow.  *)
(***************************************************************************)
EXTENDS PieceRow, TLAPS

(* Routing *)

\* What the run has done for its piece so far.
RouteInv ==
  /\ run.copy.pc = "record" /\ run.copy.source = NoSource => run.copy.target = NoFolio
  /\ run.copy.pc \in {"ensure", "unhide", "add", "hide"} => photo[run.piece].source # NoSource
  /\ run.copy.pc = "add" => /\ run.copy.target # NoFolio
                            /\ FolioLive(run.copy.target) \/ run.piece \in excused
  /\ run.copy.pc = "hide" =>
       \/ FolioLive(run.copy.target) /\ <<run.copy.target, run.piece>> \in members
       \/ run.piece \in excused
  /\ fill.pc # "idle" => fill.source \in Sources

RoutingInv == RoutingTypeOK /\ RouteInv /\ HiddenHasSource /\ KeptIsReachable

LEMMA InitRouting == RoutingInit => RoutingInv
<1> SUFFICES ASSUME RoutingInit PROVE RoutingInv
  OBVIOUS
<1>1. RoutingTypeOK
  BY DEF RoutingInit, RoutingTypeOK, Life, Target, SourceRow, PhotoRow, Copy, NoCopy,
         Request, NoRequest
<1>2. RouteInv /\ HiddenHasSource /\ KeptIsReachable
  BY DEF RoutingInit, RouteInv, HiddenHasSource, KeptIsReachable, Reachable, NoCopy
<1> QED BY <1>1, <1>2 DEF RoutingInv

------------------------------------------------------------------------------
(* Types *)

LEMMA CopyTyped ==
  /\ NoCopy \in Copy
  /\ \A c \in Copy, l \in {"idle", "record", "ensure", "unhide", "add", "hide", "commit"} :
       [c EXCEPT !.pc = l] \in Copy
BY DEF Copy, NoCopy, Target

LEMMA TypeStep == RoutingTypeOK /\ RouteInv /\ [RoutingNext]_routingVars => RoutingTypeOK'
<1> SUFFICES ASSUME RoutingTypeOK, RouteInv, [RoutingNext]_routingVars
             PROVE  RoutingTypeOK'
  OBVIOUS
<1> USE DEF RoutingTypeOK, Target
<1>1. ASSUME NEW f \in Folios, CreateFolio(f) \/ DeleteFolio(f) PROVE RoutingTypeOK'
  <2>1. folio' \in [Folios -> Life]
    BY <1>1 DEF CreateFolio, DeleteFolio, Life
  <2>2. source' \in [Sources -> SourceRow]
    <3>1. \A s \in Sources : [source[s] EXCEPT !.target = NoFolio, !.show = TRUE] \in SourceRow
      BY DEF SourceRow
    <3>2. CASE CreateFolio(f)
      BY <3>2 DEF CreateFolio
    <3>3. CASE DeleteFolio(f)
      <4>1. source' = [s \in Sources |->
                         IF source[s].target = f
                         THEN [source[s] EXCEPT !.target = NoFolio, !.show = TRUE] ELSE source[s]]
        BY <3>3 DEF DeleteFolio
      <4>2. \A s \in Sources : source[s] \in SourceRow
        OBVIOUS
      <4> HIDE DEF RoutingTypeOK
      <4> QED BY <3>1, <4>1, <4>2
    <3> QED BY <1>1, <3>2, <3>3
  <2>3. excused' \subseteq Pieces
    BY <1>1 DEF CreateFolio, DeleteFolio, Losing
  <2>4. UNCHANGED <<photo, run, edit, fill, add>> /\ members' \subseteq members
    BY <1>1 DEF CreateFolio, DeleteFolio
  <2> QED BY <2>1, <2>2, <2>3, <2>4
<1>2. ASSUME NEW f \in Folios, NEW p \in Pieces, StartAdd(f, p) \/ RemovePiece(f, p)
      PROVE  RoutingTypeOK'
  BY <1>2 DEF StartAdd, RemovePiece
<1>3. CASE FinishAdd
  BY <1>3 DEF FinishAdd
<1>4. ASSUME NEW s \in Sources, StartCreate(s) PROVE RoutingTypeOK'
  BY <1>4 DEF StartCreate, Request, tableVars
<1>5. ASSUME NEW s \in Sources, StartUpdate(s) PROVE RoutingTypeOK'
  <2>1. edit' \in Request
    BY <1>5 DEF StartUpdate, Request
  <2> QED BY <1>5, <2>1 DEF StartUpdate, tableVars
<1>6. ASSUME NEW s \in Sources, DeleteSource(s) PROVE RoutingTypeOK'
  BY <1>6 DEF DeleteSource, SourceRow, Life
<1>7. ASSUME NEW s \in Sources, ReadBackfill(s) PROVE RoutingTypeOK'
  <2>1. fill' \in Copy
    BY <1>7 DEF ReadBackfill, Copy, SourceRow, SourceLive
  <2> QED BY <1>7, <2>1 DEF ReadBackfill, tableVars
<1>8. CASE InsertSource
  BY <1>8 DEF InsertSource, SourceRow, Life, Request, NoRequest
<1>9. CASE HideSource
  <2>1. source' \in [Sources -> SourceRow]
    <3>1. \A row \in SourceRow, b \in BOOLEAN : [row EXCEPT !.show = b] \in SourceRow
      BY DEF SourceRow
    <3>2. \A row \in SourceRow, s \in Sources : (row.show /\ ~SourceLive(s)) \in BOOLEAN
      OBVIOUS
    <3>3. \A s \in Sources : source[s] \in SourceRow
      OBVIOUS
    <3> QED BY <1>9, <3>1, <3>2, <3>3 DEF HideSource
  <2>2. edit' \in Request
    BY <1>9 DEF HideSource, Request, NoRequest
  <2> QED BY <1>9, <2>1, <2>2 DEF HideSource
<1>10. CASE Recheck
  BY <1>10 DEF Recheck, Request, NoRequest, tableVars
<1>11. CASE WriteSource
  <2>1. \A row \in SourceRow : Written(row) \in SourceRow
    BY DEF Written, SourceRow, Request
  <2> QED BY <1>11, <2>1 DEF WriteSource, Request, NoRequest
<1>12. ASSUME NEW p \in Pieces, Lookup(p) PROVE RoutingTypeOK'
  <2>1. run' \in [copy : Copy, piece : Pieces]
    BY <1>12, RoutingAssumption DEF Lookup, Copy, NoCopy, SourceRow, SourceLive
  <2> QED BY <1>12, <2>1 DEF Lookup, tableVars
<1>13. ASSUME NEW p \in Pieces, Record(p) PROVE RoutingTypeOK'
  <2>1. run' \in [copy : Copy, piece : Pieces]
    BY <1>13, CopyTyped DEF Record, RunIdle, RunGoto
  <2>2. photo' \in [Pieces -> PhotoRow]
    BY <1>13 DEF Record, PhotoRow, Copy
  <2> QED BY <1>13, <2>1, <2>2 DEF Record
<1>14. ASSUME NEW s, FallBack(s) PROVE source' \in [Sources -> SourceRow]
  BY <1>14 DEF FallBack, SourceRow, SourceLive, Life
<1>15. CASE Ensure
  <2>1. run' \in [copy : Copy, piece : Pieces]
    BY <1>15, CopyTyped DEF Ensure, RunGoto
  <2>2. source' \in [Sources -> SourceRow]
    BY <1>15, <1>14 DEF Ensure
  <2> QED BY <1>15, <2>1, <2>2 DEF Ensure
<1>16. CASE Unhide \/ Hide
  <2>1. run' \in [copy : Copy, piece : Pieces]
    BY <1>16, CopyTyped DEF Unhide, Hide, RunIdle
  <2>2. (~run.copy.show) \in BOOLEAN /\ run.piece \in Pieces
    OBVIOUS
  <2>3. \A h \in BOOLEAN : [photo EXCEPT ![run.piece].hidden = h] \in [Pieces -> PhotoRow]
    BY <2>2 DEF PhotoRow
  <2>4. photo' \in [Pieces -> PhotoRow]
    BY <1>16, <2>2, <2>3 DEF Unhide, Hide
  <2> QED BY <1>16, <2>1, <2>4 DEF Unhide, Hide
<1>17. CASE AddToFolio
  <2>1. run' \in [copy : Copy, piece : Pieces]
    BY <1>17, CopyTyped DEF AddToFolio, RunGoto
  <2>2. run.copy.target \in Folios /\ run.piece \in Pieces
    BY <1>17 DEF AddToFolio, RouteInv, Copy
  <2> QED BY <1>17, <2>1, <2>2 DEF AddToFolio
<1>18. CASE RunStops
  <2>1. run' \in [copy : Copy, piece : Pieces]
    BY <1>18, CopyTyped DEF RunStops, RunIdle
  <2> QED BY <1>18, <2>1 DEF RunStops, tableVars
<1>19. CASE EnsureBackfill
  <2>1. fill' \in Copy
    BY <1>19 DEF EnsureBackfill, Copy
  <2>2. source' \in [Sources -> SourceRow]
    BY <1>19, <1>14 DEF EnsureBackfill
  <2> QED BY <1>19, <2>1, <2>2 DEF EnsureBackfill
<1>20. CASE CommitBackfill
  <2>1. photo' \in [Pieces -> PhotoRow]
    BY <1>20 DEF CommitBackfill, PhotoRow, Copy
  <2>2. fill' \in Copy
    BY <1>20, CopyTyped DEF CommitBackfill
  <2>3. excused' \subseteq Pieces
    BY <1>20 DEF CommitBackfill, Filled
  <2>4. members' \subseteq Folios \X Pieces
    <3>1. CASE fill.target = NoFolio
      BY <3>1, <1>20 DEF CommitBackfill
    <3>2. CASE fill.target \in Folios
      BY <3>2, <1>20 DEF CommitBackfill, Filled
    <3> QED BY <3>1, <3>2 DEF Copy
  <2> QED BY <1>20, <2>1, <2>2, <2>3, <2>4 DEF CommitBackfill
<1>21. CASE UNCHANGED routingVars
  BY <1>21 DEF routingVars
<1> QED
  BY <1>1, <1>2, <1>3, <1>4, <1>5, <1>6, <1>7, <1>8, <1>9, <1>10, <1>11, <1>12, <1>13,
     <1>15, <1>16, <1>17, <1>18, <1>19, <1>20, <1>21 DEF RoutingNext

------------------------------------------------------------------------------
(* Reachability *)

\* Whatever only adds folios, memberships or excuses keeps the invariant.
LEMMA Frame ==
  ASSUME RoutingInv, UNCHANGED <<photo, run>>, members \subseteq members',
         excused \subseteq excused', \A f : FolioLive(f) => FolioLive(f)',
         fill'.pc # "idle" => fill'.source \in Sources
  PROVE  (RouteInv /\ HiddenHasSource /\ KeptIsReachable)'
<1>1. RouteInv'
  BY DEF RoutingInv, RouteInv
<1>2. HiddenHasSource'
  BY DEF RoutingInv, HiddenHasSource
<1>3. ASSUME NEW p \in Pieces, Reachable(p) PROVE Reachable(p)'
  BY <1>3 DEF Reachable
<1>4. KeptIsReachable'
  BY <1>3 DEF RoutingInv, KeptIsReachable
<1> QED BY <1>1, <1>2, <1>4

LEMMA OperatorStep ==
  ASSUME RoutingInv,
         \/ \E f \in Folios : CreateFolio(f) \/ DeleteFolio(f)
         \/ \E f \in Folios, p \in Pieces : StartAdd(f, p) \/ RemovePiece(f, p)
         \/ FinishAdd
         \/ \E s \in Sources :
              StartCreate(s) \/ StartUpdate(s) \/ DeleteSource(s) \/ ReadBackfill(s)
         \/ InsertSource \/ HideSource \/ Recheck \/ WriteSource
         \/ EnsureBackfill \/ CommitBackfill
  PROVE  (RouteInv /\ HiddenHasSource /\ KeptIsReachable)'
<1> USE DEF RoutingInv
<1>1. ASSUME NEW f \in Folios, CreateFolio(f)
      PROVE  (RouteInv /\ HiddenHasSource /\ KeptIsReachable)'
  <2>1. \A g : FolioLive(g) => FolioLive(g)'
    BY <1>1 DEF CreateFolio, FolioLive, RoutingTypeOK
  <2> QED BY <1>1, <2>1, Frame DEF CreateFolio, RouteInv
<1>2. ASSUME NEW f \in Folios, DeleteFolio(f)
      PROVE  (RouteInv /\ HiddenHasSource /\ KeptIsReachable)'
  <2>1. \A g \in Folios \ {f} : FolioLive(g) => FolioLive(g)'
    BY <1>2 DEF DeleteFolio, FolioLive, RoutingTypeOK
  <2>2. \A g \in Folios \ {f}, p \in Pieces : <<g, p>> \in members => <<g, p>> \in members'
    BY <1>2 DEF DeleteFolio
  <2>3. UNCHANGED <<photo, run, fill>> /\ excused' = excused \cup Losing(f)
    BY <1>2 DEF DeleteFolio
  <2>4. RouteInv'
    <3>1. run.copy.pc = "add" =>
            FolioLive(run.copy.target)' \/ run.piece \in excused'
      BY <2>1, <2>3 DEF RouteInv, Losing, FolioLive, RoutingTypeOK
    <3>2. run.copy.pc = "hide" =>
            \/ FolioLive(run.copy.target)' /\ <<run.copy.target, run.piece>> \in members'
            \/ run.piece \in excused'
      BY <2>1, <2>2, <2>3 DEF RouteInv, Losing, FolioLive, RoutingTypeOK
    <3> QED BY <2>3, <3>1, <3>2 DEF RouteInv
  <2>5. HiddenHasSource'
    BY <2>3 DEF HiddenHasSource
  <2>6. KeptIsReachable'
    <3> SUFFICES ASSUME NEW p \in Pieces, p \notin excused', Reachable(p)
                 PROVE  Reachable(p)'
      BY <2>3 DEF KeptIsReachable
    <3>1. <<f, p>> \notin members
      BY <2>3 DEF Losing
    <3> QED BY <3>1, <2>1, <2>2, <2>3 DEF Reachable
  <2> QED BY <2>4, <2>5, <2>6
<1>3. ASSUME NEW f \in Folios, NEW p \in Pieces, StartAdd(f, p)
      PROVE  (RouteInv /\ HiddenHasSource /\ KeptIsReachable)'
  <2>1. \A g : FolioLive(g) => FolioLive(g)'
    BY <1>3 DEF StartAdd, FolioLive
  <2> QED BY <1>3, <2>1, Frame DEF StartAdd, RouteInv
<1>4. ASSUME NEW f \in Folios, NEW p \in Pieces, RemovePiece(f, p)
      PROVE  (RouteInv /\ HiddenHasSource /\ KeptIsReachable)'
  <2>1. /\ UNCHANGED <<photo, run, fill, folio>>
        /\ members' = members \ {<<f, p>>} /\ excused' = excused \cup {p}
    BY <1>4 DEF RemovePiece
  <2>2. RouteInv'
    BY <2>1 DEF RouteInv, FolioLive, RoutingTypeOK
  <2>3. HiddenHasSource'
    BY <2>1 DEF HiddenHasSource
  <2>4. KeptIsReachable'
    <3>1. \A q \in Pieces \ {p} : Reachable(q) => Reachable(q)'
      BY <2>1 DEF Reachable, FolioLive
    <3> QED BY <3>1, <2>1 DEF KeptIsReachable
  <2> QED BY <2>2, <2>3, <2>4
<1>5. CASE FinishAdd
  <2>1. \A g : FolioLive(g) => FolioLive(g)'
    BY <1>5 DEF FinishAdd, FolioLive
  <2> QED BY <1>5, <2>1, Frame DEF FinishAdd, RouteInv
<1>6. ASSUME NEW s \in Sources,
             StartCreate(s) \/ StartUpdate(s) \/ DeleteSource(s) \/ ReadBackfill(s)
      PROVE  (RouteInv /\ HiddenHasSource /\ KeptIsReachable)'
  <2>1. UNCHANGED <<photo, run, members, excused, folio>>
    BY <1>6 DEF StartCreate, StartUpdate, DeleteSource, ReadBackfill, tableVars
  <2>2. fill'.pc # "idle" => fill'.source \in Sources
    BY <1>6 DEF StartCreate, StartUpdate, DeleteSource, ReadBackfill, RouteInv
  <2>3. \A g : FolioLive(g) => FolioLive(g)'
    BY <2>1 DEF FolioLive
  <2> QED BY <2>1, <2>2, <2>3, Frame
<1>7. CASE InsertSource \/ HideSource \/ Recheck \/ WriteSource
  <2>1. UNCHANGED <<photo, run, members, excused, folio, fill>>
    BY <1>7 DEF InsertSource, HideSource, Recheck, WriteSource, tableVars
  <2>2. \A g : FolioLive(g) => FolioLive(g)'
    BY <2>1 DEF FolioLive
  <2> QED BY <2>1, <2>2, Frame DEF RouteInv
<1>8. CASE EnsureBackfill
  <2>1. UNCHANGED <<photo, run, members, excused, folio>>
    BY <1>8 DEF EnsureBackfill
  <2>2. fill'.source = fill.source /\ fill.pc # "idle"
    BY <1>8 DEF EnsureBackfill, RoutingTypeOK, Copy
  <2>3. \A g : FolioLive(g) => FolioLive(g)'
    BY <2>1 DEF FolioLive
  <2> QED BY <2>1, <2>2, <2>3, Frame DEF RouteInv
<1>9. CASE CommitBackfill
  <2>1. /\ UNCHANGED <<folio, run>> /\ fill'.pc = "idle" /\ fill.source \in Sources
        /\ members \subseteq members' /\ excused \subseteq excused'
    BY <1>9 DEF CommitBackfill, NoCopy, RouteInv
  <2>2. \A p \in Pieces : photo'[p].source # photo[p].source => photo'[p].source \in Sources
    BY <1>9, <2>1 DEF CommitBackfill
  <2>3. \A p \in Pieces : photo'[p].source = NoSource => photo'[p] = photo[p]
    BY <1>9, <2>1, RoutingAssumption DEF CommitBackfill
  <2>4. RouteInv'
    BY <2>1, <2>3 DEF RouteInv, FolioLive, RoutingTypeOK
  <2>5. HiddenHasSource'
    BY <2>3 DEF HiddenHasSource
  <2>6. KeptIsReachable'
    <3> SUFFICES ASSUME NEW p \in Pieces, photo'[p].kept, p \notin excused',
                        ~(run.copy.pc # "idle" /\ run.piece = p)
                 PROVE  Reachable(p)'
      BY <2>1 DEF KeptIsReachable
    <3>1. CASE Stale(p)
      <4>1. photo'[p].hidden => fill.target # NoFolio
        BY <1>9, <3>1 DEF CommitBackfill
      <4>2. CASE fill.target # NoFolio
        <5>1. FolioLive(fill.target) /\ <<fill.target, p>> \in members'
          BY <1>9, <3>1, <4>2 DEF CommitBackfill, Filled
        <5> QED BY <5>1, <2>1 DEF Reachable, FolioLive
      <4> QED BY <4>1, <4>2 DEF Reachable
    <3>2. CASE ~Stale(p)
      <4>1. photo'[p] = photo[p]
        BY <1>9, <3>2 DEF CommitBackfill
      <4>2. Reachable(p)
        BY <4>1, <2>1 DEF KeptIsReachable
      <4> QED BY <4>1, <4>2, <2>1 DEF Reachable, FolioLive
    <3> QED BY <3>1, <3>2
  <2> QED BY <2>4, <2>5, <2>6
<1> QED BY <1>1, <1>2, <1>3, <1>4, <1>5, <1>6, <1>7, <1>8, <1>9

LEMMA RoutingRunStep ==
  ASSUME RoutingInv,
         \/ \E p \in Pieces : Lookup(p) \/ Record(p)
         \/ Ensure \/ Unhide \/ AddToFolio \/ Hide \/ RunStops
  PROVE  (RouteInv /\ HiddenHasSource /\ KeptIsReachable)'
<1> USE DEF RoutingInv
<1> DEFINE l == run.copy.pc
           q == run.piece
<1>1. q \in Pieces
  BY DEF RoutingTypeOK
<1>2. ASSUME NEW p \in Pieces, Lookup(p)
      PROVE  (RouteInv /\ HiddenHasSource /\ KeptIsReachable)'
  <2>1. UNCHANGED <<photo, members, folio, excused, fill>>
    BY <1>2 DEF Lookup, tableVars
  <2>2. run'.piece = p /\ run'.copy.pc = "record"
    BY <1>2 DEF Lookup, NoCopy
  <2>3. run'.copy.source = NoSource => run'.copy.target = NoFolio
    BY <1>2, RoutingAssumption DEF Lookup, NoCopy, SourceLive
  <2>4. RouteInv'
    BY <2>1, <2>2, <2>3 DEF RouteInv
  <2>5. l = "idle" /\ ~photo[p].kept
    BY <1>2 DEF Lookup
  <2>6. HiddenHasSource' /\ KeptIsReachable'
    BY <2>1, <2>2, <2>5 DEF HiddenHasSource, KeptIsReachable, Reachable, FolioLive
  <2> QED BY <2>4, <2>6
<1>3. CASE \E p \in Pieces : Record(p)
  <2>1. /\ UNCHANGED <<members, folio, excused, fill>>
        /\ \A p \in Pieces \ {q} : photo'[p] = photo[p]
        /\ photo'[q].source = run.copy.source
        /\ photo'[q].hidden => run.copy.target # NoFolio
        /\ l = "record"
    <3>1. photo' = [photo EXCEPT ![q] =
                      [kept |-> TRUE, source |-> run.copy.source,
                       hidden |-> run.copy.target # NoFolio /\ ~run.copy.show]]
      BY <1>3 DEF Record
    <3>2. photo'[q] = [kept |-> TRUE, source |-> run.copy.source,
                       hidden |-> run.copy.target # NoFolio /\ ~run.copy.show]
      BY <1>1, <3>1 DEF RoutingTypeOK
    <3>3. photo'[q].hidden = (run.copy.target # NoFolio /\ ~run.copy.show)
      BY <3>2
    <3>4. photo'[q].source = run.copy.source
      BY <3>2
    <3>5. \A p \in Pieces \ {q} : photo'[p] = photo[p]
      BY <3>1 DEF RoutingTypeOK
    <3> QED BY <1>3, <3>3, <3>4, <3>5 DEF Record
  <2>2. /\ run'.piece = q
        /\ run'.copy.pc = IF run.copy.source = NoSource THEN "idle" ELSE "ensure"
    BY <1>3, RoutingAssumption DEF Record, RunIdle, RunGoto, NoCopy, RoutingTypeOK, Copy
  <2>3. photo'[q].hidden => photo'[q].source # NoSource
    BY <2>1 DEF RouteInv
  <2>4. RouteInv'
    BY <2>1, <2>2 DEF RouteInv
  <2>5. HiddenHasSource'
    BY <2>1, <2>3 DEF HiddenHasSource
  <2>6. KeptIsReachable'
    BY <2>1, <2>2, <2>3 DEF KeptIsReachable, Reachable, FolioLive
  <2> QED BY <2>4, <2>5, <2>6
<1>4. CASE Ensure
  <2>1. UNCHANGED <<photo, members, folio, excused, fill>> /\ l = "ensure"
    BY <1>4 DEF Ensure
  <2>2. /\ run'.piece = q /\ run'.copy.target = run.copy.target
        /\ \/ run'.copy.pc = "unhide"
           \/ /\ run'.copy.pc = "add" /\ FolioLive(run.copy.target)
              /\ run.copy.target # NoFolio
    BY <1>4, RoutingAssumption DEF Ensure, RunGoto, RoutingTypeOK, Copy, FolioLive
  <2>3. RouteInv'
    BY <2>1, <2>2 DEF RouteInv, FolioLive
  <2>4. HiddenHasSource' /\ KeptIsReachable'
    BY <2>1, <2>2 DEF HiddenHasSource, KeptIsReachable, Reachable, FolioLive
  <2> QED BY <2>3, <2>4
<1>5. CASE Unhide
  <2>1. /\ UNCHANGED <<members, folio, excused, fill>>
        /\ \A p \in Pieces \ {q} : photo'[p] = photo[p]
        /\ ~photo'[q].hidden
        /\ run'.piece = q /\ run'.copy.pc = "idle" /\ l = "unhide"
    BY <1>1, <1>5 DEF Unhide, RunIdle, NoCopy, RoutingTypeOK, PhotoRow
  <2>2. RouteInv'
    BY <2>1 DEF RouteInv
  <2>3. HiddenHasSource' /\ KeptIsReachable'
    BY <2>1 DEF HiddenHasSource, KeptIsReachable, Reachable, FolioLive
  <2> QED BY <2>2, <2>3
<1>6. CASE AddToFolio
  <2>1. /\ UNCHANGED <<photo, folio, excused, fill>>
        /\ members' = members \cup {<<run.copy.target, q>>}
        /\ run'.piece = q /\ run'.copy.pc = "hide" /\ run'.copy.target = run.copy.target
        /\ l = "add"
    BY <1>6 DEF AddToFolio, RunGoto, RoutingTypeOK, Copy
  <2>2. RouteInv'
    BY <2>1 DEF RouteInv, FolioLive
  <2>3. HiddenHasSource' /\ KeptIsReachable'
    BY <2>1 DEF HiddenHasSource, KeptIsReachable, Reachable, FolioLive
  <2> QED BY <2>2, <2>3
<1>7. CASE Hide
  <2>1. /\ UNCHANGED <<members, folio, excused, fill>>
        /\ \A p \in Pieces \ {q} : photo'[p] = photo[p]
        /\ photo'[q].source = photo[q].source
        /\ run'.piece = q /\ run'.copy.pc = "idle" /\ l = "hide"
    BY <1>1, <1>7 DEF Hide, RunIdle, NoCopy, RoutingTypeOK, PhotoRow
  <2>2. q \in excused \/ Reachable(q)'
    BY <2>1, <1>1 DEF RouteInv, Reachable, FolioLive
  <2>3. RouteInv'
    BY <2>1 DEF RouteInv
  <2>4. HiddenHasSource'
    BY <2>1 DEF HiddenHasSource, RouteInv
  <2>5. KeptIsReachable'
    <3>1. \A p \in Pieces \ {q} : Reachable(p) => Reachable(p)'
      BY <2>1 DEF Reachable, FolioLive
    <3> QED BY <2>1, <2>2, <3>1 DEF KeptIsReachable
  <2> QED BY <2>3, <2>4, <2>5
<1>8. CASE RunStops
  <2>1. /\ UNCHANGED <<photo, members, folio, fill>> /\ excused' = excused \cup {q}
        /\ run'.piece = q /\ run'.copy.pc = "idle"
    BY <1>8 DEF RunStops, RunIdle, NoCopy, RoutingTypeOK, tableVars
  <2>2. RouteInv'
    BY <2>1 DEF RouteInv
  <2>3. HiddenHasSource' /\ KeptIsReachable'
    BY <2>1 DEF HiddenHasSource, KeptIsReachable, Reachable, FolioLive
  <2> QED BY <2>2, <2>3
<1> QED BY <1>2, <1>3, <1>4, <1>5, <1>6, <1>7, <1>8

LEMMA RoutingStep == RoutingInv /\ [RoutingNext]_routingVars => RoutingInv'
<1> SUFFICES ASSUME RoutingInv, [RoutingNext]_routingVars PROVE RoutingInv'
  OBVIOUS
<1>1. RoutingTypeOK'
  BY TypeStep DEF RoutingInv
<1>2. (RouteInv /\ HiddenHasSource /\ KeptIsReachable)'
  <2>1. CASE RoutingNext
    BY <2>1, OperatorStep, RoutingRunStep DEF RoutingNext
  <2>2. CASE UNCHANGED routingVars
    <3>1. UNCHANGED <<photo, run, members, excused, folio, fill>>
      BY <2>2 DEF routingVars
    <3> QED BY <3>1 DEF RoutingInv, RouteInv, HiddenHasSource, KeptIsReachable, Reachable,
                        FolioLive
  <2> QED BY <2>1, <2>2
<1> QED BY <1>1, <1>2 DEF RoutingInv

\* The routing tables and every half-way request are well typed.
THEOREM RoutingTyped == RoutingSpec => []RoutingTypeOK
<1>1. RoutingInv => RoutingTypeOK
  BY DEF RoutingInv
<1> QED BY <1>1, InitRouting, RoutingStep, PTL DEF RoutingSpec

\* A hidden row names the source that hides it, so a backfill of the source finds it.
THEOREM HiddenIsClaimed == RoutingSpec => []HiddenHasSource
<1>1. RoutingInv => HiddenHasSource
  BY DEF RoutingInv
<1> QED BY <1>1, InitRouting, RoutingStep, PTL DEF RoutingSpec

\* A kept piece is in the library or in a folio, unless a deletion, a removal by hand
\* or a stopped run took it out.
THEOREM KeptStaysReachable == RoutingSpec => []KeptIsReachable
<1>1. RoutingInv => KeptIsReachable
  BY DEF RoutingInv
<1> QED BY <1>1, InitRouting, RoutingStep, PTL DEF RoutingSpec

------------------------------------------------------------------------------
(* Metadata *)

\* Two states of a row have the same locks, and the same values under them.
LocksAgree(x, y) == x.manual = y.manual /\ \A f \in x.manual : x.fields[f] = y.fields[f]

\* What the half-way transactions know of a row that has not raced.
EditsReadTrue ==
  \A e \in MetaEdits : metaEdit[e].at = "read" =>
    \A r \in metaEdit[e].rows \ raced : metaEdit[e].saw[r] = metaRow[r].manual
ClaimsReadTrue ==
  \A c \in MetaRuns : claiming[c].at = "read" /\ claiming[c].of \notin raced =>
    LocksAgree(claiming[c].saw, metaRow[claiming[c].of])

MetadataInv == MetadataTypeOK /\ EditsStand /\ EditsReadTrue /\ ClaimsReadTrue

\* The claim of nothing is a claim, of some row.
LEMMA NoClaimTyped ==
  NoMetaRow \in MetaRowStates /\ NoClaim \in [at : {"none", "conflict", "read"}, of : MetaRows, saw : MetaRowStates]
<1>1. NoMetaRow \in MetaRowStates
  BY MetadataAssumption DEF NoMetaRow, MetaRowStates, RowStates, Untouched, Automatic, MetaValues
<1>2. (CHOOSE r \in MetaRows : TRUE) \in MetaRows
  BY MetadataAssumption
<1> QED BY <1>1, <1>2 DEF NoClaim

LEMMA InitMetadata == MetadataInit => MetadataInv
<1> SUFFICES ASSUME MetadataInit PROVE MetadataInv
  OBVIOUS
<1>1. Automatic \in MetaValues /\ Untouched \in [MetaFields -> MetaValues]
  BY MetadataAssumption DEF Automatic, MetaValues, Untouched
<1>2. NoMetaEdit \in [at : {"none", "read", "done"}, rows : SUBSET MetaRows,
                      fields : SUBSET MetaFields, saw : [MetaRows -> SUBSET MetaFields]]
  BY DEF NoMetaEdit
<1>3. MetadataTypeOK
  BY <1>1, NoClaimTyped, <1>2 DEF MetadataInit, MetadataTypeOK
<1>4. EditsStand
  BY DEF MetadataInit, EditsStand, Untouched
<1>5. EditsReadTrue /\ ClaimsReadTrue
  BY DEF MetadataInit, EditsReadTrue, ClaimsReadTrue, NoMetaEdit, NoClaim
<1> QED BY <1>3, <1>4, <1>5 DEF MetadataInv

------------------------------------------------------------------------------
(* Types *)

\* What a claim writes is a row (applyManualFieldLocks, downloadAssignments).
LEMMA AppliedIsRow == ASSUME NEW saw \in MetaRowStates PROVE LocksApplied(saw) \in MetaRowStates
BY MetadataAssumption DEF LocksApplied, MetaRowStates, RowStates, Automatic, MetaValues

\* A row with another status is a row.
LEMMA StatusIsRow ==
  ASSUME NEW row \in MetaRowStates, NEW s \in RowStates PROVE WithStatus(row, s) \in MetaRowStates
BY DEF WithStatus, MetaRowStates

LEMMA MetadataTypeStep == MetadataTypeOK /\ [MetadataNext]_metadataVars => MetadataTypeOK'
<1> SUFFICES ASSUME MetadataTypeOK, [MetadataNext]_metadataVars PROVE MetadataTypeOK'
  OBVIOUS
<1> USE DEF MetadataTypeOK
<1>1. ASSUME NEW e \in MetaEdits, NEW rows \in SUBSET MetaRows, NEW fields \in SUBSET MetaFields,
             EditReads(e, rows, fields)
      PROVE  MetadataTypeOK'
  <2>1. \A r \in MetaRows : metaRow[r].manual \in SUBSET MetaFields
    BY DEF MetaRowStates
  <2>2. [r \in MetaRows |-> IF r \in rows THEN metaRow[r].manual ELSE {}]
          \in [MetaRows -> SUBSET MetaFields]
    BY <2>1
  <2> QED BY <1>1, <2>2 DEF EditReads
<1>2. ASSUME NEW e \in MetaEdits, EditWrites(e) PROVE MetadataTypeOK'
  <2>1. /\ metaEdit[e].rows \subseteq MetaRows /\ metaEdit[e].fields \subseteq MetaFields
        /\ metaEdit[e].saw \in [MetaRows -> SUBSET MetaFields] /\ e \in MetaValues
    BY MetadataAssumption DEF MetaEdits, MetaValues
  <2>2. metaRow' \in [MetaRows -> MetaRowStates]
    <3>1. ASSUME NEW r \in MetaRows
          PROVE  [status |-> metaRow[r].status,
                  manual |-> MergedLocks(metaEdit[e].saw[r], metaEdit[e].fields),
                  fields |-> [f \in MetaFields |-> IF f \in metaEdit[e].fields THEN e
                                                   ELSE metaRow[r].fields[f]]] \in MetaRowStates
      <4>1. /\ metaRow[r] \in MetaRowStates
            /\ [f \in MetaFields |-> IF f \in metaEdit[e].fields THEN e ELSE metaRow[r].fields[f]]
                 \in [MetaFields -> MetaValues]
            /\ MergedLocks(metaEdit[e].saw[r], metaEdit[e].fields) \in SUBSET MetaFields
        BY <2>1 DEF MetaRowStates, MergedLocks
      <4> QED BY <4>1 DEF MetaRowStates
    <3> QED BY <1>2, <3>1 DEF EditWrites
  <2>3. metaEdit' \in [MetaEdits -> [at : {"none", "read", "done"}, rows : SUBSET MetaRows,
                          fields : SUBSET MetaFields, saw : [MetaRows -> SUBSET MetaFields]]]
    BY <1>2 DEF EditWrites, NoMetaEdit
  <2>4. wanted' \in [MetaRows -> [MetaFields -> MetaValues]] /\ raced' \subseteq MetaRows
    BY <1>2, <2>1 DEF EditWrites
  <2> QED BY <1>2, <2>2, <2>3, <2>4 DEF EditWrites
<1>3. ASSUME NEW e \in MetaEdits, EditFails(e) PROVE MetadataTypeOK'
  BY <1>3 DEF EditFails, NoMetaEdit
<1>4. ASSUME NEW c \in MetaRuns, NEW r \in MetaRows, InsertPiece(c, r) PROVE MetadataTypeOK'
  <2>1. WithStatus(metaRow[r], "downloaded") \in MetaRowStates
    BY StatusIsRow DEF RowStates
  <2>2. metaRow' \in [MetaRows -> MetaRowStates]
    BY <1>4, <2>1 DEF InsertPiece
  <2>3. claiming' \in [MetaRuns -> [at : {"none", "conflict", "read"}, of : MetaRows, saw : MetaRowStates]]
    BY <1>4, NoClaimTyped DEF InsertPiece
  <2> QED BY <1>4, <2>2, <2>3 DEF InsertPiece
<1>5. ASSUME NEW c \in MetaRuns, ClaimReads(c) \/ ClaimWrites(c) PROVE MetadataTypeOK'
  <2>1. LocksApplied(claiming[c].saw) \in MetaRowStates
    BY AppliedIsRow
  <2>2. metaRow' \in [MetaRows -> MetaRowStates]
    BY <1>5, <2>1 DEF ClaimReads, ClaimWrites
  <2>3. claiming' \in [MetaRuns -> [at : {"none", "conflict", "read"}, of : MetaRows, saw : MetaRowStates]]
    <3>1. [at |-> "read", of |-> claiming[c].of, saw |-> metaRow[claiming[c].of]]
            \in [at : {"none", "conflict", "read"}, of : MetaRows, saw : MetaRowStates]
      OBVIOUS
    <3> QED BY <1>5, <3>1, NoClaimTyped DEF ClaimReads, ClaimWrites
  <2> QED BY <1>5, <2>2, <2>3 DEF ClaimReads, ClaimWrites
<1>6. ASSUME NEW r \in MetaRows, FailureRecorded(r) \/ Retried(r) PROVE MetadataTypeOK'
  <2>1. \A s \in RowStates : WithStatus(metaRow[r], s) \in MetaRowStates
    BY StatusIsRow
  <2> QED BY <1>6, <2>1 DEF FailureRecorded, Retried, RowStates
<1>7. ASSUME NEW r \in MetaRows, LoaderUpserts(r) PROVE MetadataTypeOK'
  <2>1. PICK status \in RowStates : metaRow' = [metaRow EXCEPT ![r] =
          [status |-> status, manual |-> metaRow[r].manual,
           fields |-> [f \in MetaFields |-> IF f \in LoaderFields /\ f \notin metaRow[r].manual
                                            THEN Automatic ELSE metaRow[r].fields[f]]]]
    BY <1>7 DEF LoaderUpserts
  <2>2. [f \in MetaFields |-> IF f \in LoaderFields /\ f \notin metaRow[r].manual
                              THEN Automatic ELSE metaRow[r].fields[f]] \in [MetaFields -> MetaValues]
    BY MetadataAssumption DEF MetaRowStates, Automatic, MetaValues
  <2>3. metaRow' \in [MetaRows -> MetaRowStates]
    BY <2>1, <2>2 DEF MetaRowStates
  <2> QED BY <1>7, <2>3 DEF LoaderUpserts
<1>8. CASE UNCHANGED metadataVars
  BY <1>8 DEF metadataVars
<1> QED BY <1>1, <1>2, <1>3, <1>4, <1>5, <1>6, <1>7, <1>8 DEF MetadataNext

------------------------------------------------------------------------------
(* Edits *)

\* The edit's own step: it reads the locks as they are, it merges what is still true of the
\* rows that have not raced, or it leaves nothing behind.
LEMMA EditStep ==
  ASSUME MetadataInv, NEW e \in MetaEdits,
         \/ \E rows \in SUBSET MetaRows, fields \in SUBSET MetaFields : EditReads(e, rows, fields)
         \/ EditWrites(e) \/ EditFails(e)
  PROVE  (EditsStand /\ EditsReadTrue /\ ClaimsReadTrue)'
<1> USE DEF MetadataInv
<1>1. ASSUME NEW rows \in SUBSET MetaRows, NEW fields \in SUBSET MetaFields, EditReads(e, rows, fields)
      PROVE  (EditsStand /\ EditsReadTrue /\ ClaimsReadTrue)'
  <2>1. UNCHANGED <<metaRow, claiming, wanted, raced>>
    BY <1>1 DEF EditReads
  <2>2. EditsReadTrue'
    BY <1>1, <2>1 DEF EditReads, EditsReadTrue, MetadataTypeOK
  <2> QED BY <2>1, <2>2 DEF EditsStand, ClaimsReadTrue
<1>2. CASE EditWrites(e)
  <2> DEFINE d == metaEdit[e]
  <2>1. /\ d.at = "read" /\ d.rows \subseteq MetaRows /\ UNCHANGED claiming
        /\ raced' = raced \cup {r \in d.rows : OthersHaveRead(e, r)}
        /\ metaEdit' = [metaEdit EXCEPT ![e] = [NoMetaEdit EXCEPT !.at = "done"]]
    BY <1>2 DEF EditWrites, MetadataTypeOK
  <2>2. \A r \in MetaRows \ d.rows : metaRow'[r] = metaRow[r] /\ wanted'[r] = wanted[r]
    BY <1>2 DEF EditWrites, MetadataTypeOK
  <2>3. ASSUME NEW r \in d.rows, r \notin raced', NEW f \in MetaFields, wanted'[r][f] # Automatic
        PROVE  metaRow'[r].fields[f] = wanted'[r][f] /\ f \in metaRow'[r].manual
    <3>1. /\ metaRow'[r].fields[f] = IF f \in d.fields THEN e ELSE metaRow[r].fields[f]
          /\ metaRow'[r].manual = MergedLocks(d.saw[r], d.fields)
          /\ wanted'[r][f] = IF f \in d.fields THEN e ELSE wanted[r][f]
      BY <1>2, <2>1 DEF EditWrites, MetadataTypeOK, MetaRowStates
    <3>2. d.saw[r] = metaRow[r].manual
      BY <2>1, <2>3 DEF EditsReadTrue
    <3> QED BY <2>1, <2>3, <3>1, <3>2 DEF EditsStand, MergedLocks
  <2>4. EditsStand'
    BY <2>1, <2>2, <2>3 DEF EditsStand
  <2>5. EditsReadTrue'
    <3> SUFFICES ASSUME NEW k \in MetaEdits, metaEdit'[k].at = "read",
                        NEW r \in metaEdit'[k].rows, r \notin raced'
                 PROVE  metaEdit'[k].saw[r] = metaRow'[r].manual
      BY DEF EditsReadTrue
    <3>1. k # e /\ metaEdit'[k] = metaEdit[k]
      BY <2>1 DEF NoMetaEdit, MetadataTypeOK
    <3>2. r \in MetaRows \ d.rows
      BY <2>1, <3>1 DEF OthersHaveRead, MetadataTypeOK
    <3> QED BY <2>1, <2>2, <3>1, <3>2 DEF EditsReadTrue
  <2>6. ClaimsReadTrue'
    <3> SUFFICES ASSUME NEW c \in MetaRuns, claiming[c].at = "read", claiming[c].of \notin raced'
                 PROVE  LocksAgree(claiming[c].saw, metaRow'[claiming[c].of])
      BY <2>1 DEF ClaimsReadTrue, LocksAgree
    <3>1. claiming[c].of \in MetaRows \ d.rows
      BY <2>1 DEF OthersHaveRead, MetadataTypeOK
    <3> QED BY <2>1, <2>2, <3>1 DEF ClaimsReadTrue
  <2> QED BY <2>4, <2>5, <2>6
<1>3. CASE EditFails(e)
  <2>1. UNCHANGED <<metaRow, claiming, wanted, raced>>
    BY <1>3 DEF EditFails
  <2>2. EditsReadTrue'
    BY <1>3, <2>1 DEF EditFails, EditsReadTrue, NoMetaEdit, MetadataTypeOK
  <2> QED BY <2>1, <2>2 DEF EditsStand, ClaimsReadTrue
<1> QED BY <1>1, <1>2, <1>3

------------------------------------------------------------------------------
(* Everyone else *)

\* A step that changes no lock of a row that has not raced, and no value under one, keeps
\* what the operator saved and what the edits have read.
LEMMA LocksFrame ==
  ASSUME MetadataInv, UNCHANGED <<metaEdit, wanted, raced>>,
         \A r \in MetaRows \ raced : LocksAgree(metaRow[r], metaRow'[r])
  PROVE  EditsStand' /\ EditsReadTrue'
<1>1. EditsStand'
  BY DEF MetadataInv, EditsStand, LocksAgree
<1>2. EditsReadTrue'
  BY DEF MetadataInv, EditsReadTrue, LocksAgree, MetadataTypeOK
<1> QED BY <1>1, <1>2

\* The ingest's steps.  A claim writes the locks it read, and those are still the row's.
LEMMA IngestStep ==
  ASSUME MetadataInv, NEW c \in MetaRuns,
         (\E r \in MetaRows : InsertPiece(c, r)) \/ ClaimReads(c) \/ ClaimWrites(c)
  PROVE  (EditsStand /\ EditsReadTrue /\ ClaimsReadTrue)'
<1>1. UNCHANGED <<metaEdit, wanted, raced>>
  BY DEF InsertPiece, ClaimReads, ClaimWrites
<1>2. \A r \in MetaRows \ raced : LocksAgree(metaRow[r], metaRow'[r])
  <2>1. CASE \E r \in MetaRows : InsertPiece(c, r)
    BY <2>1 DEF InsertPiece, WithStatus, LocksAgree, MetadataInv, MetadataTypeOK, MetaRowStates
  <2>2. CASE ClaimReads(c)
    BY <2>2 DEF ClaimReads, LocksAgree
  <2>3. CASE ClaimWrites(c) /\ metaRow' = metaRow
    BY <2>3 DEF LocksAgree
  <2>4. CASE ClaimWrites(c) /\ metaRow' # metaRow
    <3> DEFINE q == claiming[c].of
    <3>1. metaRow' = [metaRow EXCEPT ![q] = LocksApplied(claiming[c].saw)] /\ claiming[c].at = "read"
      BY <2>4 DEF ClaimWrites
    <3>2. q \notin raced => LocksAgree(metaRow[q], LocksApplied(claiming[c].saw))
      <4>1. q \notin raced => LocksAgree(claiming[c].saw, metaRow[q])
        BY <3>1 DEF MetadataInv, ClaimsReadTrue
      <4>2. claiming[c].saw.manual \subseteq MetaFields
        BY DEF MetadataInv, MetadataTypeOK, MetaRowStates
      <4> QED BY <4>1, <4>2 DEF LocksApplied, LocksAgree
    <3> QED BY <3>1, <3>2 DEF LocksAgree, MetadataInv, MetadataTypeOK
  <2> QED BY <2>1, <2>2, <2>3, <2>4
<1>3. ASSUME NEW k \in MetaRuns, claiming'[k].at = "read"
      PROVE  \/ claiming'[k] = claiming[k]
             \/ claiming'[k].saw = metaRow[claiming'[k].of] /\ metaRow' = metaRow
  BY <1>3 DEF InsertPiece, ClaimReads, ClaimWrites, NoClaim, MetadataInv, MetadataTypeOK
<1>4. ClaimsReadTrue'
  <2> SUFFICES ASSUME NEW k \in MetaRuns, claiming'[k].at = "read", claiming'[k].of \notin raced
               PROVE  LocksAgree(claiming'[k].saw, metaRow'[claiming'[k].of])
    BY <1>1 DEF ClaimsReadTrue, LocksAgree
  <2>1. CASE claiming'[k] = claiming[k]
    <3>1. claiming[k].of \in MetaRows \ raced
      BY <2>1 DEF MetadataInv, MetadataTypeOK
    <3> QED BY <1>2, <2>1, <3>1 DEF MetadataInv, ClaimsReadTrue, LocksAgree
  <2>2. CASE claiming'[k].saw = metaRow[claiming'[k].of] /\ metaRow' = metaRow
    BY <2>2 DEF LocksAgree
  <2> QED BY <1>3, <2>1, <2>2
<1> QED BY <1>1, <1>2, <1>4, LocksFrame

\* Failures, retries and the legacy loader look at the row as it is and spare its locks.
LEMMA RecordStep ==
  ASSUME MetadataInv, NEW q \in MetaRows, FailureRecorded(q) \/ Retried(q) \/ LoaderUpserts(q)
  PROVE  (EditsStand /\ EditsReadTrue /\ ClaimsReadTrue)'
<1>1. UNCHANGED <<metaEdit, claiming, wanted, raced>>
  BY DEF FailureRecorded, Retried, LoaderUpserts
<1>2. ASSUME NEW r \in MetaRows PROVE LocksAgree(metaRow[r], metaRow'[r])
  <2>1. metaRow[r].manual \subseteq MetaFields /\ metaRow[q] \in MetaRowStates
    BY DEF MetadataInv, MetadataTypeOK, MetaRowStates
  <2>2. CASE FailureRecorded(q) \/ Retried(q)
    <3>1. metaRow'[r] = metaRow[r] \/ \E s \in RowStates : metaRow'[r] = WithStatus(metaRow[r], s)
      BY <2>2 DEF FailureRecorded, Retried, MetadataInv, MetadataTypeOK, RowStates
    <3>2. \A s : LocksAgree(metaRow[r], WithStatus(metaRow[r], s))
      BY DEF WithStatus, LocksAgree
    <3>3. LocksAgree(metaRow[r], metaRow[r])
      BY DEF LocksAgree
    <3> QED BY <3>1, <3>2, <3>3
  <2>3. CASE LoaderUpserts(q)
    BY <2>1, <2>3 DEF LoaderUpserts, LocksAgree, MetadataInv, MetadataTypeOK, MetaRowStates
  <2> QED BY <2>2, <2>3
<1>3. ClaimsReadTrue'
  <2> SUFFICES ASSUME NEW k \in MetaRuns, claiming[k].at = "read", claiming[k].of \notin raced
               PROVE  LocksAgree(claiming[k].saw, metaRow'[claiming[k].of])
    BY <1>1 DEF ClaimsReadTrue, LocksAgree
  <2>1. claiming[k].of \in MetaRows
    BY DEF MetadataInv, MetadataTypeOK
  <2>2. LocksAgree(claiming[k].saw, metaRow[claiming[k].of])
    BY DEF MetadataInv, ClaimsReadTrue
  <2> QED BY <1>2, <2>1, <2>2 DEF LocksAgree
<1>4. EditsStand' /\ EditsReadTrue'
  <2>1. UNCHANGED <<metaEdit, wanted, raced>>
    BY <1>1
  <2>2. \A r \in MetaRows \ raced : LocksAgree(metaRow[r], metaRow'[r])
    BY <1>2
  <2> QED BY <2>1, <2>2, LocksFrame
<1> QED BY <1>3, <1>4

LEMMA MetadataStep == MetadataInv /\ [MetadataNext]_metadataVars => MetadataInv'
<1> SUFFICES ASSUME MetadataInv, [MetadataNext]_metadataVars PROVE MetadataInv'
  OBVIOUS
<1>1. MetadataTypeOK'
  BY MetadataTypeStep DEF MetadataInv
<1>2. (EditsStand /\ EditsReadTrue /\ ClaimsReadTrue)'
  <2>1. CASE UNCHANGED metadataVars
    BY <2>1 DEF metadataVars, MetadataInv, EditsStand, EditsReadTrue, ClaimsReadTrue, LocksAgree
  <2>2. CASE MetadataNext
    BY <2>2, EditStep, IngestStep, RecordStep DEF MetadataNext
  <2> QED BY <2>1, <2>2
<1> QED BY <1>1, <1>2 DEF MetadataInv

\* What an operator saved stands, with its lock, against every ingest, retry, failure and
\* legacy load, unless an edit fell between another transaction's read and its write.
THEOREM EditsAreKept == MetadataSpec => []EditsStand
<1>1. MetadataInv => EditsStand
  BY DEF MetadataInv
<1> QED BY <1>1, InitMetadata, MetadataStep, PTL DEF MetadataSpec

------------------------------------------------------------------------------
(* The row as a whole *)

\* A step of the row is a step of the one part, or leaves its columns alone; the same of
\* the other.
LEMMA PieceRowPlacesStep == [PieceRowNext]_pieceRowVars => [RoutingNext]_routingVars
  BY DEF PieceRowNext, pieceRowVars, PlacesChange, FieldsChange

LEMMA PieceRowFieldsStep == [PieceRowNext]_pieceRowVars => [MetadataNext]_metadataVars
  BY DEF PieceRowNext, pieceRowVars, PlacesChange, FieldsChange

\* The row implements both parts, so a kept piece stays reachable, a hidden one names its
\* source, and what an operator saved stands.
THEOREM PieceRowHolds ==
  PieceRowSpec => []KeptIsReachable /\ []HiddenHasSource /\ []EditsStand
<1>1. PieceRowInit => RoutingInit /\ MetadataInit
  BY DEF PieceRowInit
<1>2. PieceRowSpec => RoutingSpec /\ MetadataSpec
  BY <1>1, PieceRowPlacesStep, PieceRowFieldsStep, PTL DEF PieceRowSpec, RoutingSpec, MetadataSpec
<1> QED BY <1>2, KeptStaysReachable, HiddenIsClaimed, EditsAreKept, PTL

=============================================================================
