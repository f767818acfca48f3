------------------------------ MODULE PieceRow ------------------------------
(***************************************************************************)
(* What may happen to a piece's row besides its bytes: the columns that    *)
(* decide where it is seen (Routing) and those an operator may edit        *)
(* (Metadata).  Neither reads a column of the other.  The one statement    *)
(* that writes both, the claim of a failed row, is in each with its own    *)
(* columns, and the others name the columns they set.  So a behaviour runs *)
(* one of the two, and the other stands still.                             *)
(***************************************************************************)
EXTENDS Routing, Metadata

VARIABLE columns   \* the part that runs

pieceRowVars == <<columns, routingVars, metadataVars>>

PieceRowInit == columns \in {"places", "fields"} /\ RoutingInit /\ MetadataInit

\* A step of one part leaves the other alone.
PlacesChange == columns = "places" /\ RoutingNext /\ UNCHANGED <<columns, metadataVars>>
FieldsChange == columns = "fields" /\ MetadataNext /\ UNCHANGED <<columns, routingVars>>

PieceRowNext == PlacesChange \/ FieldsChange

PieceRowSpec == PieceRowInit /\ [][PieceRowNext]_pieceRowVars

=============================================================================
