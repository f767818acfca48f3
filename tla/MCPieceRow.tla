----------------------------- MODULE MCPieceRow -----------------------------
(* The instance of MCRouting, with two more pieces whose fields are edited. *)
EXTENDS MCRouting, PieceRow

CONSTANTS piece1, piece2
=============================================================================
