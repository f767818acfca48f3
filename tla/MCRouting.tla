------------------------------ MODULE MCRouting ------------------------------
(* One stream, its pieces, and the folios it may be routed to. *)
EXTENDS Routing, TLC

CONSTANTS s1, p1, f1, f2

FolioSymmetry == Permutations({f1, f2})

OneOrigin == [p \in Pieces |-> s1]
==============================================================================
