----------------------------- MODULE MCDashboard -----------------------------
(* Small instances of the dashboard's parts. *)
EXTENDS Dashboard

CONSTANTS p1, p2, b1, b2, b3

\* The gallery reorders nothing but may lose its first piece; the folio has one or none.
MCGalleryLists == {<<p1, p2>>, <<p2>>}
MCFolioLists == {<<>>, <<p1>>}

\* The panel modes that differ: pinned on a phone reads its flag like the others.
MCLayouts ==
  [mode : {"hidden", "remember"}, mobile : BOOLEAN] \cup {[mode |-> "pinned", mobile |-> FALSE]}

MCAtFirst == <<b1, b2>>

\* The views that differ in what they show or offer.
MCSkins ==
  {[mode |-> "library", mobile |-> FALSE], [mode |-> "wall", mobile |-> FALSE],
   [mode |-> "magazine", mobile |-> TRUE]}

=============================================================================
