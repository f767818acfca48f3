SPECIFICATION PieceRowSpec
CONSTANTS
  s1 = s1
  p1 = p1
  f1 = f1
  f2 = f2
  Sources = {s1}
  Folios = {f1, f2}
  Pieces = {p1}
  NoSource = NoSource
  NoFolio = NoFolio
  Origin <- OneOrigin
  piece1 = piece1
  piece2 = piece2
  MetaRows = {piece1, piece2}
  MetaFields = {"title", "keywords"}
  LoaderFields = {"title"}
  MaxMetaEdits = 2
  MetaRuns = {"scheduled"}
INVARIANTS KeptIsReachable HiddenHasSource EditsStand
SYMMETRY FolioSymmetry
CHECK_DEADLOCK FALSE
