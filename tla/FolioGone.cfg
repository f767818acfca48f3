SPECIFICATION RoutingSpec
CONSTANTS
  s1 = s1
  p1 = p1
  f1 = f1
  f2 = f2
  Sources = {s1}
  Folios = {f1, f2}
  Pieces = {p1}
  NoSource = NoSource
  NoFolio = NoFolio
  Origin <- OneOrigin
PROPERTY PiecesStayInGallery
CHECK_DEADLOCK FALSE
