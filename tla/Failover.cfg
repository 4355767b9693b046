SPECIFICATION FairFailoverSpec

CONSTANTS
  None = None
  p1 = p1
  img1 = img1
  img2 = img2
  routeA = routeA
  q1 = q1
  Names = {p1}
  Images = {img1, img2}
  Routes = {routeA}
  BadRoutes = {}
  Quantities = {q1}
  BadQuantities = {}
  Specs <- TwoImages
  HalfRange = 4
  HasGC = FALSE
  Foreign = FALSE
  Handovers = 1
  LatePasses = 1
  Budget <- TwoUserActions

INVARIANTS
  LeaderHasConverged

PROPERTIES
  
  HandoverSettles

