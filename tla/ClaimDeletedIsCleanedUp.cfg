SPECIFICATION Spec

CONSTANTS
  None = None
  p1 = p1
  p2 = p2
  img1 = img1
  img2 = img2
  routeA = routeA
  routeB = routeB
  badRoute = badRoute
  q1 = q1
  q2 = q2
  badQ = badQ
  Names = {p1}
  Images = {img1, img2}
  Routes = {routeA, routeB, badRoute}
  BadRoutes = {badRoute}
  Quantities = {q1, q2, badQ}
  BadQuantities = {badQ}
  Specs <- GoodSpecs
  HalfRange = 4
  HasGC = FALSE
  Foreign = FALSE
  Budget <- FailureBudget

INVARIANTS
  DeletedIsCleanedUp
