SPECIFICATION RestSpec

CONSTANTS
  None = None
  Malformed = Malformed
  p1 = p1
  c1 = c1
  c2 = c2
  img1 = img1
  img2 = img2
  routeA = routeA
  noPorts = noPorts
  q1 = q1
  Names = {p1}
  Clients = {c1, c2}
  Images = {img1, img2}
  Routes = {routeA, noPorts}
  BadRoutes = {}
  NoPorts = noPorts
  Quantities = {q1}
  BadQuantities = {}
  Specs <- TwoSpecs
  DefaultSpec <- ToolSpec
  Patches <- SomePatches
  Calls <- SomeCalls
  HalfRange = 4
  ApiBudget <- SmallBudget

INVARIANTS
  RestInv

PROPERTIES
  AtomicRequests

CHECK_DEADLOCK FALSE
