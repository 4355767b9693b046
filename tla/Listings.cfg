SPECIFICATION Spec

CONSTANTS
  None = None
  d1 = d1
  d2 = d2
  d3 = d3
  n1 = n1
  n2 = n2
  n3 = n3
  h1 = h1
  h2 = h2
  Deployments = {d1, d2, d3}
  Namespaces = {n1, n2, n3}
  NamespaceOf <- ThreeNamespaces
  Settings <- ThreeSettings
  Handlers = {h1, h2}

SYMMETRY Symmetry

INVARIANTS
  InformerInv
  ListingIsExact
  NoMapRace
