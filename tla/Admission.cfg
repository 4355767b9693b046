SPECIFICATION Spec

CONSTANTS
  empty = empty
  a = a
  b = b
  open = open
  close = close
  badQ = badQ
  Empty = empty
  Texts <- SomeTexts
  Opens <- SomeOpens
  Closes <- SomeCloses
  BadTexts = {empty, badQ}
  MaxPort = 3
  HalfRange = 4
  Specs <- SomeSpecs

INVARIANTS
  AdmissionTypeOK
  AdmittedIsBuilt
  UpstreamsDistinct
  BalancedPasses

CHECK_DEADLOCK FALSE
