SPECIFICATION Spec
CONSTANTS
  Ops = {o1, o2, o3}
  a = a
  b = b
  c = c
  x = x
  y = y
  z = z
  e0 = e0
  Entities <- ThreeEntities
  Aliases <- ThreeAliases
  OldEvents <- OneEvent
  Workload <- MixedRequests
  Starts <- StartRows
  None = None
CHECK_DEADLOCK FALSE
PROPERTY
  RelationsAreTransferred
