SPECIFICATION Spec
CONSTANTS
  a = a
  b = b
  Clients = {a, b}
  MaxRequests = 2
  Window = 3
  MaxBack = 1
  MaxForward = 1
  MaxTime = 4
SYMMETRY ClientSymmetry
INVARIANTS TypeOK LimitHolds ListBounded
PROPERTY IsSlidingWindow
