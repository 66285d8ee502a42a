SPECIFICATION Spec
CONSTANTS
  c1 = c1
  c2 = c2
  r1 = r1
  r2 = r2
  Calls = {c1, c2}
  Reviews = {r1}
  Names <- MCNames
  Upper <- MCUpper
  Fallback = "RELATES_TO"
  Seeds <- MCSeeds
  MaxEdits = 1
  None = None
SYMMETRY Symmetric
CHECK_DEADLOCK FALSE
INVARIANTS TypeOK RelationsUseAcceptedTypes FallbackLeavesTrace AcceptedTypeIsUsed CallIsAtomic
