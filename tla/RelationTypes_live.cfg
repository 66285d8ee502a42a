SPECIFICATION FairSpec
CONSTANTS
  c1 = c1
  c2 = c2
  r1 = r1
  r2 = r2
  Calls = {c1, c2}
  Reviews = {r1, r2}
  Names <- LiveNames
  Upper <- LiveUpper
  Fallback = "RELATES_TO"
  Seeds <- LiveSeeds
  MaxEdits = 0
  None = None
CHECK_DEADLOCK FALSE
INVARIANTS ReviewIsComplete HoldersGoOn
PROPERTIES CallsEnd ReviewsEnd ImplementsCuration
