SPECIFICATION Spec
CONSTANTS
  m1 = m1
  m2 = m2
  u1 = u1
  u2 = u2
  Messages = {m1, m2}
  Users = {u1}
  Extractions <- MCExtractions
  KnownTypes <- MCKnownTypes
  NoJob = NoJob
CHECK_DEADLOCK FALSE
INVARIANT SuggestionsStored
