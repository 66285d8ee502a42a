SPECIFICATION FairSpec
CONSTANTS
  a1 = a1
  a2 = a2
  u1 = u1
  Attempts = {a1, a2}
  Texts <- MCTexts
  Users = {u1}
  Extractions <- MCExtractions
  NoJob = NoJob
  Inputs <- MCInputs
  PoolSize = 1
  MaxOverflow = 0
  MaxCrashes = 2
  None = None
CHECK_DEADLOCK FALSE
INVARIANTS TypeOK PoolAccounting RefusedIsNotRemembered DuplicatesExplained
PROPERTIES RequestsEnd ImplementsChatService PublishesForIngest
