CONSTANTS
  u1 = u1  a1 = a1  a2 = a2  m1 = m1  Nobody = Nobody
  Person <- MCPerson  Account <- MCAccount  Message <- MCMessage
  MaxTries = 2  MaxPosts = 2  MaxStalls = 1  MaxRuns = 2  MaxCrashes = 1
  MaxFaults = 2  MaxChanges = 1
SPECIFICATION MCSpec
INVARIANTS TypeOK ExtraCopyNeedsFault ConsentAtDispatch LineFaultsAbsorbed OutcomeReported
CHECK_DEADLOCK FALSE
PROPERTIES EveryDeliveryEnds OffIsHeard
