CONSTANTS
  t1 = t1
  t2 = t2
  b1 = b1
  b2 = b2
  n1 = n1
  n2 = n2
  i1 = i1
  i2 = i2
  Transfers = {t1}
  Blocks = {b1, b2}
  Names = {n1, n2}
  Ids = {i1, i2}
  FileName <- OwnName
  TransferId <- OwnId
  Content <- TwoBlocks
  Edits <- AnyEdit
  FaultKinds = {"net", "disk", "kill", "crash", "edit"}
  MaxFaults = 2
  Policy = "manual"
  Workers = 1
  Existing = {}
  None = None
  Old = Old
  Hole = Hole

SPECIFICATION SpecFairUser
INVARIANT TypeOK
INVARIANT SavedIntact
INVARIANT CompleteMeansSaved
INVARIANT ConsentBeforeSave
INVARIANT RejectedMeansUnsaved
PROPERTY KeepsItsPromise
PROPERTY FollowsSession
PROPERTY HandlerEnds
