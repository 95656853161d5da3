CONSTANTS
  t1 = t1
  t2 = t2
  b1 = b1
  b2 = b2
  n1 = n1
  n2 = n2
  i1 = i1
  i2 = i2
  Transfers = {t1}
  Blocks = {b1, b2}
  Names = {n1, n2}
  Ids = {i1, i2}
  FileName <- OwnName
  TransferId <- OwnId
  Content <- OneBlock
  Edits <- NoEdit
  FaultKinds = {"crash"}
  MaxFaults = 1
  Policy = "auto"
  Workers = 2
  Existing = {}
  None = None
  Old = Old
  Hole = Hole

SPECIFICATION FairSpec
PROPERTY PartsAreTemporary
