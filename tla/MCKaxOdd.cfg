CONSTANTS
  ByteBits = 3
  IdBytes = 2
  MaxIdLen = 2
  Level1Ids <- MCLevel1Ids
  GlobalIds = {5}
  ClusterId <- MCClusterId
  WantedId = 0
  Asks = {"read_next"}
  Contents <- MCOddContents
  Beyond = 4
  Missing = 3
  MaxDamaged = 0
  MaxPieces = 5
SPECIFICATION Spec
INVARIANTS
  InOrder
  AcceptanceDetermined
CHECK_DEADLOCK FALSE
