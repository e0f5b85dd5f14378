CONSTANTS
  ByteBits = 3
  IdBytes = 2
  MaxIdLen = 2
  Level1Ids <- MCLevel1Ids
  GlobalIds = {5}
  ClusterId <- MCClusterId
  WantedId = 0
  Asks = {"read_next"}
  Contents <- MCContents
  Beyond = 4
  Missing = 3
  MaxDamaged = 4
  MaxPieces = 5
SPECIFICATION Spec
INVARIANTS
  TypeOK
  InOrder
  DeliversDocument
  ResyncedMeansNothingFound
CHECK_DEADLOCK FALSE
