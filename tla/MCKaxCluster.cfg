CONSTANTS
  ByteBits = 3
  IdBytes = 2
  MaxIdLen = 2
  Level1Ids <- MCLevel1Ids
  GlobalIds = {5}
  ClusterId <- MCClusterId
  WantedId <- MCClusterId
  Asks = {"read_next", "resync"}
  Contents <- MCMixedContents
  Beyond = 4
  Missing = 3
  MaxDamaged = 1
  MaxPieces = 4
SPECIFICATION Spec
INVARIANTS
  OverlooksNothing
  DeliversWanted
  OutsideOnlyBehindBrokenHeader
PROPERTY
  ResyncMovesOn
CHECK_DEADLOCK FALSE
