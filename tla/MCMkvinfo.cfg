CONSTANTS
  Classes <- MCClasses
  Id <- MCId
  Context <- MCContext
  Base = "KaxSegment"
  NoCallbacks = "nullptr"
  NameOf <- MCNameOf
  OddNames <- MCOddNames
  Files <- MCFiles
  MaxCalls = 2
SPECIFICATION Spec
INVARIANTS
  CacheIsTransparent
  FindsWhatIsBelow
  DeletesWhatNobodyOwns
  EveryValueInPlace
  ScriptFindsTracks
CHECK_DEADLOCK FALSE
