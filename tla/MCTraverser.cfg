CONSTANTS
  InnerNames <- MCInnerNames
  OddNames <- MCOddNames
  Admitted <- Quirk
  MaxElements = 6
SPECIFICATION FairSpec
INVARIANTS
  TypeOK
  StackIsOpenTags
  DefinedBehaviour
  TextIsTranscript
  RegularTextParses
  IInv
PROPERTY
  Termination
CHECK_DEADLOCK FALSE
