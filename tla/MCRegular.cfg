CONSTANTS
  InnerNames <- MCTwoNames
  OddNames = {}
  Admitted = {}
  MaxElements = 9
SPECIFICATION Spec
PROPERTY
  WritesTranscript
CHECK_DEADLOCK FALSE
