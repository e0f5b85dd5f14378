CONSTANTS
  InnerNames <- MCInnerNames
  OddNames <- MCOddNames
  Admitted = {"odd_name"}
  MaxElements = 6
SPECIFICATION Spec
INVARIANT
  InfoAnswersJson
CHECK_DEADLOCK FALSE
