CONSTANTS
  InnerNames <- MCOneName
  OddNames = {}
  Admitted = {"empty_value"}
  MaxElements = 6
SPECIFICATION Spec
INVARIANT
  InfoAnswersJson
CHECK_DEADLOCK FALSE
