CONSTANTS
  InnerNames <- MCOneName
  OddNames = {}
  Admitted = {"no_cluster"}
  MaxElements = 6
SPECIFICATION Spec
INVARIANT
  InfoAnswersJson
CHECK_DEADLOCK FALSE
