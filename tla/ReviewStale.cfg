\* A verdict on the first submission moves the second.
SPECIFICATION Spec
CONSTANTS
  MaxSubmissions = 2
  MaxReworks = 1
  MaxParseRetries = 2
PROPERTY VerdictJudgesItsSubmission
CHECK_DEADLOCK FALSE
