\* Three submissions; the second rejection in a row asks the human.  Fair dispatching.
\* A decided item stops.
SPECIFICATION FairSpec
CONSTANTS
  MaxSubmissions = 3
  MaxReworks = 1
  MaxParseRetries = 2
INVARIANTS
  TypeOK
  OneActiveReview
  ReviewIsDriven
PROPERTIES
  LateVerdictIsIgnored
  ReviewEnds
CHECK_DEADLOCK FALSE
