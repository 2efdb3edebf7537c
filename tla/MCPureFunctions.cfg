SPECIFICATION Spec
CONSTANTS
  MaxLength = 6
  MaxPosted = 3
  MaxEntries = 3
INVARIANTS
  NothingLostAfterALabel
  RequestedFormatIsSplit
  ClustersAreFlaggedWhole
  BestEntryIsMatched
  NarrativesTellTheFindings
PROPERTIES
  LatePostingsClearNothing
  HitsSurviveNewEntries
\* The inputs are bounded.
CHECK_DEADLOCK FALSE
