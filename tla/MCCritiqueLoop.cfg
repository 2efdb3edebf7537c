SPECIFICATION Spec
CONSTANTS
  RequestedCaps <- MCRequestedCaps
  HostedOutputs <- MCHostedOutputs
INVARIANTS
  TypeOK
  ReturnedDraftWasReviewed
  VerdictWithinCap
  TrailMatchesRun
  OfflineRunPassesOnRevision
  GeneratedNextStepFollowsFindings
PROPERTIES
  RevisionAnswersTheReview
  Terminates
  ImplementsContract
\* A run of the loop ends.
CHECK_DEADLOCK FALSE
