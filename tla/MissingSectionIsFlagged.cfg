SPECIFICATION Spec
CONSTANTS
  RequestedCaps <- MCRequestedCaps
  HostedOutputs <- MCHostedOutputs
INVARIANT
  MissingSectionIsFlagged
\* A run of the loop ends.
CHECK_DEADLOCK FALSE
