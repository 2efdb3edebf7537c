SPECIFICATION Spec
CONSTANTS
  RequestedCaps <- MCRequestedCaps
  HostedOutputs <- MCHostedOutputs
INVARIANT
  EachRaisedFlagIsDisclosed
\* A run of the loop ends.
CHECK_DEADLOCK FALSE
