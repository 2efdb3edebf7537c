SPECIFICATION HostedSpec
CONSTANTS
  r1 = r1
  c1 = c1
  c2 = c2
  other = other
  Runs = {r1}
  Cases = {c1, c2}
  OtherIds = {other}
  Cap = 3
  MaxToolCalls = 2
  RetrySettings = {0, 1, 3}
  Timeout = 30
INVARIANTS
  HostedTypeOK
  TransientErrorsAreOvercome
  RunIsLatencyBounded
  ToolEntriesFollowTheAgents
PROPERTIES
  LoopsKeepTheContract
  RunsEnd
\* All runs have ended.
CHECK_DEADLOCK FALSE
