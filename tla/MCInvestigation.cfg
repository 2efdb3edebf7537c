SPECIFICATION Spec
CONSTANTS
  r1 = r1
  r2 = r2
  c1 = c1
  c2 = c2
  Runs = {r1, r2}
  Cases = {c1, c2}
  OtherIds = {}
  Cap = 2
  MaxToolCalls = 1
INVARIANTS
  ReturnedRunsAreLogged
  AloneIsReconstructable
  ReportsAreAccountedFor
SYMMETRY Symmetry
\* All runs have ended.
CHECK_DEADLOCK FALSE
