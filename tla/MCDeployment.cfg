SPECIFICATION Spec
CONSTANTS
  a = a
  b = b
  p1 = p1
  p2 = p2
  p3 = p3
  g1 = g1
  c1 = c1
  c2 = c2
  Replicas = {a, b}
  Posts = {p1, p2, p3}
  Gets = {g1}
  Cases = {c1, c2}
  Workers = 2
  FailureThreshold = 2
INVARIANTS
  TypeOK
  InProgressHasAWorker
PROPERTIES
  CasesAreFoundWhereTriggered
  RequestsEnd
