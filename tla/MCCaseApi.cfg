SPECIFICATION Spec
CONSTANTS
  p1 = p1
  p2 = p2
  p3 = p3
  g1 = g1
  seeded = seeded
  unknown = unknown
  NoPost = NoPost
  Posts = {p1, p2, p3}
  Gets = {g1}
  Cases = {seeded, unknown}
  SeededCases = {seeded}
INVARIANTS
  TypeOK
  AnswersAreConsistent
  PostAnswersItsOwnRun
  IdleStoreIsSettled
PROPERTIES
  RequestsAreAnswered
  ImplementsLifecycle
\* All requests have been answered.
CHECK_DEADLOCK FALSE
