SPECIFICATION Spec
CONSTANTS
  t1 = t1
  t2 = t2
  Threads = {t1, t2}
  NoThread = NoThread
  WithPath = {TRUE, FALSE}
  MaxEntries = 5
INVARIANTS
  TypeOK
  FileKeepsTheOrder
  OnlyNeighboursAreSpoiled
PROPERTY
  ReadableLinesStay
