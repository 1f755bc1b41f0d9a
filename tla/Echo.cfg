\* A peer that stays and one that leaves, two connections and one queue.
SPECIFICATION FairSpec
CONSTANTS
  c1 = c1
  c2 = c2
  NULL = NULL
  Clients <- Both
  Limits <- OneOrTwo
  Quitters <- Second
  BuffSize = 2
  SndBuf = 2
  InLen = 3
INVARIANTS
  WriterIffCached
  OutputInOrder
  OwnUntilFull
PROPERTIES
  Released
  Echoed
CHECK_DEADLOCK FALSE
