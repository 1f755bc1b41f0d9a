SPECIFICATION FairSpec
CONSTANTS
  t1 = t1
  t2 = t2
  Addresses <- Two
  Delays <- OneTwo
  MaxCalls = 6
  KeepsOneShot = FALSE
INVARIANTS
  HeldIsAllocated
  QuietWhenStopped
PROPERTIES
  Fires
CHECK_DEADLOCK FALSE
