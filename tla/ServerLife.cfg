SPECIFICATION Spec
CONSTANTS
  FDs <- FourFDs
  NONE = NONE
  MaxWaiting = 1
INVARIANTS
  TablesAgree
  EventsAreCurrent
  RunsWhileOpen
  NothingLeaked
  HeldIsReady
CHECK_DEADLOCK FALSE
