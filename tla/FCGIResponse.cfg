\* Portions of 5 bytes, aligned to 4: lengths below, at and beyond both.
SPECIFICATION MCSpec
CONSTANTS
  MaxData = 5
  Align = 4
  Strings <- MCStrings
  MaxCalls = 3
  MaxLen = 11
INVARIANTS
  OutputAsCalled
  WellFramed
\* The response is written once.
CHECK_DEADLOCK FALSE
