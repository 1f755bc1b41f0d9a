\* Appends of up to three bytes, advances of up to two bytes too many.
SPECIFICATION Spec
CONSTANTS
  NULL = NULL
  MaxLen = 3
  MaxBytes = 8
  Overrun = 2
INVARIANTS
  ListWhole
  NoEmptyItem
  SentIsGone
PROPERTIES
  ImplementsTrivial
\* Once MaxBytes are appended and sent there is nothing left to do.
CHECK_DEADLOCK FALSE
