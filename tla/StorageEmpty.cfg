\* Short files, checked for NoEmptyFieldKept, which the code violates.
SPECIFICATION Spec
CONSTANTS
  a = a
  b = b
  MaxRows = 2
  Lexemes <- Letters
  Ratings <- TwoRatings
  Files <- ShortFiles
INVARIANTS
  NoEmptyFieldKept
\* The constructor returns at the end of the file.
CHECK_DEADLOCK FALSE
