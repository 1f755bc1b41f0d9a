\* Short files, checked for ValidRowsKept, which the code violates.
SPECIFICATION Spec
CONSTANTS
  a = a
  b = b
  MaxRows = 2
  Lexemes <- Letters
  Ratings <- TwoRatings
  Files <- ShortFiles
INVARIANTS
  ValidRowsKept
\* The constructor returns at the end of the file.
CHECK_DEADLOCK FALSE
