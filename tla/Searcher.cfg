\* Files of up to three rows, good and broken in any order, or of two rows of
\* up to three lexemes; queries of up to three.
SPECIFICATION SearcherSpec
CONSTANTS
  a = a
  b = b
  c = c
  MaxRows = 3
  MaxWords = 3
  MaxQuery = 3
  Lexemes <- QueryLetters
  Ratings <- TwoRatings
  Files <- SearchedFiles
  Queries <- AllQueries
INVARIANTS
  DictExact
  IndexExact
  RowsKept
  ResultsExact
  MarkMeansOrder
  BestFirst
PROPERTIES
  RoundsAdvance
\* The search returns when every cogwheel is at its end.
CHECK_DEADLOCK FALSE
