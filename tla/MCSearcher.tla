----------------------------- MODULE MCSearcher -----------------------------
(* Loading and then searching: the files of MCStorage, and two good rows   *)
(* with more lexemes and both ratings; queries with repeated and unknown   *)
(* lexemes.                                                                *)
EXTENDS MCStorage, Searcher

CONSTANTS c, MaxWords, MaxQuery

RatedRows ==
  {[Good(words) EXCEPT !.rating = rating]
     : words \in SeqsUpTo({a, b}, MaxWords), rating \in Ratings}

SearchedFiles == AllFiles \cup [1 .. 2 -> RatedRows]

AllQueries == SeqsUpTo({a, b, c}, MaxQuery)

QueryLetters == {a, b, c}
=============================================================================
