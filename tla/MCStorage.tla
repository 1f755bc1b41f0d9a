----------------------------- MODULE MCStorage -----------------------------
(* Files of a few rows over two lexemes, with every kind of broken row.    *)
EXTENDS Storage

CONSTANTS a, b, MaxRows

SeqsUpTo(S, n) == UNION {[1 .. k -> S] : k \in 0 .. n}

Good(words) ==
  [fields |-> 3, raw |-> TRUE, url |-> TRUE, words |-> words,
   kind |-> "number", rating |-> 1]

(* A comment; too few fields; a third field that is empty, malformed or    *)
(* out of range; no text; no url; out of range in a row of four fields.    *)
Broken ==
  LET good == Good(<<b>>)
  IN  {[good EXCEPT !.fields = 0, !.raw = FALSE, !.url = FALSE, !.words = <<>>,
                    !.kind = "empty"],
       [good EXCEPT !.fields = 2, !.kind = "empty"],
       [good EXCEPT !.kind = "empty"],
       [good EXCEPT !.kind = "junk"],
       [good EXCEPT !.kind = "range"],
       [good EXCEPT !.raw = FALSE, !.words = <<>>],
       [good EXCEPT !.url = FALSE],
       [good EXCEPT !.fields = 4, !.kind = "range"]}

Rows == {Good(words) : words \in SeqsUpTo({a, b}, 2)} \cup Broken

AllFiles == SeqsUpTo(Rows, MaxRows)

ShortFiles == SeqsUpTo({Good(<<a>>)} \cup Broken, 2)

Letters == {a, b}
TwoRatings == {1, 2}
=============================================================================
