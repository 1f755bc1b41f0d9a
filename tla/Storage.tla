------------------------------ MODULE Storage ------------------------------
(***************************************************************************)
(* The constructor of Storage: a text file is read row by row, a row that  *)
(* is accepted is split into lexemes, and every lexeme goes into the       *)
(* dictionary and the index before the row itself is appended to the data. *)
(*                                                                         *)
(* A row of the file is what its tab-separated fields come to: how many    *)
(* there are (none for an empty line and a comment), whether the first two *)
(* hold anything, the lexemes of the first, and the kind of the third.     *)
(***************************************************************************)
EXTENDS Integers, Sequences, FiniteSets

CONSTANTS
  Lexemes,   \* the words of the texts
  Ratings,   \* the values a rating may have, converted or found in memory
  Files      \* the files to load, sequences of rows

(* "number" is all digits, "range" too many of them, "junk" is followed by *)
(* something else, "empty" is a field that holds nothing or is missing.    *)
RatingKinds == {"number", "range", "junk", "empty"}

Row ==
  [fields : Nat, raw : BOOLEAN, url : BOOLEAN, words : Seq(Lexemes),
   kind : RatingKinds, rating : Ratings]

ASSUME RatingsAssumption == Ratings \subseteq Nat

ASSUME FilesAssumption ==
  \A f \in Files :
    /\ f \in Seq(Row)
    /\ \A n \in 1 .. Len(f) :
         /\ f[n].words # <<>> => f[n].raw
         /\ f[n].kind # "empty" => f[n].fields >= 3

first_key == -1   \* the offset of the entry that opens a lexeme's run

VARIABLES
  file,      \* the file being read
  line_cnt,  \* the rows read so far
  errno,     \* of the process: FALSE for 0
  m_dict,    \* lexeme -> [lexeme_id, frequency]
  m_index,   \* entries [lexeme_id, offset, coord] of the multimap
  m_data,    \* rows kept
  itm,       \* the row being indexed, a sequence of at most one item
  coord      \* how many of its lexemes are indexed

vars == <<file, line_cnt, errno, m_dict, m_index, m_data, itm, coord>>

Init ==
  /\ file \in Files
  /\ line_cnt = 0
  /\ errno = FALSE
  /\ m_dict = [x \in {} |-> 0]
  /\ m_index = {}
  /\ m_data = <<>> /\ itm = <<>> /\ coord = 0

-----------------------------------------------------------------------------
(* strtoul is called for a third field that holds anything, also when the  *)
(* row has more fields.                                                    *)
Converted(row) == row.fields >= 3 /\ row.kind # "empty"

(* strtoul sets errno when the number is out of range, and nothing ever    *)
(* clears it.                                                              *)
ErrnoAfter(row) == errno \/ (Converted(row) /\ row.kind = "range")

(* The flag of a row: the conversion left errno at zero and stopped at the *)
(* end of the field.  A row without conversion stays valid.                *)
\* Mutant: where strtoul stopped is not looked at.
ValidUnlessErrno(row) == Converted(row) => ~ ErrnoAfter(row)
valid(row) ==
  Converted(row) => ~ ErrnoAfter(row) /\ row.kind # "junk"

Accepted(row) == row.fields = 3 /\ row.url /\ row.raw /\ valid(row)

(* One row is read and checked.  The rating of a row whose third field is  *)
(* empty was never assigned: it is what the stack holds.                   *)
ReadRow ==
  /\ itm = <<>> /\ line_cnt < Len(file)
  /\ LET row == file[line_cnt + 1]
     IN  /\ errno' = ErrnoAfter(row)
         /\ IF Accepted(row)
            THEN \E rating \in Ratings :
                   /\ row.kind # "empty" => rating = row.rating
                   /\ itm' = <<[line |-> line_cnt + 1, rating |-> rating,
                                words |-> row.words]>>
            ELSE UNCHANGED itm
  /\ line_cnt' = line_cnt + 1
  /\ UNCHANGED <<file, m_dict, m_index, m_data, coord>>

(* A new lexeme gets the next identifier, a known one is counted.          *)
\* Mutant: a known lexeme is not counted.
NotCounted(x) ==
  IF x \in DOMAIN m_dict THEN m_dict[x]
  ELSE [lexeme_id |-> Cardinality(DOMAIN m_dict), frequency |-> 1]
Counted(x) ==
  IF x \in DOMAIN m_dict THEN [m_dict[x] EXCEPT !.frequency = @ + 1]
  ELSE [lexeme_id |-> Cardinality(DOMAIN m_dict), frequency |-> 1]

(* The entries a lexeme adds: the one that opens its run, unless it is     *)
(* there, and the one of this occurrence.                                  *)
\* Mutant: the row's offset is taken as if it had been appended already.
EntriesOfNextRow(id) ==
  {[lexeme_id |-> id, offset |-> first_key, coord |-> 0],
   [lexeme_id |-> id, offset |-> Len(m_data) + 1, coord |-> coord]}
Entries(id) ==
  {[lexeme_id |-> id, offset |-> first_key, coord |-> 0],
   [lexeme_id |-> id, offset |-> Len(m_data), coord |-> coord]}

(* m_split_and_indexate_lexeme, one lexeme.                                *)
IndexLexeme ==
  /\ itm # <<>> /\ coord < Len(itm[1].words)
  /\ LET x == itm[1].words[coord + 1]
     IN  /\ m_dict' = [y \in DOMAIN m_dict \cup {x} |->
                        IF y = x THEN Counted(x) ELSE m_dict[y]]
         /\ m_index' = m_index \cup Entries(Counted(x).lexeme_id)
  /\ coord' = coord + 1
  /\ UNCHANGED <<file, line_cnt, errno, m_data, itm>>

(* The row is appended with the number of its lexemes; the next row starts *)
(* at coord 0.                                                             *)
PushBack ==
  /\ itm # <<>> /\ coord = Len(itm[1].words)
  /\ m_data' = Append(m_data, itm[1])
  /\ itm' = <<>> /\ coord' = 0
  /\ UNCHANGED <<file, line_cnt, errno, m_dict, m_index>>

Load == ReadRow \/ IndexLexeme \/ PushBack

Loaded == itm = <<>> /\ line_cnt = Len(file)

Spec == Init /\ [][Load]_vars

-----------------------------------------------------------------------------
(* Correctness.                                                            *)

(* The occurrences of lexemes indexed so far, as <<row offset, coord>>.    *)
Kept == m_data \o itm

WordAt(p) == Kept[p[1] + 1].words[p[2] + 1]

Occurrences ==
  UNION {{<<o, k>> : k \in 0 .. (IF o < Len(m_data) THEN Len(Kept[o + 1].words)
                                 ELSE coord) - 1}
           : o \in 0 .. Len(Kept) - 1}

(* Every lexeme of the kept rows has an identifier of its own, the         *)
(* identifiers are consecutive, and its frequency is the number of its     *)
(* occurrences: repeated inside a row, across rows, and while a row is     *)
(* half indexed (storage.cpp:195-207).                                     *)
DictExact ==
  /\ DOMAIN m_dict = {WordAt(p) : p \in Occurrences}
  /\ {m_dict[x].lexeme_id : x \in DOMAIN m_dict}
       = 0 .. Cardinality(DOMAIN m_dict) - 1
  /\ \A x \in DOMAIN m_dict :
       m_dict[x].frequency = Cardinality({p \in Occurrences : WordAt(p) = x})

(* The index finds exactly the occurrences in the kept rows, at offsets    *)
(* that are those of the rows once they are appended although the row is   *)
(* indexed before (storage.cpp:169-170, 214), and every lexeme has the     *)
(* opening entry a Searcher starts from (searcher.cpp:299-301).            *)
IndexExact ==
  m_index =
    {[lexeme_id |-> m_dict[x].lexeme_id, offset |-> first_key, coord |-> 0]
       : x \in DOMAIN m_dict}
    \cup
    {[lexeme_id |-> m_dict[WordAt(p)].lexeme_id, offset |-> p[1], coord |-> p[2]]
       : p \in Occurrences}

(* A row with three fields that hold what they should.                     *)
ValidData(row) == row.fields = 3 /\ row.raw /\ row.url /\ row.kind = "number"

(* Which rows are kept, in the order of the file: those with a text, an    *)
(* url and no malformed rating, up to the first out-of-range rating of any *)
(* row with a third field; after it only rows that convert nothing are.    *)
RowsKept ==
  LET overflowed(n) == \E j \in 1 .. n : file[j].kind = "range"
      kept(n) == \/ ValidData(file[n]) /\ ~ overflowed(n)
                 \/ /\ file[n].fields = 3 /\ file[n].raw /\ file[n].url
                    /\ file[n].kind = "empty"
  IN  /\ {Kept[i].line : i \in 1 .. Len(Kept)} = {n \in 1 .. line_cnt : kept(n)}
      /\ \A i, j \in 1 .. Len(Kept) : i < j => Kept[i].line < Kept[j].line
      /\ \A i \in 1 .. Len(Kept) : Kept[i].words = file[Kept[i].line].words

(* bad_data.txt:8-9 calls a row with three proper fields valid data, and   *)
(* storage.cpp:135 warns of a row whose conversion failed: such a row is   *)
(* kept whatever the rows before it were.                                  *)
ValidRowsKept ==
  \A n \in 1 .. line_cnt :
    ValidData(file[n]) => \E i \in 1 .. Len(Kept) : Kept[i].line = n

(* storage.cpp:163-166 warns of one or more empty fields in a row and      *)
(* drops it: no row with an empty third field is kept.                     *)
NoEmptyFieldKept ==
  \A i \in 1 .. Len(Kept) : file[Kept[i].line].kind # "empty"
=============================================================================
