--------------------------- MODULE SearcherProofs ---------------------------
(***************************************************************************)
(* What a load leaves in the dictionary, the index and the rows, for every *)
(* file; and what the search finds in them, for every query.               *)
(***************************************************************************)
EXTENDS Searcher, FiniteSetTheorems, TLAPS

Item == [line : Nat, rating : Ratings, words : Seq(Lexemes)]

TypeOK ==
  /\ file \in Files
  /\ line_cnt \in 0 .. Len(file)
  /\ errno \in BOOLEAN
  /\ m_dict \in [DOMAIN m_dict -> [lexeme_id : Nat, frequency : Nat]]
  /\ IsFiniteSet(DOMAIN m_dict)
  /\ m_data \in Seq(Item)
  /\ \/ itm = <<>> /\ coord = 0
     \/ \E it \in Item : itm = <<it>> /\ coord \in 0 .. Len(it.words)

(* errno tells whether an out-of-range rating has been read, and the rows  *)
(* kept are rows that have been read.                                      *)
ReadSoFar ==
  /\ errno <=> \E j \in 1 .. line_cnt : file[j].kind = "range"
  /\ \A i \in 1 .. Len(Kept) : Kept[i].line \in 1 .. line_cnt

(* No two lexemes share an identifier.                                     *)
IdsDiffer ==
  \A x, y \in DOMAIN m_dict : m_dict[x].lexeme_id = m_dict[y].lexeme_id => x = y

LoadInv ==
  /\ TypeOK
  /\ ReadSoFar
  /\ IsFiniteSet(Occurrences)
  /\ IdsDiffer
  /\ DictExact
  /\ IndexExact
  /\ RowsKept

-----------------------------------------------------------------------------
(* The rows kept and the occurrences in them.                              *)

LEMMA KeptIs ==
  ASSUME TypeOK
  PROVE  /\ Kept \in Seq(Item)
         /\ Len(Kept) = Len(m_data) + Len(itm)
         /\ \A i \in 1 .. Len(m_data) : Kept[i] = m_data[i]
         /\ itm = <<>> => Kept = m_data
         /\ itm # <<>> => Len(itm) = 1 /\ itm[1] \in Item /\ Kept[Len(m_data) + 1] = itm[1]
<1>1. CASE itm = <<>>
  BY <1>1 DEF TypeOK, Kept
<1>2. ASSUME NEW it \in Item, itm = <<it>>
      PROVE  /\ Kept \in Seq(Item)
             /\ Len(Kept) = Len(m_data) + Len(itm)
             /\ \A i \in 1 .. Len(m_data) : Kept[i] = m_data[i]
             /\ itm # <<>> /\ Len(itm) = 1 /\ itm[1] \in Item
             /\ Kept[Len(m_data) + 1] = itm[1]
  BY <1>2 DEF TypeOK, Kept
<1> QED
  BY <1>1, <1>2 DEF TypeOK

(* The occurrences in rows of which the first ones are wholly indexed and  *)
(* the next one up to next.                                                *)
Places(rows, whole, next) ==
  UNION {{<<o, k>> : k \in 0 .. (IF o < whole THEN Len(rows[o + 1].words)
                                 ELSE next) - 1}
           : o \in 0 .. Len(rows) - 1}

LEMMA PlacesAre ==
  ASSUME NEW rows, NEW whole, NEW next, NEW p
  PROVE  p \in Places(rows, whole, next) <=>
           \E o \in 0 .. Len(rows) - 1 :
             \E k \in 0 .. (IF o < whole THEN Len(rows[o + 1].words) ELSE next) - 1 :
               p = <<o, k>>
BY SMTT(30) DEF Places

LEMMA OccurrencesArePlaces ==
  /\ Occurrences = Places(Kept, Len(m_data), coord)
  /\ Occurrences' = Places(Kept', Len(m_data'), coord')
BY DEF Occurrences, Places

-----------------------------------------------------------------------------
(* One row is read.                                                        *)

LEMMA FileOfRows ==
  ASSUME TypeOK
  PROVE  /\ file \in Seq(Row) /\ Len(file) \in Nat
         /\ \A n \in 1 .. Len(file) : /\ file[n] \in Row
                                      /\ file[n].kind # "empty" => file[n].fields >= 3
BY FilesAssumption DEF TypeOK

(* A row read is dropped, or follows those kept and has no occurrence yet. *)
LEMMA ReadKeeps ==
  ASSUME TypeOK, ReadRow
  PROVE  /\ TypeOK'
         /\ \/ ~ Accepted(file[line_cnt + 1]) /\ Kept' = Kept /\ itm' = itm
            \/ /\ Accepted(file[line_cnt + 1])
               /\ \E it \in Item :
                    /\ it.line = line_cnt + 1 /\ it.words = file[line_cnt + 1].words
                    /\ itm' = <<it>> /\ Kept' = Append(Kept, it)
         /\ Occurrences' = Occurrences
         /\ \A p \in Occurrences : WordAt(p)' = WordAt(p)
<1> DEFINE row == file[line_cnt + 1]
<1>1. line_cnt + 1 \in 1 .. Len(file) /\ row \in Row /\ line_cnt + 1 \in Nat
  BY FileOfRows DEF ReadRow, TypeOK
<1>2. itm = <<>> /\ coord = 0 /\ Kept = m_data /\ m_data \in Seq(Item)
  BY KeptIs DEF ReadRow, TypeOK
<1>3. ErrnoAfter(row) \in BOOLEAN
  BY DEF ErrnoAfter, TypeOK
<1>4. CASE ~ Accepted(row)
  <2>1. itm' = itm
    BY <1>4 DEF ReadRow
  <2>2. Kept' = Kept
    BY <2>1 DEF ReadRow, Kept
  <2>3. TypeOK'
    BY <1>1, <1>3, <2>1 DEF ReadRow, TypeOK
  <2>4. Occurrences' = Occurrences
    BY <2>2 DEF Occurrences, ReadRow
  <2> QED
    BY <1>4, <2>1, <2>2, <2>3, <2>4 DEF WordAt
<1>5. CASE Accepted(row)
  <2>1. PICK rating \in Ratings :
          itm' = <<[line |-> line_cnt + 1, rating |-> rating, words |-> row.words]>>
    BY <1>5 DEF ReadRow
  <2> DEFINE it == [line |-> line_cnt + 1, rating |-> rating, words |-> row.words]
  <2>2. it \in Item
    BY <1>1 DEF Item, Row
  <2>3. itm' = <<it>> /\ m_data' = m_data /\ coord' = coord /\ Kept' = Append(Kept, it)
    BY <1>2, <2>1 DEF ReadRow, Kept
  <2>4. it.line = line_cnt + 1 /\ it.words = row.words
    OBVIOUS
  <2> HIDE DEF it
  <2>5. TypeOK'
    BY <1>1, <1>2, <1>3, <2>2, <2>3 DEF ReadRow, TypeOK, Item
  <2>6. Len(Kept') = Len(m_data) + 1 /\ Len(Kept) = Len(m_data) /\ Len(m_data) \in Nat
        /\ \A i \in 1 .. Len(m_data) : Kept'[i] = Kept[i]
    BY <1>2, <2>2, <2>3
  <2>7. Occurrences' = Occurrences
    <3>1. ASSUME NEW p PROVE p \in Occurrences' <=> p \in Occurrences
      <4>1. p \in Occurrences <=>
              \E o \in 0 .. Len(m_data) - 1 : \E k \in 0 .. Len(Kept[o + 1].words) - 1 :
                p = <<o, k>>
        BY <2>6, PlacesAre, OccurrencesArePlaces
      <4>2. p \in Occurrences' <=>
              \E o \in 0 .. Len(m_data) : \E k \in 0 ..
                (IF o < Len(m_data) THEN Len(Kept'[o + 1].words) ELSE 0) - 1 : p = <<o, k>>
        <5>1. Len(Kept') - 1 = Len(m_data) /\ Len(m_data') = Len(m_data) /\ coord' = 0
          BY <2>6, <2>3, <1>2
        <5> QED
          BY SMTT(30), <5>1, PlacesAre, OccurrencesArePlaces
      <4>3. \A k : k \notin 0 .. 0 - 1
        OBVIOUS
      <4>4. \A o \in 0 .. Len(m_data) - 1 : Kept'[o + 1] = Kept[o + 1]
        BY <2>6
      <4> QED
        BY <4>1, <4>2, <4>3, <4>4, <2>6
    <3> QED
      BY <3>1
  <2>8. \A p \in Occurrences : WordAt(p)' = WordAt(p)
    <3>1. ASSUME NEW p \in Occurrences PROVE WordAt(p)' = WordAt(p)
      <4>1. PICK o \in 0 .. Len(m_data) - 1 : p[1] = o
        BY <2>6, PlacesAre, OccurrencesArePlaces
      <4> QED
        BY <4>1, <2>6 DEF WordAt
    <3> QED
      BY <3>1
  <2> QED
    BY <1>5, <2>2, <2>3, <2>4, <2>5, <2>7, <2>8
<1> QED
  BY <1>4, <1>5

(* A lexeme indexed is one more occurrence, of the word it is.             *)
LEMMA IndexingAdds ==
  ASSUME TypeOK, IndexLexeme
  PROVE  LET p == <<Len(m_data), coord>>
             x == itm[1].words[coord + 1]
         IN  /\ TypeOK'
             /\ p \notin Occurrences /\ WordAt(p) = x
             /\ Occurrences' = Occurrences \cup {p}
             /\ Kept' = Kept /\ \A q : WordAt(q)' = WordAt(q)
             /\ Counted(x) \in [lexeme_id : Nat, frequency : Nat]
<1> DEFINE p == <<Len(m_data), coord>>
           x == itm[1].words[coord + 1]
<1>1. PICK it \in Item : itm = <<it>> /\ coord \in 0 .. Len(it.words) - 1 /\ itm[1] = it
  BY DEF IndexLexeme, TypeOK
<1>2. /\ Len(Kept) = Len(m_data) + 1 /\ Kept[Len(m_data) + 1] = it
      /\ Len(m_data) \in Nat /\ coord \in Nat
  BY <1>1, KeptIs DEF TypeOK
<1>3. it.words \in Seq(Lexemes) /\ Len(it.words) \in Nat
  BY DEF Item
<1>4. Kept' = Kept /\ m_data' = m_data /\ itm' = itm /\ coord' = coord + 1
  BY DEF IndexLexeme, Kept
<1>5. \A q : WordAt(q)' = WordAt(q)
  BY <1>4 DEF WordAt
<1>6. WordAt(p) = x
  BY <1>1, <1>2 DEF WordAt
<1>7. p \notin Occurrences
  BY <1>2, PlacesAre, OccurrencesArePlaces
<1>8. ASSUME NEW q PROVE q \in Occurrences' <=> q \in Occurrences \cup {p}
  BY <1>2, <1>4, PlacesAre, OccurrencesArePlaces
<1>9. Counted(x) \in [lexeme_id : Nat, frequency : Nat]
  <2>1. Cardinality(DOMAIN m_dict) \in Nat
    BY FS_CardinalityType DEF TypeOK
  <2>2. x \in DOMAIN m_dict => m_dict[x] \in [lexeme_id : Nat, frequency : Nat]
    BY DEF TypeOK
  <2> QED
    BY <2>1, <2>2 DEF Counted
<1>10. TypeOK'
  <2>1. DOMAIN m_dict' = DOMAIN m_dict \cup {x}
    BY DEF IndexLexeme
  <2>2. m_dict' \in [DOMAIN m_dict' -> [lexeme_id : Nat, frequency : Nat]]
    BY <1>9, <2>1 DEF IndexLexeme, TypeOK
  <2>3. IsFiniteSet(DOMAIN m_dict')
    BY ZenonT(60), <2>1, FS_AddElement DEF TypeOK
  <2>4. coord' \in 0 .. Len(it.words)
    BY <1>1, <1>3, <1>4
  <2> QED
    BY <1>1, <1>4, <2>2, <2>3, <2>4 DEF TypeOK, IndexLexeme
<1> QED
  BY <1>4, <1>5, <1>6, <1>7, <1>8, <1>9, <1>10

(* A row appended stays what and where it was.                             *)
LEMMA PushedStays ==
  ASSUME TypeOK, PushBack
  PROVE  /\ TypeOK'
         /\ Kept' = Kept /\ \A q : WordAt(q)' = WordAt(q)
         /\ Occurrences' = Occurrences
<1>1. PICK it \in Item : itm = <<it>> /\ coord = Len(it.words) /\ itm[1] = it
  BY DEF PushBack, TypeOK
<1>2. /\ Len(Kept) = Len(m_data) + 1 /\ Kept[Len(m_data) + 1] = it
      /\ Len(m_data) \in Nat /\ coord \in Nat
  BY <1>1, KeptIs DEF TypeOK
<1>3. m_data' = Append(m_data, it) /\ itm' = <<>> /\ coord' = 0
  BY <1>1 DEF PushBack
<1>4. Kept' = Kept /\ Len(m_data') = Len(m_data) + 1
  BY <1>1, <1>3 DEF Kept, TypeOK
<1>5. \A q : WordAt(q)' = WordAt(q)
  BY <1>4 DEF WordAt
<1>6. ASSUME NEW q PROVE q \in Occurrences' <=> q \in Occurrences
  BY SMTT(30), <1>1, <1>2, <1>3, <1>4, PlacesAre, OccurrencesArePlaces
<1>7. TypeOK'
  BY <1>1, <1>3 DEF TypeOK, PushBack
<1> QED
  BY <1>4, <1>5, <1>6, <1>7

-----------------------------------------------------------------------------
(* Every step of the load keeps LoadInv.                                   *)

LEMMA LoadInvInit == Init => LoadInv
<1> SUFFICES ASSUME Init PROVE LoadInv
  OBVIOUS
<1>1. Kept = <<>> /\ DOMAIN m_dict = {}
  BY DEF Init, Kept
<1>2. Len(<<>>) = 0 /\ 1 .. 0 = {} /\ 0 .. 0 - 1 = {}
  OBVIOUS
<1>3. Occurrences = {}
  BY <1>1, <1>2, PlacesAre, OccurrencesArePlaces
<1>4. IsFiniteSet({}) /\ Cardinality({}) = 0
  BY FS_EmptySet
<1>5. TypeOK
  <2>1. file \in Files /\ Len(file) \in Nat
    BY FilesAssumption DEF Init
  <2>2. m_dict \in [DOMAIN m_dict -> [lexeme_id : Nat, frequency : Nat]]
    BY <1>1 DEF Init
  <2>3. m_data \in Seq(Item) /\ itm = <<>> /\ coord = 0
    BY DEF Init
  <2>4. line_cnt = 0 /\ errno = FALSE
    BY DEF Init
  <2>5. IsFiniteSet(DOMAIN m_dict)
    BY <1>1, <1>4
  <2>6. line_cnt \in 0 .. Len(file)
    BY <2>1, <2>4
  <2>7. errno \in BOOLEAN
    BY <2>4
  <2> QED
    BY <2>1, <2>2, <2>3, <2>5, <2>6, <2>7 DEF TypeOK
<1>6. ReadSoFar
  BY <1>1, <1>2 DEF Init, ReadSoFar
<1>7. DictExact
  BY <1>1, <1>2, <1>3, <1>4 DEF DictExact
<1>8. IndexExact
  BY <1>1, <1>3 DEF IndexExact, Init
<1>9. RowsKept
  BY <1>1, <1>2 DEF RowsKept, Init
<1> QED
  BY <1>1, <1>3, <1>4, <1>5, <1>6, <1>7, <1>8, <1>9 DEF LoadInv, IdsDiffer

(* The dictionary and the index stay what they are for steps that add no   *)
(* occurrence.                                                             *)
LEMMA NoOccurrence ==
  ASSUME LoadInv, TypeOK', UNCHANGED <<m_dict, m_index>>, Occurrences' = Occurrences,
         \A p \in Occurrences : WordAt(p)' = WordAt(p)
  PROVE  IsFiniteSet(Occurrences)' /\ IdsDiffer' /\ DictExact' /\ IndexExact'
<1>1. {WordAt(p)' : p \in Occurrences'} = {WordAt(p) : p \in Occurrences}
  OBVIOUS
<1>2. ASSUME NEW x
      PROVE  {p \in Occurrences' : WordAt(p)' = x} = {p \in Occurrences : WordAt(p) = x}
  OBVIOUS
<1>3. DictExact'
  BY <1>1, <1>2 DEF LoadInv, DictExact
<1>4. IndexExact'
  BY DEF LoadInv, IndexExact
<1> QED
  BY <1>3, <1>4 DEF LoadInv, IdsDiffer

LEMMA PushBackKeeps ==
  ASSUME LoadInv, PushBack
  PROVE  LoadInv'
<1>1. TypeOK' /\ Kept' = Kept /\ Occurrences' = Occurrences
      /\ \A q : WordAt(q)' = WordAt(q)
  BY PushedStays DEF LoadInv
<1>2. IsFiniteSet(Occurrences)' /\ IdsDiffer' /\ DictExact' /\ IndexExact'
  BY <1>1, NoOccurrence DEF PushBack
<1>3. ReadSoFar'
  BY <1>1 DEF ReadSoFar, LoadInv, PushBack
<1>4. RowsKept'
  BY <1>1 DEF RowsKept, LoadInv, PushBack
<1> QED
  BY <1>1, <1>2, <1>3, <1>4 DEF LoadInv

(* A row is kept for what it is, unless errno was set before it.           *)
LEMMA AcceptedRows ==
  ASSUME NEW row \in Row, NEW e \in BOOLEAN, errno = e,
         row.kind # "empty" => row.fields >= 3
  PROVE  /\ ErrnoAfter(row) <=> (errno \/ row.kind = "range")
         /\ Accepted(row) <=>
              \/ ValidData(row) /\ ~ (errno \/ row.kind = "range")
              \/ row.fields = 3 /\ row.raw /\ row.url /\ row.kind = "empty"
BY DEF ErrnoAfter, Accepted, valid, Converted, ValidData, Row, RatingKinds

LEMMA ReadRowKeeps ==
  ASSUME LoadInv, ReadRow
  PROVE  LoadInv'
<1> DEFINE row == file[line_cnt + 1]
           n == line_cnt + 1
           overflowed(i) == \E j \in 1 .. i : file[j].kind = "range"
           kept(i) == \/ ValidData(file[i]) /\ ~ overflowed(i)
                      \/ /\ file[i].fields = 3 /\ file[i].raw /\ file[i].url
                         /\ file[i].kind = "empty"
<1>1. TypeOK /\ ReadSoFar /\ RowsKept
  BY DEF LoadInv
<1>2. /\ TypeOK' /\ Occurrences' = Occurrences
      /\ \A p \in Occurrences : WordAt(p)' = WordAt(p)
  BY <1>1, ReadKeeps
<1>3. IsFiniteSet(Occurrences)' /\ IdsDiffer' /\ DictExact' /\ IndexExact'
  BY <1>2, NoOccurrence DEF ReadRow
<1>4. n \in 1 .. Len(file) /\ row \in Row /\ line_cnt \in Nat /\ Len(file) \in Nat
      /\ (row.kind # "empty" => row.fields >= 3)
  BY <1>1, FileOfRows DEF ReadRow, TypeOK
<1>5. errno' = ErrnoAfter(row) /\ line_cnt' = n /\ file' = file
  BY DEF ReadRow
<1>6. overflowed(n) <=> errno \/ row.kind = "range"
  <2>1. 1 .. n = (1 .. line_cnt) \cup {n}
    BY <1>4
  <2> QED
    BY <1>1, <2>1 DEF ReadSoFar
<1>7. errno' <=> \E j \in 1 .. line_cnt' : file'[j].kind = "range"
  BY <1>1, <1>4, <1>5, <1>6, AcceptedRows DEF TypeOK
<1>8. Accepted(row) <=> kept(n)
  BY <1>1, <1>4, <1>6, AcceptedRows DEF TypeOK
<1>9. Kept \in Seq(Item) /\ Len(Kept) \in Nat
  BY <1>1, KeptIs
<1>10. {Kept[i].line : i \in 1 .. Len(Kept)} = {i \in 1 .. line_cnt : kept(i)}
       /\ (\A i, j \in 1 .. Len(Kept) : i < j => Kept[i].line < Kept[j].line)
       /\ \A i \in 1 .. Len(Kept) : Kept[i].words = file[Kept[i].line].words
  BY <1>1 DEF RowsKept
<1>11. {i \in 1 .. n : kept(i)} =
         IF kept(n) THEN {i \in 1 .. line_cnt : kept(i)} \cup {n}
                    ELSE {i \in 1 .. line_cnt : kept(i)}
  <2> HIDE DEF kept
  <2> QED
    BY <1>4
<1> HIDE DEF kept, overflowed
<1>12. CASE ~ Accepted(row)
  <2>1. Kept' = Kept
    BY <1>1, <1>12, ReadKeeps
  <2>2. ReadSoFar'
    BY <1>1, <1>4, <1>5, <1>7, <2>1 DEF ReadSoFar
  <2>3. {Kept'[i].line : i \in 1 .. Len(Kept')} = {i \in 1 .. n : kept(i)}
    BY <1>8, <1>10, <1>11, <1>12, <2>1
  <2>4. RowsKept'
    BY <1>5, <1>10, <2>1, <2>3 DEF RowsKept, kept, overflowed
  <2> QED
    BY <1>2, <1>3, <2>2, <2>4 DEF LoadInv
<1>13. CASE Accepted(row)
  <2>1. PICK it \in Item : it.line = n /\ it.words = row.words /\ Kept' = Append(Kept, it)
    BY <1>1, <1>13, ReadKeeps
  <2>2. /\ Len(Kept') = Len(Kept) + 1 /\ Kept'[Len(Kept) + 1] = it
        /\ \A i \in 1 .. Len(Kept) : Kept'[i] = Kept[i]
    BY <1>9, <2>1
  <2>3. 1 .. Len(Kept') = (1 .. Len(Kept)) \cup {Len(Kept) + 1}
    BY <1>9, <2>2
  <2>4. \A i \in 1 .. Len(Kept) : Kept[i].line \in 1 .. line_cnt
    BY <1>1 DEF ReadSoFar
  <2>5. ReadSoFar'
    BY SMTT(30), <1>4, <1>5, <1>7, <2>1, <2>2, <2>3, <2>4 DEF ReadSoFar
  <2>6. {Kept'[i].line : i \in 1 .. Len(Kept')} = {i \in 1 .. n : kept(i)}
    <3>1. {Kept'[i].line : i \in 1 .. Len(Kept')} =
            {Kept[i].line : i \in 1 .. Len(Kept)} \cup {n}
      BY <2>1, <2>2, <2>3
    <3> QED
      BY <1>8, <1>10, <1>11, <1>13, <3>1
  <2>7. \A i, j \in 1 .. Len(Kept') : i < j => Kept'[i].line < Kept'[j].line
    <3>1. \A i \in 1 .. Len(Kept) : Kept'[i].line < Kept'[Len(Kept) + 1].line
      BY <1>4, <2>1, <2>2, <2>4
    <3> QED
      BY <1>9, <1>10, <2>2, <2>3, <3>1
  <2>8. \A i \in 1 .. Len(Kept') : Kept'[i].words = file[Kept'[i].line].words
    BY <1>10, <2>1, <2>2, <2>3
  <2>9. RowsKept'
    BY <1>5, <2>6, <2>7, <2>8 DEF RowsKept, kept, overflowed
  <2> QED
    BY <1>2, <1>3, <2>5, <2>9 DEF LoadInv
<1> QED
  BY <1>12, <1>13

LEMMA IndexLexemeKeeps ==
  ASSUME LoadInv, IndexLexeme
  PROVE  LoadInv'
<1> DEFINE p == <<Len(m_data), coord>>
           x == itm[1].words[coord + 1]
           D == DOMAIN m_dict
           id == Counted(x).lexeme_id
           at(y) == {q \in Occurrences : WordAt(q) = y}
<1>1. TypeOK /\ IsFiniteSet(Occurrences)
  BY DEF LoadInv
<1>2. /\ TypeOK' /\ p \notin Occurrences /\ WordAt(p) = x
      /\ Occurrences' = Occurrences \cup {p}
      /\ Kept' = Kept /\ \A q : WordAt(q)' = WordAt(q)
      /\ Counted(x) \in [lexeme_id : Nat, frequency : Nat]
  BY <1>1, IndexingAdds
<1>3. IsFiniteSet(Occurrences)'
  BY <1>1, <1>2, FS_AddElement
<1>4. /\ DOMAIN m_dict' = D \cup {x} /\ m_dict'[x] = Counted(x)
      /\ \A y \in D \ {x} : m_dict'[y] = m_dict[y]
  BY DEF IndexLexeme
<1>5. /\ Cardinality(D) \in Nat /\ IsFiniteSet(D)
      /\ Cardinality(D \cup {x}) = IF x \in D THEN Cardinality(D) ELSE Cardinality(D) + 1
  BY <1>1, FS_CardinalityType, FS_AddElement DEF TypeOK
<1>6. x \in D => /\ id = m_dict[x].lexeme_id
                 /\ Counted(x).frequency = m_dict[x].frequency + 1
  BY <1>1 DEF Counted, TypeOK
<1>7. x \notin D => id = Cardinality(D) /\ Counted(x).frequency = 1
  BY DEF Counted
<1>8. /\ D = {WordAt(q) : q \in Occurrences}
      /\ {m_dict[y].lexeme_id : y \in D} = 0 .. Cardinality(D) - 1
      /\ \A y \in D : m_dict[y].frequency = Cardinality(at(y))
  BY DEF LoadInv, DictExact
<1> HIDE DEF p, x, id
<1>9. \A y : {q \in Occurrences' : WordAt(q)' = y} = IF y = x THEN at(x) \cup {p} ELSE at(y)
  BY <1>2
<1>10. IsFiniteSet(at(x)) /\ Cardinality(at(x) \cup {p}) = Cardinality(at(x)) + 1
       /\ (x \notin D => Cardinality(at(x)) = 0)
  <2>1. IsFiniteSet(at(x)) /\ p \notin at(x)
    BY <1>1, <1>2, FS_Subset
  <2>2. x \notin D => at(x) = {}
    BY <1>8
  <2> HIDE DEF at
  <2> QED
    BY <2>1, <2>2, FS_AddElement, FS_EmptySet
<1> HIDE DEF at
<1>11. DictExact'
  <2>1. DOMAIN m_dict' = {WordAt(q)' : q \in Occurrences'}
    BY <1>2, <1>4, <1>8
  <2>2. {m_dict'[y].lexeme_id : y \in DOMAIN m_dict'} = 0 .. Cardinality(DOMAIN m_dict') - 1
    <3>1. {m_dict'[y].lexeme_id : y \in DOMAIN m_dict'} =
            {m_dict[y].lexeme_id : y \in D} \cup {id}
      BY <1>4, <1>6 DEF id
    <3>2. CASE x \in D
      <4>1. id \in {m_dict[y].lexeme_id : y \in D} /\ D \cup {x} = D
        BY <1>6, <3>2
      <4> QED
        BY <1>4, <1>8, <3>1, <4>1
    <3>3. CASE x \notin D
      <4>1. (0 .. Cardinality(D) - 1) \cup {Cardinality(D)} =
              0 .. (Cardinality(D) + 1) - 1
        BY <1>5
      <4> QED
        BY <1>4, <1>5, <1>7, <1>8, <3>1, <3>3, <4>1
    <3> QED
      BY <3>2, <3>3
  <2>3. ASSUME NEW y \in DOMAIN m_dict'
        PROVE  m_dict'[y].frequency =
                 Cardinality({q \in Occurrences' : WordAt(q)' = y})
    <3>1. CASE y = x
      <4>1. {q \in Occurrences' : WordAt(q)' = y} = at(x) \cup {p}
        BY <1>9, <3>1
      <4>2. m_dict'[y].frequency = Cardinality(at(x)) + 1
        BY <1>4, <1>6, <1>7, <1>8, <1>10, <3>1
      <4> QED
        BY <1>10, <4>1, <4>2
    <3>2. CASE y # x
      BY <1>4, <1>8, <1>9, <2>3, <3>2
    <3> QED
      BY <3>1, <3>2
  <2> QED
    BY <2>1, <2>2, <2>3 DEF DictExact
<1>12. IdsDiffer'
  <2>1. x \notin D => \A y \in D : m_dict[y].lexeme_id # id
    <3>1. \A y \in D : m_dict[y].lexeme_id \in 0 .. Cardinality(D) - 1
      BY <1>8
    <3> QED
      BY <1>5, <1>7, <3>1
  <2>2. \A y, z \in D : m_dict[y].lexeme_id = m_dict[z].lexeme_id => y = z
    BY DEF LoadInv, IdsDiffer
  <2> QED
    BY <1>4, <1>6, <2>1, <2>2 DEF IdsDiffer, id
<1>13. \A y \in D : m_dict'[y].lexeme_id = m_dict[y].lexeme_id
  BY <1>4, <1>6 DEF id
<1>14. IndexExact'
  <2> DEFINE open(i) == [lexeme_id |-> i, offset |-> first_key, coord |-> 0]
             entry(i, q) == [lexeme_id |-> i, offset |-> q[1], coord |-> q[2]]
  <2>1. m_index' = m_index \cup {open(id), entry(id, p)}
    BY DEF IndexLexeme, Entries, id, p, x
  <2>2. m_index = {open(m_dict[y].lexeme_id) : y \in D}
                    \cup {entry(m_dict[WordAt(q)].lexeme_id, q) : q \in Occurrences}
    BY DEF LoadInv, IndexExact
  <2>3. m_dict'[x].lexeme_id = id
    BY <1>4 DEF id
  <2> HIDE DEF open, entry
  <2>4. {open(m_dict'[y].lexeme_id) : y \in DOMAIN m_dict'} =
          {open(m_dict[y].lexeme_id) : y \in D} \cup {open(id)}
    BY <1>4, <1>13, <2>3
  <2>5. {entry(m_dict'[WordAt(q)'].lexeme_id, q) : q \in Occurrences'} =
          {entry(m_dict[WordAt(q)].lexeme_id, q) : q \in Occurrences} \cup {entry(id, p)}
    <3>1. \A q \in Occurrences : WordAt(q) \in D
      BY <1>8
    <3>2. \A q \in Occurrences :
            m_dict'[WordAt(q)'].lexeme_id = m_dict[WordAt(q)].lexeme_id
      BY <1>2, <1>13, <3>1
    <3>3. \A q : q = p => m_dict'[WordAt(q)'].lexeme_id = id
      BY <1>2, <2>3
    <3> QED
      BY <1>2, <3>2, <3>3
  <2>6. m_index' = {open(m_dict'[y].lexeme_id) : y \in DOMAIN m_dict'}
                    \cup {entry(m_dict'[WordAt(q)'].lexeme_id, q) : q \in Occurrences'}
    BY <2>1, <2>2, <2>4, <2>5
  <2> QED
    BY <2>6 DEF IndexExact, open, entry
<1>15. ReadSoFar' /\ RowsKept'
  BY <1>2 DEF LoadInv, ReadSoFar, RowsKept, IndexLexeme
<1> QED
  BY <1>2, <1>3, <1>11, <1>12, <1>14, <1>15 DEF LoadInv

LEMMA LoadInvKept == LoadInv /\ [Load]_vars => LoadInv'
<1> SUFFICES ASSUME LoadInv, [Load]_vars PROVE LoadInv'
  OBVIOUS
<1>1. CASE ReadRow
  BY <1>1, ReadRowKeeps
<1>2. CASE IndexLexeme
  BY <1>2, IndexLexemeKeeps
<1>3. CASE PushBack
  BY <1>3, PushBackKeeps
<1>4. CASE UNCHANGED vars
  <2>1. Kept' = Kept
    BY <1>4 DEF vars, Kept
  <2>2. Occurrences' = Occurrences /\ \A q : WordAt(q)' = WordAt(q)
    BY <1>4, <2>1 DEF vars, Occurrences, WordAt
  <2>3. TypeOK'
    BY <1>4 DEF vars, LoadInv, TypeOK
  <2>4. IsFiniteSet(Occurrences)' /\ IdsDiffer' /\ DictExact' /\ IndexExact'
    BY <1>4, <2>2, <2>3, NoOccurrence DEF vars
  <2>5. ReadSoFar' /\ RowsKept'
    BY <1>4, <2>1 DEF vars, LoadInv, ReadSoFar, RowsKept
  <2> QED
    BY <2>3, <2>4, <2>5 DEF LoadInv
<1> QED
  BY <1>1, <1>2, <1>3, <1>4 DEF Load

LEMMA LoadInvAlways == Spec => []LoadInv
BY LoadInvInit, LoadInvKept, PTL DEF Spec

(* A search changes nothing of what was loaded.                            *)
LEMMA SearchesLoad == SearcherSpec => Spec
<1>1. SearcherInit => Init
  BY DEF SearcherInit
<1>2. [SearcherNext]_<<vars, searchVars>> => [Load]_vars
  BY DEF SearcherNext, Ask, Round
<1> QED
  BY <1>1, <1>2, PTL DEF SearcherSpec, Spec

(* Whatever the file, and while a row is half indexed, the identifiers are *)
(* consecutive and the frequencies are the numbers of occurrences.         *)
THEOREM DictExactAlways == SearcherSpec => []DictExact
<1>1. LoadInv => DictExact
  BY DEF LoadInv
<1> QED
  BY <1>1, LoadInvAlways, SearchesLoad, PTL

(* Whatever the file, the index finds every occurrence in the rows kept at *)
(* the offset its row has or will have, and nothing else.                  *)
THEOREM IndexExactAlways == SearcherSpec => []IndexExact
<1>1. LoadInv => IndexExact
  BY DEF LoadInv
<1> QED
  BY <1>1, LoadInvAlways, SearchesLoad, PTL

(* Whatever the file, the rows kept are the rows with all fields in order, *)
(* as long as no rating before them was out of range, and the rows that    *)
(* have no rating at all.                                                  *)
THEOREM RowsKeptAlways == SearcherSpec => []RowsKept
<1>1. LoadInv => RowsKept
  BY DEF LoadInv
<1> QED
  BY <1>1, LoadInvAlways, SearchesLoad, PTL

-----------------------------------------------------------------------------
(* Sets of numbers.                                                        *)

LEMMA LeastExists ==
  ASSUME NEW S \in SUBSET Nat, S # {}
  PROVE  \E m \in S : \A n \in S : m <= n
<1>1. IsWellFoundedOn({ss \in Nat \X Nat : ss[1] < ss[2]}, Nat)
  BY NatLessThanWellFounded DEF OpToRel
<1>2. PICK m \in S : \A n \in S : <<n, m>> \notin {ss \in Nat \X Nat : ss[1] < ss[2]}
  BY <1>1, WFMin
<1>3. \A n \in S : ~ (n < m)
  BY <1>2
<1> QED
  BY <1>3

LEMMA GreatestExists ==
  ASSUME NEW top \in Int, NEW S \in SUBSET (0 .. top), S # {}
  PROVE  \E m \in S : \A n \in S : n <= m
<1>1. {top - n : n \in S} \in SUBSET Nat /\ {top - n : n \in S} # {}
  <2>1. \A n \in S : top - n \in Nat
    OBVIOUS
  <2> QED
    BY <2>1
<1>2. PICK m \in {top - n : n \in S} : \A k \in {top - n : n \in S} : m <= k
  BY <1>1, LeastExists
<1>3. PICK n \in S : m = top - n
  BY <1>2
<1>4. \A k \in S : k <= n
  BY <1>2, <1>3
<1> QED
  BY <1>4

(* A set of numbers that holds every number from 1 to each of its own.     *)
LEMMA InitialInterval ==
  ASSUME NEW top \in Nat, NEW S \in SUBSET (1 .. top),
         \A k \in S : 1 .. k \subseteq S
  PROVE  S = 1 .. Cardinality(S) /\ Cardinality(S) \in 0 .. top
<1>1. CASE S = {}
  BY <1>1, FS_EmptySet
<1>2. CASE S # {}
  <2>1. PICK m \in S : \A n \in S : n <= m
    <3>1. S \in SUBSET (0 .. top) /\ top \in Int
      OBVIOUS
    <3> QED
      BY <1>2, <3>1, GreatestExists
  <2>2. m \in 1 .. top /\ m \in Int /\ 1 \in Int
    BY <2>1
  <2>3. S = 1 .. m
    <3>1. \A n \in S : n \in 1 .. m
      BY <2>1, <2>2
    <3> QED
      BY <2>1, <3>1
  <2>4. Cardinality(1 .. m) = m
    <3>1. Cardinality(1 .. m) = IF 1 > m THEN 0 ELSE m - 1 + 1
      BY <2>2, FS_Interval
    <3> QED
      BY <2>2, <3>1
  <2> QED
    BY <2>2, <2>3, <2>4
<1> QED
  BY <1>1, <1>2

-----------------------------------------------------------------------------
(* The entries of a lexeme in a loaded index.                              *)

Entry(x, o, k) == [lexeme_id |-> m_dict[x].lexeme_id, offset |-> o, coord |-> k]

RowsOf(x) == {o \in 0 .. Len(m_data) - 1 : Positions(o, x) # {}}

LEMMA LoadedOccurrences ==
  ASSUME LoadInv, Loaded, NEW p
  PROVE  /\ p \in Occurrences <=>
              \E o \in 0 .. Len(m_data) - 1 : \E k \in 0 .. Len(m_data[o + 1].words) - 1 :
                p = <<o, k>>
         /\ p \in Occurrences => WordAt(p) = m_data[p[1] + 1].words[p[2] + 1]
<1>1. Kept = m_data /\ Len(m_data) \in Nat
  BY KeptIs DEF LoadInv, Loaded, TypeOK
<1>2. \A o \in 0 .. Len(m_data) - 1 : o < Len(m_data)
  BY <1>1
<1> QED
  BY SMTT(30), <1>1, <1>2, PlacesAre, OccurrencesArePlaces DEF WordAt

LEMMA EntriesAre ==
  ASSUME LoadInv, Loaded, NEW x \in DOMAIN m_dict, NEW e
  PROVE  /\ e \in m_index /\ e.lexeme_id = m_dict[x].lexeme_id <=>
              \/ e = Entry(x, first_key, 0)
              \/ \E o \in RowsOf(x) : \E k \in Positions(o, x) : e = Entry(x, o, k)
<1>1. IdsDiffer /\ DictExact /\ IndexExact
  BY DEF LoadInv
<1>2. ASSUME e \in m_index, e.lexeme_id = m_dict[x].lexeme_id
      PROVE  \/ e = Entry(x, first_key, 0)
             \/ \E o \in RowsOf(x) : \E k \in Positions(o, x) : e = Entry(x, o, k)
  <2>1. CASE \E y \in DOMAIN m_dict : e = Entry(y, first_key, 0)
    BY <1>1, <1>2, <2>1 DEF IdsDiffer, Entry
  <2>2. ASSUME NEW p \in Occurrences, e = Entry(WordAt(p), p[1], p[2])
        PROVE  \E o \in RowsOf(x) : \E k \in Positions(o, x) : e = Entry(x, o, k)
    <3>1. WordAt(p) \in DOMAIN m_dict
      BY <1>1 DEF DictExact
    <3>2. WordAt(p) = x
      BY <1>1, <1>2, <2>2, <3>1 DEF IdsDiffer, Entry
    <3>3. PICK o \in 0 .. Len(m_data) - 1 :
            \E k \in 0 .. Len(m_data[o + 1].words) - 1 : p = <<o, k>>
      BY LoadedOccurrences
    <3>4. PICK k \in 0 .. Len(m_data[o + 1].words) - 1 : p = <<o, k>>
      BY <3>3
    <3>5. m_data[o + 1].words[k + 1] = x
      BY <3>2, <3>4, LoadedOccurrences
    <3>6. k \in Positions(o, x)
      BY <3>5 DEF Positions
    <3> QED
      BY <2>2, <3>2, <3>4, <3>6 DEF RowsOf
  <2>3. \/ \E y \in DOMAIN m_dict : e = Entry(y, first_key, 0)
        \/ \E p \in Occurrences : e = Entry(WordAt(p), p[1], p[2])
    BY <1>1, <1>2 DEF IndexExact, Entry
  <2> QED
    BY <2>1, <2>2, <2>3
<1>3. Entry(x, first_key, 0) \in m_index
  BY <1>1 DEF IndexExact, Entry
<1>4. ASSUME NEW o \in RowsOf(x), NEW k \in Positions(o, x)
      PROVE  Entry(x, o, k) \in m_index
  <2>1. <<o, k>> \in Occurrences
    BY LoadedOccurrences DEF RowsOf, Positions
  <2>2. WordAt(<<o, k>>) = x
    BY <2>1, LoadedOccurrences DEF Positions
  <2>3. PICK p \in Occurrences : p = <<o, k>> /\ WordAt(p) = x /\ p[1] = o /\ p[2] = k
    BY <2>1, <2>2
  <2>4. [lexeme_id |-> m_dict[WordAt(p)].lexeme_id, offset |-> p[1], coord |-> p[2]]
          \in m_index
    BY <1>1 DEF IndexExact
  <2> QED
    BY <2>3, <2>4 DEF Entry
<1>5. \A o, k : Entry(x, o, k).lexeme_id = m_dict[x].lexeme_id
  BY DEF Entry
<1> QED
  BY <1>2, <1>3, <1>4, <1>5

(* A cogwheel of lexeme x stands on the first occurrence in the first row  *)
(* after row o that holds x, or at its end if no such row does.            *)
StandsAfter(cogwheel, x, o) ==
  /\ cogwheel.lexeme_id = m_dict[x].lexeme_id
  /\ cogwheel.end \in BOOLEAN
  /\ cogwheel.end => \A n \in RowsOf(x) : n <= o
  /\ ~ cogwheel.end =>
       \E n \in RowsOf(x) : \E k \in Positions(n, x) :
         /\ cogwheel.iter = Entry(x, n, k) /\ n > o
         /\ \A j \in Positions(n, x) : k <= j
         /\ \A j \in RowsOf(x) : j > o => n <= j

LEMMA RowsAndPositions ==
  ASSUME LoadInv, NEW x
  PROVE  /\ RowsOf(x) \in SUBSET Nat /\ RowsOf(x) \in SUBSET (0 .. Len(m_data) - 1)
         /\ Len(m_data) \in Nat
         /\ \A o \in 0 .. Len(m_data) - 1 :
              /\ m_data[o + 1] \in Item /\ Len(m_data[o + 1].words) \in Nat
              /\ Positions(o, x) \in SUBSET Nat
              /\ Positions(o, x) \in SUBSET (0 .. Len(m_data[o + 1].words) - 1)
<1>1. m_data \in Seq(Item) /\ Len(m_data) \in Nat
  BY DEF LoadInv, TypeOK
<1>2. ASSUME NEW o \in 0 .. Len(m_data) - 1
      PROVE  /\ m_data[o + 1] \in Item /\ Len(m_data[o + 1].words) \in Nat
             /\ Positions(o, x) \in SUBSET Nat
             /\ Positions(o, x) \in SUBSET (0 .. Len(m_data[o + 1].words) - 1)
  <2>1. m_data[o + 1] \in Item
    BY <1>1
  <2>2. Len(m_data[o + 1].words) \in Nat
    BY <2>1 DEF Item
  <2> QED
    BY <2>1, <2>2 DEF Positions
<1> QED
  BY <1>1, <1>2 DEF RowsOf

(* The entries of the same lexeme behind e, and the first of them: it is   *)
(* the first occurrence in the first row behind that of e.                 *)
RunAfter(e) == {f \in Following(e) : f.lexeme_id = e.lexeme_id}

First(t, x, o) ==
  \E n \in RowsOf(x) : \E m \in Positions(n, x) :
    /\ t = Entry(x, n, m) /\ n > o
    /\ \A j \in Positions(n, x) : m <= j
    /\ \A j \in RowsOf(x) : j > o => n <= j

LEMMA FirstInRun ==
  ASSUME LoadInv, Loaded, NEW x \in DOMAIN m_dict, NEW o \in Int, NEW k \in Int,
         o >= first_key, o = first_key => k = 0,
         o \in RowsOf(x) => \A n \in Positions(o, x) : n <= k,
         NEW e, e = Entry(x, o, k)
  PROVE  /\ RunAfter(e) = {} => \A n \in RowsOf(x) : n <= o
         /\ RunAfter(e) # {} =>
              \E t \in RunAfter(e) :
                /\ First(t, x, o)
                /\ \A g \in RunAfter(e) \ {t} : Before(t, g) /\ ~ Before(g, t)
<1> DEFINE rest == RunAfter(e)
           id == m_dict[x].lexeme_id
<1>0. id \in Nat /\ e.lexeme_id = id /\ e.offset = o /\ e.coord = k
  BY DEF LoadInv, TypeOK, Entry
<1>1. ASSUME NEW n \in Int, NEW m \in Int
      PROVE  Before(e, Entry(x, n, m)) <=> (o < n \/ (o = n /\ k < m))
  <2>1. LET f == Entry(x, n, m) IN f.lexeme_id = id /\ f.offset = n /\ f.coord = m
    BY DEF Entry
  <2> QED
    BY <1>0, <2>1 DEF Before
<1>2. ASSUME NEW f
      PROVE  f \in rest <=> \E n \in RowsOf(x) : \E m \in Positions(n, x) :
                              f = Entry(x, n, m) /\ n > o
  <2>1. f \in rest <=> Before(e, f) /\ f \in m_index /\ f.lexeme_id = id
    BY <1>0 DEF RunAfter, Following
  <2>2. ~ Before(e, Entry(x, first_key, 0))
    BY <1>1 DEF first_key
  <2>3. ASSUME NEW n \in RowsOf(x), NEW m \in Positions(n, x)
        PROVE  Before(e, Entry(x, n, m)) <=> n > o
    <3>1. n \in Int /\ m \in Int
      BY RowsAndPositions DEF RowsOf
    <3>2. n = o => m <= k
      OBVIOUS
    <3>3. Before(e, Entry(x, n, m)) <=> (o < n \/ (o = n /\ k < m))
      BY <1>1, <3>1
    <3> QED
      BY <3>1, <3>2, <3>3
  <2> QED
    BY <2>1, <2>2, <2>3, EntriesAre
<1> HIDE DEF rest
<1>4. CASE rest = {}
  <2>1. \A n \in RowsOf(x) : \A m \in Positions(n, x) : Entry(x, n, m) \notin rest
    BY <1>4
  <2>2. \A n \in RowsOf(x) : ~ (n > o)
    BY <1>2, <2>1 DEF RowsOf
  <2>3. \A n \in RowsOf(x) : n <= o
    BY <2>2, RowsAndPositions
  <2> QED
    BY <1>4, <2>3 DEF rest
<1>5. CASE rest # {}
  <2>1. {n \in RowsOf(x) : n > o} # {} /\ {n \in RowsOf(x) : n > o} \in SUBSET Nat
    BY <1>2, <1>5, RowsAndPositions
  <2>2. PICK n \in RowsOf(x) : n > o /\ \A j \in RowsOf(x) : j > o => n <= j
    BY <2>1, LeastExists
  <2>3. Positions(n, x) # {} /\ Positions(n, x) \in SUBSET Nat /\ n \in Nat
    BY RowsAndPositions DEF RowsOf
  <2>4. PICK m \in Positions(n, x) : \A j \in Positions(n, x) : m <= j
    BY <2>3, LeastExists
  <2>5. Entry(x, n, m) \in rest
    BY <1>2, <2>2
  <2>6. ASSUME NEW g \in rest, g # Entry(x, n, m)
        PROVE  Before(Entry(x, n, m), g) /\ ~ Before(g, Entry(x, n, m))
    <3>1. PICK a \in RowsOf(x) : \E b \in Positions(a, x) : g = Entry(x, a, b) /\ a > o
      BY <1>2
    <3>2. PICK b \in Positions(a, x) : g = Entry(x, a, b)
      BY <3>1
    <3>3. n <= a /\ (a = n => m <= b) /\ a \in Nat /\ b \in Nat /\ m \in Nat
      BY <2>2, <2>3, <2>4, <3>1, <3>2, RowsAndPositions DEF RowsOf
    <3>4. a # n \/ b # m
      BY <2>6, <3>2
    <3> QED
      BY <1>0, <2>3, <3>2, <3>3, <3>4 DEF Before, Entry
  <2>7. First(Entry(x, n, m), x, o)
    BY <2>2, <2>4 DEF First
  <2>8. \A g \in rest \ {Entry(x, n, m)} :
          Before(Entry(x, n, m), g) /\ ~ Before(g, Entry(x, n, m))
    BY <2>6
  <2> QED
    BY <1>5, <2>5, <2>7, <2>8 DEF rest
<1> QED
  BY <1>4, <1>5 DEF rest

(* ++ iter from the last entry of a row.                                   *)
LEMMA MovedPastStandsAfter ==
  ASSUME LoadInv, Loaded, NEW x \in DOMAIN m_dict, NEW o \in Int, NEW k \in Int,
         o >= first_key, o = first_key => k = 0,
         o \in RowsOf(x) => \A n \in Positions(o, x) : n <= k,
         NEW e, e = Entry(x, o, k)
  PROVE  StandsAfter(MovedPast(e), x, o)
<1>1. /\ MovedPast(e).lexeme_id = m_dict[x].lexeme_id
      /\ MovedPast(e).end = (RunAfter(e) = {})
      /\ RunAfter(e) # {} =>
           MovedPast(e).iter = CHOOSE f \in RunAfter(e) :
                                 \A g \in RunAfter(e) \ {f} : Before(f, g)
  BY DEF MovedPast, RunAfter, Entry
<1>2. CASE RunAfter(e) = {}
  <2>1. \A n \in RowsOf(x) : n <= o
    BY <1>2, FirstInRun
  <2> QED
    BY <1>1, <1>2, <2>1 DEF StandsAfter
<1>3. CASE RunAfter(e) # {}
  <2>1. PICK t \in RunAfter(e) :
          /\ First(t, x, o)
          /\ \A g \in RunAfter(e) \ {t} : Before(t, g) /\ ~ Before(g, t)
    BY <1>3, FirstInRun
  <2>2. (CHOOSE f \in RunAfter(e) : \A g \in RunAfter(e) \ {f} : Before(f, g)) = t
    BY <2>1
  <2> QED
    BY <1>1, <1>3, <2>1, <2>2 DEF StandsAfter, First
<1> QED
  BY <1>2, <1>3

(* Every lexeme of the dictionary occurs in a row, so the entry behind its *)
(* opening one is its own: the dereference m_init prepares is safe.        *)
LEMMA BegunStandsAfter ==
  ASSUME LoadInv, Loaded, NEW x \in DOMAIN m_dict
  PROVE  StandsAfter(Begun(m_dict[x].lexeme_id), x, first_key)
<1> DEFINE id == m_dict[x].lexeme_id
           e == Entry(x, first_key, 0)
<1>1. /\ id \in Nat /\ \A y \in DOMAIN m_dict : m_dict[y].lexeme_id \in Nat
      /\ e.lexeme_id = id /\ e.offset = first_key /\ e.coord = 0
  BY DEF LoadInv, TypeOK, Entry
<1>2. PICK n \in RowsOf(x) : n \in Int /\ n > first_key
  <2>1. PICK p \in Occurrences : WordAt(p) = x
    BY DEF LoadInv, DictExact
  <2>2. PICK o \in 0 .. Len(m_data) - 1 :
          \E k \in 0 .. Len(m_data[o + 1].words) - 1 : p = <<o, k>>
    BY LoadedOccurrences
  <2>3. PICK k \in 0 .. Len(m_data[o + 1].words) - 1 : p = <<o, k>>
    BY <2>2
  <2>4. m_data[o + 1].words[k + 1] = x
    BY <2>1, <2>3, LoadedOccurrences
  <2>5. k \in Positions(o, x)
    BY <2>4 DEF Positions
  <2> QED
    BY <2>5 DEF RowsOf, first_key
<1>3. first_key \notin RowsOf(x) /\ first_key \in Int /\ first_key >= first_key
  BY DEF RowsOf, first_key
<1>4. RunAfter(e) # {}
  <2>1. RunAfter(e) = {} => \A j \in RowsOf(x) : j <= first_key
    BY <1>3, FirstInRun
  <2> QED
    BY <1>2, <1>3, <2>1
<1>5. PICK t \in RunAfter(e) :
        /\ First(t, x, first_key)
        /\ \A g \in RunAfter(e) \ {t} : Before(t, g) /\ ~ Before(g, t)
  BY <1>3, <1>4, FirstInRun
<1>6. t \in Following(e) /\ t.lexeme_id = id
  BY <1>1, <1>5 DEF RunAfter
<1>7. ASSUME NEW g \in Following(e), g # t
      PROVE  Before(t, g) /\ ~ Before(g, t)
  <2>1. CASE g.lexeme_id = id
    BY <1>1, <1>5, <1>7, <2>1 DEF RunAfter
  <2>2. CASE g.lexeme_id # id
    <3>1. g \in m_index /\ Before(e, g)
      BY DEF Following
    <3>2. g.lexeme_id \in Nat
      BY <1>1, <3>1 DEF LoadInv, DictExact, IndexExact
    <3>3. id < g.lexeme_id
      BY <1>1, <2>2, <3>1 DEF Before
    <3> QED
      BY <1>1, <1>6, <3>2, <3>3 DEF Before
  <2> QED
    BY <2>1, <2>2
<1>8. Behind(e) = t
  BY <1>6, <1>7 DEF Behind
<1>9. /\ Begun(id).lexeme_id = id /\ Begun(id).end = FALSE
      /\ Begun(id).iter = t
  BY <1>8 DEF Begun, Entry
<1> QED
  BY <1>5, <1>9 DEF StandsAfter, First

-----------------------------------------------------------------------------
(* Ascending, and the known lexemes of a query.                            *)

Ascends(s, S) ==
  /\ s \in [1 .. Cardinality(S) -> S]
  /\ \A k, n \in 1 .. Cardinality(S) : k < n => s[k] < s[n]

LEMMA AscendingExists ==
  ASSUME NEW S \in SUBSET Nat, IsFiniteSet(S)
  PROVE  \E s : Ascends(s, S)
<1> DEFINE without == {n \in Nat : \E T \in SUBSET Nat :
                         /\ IsFiniteSet(T) /\ Cardinality(T) = n
                         /\ \A s : ~ Ascends(s, T)}
<1>1. SUFFICES without = {}
  <2>1. Cardinality(S) \in Nat
    BY FS_CardinalityType
  <2> QED
    BY <1>1, <2>1
<1>2. SUFFICES ASSUME without # {} PROVE FALSE
  OBVIOUS
<1>3. PICK n \in without : \A m \in without : n <= m
  BY <1>2, LeastExists
<1>4. PICK T \in SUBSET Nat : /\ IsFiniteSet(T) /\ Cardinality(T) = n
                              /\ \A s : ~ Ascends(s, T)
  BY <1>3
<1>5. T # {}
  <2>1. T = {} => Ascends([k \in 1 .. 0 |-> 0], T)
    BY FS_EmptySet DEF Ascends
  <2> QED
    BY <1>4, <2>1
<1>6. PICK m \in T : \A k \in T : m <= k
  BY <1>5, LeastExists
<1>7. IsFiniteSet(T \ {m}) /\ Cardinality(T \ {m}) = n - 1 /\ T \ {m} \in SUBSET Nat
  BY <1>4, <1>6, FS_RemoveElement
<1>8. n - 1 \in Nat /\ n - 1 \notin without
  <2>1. n - 1 \in Nat
    BY <1>7, FS_CardinalityType
  <2> QED
    BY <1>3, <2>1
<1>9. PICK t : Ascends(t, T \ {m})
  BY <1>7, <1>8
<1>10. t \in [1 .. n - 1 -> T \ {m}] /\ \A k, j \in 1 .. n - 1 : k < j => t[k] < t[j]
  BY <1>7, <1>9 DEF Ascends
<1> DEFINE s == [k \in 1 .. n |-> IF k = 1 THEN m ELSE t[k - 1]]
<1>11. \A k \in 1 .. n : k # 1 => k - 1 \in 1 .. n - 1
  BY <1>8
<1>12. s \in [1 .. n -> T]
  BY <1>6, <1>10, <1>11
<1>13. ASSUME NEW k \in 1 .. n, NEW j \in 1 .. n, k < j PROVE s[k] < s[j]
  <2>1. j # 1 /\ s[j] = t[j - 1] /\ t[j - 1] \in T \ {m}
    BY <1>10, <1>11, <1>13
  <2>2. CASE k = 1
    <3>1. s[k] = m
      BY <2>2
    <3>2. m \in Nat /\ t[j - 1] \in Nat /\ m <= t[j - 1] /\ m # t[j - 1]
      BY <1>4, <1>6, <2>1
    <3> QED
      BY <2>1, <3>1, <3>2
  <2>3. CASE k # 1
    BY <1>10, <1>11, <1>13, <2>1, <2>3
  <2> QED
    BY <2>2, <2>3
<1>14. Ascends(s, T)
  <2> HIDE DEF s
  <2> QED
    BY <1>4, <1>12, <1>13 DEF Ascends
<1> QED
  BY <1>4, <1>14

LEMMA AscendingIs ==
  ASSUME NEW S \in SUBSET Nat, IsFiniteSet(S)
  PROVE  Ascends(Ascending(S), S) /\ Cardinality(S) \in Nat
<1>1. Cardinality(S) \in Nat
  BY FS_CardinalityType
<1>2. PICK s : Ascends(s, S)
  BY AscendingExists
<1>3. \E t \in [1 .. Cardinality(S) -> S] : \A k, n \in DOMAIN t : k < n => t[k] < t[n]
  BY <1>2 DEF Ascends
<1>4. /\ Ascending(S) \in [1 .. Cardinality(S) -> S]
      /\ \A k, n \in DOMAIN Ascending(S) : k < n => Ascending(S)[k] < Ascending(S)[n]
  BY <1>3 DEF Ascending
<1> QED
  BY <1>1, <1>4 DEF Ascends

LEMMA AscendingNone == Ascending({}) = <<>>
<1>1. Cardinality({}) = 0 /\ IsFiniteSet({})
  BY FS_EmptySet
<1>2. Ascending({}) \in [1 .. 0 -> {}]
  BY <1>1, AscendingIs DEF Ascends
<1> QED
  BY <1>2

LEMMA KnownIs ==
  ASSUME NEW q \in Seq(Lexemes)
  PROVE  \E n \in Nat : KnownOf(q) \in [1 .. n -> DOMAIN m_dict]
<1> DEFINE S == {k \in DOMAIN q : q[k] \in DOMAIN m_dict}
<1>1. Len(q) \in Nat /\ DOMAIN q = 1 .. Len(q)
  OBVIOUS
<1>2. IsFiniteSet(S) /\ S \in SUBSET Nat
  <2>1. IsFiniteSet(1 .. Len(q))
    BY <1>1, FS_Interval
  <2> QED
    BY <1>1, <2>1, FS_Subset
<1>3. Ascending(S) \in [1 .. Cardinality(S) -> S] /\ Cardinality(S) \in Nat
  BY <1>2, AscendingIs DEF Ascends
<1>4. KnownOf(q) = [i \in 1 .. Cardinality(S) |-> q[Ascending(S)[i]]]
  BY <1>3 DEF KnownOf
<1>5. \A k \in S : q[k] \in DOMAIN m_dict
  OBVIOUS
<1> HIDE DEF S
<1> QED
  BY <1>3, <1>4, <1>5

-----------------------------------------------------------------------------
(* The invariant of a search: a cogwheel stands on the first occurrence of *)
(* its lexeme in a row not found yet, after every row found; and a result  *)
(* is what its row and the query determine.                                *)

CoordsOf(o) == FlattenSeq([i \in DOMAIN Known |-> Ascending(Positions(o, Known[i]))])

ResultOf(o) ==
  [cnt |-> Cardinality(Hits(o)), rating |-> m_data[o + 1].rating,
   mark |-> mark(CoordsOf(o), Len(m_data[o + 1].words)),
   line |-> m_data[o + 1].line, offset |-> o, coords |-> CoordsOf(o)]

Found == {m_results[k].offset : k \in DOMAIN m_results}

Cogwheel(c, x) ==
  /\ c.lexeme_id = m_dict[x].lexeme_id
  /\ c.end \in BOOLEAN
  /\ ~ c.end =>
       /\ \E n \in RowsOf(x) : \E k \in Positions(n, x) :
            c.iter = Entry(x, n, k) /\ \A j \in Positions(n, x) : k <= j
       /\ \A n \in Found : n < c.iter.offset
  /\ \A n \in RowsOf(x) : n \in Found \/ (~ c.end /\ n >= c.iter.offset)

Searching ==
  /\ Loaded
  /\ \E q \in Queries : query = <<q>>
  /\ DOMAIN m_cogwheels = DOMAIN Known
  /\ \A i \in DOMAIN Known : Cogwheel(m_cogwheels[i], Known[i])
  /\ m_results \in Seq({ResultOf(o) : o \in Matching})
  /\ IsFiniteSet(Found) /\ Len(m_results) = Cardinality(Found)
  /\ \A k, n \in DOMAIN m_results : k < n => ~ Less(m_results[n], m_results[k])

SearchInv ==
  /\ LoadInv
  /\ \/ query = <<>> /\ m_cogwheels = <<>> /\ m_results = <<>>
     \/ Searching

LEMMA QueryKnown ==
  ASSUME NEW q \in Queries, query = <<q>>
  PROVE  /\ \E n \in Nat : Known \in [1 .. n -> DOMAIN m_dict]
         /\ IsFiniteSet(DOMAIN Known) /\ DOMAIN Known \in SUBSET Nat
         /\ \A i \in DOMAIN Known : Known[i] \in DOMAIN m_dict
         /\ \A o : IsFiniteSet(Hits(o)) /\ Cardinality(Hits(o)) \in Nat
         /\ Known = KnownOf(q)
<1>1. Known = KnownOf(q)
  BY DEF Known
<1>2. PICK n \in Nat : Known \in [1 .. n -> DOMAIN m_dict]
  BY <1>1, QueriesAssumption, KnownIs
<1>3. IsFiniteSet(1 .. n)
  BY FS_Interval
<1>4. \A o : IsFiniteSet(Hits(o)) /\ Cardinality(Hits(o)) \in Nat
  <2>1. \A o : Hits(o) \in SUBSET (1 .. n)
    BY <1>2 DEF Hits
  <2> QED
    BY <1>3, <2>1, FS_Subset, FS_CardinalityType
<1> QED
  BY <1>1, <1>2, <1>3, <1>4

(* m_init: the cogwheels stand on the first row of their lexeme.           *)
LEMMA AskKeeps ==
  ASSUME LoadInv, query = <<>>, m_cogwheels = <<>>, m_results = <<>>, Ask
  PROVE  SearchInv'
<1>1. PICK q \in Queries : query' = <<q>> /\ m_init(q)
  BY DEF Ask
<1>2. /\ Loaded /\ m_results' = <<>> /\ UNCHANGED vars
      /\ m_dict' = m_dict /\ m_index' = m_index /\ m_data' = m_data /\ itm' = itm
      /\ line_cnt' = line_cnt /\ file' = file
  BY DEF Ask, vars
<1>3. Loaded' /\ LoadInv'
  BY <1>2, LoadInvKept DEF Loaded
<1>4. PICK n \in Nat : KnownOf(q) \in [1 .. n -> DOMAIN m_dict]
  BY QueriesAssumption, KnownIs
<1>5. Known' = KnownOf(q)
  <2>1. KnownOf(q)' = KnownOf(q)
    BY <1>2 DEF KnownOf
  <2> QED
    BY <1>1, <2>1 DEF Known
<1>6. m_cogwheels' = [i \in DOMAIN KnownOf(q) |->
                        Begun(m_dict[KnownOf(q)[i]].lexeme_id)]
  BY <1>1 DEF m_init
<1>7. Found' = {}
  <2>1. DOMAIN m_results' = {}
    BY <1>2
  <2> QED
    BY <2>1 DEF Found
<1>8. ASSUME NEW i \in DOMAIN Known'
      PROVE  Cogwheel(m_cogwheels[i], Known[i])'
  <2>1. PICK x \in DOMAIN m_dict : x = Known'[i] /\ m_cogwheels'[i] =
                                      Begun(m_dict[x].lexeme_id)
    BY <1>4, <1>5, <1>6
  <2>2. StandsAfter(m_cogwheels'[i], x, first_key)
    BY <1>2, <2>1, BegunStandsAfter
  <2>3. /\ RowsOf(x)' = RowsOf(x)
        /\ \A o, k : Entry(x, o, k)' = Entry(x, o, k)
        /\ \A o : Positions(o, x)' = Positions(o, x)
    BY <1>2 DEF RowsOf, Positions, Entry
  <2>4. \A o \in RowsOf(x) : o \in Nat /\ ~ (o <= first_key) /\ o > first_key
    BY RowsAndPositions DEF first_key
  <2>c. PICK c : c = m_cogwheels'[i]
    OBVIOUS
  <2>5. c.lexeme_id = m_dict[x].lexeme_id /\ c.end \in BOOLEAN
    BY <2>2, <2>c DEF StandsAfter
  <2>6. ASSUME ~ c.end
        PROVE  /\ \E o \in RowsOf(x) : \E k \in Positions(o, x) :
                    c.iter = Entry(x, o, k) /\ \A j \in Positions(o, x) : k <= j
               /\ \A o \in RowsOf(x) : o >= c.iter.offset
    <3>1. PICK o \in RowsOf(x) : \E k \in Positions(o, x) :
             /\ c.iter = Entry(x, o, k)
             /\ \A j \in Positions(o, x) : k <= j
             /\ \A j \in RowsOf(x) : j > first_key => o <= j
      BY <2>2, <2>c, <2>6 DEF StandsAfter
    <3>2. c.iter.offset = o
      BY <3>1 DEF Entry
    <3> QED
      BY <2>4, <3>1, <3>2
  <2>7. c.end => RowsOf(x) = {}
    BY <2>2, <2>4, <2>c DEF StandsAfter
  <2>8. Cogwheel(c, x)'
    BY <1>2, <1>7, <2>3, <2>5, <2>6, <2>7 DEF Cogwheel
  <2> QED
    BY <2>1, <2>8, <2>c
<1>9. Searching'
  <2>1. DOMAIN m_cogwheels' = DOMAIN Known'
    BY <1>5, <1>6
  <2>2. IsFiniteSet(Found') /\ Len(m_results') = Cardinality(Found')
    BY <1>2, <1>7, FS_EmptySet
  <2>3. m_results' \in Seq({ResultOf(o)' : o \in Matching'}) /\ DOMAIN m_results' = {}
    BY <1>2
  <2> QED
    BY <1>1, <1>3, <1>8, <2>1, <2>2, <2>3 DEF Searching
<1> QED
  BY <1>3, <1>9 DEF SearchInv

-----------------------------------------------------------------------------
(* One round of the search.                                                *)

(* What the cogwheels of one row are: those of the lexemes it holds.       *)
LEMMA NearestRow ==
  ASSUME LoadInv, Searching, Live # {}
  PROVE  /\ min \in Matching /\ min \in Nat /\ \A o \in Found : o < min
         /\ \A i \in Live : m_cogwheels[i].iter.offset \in Nat
                            /\ min <= m_cogwheels[i].iter.offset
         /\ rcs = Hits(min) /\ rcs # {}
         /\ \A i \in rcs : \E k \in Positions(min, Known[i]) :
              /\ m_cogwheels[i].iter = Entry(Known[i], min, k)
              /\ \A j \in Positions(min, Known[i]) : k <= j
<1> DEFINE at(i) == m_cogwheels[i].iter.offset
           offsets == {at(i) : i \in Live}
<1>1. ASSUME NEW i \in Live
      PROVE  /\ i \in DOMAIN Known /\ at(i) \in RowsOf(Known[i]) /\ at(i) \in Nat
             /\ \E k \in Positions(at(i), Known[i]) :
                  /\ m_cogwheels[i].iter = Entry(Known[i], at(i), k)
                  /\ \A j \in Positions(at(i), Known[i]) : k <= j
             /\ \A o \in Found : o < at(i)
             /\ \A o \in RowsOf(Known[i]) : o \in Found \/ o >= at(i)
  <2>1. i \in DOMAIN Known /\ Cogwheel(m_cogwheels[i], Known[i]) /\ ~ m_cogwheels[i].end
    BY DEF Live, Searching
  <2>2. PICK n \in RowsOf(Known[i]) : \E k \in Positions(n, Known[i]) :
          m_cogwheels[i].iter = Entry(Known[i], n, k)
          /\ \A j \in Positions(n, Known[i]) : k <= j
    BY <2>1 DEF Cogwheel
  <2>3. at(i) = n /\ n \in Nat
    BY <2>2, RowsAndPositions DEF Entry
  <2>4. \A o \in RowsOf(Known[i]) : o \in Found \/ o >= at(i)
    BY <2>1 DEF Cogwheel
  <2>5. \A o \in Found : o < at(i)
    BY <2>1 DEF Cogwheel
  <2> QED
    BY <2>1, <2>2, <2>3, <2>4, <2>5
<1>2. offsets \in SUBSET Nat /\ offsets # {}
  BY <1>1
<1>3. \E o \in offsets : \A i \in Live : o <= at(i)
  <2>1. PICK o \in offsets : \A n \in offsets : o <= n
    BY <1>2, LeastExists
  <2>2. \A i \in Live : at(i) \in offsets
    OBVIOUS
  <2> QED
    BY <2>1, <2>2
<1>4. min \in offsets /\ \A i \in Live : min <= at(i)
  BY <1>3 DEF min
<1>5. PICK l \in Live : min = at(l)
  BY <1>4
<1>6. min \in Nat /\ \A o \in Found : o < min
  BY <1>1, <1>5
<1>7. min \in Matching
  <2>1. min \in 0 .. Len(m_data) - 1 /\ Positions(min, Known[l]) # {} /\ l \in DOMAIN Known
    BY <1>1, <1>5 DEF RowsOf
  <2> QED
    BY <2>1 DEF Matching, Hits
<1>8. rcs = {i \in Live : at(i) = min} /\ l \in rcs
  BY <1>5 DEF rcs
<1>9. ASSUME NEW i PROVE i \in Hits(min) <=> i \in rcs
  <2>1. i \in rcs => i \in Hits(min)
    BY <1>1, <1>8 DEF Hits, RowsOf
  <2>2. ASSUME i \in Hits(min) PROVE i \in rcs
    <3>1. i \in DOMAIN Known /\ min \in RowsOf(Known[i])
      BY <1>7, <2>2 DEF Hits, RowsOf, Matching
    <3>2. min \notin Found
      BY <1>6
    <3>3. ~ m_cogwheels[i].end /\ min >= at(i) /\ m_cogwheels[i].end \in BOOLEAN
          /\ i \in DOMAIN m_cogwheels
      BY <3>1, <3>2 DEF Searching, Cogwheel
    <3>4. i \in Live
      BY <3>3 DEF Live
    <3> QED
      BY <1>1, <1>4, <1>6, <1>8, <3>3, <3>4
  <2> QED
    BY <2>1, <2>2
<1>10. rcs = Hits(min)
  BY <1>8, <1>9 DEF Hits
<1> QED
  BY <1>1, <1>4, <1>6, <1>7, <1>8, <1>10

(* A cogwheel passes every occurrence of its lexeme in the row.            *)
LEMMA PassesRow ==
  ASSUME LoadInv, Searching, Live # {}, NEW i \in rcs
  PROVE  /\ {e.coord : e \in Passed(i)} = Positions(min, Known[i])
         /\ StandsAfter(MovedPast(LastPassed(i)), Known[i], min)
<1>1. PICK x \in DOMAIN m_dict : x = Known[i]
  <2>1. i \in DOMAIN Known
    BY NearestRow DEF Hits
  <2> QED
    BY <2>1, QueryKnown DEF Searching
<1>2. PICK k \in Positions(min, x) :
         m_cogwheels[i].iter = Entry(x, min, k) /\ \A j \in Positions(min, x) : k <= j
  BY <1>1, NearestRow
<1>3. min \in 0 .. Len(m_data) - 1 /\ min \in Nat /\ min \in RowsOf(x)
      /\ Positions(min, x) \in SUBSET Nat /\ Len(m_data[min + 1].words) - 1 \in Int
      /\ Positions(min, x) \in SUBSET (0 .. Len(m_data[min + 1].words) - 1)
  <2>1. min \in 0 .. Len(m_data) - 1 /\ min \in Nat
    BY NearestRow DEF Matching
  <2> QED
    BY <1>2, <2>1, RowsAndPositions DEF RowsOf
<1>4. m_dict[x].lexeme_id \in Nat
  BY DEF LoadInv, TypeOK
<1>5. ASSUME NEW e
      PROVE  e \in Passed(i) <=> \E j \in Positions(min, x) : e = Entry(x, min, j)
  <2>1. e \in Passed(i) <=> /\ e \in m_index /\ e.lexeme_id = m_dict[x].lexeme_id
                            /\ e.offset = min /\ ~ Before(e, Entry(x, min, k))
    BY <1>2 DEF Passed, Entry
  <2>2. ASSUME NEW j \in Positions(min, x)
        PROVE  ~ Before(Entry(x, min, j), Entry(x, min, k))
    <3>1. k <= j /\ k \in Nat /\ j \in Nat
      BY <1>2, <1>3
    <3> QED
      BY <1>3, <1>4, <3>1 DEF Before, Entry
  <2>3. \A o, j : Entry(x, o, j).offset = o
    BY DEF Entry
  <2>4. min # first_key
    BY <1>3 DEF first_key
  <2>5. e \in m_index /\ e.lexeme_id = m_dict[x].lexeme_id <=>
          \/ e = Entry(x, first_key, 0)
          \/ \E o \in RowsOf(x) : \E j \in Positions(o, x) : e = Entry(x, o, j)
    BY EntriesAre DEF Searching
  <2>6. e \in Passed(i) => \E j \in Positions(min, x) : e = Entry(x, min, j)
    BY <2>1, <2>3, <2>4, <2>5
  <2>7. (\E j \in Positions(min, x) : e = Entry(x, min, j)) => e \in Passed(i)
    BY <1>3, <2>1, <2>2, <2>3, <2>5
  <2> QED
    BY <2>6, <2>7
<1>6. {e.coord : e \in Passed(i)} = Positions(min, x)
  <2>1. \A j : Entry(x, min, j).coord = j
    BY DEF Entry
  <2> QED
    BY <1>5, <2>1
<1>7. PICK m \in Positions(min, x) : \A j \in Positions(min, x) : j <= m
  BY <1>2, <1>3, GreatestExists
<1>8. \A j \in Positions(min, x) :
        Before(Entry(x, min, m), Entry(x, min, j)) <=> m < j
  BY <1>3, <1>4, <1>7 DEF Before, Entry
<1>9. Entry(x, min, m) \in Passed(i)
      /\ \A f \in Passed(i) : ~ Before(Entry(x, min, m), f)
  <2>1. \A j \in Positions(min, x) : ~ (m < j)
    BY <1>3, <1>7
  <2> QED
    BY <1>5, <1>7, <1>8, <2>1
<1>10. ASSUME NEW e \in Passed(i), e # Entry(x, min, m)
       PROVE  Before(e, Entry(x, min, m))
  <2>1. PICK j \in Positions(min, x) : e = Entry(x, min, j)
    BY <1>5
  <2>2. j < m
    BY <1>3, <1>7, <1>10, <2>1
  <2> QED
    BY <2>1, <2>2 DEF Before, Entry
<1>11. LastPassed(i) = Entry(x, min, m)
  BY <1>9, <1>10 DEF LastPassed
<1>12. m \in Int /\ min \in Int /\ min >= first_key /\ min # first_key /\ Loaded
  BY <1>3, <1>7 DEF first_key, Searching
<1> QED
  BY <1>1, <1>6, <1>7, <1>11, <1>12, MovedPastStandsAfter

LEMMA CoordsAre ==
  ASSUME LoadInv, Searching, Live # {}
  PROVE  coords = CoordsOf(min)
<1>1. DOMAIN m_cogwheels = DOMAIN Known /\ rcs = Hits(min)
  BY NearestRow DEF Searching
<1>2. \A i \in DOMAIN Known :
        (IF i \in rcs THEN Ascending({e.coord : e \in Passed(i)}) ELSE <<>>)
          = Ascending(Positions(min, Known[i]))
  BY <1>1, PassesRow, AscendingNone DEF Hits
<1>3. [i \in DOMAIN m_cogwheels |->
         IF i \in rcs THEN Ascending({e.coord : e \in Passed(i)}) ELSE <<>>]
        = [i \in DOMAIN Known |-> Ascending(Positions(min, Known[i]))]
  BY <1>1, <1>2
<1> QED
  BY <1>3 DEF coords, CoordsOf

(* The multimap of results.                                                *)
Keyed(S) == \A r \in S : r.cnt \in Nat /\ r.rating \in Nat /\ r.mark \in Nat

LEMMA NotLess ==
  ASSUME NEW S, Keyed(S), NEW r \in S, NEW s \in S, NEW t \in S
  PROVE  /\ ~ Less(r, s) /\ ~ Less(s, t) => ~ Less(r, t)
         /\ Less(r, s) => ~ Less(s, r)
BY DEF Keyed, Less

LEMMA InsertAtIs ==
  ASSUME NEW S, NEW s \in Seq(S), NEW r \in S, NEW p \in 1 .. Len(s) + 1
  PROVE  LET t == InsertAt(s, p, r)
         IN  /\ t \in Seq(S) /\ Len(t) = Len(s) + 1 /\ t[p] = r
             /\ \A k \in 1 .. p - 1 : t[k] = s[k]
             /\ \A k \in p + 1 .. Len(s) + 1 : t[k] = s[k - 1]
<1> DEFINE a == SubSeq(s, 1, p - 1)
           b == SubSeq(s, p, Len(s))
<1>1. Len(s) \in Nat /\ p \in Nat
  OBVIOUS
<1>2. a \in Seq(S) /\ Len(a) = p - 1 /\ \A k \in 1 .. p - 1 : a[k] = s[k]
  BY <1>1
<1>3. b \in Seq(S) /\ Len(b) = Len(s) + 1 - p
      /\ \A k \in 1 .. Len(s) + 1 - p : b[k] = s[p + k - 1]
  BY <1>1
<1>4. InsertAt(s, p, r) = a \o <<r>> \o b
  BY DEF InsertAt
<1> HIDE DEF a, b
<1>5. /\ a \o <<r>> \in Seq(S) /\ Len(a \o <<r>>) = p /\ (a \o <<r>>)[p] = r
      /\ \A k \in 1 .. p - 1 : (a \o <<r>>)[k] = s[k]
  BY <1>1, <1>2
<1> DEFINE h == a \o <<r>>
<1> HIDE DEF h
<1>6. /\ h \in Seq(S) /\ Len(h) = p /\ h[p] = r
      /\ \A k \in 1 .. p - 1 : h[k] = s[k]
  BY <1>5 DEF h
<1>7. /\ h \o b \in Seq(S) /\ Len(h \o b) = Len(s) + 1
      /\ \A k \in 1 .. p : (h \o b)[k] = h[k]
      /\ \A k \in p + 1 .. Len(s) + 1 : (h \o b)[k] = b[k - p]
  BY <1>1, <1>3, <1>6
<1>8. \A k \in p + 1 .. Len(s) + 1 : b[k - p] = s[k - 1]
  <2>1. \A k \in p + 1 .. Len(s) + 1 :
          k - p \in 1 .. Len(s) + 1 - p /\ p + (k - p) - 1 = k - 1
    BY <1>1
  <2> QED
    BY <1>3, <2>1
<1>9. /\ \A k \in 1 .. p - 1 : (h \o b)[k] = s[k]
      /\ (h \o b)[p] = r
      /\ \A k \in p + 1 .. Len(s) + 1 : (h \o b)[k] = s[k - 1]
  BY <1>1, <1>6, <1>7, <1>8
<1> QED
  BY <1>4, <1>7, <1>9 DEF h

(* Inserted keeps the order.                                               *)
LEMMA InsertedInOrder ==
  ASSUME NEW S, Keyed(S), m_results \in Seq(S), NEW r \in S,
         \A k, n \in DOMAIN m_results : k < n => ~ Less(m_results[n], m_results[k])
  PROVE  LET t == Inserted(r)
         IN  /\ t \in Seq(S) /\ Len(t) = Len(m_results) + 1
             /\ {t[k].offset : k \in DOMAIN t} = Found \cup {r.offset}
             /\ \A k, n \in DOMAIN t : k < n => ~ Less(t[n], t[k])
<1> DEFINE s == m_results
           notGreater == {k \in DOMAIN s : ~ Less(r, s[k])}
           p == Cardinality(notGreater) + 1
           t == InsertAt(s, p, r)
<1>1. Len(s) \in Nat /\ DOMAIN s = 1 .. Len(s) /\ \A k \in 1 .. Len(s) : s[k] \in S
  OBVIOUS
<1>2. notGreater = 1 .. p - 1 /\ p \in 1 .. Len(s) + 1
  <2>1. notGreater \in SUBSET (1 .. Len(s))
    BY <1>1
  <2>2. ASSUME NEW k \in notGreater, NEW j \in 1 .. k PROVE j \in notGreater
    <3>1. j \in DOMAIN s /\ k \in DOMAIN s /\ ~ Less(r, s[k])
      BY <1>1, <2>2
    <3>2. j = k \/ ~ Less(s[k], s[j])
      BY <1>1, <3>1
    <3>3. ~ Less(r, s[j])
      BY <1>1, <3>1, <3>2, NotLess
    <3> QED
      BY <3>1, <3>3
  <2> HIDE DEF notGreater
  <2>3. notGreater = 1 .. Cardinality(notGreater)
        /\ Cardinality(notGreater) \in 0 .. Len(s)
    BY <1>1, <2>1, <2>2, InitialInterval
  <2> QED
    BY <1>1, <2>3
<1>3. \A k \in 1 .. Len(s) : k < p <=> ~ Less(r, s[k])
  <2>1. \A k \in 1 .. Len(s) : k \in notGreater <=> ~ Less(r, s[k])
    BY <1>1
  <2> HIDE DEF notGreater, p
  <2>2. \A k \in 1 .. Len(s) : k \in notGreater <=> k < p
    BY <1>1, <1>2
  <2> QED
    BY <2>1, <2>2
<1>4. Inserted(r) = t
  BY DEF Inserted
<1> HIDE DEF p, notGreater
<1>5. /\ t \in Seq(S) /\ Len(t) = Len(s) + 1 /\ t[p] = r
      /\ \A k \in 1 .. p - 1 : t[k] = s[k]
      /\ \A k \in p + 1 .. Len(s) + 1 : t[k] = s[k - 1]
  BY <1>2, InsertAtIs
<1> HIDE DEF t
<1>6. DOMAIN t = 1 .. Len(s) + 1 /\ p \in Nat
  BY <1>1, <1>2, <1>5
<1>7. ASSUME NEW k \in 1 .. Len(s) + 1
      PROVE  \/ k < p /\ k \in 1 .. Len(s) /\ t[k] = s[k] /\ ~ Less(r, s[k])
             \/ k = p /\ t[k] = r
             \/ k > p /\ k - 1 \in 1 .. Len(s) /\ t[k] = s[k - 1] /\ Less(r, s[k - 1])
  <2>1. CASE k < p
    BY <1>1, <1>2, <1>3, <1>5, <2>1
  <2>2. CASE k > p
    <3>1. k - 1 \in 1 .. Len(s) /\ ~ (k - 1 < p)
      BY <1>1, <1>2, <2>2
    <3> QED
      BY <1>1, <1>2, <1>3, <1>5, <2>2, <3>1
  <2> QED
    BY <1>5, <1>6, <2>1, <2>2
<1>8. {t[k].offset : k \in DOMAIN t} = Found \cup {r.offset}
  <2>1. \A k \in 1 .. Len(s) : \E n \in 1 .. Len(s) + 1 : t[n] = s[k]
    <3>1. \A k \in 1 .. Len(s) : k < p => k \in 1 .. p - 1 /\ k \in 1 .. Len(s) + 1
      BY <1>1, <1>6
    <3>2. \A k \in 1 .. Len(s) : ~ (k < p) =>
            k + 1 \in p + 1 .. Len(s) + 1 /\ k + 1 \in 1 .. Len(s) + 1 /\ k + 1 - 1 = k
      BY <1>1, <1>6
    <3> QED
      BY <1>5, <3>1, <3>2
  <2>2. \A k \in 1 .. Len(s) + 1 : t[k] = r \/ \E n \in 1 .. Len(s) : t[k] = s[n]
    BY <1>7
  <2>3. Found = {s[n].offset : n \in 1 .. Len(s)}
    BY <1>1 DEF Found
  <2>4. \A k \in DOMAIN t : t[k].offset \in Found \cup {r.offset}
    BY <1>6, <2>2, <2>3
  <2>5. \A o \in Found : \E k \in DOMAIN t : t[k].offset = o
    BY <1>6, <2>1, <2>3
  <2>6. \E k \in DOMAIN t : t[k].offset = r.offset
    BY <1>2, <1>5, <1>6
  <2> QED
    BY <2>4, <2>5, <2>6
<1>9. ASSUME NEW k \in 1 .. Len(s) + 1, NEW n \in 1 .. Len(s) + 1, k < n
      PROVE  ~ Less(t[n], t[k])
  <2>1. CASE n < p
    BY <1>1, <1>6, <1>7, <1>9, <2>1
  <2>2. CASE n = p
    <3>1. t[n] = r /\ t[k] = s[k] /\ ~ Less(r, s[k])
      BY <1>5, <1>6, <1>7, <1>9, <2>2
    <3> QED
      BY <3>1
  <2>3. CASE n > p
    <3>1. n - 1 \in 1 .. Len(s) /\ t[n] = s[n - 1] /\ Less(r, s[n - 1])
      BY <1>6, <1>7, <2>3
    <3>2. CASE k = p
      <4>1. t[k] = r /\ s[n - 1] \in S
        BY <1>1, <1>5, <3>1, <3>2
      <4> QED
        BY <3>1, <4>1, NotLess
    <3>3. CASE k < p
      <4>1. t[k] = s[k] /\ k \in 1 .. Len(s) /\ k < n - 1
        BY <1>6, <1>7, <2>3, <3>3
      <4> QED
        BY <1>1, <3>1, <4>1
    <3>4. CASE k > p
      <4>1. t[k] = s[k - 1] /\ k - 1 \in 1 .. Len(s) /\ k - 1 < n - 1
        BY <1>1, <1>6, <1>7, <1>9, <3>4
      <4> QED
        BY <1>1, <3>1, <4>1
    <3> QED
      BY <1>6, <3>2, <3>3, <3>4
  <2> QED
    BY <1>6, <2>1, <2>2, <2>3
<1> QED
  BY <1>4, <1>5, <1>6, <1>8, <1>9

LEMMA ResultsKeyed ==
  ASSUME LoadInv, Searching
  PROVE  Keyed({ResultOf(o) : o \in Matching})
<1>1. ASSUME NEW o \in Matching
      PROVE  LET r == ResultOf(o)
             IN  r.cnt \in Nat /\ r.rating \in Nat /\ r.mark \in Nat
  <2>1. o \in 0 .. Len(m_data) - 1
    BY DEF Matching
  <2>2. m_data[o + 1].rating \in Nat
    BY <2>1, RowsAndPositions, RatingsAssumption DEF Item
  <2>3. Cardinality(Hits(o)) \in Nat
    BY QueryKnown DEF Searching
  <2>4. mark(CoordsOf(o), Len(m_data[o + 1].words)) \in Nat
    BY DEF mark
  <2> QED
    BY <2>2, <2>3, <2>4 DEF ResultOf
<1> QED
  BY <1>1 DEF Keyed

LEMMA FoundMatches ==
  ASSUME Searching
  PROVE  /\ \A k \in DOMAIN m_results :
              m_results[k].offset \in Matching /\ m_results[k] = ResultOf(m_results[k].offset)
         /\ Found \subseteq Matching /\ \A o \in Found : o \in Int
<1>1. ASSUME NEW k \in DOMAIN m_results
      PROVE  m_results[k].offset \in Matching /\ m_results[k] = ResultOf(m_results[k].offset)
  <2>1. PICK o \in Matching : m_results[k] = ResultOf(o)
    BY DEF Searching
  <2>2. ResultOf(o).offset = o
    BY DEF ResultOf
  <2> QED
    BY <2>1, <2>2
<1>2. Found \subseteq Matching
  BY <1>1 DEF Found
<1> QED
  BY <1>1, <1>2 DEF Matching

LEMMA RoundKeeps ==
  ASSUME SearchInv, Round
  PROVE  /\ SearchInv'
         /\ \A i \in Live' : m_cogwheels'[i].iter.offset > min
<1>1. LoadInv /\ Searching /\ Live # {}
  BY DEF SearchInv, Round, Live
<1>2. /\ query' = query /\ UNCHANGED vars /\ m_dict' = m_dict /\ m_index' = m_index
      /\ m_data' = m_data /\ itm' = itm /\ line_cnt' = line_cnt /\ file' = file
  BY DEF Round, vars
<1>3. Loaded' /\ LoadInv'
  BY <1>1, <1>2, LoadInvKept DEF Loaded, Searching
<1>4. /\ Known' = Known /\ Matching' = Matching
      /\ \A x : RowsOf(x)' = RowsOf(x)
      /\ \A x, o, k : Entry(x, o, k)' = Entry(x, o, k)
      /\ \A x, o : Positions(o, x)' = Positions(o, x)
      /\ \A o : ResultOf(o)' = ResultOf(o)
  <2>1. Known' = Known
    BY <1>2 DEF Known, KnownOf
  <2>2. \A x, o : Positions(o, x)' = Positions(o, x)
    BY <1>2 DEF Positions
  <2>3. \A o : Hits(o)' = Hits(o)
    BY <2>1, <2>2 DEF Hits
  <2>4. \A o : CoordsOf(o)' = CoordsOf(o)
    BY <2>1, <2>2 DEF CoordsOf
  <2>5. \A o : ResultOf(o)' = ResultOf(o)
    BY <1>2, <2>3, <2>4 DEF ResultOf
  <2> QED
    BY <1>2, <2>1, <2>2, <2>3, <2>5 DEF Matching, RowsOf, Entry
<1>5. /\ min \in Matching /\ min \in Nat /\ \A o \in Found : o < min
      /\ \A i \in Live : m_cogwheels[i].iter.offset \in Nat
                         /\ min <= m_cogwheels[i].iter.offset
      /\ rcs = Hits(min)
  BY <1>1, NearestRow
<1>6. m_results' = Inserted(ResultOf(min))
  <2>1. ResultOf(min) =
          [cnt |-> Cardinality(rcs), rating |-> m_data[min + 1].rating,
           mark |-> mark(coords, Len(m_data[min + 1].words)),
           line |-> m_data[min + 1].line, offset |-> min, coords |-> coords]
    BY <1>1, <1>5, CoordsAre DEF ResultOf
  <2> QED
    BY <2>1 DEF Round
<1>7. PICK S : S = {ResultOf(o) : o \in Matching}
  OBVIOUS
<1>8. PICK r \in S : r = ResultOf(min) /\ r.offset = min
  <2>1. ResultOf(min).offset = min
    BY DEF ResultOf
  <2> QED
    BY <1>5, <1>7, <2>1
<1>9. /\ m_results' \in Seq(S) /\ Len(m_results') = Len(m_results) + 1
      /\ Found' = Found \cup {min}
      /\ \A k, n \in DOMAIN m_results' : k < n => ~ Less(m_results'[n], m_results'[k])
  <2>1. /\ m_results \in Seq(S) /\ Keyed(S)
        /\ \A k, n \in DOMAIN m_results : k < n => ~ Less(m_results[n], m_results[k])
    BY <1>1, <1>7, ResultsKeyed DEF Searching
  <2>2. LET t == Inserted(r)
        IN  /\ t \in Seq(S) /\ Len(t) = Len(m_results) + 1
            /\ {t[k].offset : k \in DOMAIN t} = Found \cup {r.offset}
            /\ \A k, n \in DOMAIN t : k < n => ~ Less(t[n], t[k])
    BY <2>1, InsertedInOrder
  <2>3. m_results' = Inserted(r)
    BY <1>6, <1>8
  <2>4. Found' = {m_results'[k].offset : k \in DOMAIN m_results'}
    BY DEF Found
  <2> QED
    BY <1>8, <2>2, <2>3, <2>4
<1>10. IsFiniteSet(Found') /\ Len(m_results') = Cardinality(Found')
  <2>1. IsFiniteSet(Found) /\ Len(m_results) = Cardinality(Found) /\ min \notin Found
    BY <1>1, <1>5 DEF Searching
  <2> QED
    BY <1>9, <2>1, FS_AddElement
<1>11. DOMAIN m_cogwheels' = DOMAIN Known /\ DOMAIN m_cogwheels = DOMAIN Known
  BY <1>1 DEF Round, Searching
<1>12. ASSUME NEW i \in DOMAIN Known
       PROVE  /\ Cogwheel(m_cogwheels[i], Known[i])'
              /\ ~ m_cogwheels'[i].end => m_cogwheels'[i].iter.offset > min
  <2>1. PICK x, c, d : x = Known[i] /\ c = m_cogwheels[i] /\ d = m_cogwheels'[i]
    OBVIOUS
  <2>2. Cogwheel(c, x)
    BY <1>1, <2>1 DEF Searching
  <2>3. \A n \in RowsOf(x) : n \in Nat
    BY <1>1, RowsAndPositions
  <2>4. CASE i \in rcs
    <3>1. d = MovedPast(LastPassed(i))
      BY <1>11, <2>1, <2>4 DEF Round
    <3>2. StandsAfter(d, x, min)
      BY <1>1, <2>1, <2>4, <3>1, PassesRow
    <3>3. \A n \in RowsOf(x) : n < min => n \in Found
      <4>1. c.iter.offset = min
        BY <2>1, <2>4 DEF rcs
      <4> QED
        BY <1>5, <2>2, <2>3, <4>1 DEF Cogwheel
    <3>4. CASE d.end
      <4>1. \A n \in RowsOf(x) : n \in Found \cup {min}
        BY <1>5, <2>3, <3>2, <3>3, <3>4 DEF StandsAfter
      <4>2. Cogwheel(d, x)'
        BY <1>2, <1>4, <1>9, <3>2, <3>4, <4>1 DEF Cogwheel, StandsAfter
      <4> QED
        BY <1>4, <2>1, <3>4, <4>2
    <3>5. CASE ~ d.end
      <4>1. PICK n \in RowsOf(x) : \E k \in Positions(n, x) :
               /\ d.iter = Entry(x, n, k) /\ n > min
               /\ \A j \in Positions(n, x) : k <= j
               /\ \A j \in RowsOf(x) : j > min => n <= j
        BY <3>2, <3>5 DEF StandsAfter
      <4>2. d.iter.offset = n /\ n > min
        BY <4>1 DEF Entry
      <4>3. \A o \in Found \cup {min} : o < n
        BY <1>1, <1>5, <2>3, <4>2, FoundMatches
      <4>4. \A j \in RowsOf(x) : j \in Found \cup {min} \/ j >= n
        BY <1>5, <2>3, <3>3, <4>1
      <4>5. Cogwheel(d, x)'
        BY <1>2, <1>4, <1>9, <3>2, <3>5, <4>1, <4>2, <4>3, <4>4 DEF Cogwheel, StandsAfter
      <4> QED
        BY <1>4, <2>1, <4>2, <4>5
    <3> QED
      BY <3>4, <3>5
  <2>5. CASE i \notin rcs
    <3>1. d = c
      BY <1>11, <2>1, <2>5 DEF Round
    <3>2. ~ c.end => c.iter.offset \in Nat /\ c.iter.offset > min
      <4>1. ~ c.end => i \in Live
        BY <1>11, <2>1 DEF Live
      <4>2. i \in Live => c.iter.offset # min
        BY <2>1, <2>5 DEF rcs
      <4> QED
        BY <1>5, <2>1, <4>1, <4>2
    <3>3. Cogwheel(d, x)'
      <4>1. ~ c.end => \A o \in Found \cup {min} : o < c.iter.offset
        BY <2>2, <3>2 DEF Cogwheel
      <4> QED
        BY <1>2, <1>4, <1>9, <2>2, <3>1, <4>1 DEF Cogwheel
    <3> QED
      BY <1>4, <2>1, <3>1, <3>2, <3>3
  <2> QED
    BY <2>4, <2>5
<1>13. \A i \in Live' : m_cogwheels'[i].iter.offset > min
  BY <1>11, <1>12 DEF Live
<1>14. Searching'
  <2>1. \E q \in Queries : query' = <<q>>
    BY <1>1, <1>2 DEF Searching
  <2>2. m_results' \in Seq({ResultOf(o)' : o \in Matching'})
    BY <1>4, <1>7, <1>9
  <2>3. \A i \in DOMAIN Known' : Cogwheel(m_cogwheels[i], Known[i])'
    BY <1>4, <1>12
  <2> QED
    BY <1>3, <1>4, <1>9, <1>10, <1>11, <2>1, <2>2, <2>3 DEF Searching
<1> QED
  BY <1>3, <1>13, <1>14 DEF SearchInv

-----------------------------------------------------------------------------
(* The search, for every file and every query.                             *)

LEMMA SearchInvInit == SearcherInit => SearchInv
BY LoadInvInit DEF SearcherInit, SearchInv

LEMMA SearchInvUnchanged ==
  ASSUME SearchInv, UNCHANGED <<vars, searchVars>>
  PROVE  SearchInv'
<1>1. LoadInv'
  BY LoadInvKept DEF SearchInv
<1>2. query' = query /\ m_cogwheels' = m_cogwheels /\ m_results' = m_results
      /\ m_dict' = m_dict /\ m_data' = m_data /\ itm' = itm
      /\ line_cnt' = line_cnt /\ file' = file
  BY DEF vars, searchVars
<1>3. CASE Searching
  <2>1. Known' = Known
    BY <1>2 DEF Known, KnownOf
  <2>2. \A x, o : Positions(o, x)' = Positions(o, x)
    BY <1>2 DEF Positions
  <2>3. \A o : Hits(o)' = Hits(o) /\ CoordsOf(o)' = CoordsOf(o)
    BY <2>1, <2>2 DEF Hits, CoordsOf
  <2>4. Matching' = Matching /\ \A o : ResultOf(o)' = ResultOf(o)
    BY <1>2, <2>3 DEF Matching, ResultOf
  <2>5. Found' = Found
    BY <1>2 DEF Found
  <2>6. \A c, x : Cogwheel(c, x) => Cogwheel(c, x)'
    BY <1>2, <2>2, <2>5 DEF Cogwheel, RowsOf, Entry
  <2>7. \A i \in DOMAIN Known' : Cogwheel(m_cogwheels[i], Known[i])'
    <3>1. ASSUME NEW i \in DOMAIN Known PROVE Cogwheel(m_cogwheels[i], Known[i])'
      <4>1. PICK c, x : c = m_cogwheels[i] /\ x = Known[i]
        OBVIOUS
      <4>2. Cogwheel(c, x)'
        BY <1>3, <2>6, <4>1 DEF Searching
      <4> QED
        BY <1>2, <2>1, <4>1, <4>2
    <3> QED
      BY <2>1, <3>1
  <2>8. Loaded'
    BY <1>2, <1>3 DEF Searching, Loaded
  <2>9. m_results' \in Seq({ResultOf(o)' : o \in Matching'})
    BY <1>2, <1>3, <2>4 DEF Searching
  <2> QED
    BY <1>1, <1>2, <1>3, <2>1, <2>5, <2>7, <2>8, <2>9 DEF SearchInv, Searching
<1> QED
  BY <1>1, <1>2, <1>3 DEF SearchInv

LEMMA SearchInvKept ==
  SearchInv /\ [SearcherNext]_<<vars, searchVars>> => SearchInv'
<1> SUFFICES ASSUME SearchInv, [SearcherNext]_<<vars, searchVars>> PROVE SearchInv'
  OBVIOUS
<1>1. CASE Load /\ UNCHANGED searchVars
  <2>1. LoadInv'
    BY <1>1, LoadInvKept DEF SearchInv
  <2>2. ~ Searching
    BY <1>1 DEF Searching, Loaded, Load, ReadRow, IndexLexeme, PushBack, SearchInv,
                LoadInv, TypeOK
  <2> QED
    BY <1>1, <2>1, <2>2 DEF SearchInv, searchVars
<1>2. CASE Ask
  <2>1. ~ Searching
    BY <1>2 DEF Searching, Ask
  <2> QED
    BY <1>2, <2>1, AskKeeps DEF SearchInv
<1>3. CASE Round
  BY <1>3, RoundKeeps
<1>4. CASE UNCHANGED <<vars, searchVars>>
  BY <1>4, SearchInvUnchanged
<1> QED
  BY <1>1, <1>2, <1>3, <1>4 DEF SearcherNext

LEMMA SearchInvAlways == SearcherSpec => []SearchInv
BY SearchInvInit, SearchInvKept, PTL DEF SearcherSpec

(* Every round moves the nearest row further, whatever is searched.        *)
THEOREM RoundsAdvanceAlways == SearcherSpec => RoundsAdvance
<1>1. SearchInv /\ [SearcherNext]_<<vars, searchVars>>
        => [Round => \A i \in Live' : m_cogwheels'[i].iter.offset > min]_searchVars
  BY RoundKeeps
<1> QED
  BY <1>1, SearchInvAlways, PTL DEF SearcherSpec, RoundsAdvance

(* At every moment the results are exactly the rows with a lexeme of the   *)
(* query before the rows the cogwheels stand on, each found once, with     *)
(* the number and the places of the lexemes it holds.                      *)
THEOREM ResultsExactAlways == SearcherSpec => []ResultsExact
<1>1. SearchInv => ResultsExact
  <2> SUFFICES ASSUME LoadInv, Searching PROVE ResultsExact
    BY DEF SearchInv, ResultsExact
  <2> DEFINE passed == {o \in Matching : Live = {} \/ o < min}
  <2>1. Found \subseteq passed
    BY FoundMatches, NearestRow
  <2>2. ASSUME NEW o \in passed PROVE o \in Found
    <3>1. PICK i \in DOMAIN Known : o \in RowsOf(Known[i])
      BY DEF Matching, Hits, RowsOf
    <3>2. CASE Live = {}
      <4>1. m_cogwheels[i].end
        BY <3>1, <3>2 DEF Live, Searching
      <4> QED
        BY <3>1, <4>1 DEF Searching, Cogwheel
    <3>3. CASE Live # {}
      <4>1. o < min /\ o \in Nat /\ min \in Nat
        BY <3>3, NearestRow DEF Matching
      <4>2. i \in Live => ~ (o >= m_cogwheels[i].iter.offset)
        BY <3>3, <4>1, NearestRow
      <4>3. ~ m_cogwheels[i].end => i \in Live
        BY DEF Live, Searching
      <4> QED
        BY <3>1, <4>2, <4>3 DEF Searching, Cogwheel
    <3> QED
      BY <3>2, <3>3
  <2>3. Found = passed
    BY <2>1, <2>2
  <2>4. \A k \in DOMAIN m_results :
          LET r == m_results[k]
          IN  /\ r.cnt = Cardinality(Hits(r.offset))
              /\ r.coords = CoordsOf(r.offset)
              /\ r.line = m_data[r.offset + 1].line
    <3>1. \A o : /\ ResultOf(o).cnt = Cardinality(Hits(o))
                 /\ ResultOf(o).coords = CoordsOf(o)
                 /\ ResultOf(o).line = m_data[o + 1].line
      BY DEF ResultOf
    <3> QED
      BY <3>1, FoundMatches
  <2>5. Len(m_results) = Cardinality(passed)
    BY <2>3 DEF Searching
  <2> HIDE DEF passed
  <2> QED
    BY <2>3, <2>4, <2>5 DEF ResultsExact, passed, Found, CoordsOf
<1> QED
  BY <1>1, SearchInvAlways, PTL

(* At every moment the results, read backwards, are ordered by the number  *)
(* of lexemes their rows hold and then by the ratings of the rows.         *)
THEOREM BestFirstAlways == SearcherSpec => []BestFirst
<1>1. SearchInv => BestFirst
  <2>1. CASE m_results = <<>>
    BY <2>1 DEF BestFirst
  <2>2. CASE LoadInv /\ Searching
    <3> SUFFICES ASSUME NEW k \in DOMAIN m_results, NEW n \in DOMAIN m_results, k < n
                 PROVE  LET lower == m_results[k].offset
                            higher == m_results[n].offset
                            hits(o) == Cardinality(Hits(o))
                            rating(o) == m_data[o + 1].rating
                        IN  \/ hits(lower) < hits(higher)
                            \/ hits(lower) = hits(higher) /\ rating(lower) <= rating(higher)
      BY DEF BestFirst
    <3>1. ~ Less(m_results[n], m_results[k])
      BY <2>2 DEF Searching
    <3>2. \A m \in DOMAIN m_results :
            LET r == m_results[m]
            IN  /\ r.cnt = Cardinality(Hits(r.offset)) /\ r.cnt \in Nat
                /\ r.rating = m_data[r.offset + 1].rating /\ r.rating \in Nat
      <4>1. \A o : /\ ResultOf(o).cnt = Cardinality(Hits(o))
                   /\ ResultOf(o).rating = m_data[o + 1].rating
        BY DEF ResultOf
      <4>2. \A m \in DOMAIN m_results : m_results[m] \in {ResultOf(o) : o \in Matching}
        BY <2>2 DEF Searching
      <4> QED
        BY <2>2, <4>1, <4>2, FoundMatches, ResultsKeyed DEF Keyed
    <3> QED
      BY <3>1, <3>2 DEF Less
  <2> QED
    BY <2>1, <2>2 DEF SearchInv
<1> QED
  BY <1>1, SearchInvAlways, PTL

-----------------------------------------------------------------------------
(* FlattenSeq: the recursive function it is defined by exists.             *)

Flattens(f, s, m) == f = [i \in 1 .. m |-> IF i = 1 THEN s[i] ELSE f[i - 1] \o s[i]]

LEMMA FlattensIs ==
  ASSUME NEW f, NEW s, NEW m, Flattens(f, s, m)
  PROVE  DOMAIN f = 1 .. m
         /\ \A i \in 1 .. m : f[i] = IF i = 1 THEN s[i] ELSE f[i - 1] \o s[i]
<1>1. f = [i \in 1 .. m |-> IF i = 1 THEN s[i] ELSE f[i - 1] \o s[i]]
  BY DEF Flattens
<1> QED
  BY <1>1

LEMMA FlattensMore ==
  ASSUME NEW m \in Nat \ {0}, NEW s, NEW g, Flattens(g, s, m)
  PROVE  \E f : Flattens(f, s, m + 1)
<1> DEFINE f == [i \in 1 .. m + 1 |-> IF i = m + 1 THEN g[m] \o s[m + 1] ELSE g[i]]
<1>1. ASSUME NEW i \in 1 .. m + 1
      PROVE  f[i] = IF i = 1 THEN s[i] ELSE f[i - 1] \o s[i]
  <2>1. CASE i = m + 1
    <3>1. i # 1 /\ i - 1 = m /\ m \in 1 .. m + 1 /\ m # m + 1
      BY <2>1
    <3>2. f[i] = g[m] \o s[i] /\ f[m] = g[m]
      BY <2>1, <3>1
    <3> HIDE DEF f
    <3> QED
      BY <3>1, <3>2
  <2>2. CASE i # m + 1
    <3>1. i \in 1 .. m /\ g[i] = (IF i = 1 THEN s[i] ELSE g[i - 1] \o s[i])
      BY <2>2, FlattensIs
    <3>2. f[i] = g[i]
      BY <2>2
    <3>3. i # 1 => f[i - 1] = g[i - 1]
      BY <3>1
    <3> HIDE DEF f
    <3> QED
      BY <3>1, <3>2, <3>3
  <2> QED
    BY <2>1, <2>2
<1>2. f = [i \in 1 .. m + 1 |-> f[i]]
  OBVIOUS
<1>3. [i \in 1 .. m + 1 |-> f[i]] =
        [i \in 1 .. m + 1 |-> IF i = 1 THEN s[i] ELSE f[i - 1] \o s[i]]
  <2> HIDE DEF f
  <2> QED
    BY <1>1
<1>4. Flattens(f, s, m + 1)
  <2> HIDE DEF f
  <2> QED
    BY <1>2, <1>3 DEF Flattens
<1> QED
  BY <1>4

LEMMA FlattenSeqIs ==
  ASSUME NEW n \in Nat \ {0}, NEW s, Len(s) = n
  PROVE  \E f : Flattens(f, s, n) /\ FlattenSeq(s) = f[n]
<1> DEFINE bad == {m \in Nat \ {0} : \A f : ~ Flattens(f, s, m)}
<1>1. bad = {}
  <2> SUFFICES ASSUME bad # {} PROVE FALSE
    OBVIOUS
  <2>1. PICK m \in bad : \A k \in bad : m <= k
    BY LeastExists
  <2>2. \A f : ~ Flattens(f, s, m)
    BY <2>1
  <2>3. m # 1
    <3>1. Flattens([i \in 1 .. 1 |-> s[i]], s, 1)
      BY DEF Flattens
    <3> QED
      BY <2>2, <3>1
  <2>4. m - 1 \in Nat \ {0} /\ m - 1 \notin bad /\ (m - 1) + 1 = m
    BY <2>1, <2>3
  <2>5. PICK g : Flattens(g, s, m - 1)
    BY <2>4
  <2>6. \E f : Flattens(f, s, (m - 1) + 1)
    BY <2>4, <2>5, FlattensMore
  <2> QED
    BY <2>2, <2>4, <2>6
<1>2. \E f : Flattens(f, s, n)
  BY <1>1
<1> DEFINE flat == CHOOSE f : Flattens(f, s, n)
<1>3. Flattens(flat, s, n)
  BY <1>2
<1>4. FlattenSeq(s) = flat[n]
  BY DEF FlattenSeq, Flattens
<1> QED
  BY <1>3, <1>4

-----------------------------------------------------------------------------
(* The places of the lexemes of a query, lexeme after lexeme.              *)

LEMMA AscendingOnto ==
  ASSUME NEW S \in SUBSET Nat, IsFiniteSet(S)
  PROVE  /\ Ascending(S) \in Seq(S) /\ Len(Ascending(S)) = Cardinality(S)
         /\ Cardinality(S) \in Nat
         /\ \A k, n \in 1 .. Cardinality(S) : k < n => Ascending(S)[k] < Ascending(S)[n]
         /\ \A v \in S : \E k \in 1 .. Cardinality(S) : Ascending(S)[k] = v
<1> DEFINE n == Cardinality(S)
           s == Ascending(S)
<1>1. n \in Nat /\ s \in [1 .. n -> S] /\ \A k, j \in 1 .. n : k < j => s[k] < s[j]
  BY AscendingIs DEF Ascends
<1> HIDE DEF n, s
<1>2. s \in Seq(S) /\ Len(s) = n
  BY <1>1
<1>3. s \in Injection(1 .. n, S)
  <2>1. ASSUME NEW k \in 1 .. n, NEW j \in 1 .. n, s[k] = s[j] PROVE k = j
    <3>1. s[k] \in Nat /\ s[j] \in Nat
      BY <1>1
    <3> QED
      BY <1>1, <2>1, <3>1
  <2> QED
    BY <1>1, <2>1 DEF Injection, IsInjective
<1>4. Cardinality(1 .. n) = n
  <2>1. n \in Int /\ 1 \in Int
    BY <1>1
  <2>2. Cardinality(1 .. n) = IF 1 > n THEN 0 ELSE n - 1 + 1
    BY <2>1, FS_Interval
  <2> QED
    BY <1>1, <2>2
<1>5. s \in Surjection(1 .. n, S)
  BY <1>3, <1>4, FS_Injection DEF n
<1> QED
  BY <1>1, <1>2, <1>5 DEF Surjection, n, s

(* t lists the members of P[1] to P[m] in this order, each set ascending.  *)
Joins(t, P, m) ==
  /\ t \in Seq(Nat)
  /\ \A j \in 1 .. Len(t) : \E i \in 1 .. m : t[j] \in P[i]
  /\ \A i \in 1 .. m : \A v \in P[i] : \E j \in 1 .. Len(t) : t[j] = v
  /\ \A j, k \in 1 .. Len(t) : \A a, b \in 1 .. m :
       j < k /\ t[j] \in P[a] /\ t[k] \in P[b] => a < b \/ (a = b /\ t[j] < t[k])

LEMMA JoinsMore ==
  ASSUME NEW m \in Nat, NEW P, NEW t, Joins(t, P, m),
         P[m + 1] \in SUBSET Nat, IsFiniteSet(P[m + 1]),
         \A a \in 1 .. m : P[a] \cap P[m + 1] = {}
  PROVE  Joins(t \o Ascending(P[m + 1]), P, m + 1)
<1> DEFINE u == Ascending(P[m + 1])
           l == Len(t)
           w == t \o u
<1>1. /\ u \in Seq(Nat) /\ Len(u) \in Nat
      /\ \A k \in 1 .. Len(u) : u[k] \in P[m + 1] /\ u[k] \in Nat
      /\ \A k, n \in 1 .. Len(u) : k < n => u[k] < u[n]
      /\ \A v \in P[m + 1] : \E k \in 1 .. Len(u) : u[k] = v
  <2>1. PICK S : S = P[m + 1]
    OBVIOUS
  <2>2. /\ Ascending(S) \in Seq(S) /\ Len(Ascending(S)) \in Nat
        /\ \A k, n \in 1 .. Len(Ascending(S)) : k < n => Ascending(S)[k] < Ascending(S)[n]
        /\ \A v \in S : \E k \in 1 .. Len(Ascending(S)) : Ascending(S)[k] = v
    <3>1. S \in SUBSET Nat /\ IsFiniteSet(S)
      BY <2>1
    <3> QED
      BY <3>1, AscendingOnto
  <2>3. PICK v : v = Ascending(S)
    OBVIOUS
  <2>4. \A k \in 1 .. Len(v) : v[k] \in S
    BY <2>2, <2>3
  <2>5. S \in SUBSET Nat
    BY <2>1
  <2>6. v \in Seq(Nat)
    <3>1. v \in Seq(S)
      BY <2>2, <2>3
    <3>2. v \in [1 .. Len(v) -> S] /\ Len(v) \in Nat
      BY <3>1
    <3>3. v \in [1 .. Len(v) -> Nat]
      BY <2>5, <3>2
    <3> QED
      BY <3>2, <3>3
  <2>7. u = v
    BY <2>1, <2>3
  <2> HIDE DEF u
  <2> QED
    BY <2>1, <2>2, <2>3, <2>4, <2>5, <2>6, <2>7
<1>2. t \in Seq(Nat) /\ l \in Nat
  BY DEF Joins
<1> HIDE DEF u
<1>3. /\ w \in Seq(Nat) /\ Len(w) = l + Len(u)
      /\ \A j \in 1 .. l : w[j] = t[j]
      /\ \A j \in 1 .. Len(u) : w[l + j] = u[j]
  BY <1>1, <1>2
<1> HIDE DEF w, l
<1>4. ASSUME NEW j \in 1 .. Len(w)
      PROVE  \/ j \in 1 .. l /\ w[j] = t[j] /\ w[j] \notin P[m + 1]
                /\ \E i \in 1 .. m : w[j] \in P[i]
             \/ j > l /\ j - l \in 1 .. Len(u) /\ w[j] = u[j - l] /\ w[j] \in P[m + 1]
                /\ \A i \in 1 .. m : w[j] \notin P[i]
  <2>1. CASE j <= l
    <3>1. j \in 1 .. l /\ w[j] = t[j]
      BY <1>2, <1>3, <2>1
    <3>2. PICK i \in 1 .. m : t[j] \in P[i]
      BY <3>1 DEF Joins, l
    <3> QED
      BY <3>1, <3>2
  <2>2. CASE j > l
    <3>1. j - l \in 1 .. Len(u) /\ l + (j - l) = j
      BY <1>1, <1>2, <1>3, <2>2
    <3>2. w[l + (j - l)] = u[j - l] /\ u[j - l] \in P[m + 1]
      BY <1>1, <1>3, <3>1
    <3>3. w[j] = u[j - l] /\ w[j] \in P[m + 1]
      BY <3>1, <3>2
    <3> QED
      BY <2>2, <3>1, <3>3
  <2> QED
    BY <1>2, <1>3, <2>1, <2>2
<1>5. 1 .. m + 1 = (1 .. m) \cup {m + 1}
  OBVIOUS
<1>6. ASSUME NEW j \in 1 .. Len(w) PROVE \E i \in 1 .. m + 1 : w[j] \in P[i]
  BY <1>4, <1>5
<1>7. ASSUME NEW i \in 1 .. m + 1, NEW v \in P[i]
      PROVE  \E j \in 1 .. Len(w) : w[j] = v
  <2>1. CASE i \in 1 .. m
    <3>1. PICK j \in 1 .. l : t[j] = v
      BY <2>1 DEF Joins, l
    <3> QED
      BY <1>1, <1>2, <1>3, <3>1
  <2>2. CASE i = m + 1
    <3>1. PICK k \in 1 .. Len(u) : u[k] = v
      BY <1>1, <2>2
    <3>2. l + k \in 1 .. Len(w)
      BY <1>1, <1>2, <1>3
    <3> QED
      BY <1>3, <3>1, <3>2
  <2> QED
    BY <1>5, <2>1, <2>2
<1>8. ASSUME NEW j \in 1 .. Len(w), NEW k \in 1 .. Len(w),
             NEW a \in 1 .. m + 1, NEW b \in 1 .. m + 1,
             j < k, w[j] \in P[a], w[k] \in P[b]
      PROVE  a < b \/ (a = b /\ w[j] < w[k])
  <2>1. CASE b = m + 1
    <3>1. CASE a = m + 1
      <4>1. j > l /\ k > l /\ j - l \in 1 .. Len(u) /\ k - l \in 1 .. Len(u)
            /\ w[j] = u[j - l] /\ w[k] = u[k - l]
        BY <1>4, <1>8, <2>1, <3>1
      <4>2. j - l < k - l
        BY <1>2, <1>8, <4>1
      <4> QED
        BY <1>1, <2>1, <3>1, <4>1, <4>2
    <3>2. CASE a # m + 1
      BY <2>1, <3>2
    <3> QED
      BY <3>1, <3>2
  <2>2. CASE b # m + 1
    <3>1. b \in 1 .. m /\ k \in 1 .. l /\ w[k] = t[k]
      BY <1>4, <1>5, <1>8, <2>2
    <3>2. j \in 1 .. l
      BY <1>2, <1>8, <3>1
    <3>3. ~ j > l
      BY <1>2, <3>2
    <3>4. w[j] = t[j] /\ w[j] \notin P[m + 1]
      BY <1>4, <3>3
    <3>5. a \in 1 .. m
      BY <1>5, <1>8, <3>4
    <3> QED
      BY <1>8, <3>1, <3>2, <3>4, <3>5 DEF Joins, l
  <2> QED
    BY <2>1, <2>2
<1>9. Joins(w, P, m + 1)
  BY <1>3, <1>6, <1>7, <1>8 DEF Joins
<1> QED
  BY <1>9 DEF w, u

LEMMA FlattenJoins ==
  ASSUME NEW n \in Nat, NEW P,
         \A i \in 1 .. n : P[i] \in SUBSET Nat /\ IsFiniteSet(P[i]),
         \A a, b \in 1 .. n : a # b => P[a] \cap P[b] = {},
         NEW s, s = [i \in 1 .. n |-> Ascending(P[i])]
  PROVE  Joins(FlattenSeq(s), P, n)
<1>1. Len(s) = n
  BY DEF Ascending
<1>2. CASE n = 0
  <2>1. s = <<>>
    BY <1>2
  <2>2. FlattenSeq(s) = <<>>
    BY <2>1 DEF FlattenSeq
  <2>3. 1 .. 0 = {} /\ <<>> \in Seq(Nat) /\ Len(<<>>) = 0
    OBVIOUS
  <2> QED
    BY <1>2, <2>2, <2>3 DEF Joins
<1>3. CASE n # 0
  <2>1. PICK f : Flattens(f, s, n) /\ FlattenSeq(s) = f[n]
    BY <1>1, <1>3, FlattenSeqIs
  <2>2. \A i \in 1 .. n :
          f[i] = IF i = 1 THEN Ascending(P[1]) ELSE f[i - 1] \o Ascending(P[i])
    BY <2>1, FlattensIs
  <2> DEFINE bad == {m \in Nat : m \in 1 .. n /\ ~ Joins(f[m], P, m)}
  <2>3. bad = {}
    <3> SUFFICES ASSUME bad # {} PROVE FALSE
      OBVIOUS
    <3>1. PICK m \in bad : \A k \in bad : m <= k
      BY LeastExists
    <3>2. m \in 1 .. n /\ ~ Joins(f[m], P, m)
      BY <3>1
    <3>3. CASE m = 1
      <4>1. Joins(<<>>, P, 0)
        <5>1. 1 .. 0 = {} /\ <<>> \in Seq(Nat) /\ Len(<<>>) = 0
          OBVIOUS
        <5> QED
          BY <5>1 DEF Joins
      <4>2. Joins(<<>> \o Ascending(P[0 + 1]), P, 0 + 1)
        <5>1. 0 \in Nat /\ 0 + 1 = 1 /\ 1 \in 1 .. n /\ 1 .. 0 = {}
          BY <1>3
        <5>2. P[0 + 1] \in SUBSET Nat /\ IsFiniteSet(P[0 + 1])
          BY <5>1
        <5>3. \A a \in 1 .. 0 : P[a] \cap P[0 + 1] = {}
          BY <5>1
        <5> QED
          BY ONLY <4>1, <5>1, <5>2, <5>3, JoinsMore
      <4>3. <<>> \o Ascending(P[1]) = Ascending(P[1])
        <5>1. Ascending(P[1]) \in Seq(P[1])
          BY <1>3, AscendingOnto
        <5> QED
          BY <5>1
      <4> QED
        BY <1>3, <2>2, <3>2, <3>3, <4>2, <4>3
    <3>4. CASE m # 1
      <4>1. m - 1 \in 1 .. n /\ m - 1 \in Nat /\ (m - 1) + 1 = m /\ m - 1 \notin bad
        BY <3>1, <3>2, <3>4
      <4>2. Joins(f[m - 1], P, m - 1)
        BY <4>1
      <4>3. \A a \in 1 .. m - 1 : P[a] \cap P[(m - 1) + 1] = {}
        BY <3>2, <4>1
      <4>4. Joins(f[m - 1] \o Ascending(P[(m - 1) + 1]), P, (m - 1) + 1)
        BY <3>2, <4>1, <4>2, <4>3, JoinsMore
      <4> QED
        BY <2>2, <3>2, <3>4, <4>1, <4>4
    <3> QED
      BY <3>3, <3>4
  <2> QED
    BY <1>3, <2>1, <2>3
<1> QED
  BY <1>2, <1>3

-----------------------------------------------------------------------------
(* What the comparisons of neighbours in mark say of the whole row.        *)

Sequential(t) == \A i \in 1 .. Len(t) - 1 : t[i] < t[i + 1]

Successive(t) == \A i \in 1 .. Len(t) - 1 : t[i] + 1 = t[i + 1]

LEMMA SuccessiveIsSequential ==
  ASSUME NEW t \in Seq(Nat), Successive(t)
  PROVE  Sequential(t)
<1> SUFFICES ASSUME NEW i \in 1 .. Len(t) - 1 PROVE t[i] < t[i + 1]
  BY DEF Sequential
<1>1. t[i] \in Nat /\ t[i] + 1 = t[i + 1]
  BY DEF Successive
<1> QED
  BY <1>1

LEMMA SequentialAscends ==
  ASSUME NEW t \in Seq(Nat), Sequential(t)
  PROVE  \A j, k \in 1 .. Len(t) : j < k => t[j] < t[k]
<1> SUFFICES ASSUME NEW j \in 1 .. Len(t)
             PROVE  \A k \in 1 .. Len(t) : j < k => t[j] < t[k]
  OBVIOUS
<1> DEFINE bad == {k \in Nat : k \in 1 .. Len(t) /\ j < k /\ ~ t[j] < t[k]}
<1>1. bad = {}
  <2> SUFFICES ASSUME bad # {} PROVE FALSE
    OBVIOUS
  <2>1. PICK k \in bad : \A n \in bad : k <= n
    BY LeastExists
  <2>2. k \in 1 .. Len(t) /\ j < k /\ ~ t[j] < t[k] /\ Len(t) \in Nat
    BY <2>1
  <2>3. k - 1 \in 1 .. Len(t) - 1 /\ k - 1 \in 1 .. Len(t) /\ (k - 1) + 1 = k
    BY <2>2
  <2>4. t[k - 1] < t[k]
    BY <2>3 DEF Sequential
  <2>5. t[j] \in Nat /\ t[k - 1] \in Nat /\ t[k] \in Nat
    BY SMTT(30), <2>2, <2>3
  <2>6. CASE j = k - 1
    BY <2>2, <2>4, <2>6
  <2>7. CASE j # k - 1
    <3>1. j < k - 1 /\ k - 1 \in Nat /\ ~ k <= k - 1
      BY <2>2, <2>3, <2>7
    <3>2. t[j] < t[k - 1]
      BY <2>1, <2>3, <3>1
    <3> QED
      BY SMTT(30), <2>2, <2>4, <2>5, <3>2
  <2> QED
    BY <2>6, <2>7
<1> QED
  BY <1>1

LEMMA SuccessiveCounts ==
  ASSUME NEW t \in Seq(Nat), Successive(t)
  PROVE  \A k \in 1 .. Len(t) : t[k] = t[1] + k - 1
<1> DEFINE bad == {k \in Nat : k \in 1 .. Len(t) /\ t[k] # t[1] + k - 1}
<1>1. bad = {}
  <2> SUFFICES ASSUME bad # {} PROVE FALSE
    OBVIOUS
  <2>1. PICK k \in bad : \A n \in bad : k <= n
    BY LeastExists
  <2>2. k \in 1 .. Len(t) /\ t[k] # t[1] + k - 1 /\ Len(t) \in Nat
    BY <2>1
  <2>3. 1 \in 1 .. Len(t) /\ t[1] \in Nat
    BY SMTT(30), <2>2
  <2>4. k # 1
    BY <2>2, <2>3
  <2>5. k - 1 \in 1 .. Len(t) - 1 /\ k - 1 \in 1 .. Len(t) /\ (k - 1) + 1 = k
        /\ k - 1 \in Nat /\ ~ k <= k - 1
    BY <2>2, <2>4
  <2>6. t[k - 1] + 1 = t[k]
    BY <2>5 DEF Successive
  <2>7. t[k - 1] = t[1] + (k - 1) - 1
    BY <2>1, <2>5
  <2>8. k \in Int /\ t[1] \in Int
    BY <2>2, <2>3
  <2>9. t[k] = (t[1] + (k - 1) - 1) + 1
    BY <2>6, <2>7
  <2>10. t[k] = t[1] + k - 1
    BY ONLY <2>8, <2>9
  <2> QED
    BY <2>2, <2>10
<1> QED
  BY <1>1

(* t lists the members of H by the ranks R, equal ranks by the places.     *)
Lists(t, H, R) ==
  /\ t \in Seq(Nat)
  /\ \A p \in H : R[p] \in Nat
  /\ \A j \in 1 .. Len(t) : t[j] + 1 \in H
  /\ \A p \in H : p \in Nat /\ \E j \in 1 .. Len(t) : t[j] + 1 = p
  /\ \A j, k \in 1 .. Len(t) : j < k =>
       /\ t[j] # t[k]
       /\ R[t[j] + 1] < R[t[k] + 1] \/ (R[t[j] + 1] = R[t[k] + 1] /\ t[j] < t[k])

Ordered(H, R) == \A p, q \in H : p < q => R[p] <= R[q]

Solid(H) == \A p, q \in H : p .. q \subseteq H

LEMMA SequentialIsOrdered ==
  ASSUME NEW t, NEW H, NEW R, Lists(t, H, R)
  PROVE  Sequential(t) <=> Ordered(H, R)
<1>1. t \in Seq(Nat) /\ Len(t) \in Nat /\ \A j \in 1 .. Len(t) : t[j] \in Nat
  BY DEF Lists
<1>2. ASSUME Sequential(t) PROVE Ordered(H, R)
  <2> SUFFICES ASSUME NEW p \in H, NEW q \in H, p < q PROVE R[p] <= R[q]
    BY DEF Ordered
  <2>1. PICK j \in 1 .. Len(t) : t[j] + 1 = p
    BY DEF Lists
  <2>2. PICK k \in 1 .. Len(t) : t[k] + 1 = q
    BY DEF Lists
  <2>3. t[j] < t[k]
    BY <1>1, <2>1, <2>2
  <2>4. \A a, b \in 1 .. Len(t) : a < b => t[a] < t[b]
    BY <1>1, <1>2, SequentialAscends
  <2>5. j < k
    <3>1. j # k
      BY <1>1, <2>3
    <3>2. ~ k < j
      BY <1>1, <2>3, <2>4
    <3> QED
      BY <3>1, <3>2
  <2>6. R[p] \in Nat /\ R[q] \in Nat
    BY DEF Lists
  <2>7. R[p] < R[q] \/ R[p] = R[q]
    BY <2>1, <2>2, <2>5 DEF Lists
  <2> QED
    BY <2>6, <2>7
<1>3. ASSUME Ordered(H, R) PROVE Sequential(t)
  <2> SUFFICES ASSUME NEW i \in 1 .. Len(t) - 1 PROVE t[i] < t[i + 1]
    BY DEF Sequential
  <2>1. i \in 1 .. Len(t) /\ i + 1 \in 1 .. Len(t) /\ i < i + 1
    BY <1>1
  <2>2. PICK p, q : p = t[i] + 1 /\ q = t[i + 1] + 1
    OBVIOUS
  <2>3. p \in H /\ q \in H /\ t[i] # t[i + 1] /\ (R[p] < R[q] \/ t[i] < t[i + 1])
    BY <2>1, <2>2 DEF Lists
  <2>4. R[p] \in Nat /\ R[q] \in Nat /\ t[i] \in Nat /\ t[i + 1] \in Nat
    BY <1>1, <2>1, <2>3 DEF Lists
  <2>5. q < p => R[q] <= R[p]
    BY <1>3, <2>3 DEF Ordered
  <2> QED
    BY <2>2, <2>3, <2>4, <2>5
<1> QED
  BY <1>2, <1>3

LEMMA SuccessiveIsSolid ==
  ASSUME NEW t, NEW H, NEW R, Lists(t, H, R)
  PROVE  Successive(t) <=> Ordered(H, R) /\ Solid(H)
<1>1. t \in Seq(Nat) /\ Len(t) \in Nat /\ \A j \in 1 .. Len(t) : t[j] \in Nat
  BY DEF Lists
<1>2. ASSUME Successive(t) PROVE Ordered(H, R) /\ Solid(H)
  <2>1. Ordered(H, R)
    BY <1>1, <1>2, SuccessiveIsSequential, SequentialIsOrdered
  <2> SUFFICES ASSUME NEW p \in H, NEW q \in H, NEW r \in p .. q PROVE r \in H
    BY <2>1 DEF Solid
  <2>2. PICK j \in 1 .. Len(t) : t[j] + 1 = p
    BY DEF Lists
  <2>3. PICK k \in 1 .. Len(t) : t[k] + 1 = q
    BY DEF Lists
  <2>4. \A n \in 1 .. Len(t) : t[n] = t[1] + n - 1
    BY <1>1, <1>2, SuccessiveCounts
  <2>5. t[j] = t[1] + j - 1 /\ t[k] = t[1] + k - 1 /\ t[1] \in Nat
    <3>1. 1 \in 1 .. Len(t)
      BY <1>1
    <3> QED
      BY <1>1, <2>4, <3>1
  <2> PICK first : first = t[1]
    OBVIOUS
  <2>8. first \in Nat /\ p = first + j /\ q = first + k /\ r \in first + j .. first + k
    BY <2>2, <2>3, <2>5
  <2>6. j + (r - p) \in 1 .. Len(t)
    BY ONLY <1>1, <2>8, j \in 1 .. Len(t), k \in 1 .. Len(t)
  <2>7. t[j + (r - p)] + 1 = r
    <3>1. t[j + (r - p)] = first + (j + (r - p)) - 1
      BY <2>4, <2>6
    <3> PICK d : d = j + (r - p)
      OBVIOUS
    <3>2. d = r - first /\ r \in Int
      BY ONLY <2>8, j \in 1 .. Len(t), k \in 1 .. Len(t), d = j + (r - p)
    <3>3. first + d - 1 + 1 = r
      BY ONLY <2>8, <3>2, r \in Int
    <3> QED
      BY <3>1, <3>3
  <2> QED
    BY SMTT(30), <2>6, <2>7 DEF Lists
<1>3. ASSUME Ordered(H, R), Solid(H) PROVE Successive(t)
  <2>1. Sequential(t)
    BY <1>3, SequentialIsOrdered
  <2> SUFFICES ASSUME NEW i \in 1 .. Len(t) - 1 PROVE t[i] + 1 = t[i + 1]
    BY DEF Successive
  <2>2. i \in 1 .. Len(t) /\ i + 1 \in 1 .. Len(t) /\ t[i] \in Nat /\ t[i + 1] \in Nat
    BY <1>1
  <2>3. t[i] < t[i + 1]
    BY <2>1 DEF Sequential
  <2> SUFFICES ASSUME t[i] + 1 < t[i + 1] PROVE FALSE
    BY <2>2, <2>3
  <2>4. t[i] + 1 \in H /\ t[i + 1] + 1 \in H
    BY <2>2 DEF Lists
  <2>5. t[i] + 2 \in (t[i] + 1) .. (t[i + 1] + 1)
    BY <2>2
  <2>6. t[i] + 2 \in H
    BY <1>3, <2>4, <2>5 DEF Solid
  <2>7. PICK j \in 1 .. Len(t) : t[j] + 1 = t[i] + 2
    BY <2>6 DEF Lists
  <2>8. \A a, b \in 1 .. Len(t) : a < b => t[a] < t[b]
    BY <1>1, <2>1, SequentialAscends
  <2>9. t[i] < t[j] /\ t[j] < t[i + 1]
    <3>1. t[j] \in Nat
      BY <1>1
    <3> PICK a, b, c : a = t[i] /\ b = t[j] /\ c = t[i + 1]
      OBVIOUS
    <3>2. a \in Nat /\ b \in Nat /\ c \in Nat /\ b + 1 = a + 2 /\ a + 1 < c
      BY <2>2, <2>7, <3>1
    <3>3. a < b /\ b < c
      BY ONLY <3>2
    <3> QED
      BY <3>3
  <2>10. ~ j <= i /\ ~ j >= i + 1
    <3>1. j = i \/ j < i \/ j = i + 1 \/ j > i + 1
      BY <2>2
    <3>2. j # i /\ j # i + 1
      BY <1>1, <2>2, <2>9
    <3>3. ~ j < i
      BY <1>1, <2>2, <2>8, <2>9
    <3>4. ~ j > i + 1
      BY <1>1, <2>2, <2>8, <2>9
    <3> QED
      BY <2>2, <3>2, <3>3, <3>4
  <2> QED
    BY <2>2, <2>10
<1> QED
  BY <1>2, <1>3

LEMMA ListedCount ==
  ASSUME NEW t, NEW H, NEW R, Lists(t, H, R), NEW n \in Nat, H \subseteq 1 .. n
  PROVE  n = Len(t) <=> H = 1 .. n
<1>1. t \in Seq(Nat) /\ Len(t) \in Nat /\ \A j \in 1 .. Len(t) : t[j] \in Nat
  BY DEF Lists
<1>2. \A m \in Nat : IsFiniteSet(1 .. m) /\ Cardinality(1 .. m) = m
  <2> SUFFICES ASSUME NEW m \in Nat PROVE IsFiniteSet(1 .. m) /\ Cardinality(1 .. m) = m
    OBVIOUS
  <2>1. IsFiniteSet(1 .. m) /\ Cardinality(1 .. m) = IF 1 > m THEN 0 ELSE m - 1 + 1
    BY FS_Interval
  <2> QED
    BY <2>1
<1> DEFINE f == [j \in 1 .. Len(t) |-> t[j] + 1]
<1>3. f \in Bijection(1 .. Len(t), H)
  <2>1. f \in [1 .. Len(t) -> H]
    BY DEF Lists
  <2>2. ASSUME NEW j \in 1 .. Len(t), NEW k \in 1 .. Len(t), f[j] = f[k] PROVE j = k
    <3>1. t[j] = t[k]
      BY <1>1, <2>2
    <3>2. \A a, b \in 1 .. Len(t) : a < b => t[a] # t[b]
      BY DEF Lists
    <3>3. ~ j < k /\ ~ k < j
      BY <3>1, <3>2
    <3> QED
      BY <3>3
  <2>3. \A p \in H : \E j \in 1 .. Len(t) : f[j] = p
    <3> SUFFICES ASSUME NEW p \in H PROVE \E j \in 1 .. Len(t) : f[j] = p
      OBVIOUS
    <3>1. PICK j \in 1 .. Len(t) : t[j] + 1 = p
      BY DEF Lists
    <3>2. f[j] = p
      BY <3>1
    <3> QED
      BY <3>2
  <2> HIDE DEF f
  <2> QED
    BY <2>1, <2>2, <2>3 DEF Bijection, Injection, Surjection, IsInjective
<1>4. IsFiniteSet(H) /\ Cardinality(H) = Len(t)
  <2>1. ExistsBijection(1 .. Len(t), H)
    BY <1>3 DEF ExistsBijection
  <2> QED
    BY <1>1, <1>2, <2>1, FS_Bijection
<1>5. ASSUME n = Len(t) PROVE H = 1 .. n
  BY <1>2, <1>4, <1>5, FS_Subset
<1>6. ASSUME H = 1 .. n PROVE n = Len(t)
  BY <1>2, <1>4, <1>6
<1> QED
  BY <1>5, <1>6

HitIn(words, K) == {p \in DOMAIN words : \E i \in DOMAIN K : K[i] = words[p]}

RankIn(words, K) ==
  [p \in HitIn(words, K) |-> CHOOSE i \in DOMAIN K : K[i] = words[p]]

PlacesIn(words, K) ==
  [i \in DOMAIN K |-> {k \in 0 .. Len(words) - 1 : words[k + 1] = K[i]}]

LEMMA PlacesList ==
  ASSUME NEW X, NEW words \in Seq(X), NEW n \in Nat, NEW K, DOMAIN K = 1 .. n,
         \A i, j \in DOMAIN K : K[i] = K[j] => i = j
  PROVE  Lists(FlattenSeq([i \in DOMAIN K |-> Ascending(PlacesIn(words, K)[i])]),
               HitIn(words, K), RankIn(words, K))
<1> DEFINE P == PlacesIn(words, K)
           H == HitIn(words, K)
           R == RankIn(words, K)
           t == FlattenSeq([i \in 1 .. n |-> Ascending(P[i])])
<1>1. Len(words) \in Nat /\ DOMAIN words = 1 .. Len(words)
  OBVIOUS
<1>2. \A i \in 1 .. n : P[i] = {k \in 0 .. Len(words) - 1 : words[k + 1] = K[i]}
  BY DEF PlacesIn
<1>3. \A p \in H : p \in 1 .. Len(words) /\ R[p] \in 1 .. n /\ K[R[p]] = words[p]
  <2> SUFFICES ASSUME NEW p \in H
               PROVE  p \in 1 .. Len(words) /\ R[p] \in 1 .. n /\ K[R[p]] = words[p]
    OBVIOUS
  <2>1. R[p] = CHOOSE i \in DOMAIN K : K[i] = words[p]
    BY DEF RankIn
  <2>2. \E i \in DOMAIN K : K[i] = words[p]
    BY DEF HitIn
  <2> QED
    BY <1>1, <2>1, <2>2 DEF HitIn
<1>4. \A i \in 1 .. n : \A k \in P[i] : k \in Nat /\ k + 1 \in H /\ R[k + 1] = i
  <2> SUFFICES ASSUME NEW i \in 1 .. n, NEW k \in P[i]
               PROVE  k \in Nat /\ k + 1 \in H /\ R[k + 1] = i
    OBVIOUS
  <2>1. k \in 0 .. Len(words) - 1 /\ words[k + 1] = K[i]
    BY <1>2
  <2>2. k \in Nat /\ k + 1 \in 1 .. Len(words)
    BY <1>1, <2>1
  <2>3. k + 1 \in H
    BY <1>1, <2>1, <2>2 DEF HitIn
  <2>4. R[k + 1] \in 1 .. n /\ K[R[k + 1]] = K[i]
    BY <1>3, <2>1, <2>3
  <2> QED
    BY <2>2, <2>3, <2>4
<1>5. \A p \in H : p - 1 \in P[R[p]] /\ p \in Nat /\ (p - 1) + 1 = p
  <2> SUFFICES ASSUME NEW p \in H
               PROVE  p - 1 \in P[R[p]] /\ p \in Nat /\ (p - 1) + 1 = p
    OBVIOUS
  <2>1. p \in 1 .. Len(words) /\ R[p] \in 1 .. n /\ K[R[p]] = words[p]
    BY <1>3
  <2>2. p - 1 \in 0 .. Len(words) - 1 /\ p \in Nat /\ (p - 1) + 1 = p
    BY <1>1, <2>1
  <2>3. words[(p - 1) + 1] = K[R[p]]
    BY <2>1, <2>2
  <2> QED
    BY <1>2, <2>1, <2>2, <2>3
<1>6. Joins(t, P, n)
  <2>1. \A i \in 1 .. n : P[i] \in SUBSET Nat /\ IsFiniteSet(P[i])
    <3> SUFFICES ASSUME NEW i \in 1 .. n PROVE P[i] \in SUBSET Nat /\ IsFiniteSet(P[i])
      OBVIOUS
    <3>1. IsFiniteSet(0 .. Len(words) - 1)
      BY <1>1, FS_Interval
    <3>2. P[i] \subseteq 0 .. Len(words) - 1
      BY <1>2
    <3> QED
      BY <1>4, <3>1, <3>2, FS_Subset
  <2>2. \A a, b \in 1 .. n : a # b => P[a] \cap P[b] = {}
    BY <1>4
  <2> DEFINE s == [i \in 1 .. n |-> Ascending(P[i])]
  <2> HIDE DEF P
  <2>3. s = [i \in 1 .. n |-> Ascending(P[i])]
    OBVIOUS
  <2> HIDE DEF s
  <2>4. Joins(FlattenSeq(s), P, n)
    BY <2>1, <2>2, <2>3, FlattenJoins
  <2> QED
    BY <2>4 DEF s
<1> HIDE DEF P, H, R
<1>7. t = FlattenSeq([i \in DOMAIN K |-> Ascending(P[i])])
  OBVIOUS
<1> HIDE DEF t
<1>8. t \in Seq(Nat) /\ Len(t) \in Nat
  BY <1>6 DEF Joins
<1>9. \A j \in 1 .. Len(t) :
        t[j] \in Nat /\ t[j] + 1 \in H /\ R[t[j] + 1] \in 1 .. n /\ t[j] \in P[R[t[j] + 1]]
  <2> SUFFICES ASSUME NEW j \in 1 .. Len(t)
               PROVE  t[j] \in Nat /\ t[j] + 1 \in H /\ R[t[j] + 1] \in 1 .. n
                      /\ t[j] \in P[R[t[j] + 1]]
    OBVIOUS
  <2>1. PICK i \in 1 .. n : t[j] \in P[i]
    BY <1>6 DEF Joins
  <2> QED
    BY <1>4, <2>1
<1>10. ASSUME NEW p \in H PROVE p \in Nat /\ \E j \in 1 .. Len(t) : t[j] + 1 = p
  <2>1. p - 1 \in P[R[p]] /\ p \in Nat /\ (p - 1) + 1 = p /\ R[p] \in 1 .. n
    BY <1>3, <1>5
  <2>2. PICK j \in 1 .. Len(t) : t[j] = p - 1
    BY <1>6, <2>1 DEF Joins
  <2>3. t[j] + 1 = p
    BY <2>1, <2>2
  <2> QED
    BY <2>1, <2>3
<1>11. ASSUME NEW j \in 1 .. Len(t), NEW k \in 1 .. Len(t), j < k
       PROVE  /\ t[j] # t[k]
              /\ R[t[j] + 1] < R[t[k] + 1] \/ (R[t[j] + 1] = R[t[k] + 1] /\ t[j] < t[k])
  <2>1. PICK a, b : a = R[t[j] + 1] /\ b = R[t[k] + 1]
    OBVIOUS
  <2>2. a \in 1 .. n /\ b \in 1 .. n /\ t[j] \in P[a] /\ t[k] \in P[b]
    BY <1>9, <2>1
  <2>3. a < b \/ (a = b /\ t[j] < t[k])
    BY <1>6, <1>11, <2>2 DEF Joins
  <2>4. t[j] # t[k]
    <3> SUFFICES ASSUME t[j] = t[k] PROVE FALSE
      OBVIOUS
    <3>1. a = b
      BY <2>1
    <3>2. t[j] \in Nat /\ a \in Nat
      BY <1>9, <2>2
    <3> QED
      BY <2>3, <3>1, <3>2
  <2> QED
    BY <2>1, <2>3, <2>4
<1>12. \A p \in H : R[p] \in Nat
  BY <1>3
<1>13. Lists(t, H, R)
  BY <1>8, <1>9, <1>10, <1>11, <1>12 DEF Lists
<1> QED
  BY <1>7, <1>13 DEF P, H, R

LEMMA MarkTells ==
  ASSUME NEW t, NEW H, NEW R, Lists(t, H, R), NEW n \in Nat, H \subseteq 1 .. n
  PROVE  /\ mark(t, n) >= 8 <=> H = 1 .. n
         /\ (mark(t, n) % 8) >= 2 <=> Ordered(H, R)
         /\ (mark(t, n) % 8) = 4 <=> Ordered(H, R) /\ Solid(H)
<1>1. t \in Seq(Nat)
  BY DEF Lists
<1>2. mark(t, n) = (IF Successive(t) THEN 4 ELSE IF Sequential(t) THEN 2 ELSE 0)
                   + (IF n = Len(t) THEN 8 ELSE 0)
  BY DEF mark, Successive, Sequential
<1>3. Successive(t) => Sequential(t)
  BY <1>1, SuccessiveIsSequential
<1>4. /\ mark(t, n) >= 8 <=> n = Len(t)
      /\ (mark(t, n) % 8) >= 2 <=> Sequential(t)
      /\ (mark(t, n) % 8) = 4 <=> Successive(t)
  <2>1. CASE Successive(t) /\ n = Len(t)
    <3>1. mark(t, n) = 12 /\ 12 % 8 = 4
      BY <1>2, <2>1
    <3> QED
      BY <1>3, <2>1, <3>1
  <2>2. CASE Successive(t) /\ n # Len(t)
    <3>1. mark(t, n) = 4 /\ 4 % 8 = 4
      BY <1>2, <2>2
    <3> QED
      BY <1>3, <2>2, <3>1
  <2>3. CASE ~ Successive(t) /\ Sequential(t) /\ n = Len(t)
    <3>1. mark(t, n) = 10 /\ 10 % 8 = 2
      BY <1>2, <2>3
    <3> QED
      BY <2>3, <3>1
  <2>4. CASE ~ Successive(t) /\ Sequential(t) /\ n # Len(t)
    <3>1. mark(t, n) = 2 /\ 2 % 8 = 2
      BY <1>2, <2>4
    <3> QED
      BY <2>4, <3>1
  <2>5. CASE ~ Sequential(t) /\ n = Len(t)
    <3>1. mark(t, n) = 8 /\ 8 % 8 = 0
      BY <1>2, <1>3, <2>5
    <3> QED
      BY <1>3, <2>5, <3>1
  <2>6. CASE ~ Sequential(t) /\ n # Len(t)
    <3>1. mark(t, n) = 0 /\ 0 % 8 = 0
      BY <1>2, <1>3, <2>6
    <3> QED
      BY <1>3, <2>6, <3>1
  <2> QED
    BY <2>1, <2>2, <2>3, <2>4, <2>5, <2>6
<1>5. /\ n = Len(t) <=> H = 1 .. n
      /\ Sequential(t) <=> Ordered(H, R)
      /\ Successive(t) <=> Ordered(H, R) /\ Solid(H)
  BY ListedCount, SequentialIsOrdered, SuccessiveIsSolid
<1> QED
  BY <1>4, <1>5

LEMMA RowMark ==
  ASSUME LoadInv, Searching, Distinct, NEW o \in Matching
  PROVE  LET words == m_data[o + 1].words
             n == Len(words)
         IN  /\ words \in Seq(Lexemes)
             /\ Lists(CoordsOf(o), HitIn(words, Known), RankIn(words, Known))
<1>1. PICK words : words = m_data[o + 1].words
  OBVIOUS
<1>2. words \in Seq(Lexemes)
  <2>1. m_data \in Seq(Item) /\ o \in 0 .. Len(m_data) - 1
    BY DEF LoadInv, TypeOK, Matching
  <2>2. o + 1 \in 1 .. Len(m_data)
    BY <2>1
  <2>3. m_data[o + 1] \in Item
    BY <2>1, <2>2
  <2> QED
    BY <1>1, <2>3 DEF Item
<1>3. PICK n \in Nat : DOMAIN Known = 1 .. n
  BY QueryKnown DEF Searching
<1>4. PICK K : K = Known
  OBVIOUS
<1>5. \A i, j \in DOMAIN K : K[i] = K[j] => i = j
  BY <1>4 DEF Distinct
<1>6. \A i \in DOMAIN K : PlacesIn(words, K)[i] = Positions(o, K[i])
  BY <1>1 DEF PlacesIn, Positions
<1>7. [i \in DOMAIN K |-> Ascending(PlacesIn(words, K)[i])]
        = [i \in DOMAIN K |-> Ascending(Positions(o, K[i]))]
  BY <1>6
<1>8. Lists(FlattenSeq([i \in DOMAIN K |-> Ascending(PlacesIn(words, K)[i])]),
            HitIn(words, K), RankIn(words, K))
  BY <1>2, <1>3, <1>4, <1>5, PlacesList
<1>9. CoordsOf(o) = FlattenSeq([i \in DOMAIN K |-> Ascending(Positions(o, K[i]))])
  BY <1>4 DEF CoordsOf
<1>10. Lists(CoordsOf(o), HitIn(words, K), RankIn(words, K))
  BY <1>7, <1>8, <1>9
<1> QED
  BY <1>1, <1>2, <1>4, <1>10

(* At every moment the marks of the results say of their rows what they    *)
(* stand for, although mark compares neighbouring coords only.             *)
THEOREM MarkMeansOrderAlways == SearcherSpec => []MarkMeansOrder
<1>1. SearchInv => MarkMeansOrder
  <2> SUFFICES ASSUME SearchInv, query # <<>>, Distinct, NEW k \in DOMAIN m_results
               PROVE  LET r == m_results[k]
                          words == m_data[r.offset + 1].words
                          hit == {p \in DOMAIN words : \E i \in DOMAIN Known : Known[i] = words[p]}
                          rank(p) == CHOOSE i \in DOMAIN Known : Known[i] = words[p]
                          ordered == \A p, q \in hit : p < q => rank(p) <= rank(q)
                          solid == \A p, q \in hit : p .. q \subseteq hit
                      IN  /\ r.mark >= 8 <=> hit = DOMAIN words
                          /\ (r.mark % 8) >= 2 <=> ordered
                          /\ (r.mark % 8) = 4 <=> ordered /\ solid
    BY DEF MarkMeansOrder
  <2>1. LoadInv /\ Searching
    BY DEF SearchInv
  <2>2. PICK r : r = m_results[k]
    OBVIOUS
  <2>3. PICK words : words = m_data[r.offset + 1].words
    OBVIOUS
  <2>4. PICK K : K = Known
    OBVIOUS
  <2> DEFINE hit == {p \in DOMAIN words : \E i \in DOMAIN K : K[i] = words[p]}
             rank(p) == CHOOSE i \in DOMAIN K : K[i] = words[p]
             ordered == \A p, q \in hit : p < q => rank(p) <= rank(q)
             solid == \A p, q \in hit : p .. q \subseteq hit
  <2>5. r.offset \in Matching /\ r = ResultOf(r.offset)
    BY <2>1, <2>2, FoundMatches
  <2>6. r.mark = mark(CoordsOf(r.offset), Len(words))
    BY <2>3, <2>5 DEF ResultOf
  <2>7. words \in Seq(Lexemes)
        /\ Lists(CoordsOf(r.offset), HitIn(words, K), RankIn(words, K))
    BY <2>1, <2>3, <2>4, <2>5, RowMark
  <2>8. hit = HitIn(words, K) /\ DOMAIN words = 1 .. Len(words) /\ Len(words) \in Nat
        /\ HitIn(words, K) \subseteq 1 .. Len(words)
    BY <2>7 DEF HitIn
  <2>9. ordered <=> Ordered(HitIn(words, K), RankIn(words, K))
    <3>1. \A p \in HitIn(words, K) : RankIn(words, K)[p] = rank(p)
      BY DEF RankIn
    <3>2. hit = HitIn(words, K)
      BY <2>8
    <3> HIDE DEF rank, hit
    <3>3. PICK H, R : H = HitIn(words, K) /\ R = RankIn(words, K)
      OBVIOUS
    <3>4. \A p \in hit : R[p] = rank(p)
      BY <3>1, <3>2, <3>3
    <3>5. ordered <=> \A p, q \in hit : p < q => R[p] <= R[q]
      BY <3>4
    <3> QED
      BY <3>2, <3>3, <3>5 DEF Ordered
  <2>10. solid <=> Solid(HitIn(words, K))
    BY <2>8 DEF Solid
  <2>11. /\ r.mark >= 8 <=> HitIn(words, K) = 1 .. Len(words)
         /\ (r.mark % 8) >= 2 <=> Ordered(HitIn(words, K), RankIn(words, K))
         /\ (r.mark % 8) = 4 <=> Ordered(HitIn(words, K), RankIn(words, K))
                                 /\ Solid(HitIn(words, K))
    BY <2>6, <2>7, <2>8, MarkTells
  <2>12. /\ r.mark >= 8 <=> hit = DOMAIN words
         /\ (r.mark % 8) >= 2 <=> ordered
         /\ (r.mark % 8) = 4 <=> ordered /\ solid
    BY <2>8, <2>9, <2>10, <2>11
  <2> QED
    BY <2>2, <2>3, <2>4, <2>12
<1> QED
  BY <1>1, SearchInvAlways, PTL
=============================================================================
