------------------------------ MODULE Searcher ------------------------------
(***************************************************************************)
(* Searcher on a loaded Storage: m_init makes a cogwheel (an iterator into *)
(* the index) for every known lexeme of the query, and every round of      *)
(* search takes the row nearest to the beginning of the file that any      *)
(* cogwheel points to, moves all cogwheels that point to it past the row,  *)
(* and inserts one result.  The rounds walk all cogwheels at once.         *)
(***************************************************************************)
EXTENDS Storage, SequencesExt

CONSTANT Queries   \* sequences of lexemes, known and unknown

ASSUME QueriesAssumption == Queries \subseteq Seq(Lexemes)

VARIABLES
  query,         \* what is searched, at most one query
  m_cogwheels,   \* [lexeme_id, end, iter] for each known lexeme of the query
  m_results      \* the multimap of results, in its order

searchVars == <<query, m_cogwheels, m_results>>

SearcherInit == Init /\ query = <<>> /\ m_cogwheels = <<>> /\ m_results = <<>>

-----------------------------------------------------------------------------
(* The index as an ordered multimap: entries with equal keys keep the      *)
(* order of their insertion, which is that of their coords.                *)
Before(e, f) ==
  \/ e.lexeme_id < f.lexeme_id
  \/ e.lexeme_id = f.lexeme_id /\ e.offset < f.offset
  \/ e.lexeme_id = f.lexeme_id /\ e.offset = f.offset /\ e.coord < f.coord

Following(e) == {f \in m_index : Before(e, f)}

(* ++ iter from entry e: the cogwheel ends at the end of the index and at  *)
(* the run of another lexeme.                                              *)
MovedPast(e) ==
  LET rest == {f \in Following(e) : f.lexeme_id = e.lexeme_id}
  IN  [lexeme_id |-> e.lexeme_id, end |-> rest = {},
       iter |-> IF rest = {} THEN e
                ELSE CHOOSE f \in rest : \A g \in rest \ {f} : Before(f, g)]

(* The members of a finite set of numbers, in ascending order.             *)
Ascending(S) ==
  CHOOSE s \in [1 .. Cardinality(S) -> S] :
    \A k, n \in DOMAIN s : k < n => s[k] < s[n]

(* The known lexemes of a query: unknown ones are skipped, repeated ones   *)
(* are not.                                                                *)
KnownOf(q) ==
  LET at == Ascending({k \in DOMAIN q : q[k] \in DOMAIN m_dict})
  IN  [i \in DOMAIN at |-> q[at[i]]]

(* Searcher::m_init: every known lexeme is found by its opening entry, and *)
(* its cogwheel begins at the next entry.  No test says that there is one, *)
(* or that it is of the same lexeme.                                       *)
Behind(e) == CHOOSE f \in Following(e) : \A g \in Following(e) \ {f} : Before(f, g)
Begun(id) ==
  [lexeme_id |-> id, end |-> FALSE,
   iter |-> Behind([lexeme_id |-> id, offset |-> first_key, coord |-> 0])]
m_init(q) ==
  m_cogwheels' = [i \in DOMAIN KnownOf(q) |-> Begun(m_dict[KnownOf(q)[i]].lexeme_id)]

Ask ==
  /\ Loaded /\ query = <<>>
  /\ \E q \in Queries : /\ query' = <<q>>
                        /\ m_init(q)
  /\ UNCHANGED m_results /\ UNCHANGED vars

Live == {i \in DOMAIN m_cogwheels : ~ m_cogwheels[i].end}

(* The offset nearest to the beginning and the cogwheels that point to it. *)
min == CHOOSE o \in {m_cogwheels[i].iter.offset : i \in Live} :
         \A i \in Live : o <= m_cogwheels[i].iter.offset

rcs == {i \in Live : m_cogwheels[i].iter.offset = min}

(* What cogwheel i passes in this round: its entries of the row.           *)
\* Mutant: only one entry of a repeated lexeme is passed.
PassedOne(i) == {m_cogwheels[i].iter}
Passed(i) ==
  LET iter == m_cogwheels[i].iter
  IN  {e \in m_index : /\ e.lexeme_id = iter.lexeme_id
                       /\ e.offset = iter.offset
                       /\ ~ Before(e, iter)}

LastPassed(i) == CHOOSE e \in Passed(i) : \A f \in Passed(i) : ~ Before(e, f)

(* The coords of the round, cogwheel after cogwheel.                       *)
coords ==
  LET of(i) == Ascending({e.coord : e \in Passed(i)})
  IN  FlattenSeq([i \in DOMAIN m_cogwheels |-> IF i \in rcs THEN of(i) ELSE <<>>])

(* Points for the order of the lexemes and for leaving none out.           *)
\* Mutant: a gap does not end the succession.
MarkGaps(cs, lexemes) ==
  (IF \A i \in 1 .. Len(cs) - 1 : cs[i] < cs[i + 1] THEN 4 ELSE 0)
  + (IF lexemes = Len(cs) THEN 8 ELSE 0)
mark(cs, lexemes) ==
  LET sequential == \A i \in 1 .. Len(cs) - 1 : cs[i] < cs[i + 1]
      successive == \A i \in 1 .. Len(cs) - 1 : cs[i] + 1 = cs[i + 1]
  IN  (IF successive THEN 4 ELSE IF sequential THEN 2 ELSE 0)
      + (IF lexemes = Len(cs) THEN 8 ELSE 0)

(* operator < on result keys: count, then rating, then mark.               *)
\* Mutant: a lower rating is not held against a lower count.
LessByAny(r, s) ==
  \/ r.cnt < s.cnt
  \/ r.rating < s.rating
  \/ r.cnt = s.cnt /\ r.rating = s.rating /\ r.mark < s.mark
Less(r, s) ==
  \/ r.cnt < s.cnt
  \/ r.cnt = s.cnt /\ r.rating < s.rating
  \/ r.cnt = s.cnt /\ r.rating = s.rating /\ r.mark < s.mark

(* multimap::insert: behind all results that are not greater.              *)
Inserted(r) ==
  LET notGreater == {k \in DOMAIN m_results : ~ Less(r, m_results[k])}
  IN  InsertAt(m_results, Cardinality(notGreater) + 1, r)

Round ==
  /\ Live # {}
  /\ LET item == m_data[min + 1]
     IN  m_results' = Inserted(
           [cnt |-> Cardinality(rcs), rating |-> item.rating,
            mark |-> mark(coords, Len(item.words)),
            line |-> item.line, offset |-> min, coords |-> coords])
  /\ m_cogwheels' = [i \in DOMAIN m_cogwheels |->
                       IF i \in rcs THEN MovedPast(LastPassed(i))
                                    ELSE m_cogwheels[i]]
  /\ UNCHANGED query /\ UNCHANGED vars

SearcherNext == (Load /\ UNCHANGED searchVars) \/ Ask \/ Round

SearcherSpec == SearcherInit /\ [][SearcherNext]_<<vars, searchVars>>

-----------------------------------------------------------------------------
(* Correctness, in terms of the rows and the query alone.                  *)

Known == KnownOf(query[1])

Positions(o, x) == {k \in 0 .. Len(m_data[o + 1].words) - 1 :
                      m_data[o + 1].words[k + 1] = x}

Hits(o) == {i \in DOMAIN Known : Positions(o, Known[i]) # {}}

Matching == {o \in 0 .. Len(m_data) - 1 : Hits(o) # {}}

Distinct == \A i, j \in DOMAIN Known : Known[i] = Known[j] => i = j

(* Each row that holds a lexeme of the query and lies before the rows the  *)
(* cogwheels point to is found once, and nothing else is: cogwheels that   *)
(* meet in a row make one result, a cogwheel passes every occurrence of    *)
(* its lexeme in the row, and the result lists the places of all query     *)
(* lexemes, in the order of the query (searcher.cpp:122-199).              *)
ResultsExact ==
  query # <<>> =>
    LET passed == {o \in Matching : Live = {} \/ o < min}
    IN  /\ {m_results[k].offset : k \in DOMAIN m_results} = passed
        /\ Len(m_results) = Cardinality(passed)
        /\ \A k \in DOMAIN m_results :
             LET r == m_results[k]
                 at(i) == Ascending(Positions(r.offset, Known[i]))
             IN  /\ r.cnt = Cardinality(Hits(r.offset))
                 /\ r.coords = FlattenSeq([i \in DOMAIN Known |-> at(i)])
                 /\ r.line = m_data[r.offset + 1].line

(* The marks say of the row what they stand for, unless the query repeats  *)
(* a lexeme: 8 that it holds no other lexeme, 2 and 4 that the occurrences *)
(* of each lexeme come before those of the next one of the query, and 4    *)
(* that nothing stands between them (searcher.cpp:202-237).                *)
MarkMeansOrder ==
  query # <<>> /\ Distinct =>
    \A k \in DOMAIN m_results :
      LET r == m_results[k]
          words == m_data[r.offset + 1].words
          hit == {p \in DOMAIN words : \E i \in DOMAIN Known : Known[i] = words[p]}
          rank(p) == CHOOSE i \in DOMAIN Known : Known[i] = words[p]
          ordered == \A p, q \in hit : p < q => rank(p) <= rank(q)
          solid == \A p, q \in hit : p .. q \subseteq hit
      IN  /\ r.mark >= 8 <=> hit = DOMAIN words
          /\ (r.mark % 8) >= 2 <=> ordered
          /\ (r.mark % 8) = 4 <=> ordered /\ solid

(* The list shown (dump_results_pre walks it backwards) is best first: by  *)
(* how many lexemes of the query a row holds, then by the row's rating.    *)
BestFirst ==
  \A k, n \in DOMAIN m_results : k < n =>
    LET lower == m_results[k].offset  higher == m_results[n].offset
        hits(o) == Cardinality(Hits(o))
        rating(o) == m_data[o + 1].rating
    IN  \/ hits(lower) < hits(higher)
        \/ hits(lower) = hits(higher) /\ rating(lower) <= rating(higher)

(* Every round moves the nearest row further, so the search ends on every  *)
(* file and query.                                                         *)
RoundsAdvance ==
  [][Round => \A i \in Live' : m_cogwheels'[i].iter.offset > min]_searchVars
=============================================================================
