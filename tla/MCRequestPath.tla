---------------------------- MODULE MCRequestPath ----------------------------
(* Two kinds of requests: those that differ in their records, of which     *)
(* every beginning is parsed, and those that differ in their contents.     *)
EXTENDS RequestPath

CONSTANTS
  Ids, Lens, Pads, MaxParams, MaxStdin,   \* of the records
  MaxPairs,                               \* bound on the pairs of a request
  Bytes, MaxLen,                          \* of a query, bound on its length
  SignBytes, MaxSigns                     \* the same for longer queries

ASSUME RequestsAssumption ==
  /\ Ids \subseteq Nat /\ Lens \subseteq Nat \ {0} /\ Pads \subseteq Nat
  /\ Bytes \subseteq Nat /\ SignBytes \subseteq Nat
  /\ MaxParams \in Nat /\ MaxStdin \in Nat /\ MaxPairs \in Nat
  /\ MaxLen \in Nat /\ MaxSigns \in Nat

VARIABLE ends   \* where each pair ends in the stream of pairs

SeqsUpTo(S, n) == UNION {[1 .. k -> S] : k \in 0 .. n}

-----------------------------------------------------------------------------
(* Requests as web servers frame them: BEGIN, PARAMS records and their     *)
(* empty end, the body in STDIN records, and the empty STDIN record.       *)

Rec(type, lens) == [type : {type}, id : Ids, len : lens, pad : Pads]
WellFormed ==
  {<<b>> \o p \o s \o <<e>> :
     b \in [type : {"BEGIN"}, id : Ids, len : {BodyLen}, pad : {0}],
     p \in SeqsUpTo(Rec("PARAMS", Lens \cup {0}), MaxParams),
     s \in SeqsUpTo(Rec("STDIN", Lens), MaxStdin),
     e \in Rec("STDIN", {0})}

(* Their contents are left open.                                           *)
Pieces ==
  /\ m \in WellFormed /\ arrived = 1
  /\ pairs = <<>> /\ records = <<>> /\ ends = <<>>

-----------------------------------------------------------------------------
(* Contents: pairs of short names and values, queries of all kinds, and a  *)
(* value whose length needs two bytes.                                     *)

Name == <<81>>
Query == <<81, 83>>
Padding == <<112, 97>>

ShortPairs == SeqsUpTo([name : {Name, Query}, value : {<<>>, <<37, 50, 53>>}], MaxPairs)
Queries == {<<[name |-> Query, value |-> q]>> :
              q \in SeqsUpTo(Bytes, MaxLen) \cup SeqsUpTo(SignBytes, MaxSigns)}
LongValue == {<<[name |-> n, value |-> [i \in 1 .. 300 |-> 65]]>> : n \in {Name, Query}}
Dump == {<<[name |-> Query, value |-> Padding \o <<37, 50, 53>>]>>}
Bodies == {<<>>, <<Stdin(<<1, 2>>)>>, <<Stdin(<<1>>), Stdin(<<2>>)>>}

Contents(ps, forms, cuts, body) ==
  LET stream == FlattenSeq(forms)
  IN  /\ pairs = ps
      /\ ends = [i \in DOMAIN forms |-> Len(FlattenSeq(SubSeq(forms, 1, i)))]
      /\ \E cut \in (0 .. Len(stream)) \cap cuts :
           records = <<Params(SubSeq(stream, 1, cut)),
                       Params(SubSeq(stream, cut + 1, Len(stream)))>>
                     \o body \o <<Stdin(<<>>)>>
      /\ m = Framed(records) /\ arrived = Total(m)

Decodable ==
  \/ \E ps \in ShortPairs, body \in Bodies :
       \E e \in [1 .. Len(ps) -> UNION {Encodings(p) : p \in ToSet(ps)}] :
         /\ \A i \in DOMAIN e : e[i] \in Encodings(ps[i])
         /\ Contents(ps, e, Nat, body)
  \/ \E ps \in Queries \cup LongValue \cup Dump :
       \E e \in Encodings(ps[1]) : Contents(ps, <<e>>, {0}, <<>>)

Init ==
  /\ \/ Pieces
     \/ Decodable
  /\ answer = "none yet"
  /\ rec = 1 /\ begin = 0
  /\ m_params = NoParams /\ m_stdin = <<>> /\ overrun = FALSE
  /\ arg = <<>> /\ pos_prev = 0 /\ ret_val = <<>> /\ returned = TRUE

Spec == Init /\ [][Next /\ UNCHANGED ends]_<<vars, ends>>

-----------------------------------------------------------------------------
(* Correctness of parse.                                                   *)

OneId == \A k \in 1 .. Len(m) : m[k].id = m[1].id

NoBody == OneId /\ \A k \in 1 .. Len(m) - 1 : m[k].type # "STDIN"

(* The header of the closing STDIN record has arrived.                     *)
Closed == arrived >= Start(m, Len(m)) + HeaderLen

(* A request without a body is accepted at the very moment the header of   *)
(* its closing STDIN record is complete: not earlier, which left bytes     *)
(* unread and broke the peer (pyfcgi_bug.py:4-10), and not later, which    *)
(* would leave the peer waiting.  Whatever the padding and wherever the    *)
(* stream is cut, except inside the first two bytes.                       *)
AcceptedExactlyWhenClosed ==
  NoBody /\ arrived >= 2 =>
    parse(m, 0, arrived) = {IF Closed THEN "Ready" ELSE "Insufficient"}

(* A well-formed request of one id is never refused, however it is cut and *)
(* padded, so a slow peer is not disconnected by daemon.cpp:65-69; and it  *)
(* is accepted once it is closed.                                          *)
NeverRefused ==
  OneId /\ arrived >= 2 =>
    /\ "Error" \notin parse(m, 0, arrived)
    /\ Closed => parse(m, 0, arrived) = {"Ready"}

(* Records of two requests on one connection (multiplexing) are never      *)
(* accepted as one request: as soon as the header of the first foreign     *)
(* record is there, the request is refused unless it was accepted before.  *)
NoMixture ==
  \A k \in 2 .. Len(m) :
    /\ m[k].id # m[1].id
    /\ \A j \in 1 .. k - 1 : m[j].id = m[1].id
    /\ arrived >= Start(m, k) + HeaderLen
    => parse(m, 0, arrived) = {"Error"}

-----------------------------------------------------------------------------
(* Correctness of the contents, for a server whose records hold whole      *)
(* pairs.  The protocol lets a pair run on into the next record; the code  *)
(* does not.                                                               *)

Borders == {0} \cup ToSet(ends)
WholePairs == records # <<>> /\ Len(records[1].content) \in Borders

(* How much of the stream of pairs is decoded.                             *)
Position ==
  IF rec = 1 THEN begin
  ELSE Len(records[1].content) +
       (IF rec = 2 THEN begin ELSE Len(records[2].content))

(* When every record holds whole pairs, m_setup_parameters steps from one  *)
(* pair to the next, whatever form the lengths take, never goes beyond the *)
(* record (fastcgi_request.cpp:16 tests for the exact end only), and at    *)
(* every step holds exactly the pairs read so far, the last value of each  *)
(* name.  A pair that runs on into the next record is read wrongly.        *)
ParamsSoFar ==
  WholePairs =>
    /\ ~ overrun /\ Position \in Borders
    /\ m_params = Meant(Cardinality({i \in 1 .. Len(ends) : ends[i] <= Position}))

(* The sixteen digits, in both cases.                                      *)
Upper == <<48, 49, 50, 51, 52, 53, 54, 55, 56, 57, 65, 66, 67, 68, 69, 70>>
Lower == SubSeq(Upper, 1, 10) \o <<97, 98, 99, 100, 101, 102>>
Stands(b, d) == b \in {Upper[d + 1], Lower[d + 1]}
Decodings(q, i) ==
  {c \in 0 .. 255 : /\ q[i] = Percent /\ i + 2 <= Len(q)
                    /\ Stands(q[i + 1], c \div 16) /\ Stands(q[i + 2], c % 16)}

(* What the bytes of q from i on mean, read one by one from the left: a    *)
(* percent sign and two digits stand for the byte they give, or for a      *)
(* space if that is a control character, every other byte for itself.      *)
Meaning(q, from) ==
  LET rest[i \in 1 .. Len(q) + 1] ==
        IF i > Len(q) THEN <<>>
        ELSE IF Decodings(q, i) = {} THEN <<q[i]>> \o rest[i + 1]
        ELSE LET c == CHOOSE c \in Decodings(q, i) : TRUE
             IN  <<IF c <= Space THEN Space ELSE c>> \o rest[i + 3]
  IN  rest[from]

(* What is searched is what the last query among the pairs means.  After   *)
(* every step of the loop of unescape what is decoded and the meaning of   *)
(* the rest are the meaning of the query: a sign that is cut off at the    *)
(* end, or followed by other bytes, stays, a decoded sign does not start   *)
(* another pair ("%2525" is "%25"), and bytes above 127 survive.           *)
DecodedSoFar ==
  WholePairs /\ answer = "search" =>
    LET query == Meant(Len(pairs))[QueryString]
    IN  ret_val \o (IF returned THEN <<>> ELSE Meaning(query, pos_prev + 1))
          = Meaning(query, 1)
=============================================================================
