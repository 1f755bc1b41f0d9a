-------------------------- MODULE RequestPathProofs --------------------------
(***************************************************************************)
(* What holds of the way of a request for records of any number, length,   *)
(* padding and id, for pairs and queries of any length, and wherever the   *)
(* stream of pairs is cut.                                                 *)
(***************************************************************************)
EXTENDS MCRequestPath, SequenceTheorems, FiniteSetTheorems, TLAPS

-----------------------------------------------------------------------------
(* Induction, for the recursive functions: a set of numbers that holds a   *)
(* smaller one for each of its own is empty.                               *)

LEMMA NoneBelow ==
  ASSUME NEW S \in SUBSET Nat, \A x \in S : \E y \in S : y < x
  PROVE  S = {}
<1> SUFFICES ASSUME S # {} PROVE FALSE
  OBVIOUS
<1> DEFINE R == OpToRel(<, Nat)
<1>1. IsWellFoundedOn(R, Nat)
  BY NatLessThanWellFounded
<1>2. PICK x \in S : \A y \in S : ~ (<<y, x>> \in R)
  BY <1>1, WFMin
<1>3. PICK y \in S : y < x
  OBVIOUS
<1>4. <<y, x>> \in R
  BY <1>3 DEF OpToRel
<1> QED
  BY <1>2, <1>4

LEMMA LeastExists ==
  ASSUME NEW S \in SUBSET Nat, S # {}
  PROVE  \E x \in S : \A y \in S : x <= y
<1>1. ~ \A x \in S : \E y \in S : y < x
  BY NoneBelow
<1> QED
  BY <1>1

-----------------------------------------------------------------------------
(* Where the records of a stream begin.                                    *)

LEMMA SizeType ==
  ASSUME NEW r \in Record
  PROVE  Size(r) \in Nat /\ Size(r) >= HeaderLen + r.len /\ r.len \in Nat
BY LengthsAssumption DEF Size, Record

(* f gives the beginnings of the first n records.                          *)
Begins(s, f, n) ==
  /\ f \in [1 .. n -> Nat] /\ f[1] = 0
  /\ \A j \in 2 .. n : f[j] = f[j - 1] + Size(s[j - 1])

LEMMA BeginsExist ==
  ASSUME NEW s \in Seq(Record)
  PROVE  \E f : Begins(s, f, Len(s) + 1)
<1> DEFINE Bad == {n \in 1 .. Len(s) + 1 : ~ \E f : Begins(s, f, n)}
<1>1. Len(s) \in Nat
  OBVIOUS
<1>2. ASSUME NEW n \in Bad PROVE \E k \in Bad : k < n
  <2>1. n # 1
    <3>1. Begins(s, [j \in 1 .. 1 |-> 0], 1)
      BY DEF Begins
    <3> QED
      BY <3>1
  <2>2. ASSUME NEW f, Begins(s, f, n - 1) PROVE FALSE
    <3> DEFINE g == [j \in 1 .. n |-> IF j = n THEN f[n - 1] + Size(s[n - 1]) ELSE f[j]]
    <3>1. n - 1 \in 1 .. Len(s) /\ n \in Nat
      BY <1>1, <2>1
    <3>2. Size(s[n - 1]) \in Nat
      BY <3>1, SizeType, ElementOfSeq
    <3>3. f[n - 1] \in Nat
      BY <2>2, <3>1 DEF Begins
    <3>4. g \in [1 .. n -> Nat]
      BY <2>2, <3>1, <3>2, <3>3 DEF Begins
    <3>5. \A j \in 2 .. n : g[j] = g[j - 1] + Size(s[j - 1])
      BY <2>2, <3>1 DEF Begins
    <3>6. g[1] = 0
      BY <2>2, <3>1 DEF Begins
    <3> HIDE DEF g
    <3>7. Begins(s, g, n)
      BY <3>4, <3>5, <3>6 DEF Begins
    <3> QED
      BY <3>7
  <2> QED
    BY <1>1, <2>1, <2>2
<1>3. Bad = {}
  <2>1. Bad \in SUBSET Nat
    BY <1>1
  <2> HIDE DEF Bad
  <2> QED
    BY <1>2, <2>1, NoneBelow
<1>4. Len(s) + 1 \in 1 .. Len(s) + 1
  BY <1>1
<1>5. Len(s) + 1 \notin Bad
  <2> HIDE DEF Bad
  <2> QED
    BY <1>3
<1> QED
  BY <1>4, <1>5

LEMMA Starts ==
  ASSUME NEW s \in Seq(Record)
  PROVE  /\ Start(s, 1) = 0
         /\ \A k \in 1 .. Len(s) + 1 : Start(s, k) \in Nat
         /\ \A k \in 1 .. Len(s) : Start(s, k + 1) = Start(s, k) + Size(s[k])
<1> DEFINE n == Len(s) + 1
           F(f) == f = [j \in 1 .. n |-> IF j = 1 THEN 0 ELSE f[j - 1] + Size(s[j - 1])]
           start == CHOOSE f : F(f)
<1>1. Len(s) \in Nat
  OBVIOUS
<1>2. PICK g : Begins(s, g, n)
  BY BeginsExist
<1>3. F(g)
  <2>1. g = [j \in 1 .. n |-> g[j]]
    BY <1>2 DEF Begins
  <2>2. \A j \in 1 .. n : g[j] = IF j = 1 THEN 0 ELSE g[j - 1] + Size(s[j - 1])
    BY <1>1, <1>2 DEF Begins
  <2> QED
    BY <2>1, <2>2
<1>4. F(start)
  BY <1>3
<1>5. \A k : Start(s, k) = start[k]
  BY DEF Start
<1> HIDE DEF start
<1>6. start[1] = 0 /\ \A j \in 2 .. n : start[j] = start[j - 1] + Size(s[j - 1])
  BY <1>1, <1>4
<1>7. \A k \in 1 .. Len(s) : start[k + 1] = start[k] + Size(s[k])
  <2> SUFFICES ASSUME NEW k \in 1 .. Len(s) PROVE start[k + 1] = start[k] + Size(s[k])
    OBVIOUS
  <2>1. k + 1 \in 2 .. n /\ (k + 1) - 1 = k
    BY <1>1
  <2> QED
    BY <1>6, <2>1
<1>8. \A k \in 1 .. n : start[k] \in Nat
  <2> DEFINE Bad == {k \in 1 .. n : start[k] \notin Nat}
  <2>1. ASSUME NEW k \in Bad PROVE \E j \in Bad : j < k
    <3>1. k # 1
      BY <1>6
    <3>2. k - 1 \in 1 .. Len(s) /\ k - 1 < k
      BY <1>1, <3>1
    <3>3. Size(s[k - 1]) \in Nat
      BY <3>2, SizeType, ElementOfSeq
    <3>4. start[k] = start[k - 1] + Size(s[k - 1])
      BY <1>6, <3>2
    <3>5. k - 1 \in Bad
      BY <1>1, <3>2, <3>3, <3>4
    <3> QED
      BY <3>2, <3>5
  <2>2. Bad \in SUBSET Nat
    BY <1>1
  <2> HIDE DEF Bad
  <2>3. Bad = {}
    BY <2>1, <2>2, NoneBelow
  <2> QED
    BY <2>3 DEF Bad
<1> QED
  BY <1>5, <1>6, <1>7, <1>8

(* A record begins behind the header and the content of each before it.    *)
LEMMA StartsOrdered ==
  ASSUME NEW s \in Seq(Record), NEW j \in 1 .. Len(s), NEW k \in 1 .. Len(s) + 1, j < k
  PROVE  Start(s, j) + HeaderLen + s[j].len <= Start(s, k)
<1> DEFINE Bad == {i \in j + 1 .. Len(s) + 1 :
                     ~ (Start(s, j) + HeaderLen + s[j].len <= Start(s, i))}
<1>1. Len(s) \in Nat /\ HeaderLen \in Nat
  BY LengthsAssumption
<1>2. ASSUME NEW i \in Bad PROVE \E h \in Bad : h < i
  <2>1. i - 1 \in 1 .. Len(s) /\ (i - 1) + 1 = i /\ i - 1 < i
    BY <1>1
  <2>2. /\ Start(s, i) = Start(s, i - 1) + Size(s[i - 1])
        /\ Start(s, i - 1) \in Nat /\ Start(s, j) \in Nat
    BY <1>1, <2>1, Starts
  <2>3. /\ Size(s[i - 1]) \in Nat /\ Size(s[i - 1]) >= HeaderLen + s[i - 1].len
        /\ s[i - 1].len \in Nat /\ s[j].len \in Nat
    BY <2>1, SizeType, ElementOfSeq
  <2>4. i - 1 # j
    BY <1>1, <2>2, <2>3, SMTT(30)
  <2>5. i - 1 \in Bad
    BY <1>1, <2>1, <2>2, <2>3, <2>4, SMTT(30)
  <2> QED
    BY <2>1, <2>5
<1>3. Bad \in SUBSET Nat
  BY <1>1
<1> HIDE DEF Bad
<1>4. Bad = {}
  BY <1>2, <1>3, NoneBelow
<1>5. k \in j + 1 .. Len(s) + 1
  BY <1>1
<1> QED
  BY <1>4, <1>5 DEF Bad

-----------------------------------------------------------------------------
(* What parse says of any beginning of a request.                          *)

(* The records a web server frames a request in: the first begins it, an   *)
(* empty STDIN record and none before it ends it.                          *)
Framing(s) ==
  /\ s \in Seq(Record) /\ Len(s) >= 2
  /\ s[1].type = "BEGIN" /\ s[1].len = BodyLen /\ s[1].pad = 0
  /\ \A k \in 2 .. Len(s) : s[k].type \in {"PARAMS", "STDIN"}
  /\ \A k \in 2 .. Len(s) : s[k].type = "STDIN" /\ s[k].len = 0 <=> k = Len(s)

(* The first of the records from the second on at which the loop leaves.   *)
Leaves(s, to, k) ==
  /\ k \in 2 .. Len(s)
  /\ Stops(s, s[1].id, to, k)
  /\ \A j \in 2 .. k - 1 : ~ Stops(s, s[1].id, to, j)

(* There is always one, and it decides.                                    *)
LEMMA LoopLeaves ==
  ASSUME NEW s, Framing(s), NEW to \in Int
  PROVE  \E k : /\ Leaves(s, to, k)
               /\ Loop(s, s[1].id, 2, to) =
                    IF to - Start(s, k) < HeaderLen
                    THEN IF cin_obtained(s, 2, k) THEN "Ready" ELSE "Insufficient"
                    ELSE IF s[k].id # s[1].id THEN "Error"
                    ELSE IF to - Start(s, k) - HeaderLen < s[k].len THEN "Insufficient"
                    ELSE IF s[k].type = "STDIN" THEN "Ready"
                    ELSE "Error"
<1> DEFINE id == s[1].id
           S == {k \in 2 .. Len(s) : Stops(s, id, to, k)}
           A(k) == /\ Stops(s, id, to, k)
                   /\ \A j \in 2 .. k - 1 : ~ Stops(s, id, to, j)
           last == CHOOSE k \in 2 .. Len(s) + 1 : A(k)
<1>1. Len(s) \in Nat /\ Len(s) >= 2
  BY DEF Framing
<1>2. Len(s) \in S
  BY <1>1 DEF Framing, Stops
<1>3. S \in SUBSET Nat /\ S # {}
  BY <1>1, <1>2
<1>4. PICK k \in S : \A j \in S : k <= j
  <2> HIDE DEF S
  <2> QED
    BY <1>3, LeastExists
<1>5. k \in 2 .. Len(s) /\ A(k)
  <2>1. ASSUME NEW j \in 2 .. k - 1, Stops(s, id, to, j) PROVE FALSE
    <3>1. j \in S /\ j < k
      BY <1>1, <2>1
    <3> QED
      BY <1>1, <1>4, <3>1
  <2> QED
    BY <1>4, <2>1
<1>6. Leaves(s, to, k)
  BY <1>5 DEF Leaves
<1>7. last = k
  <2> HIDE DEF id
  <2>1. \A j \in 2 .. Len(s) + 1 : A(j) => j = k
    BY <1>1, <1>5
  <2>2. k \in 2 .. Len(s) + 1
    BY <1>1, <1>5
  <2> HIDE DEF A
  <2> QED
    BY <1>5, <2>1, <2>2
<1>8. Loop(s, id, 2, to) =
        IF to - Start(s, last) < HeaderLen
        THEN IF cin_obtained(s, 2, last) THEN "Ready" ELSE "Insufficient"
        ELSE IF s[last].id # id THEN "Error"
        ELSE IF to - Start(s, last) - HeaderLen < s[last].len THEN "Insufficient"
        ELSE IF s[last].type = "STDIN" THEN "Ready"
        ELSE "Error"
  BY DEF Loop
<1> HIDE DEF last
<1> QED
  BY <1>6, <1>7, <1>8

(* Before the loop init takes the first record, with its body.             *)
LEMMA ParseIsLoop ==
  ASSUME NEW s, Framing(s), NEW to \in Int, to >= 2
  PROVE  parse(s, 0, to) =
           IF to - Start(s, 2) < HeaderLen THEN {"Insufficient"}
           ELSE {Loop(s, s[1].id, 2, to)}
<1> DEFINE at(p) == {k \in 1 .. Len(s) + 1 : Start(s, k) = p}
           heads == at(0) \ {Len(s) + 1}
           head == s[CHOOSE k \in heads : TRUE]
           body == 0 + HeaderLen + (IF head.type = "BEGIN" THEN BodyLen ELSE 0)
<1>1. /\ s \in Seq(Record) /\ Len(s) \in Nat /\ Len(s) >= 2
      /\ s[1].type = "BEGIN" /\ s[1].len = BodyLen /\ s[1].pad = 0
      /\ HeaderLen \in Nat /\ HeaderLen >= 2 /\ BodyLen \in Nat
  BY LengthsAssumption DEF Framing
<1>2. Start(s, 1) = 0 /\ Start(s, 2) = HeaderLen + BodyLen
  <2>1. 1 \in 1 .. Len(s) /\ 1 + 1 = 2
    BY <1>1
  <2>2. Start(s, 2) = Start(s, 1) + Size(s[1]) /\ Start(s, 1) = 0
    BY <1>1, <2>1, Starts
  <2> QED
    BY <1>1, <2>2 DEF Size
<1>3. ASSUME NEW j \in 1 .. Len(s) + 1, NEW k \in 1 .. Len(s) + 1, j < k
      PROVE  Start(s, j) < Start(s, k)
  <2>1. j \in 1 .. Len(s)
    BY <1>1, <1>3
  <2>2. s[j].len \in Nat
    BY <1>1, <2>1, SizeType, ElementOfSeq
  <2>3. Start(s, j) + HeaderLen + s[j].len <= Start(s, k)
    BY <1>1, <1>3, <2>1, StartsOrdered
  <2>4. Start(s, j) \in Nat /\ Start(s, k) \in Nat
    BY <1>1, Starts
  <2> QED
    BY <1>1, <2>2, <2>3, <2>4
<1>4. at(0) = {1} /\ at(Start(s, 2)) = {2}
  <2>1. \A k \in 1 .. Len(s) + 1 : Start(s, k) \in Nat
    BY <1>1, Starts
  <2>2. 1 \in 1 .. Len(s) + 1 /\ 2 \in 1 .. Len(s) + 1
    BY <1>1
  <2>3. \A k \in 1 .. Len(s) + 1 : Start(s, k) = Start(s, 1) => k = 1
    BY <1>1, <1>3, <2>1, <2>2
  <2>4. \A k \in 1 .. Len(s) + 1 : Start(s, k) = Start(s, 2) => k = 2
    BY <1>1, <1>3, <2>1, <2>2
  <2> QED
    BY <1>2, <2>2, <2>3, <2>4
<1>5. heads = {1}
  BY <1>1, <1>4
<1>6. head = s[1]
  BY <1>5
<1>7. body = Start(s, 2)
  BY <1>1, <1>2, <1>6
<1>8. (CHOOSE k \in {2} : TRUE) = 2 /\ ~ (to - 0 < 2)
  OBVIOUS
<1>9. parse(s, 0, to) =
        IF heads = {} THEN {"Error"}
        ELSE IF to - 0 < 2 THEN {"Insufficient", "Error"}
        ELSE IF head.type \notin {"BEGIN", "GET_VALUES"} THEN {"Error"}
        ELSE IF to - body < HeaderLen THEN {"Insufficient"}
        ELSE IF at(body) = {} THEN {"Error"}
        ELSE {Loop(s, head.id, CHOOSE k \in at(body) : TRUE, to)}
  BY DEF parse
<1> HIDE DEF at, heads, head, body
<1> QED
  BY <1>1, <1>4, <1>5, <1>6, <1>7, <1>8, <1>9

(* The loop leaves before the last record only for what is not there, or   *)
(* at a record of another id.                                              *)
LEMMA LeftEarly ==
  ASSUME NEW s, Framing(s), NEW to \in Int, NEW k, Leaves(s, to, k), k < Len(s),
         s[k].id = s[1].id
  PROVE  /\ to < Start(s, k + 1)
         /\ \/ to - Start(s, k) < HeaderLen
            \/ to - Start(s, k) - HeaderLen < s[k].len
<1>1. s \in Seq(Record) /\ Len(s) \in Nat /\ k \in 1 .. Len(s) /\ k + 1 \in 1 .. Len(s) + 1
  BY DEF Framing, Leaves
<1>2. /\ Start(s, k) + HeaderLen + s[k].len <= Start(s, k + 1)
      /\ Start(s, k) \in Nat /\ Start(s, k + 1) \in Nat /\ s[k].len \in Nat
  BY <1>1, StartsOrdered, Starts, SizeType, ElementOfSeq
<1>3. \/ to - Start(s, k) < HeaderLen
      \/ to - Start(s, k) - HeaderLen < s[k].len
  BY DEF Leaves, Stops, Framing
<1> QED
  BY <1>2, <1>3, LengthsAssumption

(* What the proofs below need of the beginnings.                           *)
LEMMA FramedStarts ==
  ASSUME NEW s, Framing(s)
  PROVE  /\ s \in Seq(Record) /\ Len(s) \in Nat /\ Len(s) >= 2
         /\ s[Len(s)].type = "STDIN" /\ s[Len(s)].len = 0
         /\ \A k \in 1 .. Len(s) + 1 : Start(s, k) \in Nat
         /\ \A k \in 1 .. Len(s) : s[k].len \in Nat
         /\ \A j \in 1 .. Len(s), k \in 1 .. Len(s) + 1 :
              j < k => Start(s, j) + HeaderLen + s[j].len <= Start(s, k)
         /\ HeaderLen \in Nat /\ HeaderLen >= 2
<1>1. s \in Seq(Record) /\ Len(s) \in Nat /\ Len(s) >= 2
  BY DEF Framing
<1>2. ASSUME NEW k \in 1 .. Len(s) PROVE s[k].len \in Nat
  BY <1>1, SizeType, ElementOfSeq
<1>3. ASSUME NEW j \in 1 .. Len(s), NEW k \in 1 .. Len(s) + 1, j < k
      PROVE  Start(s, j) + HeaderLen + s[j].len <= Start(s, k)
  BY <1>1, <1>3, StartsOrdered
<1>4. s[Len(s)].type = "STDIN" /\ s[Len(s)].len = 0
  BY <1>1 DEF Framing
<1> QED
  BY <1>1, <1>2, <1>3, <1>4, Starts, LengthsAssumption

(* A request of one id: it is accepted once it is closed, and before that  *)
(* only if it has a body.                                                  *)
LEMMA OneIdParsed ==
  ASSUME Framing(m), OneId, arrived \in Nat, arrived >= 2
  PROVE  /\ Closed => parse(m, 0, arrived) = {"Ready"}
         /\ parse(m, 0, arrived) \in {{"Ready"}, {"Insufficient"}}
         /\ NoBody /\ ~ Closed => parse(m, 0, arrived) = {"Insufficient"}
<1>1. /\ Len(m) \in Nat /\ Len(m) >= 2
      /\ m[Len(m)].type = "STDIN" /\ m[Len(m)].len = 0
      /\ \A k \in 1 .. Len(m) + 1 : Start(m, k) \in Nat
      /\ HeaderLen \in Nat
  BY FramedStarts
<1>2. \A k \in 2 .. Len(m) : Start(m, k) <= Start(m, Len(m))
  <2> SUFFICES ASSUME NEW k \in 2 .. Len(m), k < Len(m)
               PROVE  Start(m, k) <= Start(m, Len(m))
    BY <1>1
  <2>1. /\ k \in 1 .. Len(m) /\ Len(m) \in 1 .. Len(m) + 1
        /\ m[k].len \in Nat
    BY <1>1, FramedStarts
  <2>2. Start(m, k) + HeaderLen + m[k].len <= Start(m, Len(m))
    BY <2>1, FramedStarts
  <2>3. Start(m, k) \in Nat /\ Start(m, Len(m)) \in Nat
    BY <1>1, <2>1
  <2> QED
    BY <1>1, <2>1, <2>2, <2>3
<1>3. CASE arrived - Start(m, 2) < HeaderLen
  <2>1. ~ Closed
    BY <1>1, <1>2, <1>3 DEF Closed
  <2> QED
    BY <1>3, <2>1, ParseIsLoop
<1>4. CASE ~ (arrived - Start(m, 2) < HeaderLen)
  <2>1. PICK k : /\ Leaves(m, arrived, k)
                 /\ Loop(m, m[1].id, 2, arrived) =
                      IF arrived - Start(m, k) < HeaderLen
                      THEN IF cin_obtained(m, 2, k) THEN "Ready" ELSE "Insufficient"
                      ELSE IF m[k].id # m[1].id THEN "Error"
                      ELSE IF arrived - Start(m, k) - HeaderLen < m[k].len
                      THEN "Insufficient"
                      ELSE IF m[k].type = "STDIN" THEN "Ready"
                      ELSE "Error"
    BY LoopLeaves
  <2>2. k \in 2 .. Len(m) /\ m[k].id = m[1].id
    BY <1>1, <2>1 DEF Leaves, OneId
  <2>3. NoBody => ~ cin_obtained(m, 2, k)
    BY <1>1, <2>2 DEF cin_obtained, NoBody
  <2>4. parse(m, 0, arrived) = {Loop(m, m[1].id, 2, arrived)}
    BY <1>4, ParseIsLoop
  <2>5. CASE k < Len(m)
    <3>1. /\ arrived < Start(m, k + 1)
          /\ \/ arrived - Start(m, k) < HeaderLen
             \/ arrived - Start(m, k) - HeaderLen < m[k].len
      BY <2>1, <2>2, <2>5, LeftEarly
    <3>2. ~ Closed
      <4>1. k + 1 \in 2 .. Len(m)
        BY <1>1, <2>2, <2>5
      <4> QED
        BY <1>1, <1>2, <3>1, <4>1 DEF Closed
    <3> QED
      BY <2>1, <2>2, <2>3, <2>4, <3>1, <3>2
  <2>6. CASE k = Len(m)
    <3>1. Closed <=> ~ (arrived - Start(m, k) < HeaderLen)
      BY <1>1, <2>6 DEF Closed
    <3>2. ~ (arrived - Start(m, k) < HeaderLen) =>
            ~ (arrived - Start(m, k) - HeaderLen < m[k].len)
      BY <1>1, <2>6
    <3> QED
      BY <1>1, <2>1, <2>2, <2>3, <2>4, <2>6, <3>1, <3>2
  <2> QED
    BY <1>1, <2>2, <2>5, <2>6
<1> QED
  BY <1>3, <1>4

(* Records of two requests.                                                *)
LEMMA MixtureParsed ==
  ASSUME Framing(m), arrived \in Nat
  PROVE  NoMixture
<1> SUFFICES ASSUME NEW k \in 2 .. Len(m), m[k].id # m[1].id,
                    \A j \in 1 .. k - 1 : m[j].id = m[1].id,
                    arrived >= Start(m, k) + HeaderLen
             PROVE  parse(m, 0, arrived) = {"Error"}
  BY DEF NoMixture
<1>1. /\ Len(m) \in Nat /\ Len(m) >= 2
      /\ \A j \in 1 .. Len(m) + 1 : Start(m, j) \in Nat
      /\ \A j \in 1 .. Len(m) : m[j].len \in Nat
      /\ HeaderLen \in Nat /\ HeaderLen >= 2
  BY FramedStarts
<1>2. \A j \in 1 .. k - 1 : Start(m, j) + HeaderLen + m[j].len <= Start(m, k)
  <2> SUFFICES ASSUME NEW j \in 1 .. k - 1
               PROVE  Start(m, j) + HeaderLen + m[j].len <= Start(m, k)
    OBVIOUS
  <2>1. j \in 1 .. Len(m) /\ k \in 1 .. Len(m) + 1 /\ j < k
    BY <1>1
  <2> QED
    BY <2>1, FramedStarts
<1>3. \A j \in 2 .. k - 1 : ~ Stops(m, m[1].id, arrived, j)
  <2> SUFFICES ASSUME NEW j \in 2 .. k - 1 PROVE ~ Stops(m, m[1].id, arrived, j)
    OBVIOUS
  <2>1. /\ j \in 2 .. Len(m) /\ j # Len(m) /\ j \in 1 .. k - 1
        /\ m[j].len \in Nat /\ Start(m, j) \in Nat /\ Start(m, k) \in Nat
    BY <1>1
  <2>2. /\ ~ (arrived - Start(m, j) < HeaderLen)
        /\ ~ (arrived - Start(m, j) - HeaderLen < m[j].len)
    <3>1. Start(m, j) + HeaderLen + m[j].len <= Start(m, k)
      BY <1>2, <2>1
    <3> QED
      BY <1>1, <2>1, <3>1, SMTT(30)
  <2>3. /\ m[j].type \in {"PARAMS", "STDIN"}
        /\ ~ (m[j].type = "STDIN" /\ m[j].len = 0)
    BY <2>1 DEF Framing
  <2> QED
    BY <2>1, <2>2, <2>3 DEF Stops
<1>4. arrived >= 2 /\ ~ (arrived - Start(m, 2) < HeaderLen)
  <2>1. k # 2 => 2 \in 1 .. k - 1
    BY <1>1
  <2>2. /\ m[2].len \in Nat /\ Start(m, 2) \in Nat /\ Start(m, k) \in Nat
    BY <1>1
  <2>3. Start(m, 2) <= Start(m, k)
    BY <1>1, <1>2, <2>1, <2>2
  <2> QED
    BY <1>1, <2>2, <2>3
<1>5. PICK i : /\ Leaves(m, arrived, i)
               /\ Loop(m, m[1].id, 2, arrived) =
                    IF arrived - Start(m, i) < HeaderLen
                    THEN IF cin_obtained(m, 2, i) THEN "Ready" ELSE "Insufficient"
                    ELSE IF m[i].id # m[1].id THEN "Error"
                    ELSE IF arrived - Start(m, i) - HeaderLen < m[i].len
                    THEN "Insufficient"
                    ELSE IF m[i].type = "STDIN" THEN "Ready"
                    ELSE "Error"
  BY LoopLeaves
<1>6. i = k
  <2>1. Stops(m, m[1].id, arrived, k)
    BY DEF Stops
  <2>2. i \in 2 .. Len(m) /\ Stops(m, m[1].id, arrived, i)
        /\ \A j \in 2 .. i - 1 : ~ Stops(m, m[1].id, arrived, j)
    BY <1>5 DEF Leaves
  <2> QED
    BY <1>1, <1>3, <2>1, <2>2
<1>7. ~ (arrived - Start(m, k) < HeaderLen)
  BY <1>1
<1>8. Loop(m, m[1].id, 2, arrived) = "Error"
  BY <1>5, <1>6, <1>7
<1> QED
  BY <1>4, <1>8, ParseIsLoop

-----------------------------------------------------------------------------
(* The requests of the model are framed so.                                *)

LEMMA BoundedSeqs ==
  ASSUME NEW S, NEW n \in Nat, NEW s \in SeqsUpTo(S, n)
  PROVE  s \in Seq(S)
<1>1. PICK k \in 0 .. n : s \in [1 .. k -> S]
  BY DEF SeqsUpTo
<1> QED
  BY <1>1, SeqDef

LEMMA OneInFront ==
  ASSUME NEW S, NEW x \in S, NEW s \in Seq(S)
  PROVE  /\ <<x>> \o s \in Seq(S) /\ Len(<<x>> \o s) = 1 + Len(s)
         /\ (<<x>> \o s)[1] = x
         /\ \A k \in 2 .. 1 + Len(s) : (<<x>> \o s)[k] = s[k - 1]
<1> DEFINE t == <<x>>
<1>1. t \in Seq(S) /\ Len(t) = 1 /\ t[1] = x /\ Len(s) \in Nat
  OBVIOUS
<1> HIDE DEF t
<1>2. /\ t \o s \in Seq(S) /\ Len(t \o s) = Len(t) + Len(s)
      /\ \A k \in 1 .. Len(t) + Len(s) :
           (t \o s)[k] = IF k <= Len(t) THEN t[k] ELSE s[k - Len(t)]
  BY <1>1, ConcatProperties
<1>3. /\ t \o s \in Seq(S) /\ Len(t \o s) = 1 + Len(s)
      /\ (t \o s)[1] = x
      /\ \A k \in 2 .. 1 + Len(s) : (t \o s)[k] = s[k - 1]
  BY <1>1, <1>2
<1> QED
  BY <1>3 DEF t

LEMMA OneBehind ==
  ASSUME NEW S, NEW x \in S, NEW s \in Seq(S)
  PROVE  /\ s \o <<x>> \in Seq(S) /\ Len(s \o <<x>>) = Len(s) + 1
         /\ (s \o <<x>>)[Len(s) + 1] = x
         /\ \A k \in 1 .. Len(s) : (s \o <<x>>)[k] = s[k]
BY AppendIsConcat, AppendProperties

LEMMA WellFormedFramed ==
  ASSUME NEW s \in WellFormed
  PROVE  Framing(s)
<1>1. PICK b \in [type : {"BEGIN"}, id : Ids, len : {BodyLen}, pad : {0}],
           p \in SeqsUpTo(Rec("PARAMS", Lens \cup {0}), MaxParams),
           t \in SeqsUpTo(Rec("STDIN", Lens), MaxStdin),
           e \in Rec("STDIN", {0}) :
        s = <<b>> \o p \o t \o <<e>>
  <2> DEFINE F(b, p, t, e) == <<b>> \o p \o t \o <<e>>
             B == [type : {"BEGIN"}, id : Ids, len : {BodyLen}, pad : {0}]
             P == SeqsUpTo(Rec("PARAMS", Lens \cup {0}), MaxParams)
             T == SeqsUpTo(Rec("STDIN", Lens), MaxStdin)
             E == Rec("STDIN", {0})
  <2>1. WellFormed = {F(b, p, t, e) : b \in B, p \in P, t \in T, e \in E}
    BY SMT DEF WellFormed
  <2> HIDE DEF F, B, P, T, E
  <2>2. \E b \in B, p \in P, t \in T, e \in E : s = F(b, p, t, e)
    BY <2>1
  <2> QED
    BY <2>2 DEF F, B, P, T, E
<1>2. /\ b \in Record /\ b.type = "BEGIN" /\ b.len = BodyLen /\ b.pad = 0
      /\ e \in Record /\ e.type = "STDIN" /\ e.len = 0
  <2>1. b \in Record /\ b.type = "BEGIN" /\ b.len = BodyLen /\ b.pad = 0
    <3>1. b.type = "BEGIN" /\ b.len = BodyLen /\ b.pad = 0
      OBVIOUS
    <3>2. /\ {"BEGIN"} \subseteq RecordTypes /\ Ids \subseteq Nat
          /\ {BodyLen} \subseteq Nat /\ {0} \subseteq Nat
      BY RequestsAssumption, LengthsAssumption DEF RecordTypes
    <3> QED
      BY <3>1, <3>2, Zenon DEF Record
  <2>2. e \in [type : {"STDIN"}, id : Ids, len : {0}, pad : Pads]
    BY DEF Rec
  <2>3. e \in Record /\ e.type = "STDIN" /\ e.len = 0
    <3>1. e.type = "STDIN" /\ e.len = 0
      BY <2>2
    <3>2. /\ {"STDIN"} \subseteq RecordTypes /\ Ids \subseteq Nat
          /\ {0} \subseteq Nat /\ Pads \subseteq Nat
      BY RequestsAssumption DEF RecordTypes
    <3> QED
      BY <2>2, <3>1, <3>2, Zenon DEF Record
  <2> QED
    BY <2>1, <2>3
<1>3. p \in Seq(Rec("PARAMS", Lens \cup {0})) /\ t \in Seq(Rec("STDIN", Lens))
  BY RequestsAssumption, BoundedSeqs
<1>4. /\ Rec("PARAMS", Lens \cup {0}) \subseteq Record
      /\ Rec("STDIN", Lens) \subseteq Record
  <2>1. ASSUME NEW type \in {"PARAMS", "STDIN"}, NEW lens, lens \subseteq Nat,
               NEW x \in Rec(type, lens)
        PROVE  x \in Record
    <3>1. x \in [type : {type}, id : Ids, len : lens, pad : Pads]
      BY DEF Rec
    <3> QED
      BY <2>1, <3>1, RequestsAssumption DEF Record, RecordTypes
  <2>2. Lens \cup {0} \subseteq Nat /\ Lens \subseteq Nat
    BY RequestsAssumption
  <2> QED
    BY <2>1, <2>2
<1>5. p \in Seq(Record) /\ t \in Seq(Record)
  BY <1>3, <1>4, SeqMonotonic
<1>6. /\ \A k \in 1 .. Len(p) : p[k].type = "PARAMS"
      /\ \A k \in 1 .. Len(t) : t[k].type = "STDIN" /\ t[k].len # 0
  <2>1. ASSUME NEW k \in 1 .. Len(p) PROVE p[k].type = "PARAMS"
    <3>1. p[k] \in Rec("PARAMS", Lens \cup {0})
      BY <1>3, ElementOfSeq
    <3> QED
      BY <3>1 DEF Rec
  <2>2. ASSUME NEW k \in 1 .. Len(t) PROVE t[k].type = "STDIN" /\ t[k].len # 0
    <3>1. t[k] \in Rec("STDIN", Lens)
      BY <1>3, ElementOfSeq
    <3> QED
      BY <3>1, RequestsAssumption DEF Rec
  <2> QED
    BY <2>1, <2>2
<1> DEFINE u == <<b>> \o p
           v == u \o t
<1>7. Len(p) \in Nat /\ Len(t) \in Nat
  BY <1>5
<1>8. /\ u \in Seq(Record) /\ Len(u) = 1 + Len(p) /\ u[1] = b
      /\ \A k \in 2 .. 1 + Len(p) : u[k] = p[k - 1]
  BY <1>2, <1>5, OneInFront
<1> HIDE DEF u
<1>9. /\ v \in Seq(Record) /\ Len(v) = 1 + Len(p) + Len(t)
      /\ \A k \in 1 .. 1 + Len(p) + Len(t) :
           v[k] = IF k <= 1 + Len(p) THEN u[k] ELSE t[k - (1 + Len(p))]
  <2>1. /\ v \in Seq(Record) /\ Len(v) = Len(u) + Len(t)
        /\ \A k \in 1 .. Len(u) + Len(t) :
             v[k] = IF k <= Len(u) THEN u[k] ELSE t[k - Len(u)]
    <3>1. u \in Seq(Record) /\ t \in Seq(Record)
      BY <1>5, <1>8
    <3> QED
      BY ONLY <3>1, ConcatProperties
  <2> HIDE DEF v
  <2> QED
    BY <1>7, <1>8, <2>1
<1> HIDE DEF v
<1>10. /\ s \in Seq(Record) /\ Len(s) = 2 + Len(p) + Len(t)
       /\ s[Len(s)] = e
       /\ \A k \in 1 .. 1 + Len(p) + Len(t) : s[k] = v[k]
  <2>1. s = v \o <<e>>
    BY <1>1 DEF u, v
  <2>2. v \in Seq(Record) /\ e \in Record
    BY <1>2, <1>9
  <2>3. /\ v \o <<e>> \in Seq(Record) /\ Len(v \o <<e>>) = Len(v) + 1
        /\ (v \o <<e>>)[Len(v) + 1] = e
        /\ \A k \in 1 .. Len(v) : (v \o <<e>>)[k] = v[k]
    BY ONLY <2>2, OneBehind
  <2>4. Len(v) = 1 + Len(p) + Len(t) /\ Len(v) + 1 = 2 + Len(p) + Len(t)
    BY <1>7, <1>9
  <2> QED
    BY <2>1, <2>3, <2>4
<1>11. s[1] = b
  BY <1>7, <1>8, <1>9, <1>10
<1>12. ASSUME NEW k \in 2 .. Len(s) - 1
       PROVE  s[k].type = "PARAMS" \/ (s[k].type = "STDIN" /\ s[k].len # 0)
  <2>1. CASE k <= 1 + Len(p)
    <3>1. /\ k \in 1 .. 1 + Len(p) + Len(t) /\ k \in 2 .. 1 + Len(p)
          /\ k - 1 \in 1 .. Len(p)
      BY <1>7, <1>10, <2>1
    <3>2. s[k] = p[k - 1]
      BY <1>8, <1>9, <1>10, <2>1, <3>1
    <3>3. p[k - 1].type = "PARAMS"
      BY <1>6, <3>1
    <3> QED
      BY <3>2, <3>3
  <2>2. CASE k > 1 + Len(p)
    <3>1. s[k] = t[k - (1 + Len(p))] /\ k - (1 + Len(p)) \in 1 .. Len(t)
      BY <1>7, <1>9, <1>10, <2>2
    <3> QED
      BY <1>6, <3>1
  <2> QED
    BY <1>7, <2>1, <2>2
<1> QED
  <2>1. /\ Len(s) \in Nat /\ Len(s) >= 2
        /\ \A k \in 2 .. Len(s) : k \in 2 .. Len(s) - 1 \/ k = Len(s)
    BY <1>7, <1>10
  <2>2. \A k \in 2 .. Len(s) - 1 : k # Len(s)
    BY <2>1
  <2> QED
    BY <1>2, <1>10, <1>11, <1>12, <2>1, <2>2 DEF Framing

(* The records that carry contents, and the one that ends them.            *)
Part == [type : {"PARAMS", "STDIN"}, content : Seq(Nat)]
Ended(parts) ==
  /\ parts \in Seq(Part) /\ Len(parts) >= 1
  /\ \A k \in 1 .. Len(parts) :
       parts[k].type = "STDIN" /\ parts[k].content = <<>> <=> k = Len(parts)

LEMMA FramedFramed ==
  ASSUME NEW parts, Ended(parts)
  PROVE  Framing(Framed(parts))
<1> DEFINE b == [type |-> "BEGIN", id |-> 1, len |-> BodyLen, pad |-> 0]
           f == [k \in DOMAIN parts |-> [type |-> parts[k].type, id |-> 1,
                              len |-> Len(parts[k].content), pad |-> 0]]
           s == Framed(parts)
<1>1. /\ parts \in Seq(Part) /\ Len(parts) \in Nat /\ Len(parts) >= 1
      /\ DOMAIN parts = 1 .. Len(parts)
  BY DEF Ended
<1>2. ASSUME NEW k \in 1 .. Len(parts)
      PROVE  /\ f[k] \in Record /\ f[k].type \in {"PARAMS", "STDIN"}
             /\ f[k].type = "STDIN" /\ f[k].len = 0 <=> k = Len(parts)
  <2>1. parts[k] \in Part
    BY <1>1, ElementOfSeq
  <2>2. /\ parts[k].type \in {"PARAMS", "STDIN"} /\ parts[k].content \in Seq(Nat)
    BY <2>1 DEF Part
  <2>3. Len(parts[k].content) \in Nat
        /\ (Len(parts[k].content) = 0 <=> parts[k].content = <<>>)
    BY <2>2, EmptySeq
  <2>4. f[k] = [type |-> parts[k].type, id |-> 1,
                len |-> Len(parts[k].content), pad |-> 0]
    BY <1>1
  <2>5. parts[k].type = "STDIN" /\ parts[k].content = <<>> <=> k = Len(parts)
    BY DEF Ended
  <2> HIDE DEF f
  <2> QED
    BY <2>2, <2>3, <2>4, <2>5 DEF Record, RecordTypes
<1>3. f \in Seq(Record) /\ Len(f) = Len(parts)
  <2>1. f = [k \in 1 .. Len(parts) |-> f[k]]
    BY <1>1
  <2>2. DOMAIN f = 1 .. Len(parts)
    BY <1>1
  <2> HIDE DEF f
  <2>3. f \in [1 .. Len(parts) -> Record]
    BY <1>2, <2>1
  <2>4. f \in Seq(Record)
    BY <1>1, <2>3, SeqDef
  <2> QED
    BY <1>1, <2>2, <2>4
<1>4. b \in Record
  BY LengthsAssumption DEF Record, RecordTypes
<1>5. s = <<b>> \o f
  BY DEF Framed
<1> HIDE DEF b, f, s
<1>6. /\ s \in Seq(Record) /\ Len(s) = 1 + Len(parts)
      /\ \A k \in 2 .. 1 + Len(parts) : s[k] = f[k - 1]
  BY <1>1, <1>3, <1>4, <1>5, OneInFront
<1>7. s[1] = b
  BY <1>3, <1>4, <1>5, OneInFront
<1>8. ASSUME NEW k \in 2 .. Len(s)
      PROVE  /\ s[k].type \in {"PARAMS", "STDIN"}
             /\ s[k].type = "STDIN" /\ s[k].len = 0 <=> k = Len(s)
  <2>1. /\ k - 1 \in 1 .. Len(parts) /\ s[k] = f[k - 1]
        /\ (k = Len(s) <=> k - 1 = Len(parts))
    BY <1>1, <1>6
  <2> QED
    BY <1>2, <2>1
<1>9. Framing(s)
  BY <1>1, <1>6, <1>7, <1>8 DEF Framing, b
<1> QED
  BY <1>9 DEF s

-----------------------------------------------------------------------------
(* Joined sequences: v[k] are the first k members of s in one.             *)

Joins(v, s) ==
  /\ v \in [0 .. Len(s) -> Seq(Nat)] /\ v[0] = <<>>
  /\ \A k \in 1 .. Len(s) : v[k] = v[k - 1] \o s[k]

LEMMA JoinsExist ==
  ASSUME NEW s \in Seq(Seq(Nat))
  PROVE  \E v : Joins(v, s)
<1> DEFINE P(v, n) == /\ v \in [0 .. n -> Seq(Nat)] /\ v[0] = <<>>
                      /\ \A k \in 1 .. n : v[k] = v[k - 1] \o s[k]
           Bad == {n \in 0 .. Len(s) : ~ \E v : P(v, n)}
<1>1. Len(s) \in Nat
  OBVIOUS
<1>2. ASSUME NEW n \in Bad PROVE \E k \in Bad : k < n
  <2>1. n # 0
    <3>1. <<>> \in Seq(Nat)
      OBVIOUS
    <3>2. P([k \in 0 .. 0 |-> <<>>], 0)
      BY <3>1
    <3> QED
      BY <3>2
  <2>2. ASSUME NEW v, P(v, n - 1) PROVE FALSE
    <3> DEFINE w == [k \in 0 .. n |-> IF k = n THEN v[n - 1] \o s[n] ELSE v[k]]
    <3>1. n \in 1 .. Len(s) /\ n - 1 \in 0 .. n - 1
      BY <1>1, <2>1
    <3>2. v[n - 1] \in Seq(Nat) /\ s[n] \in Seq(Nat)
      BY <2>2, <3>1, ElementOfSeq
    <3>3. v[n - 1] \o s[n] \in Seq(Nat)
      BY <3>2, ConcatProperties
    <3>4. w \in [0 .. n -> Seq(Nat)]
      BY <1>1, <2>2, <3>1, <3>3
    <3>5. w[0] = <<>>
      BY <1>1, <2>2, <3>1, SMTT(30)
    <3>6. \A k \in 1 .. n : w[k] = w[k - 1] \o s[k]
      <4> SUFFICES ASSUME NEW k \in 1 .. n PROVE w[k] = w[k - 1] \o s[k]
        OBVIOUS
      <4>1. k - 1 \in 0 .. n /\ k - 1 # n /\ k \in 0 .. n
        BY <1>1, <3>1
      <4>2. w[k - 1] = v[k - 1]
        BY <4>1
      <4>3. CASE k = n
        BY <4>1, <4>2, <4>3
      <4>4. CASE k # n
        <5>1. k \in 1 .. n - 1
          BY <1>1, <3>1, <4>4
        <5>2. w[k] = v[k]
          BY <4>1, <4>4
        <5> HIDE DEF w
        <5> QED
          BY <2>2, <4>2, <5>1, <5>2
      <4> QED
        BY <4>3, <4>4
    <3> HIDE DEF w
    <3>7. P(w, n)
      BY <3>4, <3>5, <3>6
    <3> HIDE DEF P
    <3> QED
      BY <3>7
  <2>3. n \in 0 .. Len(s) /\ n - 1 < n
    <3> HIDE DEF P
    <3> QED
      BY <1>1
  <2>4. n - 1 \in 0 .. Len(s)
    BY <1>1, <2>1, <2>3
  <2> HIDE DEF P
  <2> QED
    BY <2>2, <2>3, <2>4
<1>3. Bad = {}
  <2> HIDE DEF P
  <2>1. Bad \in SUBSET Nat
    BY <1>1
  <2> HIDE DEF Bad
  <2> QED
    BY <1>2, <2>1, NoneBelow
<1>4. Len(s) \notin Bad /\ Len(s) \in 0 .. Len(s)
  <2> HIDE DEF Bad
  <2> QED
    BY <1>1, <1>3
<1> QED
  BY <1>4 DEF Joins

LEMMA JoinsFlatten ==
  ASSUME NEW s \in Seq(Seq(Nat)), NEW v, Joins(v, s)
  PROVE  FlattenSeq(s) = v[Len(s)]
<1>1. Len(s) \in Nat
  OBVIOUS
<1>2. CASE Len(s) = 0
  BY <1>2 DEF FlattenSeq, Joins
<1>3. CASE Len(s) # 0
  <2> DEFINE F(g) == g = [i \in 1 .. Len(s) |-> IF i = 1 THEN s[i] ELSE g[i - 1] \o s[i]]
             flat == CHOOSE g : F(g)
             g0 == [i \in 1 .. Len(s) |-> v[i]]
  <2>1. \A i \in 1 .. Len(s) : v[i] = IF i = 1 THEN s[i] ELSE v[i - 1] \o s[i]
    <3> SUFFICES ASSUME NEW i \in 1 .. Len(s)
                 PROVE  v[i] = IF i = 1 THEN s[i] ELSE v[i - 1] \o s[i]
      OBVIOUS
    <3>1. v[i] = v[i - 1] \o s[i] /\ s[i] \in Seq(Nat) /\ v[0] = <<>>
      BY ElementOfSeq DEF Joins
    <3>2. i = 1 => v[i - 1] = <<>>
      BY <3>1
    <3>3. <<>> \o s[i] = s[i]
      BY <3>1, ConcatEmptySeq
    <3> QED
      BY <3>1, <3>2, <3>3
  <2>2. F(g0)
    <3>1. \A i \in 1 .. Len(s) : i # 1 => g0[i - 1] = v[i - 1]
      BY <1>1
    <3>2. \A i \in 1 .. Len(s) : g0[i] = v[i]
      OBVIOUS
    <3>3. g0 = [i \in 1 .. Len(s) |-> g0[i]]
      OBVIOUS
    <3> HIDE DEF g0
    <3>4. \A i \in 1 .. Len(s) : g0[i] = IF i = 1 THEN s[i] ELSE g0[i - 1] \o s[i]
      BY <2>1, <3>1, <3>2
    <3> QED
      BY <3>3, <3>4
  <2>3. F(flat)
    <3> HIDE DEF g0
    <3> QED
      BY <2>2
  <2>4. FlattenSeq(s) = flat[Len(s)]
    BY <1>3 DEF FlattenSeq
  <2> HIDE DEF flat
  <2>5. \A i \in 1 .. Len(s) : flat[i] = IF i = 1 THEN s[i] ELSE flat[i - 1] \o s[i]
    BY <2>3
  <2> DEFINE Bad == {i \in 1 .. Len(s) : flat[i] # v[i]}
  <2>6. ASSUME NEW i \in Bad PROVE \E j \in Bad : j < i
    <3>1. i # 1
      BY <2>1, <2>5
    <3>2. i - 1 \in 1 .. Len(s) /\ i - 1 < i
      BY <1>1, <3>1
    <3>3. flat[i] = flat[i - 1] \o s[i] /\ v[i] = v[i - 1] \o s[i]
      BY <2>1, <2>5, <3>1
    <3>4. flat[i - 1] # v[i - 1]
      BY <3>3
    <3> QED
      BY <3>2, <3>4
  <2>7. Bad = {}
    <3>1. Bad \in SUBSET Nat
      BY <1>1
    <3> HIDE DEF Bad
    <3> QED
      BY <2>6, <3>1, NoneBelow
  <2>8. Len(s) \in 1 .. Len(s)
    BY <1>1, <1>3
  <2> QED
    BY <2>4, <2>7, <2>8
<1> QED
  BY <1>2, <1>3

(* So the first members of s, flattened, are what v says.                  *)
LEMMA PrefixFlattens ==
  ASSUME NEW s \in Seq(Seq(Nat)), NEW v, Joins(v, s), NEW i \in 0 .. Len(s)
  PROVE  FlattenSeq(SubSeq(s, 1, i)) = v[i]
<1> DEFINE t == SubSeq(s, 1, i)
           w == [k \in 0 .. i |-> v[k]]
<1>1. Len(s) \in Nat /\ i \in Nat /\ i <= Len(s)
  OBVIOUS
<1>2. \A k \in 1 .. i : s[k] \in Seq(Nat)
  BY <1>1, ElementOfSeq
<1>3. /\ t \in Seq(Seq(Nat)) /\ Len(t) = i
      /\ \A k \in 1 .. i : t[k] = s[k]
  <2>1. /\ t \in Seq(Seq(Nat))
        /\ Len(t) = IF 1 <= i THEN i - 1 + 1 ELSE 0
        /\ \A k \in 1 .. i - 1 + 1 : t[k] = s[1 + k - 1]
    BY <1>1, <1>2, SubSeqProperties
  <2> HIDE DEF t
  <2> QED
    BY <1>1, <2>1
<1> HIDE DEF t
<1>4. Joins(w, t)
  <2>1. w \in [0 .. i -> Seq(Nat)] /\ w[0] = <<>>
    <3>1. v \in [0 .. Len(s) -> Seq(Nat)] /\ v[0] = <<>>
      BY DEF Joins
    <3>2. \A k \in 0 .. i : v[k] \in Seq(Nat)
      BY <1>1, <3>1
    <3>3. 0 \in 0 .. i
      BY <1>1
    <3> QED
      BY <3>1, <3>2, <3>3
  <2>2. ASSUME NEW k \in 1 .. i PROVE w[k] = w[k - 1] \o t[k]
    <3>1. k \in 1 .. Len(s) /\ k - 1 \in 0 .. i /\ k \in 0 .. i
      BY <1>1
    <3>2. v[k] = v[k - 1] \o s[k] /\ w[k] = v[k] /\ w[k - 1] = v[k - 1]
      BY <3>1 DEF Joins
    <3> QED
      BY <1>3, <3>2
  <2> HIDE DEF w
  <2> QED
    BY <1>3, <2>1, <2>2 DEF Joins
<1>5. FlattenSeq(t) = w[i] /\ w[i] = v[i]
  BY <1>1, <1>3, <1>4, JoinsFlatten
<1> QED
  BY <1>5 DEF t

-----------------------------------------------------------------------------
(* One pair.                                                               *)

Pair == [name : Seq(Nat), value : Seq(Nat)]

LEMMA PieceIs ==
  ASSUME NEW c \in Seq(Nat), NEW s \in Seq(Nat), NEW i \in Nat, i >= 1,
         i + Len(s) - 1 <= Len(c), \A k \in 1 .. Len(s) : c[i + k - 1] = s[k]
  PROVE  SubSeq(c, i, i + Len(s) - 1) = s
<1> DEFINE t == SubSeq(c, i, i + Len(s) - 1)
<1>1. Len(s) \in Nat /\ Len(c) \in Nat
  OBVIOUS
<1>2. \A k \in i .. i + Len(s) - 1 : c[k] \in Nat
  BY <1>1, ElementOfSeq
<1>3. /\ t \in Seq(Nat)
      /\ Len(t) = IF i <= i + Len(s) - 1 THEN i + Len(s) - 1 - i + 1 ELSE 0
      /\ \A k \in 1 .. i + Len(s) - 1 - i + 1 : t[k] = c[i + k - 1]
  BY <1>1, <1>2, SubSeqProperties
<1> HIDE DEF t
<1>4. Len(t) = Len(s) /\ \A k \in 1 .. Len(t) : t[k] = s[k]
  BY <1>1, <1>3
<1>5. t = s
  BY <1>3, <1>4, SeqEqual
<1> QED
  BY <1>5 DEF t

LEMMA Division ==
  ASSUME NEW n \in Nat, NEW b \in Nat \ {0}
  PROVE  /\ n \div b \in Nat /\ n % b \in Nat
         /\ n = (n \div b) * b + (n % b)
OBVIOUS

LEMMA Divisions ==
  ASSUME NEW n \in Nat, NEW b \in Nat \ {0}
  PROVE  /\ (n \div b) \div b = n \div (b * b)
         /\ (n \div (b * b)) \div b = n \div (b * b * b)
<1>1. (n \div b) \div b = n \div (b * b)
  OBVIOUS
<1>2. (n \div (b * b)) \div b = n \div (b * b * b)
  OBVIOUS
<1> QED
  BY <1>1, <1>2

LEMMA FormType ==
  ASSUME NEW s \in Seq(Nat), NEW f \in Forms(s)
  PROVE  f \in Seq(Nat) /\ Len(f) \in Nat /\ Len(f) > 0
<1>1. Len(s) \in Nat /\ Base \in Nat /\ Half \in Nat /\ Base > 0
  BY BaseAssumption
<1>2. CASE f = Short(Len(s))
  BY <1>1, <1>2 DEF Short
<1>3. CASE f = Long(Len(s))
  <2> DEFINE n == Len(s)
             a == Half + n \div (Base * Base * Base)
             b == (n \div (Base * Base)) % Base
             c == (n \div Base) % Base
             d == n % Base
  <2>1. Base * Base \in Nat \ {0} /\ Base * Base * Base \in Nat \ {0}
    BY <1>1
  <2>2. a \in Nat /\ b \in Nat /\ c \in Nat /\ d \in Nat
    BY <1>1, <2>1
  <2>3. f = <<a, b, c, d>>
    BY <1>3 DEF Long
  <2> HIDE DEF a, b, c, d
  <2> QED
    BY <2>2, <2>3
<1> QED
  BY <1>2, <1>3 DEF Forms

(* A form in the content c, at i, is read as the length it stands for.     *)
LEMMA FormRead ==
  ASSUME NEW s \in Seq(Nat), NEW f \in Forms(s), NEW c \in Seq(Nat), NEW i \in Nat,
         i >= 1, i + Len(f) - 1 <= Len(c),
         \A k \in 1 .. Len(f) : c[i + k - 1] = f[k]
  PROVE  Width(c, i) = Len(f) /\ Readable(c, i) /\ Length(c, i) = Len(s)
<1>1. Len(s) \in Nat /\ Base \in Nat /\ Half \in Nat /\ Base > 0 /\ Half > 0
  BY BaseAssumption
<1>2. CASE f = Short(Len(s)) /\ Len(s) < Half
  <2>1. f = <<Len(s)>> /\ Len(f) = 1 /\ f[1] = Len(s)
    BY <1>2 DEF Short
  <2>2. i + 1 - 1 = i
    OBVIOUS
  <2>3. c[i] = Len(s)
    BY <2>1, <2>2
  <2>4. ~ High(c[i])
    BY <1>1, <1>2, <2>3 DEF High
  <2> QED
    BY <2>1, <2>3, <2>4 DEF Width, Readable, Length
<1>3. CASE f = Long(Len(s))
  <2> DEFINE n == Len(s)
             b1 == n \div (Base * Base * Base)
             b2 == (n \div (Base * Base)) % Base
             b3 == (n \div Base) % Base
             b4 == n % Base
  <2>1. /\ n \in Nat /\ Base \in Nat \ {0}
        /\ Base * Base \in Nat \ {0} /\ Base * Base * Base \in Nat \ {0}
    BY <1>1
  <2>2. b1 \in Nat /\ b2 \in Nat /\ b3 \in Nat /\ b4 \in Nat
    <3>1. n \div (Base * Base) \in Nat /\ n \div Base \in Nat
      BY <2>1, Division, Zenon
    <3> QED
      BY <2>1, <3>1, Division, Zenon
  <2>3. f = <<Half + b1, b2, b3, b4>>
    BY <1>3 DEF Long
  <2>4. b1 * (Base * Base * Base) + b2 * (Base * Base) + b3 * Base + b4 = n
    <3> DEFINE q1 == n \div Base
               q2 == n \div (Base * Base)
    <3>1. q1 \in Nat /\ q2 \in Nat
      BY <2>1, Division, Zenon
    <3>2. n = q1 * Base + b4
      BY <2>1, Division, Zenon
    <3>3. q1 \div Base = q2
      BY <2>1, Divisions, Zenon
    <3>4. q1 = q2 * Base + b3
      <4>1. b3 = q1 % Base
        OBVIOUS
      <4> HIDE DEF q1, q2, b3
      <4> QED
        BY <2>1, <3>1, <3>3, <4>1, Division, Zenon
    <3>5. q2 \div Base = b1
      BY <2>1, Divisions, Zenon
    <3>6. q2 = b1 * Base + b2
      <4>1. b2 = q2 % Base
        OBVIOUS
      <4> HIDE DEF q2, b1, b2
      <4> QED
        BY <2>1, <3>1, <3>5, <4>1, Division, Zenon
    <3> HIDE DEF q1, q2, b1, b2, b3, b4
    <3>7. q2 * Base = b1 * (Base * Base) + b2 * Base
      BY <1>1, <2>2, <3>1, <3>6
    <3>8. q1 * Base = b1 * (Base * Base * Base) + b2 * (Base * Base) + b3 * Base
      BY <1>1, <2>2, <3>1, <3>4, <3>7
    <3> QED
      BY <1>1, <2>2, <3>1, <3>2, <3>8
  <2> HIDE DEF b1, b2, b3, b4
  <2>5. Len(f) = 4 /\ f[1] = Half + b1 /\ f[2] = b2 /\ f[3] = b3 /\ f[4] = b4
    BY <2>2, <2>3
  <2>6. c[i] = Half + b1 /\ c[i + 1] = b2 /\ c[i + 2] = b3 /\ c[i + 3] = b4
    <3>1. i + 1 - 1 = i /\ i + 2 - 1 = i + 1 /\ i + 3 - 1 = i + 2 /\ i + 4 - 1 = i + 3
      OBVIOUS
    <3>2. c[i + 1 - 1] = f[1] /\ c[i + 2 - 1] = f[2] /\ c[i + 3 - 1] = f[3]
          /\ c[i + 4 - 1] = f[4]
      <4>1. 1 \in 1 .. 4 /\ 2 \in 1 .. 4 /\ 3 \in 1 .. 4 /\ 4 \in 1 .. 4
        OBVIOUS
      <4>2. \A k \in 1 .. 4 : c[i + k - 1] = f[k]
        BY <2>5, Zenon
      <4> QED
        BY <4>1, <4>2, Zenon
    <3> QED
      BY <2>5, <3>1, <3>2
  <2>7. High(c[i])
    BY <1>1, <2>2, <2>6 DEF High
  <2>8. Width(c, i) = 4 /\ Readable(c, i)
    <3>1. Width(c, i) = 4
      BY <2>7 DEF Width
    <3>2. i + 4 - 1 <= Len(c) /\ i <= Len(c)
      BY <2>5
    <3> QED
      BY <3>1, <3>2 DEF Readable
  <2>9. (c[i] - Half) = b1
    BY <1>1, <2>2, <2>6
  <2>10. Length(c, i) = b1 * (Base * Base * Base) + b2 * (Base * Base) + b3 * Base + b4
    BY <2>6, <2>7, <2>9 DEF Length
  <2> QED
    BY <2>4, <2>5, <2>8, <2>10
<1> QED
  BY <1>2, <1>3 DEF Forms

(* x is s1, s2, s3 and s4 in one.                                          *)
Four(x, s1, s2, s3, s4) ==
  /\ x \in Seq(Nat) /\ Len(x) = Len(s1) + Len(s2) + Len(s3) + Len(s4)
  /\ \A k \in 1 .. Len(s1) : x[k] = s1[k]
  /\ \A k \in 1 .. Len(s2) : x[Len(s1) + k] = s2[k]
  /\ \A k \in 1 .. Len(s3) : x[Len(s1) + Len(s2) + k] = s3[k]
  /\ \A k \in 1 .. Len(s4) : x[Len(s1) + Len(s2) + Len(s3) + k] = s4[k]

LEMMA FourJoined ==
  ASSUME NEW s1 \in Seq(Nat), NEW s2 \in Seq(Nat), NEW s3 \in Seq(Nat), NEW s4 \in Seq(Nat),
         NEW x, x = s1 \o s2 \o s3 \o s4
  PROVE  Four(x, s1, s2, s3, s4)
<1> DEFINE u == s1 \o s2
           v == u \o s3
<1>1. /\ Len(s1) \in Nat /\ Len(s2) \in Nat /\ Len(s3) \in Nat /\ Len(s4) \in Nat
  OBVIOUS
<1>2. /\ u \in Seq(Nat) /\ Len(u) = Len(s1) + Len(s2)
      /\ \A k \in 1 .. Len(s1) + Len(s2) :
           u[k] = IF k <= Len(s1) THEN s1[k] ELSE s2[k - Len(s1)]
  BY ConcatProperties
<1> HIDE DEF u
<1>3. /\ v \in Seq(Nat) /\ Len(v) = Len(u) + Len(s3)
      /\ \A k \in 1 .. Len(u) + Len(s3) :
           v[k] = IF k <= Len(u) THEN u[k] ELSE s3[k - Len(u)]
  <2>1. u \in Seq(Nat) /\ s3 \in Seq(Nat)
    BY <1>2
  <2> QED
    BY ONLY <2>1, ConcatProperties
<1> HIDE DEF v
<1>4. /\ v \o s4 \in Seq(Nat) /\ Len(v \o s4) = Len(v) + Len(s4)
      /\ \A k \in 1 .. Len(v) + Len(s4) :
           (v \o s4)[k] = IF k <= Len(v) THEN v[k] ELSE s4[k - Len(v)]
  <2>1. v \in Seq(Nat) /\ s4 \in Seq(Nat)
    BY <1>3
  <2> QED
    BY ONLY <2>1, ConcatProperties
<1>5. x = v \o s4
  BY DEF u, v
<1> DEFINE l1 == Len(s1)
           l2 == Len(s2)
           l3 == Len(s3)
           lu == Len(u)
           lv == Len(v)
<1>0. /\ l1 \in Nat /\ l2 \in Nat /\ l3 \in Nat /\ lu \in Nat /\ lv \in Nat
      /\ lu = l1 + l2 /\ lv = lu + l3
  BY <1>1, <1>2, <1>3
<1>6. \A k \in 1 .. Len(v) : x[k] = v[k]
  BY <1>1, <1>2, <1>3, <1>4, <1>5
<1>7. \A k \in 1 .. Len(u) : v[k] = u[k]
  BY <1>1, <1>2, <1>3
<1>8. \A k \in 1 .. Len(s1) : x[k] = s1[k]
  <2> SUFFICES ASSUME NEW k \in 1 .. Len(s1) PROVE x[k] = s1[k]
    OBVIOUS
  <2>1. k \in 1 .. Len(u) /\ k \in 1 .. Len(v) /\ k \in 1 .. Len(s1) + Len(s2)
        /\ k <= Len(s1)
    <3> HIDE DEF l1, l2, l3, lu, lv
    <3>1. k \in 1 .. l1 => k \in 1 .. lu /\ k \in 1 .. lv /\ k \in 1 .. l1 + l2 /\ k <= l1
      BY <1>0
    <3> QED
      BY ONLY <3>1, k \in 1 .. Len(s1) DEF l1, l2, lu, lv
  <2>2. u[k] = s1[k]
    BY <1>2, <2>1
  <2> QED
    BY <1>6, <1>7, <2>1, <2>2
<1>9. \A k \in 1 .. Len(s2) : x[Len(s1) + k] = s2[k]
  <2> SUFFICES ASSUME NEW k \in 1 .. Len(s2) PROVE x[Len(s1) + k] = s2[k]
    OBVIOUS
  <2>1. /\ Len(s1) + k \in 1 .. Len(u) /\ Len(s1) + k \in 1 .. Len(v)
        /\ Len(s1) + k \in 1 .. Len(s1) + Len(s2)
        /\ ~ (Len(s1) + k <= Len(s1)) /\ (Len(s1) + k) - Len(s1) = k
    <3> HIDE DEF l1, l2, l3, lu, lv
    <3>1. k \in 1 .. l2 =>
            /\ l1 + k \in 1 .. lu /\ l1 + k \in 1 .. lv /\ l1 + k \in 1 .. l1 + l2
            /\ ~ (l1 + k <= l1) /\ (l1 + k) - l1 = k
      BY <1>0
    <3> QED
      BY ONLY <3>1, k \in 1 .. Len(s2) DEF l1, l2, lu, lv
  <2>2. u[Len(s1) + k] = s2[(Len(s1) + k) - Len(s1)]
    BY <1>2, <2>1
  <2> QED
    BY <1>6, <1>7, <2>1, <2>2
<1>10. \A k \in 1 .. Len(s3) : x[Len(s1) + Len(s2) + k] = s3[k]
  <2> SUFFICES ASSUME NEW k \in 1 .. Len(s3) PROVE x[Len(s1) + Len(s2) + k] = s3[k]
    OBVIOUS
  <2>1. /\ Len(u) + k \in 1 .. Len(v) /\ Len(u) + k \in 1 .. Len(u) + Len(s3)
        /\ ~ (Len(u) + k <= Len(u)) /\ (Len(u) + k) - Len(u) = k
    BY <1>1, <1>2, <1>3, SMTT(30)
  <2>2. v[Len(u) + k] = s3[(Len(u) + k) - Len(u)]
    BY <1>3, <2>1
  <2>3. x[Len(u) + k] = s3[k]
    BY <1>6, <2>1, <2>2
  <2> QED
    BY <1>2, <2>3
<1>11. \A k \in 1 .. Len(s4) : x[Len(s1) + Len(s2) + Len(s3) + k] = s4[k]
  <2> SUFFICES ASSUME NEW k \in 1 .. Len(s4)
               PROVE  x[Len(s1) + Len(s2) + Len(s3) + k] = s4[k]
    OBVIOUS
  <2>1. /\ Len(v) + k \in 1 .. Len(v) + Len(s4)
        /\ ~ (Len(v) + k <= Len(v)) /\ (Len(v) + k) - Len(v) = k
    BY <1>1, <1>2, <1>3
  <2>2. x[Len(v) + k] = s4[(Len(v) + k) - Len(v)]
    BY <1>4, <1>5, <2>1
  <2>3. x[Len(v) + k] = s4[k]
    BY <2>1, <2>2
  <2>4. Len(v) = Len(s1) + Len(s2) + Len(s3)
    BY <1>2, <1>3
  <2> QED
    BY <2>3, <2>4
<1> QED
  BY <1>2, <1>3, <1>4, <1>5, <1>8, <1>9, <1>10, <1>11 DEF Four

LEMMA EncodingParts ==
  ASSUME NEW p \in Pair, NEW x \in Encodings(p)
  PROVE  /\ p.name \in Seq(Nat) /\ p.value \in Seq(Nat)
         /\ \E f \in Forms(p.name), g \in Forms(p.value) :
              x = f \o g \o p.name \o p.value
<1>1. p.name \in Seq(Nat) /\ p.value \in Seq(Nat)
  BY DEF Pair
<1> DEFINE F(f, g) == f \o g \o p.name \o p.value
<1>3. \A f, g : F(f, g) = f \o g \o p.name \o p.value
  OBVIOUS
<1>5. Encodings(p) = {F(f, g) : f \in Forms(p.name), g \in Forms(p.value)}
  BY SMT DEF Encodings
<1>2. x \in {F(f, g) : f \in Forms(p.name), g \in Forms(p.value)}
  <2> HIDE DEF F
  <2> QED
    BY <1>5
<1> HIDE DEF F
<1>4. \E f \in Forms(p.name), g \in Forms(p.value) : x = F(f, g)
  BY <1>2
<1> QED
  BY <1>1, <1>3, <1>4, Zenon

LEMMA FormsJoined ==
  ASSUME NEW s \in Seq(Nat), NEW t \in Seq(Nat), NEW f \in Forms(s), NEW g \in Forms(t),
         NEW x, x = f \o g \o s \o t
  PROVE  x \in Seq(Nat) /\ Len(x) \in Nat /\ Len(x) > 0
<1>1. f \in Seq(Nat) /\ g \in Seq(Nat) /\ Len(f) \in Nat /\ Len(f) > 0
  BY FormType
<1>2. x \in Seq(Nat) /\ Len(x) = Len(f) + Len(g) + Len(s) + Len(t)
  <2>1. Four(x, f, g, s, t)
    BY <1>1, FourJoined
  <2> QED
    BY <2>1 DEF Four
<1>3. Len(f) \in Nat /\ Len(g) \in Nat /\ Len(s) \in Nat /\ Len(t) \in Nat /\ Len(f) > 0
  BY ONLY <1>1, s \in Seq(Nat), t \in Seq(Nat)
<1> QED
  BY ONLY <1>2, <1>3

LEMMA EncodingType ==
  ASSUME NEW p \in Pair, NEW x \in Encodings(p)
  PROVE  x \in Seq(Nat) /\ Len(x) \in Nat /\ Len(x) > 0
BY EncodingParts, FormsJoined, Zenon

(* What one round of the loop of m_setup_parameters reads behind b: a     *)
(* name and a value, to the end of the pair at e.                          *)
Reads(c, b, e, s, t) ==
  LET v == b + 1 + Width(c, b + 1)
      name == v + Width(c, v)
      value == name + Length(c, b + 1)
      end == value + Length(c, v)
  IN  /\ Readable(c, b + 1) /\ Readable(c, v)
      /\ end - 1 = e
      /\ SubSeq(c, name, value - 1) = s
      /\ SubSeq(c, value, end - 1) = t

LEMMA LengthsRead ==
  ASSUME NEW s \in Seq(Nat), NEW t \in Seq(Nat), NEW f \in Forms(s), NEW g \in Forms(t),
         NEW x, x = f \o g \o s \o t, NEW c \in Seq(Nat), NEW b \in Nat,
         b + Len(x) <= Len(c), \A k \in 1 .. Len(x) : c[b + k] = x[k]
  PROVE  Reads(c, b, b + Len(x), s, t)
<1>3. /\ f \in Seq(Nat) /\ Len(f) \in Nat /\ Len(f) > 0
      /\ g \in Seq(Nat) /\ Len(g) \in Nat /\ Len(g) > 0
  BY FormType
<1> DEFINE n == Len(s)
           l == Len(t)
           v == b + 1 + Len(f)
           name == v + Len(g)
           value == name + n
           end == value + l
<1>4. /\ Len(f) \in Nat /\ Len(g) \in Nat /\ n \in Nat /\ l \in Nat /\ Len(c) \in Nat
  BY <1>3, SMTT(30)
<1>5. /\ Len(x) = Len(f) + Len(g) + n + l
      /\ \A k \in 1 .. Len(f) : x[k] = f[k]
      /\ \A k \in 1 .. Len(g) : x[Len(f) + k] = g[k]
      /\ \A k \in 1 .. n : x[Len(f) + Len(g) + k] = s[k]
      /\ \A k \in 1 .. l : x[Len(f) + Len(g) + n + k] = t[k]
  <2>1. f \in Seq(Nat) /\ g \in Seq(Nat)
    BY <1>3
  <2>3. Four(x, f, g, s, t)
    BY <2>1, FourJoined
  <2> QED
    BY <2>3 DEF Four
<1> HIDE DEF n, l
<1>6. Width(c, b + 1) = Len(f) /\ Readable(c, b + 1) /\ Length(c, b + 1) = n
  <2>1. \A k \in 1 .. Len(f) : c[b + 1 + k - 1] = f[k]
    <3> SUFFICES ASSUME NEW k \in 1 .. Len(f) PROVE c[b + 1 + k - 1] = f[k]
      OBVIOUS
    <3>1. b + 1 + k - 1 = b + k
      OBVIOUS
    <3>2. \A a, z, y, w \in Nat : \A q \in 1 .. a : q \in 1 .. a + z + y + w
      OBVIOUS
    <3>3. k \in 1 .. Len(x)
      BY <1>4, <1>5, <3>2, Zenon
    <3> QED
      BY <1>5, <3>1, <3>3
  <2>2. b + 1 \in Nat /\ b + 1 >= 1 /\ b + 1 + Len(f) - 1 <= Len(c)
    BY <1>4, <1>5
  <2> QED
    BY <2>1, <2>2, FormRead DEF n
<1>7. Width(c, v) = Len(g) /\ Readable(c, v) /\ Length(c, v) = l
  <2>1. \A k \in 1 .. Len(g) : c[v + k - 1] = g[k]
    <3> SUFFICES ASSUME NEW k \in 1 .. Len(g) PROVE c[v + k - 1] = g[k]
      OBVIOUS
    <3>1. v + k - 1 = b + (Len(f) + k) /\ Len(f) + k \in 1 .. Len(x)
      BY <1>4, <1>5
    <3>2. c[b + (Len(f) + k)] = x[Len(f) + k]
      BY <3>1
    <3> QED
      BY <1>5, <3>1, <3>2
  <2>2. v \in Nat /\ v >= 1 /\ v + Len(g) - 1 <= Len(c)
    BY <1>4, <1>5
  <2> HIDE DEF v
  <2> QED
    BY <2>1, <2>2, FormRead DEF l
<1>8. end - 1 = b + Len(x)
  BY <1>4, <1>5
<1>9. SubSeq(c, name, value - 1) = s
  <2>1. \A k \in 1 .. n : c[name + k - 1] = s[k] /\ name + k - 1 \in 1 .. Len(c)
    <3> SUFFICES ASSUME NEW k \in 1 .. n
                 PROVE  c[name + k - 1] = s[k] /\ name + k - 1 \in 1 .. Len(c)
      OBVIOUS
    <3>1. /\ name + k - 1 = b + (Len(f) + Len(g) + k) /\ name + k - 1 \in 1 .. Len(c)
          /\ Len(f) + Len(g) + k \in 1 .. Len(x)
      BY <1>4, <1>5
    <3>2. c[b + (Len(f) + Len(g) + k)] = x[Len(f) + Len(g) + k]
      BY <3>1
    <3> QED
      BY <1>5, <3>1, <3>2
  <2>2. name \in Nat /\ name >= 1 /\ value = name + n /\ name + n - 1 <= Len(c)
    BY <1>4, <1>5
  <2> HIDE DEF name, value
  <2> QED
    BY <1>4, <2>1, <2>2, PieceIs DEF n
<1>10. SubSeq(c, value, end - 1) = t
  <2>1. \A k \in 1 .. l : c[value + k - 1] = t[k] /\ value + k - 1 \in 1 .. Len(c)
    <3> SUFFICES ASSUME NEW k \in 1 .. l
                 PROVE  c[value + k - 1] = t[k] /\ value + k - 1 \in 1 .. Len(c)
      OBVIOUS
    <3>1. /\ value + k - 1 = b + (Len(f) + Len(g) + n + k)
          /\ value + k - 1 \in 1 .. Len(c)
          /\ Len(f) + Len(g) + n + k \in 1 .. Len(x)
      BY <1>4, <1>5
    <3>2. c[b + (Len(f) + Len(g) + n + k)] = x[Len(f) + Len(g) + n + k]
      BY <3>1
    <3> QED
      BY <1>5, <3>1, <3>2
  <2>2. value \in Nat /\ value >= 1 /\ end = value + l /\ value + l - 1 <= Len(c)
    BY <1>4, <1>5
  <2> HIDE DEF value, end
  <2> QED
    BY <1>4, <2>1, <2>2, PieceIs DEF l
<1> QED
  BY <1>6, <1>7, <1>8, <1>9, <1>10 DEF Reads

LEMMA PairRead ==
  ASSUME NEW p \in Pair, NEW x \in Encodings(p), NEW c \in Seq(Nat), NEW b \in Nat,
         b + Len(x) <= Len(c), \A k \in 1 .. Len(x) : c[b + k] = x[k]
  PROVE  Reads(c, b, b + Len(x), p.name, p.value)
<1>1. PICK f \in Forms(p.name), g \in Forms(p.value) :
        x = f \o g \o p.name \o p.value
  BY EncodingParts
<1>2. p.name \in Seq(Nat) /\ p.value \in Seq(Nat)
  BY EncodingParts
<1> QED
  BY <1>1, <1>2, LengthsRead, Zenon

-----------------------------------------------------------------------------
(* The contents of a request: pairs that lie one behind the other in the   *)
(* contents of two PARAMS records, and a body behind them.                 *)

Stream == records[1].content \o records[2].content
End(i) == IF i = 0 THEN 0 ELSE ends[i]

(* The bytes of x are those of the stream from a to b.                     *)
Lies(x, a, b) ==
  /\ b = a + Len(x) /\ b <= Len(Stream)
  /\ \A k \in 1 .. Len(x) : Stream[a + k] = x[k]

Laid ==
  /\ pairs \in Seq(Pair) /\ ends \in Seq(Nat) /\ Len(ends) = Len(pairs)
  /\ Len(records) \in Nat /\ Len(records) >= 3
  /\ records[1].content \in Seq(Nat) /\ records[2].content \in Seq(Nat)
  /\ records[1].type = "PARAMS" /\ records[2].type = "PARAMS"
  /\ \A k \in 3 .. Len(records) : records[k].type = "STDIN"
  /\ End(Len(pairs)) = Len(Stream)
  /\ \A i \in 1 .. Len(pairs) :
       \E x \in Encodings(pairs[i]) : Lies(x, End(i - 1), End(i))

(* Whole pairs are decoded, and what they leave is held.                   *)
Decoded ==
  /\ ~ overrun
  /\ rec \in 1 .. Len(records) + 1 /\ begin \in Nat
  /\ rec <= 2 => begin <= Len(records[rec].content)
  /\ \E n \in 0 .. Len(pairs) : Position = End(n) /\ m_params = Meant(n)

LEMMA EndsNext ==
  ASSUME Laid, NEW i \in 1 .. Len(pairs)
  PROVE  End(i - 1) \in Nat /\ End(i) \in Nat /\ End(i - 1) < End(i)
<1>1. Len(pairs) \in Nat /\ pairs[i] \in Pair
  BY ElementOfSeq DEF Laid
<1>2. End(i) \in Nat
  BY <1>1 DEF Laid, End
<1>3. End(i - 1) \in Nat
  <2>1. CASE i = 1
    BY <2>1 DEF End
  <2>2. CASE i # 1
    <3>1. i - 1 \in 1 .. Len(pairs)
      BY <1>1, <2>2
    <3> QED
      BY <3>1 DEF Laid, End
  <2> QED
    BY <2>1, <2>2
<1>4. PICK x \in Encodings(pairs[i]) : Lies(x, End(i - 1), End(i))
  BY DEF Laid
<1>5. Len(x) \in Nat /\ Len(x) > 0
  BY <1>1, EncodingType, Zenon
<1>6. End(i) = End(i - 1) + Len(x)
  BY <1>4 DEF Lies
<1> QED
  BY <1>2, <1>3, <1>5, <1>6

LEMMA EndsOrdered ==
  ASSUME Laid, NEW i \in 0 .. Len(pairs), NEW j \in 0 .. Len(pairs)
  PROVE  End(j) \in Nat /\ (i < j <=> End(i) < End(j))
<1>1. Len(pairs) \in Nat
  BY DEF Laid
<1>2. \A k \in 0 .. Len(pairs) : End(k) \in Nat
  BY <1>1 DEF Laid, End
<1>3. ASSUME NEW a \in 0 .. Len(pairs), NEW b \in 0 .. Len(pairs), a < b
      PROVE  End(a) < End(b)
  <2> DEFINE Bad == {k \in a + 1 .. Len(pairs) : ~ (End(a) < End(k))}
  <2>1. ASSUME NEW k \in Bad PROVE \E l \in Bad : l < k
    <3>1. k \in 1 .. Len(pairs) /\ k - 1 \in a .. Len(pairs) /\ k - 1 < k
      BY <1>1
    <3>2. End(k - 1) < End(k) /\ End(k - 1) \in Nat /\ End(k) \in Nat
      BY <3>1, EndsNext
    <3>3. ~ (End(a) < End(k)) /\ End(a) \in Nat
      BY <1>2
    <3>4. ~ (End(a) < End(k - 1)) /\ k - 1 # a
      BY <3>2, <3>3
    <3>5. k - 1 \in a + 1 .. Len(pairs)
      BY <1>1, <3>1, <3>4
    <3> QED
      BY <3>1, <3>4, <3>5
  <2>2. Bad = {}
    <3>1. Bad \in SUBSET Nat
      BY <1>1
    <3> HIDE DEF Bad
    <3> QED
      BY <2>1, <3>1, NoneBelow
  <2>3. b \in a + 1 .. Len(pairs)
    BY <1>1, <1>3
  <2> QED
    BY <2>2, <2>3
<1>4. i < j => End(i) < End(j)
  BY <1>3
<1>5. i = j => ~ (End(i) < End(j))
  BY <1>2
<1>6. j < i => ~ (End(i) < End(j))
  <2>1. j < i => End(j) < End(i)
    BY <1>3
  <2> QED
    BY <1>2, <2>1
<1>7. i < j \/ i = j \/ j < i
  BY <1>1
<1> QED
  BY <1>2, <1>4, <1>5, <1>6, <1>7

LEMMA Counted ==
  ASSUME Laid, NEW n \in 0 .. Len(pairs)
  PROVE  Cardinality({i \in 1 .. Len(ends) : ends[i] <= End(n)}) = n
<1>1. Len(pairs) \in Nat /\ Len(ends) = Len(pairs)
  BY DEF Laid
<1>2. ASSUME NEW i \in 1 .. Len(ends) PROVE ends[i] <= End(n) <=> i <= n
  <2>1. i \in 0 .. Len(pairs) /\ End(i) = ends[i]
    BY <1>1 DEF End
  <2>2. End(i) \in Nat /\ End(n) \in Nat /\ (n < i <=> End(n) < End(i))
    BY <2>1, EndsOrdered
  <2> QED
    BY <1>1, <2>1, <2>2
<1>3. {i \in 1 .. Len(ends) : ends[i] <= End(n)} = 1 .. n
  <2>1. \A i : i \in 1 .. n <=> i \in 1 .. Len(ends) /\ i <= n
    BY <1>1
  <2> QED
    BY <1>2, <2>1
<1>4. Cardinality(1 .. n) = n
  <2>1. n \in Nat /\ 1 \in Int /\ n \in Int /\ (n = 0 => 1 > n) /\ n - 1 + 1 = n
    BY <1>1
  <2> QED
    BY <2>1, FS_Interval
<1> QED
  BY <1>3, <1>4

-----------------------------------------------------------------------------
(* The parameters pairs leave.                                             *)

IsLast(i, n, name) ==
  /\ i \in 1 .. n /\ pairs[i].name = name
  /\ \A j \in i + 1 .. n : pairs[j].name # name

LEMMA LastUnique ==
  ASSUME NEW n \in Nat, NEW name, NEW i, NEW j, IsLast(i, n, name), IsLast(j, n, name)
  PROVE  i = j
<1>1. i < j \/ j < i \/ i = j
  BY DEF IsLast
<1> QED
  BY <1>1 DEF IsLast

LEMMA LastMeant ==
  ASSUME NEW n \in Nat, NEW name, NEW i, IsLast(i, n, name)
  PROVE  name \in DOMAIN Meant(n) /\ Meant(n)[name] = pairs[i].value
<1>1. i \in 1 .. n /\ pairs[i].name = name
  BY DEF IsLast
<1>2. name \in {pairs[k].name : k \in 1 .. n}
  BY <1>1
<1> DEFINE c == CHOOSE k \in 1 .. n :
                  /\ pairs[k].name = name
                  /\ \A j \in k + 1 .. n : pairs[j].name # name
<1>3. Meant(n)[name] = pairs[c].value
  BY <1>2 DEF Meant
<1>4. IsLast(c, n, name)
  BY DEF IsLast
<1> HIDE DEF c
<1>5. c = i
  BY <1>4, LastUnique
<1> QED
  BY <1>2, <1>3, <1>5 DEF Meant

LEMMA LastExists ==
  ASSUME NEW n \in Nat, NEW name \in DOMAIN Meant(n)
  PROVE  \E i : IsLast(i, n, name)
<1> DEFINE Left == {n - i : i \in {k \in 1 .. n : pairs[k].name = name}}
<1>1. PICK k \in 1 .. n : pairs[k].name = name
  BY DEF Meant
<1>2. Left \in SUBSET Nat /\ n - k \in Left
  BY <1>1
<1>3. \E l \in Left : \A o \in Left : l <= o
  <2> HIDE DEF Left
  <2> QED
    BY <1>2, LeastExists
<1>4. PICK i \in 1 .. n : pairs[i].name = name /\ \A o \in Left : n - i <= o
  BY <1>3
<1>5. ASSUME NEW j \in i + 1 .. n, pairs[j].name = name PROVE FALSE
  <2>1. j \in 1 .. n /\ n - j \in Left
    BY <1>5
  <2>2. n - i <= n - j
    BY <1>4, <2>1
  <2> QED
    BY <2>2
<1> QED
  BY <1>4, <1>5 DEF IsLast

(* One more pair: what m_setup_parameters assigns.                         *)
LEMMA MeantNext ==
  ASSUME NEW n \in Nat
  PROVE  LET key == pairs[n + 1].name
         IN  Meant(n + 1) = [k \in DOMAIN Meant(n) \cup {key} |->
                               IF k = key THEN pairs[n + 1].value ELSE Meant(n)[k]]
<1> DEFINE key == pairs[n + 1].name
           new == [k \in DOMAIN Meant(n) \cup {key} |->
                     IF k = key THEN pairs[n + 1].value ELSE Meant(n)[k]]
<1>1. DOMAIN Meant(n + 1) = DOMAIN Meant(n) \cup {key}
  <2>1. DOMAIN Meant(n + 1) = {pairs[i].name : i \in 1 .. n + 1}
    BY DEF Meant
  <2>2. DOMAIN Meant(n) = {pairs[i].name : i \in 1 .. n}
    BY DEF Meant
  <2>3. \A i : i \in 1 .. n + 1 <=> i \in 1 .. n \/ i = n + 1
    OBVIOUS
  <2> QED
    BY <2>1, <2>2, <2>3
<1>2. ASSUME NEW k \in DOMAIN Meant(n) \cup {key} PROVE Meant(n + 1)[k] = new[k]
  <2>1. CASE k = key
    <3>1. IsLast(n + 1, n + 1, key)
      BY DEF IsLast
    <3>2. n + 1 \in Nat
      OBVIOUS
    <3> QED
      BY <2>1, <3>1, <3>2, LastMeant
  <2>2. CASE k # key
    <3>1. PICK i : IsLast(i, n, k)
      BY <2>2, LastExists
    <3>2. IsLast(i, n + 1, k)
      BY <2>2, <3>1 DEF IsLast
    <3>3. n + 1 \in Nat
      OBVIOUS
    <3>4. Meant(n)[k] = pairs[i].value
      BY <3>1, LastMeant
    <3>5. Meant(n + 1)[k] = pairs[i].value
      BY <3>2, <3>3, LastMeant
    <3> QED
      BY <2>2, <3>4, <3>5
  <2> QED
    BY <2>1, <2>2
<1>3. Meant(n + 1) = [k \in DOMAIN Meant(n + 1) |-> Meant(n + 1)[k]]
  BY DEF Meant
<1> QED
  BY <1>1, <1>2, <1>3

LEMMA MeantType ==
  ASSUME pairs \in Seq(Pair), NEW name \in DOMAIN Meant(Len(pairs))
  PROVE  Meant(Len(pairs))[name] \in Seq(Nat)
<1>1. Len(pairs) \in Nat
  OBVIOUS
<1>2. PICK i : IsLast(i, Len(pairs), name)
  BY <1>1, LastExists
<1>3. i \in 1 .. Len(pairs)
  BY <1>2 DEF IsLast
<1>4. pairs[i] \in Pair
  BY <1>3, ElementOfSeq
<1>5. pairs[i].value \in Seq(Nat)
  BY <1>4 DEF Pair
<1> QED
  BY <1>1, <1>2, <1>5, LastMeant

LEMMA MeantNothing == Meant(0) = NoParams
<1>1. {pairs[i].name : i \in 1 .. 0} = {}
  OBVIOUS
<1> QED
  BY <1>1 DEF Meant, NoParams

-----------------------------------------------------------------------------
(* Decoding, pair by pair.                                                 *)

LEMMA StreamIs ==
  ASSUME Laid
  PROVE  /\ Len(records[1].content) \in Nat /\ Len(records[2].content) \in Nat
         /\ Len(Stream) = Len(records[1].content) + Len(records[2].content)
         /\ \A k \in 1 .. Len(records[1].content) : Stream[k] = records[1].content[k]
         /\ \A k \in 1 .. Len(records[2].content) :
              Stream[Len(records[1].content) + k] = records[2].content[k]
<1> DEFINE s == records[1].content
           t == records[2].content
           u == Len(s)
           w == Len(t)
<1>1. s \in Seq(Nat) /\ t \in Seq(Nat) /\ Stream = s \o t
  BY DEF Laid, Stream
<1> HIDE DEF s, t
<1>2. /\ Len(Stream) = u + w
      /\ \A k \in 1 .. u + w : Stream[k] = IF k <= u THEN s[k] ELSE t[k - u]
  BY ONLY <1>1, ConcatProperties
<1>3. u \in Nat /\ w \in Nat
  BY <1>1
<1> HIDE DEF u, w
<1>4. \A k \in 1 .. u : Stream[k] = s[k]
  BY <1>2, <1>3
<1>5. ASSUME NEW k \in 1 .. w PROVE Stream[u + k] = t[k]
  <2>1. u + k \in 1 .. u + w /\ ~ (u + k <= u) /\ (u + k) - u = k
    BY <1>3
  <2> QED
    BY <1>2, <2>1
<1> QED
  BY <1>2, <1>3, <1>4, <1>5 DEF s, t, u, w

(* A record that is not read to its end goes on with a whole pair.         *)
LEMMA PairFollows ==
  ASSUME Laid, WholePairs, Decoded, rec \in {1, 2},
         begin # Len(records[rec].content),
         NEW n \in 0 .. Len(pairs), Position = End(n)
  PROVE  /\ n + 1 \in 1 .. Len(pairs)
         /\ \E x \in Encodings(pairs[n + 1]) :
              /\ begin + Len(x) <= Len(records[rec].content)
              /\ \A k \in 1 .. Len(x) : records[rec].content[begin + k] = x[k]
              /\ End(n + 1) = End(n) + Len(x)
<1> DEFINE u == Len(records[1].content)
           w == Len(records[2].content)
<1>1. u \in Nat /\ w \in Nat /\ Len(Stream) = u + w /\ Len(pairs) \in Nat
  <2>1. Len(pairs) \in Nat
    BY DEF Laid
  <2> QED
    BY <2>1, StreamIs, Zenon
<1>2. begin \in Nat /\ begin < Len(records[rec].content)
  BY <1>1 DEF Decoded
<1>3. PICK j \in 0 .. Len(pairs) : u = End(j)
  <2>1. u = 0 \/ u \in ToSet(ends)
    BY DEF WholePairs, Borders
  <2>2. CASE u = 0
    BY <1>1, <2>2 DEF End
  <2>3. CASE u \in ToSet(ends)
    <3>1. PICK j \in DOMAIN ends : ends[j] = u
      BY <2>3 DEF ToSet
    <3>2. j \in 1 .. Len(pairs)
      BY <3>1, SMTT(30) DEF Laid
    <3> QED
      BY <1>1, <3>1, <3>2 DEF End
  <2> QED
    BY <2>1, <2>2, <2>3
<1>4. Len(pairs) \in 0 .. Len(pairs) /\ End(Len(pairs)) = u + w
  BY <1>1 DEF Laid
(* Where the record begins in the stream, and where it ends.               *)
<1> DEFINE off == IF rec = 1 THEN 0 ELSE u
           len == Len(records[rec].content)
           to == IF rec = 1 THEN j ELSE Len(pairs)
<1>5. /\ off \in Nat /\ len \in Nat /\ to \in 0 .. Len(pairs) /\ End(to) = off + len
      /\ Position = off + begin /\ off + len <= Len(Stream)
      /\ \A k \in 1 .. len : Stream[off + k] = records[rec].content[k]
  <2>1. CASE rec = 1
    <3>1. off = 0 /\ len = u /\ to = j /\ Position = begin
      BY <2>1 DEF Position
    <3>2. \A k \in 1 .. u : Stream[0 + k] = records[1].content[k]
      <4>1. \A k \in 1 .. u : Stream[k] = records[1].content[k]
        BY StreamIs
      <4>2. \A k \in 1 .. u : 0 + k = k
        OBVIOUS
      <4> QED
        BY <4>1, <4>2
    <3> HIDE DEF u, w, off, len, to
    <3> QED
      BY <1>1, <1>2, <1>3, <2>1, <3>1, <3>2 DEF u
  <2>2. CASE rec = 2
    <3>1. off = u /\ len = w /\ to = Len(pairs) /\ Position = u + begin
      BY <2>2 DEF Position
    <3>2. \A k \in 1 .. w : Stream[u + k] = records[2].content[k]
      BY StreamIs
    <3> HIDE DEF u, w, off, len, to
    <3> QED
      BY <1>1, <1>2, <1>4, <2>2, <3>1, <3>2 DEF w
  <2> QED
    BY <2>1, <2>2
<1> HIDE DEF u, w, off, len, to
<1>6. End(n) < End(to)
  BY <1>2, <1>5 DEF len
<1>7. n < to
  BY <1>5, <1>6, EndsOrdered
<1>8. n + 1 \in 1 .. Len(pairs) /\ n + 1 \in 0 .. Len(pairs) /\ (n + 1) - 1 = n
      /\ (n + 1 = to \/ n + 1 < to)
  BY <1>1, <1>5, <1>7
<1>9. End(n + 1) <= End(to)
  <2>1. n + 1 < to => End(n + 1) < End(to)
    BY <1>5, <1>8, EndsOrdered
  <2>2. End(n + 1) \in Nat /\ End(to) \in Nat
    BY <1>5, <1>8, EndsOrdered
  <2> QED
    BY <1>8, <2>1, <2>2
<1>10. PICK x \in Encodings(pairs[n + 1]) : Lies(x, End(n), End(n + 1))
  <2>1. \E x \in Encodings(pairs[n + 1]) : Lies(x, End((n + 1) - 1), End(n + 1))
    BY <1>8 DEF Laid
  <2> QED
    BY <1>8, <2>1
<1>11. Len(x) \in Nat
  <2>1. pairs[n + 1] \in Pair
    BY <1>8, ElementOfSeq DEF Laid
  <2> QED
    BY <2>1, EncodingType, Zenon
<1>12. End(n + 1) = End(n) + Len(x) /\ End(n) = off + begin
  BY <1>5, <1>10 DEF Lies
<1>13. begin + Len(x) <= len
  BY <1>2, <1>5, <1>9, <1>11, <1>12
<1>14. ASSUME NEW k \in 1 .. Len(x) PROVE records[rec].content[begin + k] = x[k]
  <2>1. begin + k \in 1 .. len /\ off + (begin + k) = (off + begin) + k
    <3>1. \A l \in Nat : \A i \in 1 .. l :
             begin + l <= len => begin + i \in 1 .. len /\ off + (begin + i) = (off + begin) + i
      <4>1. begin \in Nat /\ len \in Nat /\ off \in Nat
        BY <1>2, <1>5
      <4> QED
        BY ONLY <4>1
    <3> QED
      BY <1>11, <1>13, <3>1
  <2>2. Stream[End(n) + k] = x[k]
    BY <1>10 DEF Lies
  <2>3. Stream[off + (begin + k)] = records[rec].content[begin + k]
    BY <1>5, <2>1
  <2> QED
    BY <1>12, <2>1, <2>2, <2>3
<1> QED
  BY <1>8, <1>12, <1>13, <1>14 DEF len

LEMMA LaidStays ==
  ASSUME Laid, pairs' = pairs, records' = records, ends' = ends
  PROVE  Laid'
<1>1. Stream' = Stream
  BY DEF Stream
<1>2. \A i : End(i)' = End(i)
  BY DEF End
<1>3. ASSUME NEW i \in 1 .. Len(pairs), NEW x \in Encodings(pairs[i])
      PROVE  Lies(x, End(i - 1), End(i))' <=> Lies(x, End(i - 1), End(i))
  BY <1>1, <1>2 DEF Lies
<1>4. \A i \in 1 .. Len(pairs') :
        \E x \in Encodings(pairs'[i]) : Lies(x, End(i - 1), End(i))'
  BY <1>3 DEF Laid
<1>5. End(Len(pairs))' = Len(Stream')
  BY <1>1 DEF Laid, End
<1> QED
  BY <1>4, <1>5 DEF Laid

LEMMA DecodedStays ==
  ASSUME Decoded, pairs' = pairs, records' = records, ends' = ends, rec' = rec,
         begin' = begin, m_params' = m_params, overrun' = overrun
  PROVE  Decoded'
<1>1. PICK n \in 0 .. Len(pairs) : Position = End(n) /\ m_params = Meant(n)
  BY DEF Decoded
<1>2. Position' = Position
  BY DEF Position
<1>3. End(n)' = End(n) /\ Meant(n)' = Meant(n)
  BY DEF End, Meant
<1>4. \E k \in 0 .. Len(pairs') : Position' = End(k)' /\ m_params' = Meant(k)'
  BY <1>1, <1>2, <1>3
<1> QED
  BY <1>4 DEF Decoded

LEMMA PairDecoded ==
  ASSUME Laid, WholePairs, Decoded, ends' = ends, m_setup_parameters
  PROVE  Decoded'
<1>1. PICK n \in 0 .. Len(pairs) : Position = End(n) /\ m_params = Meant(n)
  BY DEF Decoded
<1>2. /\ rec <= Len(records) /\ records[rec].type = "PARAMS"
      /\ begin # Len(records[rec].content)
      /\ pairs' = pairs /\ records' = records /\ rec' = rec
  BY DEF m_setup_parameters
<1>3. rec \in {1, 2} /\ begin \in Nat
  BY <1>2 DEF Laid, Decoded
<1> DEFINE c == records[rec].content
<1>4. n + 1 \in 1 .. Len(pairs)
  BY <1>1, <1>2, <1>3, PairFollows
<1>5. PICK x \in Encodings(pairs[n + 1]) :
        /\ begin + Len(x) <= Len(c)
        /\ \A k \in 1 .. Len(x) : c[begin + k] = x[k]
        /\ End(n + 1) = End(n) + Len(x)
  BY <1>1, <1>2, <1>3, PairFollows
<1>6. pairs[n + 1] \in Pair /\ Len(x) \in Nat /\ c \in Seq(Nat) /\ n \in Nat
  <2>1. pairs[n + 1] \in Pair
    BY <1>4, ElementOfSeq DEF Laid
  <2>2. Len(x) \in Nat
    BY <2>1, EncodingType, Zenon
  <2> QED
    BY <1>3, <2>1, <2>2 DEF Laid
<1> DEFINE key == pairs[n + 1].name
           value == pairs[n + 1].value
<1>7. Reads(c, begin, begin + Len(x), key, value)
  BY <1>3, <1>5, <1>6, PairRead, Zenon
<1> HIDE DEF c, key, value
<1>8. /\ begin' = begin + Len(x)
      /\ m_params' = [k \in DOMAIN m_params \cup {key} |->
                        IF k = key THEN value ELSE m_params[k]]
      /\ overrun' = overrun
  BY <1>5, <1>7 DEF Reads, m_setup_parameters, c
<1>9. m_params' = Meant(n + 1)
  BY <1>1, <1>6, <1>8, MeantNext, Zenon DEF key, value
<1>10. Position' = End(n + 1)
  <2>1. Len(records[1].content) \in Nat
    BY StreamIs
  <2>2. Position' = Position + Len(x)
    <3>1. CASE rec = 1
      <4>1. Position = begin /\ Position' = begin'
        BY <1>2, <3>1 DEF Position
      <4> QED
        BY <1>8, <4>1
    <3>2. CASE rec = 2
      <4> DEFINE u == Len(records[1].content)
      <4>1. Position = u + begin /\ Position' = u + begin'
        BY <1>2, <3>2 DEF Position
      <4> HIDE DEF u
      <4>2. \A y, z \in Nat : u \in Nat => u + (y + z) = (u + y) + z
        OBVIOUS
      <4> QED
        BY <1>3, <1>6, <1>8, <2>1, <4>1, <4>2 DEF u
    <3> QED
      BY <1>3, <3>1, <3>2
  <2> QED
    BY <1>1, <1>5, <2>2
<1>11. End(n + 1)' = End(n + 1) /\ Meant(n + 1)' = Meant(n + 1)
  BY <1>2 DEF End, Meant
<1>12. n + 1 \in 0 .. Len(pairs)
  BY <1>4, <1>6 DEF Laid
<1>13. \E k \in 0 .. Len(pairs') : Position' = End(k)' /\ m_params' = Meant(k)'
  BY <1>2, <1>9, <1>10, <1>11, <1>12
<1>14. begin' \in Nat /\ begin' <= Len(records'[rec'].content)
  BY <1>2, <1>3, <1>5, <1>6, <1>8 DEF c
<1> QED
  BY <1>2, <1>8, <1>13, <1>14 DEF Decoded

LEMMA RecordDecoded ==
  ASSUME Laid, Decoded, ends' = ends, NextRecord
  PROVE  Decoded'
<1>1. PICK n \in 0 .. Len(pairs) : Position = End(n) /\ m_params = Meant(n)
  BY DEF Decoded
<1>2. /\ rec <= Len(records) /\ pairs' = pairs /\ records' = records
      /\ rec' = rec + 1 /\ begin' = 0
      /\ records[rec].type = "PARAMS" => begin = Len(records[rec].content)
      /\ m_params' = m_params /\ overrun' = overrun
  BY DEF NextRecord, m_setup_stdin
<1>3. /\ Len(records[1].content) \in Nat /\ Len(records[2].content) \in Nat
      /\ Len(records) \in Nat /\ rec \in 1 .. Len(records)
  BY <1>2, StreamIs, SMTT(30) DEF Laid, Decoded
<1>4. Position' = Position
  <2> DEFINE u == Len(records[1].content)
             w == Len(records[2].content)
  <2>1. CASE rec = 1
    <3>1. Position = u /\ Position' = u + 0
      BY <1>2, <2>1 DEF Position, Laid
    <3> QED
      BY <1>3, <3>1
  <2>2. CASE rec = 2
    <3>1. begin = w /\ rec' = 3
      BY <1>2, <2>2 DEF Laid
    <3>2. Position = u + begin /\ Position' = u + w
      BY <1>2, <2>2, <3>1 DEF Position
    <3>3. Position = u + w /\ Position' = u + w
      BY <3>1, <3>2
    <3> QED
      BY <3>3
  <2>3. CASE rec > 2
    <3>1. rec # 1 /\ rec # 2 /\ rec + 1 # 1 /\ rec + 1 # 2
      BY <1>3, <2>3
    <3>2. Position = u + w /\ Position' = u + w
      BY <1>2, <3>1 DEF Position
    <3> QED
      BY <3>2
  <2> QED
    BY <1>3, <2>1, <2>2, <2>3
<1>5. Position' = End(n)' /\ m_params' = Meant(n)'
  BY <1>1, <1>2, <1>4 DEF End, Meant
<1>6. rec' <= 2 => begin' <= Len(records'[rec'].content)
  <2>1. rec' <= 2 => rec' = 2
    BY <1>2, <1>3
  <2> QED
    BY <1>2, <1>3, <2>1
<1>7. rec' \in 1 .. Len(records') + 1 /\ begin' \in Nat
  BY <1>2, <1>3
<1> QED
  BY <1>1, <1>2, <1>5, <1>6, <1>7 DEF Decoded

(* Everything is decoded when the last record is done.                     *)
LEMMA AllDecoded ==
  ASSUME Laid, Decoded, rec > Len(records)
  PROVE  m_params = Meant(Len(pairs))
<1>1. PICK n \in 0 .. Len(pairs) : Position = End(n) /\ m_params = Meant(n)
  BY DEF Decoded
<1>2. Len(pairs) \in Nat /\ Len(records) \in Nat /\ Len(records) >= 3 /\ rec \in Nat
  BY DEF Laid, Decoded
<1>3. Position = Len(Stream)
  <2>1. rec # 1 /\ rec # 2
    BY <1>2
  <2>2. Position = Len(records[1].content) + Len(records[2].content)
    BY <2>1 DEF Position
  <2> QED
    BY <2>2, StreamIs, Zenon
<1>4. End(n) = End(Len(pairs)) /\ Len(pairs) \in 0 .. Len(pairs)
  BY <1>1, <1>2, <1>3 DEF Laid
<1>5. End(n) \in Nat /\ ~ (n < Len(pairs))
  BY <1>4, EndsOrdered
<1> QED
  BY <1>1, <1>2, <1>5

-----------------------------------------------------------------------------
(* The contents of the model's requests are laid out so.                   *)

LEMMA BodyParts ==
  ASSUME NEW body \in Bodies
  PROVE  /\ body \in Seq(Part)
         /\ \A k \in 1 .. Len(body) : body[k].type = "STDIN" /\ body[k].content # <<>>
<1> DEFINE a == Stdin(<<1, 2>>)
           b == Stdin(<<1>>)
           c == Stdin(<<2>>)
<1>1. /\ a \in Part /\ a.type = "STDIN" /\ a.content # <<>>
      /\ b \in Part /\ b.type = "STDIN" /\ b.content # <<>>
      /\ c \in Part /\ c.type = "STDIN" /\ c.content # <<>>
  BY DEF Stdin, Part
<1>2. body \in {<<>>, <<a>>, <<b, c>>}
  BY DEF Bodies
<1> HIDE DEF a, b, c
<1>3. CASE body = <<>>
  BY <1>3
<1>4. CASE body = <<a>>
  <2>1. body \in Seq(Part) /\ Len(body) = 1 /\ body[1] = a
    BY <1>1, <1>4
  <2> QED
    BY <1>1, <2>1
<1>5. CASE body = <<b, c>>
  <2>1. body \in Seq(Part) /\ Len(body) = 2 /\ body[1] = b /\ body[2] = c
    BY <1>1, <1>5
  <2> QED
    BY <1>1, <2>1
<1> QED
  BY <1>2, <1>3, <1>4, <1>5

Sent(a, b, body) == <<Params(a), Params(b)>> \o body \o <<Stdin(<<>>)>>

AreSent(s, a, b) ==
  /\ Ended(s) /\ Len(s) \in Nat /\ Len(s) >= 3
  /\ s[1] = Params(a) /\ s[2] = Params(b)
  /\ \A k \in 3 .. Len(s) : s[k].type = "STDIN"

LEMMA RecordsEnded ==
  ASSUME NEW a \in Seq(Nat), NEW b \in Seq(Nat), NEW body \in Bodies,
         NEW s, s = Sent(a, b, body)
  PROVE  AreSent(s, a, b)
<1> DEFINE p == Params(a)
           q == Params(b)
           h == <<p, q>>
           t == h \o body
           e == Stdin(<<>>)
<1>1. /\ p \in Part /\ p.type = "PARAMS" /\ q \in Part /\ q.type = "PARAMS"
      /\ e \in Part /\ e.type = "STDIN" /\ e.content = <<>>
  BY DEF Params, Stdin, Part
<1>2. s = t \o <<e>>
  BY DEF Sent
<1> HIDE DEF p, q, e
<1>3. h \in Seq(Part) /\ Len(h) = 2 /\ h[1] = p /\ h[2] = q
  BY <1>1
<1>4. /\ body \in Seq(Part) /\ Len(body) \in Nat
      /\ \A k \in 1 .. Len(body) : body[k].type = "STDIN" /\ body[k].content # <<>>
  BY BodyParts
<1> HIDE DEF h
<1>5. /\ t \in Seq(Part) /\ Len(t) = 2 + Len(body)
      /\ \A k \in 1 .. 2 + Len(body) : t[k] = IF k <= 2 THEN h[k] ELSE body[k - 2]
  <2>1. h \in Seq(Part) /\ body \in Seq(Part)
    BY <1>3, <1>4
  <2>2. /\ t \in Seq(Part) /\ Len(t) = Len(h) + Len(body)
        /\ \A k \in 1 .. Len(h) + Len(body) :
             t[k] = IF k <= Len(h) THEN h[k] ELSE body[k - Len(h)]
    BY ONLY <2>1, ConcatProperties
  <2> QED
    BY <1>3, <2>2, Zenon
<1> HIDE DEF t
<1>6. /\ s \in Seq(Part) /\ Len(s) = Len(t) + 1 /\ s[Len(t) + 1] = e
      /\ \A k \in 1 .. Len(t) : s[k] = t[k]
  BY ONLY <1>1, <1>2, <1>5, OneBehind
<1> DEFINE n == Len(body)
<1>7. /\ s \in Seq(Part) /\ n \in Nat /\ Len(s) = n + 3 /\ s[n + 3] = e
      /\ s[1] = p /\ s[2] = q
      /\ \A k \in 3 .. n + 2 : s[k] = body[k - 2]
  <2>1. n \in Nat /\ Len(t) = 2 + n
    BY <1>4, <1>5
  <2> HIDE DEF n
  <2>2. 2 + n + 1 = n + 3 /\ 1 \in 1 .. 2 + n /\ 2 \in 1 .. 2 + n
    BY <2>1
  <2>3. s[1] = t[1] /\ s[2] = t[2] /\ t[1] = h[1] /\ t[2] = h[2]
    BY <1>5, <1>6, <2>1, <2>2 DEF n
  <2>4. ASSUME NEW k \in 3 .. n + 2 PROVE s[k] = body[k - 2]
    <3>1. k \in 1 .. 2 + n /\ ~ (k <= 2)
      BY <2>1
    <3> QED
      BY <1>5, <1>6, <2>1, <3>1 DEF n
  <2> QED
    BY <1>3, <1>6, <2>1, <2>2, <2>3, <2>4
<1> HIDE DEF n
<1>8. ASSUME NEW k \in 3 .. n + 2
      PROVE  s[k].type = "STDIN" /\ s[k].content # <<>>
  <2>1. k - 2 \in 1 .. n
    BY <1>7
  <2> QED
    BY <1>4, <1>7, <2>1 DEF n
<1>9. \A k \in 3 .. n + 3 : s[k].type = "STDIN"
  <2>1. \A k \in 3 .. n + 3 : k \in 3 .. n + 2 \/ k = n + 3
    BY <1>7
  <2> QED
    BY <1>1, <1>7, <1>8, <2>1
<1>10. ASSUME NEW k \in 1 .. n + 3
       PROVE  s[k].type = "STDIN" /\ s[k].content = <<>> <=> k = n + 3
  <2>1. k = 1 \/ k = 2 \/ k \in 3 .. n + 2 \/ k = n + 3
    BY <1>7
  <2>2. k # n + 3 => k = 1 \/ k = 2 \/ k \in 3 .. n + 2
    BY <2>1
  <2>3. k = 1 \/ k = 2 => s[k].type = "PARAMS"
    BY <1>1, <1>7
  <2> QED
    BY <1>1, <1>7, <1>8, <2>2, <2>3
<1>11. Len(s) \in Nat /\ Len(s) >= 3 /\ Len(s) >= 1
  BY <1>7
<1>12. Ended(s)
  BY <1>7, <1>10, <1>11 DEF Ended
<1> QED
  BY <1>7, <1>9, <1>11, <1>12 DEF p, q, AreSent

(* What is joined so far begins what is joined in the end.                 *)
LEMMA JoinsBegin ==
  ASSUME NEW s \in Seq(Seq(Nat)), NEW v, Joins(v, s), NEW i \in 0 .. Len(s)
  PROVE  \A j \in i .. Len(s) :
           /\ Len(v[i]) <= Len(v[j])
           /\ \A k \in 1 .. Len(v[i]) : v[j][k] = v[i][k]
<1> DEFINE Bad == {j \in i .. Len(s) :
                     ~ (/\ Len(v[i]) <= Len(v[j])
                        /\ \A k \in 1 .. Len(v[i]) : v[j][k] = v[i][k])}
<1>1. Len(s) \in Nat /\ i \in Nat
  OBVIOUS
<1>2. \A j \in 0 .. Len(s) : v[j] \in Seq(Nat) /\ Len(v[j]) \in Nat
  BY SMTT(30) DEF Joins
<1>3. ASSUME NEW j \in Bad PROVE \E k \in Bad : k < j
  <2>1. Len(v[i]) \in Nat
    BY <1>2
  <2>2. j # i
    BY <2>1
  <2>3. j - 1 \in i .. Len(s) /\ j - 1 < j /\ j \in 1 .. Len(s) /\ j - 1 \in 0 .. Len(s)
    BY <1>1, <2>2
  <2>4. v[j] = v[j - 1] \o s[j] /\ s[j] \in Seq(Nat) /\ v[j - 1] \in Seq(Nat)
    BY <1>2, <2>3, ElementOfSeq DEF Joins
  <2> DEFINE a == v[j - 1]
             b == s[j]
             w == v[j]
  <2>0. w = a \o b /\ a \in Seq(Nat) /\ b \in Seq(Nat) /\ Len(w) \in Nat
    <3>1. j \in 0 .. Len(s)
      BY <2>3
    <3>2. Len(v[j]) \in Nat
      BY <1>2, <3>1
    <3> QED
      BY <2>4, <3>2, Zenon
  <2>7. Len(a) \in Nat /\ Len(a) <= Len(w) /\ \A k \in 1 .. Len(a) : w[k] = a[k]
    <3> HIDE DEF a, b, w
    <3>1. /\ Len(w) = Len(a) + Len(b)
          /\ \A k \in 1 .. Len(a) + Len(b) :
               w[k] = IF k <= Len(a) THEN a[k] ELSE b[k - Len(a)]
      BY ONLY <2>0, ConcatProperties
    <3>2. Len(a) \in Nat /\ Len(b) \in Nat
      BY <2>0
    <3> QED
      BY ONLY <3>1, <3>2
  <2>8. ~ (/\ Len(v[i]) <= Len(a)
           /\ \A k \in 1 .. Len(v[i]) : a[k] = v[i][k])
    <3> SUFFICES ASSUME Len(v[i]) <= Len(a), \A k \in 1 .. Len(v[i]) : a[k] = v[i][k]
                 PROVE  FALSE
      OBVIOUS
    <3>1. Len(v[i]) <= Len(w) /\ \A k \in 1 .. Len(v[i]) : w[k] = v[i][k]
      <4> HIDE DEF a, w
      <4> QED
        BY <2>0, <2>1, <2>7
    <3> QED
      BY <3>1
  <2> QED
    BY <2>3, <2>8
<1>4. Bad = {}
  <2>1. Bad \in SUBSET Nat
    BY <1>1
  <2> HIDE DEF Bad
  <2> QED
    BY <1>3, <2>1, NoneBelow
<1> QED
  BY <1>4

(* So each member lies where the one before it ends.                       *)
LiesAt(v, s, i) ==
  /\ Len(v[i]) = Len(v[i - 1]) + Len(s[i]) /\ Len(v[i]) <= Len(v[Len(s)])
  /\ \A k \in 1 .. Len(s[i]) : v[Len(s)][Len(v[i - 1]) + k] = s[i][k]

LEMMA JoinsLie ==
  ASSUME NEW s \in Seq(Seq(Nat)), NEW v, Joins(v, s), NEW i \in 1 .. Len(s)
  PROVE  LiesAt(v, s, i)
<1> DEFINE a == v[i - 1]
           b == s[i]
           w == v[i]
           z == v[Len(s)]
<1>1. i - 1 \in 0 .. Len(s) /\ i \in 0 .. Len(s) /\ Len(s) \in i .. Len(s)
  OBVIOUS
<1>2. w = a \o b /\ a \in Seq(Nat) /\ b \in Seq(Nat)
  BY <1>1, ElementOfSeq DEF Joins
<1>3. Len(w) <= Len(z) /\ \A k \in 1 .. Len(w) : z[k] = w[k]
  BY <1>1, JoinsBegin
<1> HIDE DEF a, b, w, z
<1>4. /\ Len(w) = Len(a) + Len(b)
      /\ \A k \in 1 .. Len(a) + Len(b) : w[k] = IF k <= Len(a) THEN a[k] ELSE b[k - Len(a)]
  BY ONLY <1>2, ConcatProperties
<1>5. Len(a) \in Nat /\ Len(b) \in Nat
  BY <1>2
<1>6. ASSUME NEW k \in 1 .. Len(b) PROVE z[Len(a) + k] = b[k]
  <2> DEFINE u == Len(a)
  <2>1. u + k \in 1 .. u + Len(b) /\ ~ (u + k <= u) /\ (u + k) - u = k
    BY <1>5
  <2>2. w[u + k] = b[k]
    BY <1>4, <2>1
  <2> QED
    BY <1>3, <1>4, <2>1, <2>2
<1> QED
  BY <1>3, <1>4, <1>6 DEF a, b, w, z, LiesAt

LEMMA ContentsLaid ==
  ASSUME NEW ps \in Seq(Pair), NEW forms \in Seq(Seq(Nat)), Len(forms) = Len(ps),
         \A i \in 1 .. Len(ps) : forms[i] \in Encodings(ps[i]),
         NEW cuts, NEW body \in Bodies, Contents(ps, forms, cuts, body)
  PROVE  Laid /\ Framing(m) /\ arrived \in Nat
<1> DEFINE stream == FlattenSeq(forms)
           n == Len(forms)
<1>1. PICK v : Joins(v, forms)
  BY JoinsExist
<1>2. n \in Nat /\ v \in [0 .. n -> Seq(Nat)] /\ v[0] = <<>>
  BY <1>1 DEF Joins
<1>3. stream = v[n]
  BY <1>1, JoinsFlatten
<1>4. stream \in Seq(Nat) /\ Len(stream) \in Nat
  <2>1. v[n] \in Seq(Nat)
    BY <1>2
  <2> HIDE DEF stream
  <2> QED
    BY <1>3, <2>1
<1>5. PICK cut \in 0 .. Len(stream) :
        records = <<Params(SubSeq(stream, 1, cut)),
                    Params(SubSeq(stream, cut + 1, Len(stream)))>>
                  \o body \o <<Stdin(<<>>)>>
  BY DEF Contents
<1>6. /\ pairs = ps /\ m = Framed(records) /\ arrived = Total(m)
      /\ ends = [i \in DOMAIN forms |-> Len(FlattenSeq(SubSeq(forms, 1, i)))]
  BY DEF Contents
<1> DEFINE a == SubSeq(stream, 1, cut)
           b == SubSeq(stream, cut + 1, Len(stream))
<1> HIDE DEF stream, n
<1>7. a \in Seq(Nat) /\ b \in Seq(Nat)
  <2>1. \A i \in 1 .. Len(stream) : stream[i] \in Nat
    BY <1>4, ElementOfSeq
  <2>2. /\ 1 \in Int /\ cut \in Int /\ cut + 1 \in Int /\ Len(stream) \in Int
        /\ \A i \in 1 .. cut : stream[i] \in Nat
        /\ \A i \in cut + 1 .. Len(stream) : stream[i] \in Nat
    BY <1>4, <2>1
  <2> QED
    BY <2>2, SubSeqProperties
<1>8. a \o b = stream
  <2>1. 1 \in 1 .. Len(stream) + 1 /\ cut \in 1 - 1 .. Len(stream)
        /\ Len(stream) \in cut .. Len(stream)
    BY <1>4
  <2>2. a \o b = SubSeq(stream, 1, Len(stream))
    BY <1>4, <2>1, ConcatAdjacentSubSeq
  <2> QED
    BY <1>4, <2>2, SubSeqFull
<1> HIDE DEF a, b
<1>9. /\ Ended(records) /\ Len(records) \in Nat /\ Len(records) >= 3
      /\ records[1] = Params(a) /\ records[2] = Params(b)
      /\ \A k \in 3 .. Len(records) : records[k].type = "STDIN"
  <2>1. records = Sent(a, b, body)
    BY <1>5 DEF a, b, Sent
  <2> QED
    BY <1>7, <2>1, RecordsEnded DEF AreSent
<1>10. /\ records[1].content = a /\ records[2].content = b
       /\ records[1].type = "PARAMS" /\ records[2].type = "PARAMS"
  BY <1>9 DEF Params
<1>11. Framing(m) /\ arrived \in Nat
  <2>1. Framing(m)
    BY <1>6, <1>9, FramedFramed
  <2>2. Len(m) \in Nat /\ Len(m) >= 2 /\ \A k \in 1 .. Len(m) + 1 : Start(m, k) \in Nat
    BY <2>1, FramedStarts
  <2>3. Len(m) + 1 \in 1 .. Len(m) + 1
    BY <2>2
  <2> QED
    BY <1>6, <2>1, <2>2, <2>3 DEF Total
<1>12. Stream = stream
  BY <1>8, <1>10 DEF Stream
<1>13. \A i \in 1 .. n : ends[i] = Len(v[i]) /\ ends[i] \in Nat
  <2> SUFFICES ASSUME NEW i \in 1 .. n PROVE ends[i] = Len(v[i]) /\ ends[i] \in Nat
    OBVIOUS
  <2>1. i \in DOMAIN forms /\ i \in 0 .. Len(forms) /\ i \in 0 .. n
    BY <1>2 DEF n
  <2>2. FlattenSeq(SubSeq(forms, 1, i)) = v[i]
    BY <1>1, <2>1, PrefixFlattens
  <2>3. ends[i] = Len(v[i])
    BY <1>6, <2>1, <2>2
  <2>4. v[i] \in Seq(Nat)
    BY <1>2, <2>1
  <2> QED
    BY <2>3, <2>4
<1>14. ends \in Seq(Nat) /\ Len(ends) = n
  <2>1. DOMAIN forms = 1 .. n
    BY DEF n
  <2>2. ends = [i \in 1 .. n |-> ends[i]] /\ DOMAIN ends = 1 .. n
    BY <1>6, <2>1
  <2>3. ends \in [1 .. n -> Nat]
    BY <1>13, <2>2
  <2>4. ends \in Seq(Nat)
    BY <1>2, <2>3, SeqDef
  <2> QED
    BY <1>2, <2>2, <2>4
<1>15. \A i \in 0 .. n : End(i) = Len(v[i])
  <2> SUFFICES ASSUME NEW i \in 0 .. n PROVE End(i) = Len(v[i])
    OBVIOUS
  <2>1. CASE i = 0
    BY <1>2, <2>1 DEF End
  <2>2. CASE i # 0
    BY <1>2, <1>13, <2>2 DEF End
  <2> QED
    BY <2>1, <2>2
<1>16. ASSUME NEW i \in 1 .. n
       PROVE  \E x \in Encodings(pairs[i]) : Lies(x, End(i - 1), End(i))
  <2>1. /\ forms[i] \in Encodings(pairs[i])
        /\ i \in 1 .. Len(forms) /\ i \in 0 .. n /\ i - 1 \in 0 .. n
    BY <1>2, <1>6 DEF n
  <2>2. /\ Len(v[i]) = Len(v[i - 1]) + Len(forms[i]) /\ Len(v[i]) <= Len(v[n])
        /\ \A k \in 1 .. Len(forms[i]) : v[n][Len(v[i - 1]) + k] = forms[i][k]
    <3>1. LiesAt(v, forms, i)
      BY <1>1, <2>1, JoinsLie
    <3> QED
      BY <3>1 DEF n, LiesAt
  <2>3. Lies(forms[i], End(i - 1), End(i))
    BY <1>3, <1>12, <1>15, <2>1, <2>2, Zenon DEF Lies
  <2> QED
    BY <2>1, <2>3
<1>17. End(Len(pairs)) = Len(Stream)
  <2>1. n \in 0 .. n /\ Len(pairs) = n
    BY <1>2, <1>6 DEF n
  <2> QED
    BY <1>3, <1>12, <1>15, <2>1
<1>18. Laid
  <2>1. Len(pairs) = n
    BY <1>6 DEF n
  <2> QED
    BY <1>6, <1>7, <1>9, <1>10, <1>14, <1>16, <1>17, <2>1 DEF Laid
<1> QED
  BY <1>11, <1>18

LEMMA FormsSeq ==
  ASSUME NEW ps \in Seq(Pair), NEW e, e = [i \in 1 .. Len(ps) |-> e[i]],
         \A i \in 1 .. Len(ps) : e[i] \in Encodings(ps[i])
  PROVE  e \in Seq(Seq(Nat)) /\ Len(e) = Len(ps)
<1>1. Len(ps) \in Nat
  OBVIOUS
<1>2. ASSUME NEW i \in 1 .. Len(ps) PROVE e[i] \in Seq(Nat)
  <2>1. ps[i] \in Pair /\ e[i] \in Encodings(ps[i])
    BY ElementOfSeq
  <2> QED
    BY <2>1, EncodingType, Zenon
<1>3. e \in [1 .. Len(ps) -> Seq(Nat)] /\ DOMAIN e = 1 .. Len(ps)
  BY <1>2
<1>4. e \in Seq(Seq(Nat))
  BY <1>1, <1>3, SeqDef
<1> QED
  BY <1>1, <1>3, <1>4

LEMMA ShortPairsType ==
  ASSUME NEW ps \in ShortPairs
  PROVE  ps \in Seq(Pair)
<1>1. Name \in Seq(Nat) /\ Query \in Seq(Nat)
  BY DEF Name, Query
<1> DEFINE S == [name : {Name, Query}, value : {<<>>, <<37, 50, 53>>}]
<1>2. ps \in Seq(S)
  BY RequestsAssumption, BoundedSeqs DEF ShortPairs
<1>3. S \subseteq Pair
  <2>1. <<>> \in Seq(Nat) /\ <<37, 50, 53>> \in Seq(Nat)
    OBVIOUS
  <2> QED
    BY <1>1, <2>1 DEF Pair
<1> HIDE DEF S
<1> QED
  BY <1>2, <1>3, SeqMonotonic

LEMMA QueriesType ==
  ASSUME NEW ps \in Queries \cup LongValue \cup Dump
  PROVE  ps \in Seq(Pair) /\ Len(ps) = 1
<1>1. Name \in Seq(Nat) /\ Query \in Seq(Nat)
  BY DEF Name, Query
<1>3. ASSUME NEW p \in Pair, ps = <<p>> PROVE ps \in Seq(Pair) /\ Len(ps) = 1
  BY <1>3
<1>4. CASE ps \in Queries
  <2>1. PICK q \in SeqsUpTo(Bytes, MaxLen) \cup SeqsUpTo(SignBytes, MaxSigns) :
          ps = <<[name |-> Query, value |-> q]>>
    BY <1>4 DEF Queries
  <2>2. q \in Seq(Bytes) \/ q \in Seq(SignBytes)
    BY RequestsAssumption, BoundedSeqs
  <2>3. q \in Seq(Nat)
    BY <2>2, RequestsAssumption, SeqMonotonic
  <2>4. [name |-> Query, value |-> q] \in Pair
    BY <1>1, <2>3 DEF Pair
  <2> QED
    BY <1>3, <2>1, <2>4
<1>5. CASE ps \in LongValue
  <2>1. PICK n \in {Name, Query} :
          ps = <<[name |-> n, value |-> [i \in 1 .. 300 |-> 65]]>>
    BY <1>5 DEF LongValue
  <2>2. [i \in 1 .. 300 |-> 65] \in Seq(Nat)
    <3>1. [i \in 1 .. 300 |-> 65] \in [1 .. 300 -> Nat] /\ 300 \in Nat
      OBVIOUS
    <3> QED
      BY <3>1, SeqDef
  <2>3. [name |-> n, value |-> [i \in 1 .. 300 |-> 65]] \in Pair
    BY <1>1, <2>2 DEF Pair
  <2> QED
    BY <1>3, <2>1, <2>3
<1>6. CASE ps \in Dump
  <2>1. ps = <<[name |-> Query, value |-> Padding \o <<37, 50, 53>>]>>
    BY <1>6 DEF Dump
  <2>2. Padding \o <<37, 50, 53>> \in Seq(Nat)
    BY DEF Padding
  <2>3. [name |-> Query, value |-> Padding \o <<37, 50, 53>>] \in Pair
    BY <1>1, <2>2 DEF Pair
  <2> QED
    BY <1>3, <2>1, <2>3
<1> QED
  BY <1>4, <1>5, <1>6

LEMMA DecodableLaid ==
  ASSUME Decodable
  PROVE  Laid /\ Framing(m) /\ arrived \in Nat
<1>1. CASE \E ps \in ShortPairs, body \in Bodies :
             \E e \in [1 .. Len(ps) -> UNION {Encodings(p) : p \in ToSet(ps)}] :
               /\ \A i \in DOMAIN e : e[i] \in Encodings(ps[i])
               /\ Contents(ps, e, Nat, body)
  <2>1. PICK ps \in ShortPairs, body \in Bodies :
             \E e \in [1 .. Len(ps) -> UNION {Encodings(p) : p \in ToSet(ps)}] :
               /\ \A i \in DOMAIN e : e[i] \in Encodings(ps[i])
               /\ Contents(ps, e, Nat, body)
    BY <1>1
  <2>2. PICK e \in [1 .. Len(ps) -> UNION {Encodings(p) : p \in ToSet(ps)}] :
               /\ \A i \in DOMAIN e : e[i] \in Encodings(ps[i])
               /\ Contents(ps, e, Nat, body)
    BY <2>1
  <2>3. ps \in Seq(Pair)
    BY ShortPairsType
  <2>4. e = [i \in 1 .. Len(ps) |-> e[i]] /\ DOMAIN e = 1 .. Len(ps)
    BY <2>2
  <2>5. \A i \in 1 .. Len(ps) : e[i] \in Encodings(ps[i])
    BY <2>2, <2>4
  <2>6. e \in Seq(Seq(Nat)) /\ Len(e) = Len(ps)
    BY <2>3, <2>4, <2>5, FormsSeq
  <2> QED
    BY <2>2, <2>3, <2>5, <2>6, ContentsLaid
<1>2. CASE \E ps \in Queries \cup LongValue \cup Dump :
             \E e \in Encodings(ps[1]) : Contents(ps, <<e>>, {0}, <<>>)
  <2>1. PICK ps \in Queries \cup LongValue \cup Dump :
             \E e \in Encodings(ps[1]) : Contents(ps, <<e>>, {0}, <<>>)
    BY <1>2
  <2>2. PICK e \in Encodings(ps[1]) : Contents(ps, <<e>>, {0}, <<>>)
    BY <2>1
  <2>3. ps \in Seq(Pair) /\ Len(ps) = 1
    BY QueriesType
  <2>4. ps[1] \in Pair
    BY <2>3, ElementOfSeq
  <2>5. e \in Seq(Nat)
    BY <2>4, EncodingType, Zenon
  <2> DEFINE f == <<e>>
  <2>6. f \in Seq(Seq(Nat)) /\ Len(f) = 1 /\ f[1] = e
    BY <2>5
  <2>7. Contents(ps, f, {0}, <<>>) /\ <<>> \in Bodies
    BY <2>2 DEF Bodies
  <2> HIDE DEF f
  <2>8. Len(f) = Len(ps) /\ \A i \in 1 .. Len(ps) : f[i] \in Encodings(ps[i])
    BY <2>3, <2>6
  <2> QED
    BY <2>3, <2>6, <2>7, <2>8, ContentsLaid
<1> QED
  BY <1>1, <1>2 DEF Decodable

-----------------------------------------------------------------------------
(* Two digits: what h2c makes of them is the only byte they stand for.     *)

LEMMA UpperLower ==
  ASSUME NEW d \in 0 .. 15
  PROVE  /\ Upper[d + 1] = IF d < 10 THEN 48 + d ELSE 55 + d
         /\ Lower[d + 1] = IF d < 10 THEN 48 + d ELSE 87 + d
<1>1. Upper \in Seq(Nat) /\ Len(Upper) = 16
  BY DEF Upper
<1>2. Upper[d + 1] = IF d < 10 THEN 48 + d ELSE 55 + d
  BY DEF Upper
<1> DEFINE s == SubSeq(Upper, 1, 10)
           t == <<97, 98, 99, 100, 101, 102>>
<1>3. s \in Seq(Nat) /\ Len(s) = 10 /\ \A k \in 1 .. 10 : s[k] = Upper[k]
  <2>1. \A i \in 1 .. 10 : Upper[i] \in Nat
    <3>1. \A i \in 1 .. 10 : i \in 1 .. 16
      OBVIOUS
    <3>2. \A i \in 1 .. 10 : i \in 1 .. Len(Upper)
      BY <1>1, <3>1, Zenon
    <3> QED
      BY ONLY <1>1, <3>2, ElementOfSeq
  <2>2. /\ s \in Seq(Nat) /\ Len(s) = IF 1 <= 10 THEN 10 - 1 + 1 ELSE 0
        /\ \A k \in 1 .. 10 - 1 + 1 : s[k] = Upper[1 + k - 1]
    BY <2>1, SubSeqProperties
  <2> HIDE DEF s
  <2> QED
    BY <2>2
<1>4. /\ t \in Seq(Nat) /\ Len(t) = 6 /\ t[1] = 97 /\ t[2] = 98 /\ t[3] = 99
      /\ t[4] = 100 /\ t[5] = 101 /\ t[6] = 102
  OBVIOUS
<1>5. Lower = s \o t
  BY DEF Lower
<1> HIDE DEF s, t
<1>6. \A k \in 1 .. Len(s) + Len(t) :
        Lower[k] = IF k <= Len(s) THEN s[k] ELSE t[k - Len(s)]
  <2>1. s \in Seq(Nat) /\ t \in Seq(Nat)
    BY <1>3, <1>4
  <2> QED
    BY ONLY <1>5, <2>1, ConcatProperties
<1>7. \A k \in 1 .. 16 : Lower[k] = IF k <= 10 THEN s[k] ELSE t[k - 10]
  <2> DEFINE u == Len(s)
             w == Len(t)
  <2>1. u = 10 /\ w = 6
    BY <1>3, <1>4, Zenon
  <2>2. \A k \in 1 .. u + w : Lower[k] = IF k <= u THEN s[k] ELSE t[k - u]
    BY <1>6
  <2> HIDE DEF u, w
  <2> QED
    BY ONLY <2>1, <2>2
<1>8. CASE d < 10
  <2>1. d + 1 \in 1 .. 16 /\ d + 1 \in 1 .. 10 /\ d + 1 <= 10
    BY <1>8
  <2> QED
    BY <1>2, <1>3, <1>7, <1>8, <2>1
<1>9. CASE ~ (d < 10)
  <2>1. d + 1 \in 1 .. 16 /\ ~ (d + 1 <= 10) /\ (d + 1) - 10 = d - 9
    BY <1>9
  <2>2. Lower[d + 1] = t[d - 9]
    BY <1>7, <2>1
  <2>3. d - 9 \in {1, 2, 3, 4, 5, 6}
    BY <1>9
  <2>4. t[d - 9] = 87 + d
    BY <1>4, <2>3
  <2> QED
    BY <1>2, <1>9, <2>2, <2>4
<1> QED
  BY <1>8, <1>9

LEMMA DigitStands ==
  ASSUME NEW b \in Nat
  PROVE  /\ \A d \in 0 .. 15 : Stands(b, d) <=> Digit(b) = d
         /\ Digit(b) # -1 => Digit(b) \in 0 .. 15
<1>1. ASSUME NEW d \in 0 .. 15 PROVE Stands(b, d) <=> Digit(b) = d
  <2>1. Stands(b, d) <=> IF d < 10 THEN b = 48 + d ELSE b = 55 + d \/ b = 87 + d
    BY UpperLower DEF Stands
  <2>2. Digit(b) = d <=> IF d < 10 THEN b = 48 + d ELSE b = 55 + d \/ b = 87 + d
    BY DEF Digit
  <2> QED
    BY <2>1, <2>2
<1>2. Digit(b) # -1 => Digit(b) \in 0 .. 15
  BY DEF Digit
<1> QED
  BY <1>1, <1>2

LEMMA DecodingsAre ==
  ASSUME NEW q \in Seq(Nat), NEW i \in 1 .. Len(q)
  PROVE  /\ q[i] = Percent /\ i + 2 <= Len(q) /\ IsPair(q[i + 1], q[i + 2]) =>
              /\ h2c(q[i + 1], q[i + 2]) \in Nat
              /\ Decodings(q, i) = {h2c(q[i + 1], q[i + 2])}
         /\ ~ (q[i] = Percent /\ i + 2 <= Len(q) /\ IsPair(q[i + 1], q[i + 2])) =>
              Decodings(q, i) = {}
<1> DEFINE a == q[i + 1]
           b == q[i + 2]
<1>1. i + 2 <= Len(q) => a \in Nat /\ b \in Nat
  <2>1. Len(q) \in Nat
    OBVIOUS
  <2>2. i + 2 <= Len(q) => i + 1 \in 1 .. Len(q) /\ i + 2 \in 1 .. Len(q)
    BY <2>1
  <2> QED
    BY <2>2, ElementOfSeq
<1> HIDE DEF a, b
<1>2. \A c \in 0 .. 255 : c \div 16 \in 0 .. 15 /\ c % 16 \in 0 .. 15
  OBVIOUS
<1>3. ASSUME i + 2 <= Len(q)
      PROVE  \A c \in 0 .. 255 :
               (Stands(a, c \div 16) /\ Stands(b, c % 16)
                  <=> Digit(a) = c \div 16 /\ Digit(b) = c % 16)
  BY <1>1, <1>2, <1>3, DigitStands
<1>4. \A c : c \in Decodings(q, i) <=>
              /\ c \in 0 .. 255 /\ q[i] = Percent /\ i + 2 <= Len(q)
              /\ Stands(a, c \div 16) /\ Stands(b, c % 16)
  BY DEF Decodings, a, b
<1>5. \A c : c \in Decodings(q, i) <=>
              /\ c \in 0 .. 255 /\ q[i] = Percent /\ i + 2 <= Len(q)
              /\ Digit(a) = c \div 16 /\ Digit(b) = c % 16
  BY <1>3, <1>4
<1>6. ASSUME q[i] = Percent, i + 2 <= Len(q), IsPair(a, b)
      PROVE  h2c(a, b) \in Nat /\ Decodings(q, i) = {h2c(a, b)}
  <2> DEFINE x == Digit(a)
             y == Digit(b)
  <2>1. x \in 0 .. 15 /\ y \in 0 .. 15
    BY <1>1, <1>6, DigitStands DEF IsPair
  <2> HIDE DEF x, y
  <2>2. h2c(a, b) = x * 16 + y /\ x * 16 + y \in 0 .. 255
    <3>1. x * 16 + y \in 0 .. 255 /\ (x * 16 + y) % 256 = x * 16 + y
      BY <2>1
    <3> QED
      BY <3>1 DEF h2c, x, y
  <2>3. \A c \in 0 .. 255 : x = c \div 16 /\ y = c % 16 <=> c = x * 16 + y
    BY <2>1
  <2>4. \A c : c \in Decodings(q, i) <=> c = x * 16 + y
    BY <1>5, <1>6, <2>2, <2>3 DEF x, y
  <2>5. x * 16 + y \in Nat
    BY <2>1
  <2> DEFINE z == h2c(a, b)
  <2>6. z \in Nat /\ \A c : c \in Decodings(q, i) <=> c = z
    BY <2>2, <2>4, <2>5, Zenon
  <2> HIDE DEF z
  <2>7. Decodings(q, i) = {z}
    BY <2>6
  <2> QED
    BY <2>6, <2>7 DEF z
<1>7. ASSUME ~ (q[i] = Percent /\ i + 2 <= Len(q) /\ IsPair(a, b))
      PROVE  Decodings(q, i) = {}
  <2> SUFFICES ASSUME NEW c \in Decodings(q, i) PROVE FALSE
    OBVIOUS
  <2>1. /\ c \in 0 .. 255 /\ q[i] = Percent /\ i + 2 <= Len(q)
        /\ Digit(a) = c \div 16 /\ Digit(b) = c % 16
    BY <1>5
  <2>2. Digit(a) \in 0 .. 15 /\ Digit(b) \in 0 .. 15
    BY <1>2, <2>1
  <2>3. IsPair(a, b)
    <3>1. \A z \in 0 .. 15 : z # -1
      OBVIOUS
    <3> QED
      BY <2>2, <3>1, Zenon DEF IsPair
  <2> QED
    BY <1>7, <2>1, <2>3
<1> QED
  BY <1>6, <1>7 DEF a, b

-----------------------------------------------------------------------------
(* What a query means: the recursion of Meaning.                           *)

Rest(q, g, i) ==
  IF i > Len(q) THEN <<>>
  ELSE IF Decodings(q, i) = {} THEN <<q[i]>> \o g[i + 1]
  ELSE LET c == CHOOSE c \in Decodings(q, i) : TRUE
       IN  <<IF c <= Space THEN Space ELSE c>> \o g[i + 3]

LEMMA DecodingsInside ==
  ASSUME NEW q, NEW i, Decodings(q, i) # {}
  PROVE  i + 2 <= Len(q)
BY DEF Decodings

LEMMA RestAgrees ==
  ASSUME NEW q \in Seq(Nat), NEW i \in 1 .. Len(q) + 1, NEW g, NEW h,
         \A k \in i + 1 .. Len(q) + 1 : g[k] = h[k]
  PROVE  Rest(q, g, i) = Rest(q, h, i)
<1>1. Len(q) \in Nat
  OBVIOUS
<1>2. CASE i > Len(q)
  BY <1>2 DEF Rest
<1>3. CASE ~ (i > Len(q)) /\ Decodings(q, i) = {}
  <2>1. i + 1 \in i + 1 .. Len(q) + 1
    BY <1>1, <1>3
  <2>2. g[i + 1] = h[i + 1]
    BY <2>1
  <2> QED
    BY <1>3, <2>2 DEF Rest
<1>4. CASE ~ (i > Len(q)) /\ Decodings(q, i) # {}
  <2>1. i + 3 \in i + 1 .. Len(q) + 1
    BY <1>1, <1>4, DecodingsInside
  <2>2. g[i + 3] = h[i + 3]
    BY <2>1
  <2> QED
    BY <1>4, <2>2 DEF Rest
<1> QED
  BY <1>2, <1>3, <1>4

LEMMA RestExists ==
  ASSUME NEW q \in Seq(Nat)
  PROVE  \E g : g = [i \in 1 .. Len(q) + 1 |-> Rest(q, g, i)]
<1> DEFINE L == Len(q)
           P(g, k) == g = [i \in k .. L + 1 |-> Rest(q, g, i)]
           Bad == {d \in 0 .. L : ~ \E g : P(g, L + 1 - d)}
<1>1. L \in Nat
  OBVIOUS
<1>2. ASSUME NEW d \in Bad PROVE \E k \in Bad : k < d
  <2> DEFINE k == L + 1 - d
  <2>1. k \in 1 .. L + 1 /\ d \in 0 .. L
    BY <1>1
  <2>2. d # 0
    <3> SUFFICES ASSUME d = 0 PROVE FALSE
      OBVIOUS
    <3> DEFINE g0 == [i \in k .. L + 1 |-> <<>>]
    <3>1. \A i \in k .. L + 1 : Rest(q, g0, i) = <<>>
      BY <1>1 DEF Rest
    <3>2. P(g0, k)
      BY <3>1
    <3> QED
      BY <3>2
  <2>3. ASSUME NEW g, P(g, k + 1) PROVE FALSE
    <3> DEFINE w == [i \in k .. L + 1 |-> IF i = k THEN Rest(q, g, k) ELSE g[i]]
    <3>1. \A i \in k + 1 .. L + 1 : w[i] = g[i] /\ g[i] = Rest(q, g, i)
      <4> SUFFICES ASSUME NEW i \in k + 1 .. L + 1
                   PROVE  w[i] = g[i] /\ g[i] = Rest(q, g, i)
        OBVIOUS
      <4>1. i \in k .. L + 1 /\ i # k
        BY <1>1, <2>1
      <4>2. w[i] = g[i]
        BY <4>1
      <4>3. g[i] = Rest(q, g, i)
        <5> HIDE DEF k
        <5> QED
          BY <2>3
      <4> QED
        BY <4>2, <4>3
    <3>2. w[k] = Rest(q, g, k) /\ w = [i \in k .. L + 1 |-> w[i]]
      BY <1>1, <2>1
    <3> HIDE DEF w
    <3>3. \A i \in k .. L + 1 : Rest(q, w, i) = Rest(q, g, i)
      <4> SUFFICES ASSUME NEW i \in k .. L + 1 PROVE Rest(q, w, i) = Rest(q, g, i)
        OBVIOUS
      <4>1. i \in 1 .. Len(q) + 1 /\ \A j \in i + 1 .. Len(q) + 1 : j \in k + 1 .. L + 1
        BY <1>1, <2>1
      <4>2. \A j \in i + 1 .. Len(q) + 1 : w[j] = g[j]
        BY <3>1, <4>1
      <4> QED
        BY <4>1, <4>2, RestAgrees
    <3>4. \A i \in k .. L + 1 : w[i] = Rest(q, w, i)
      <4> SUFFICES ASSUME NEW i \in k .. L + 1 PROVE w[i] = Rest(q, w, i)
        OBVIOUS
      <4>1. i = k \/ i \in k + 1 .. L + 1
        BY <1>1, <2>1
      <4> QED
        BY <3>1, <3>2, <3>3, <4>1
    <3>5. P(w, k)
      BY <3>2, <3>4
    <3> QED
      BY <3>5
  <2>4. d - 1 \in 0 .. L /\ d - 1 < d /\ L + 1 - (d - 1) = k + 1
    BY <1>1, <2>1, <2>2
  <2>5. d - 1 \in Bad
    <3> HIDE DEF P, k
    <3> QED
      BY <2>3, <2>4
  <2> QED
    BY <2>4, <2>5
<1>3. Bad = {}
  <2>1. Bad \in SUBSET Nat
    BY <1>1
  <2> HIDE DEF Bad
  <2> QED
    BY <1>2, <2>1, NoneBelow
<1>4. L \in 0 .. L /\ L + 1 - L = 1
  BY <1>1
<1>5. \E g : P(g, 1)
  <2> HIDE DEF P
  <2> QED
    BY <1>3, <1>4
<1> QED
  BY <1>5

LEMMA MeaningIs ==
  ASSUME NEW q \in Seq(Nat)
  PROVE  \E g : /\ g = [i \in 1 .. Len(q) + 1 |-> Rest(q, g, i)]
                /\ \A i : Meaning(q, i) = g[i]
<1> DEFINE F(g) == g = [i \in 1 .. Len(q) + 1 |-> Rest(q, g, i)]
           rest == CHOOSE g : F(g)
<1>1. F(rest)
  BY RestExists
<1>2. \A i : Meaning(q, i) = rest[i]
  BY DEF Meaning, Rest
<1> HIDE DEF rest
<1> QED
  BY <1>1, <1>2

LEMMA MeaningUnfolds ==
  ASSUME NEW q \in Seq(Nat), NEW i \in 1 .. Len(q) + 1
  PROVE  /\ i > Len(q) => Meaning(q, i) = <<>>
         /\ i <= Len(q) /\ Decodings(q, i) = {} =>
              Meaning(q, i) = <<q[i]>> \o Meaning(q, i + 1)
         /\ \A c \in Nat : i <= Len(q) /\ Decodings(q, i) = {c} =>
              Meaning(q, i) = <<Printable(c)>> \o Meaning(q, i + 3)
<1>1. PICK g : /\ g = [k \in 1 .. Len(q) + 1 |-> Rest(q, g, k)]
               /\ \A k : Meaning(q, k) = g[k]
  BY MeaningIs
<1>2. Len(q) \in Nat
  OBVIOUS
<1>3. Meaning(q, i) = Rest(q, g, i)
  BY <1>1
<1>4. i > Len(q) => Meaning(q, i) = <<>>
  BY <1>3 DEF Rest
<1>5. i <= Len(q) /\ Decodings(q, i) = {} =>
        Meaning(q, i) = <<q[i]>> \o Meaning(q, i + 1)
  <2>1. i <= Len(q) => ~ (i > Len(q))
    BY <1>2
  <2> QED
    BY <1>1, <1>3, <2>1, Zenon DEF Rest
<1>6. ASSUME NEW c \in Nat, i <= Len(q), Decodings(q, i) = {c}
      PROVE  Meaning(q, i) = <<Printable(c)>> \o Meaning(q, i + 3)
  <2>1. ~ (i > Len(q)) /\ Decodings(q, i) # {}
    BY <1>2, <1>6
  <2>2. (CHOOSE x \in Decodings(q, i) : TRUE) = c
    BY <1>6
  <2>3. (IF c <= Space THEN Space ELSE c) = Printable(c)
    BY DEF Space, Printable
  <2>4. Rest(q, g, i) = <<IF c <= Space THEN Space ELSE c>> \o g[i + 3]
    BY <2>1, <2>2, Zenon DEF Rest
  <2> QED
    BY <1>1, <1>3, <2>3, <2>4
<1> QED
  BY <1>4, <1>5, <1>6

LEMMA MeaningType ==
  ASSUME NEW q \in Seq(Nat)
  PROVE  \A i \in 1 .. Len(q) + 1 : Meaning(q, i) \in Seq(Nat)
<1> DEFINE L == Len(q)
           Bad == {d \in 0 .. L : Meaning(q, L + 1 - d) \notin Seq(Nat)}
<1>1. L \in Nat
  OBVIOUS
<1>2. ASSUME NEW d \in Bad PROVE \E k \in Bad : k < d
  <2> DEFINE i == L + 1 - d
  <2>1. i \in 1 .. Len(q) + 1 /\ d \in 0 .. L /\ i \in 1 .. L + 1
    BY <1>1
  <2>2. Meaning(q, i) \notin Seq(Nat)
    OBVIOUS
  <2>3. d - 1 >= 0 => d - 1 \in 0 .. L /\ d - 1 < d /\ L + 1 - (d - 1) = i + 1
    BY <1>1, <2>1
  <2>4. d - 3 >= 0 => d - 3 \in 0 .. L /\ d - 3 < d /\ L + 1 - (d - 3) = i + 3
    BY <1>1, <2>1
  <2>5. i <= L
    <3>1. i > L => Meaning(q, i) = <<>>
      BY <2>1, MeaningUnfolds
    <3>2. <<>> \in Seq(Nat)
      OBVIOUS
    <3>3. ~ (i > L)
      BY <2>2, <3>1, <3>2, Zenon
    <3> HIDE DEF i, L
    <3> QED
      BY <1>1, <2>1, <3>3
  <2>6. CASE Decodings(q, i) = {}
    <3>1. Meaning(q, i) = <<q[i]>> \o Meaning(q, i + 1)
      BY <2>1, <2>5, <2>6, MeaningUnfolds
    <3>2. q[i] \in Nat
      BY <1>1, <2>1, <2>5, ElementOfSeq
    <3>3. Meaning(q, i + 1) \notin Seq(Nat)
      <4> HIDE DEF i
      <4> QED
        BY <2>2, <3>1, <3>2, OneInFront
    <3>4. d - 1 >= 0
      BY <1>1, <2>1, <2>5
    <3>5. d - 1 \in Bad
      BY <2>3, <3>3, <3>4
    <3> QED
      BY <2>3, <3>4, <3>5
  <2>7. CASE Decodings(q, i) # {}
    <3>1. PICK c \in Nat : Decodings(q, i) = {c}
      <4>1. i \in 1 .. Len(q)
        BY <1>1, <2>1, <2>5
      <4> HIDE DEF i
      <4> QED
        BY <2>7, <4>1, DecodingsAre, Zenon
    <3>2. Meaning(q, i) = <<Printable(c)>> \o Meaning(q, i + 3)
      BY <2>1, <2>5, <3>1, MeaningUnfolds
    <3>3. Printable(c) \in Nat
      BY DEF Printable, Space
    <3>4. Meaning(q, i + 3) \notin Seq(Nat)
      <4> HIDE DEF i
      <4> QED
        BY <2>2, <3>2, <3>3, OneInFront
    <3>5. i + 2 <= L
      BY <2>7, DecodingsInside
    <3>6. d - 3 >= 0
      BY <1>1, <2>1, <3>5
    <3>7. d - 3 \in Bad
      BY <2>4, <3>4, <3>6
    <3> QED
      BY <2>4, <3>6, <3>7
  <2> QED
    BY <2>6, <2>7
<1>3. Bad = {}
  <2>1. Bad \in SUBSET Nat
    BY <1>1
  <2> HIDE DEF Bad
  <2> QED
    BY <1>2, <2>1, NoneBelow
<1>4. ASSUME NEW i \in 1 .. L + 1 PROVE Meaning(q, i) \in Seq(Nat)
  <2>1. L + 1 - i \in 0 .. L /\ L + 1 - (L + 1 - i) = i
    BY <1>1
  <2>2. Meaning(q, L + 1 - (L + 1 - i)) \in Seq(Nat)
    BY <1>3, <2>1
  <2> QED
    BY <2>1, <2>2
<1> QED
  BY <1>4

LEMMA Associative ==
  \A s, t, u \in Seq(Nat) : (s \o t) \o u = s \o (t \o u)
BY ConcatAssociative, SMTT(30)

(* Bytes that are no percent sign mean themselves.                         *)
LEMMA MeaningSkips ==
  ASSUME NEW q \in Seq(Nat), NEW a \in 1 .. Len(q) + 1, NEW b \in a .. Len(q) + 1,
         \A k \in a .. b - 1 : q[k] # Percent
  PROVE  Meaning(q, a) = SubSeq(q, a, b - 1) \o Meaning(q, b)
<1> DEFINE L == Len(q)
           Bad == {d \in 0 .. b - a :
                     Meaning(q, b - d) # SubSeq(q, b - d, b - 1) \o Meaning(q, b)}
<1>1. L \in Nat /\ a \in Nat /\ b \in Nat /\ 1 <= a /\ a <= b /\ b <= L + 1
  OBVIOUS
<1>2. Meaning(q, b) \in Seq(Nat)
  <2>1. b \in 1 .. Len(q) + 1
    BY <1>1
  <2> QED
    BY <2>1, MeaningType
<1>3. ASSUME NEW d \in Bad PROVE \E k \in Bad : k < d
  <2> DEFINE i == b - d
             rest == SubSeq(q, i + 1, b - 1)
  <2>1. d \in 0 .. b - a /\ i \in a .. b /\ i \in Nat
    BY <1>1
  <2>2. Meaning(q, i) # SubSeq(q, i, b - 1) \o Meaning(q, b)
    OBVIOUS
  <2>3. d # 0
    <3> SUFFICES ASSUME d = 0 PROVE FALSE
      OBVIOUS
    <3>1. i = b
      BY <1>1
    <3>2. SubSeq(q, b, b - 1) = <<>>
      BY <1>1, SubSeqEmpty
    <3>3. <<>> \o Meaning(q, b) = Meaning(q, b)
      BY <1>2, ConcatEmptySeq
    <3> HIDE DEF i
    <3> QED
      BY <2>2, <3>1, <3>2, <3>3
  <2>4. /\ i \in 1 .. Len(q) /\ i \in 1 .. Len(q) + 1 /\ i \in a .. b - 1
        /\ b - 1 \in i .. Len(q) /\ i <= Len(q)
    BY <1>1, <2>1, <2>3
  <2>5. d - 1 \in 0 .. b - a /\ d - 1 < d /\ b - (d - 1) = i + 1
    BY <1>1, <2>1, <2>3
  <2> HIDE DEF i
  <2> DEFINE e == <<q[i]>>
  <2>6. q[i] \in Nat /\ q[i] # Percent
    BY <2>4, ElementOfSeq
  <2>7. e \in Seq(Nat)
    BY <2>6
  <2>8. Decodings(q, i) = {}
    BY <2>4, <2>6, DecodingsAre
  <2>9. Meaning(q, i) = e \o Meaning(q, i + 1)
    BY <2>4, <2>8, MeaningUnfolds
  <2>10. SubSeq(q, i, b - 1) = e \o rest
    BY <2>4, SubSeqRecursiveFirst
  <2>11. rest \in Seq(Nat)
    <3>1. \A k \in i + 1 .. b - 1 : q[k] \in Nat
      <4>1. \A k \in i + 1 .. b - 1 : k \in 1 .. Len(q)
        BY <1>1, <2>4
      <4> QED
        BY <4>1, ElementOfSeq
    <3>2. i + 1 \in Int /\ b - 1 \in Int
      BY <1>1, <2>1
    <3> QED
      BY <3>1, <3>2, SubSeqProperties
  <2> HIDE DEF e, rest
  <2>12. (e \o rest) \o Meaning(q, b) = e \o (rest \o Meaning(q, b))
    BY <1>2, <2>7, <2>11, Associative, Zenon
  <2>13. Meaning(q, i + 1) # rest \o Meaning(q, b)
    BY <2>2, <2>9, <2>10, <2>12
  <2>14. d - 1 \in Bad
    BY <2>5, <2>13 DEF rest
  <2> QED
    BY <2>5, <2>14
<1>4. Bad = {}
  <2>1. Bad \in SUBSET Nat
    BY <1>1
  <2> HIDE DEF Bad
  <2> QED
    BY <1>3, <2>1, NoneBelow
<1>5. b - a \in 0 .. b - a /\ b - (b - a) = a
  BY <1>1
<1>6. Meaning(q, b - (b - a)) = SubSeq(q, b - (b - a), b - 1) \o Meaning(q, b)
  BY <1>4, <1>5
<1> QED
  BY <1>5, <1>6

-----------------------------------------------------------------------------
(* What is searched so far.                                                *)

Asked == Meant(Len(pairs))[QueryString]

(* The query is decoded up to pos_prev, and the rest is still to come.     *)
HalfDecoded ==
  /\ arg = Asked /\ arg \in Seq(Nat)
  /\ pos_prev \in 0 .. Len(arg) /\ ret_val \in Seq(Nat)
  /\ ret_val \o (IF returned THEN <<>> ELSE Meaning(arg, pos_prev + 1)) = Meaning(arg, 1)

Searched ==
  /\ answer # "search" => returned
  /\ answer = "none yet" => pos_prev = 0 /\ ret_val = <<>>
  /\ answer # "none yet" => rec > Len(records)
  /\ answer = "search" /\ WholePairs => HalfDecoded

(* What one round does with the percent sign at pos: what is decoded, and  *)
(* the meaning of the rest, together stay the same.                        *)
GoesOn(q, from, r, pos) ==
  LET skipped == SubSeq(q, from + 1, pos - 1)
      whole == pos + 2 <= Len(q) /\ IsPair(q[pos + 1], q[pos + 2])
      c == Printable(h2c(q[pos + 1], q[pos + 2]))
  IN  /\ whole => /\ r \o skipped \o <<c>> \in Seq(Nat)
                  /\ r \o Meaning(q, from + 1)
                       = (r \o skipped \o <<c>>) \o Meaning(q, pos + 3)
      /\ ~ whole => /\ r \o skipped \o <<Percent>> \in Seq(Nat)
                    /\ r \o Meaning(q, from + 1)
                         = (r \o skipped \o <<Percent>>) \o Meaning(q, pos + 1)

LEMMA StepDecodes ==
  ASSUME NEW q \in Seq(Nat), NEW from \in 0 .. Len(q), NEW r \in Seq(Nat),
         NEW pos \in from + 1 .. Len(q), q[pos] = Percent,
         \A k \in from + 1 .. pos - 1 : q[k] # Percent
  PROVE  GoesOn(q, from, r, pos)
<1> DEFINE skipped == SubSeq(q, from + 1, pos - 1)
           whole == pos + 2 <= Len(q) /\ IsPair(q[pos + 1], q[pos + 2])
           c == Printable(h2c(q[pos + 1], q[pos + 2]))
<1>1. /\ Len(q) \in Nat /\ from + 1 \in 1 .. Len(q) + 1 /\ pos \in from + 1 .. Len(q) + 1
      /\ pos \in 1 .. Len(q) /\ pos \in 1 .. Len(q) + 1 /\ pos <= Len(q)
  OBVIOUS
<1>2. Meaning(q, from + 1) = skipped \o Meaning(q, pos)
  BY <1>1, MeaningSkips
<1>3. skipped \in Seq(Nat)
  <2>1. \A k \in from + 1 .. pos - 1 : q[k] \in Nat
    <3>1. \A k \in from + 1 .. pos - 1 : k \in 1 .. Len(q)
      BY <1>1
    <3> QED
      BY <3>1, ElementOfSeq
  <2>2. from + 1 \in Int /\ pos - 1 \in Int
    BY <1>1
  <2> QED
    BY <2>1, <2>2, SubSeqProperties
<1> HIDE DEF skipped
<1>4. ASSUME NEW x \in Nat, NEW t \in Seq(Nat), Meaning(q, pos) = <<x>> \o t
      PROVE  /\ r \o skipped \o <<x>> \in Seq(Nat)
             /\ r \o Meaning(q, from + 1) = (r \o skipped \o <<x>>) \o t
  <2> DEFINE e == <<x>>
  <2>1. e \in Seq(Nat)
    OBVIOUS
  <2>2. Meaning(q, pos) = e \o t
    BY <1>4
  <2> HIDE DEF e
  <2>3. r \o skipped \in Seq(Nat) /\ e \o t \in Seq(Nat)
    BY <1>3, <2>1, ConcatProperties
  <2>4. (r \o skipped) \o e \in Seq(Nat)
    BY <2>1, <2>3, ConcatProperties
  <2>5. r \o (skipped \o (e \o t)) = (r \o skipped) \o (e \o t)
    <3>1. r \in Seq(Nat) /\ skipped \in Seq(Nat)
      BY <1>3
    <3> QED
      BY <2>3, <3>1, Associative, Zenon
  <2>6. (r \o skipped) \o (e \o t) = ((r \o skipped) \o e) \o t
    <3>1. t \in Seq(Nat)
      OBVIOUS
    <3> DEFINE y == r \o skipped
    <3>2. y \in Seq(Nat)
      BY <2>3
    <3> HIDE DEF y
    <3>3. (y \o e) \o t = y \o (e \o t)
      BY <2>1, <3>1, <3>2, Associative, Zenon
    <3> QED
      BY <3>3 DEF y
  <2> QED
    BY <1>2, <2>2, <2>4, <2>5, <2>6 DEF e
<1>5. ASSUME whole PROVE /\ r \o skipped \o <<c>> \in Seq(Nat)
                         /\ r \o Meaning(q, from + 1)
                              = (r \o skipped \o <<c>>) \o Meaning(q, pos + 3)
  <2> DEFINE h == h2c(q[pos + 1], q[pos + 2])
  <2>1. h \in Nat /\ Decodings(q, pos) = {h}
    BY <1>1, <1>5, DecodingsAre
  <2> HIDE DEF h
  <2>2. Meaning(q, pos) = <<Printable(h)>> \o Meaning(q, pos + 3)
    BY <1>1, <2>1, MeaningUnfolds
  <2>3. Printable(h) \in Nat
    BY <2>1 DEF Printable, Space
  <2>4. Meaning(q, pos + 3) \in Seq(Nat)
    <3>1. pos + 3 \in 1 .. Len(q) + 1
      BY <1>1, <1>5
    <3> QED
      BY <3>1, MeaningType
  <2> QED
    BY <1>4, <2>2, <2>3, <2>4 DEF h
<1>6. ASSUME ~ whole PROVE /\ r \o skipped \o <<Percent>> \in Seq(Nat)
                           /\ r \o Meaning(q, from + 1)
                                = (r \o skipped \o <<Percent>>) \o Meaning(q, pos + 1)
  <2>1. Decodings(q, pos) = {}
    BY <1>1, <1>6, DecodingsAre
  <2>2. Meaning(q, pos) = <<Percent>> \o Meaning(q, pos + 1)
    BY <1>1, <2>1, MeaningUnfolds
  <2>3. Percent \in Nat
    BY DEF Percent
  <2>4. Meaning(q, pos + 1) \in Seq(Nat)
    <3>1. pos + 1 \in 1 .. Len(q) + 1
      BY <1>1
    <3> QED
      BY <3>1, MeaningType
  <2> QED
    BY <1>4, <2>2, <2>3, <2>4
<1> QED
  BY <1>5, <1>6 DEF skipped, GoesOn

LEMMA UnescapeDecodes ==
  ASSUME HalfDecoded, unescape, pairs' = pairs
  PROVE  HalfDecoded'
<1> DEFINE at == {i \in pos_prev + 1 .. Len(arg) : arg[i] = Percent}
           pos == CHOOSE i \in at : \A j \in at : i <= j
<1>1. /\ arg \in Seq(Nat) /\ pos_prev \in 0 .. Len(arg) /\ ret_val \in Seq(Nat)
      /\ ~ returned /\ arg' = arg /\ Len(arg) \in Nat
      /\ ret_val \o Meaning(arg, pos_prev + 1) = Meaning(arg, 1)
  BY SMTT(30) DEF HalfDecoded, unescape
<1>2. Asked' = Asked
  BY DEF Asked, Meant
<1>3. CASE at = {}
  <2>1. /\ ret_val' = ret_val \o SubSeq(arg, pos_prev + 1, Len(arg))
        /\ returned' = TRUE /\ pos_prev' = pos_prev
    BY <1>3 DEF unescape
  <2> DEFINE tail == SubSeq(arg, pos_prev + 1, Len(arg))
  <2>2. /\ pos_prev + 1 \in 1 .. Len(arg) + 1 /\ Len(arg) + 1 \in pos_prev + 1 .. Len(arg) + 1
        /\ Len(arg) + 1 \in 1 .. Len(arg) + 1 /\ Len(arg) + 1 - 1 = Len(arg)
        /\ Len(arg) + 1 > Len(arg)
    BY <1>1
  <2>3. \A k \in pos_prev + 1 .. Len(arg) + 1 - 1 : arg[k] # Percent
    BY <1>3, <2>2
  <2>4. Meaning(arg, pos_prev + 1) = tail \o Meaning(arg, Len(arg) + 1)
    <3> DEFINE z == Len(arg) + 1
               a == pos_prev + 1
    <3>1. /\ a \in 1 .. Len(arg) + 1 /\ z \in a .. Len(arg) + 1 /\ z - 1 = Len(arg)
          /\ \A k \in a .. z - 1 : arg[k] # Percent
      BY <2>2, <2>3
    <3> HIDE DEF z, a
    <3>2. Meaning(arg, a) = SubSeq(arg, a, z - 1) \o Meaning(arg, z)
      BY <1>1, <3>1, MeaningSkips
    <3> QED
      BY <3>1, <3>2 DEF z, a
  <2>5. Meaning(arg, Len(arg) + 1) = <<>>
    BY <1>1, <2>2, MeaningUnfolds
  <2>6. tail \in Seq(Nat)
    <3>1. \A k \in pos_prev + 1 .. Len(arg) : arg[k] \in Nat
      <4>1. \A k \in pos_prev + 1 .. Len(arg) : k \in 1 .. Len(arg)
        BY <1>1
      <4> QED
        BY <1>1, <4>1, ElementOfSeq
    <3>2. pos_prev + 1 \in Int /\ Len(arg) \in Int
      BY <1>1
    <3> QED
      BY <3>1, <3>2, SubSeqProperties
  <2> HIDE DEF tail
  <2>7. Meaning(arg, pos_prev + 1) = tail
    BY <2>4, <2>5, <2>6, ConcatEmptySeq
  <2>8. ret_val \o tail \in Seq(Nat) /\ (ret_val \o tail) \o <<>> = ret_val \o tail
    BY <1>1, <2>6, ConcatProperties, ConcatEmptySeq
  <2>9. ret_val' \in Seq(Nat) /\ ret_val' \o <<>> = Meaning(arg, 1)
    BY <1>1, <2>1, <2>7, <2>8 DEF tail
  <2> QED
    BY <1>1, <1>2, <2>1, <2>9 DEF HalfDecoded
<1>4. CASE at # {}
  <2>1. at \in SUBSET Nat
    BY <1>1
  <2>2. \E i \in at : \A j \in at : i <= j
    <3> HIDE DEF at
    <3> QED
      BY <1>4, <2>1, LeastExists
  <2>3. pos \in at /\ \A j \in at : pos <= j
    <3> HIDE DEF at
    <3> QED
      BY <2>2, SMTT(30)
  <2> DEFINE skipped == SubSeq(arg, pos_prev + 1, pos - 1)
             whole == pos + 2 <= Len(arg) /\ IsPair(arg[pos + 1], arg[pos + 2])
             c == Printable(h2c(arg[pos + 1], arg[pos + 2]))
  <2>4. /\ whole => /\ ret_val' = ret_val \o skipped \o <<c>>
                    /\ pos_prev' = pos + 2 /\ returned' = returned
        /\ ~ whole => /\ ret_val' = ret_val \o skipped \o <<Percent>>
                      /\ pos_prev' = pos /\ returned' = returned
    BY <1>4 DEF unescape, TwoFollow
  <2> HIDE DEF pos
  <2>5. /\ pos \in pos_prev + 1 .. Len(arg) /\ arg[pos] = Percent /\ pos \in Nat
        /\ pos \in 0 .. Len(arg)
    BY <1>1, <2>3
  <2>6. \A k \in pos_prev + 1 .. pos - 1 : arg[k] # Percent
    <3> SUFFICES ASSUME NEW k \in pos_prev + 1 .. pos - 1, arg[k] = Percent PROVE FALSE
      OBVIOUS
    <3>1. k \in at /\ ~ (pos <= k)
      BY <1>1, <2>5
    <3> QED
      BY <2>3, <3>1
  <2>7. /\ whole => /\ ret_val \o skipped \o <<c>> \in Seq(Nat)
                    /\ ret_val \o Meaning(arg, pos_prev + 1)
                         = (ret_val \o skipped \o <<c>>) \o Meaning(arg, pos + 3)
        /\ ~ whole => /\ ret_val \o skipped \o <<Percent>> \in Seq(Nat)
                      /\ ret_val \o Meaning(arg, pos_prev + 1)
                           = (ret_val \o skipped \o <<Percent>>) \o Meaning(arg, pos + 1)
    <3>1. GoesOn(arg, pos_prev, ret_val, pos)
      BY <1>1, <2>5, <2>6, StepDecodes
    <3> QED
      BY <1>1, <3>1 DEF GoesOn
  <2> HIDE DEF skipped, c, at
  <2>8. CASE whole
    <3>1. pos_prev' + 1 = pos + 3 /\ pos_prev' \in 0 .. Len(arg) /\ ~ returned'
      BY <1>1, <2>4, <2>5, <2>8
    <3>2. ret_val' \in Seq(Nat) /\ ret_val' \o Meaning(arg, pos + 3) = Meaning(arg, 1)
      BY <1>1, <2>4, <2>7, <2>8
    <3> QED
      BY <1>1, <1>2, <3>1, <3>2 DEF HalfDecoded
  <2>9. CASE ~ whole
    <3>1. pos_prev' = pos /\ pos_prev' \in 0 .. Len(arg) /\ ~ returned'
      BY <1>1, <2>4, <2>5, <2>9
    <3>2. ret_val' \in Seq(Nat) /\ ret_val' \o Meaning(arg, pos + 1) = Meaning(arg, 1)
      BY <1>1, <2>4, <2>7, <2>9
    <3> QED
      BY <1>1, <1>2, <3>1, <3>2 DEF HalfDecoded
  <2> QED
    BY <2>8, <2>9
<1> QED
  BY <1>3, <1>4

-----------------------------------------------------------------------------
(* The inductive invariant: the request is framed as a web server frames   *)
(* it; the pairs it carries lie one behind the other, and of those in      *)
(* whole records a number is decoded and nothing else; a search goes on    *)
(* only when everything is, from the last query.                           *)

IInv ==
  /\ Framing(m) /\ arrived \in Nat
  /\ rec \in Nat \ {0}
  /\ records # <<>> => Laid /\ (WholePairs => Decoded)
  /\ Searched

(* Any request: records framed in any way, or pairs of any names and       *)
(* values, in any form, with any body, cut into two records anywhere.      *)
AnyRequest ==
  /\ Framing(m) /\ arrived \in Nat
  /\ records # <<>> => Laid
  /\ answer = "none yet"
  /\ rec = 1 /\ begin = 0
  /\ m_params = NoParams /\ overrun = FALSE
  /\ pos_prev = 0 /\ ret_val = <<>> /\ returned = TRUE

LEMMA InitAny ==
  ASSUME Init
  PROVE  AnyRequest
<1>1. /\ answer = "none yet" /\ rec = 1 /\ begin = 0 /\ m_params = NoParams
      /\ overrun = FALSE /\ pos_prev = 0 /\ ret_val = <<>> /\ returned = TRUE
  BY DEF Init
<1>2. Framing(m) /\ arrived \in Nat /\ (records # <<>> => Laid)
  <2>1. CASE Pieces
    <3>1. Framing(m) /\ arrived = 1 /\ records = <<>>
      BY <2>1, WellFormedFramed DEF Pieces
    <3>2. arrived \in Nat
      BY <3>1
    <3> QED
      BY <3>1, <3>2, Zenon
  <2>2. CASE Decodable
    BY <2>2, DecodableLaid
  <2> QED
    BY <2>1, <2>2 DEF Init
<1> QED
  BY <1>1, <1>2, Zenon DEF AnyRequest

LEMMA AnyIInv ==
  ASSUME AnyRequest
  PROVE  IInv
<1>1. /\ answer = "none yet" /\ rec = 1 /\ begin = 0 /\ m_params = NoParams
      /\ overrun = FALSE /\ pos_prev = 0 /\ ret_val = <<>> /\ returned = TRUE
      /\ Framing(m) /\ arrived \in Nat /\ (records # <<>> => Laid)
  BY DEF AnyRequest
<1>2. Searched /\ rec \in Nat \ {0}
  <2>1. Searched
    BY <1>1 DEF Searched
  <2>2. rec \in Nat \ {0}
    <3>1. 1 \in Nat \ {0}
      OBVIOUS
    <3> QED
      BY <1>1, <3>1, Zenon
  <2> QED
    BY <2>1, <2>2
<1>3. ASSUME records # <<>> PROVE Laid /\ Decoded
  <2>1. Laid
    BY <1>1, <1>3
  <2>2. Len(records) \in Nat /\ Len(records[1].content) \in Nat /\ Len(pairs) \in Nat
    BY <2>1 DEF Laid
  <2>3. Position = End(0) /\ m_params = Meant(0)
    BY <1>1, MeantNothing DEF Position, End
  <2>4. 0 \in 0 .. Len(pairs) /\ 1 \in 1 .. Len(records) + 1
        /\ 0 <= Len(records[1].content)
    BY <2>2
  <2>5. Decoded
    BY <1>1, <2>3, <2>4 DEF Decoded
  <2> QED
    BY <2>1, <2>5
<1> QED
  BY <1>1, <1>2, <1>3, Zenon DEF IInv

LEMMA SearchedStays ==
  ASSUME Searched, rec' = rec, UNCHANGED <<answer, unescapeVars, records, pairs, ends>>
  PROVE  Searched'
<1>1. WholePairs' = WholePairs
  BY DEF WholePairs, Borders
<1>2. HalfDecoded' = HalfDecoded
  BY DEF HalfDecoded, Asked, Meant, unescapeVars
<1> QED
  BY <1>1, <1>2 DEF Searched, unescapeVars

LEMMA ContentsStay ==
  ASSUME records # <<>> => Laid /\ (WholePairs => Decoded), UNCHANGED <<contentVars, ends>>
  PROVE  (records # <<>> => Laid /\ (WholePairs => Decoded))'
<1>1. /\ pairs' = pairs /\ records' = records /\ ends' = ends /\ rec' = rec
      /\ begin' = begin /\ m_params' = m_params /\ overrun' = overrun
  BY DEF contentVars
<1>2. WholePairs' = WholePairs
  BY <1>1 DEF WholePairs, Borders
<1>3. Laid => Laid'
  BY <1>1, LaidStays
<1>4. Decoded => Decoded'
  BY <1>1, DecodedStays
<1> QED
  BY <1>1, <1>2, <1>3, <1>4

LEMMA SetupStep ==
  ASSUME IInv, setup, ends' = ends
  PROVE  IInv'
<1>1. /\ rec <= Len(records) /\ pairs' = pairs /\ records' = records
      /\ m' = m /\ arrived' = arrived /\ answer' = answer
      /\ arg' = arg /\ pos_prev' = pos_prev /\ ret_val' = ret_val /\ returned' = returned
      /\ rec' = rec \/ rec' = rec + 1
  BY DEF setup, Decode, m_setup_parameters, NextRecord, unescapeVars
<1>2. rec \in Nat \ {0} /\ rec' \in Nat \ {0}
  BY <1>1 DEF IInv
<1>3. records # <<>>
  BY <1>1, <1>2
<1>4. Laid /\ Laid'
  BY <1>1, <1>3, LaidStays DEF IInv
<1>5. WholePairs' = WholePairs
  BY <1>1 DEF WholePairs, Borders
<1>6. WholePairs => Decoded'
  <2>1. CASE m_setup_parameters
    BY <1>3, <1>4, <2>1, PairDecoded DEF IInv
  <2>2. CASE NextRecord
    BY <1>3, <1>4, <2>2, RecordDecoded DEF IInv
  <2> QED
    BY <2>1, <2>2 DEF setup, Decode
<1>7. answer = "none yet" /\ returned /\ pos_prev = 0 /\ ret_val = <<>>
  <2>1. Len(records) \in Nat
    BY <1>4 DEF Laid
  <2>2. ~ (rec > Len(records))
    BY <1>1, <1>2, <2>1
  <2>3. answer = "none yet"
    BY <2>2 DEF IInv, Searched
  <2> QED
    BY <2>3 DEF IInv, Searched
<1>8. Searched'
  BY <1>1, <1>7 DEF Searched
<1>9. Framing(m') /\ arrived' \in Nat
  BY <1>1 DEF IInv
<1> QED
  BY <1>2, <1>4, <1>5, <1>6, <1>8, <1>9, SMTT(30) DEF IInv

LEMMA ResponseStep ==
  ASSUME IInv, m_response, ends' = ends
  PROVE  IInv'
<1>1. /\ records # <<>> /\ rec > Len(records) /\ answer = "none yet"
      /\ m' = m /\ arrived' = arrived /\ UNCHANGED <<contentVars, ends>>
      /\ pairs' = pairs /\ records' = records /\ rec' = rec /\ m_params' = m_params
      /\ pos_prev' = pos_prev /\ ret_val' = ret_val
  BY DEF m_response, contentVars
<1>2. returned /\ pos_prev = 0 /\ ret_val = <<>>
  BY <1>1 DEF IInv, Searched
<1>3. (records # <<>> => Laid /\ (WholePairs => Decoded))'
  BY <1>1, ContentsStay DEF IInv
<1>4. answer' \in {"empty", "dump", "search"}
      /\ (answer' # "search" => returned' = returned)
      /\ (answer' = "search" => /\ QueryString \in DOMAIN m_params
                                /\ arg' = m_params[QueryString] /\ returned' = FALSE)
  BY DEF m_response
<1>5. ASSUME answer' = "search", WholePairs' PROVE HalfDecoded'
  <2>1. WholePairs
    BY <1>1, <1>5 DEF WholePairs, Borders
  <2>2. Laid /\ Decoded
    BY <1>1, <2>1 DEF IInv
  <2>3. m_params = Meant(Len(pairs)) /\ pairs \in Seq(Pair)
    BY <1>1, <2>2, AllDecoded DEF Laid
  <2>4. arg' = Asked /\ Asked \in Seq(Nat)
    BY <1>4, <1>5, <2>3, MeantType DEF Asked
  <2>5. Asked' = Asked
    <3>1. pairs' = pairs
      BY <1>1
    <3> QED
      BY ONLY <3>1 DEF Asked, Meant
  <2> DEFINE q == Asked
  <2> HIDE DEF q
  <2>6. q \in Seq(Nat) /\ arg' = q /\ Len(q) \in Nat
    BY <2>4 DEF q
  <2>7. 1 \in 1 .. Len(q) + 1 /\ 0 \in 0 .. Len(q) /\ 0 + 1 = 1
    BY <2>6
  <2>8. Meaning(q, 1) \in Seq(Nat)
    BY <2>6, <2>7, MeaningType
  <2>9. <<>> \o Meaning(q, 1) = Meaning(q, 1)
    BY <2>8, ConcatEmptySeq
  <2>10. <<>> \in Seq(Nat)
    OBVIOUS
  <2>11. ret_val' = <<>> /\ pos_prev' = 0 /\ returned' = FALSE
    BY <1>1, <1>2, <1>4, <1>5
  <2> QED
    BY <2>4, <2>5, <2>6, <2>7, <2>9, <2>10, <2>11 DEF HalfDecoded
<1>6. Searched'
  BY <1>1, <1>2, <1>4, <1>5 DEF Searched
<1> QED
  BY <1>1, <1>3, <1>6 DEF IInv

LEMMA NextIInv ==
  ASSUME IInv, [Next /\ UNCHANGED ends]_<<vars, ends>>
  PROVE  IInv'
<1>1. CASE UNCHANGED <<vars, ends>>
  <2>1. /\ UNCHANGED <<contentVars, ends>> /\ UNCHANGED unescapeVars
        /\ m' = m /\ arrived' = arrived /\ answer' = answer
        /\ rec' = rec /\ records' = records /\ pairs' = pairs
    BY <1>1 DEF vars, contentVars
  <2>2. Searched'
    BY <2>1, SearchedStays DEF IInv
  <2>3. (records # <<>> => Laid /\ (WholePairs => Decoded))'
    BY <2>1, ContentsStay DEF IInv
  <2> QED
    BY <2>1, <2>2, <2>3 DEF IInv
<1>2. CASE Arrive /\ UNCHANGED ends
  <2>1. /\ UNCHANGED <<contentVars, ends>> /\ UNCHANGED unescapeVars
        /\ m' = m /\ arrived' = arrived + 1 /\ answer' = answer
        /\ rec' = rec /\ records' = records /\ pairs' = pairs
    BY <1>2 DEF Arrive, contentVars
  <2>2. Searched'
    BY <2>1, SearchedStays DEF IInv
  <2>3. (records # <<>> => Laid /\ (WholePairs => Decoded))'
    BY <2>1, ContentsStay DEF IInv
  <2>4. arrived' \in Nat
    BY <2>1 DEF IInv
  <2> QED
    BY <2>1, <2>2, <2>3, <2>4 DEF IInv
<1>3. CASE setup /\ UNCHANGED ends
  BY <1>3, SetupStep
<1>4. CASE m_response /\ UNCHANGED ends
  BY <1>4, ResponseStep
<1>5. CASE search /\ UNCHANGED ends
  <2>1. /\ UNCHANGED <<contentVars, ends>> /\ unescape
        /\ m' = m /\ arrived' = arrived /\ answer' = answer
        /\ rec' = rec /\ records' = records /\ pairs' = pairs
    BY <1>5, SMTT(30) DEF search, contentVars
  <2>2. ~ returned
    BY <2>1 DEF unescape
  <2>3. answer = "search" /\ rec > Len(records)
    BY <2>2 DEF IInv, Searched
  <2>4. WholePairs' = WholePairs
    BY <2>1 DEF WholePairs, Borders
  <2>5. WholePairs => HalfDecoded'
    BY <2>1, <2>3, UnescapeDecodes DEF IInv, Searched
  <2>6. Searched'
    BY <2>1, <2>3, <2>4, <2>5 DEF Searched
  <2>7. (records # <<>> => Laid /\ (WholePairs => Decoded))'
    BY <2>1, ContentsStay DEF IInv
  <2> QED
    BY <2>1, <2>6, <2>7 DEF IInv
<1> QED
  BY <1>1, <1>2, <1>3, <1>4, <1>5 DEF Next

-----------------------------------------------------------------------------
(* What the invariant says of parse, m_setup_parameters and unescape.       *)

LEMMA AcceptedFollows ==
  ASSUME IInv
  PROVE  AcceptedExactlyWhenClosed
<1> SUFFICES ASSUME NoBody, arrived >= 2
             PROVE  parse(m, 0, arrived) = {IF Closed THEN "Ready" ELSE "Insufficient"}
  BY DEF AcceptedExactlyWhenClosed
<1>1. Framing(m) /\ arrived \in Nat /\ OneId
  BY DEF IInv, NoBody
<1> QED
  BY <1>1, OneIdParsed

LEMMA NeverRefusedFollows ==
  ASSUME IInv
  PROVE  NeverRefused
<1> SUFFICES ASSUME OneId, arrived >= 2
             PROVE  /\ "Error" \notin parse(m, 0, arrived)
                    /\ Closed => parse(m, 0, arrived) = {"Ready"}
  BY DEF NeverRefused
<1>1. Framing(m) /\ arrived \in Nat
  BY DEF IInv
<1>2. /\ Closed => parse(m, 0, arrived) = {"Ready"}
      /\ parse(m, 0, arrived) \in {{"Ready"}, {"Insufficient"}}
  BY <1>1, OneIdParsed
<1> QED
  BY <1>2

LEMMA NoMixtureFollows ==
  ASSUME IInv
  PROVE  NoMixture
BY MixtureParsed DEF IInv

LEMMA ParamsFollows ==
  ASSUME IInv
  PROVE  ParamsSoFar
<1> SUFFICES ASSUME WholePairs
             PROVE  /\ ~ overrun /\ Position \in Borders
                    /\ m_params = Meant(Cardinality({i \in 1 .. Len(ends) :
                                                      ends[i] <= Position}))
  BY DEF ParamsSoFar
<1>1. Laid /\ Decoded
  BY DEF IInv, WholePairs
<1>2. PICK n \in 0 .. Len(pairs) : Position = End(n) /\ m_params = Meant(n)
  BY <1>1 DEF Decoded
<1>3. End(n) \in Borders
  <2>1. CASE n = 0
    BY <2>1 DEF End, Borders
  <2>2. CASE n # 0
    <3>1. n \in DOMAIN ends /\ End(n) = ends[n]
      BY <1>1, <2>2 DEF Laid, End
    <3> QED
      BY <3>1 DEF Borders, ToSet
  <2> QED
    BY <2>1, <2>2
<1>4. Cardinality({i \in 1 .. Len(ends) : ends[i] <= End(n)}) = n
  BY <1>1, Counted
<1>5. Cardinality({i \in 1 .. Len(ends) : ends[i] <= Position}) = n
  BY <1>2, <1>4
<1>6. ~ overrun
  BY <1>1 DEF Decoded
<1> QED
  BY <1>2, <1>3, <1>5, <1>6

LEMMA DecodedFollows ==
  ASSUME IInv
  PROVE  DecodedSoFar
<1> SUFFICES ASSUME WholePairs, answer = "search"
             PROVE  ret_val \o (IF returned THEN <<>> ELSE Meaning(Asked, pos_prev + 1))
                      = Meaning(Asked, 1)
  BY DEF DecodedSoFar, Asked
<1>1. HalfDecoded
  BY DEF IInv, Searched
<1> QED
  BY <1>1 DEF HalfDecoded

(* It holds in every state a request of the model can be in.               *)
THEOREM Inductive == Spec => []IInv
<1>1. Init => IInv
  BY InitAny, AnyIInv
<1>2. IInv /\ [Next /\ UNCHANGED ends]_<<vars, ends>> => IInv'
  BY NextIInv
<1> QED
  BY <1>1, <1>2, PTL DEF Spec

-----------------------------------------------------------------------------
(* What follows for parse (fastcgi_request.cpp), for headers, bodies,      *)
(* contents and padding of any length and any number of records.           *)

(* A request without a body is accepted at the very moment the header of   *)
(* its closing STDIN record is complete, neither earlier nor later.        *)
THEOREM AcceptedInTime == Spec => []AcceptedExactlyWhenClosed
<1>1. IInv => AcceptedExactlyWhenClosed
  BY AcceptedFollows
<1> QED
  BY <1>1, Inductive, PTL

(* A well-formed request of one id is never refused, however it is cut,    *)
(* and is accepted once it is closed: a slow peer is not disconnected.     *)
THEOREM SlowPeersServed == Spec => []NeverRefused
<1>1. IInv => NeverRefused
  BY NeverRefusedFollows
<1> QED
  BY <1>1, Inductive, PTL

(* Records of two requests on one connection are never accepted as one:    *)
(* the header of the first foreign record refuses them.                    *)
THEOREM RequestsNotMixed == Spec => []NoMixture
<1>1. IInv => NoMixture
  BY NoMixtureFollows
<1> QED
  BY <1>1, Inductive, PTL

-----------------------------------------------------------------------------
(* And for the contents, with any bound on the pairs and on the query.     *)

(* When the records hold whole pairs, m_setup_parameters steps from one    *)
(* pair to the next, never goes beyond a record, and holds at every step   *)
(* exactly what the pairs read so far leave.                               *)
THEOREM PairsDecoded == Spec => []ParamsSoFar
<1>1. IInv => ParamsSoFar
  BY ParamsFollows
<1> QED
  BY <1>1, Inductive, PTL

(* What is searched is what the last query means: after every round of     *)
(* the loop of unescape, what is decoded and the meaning of the rest are   *)
(* the meaning of the query.                                               *)
THEOREM QueryDecoded == Spec => []DecodedSoFar
<1>1. IInv => DecodedSoFar
  BY DecodedFollows
<1> QED
  BY <1>1, Inductive, PTL

-----------------------------------------------------------------------------
(* All of it holds of any request, not only of those that Init chooses:    *)
(* parse of records of any number, length, padding and id, and decoding of *)
(* any names and values, in any form of their lengths, with any body.      *)
THEOREM AllOfAnyRequest ==
  AnyRequest /\ [][Next /\ UNCHANGED ends]_<<vars, ends>> =>
    [](/\ AcceptedExactlyWhenClosed /\ NeverRefused /\ NoMixture
       /\ ParamsSoFar /\ DecodedSoFar)
<1>1. AnyRequest => IInv
  BY AnyIInv
<1>2. IInv /\ [Next /\ UNCHANGED ends]_<<vars, ends>> => IInv'
  BY NextIInv
<1>3. IInv => /\ AcceptedExactlyWhenClosed /\ NeverRefused /\ NoMixture
              /\ ParamsSoFar /\ DecodedSoFar
  BY AcceptedFollows, NeverRefusedFollows, NoMixtureFollows, ParamsFollows, DecodedFollows
<1> QED
  BY <1>1, <1>2, <1>3, PTL
=============================================================================
