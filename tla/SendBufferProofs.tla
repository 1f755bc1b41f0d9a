--------------------------- MODULE SendBufferProofs ---------------------------
(* SendBuffer implements SendBufferTrivial, for appends of any length, any *)
(* number of them and callers that may advance too far.                    *)
EXTENDS SendBuffer, WellFoundedInduction, TLAPS

Item == [length : Nat \ {0}, offset : Nat, next : Nat \cup {NULL}]

TypeInv ==
  /\ appended \in Nat /\ sent \in Nat
  /\ DOMAIN heap \subseteq Nat
  /\ heap \in [DOMAIN heap -> Item]

(* Items lie in the stream one behind the other, up to its end.            *)
InStream ==
  /\ \A a, b \in DOMAIN heap : a < b => a + heap[a].length <= b
  /\ \A a \in DOMAIN heap : a + heap[a].length <= appended
  /\ mItemLast # NULL => mItemLast + heap[mItemLast].length = appended

(* Every item but the first follows another: none is out of reach.         *)
Followed ==
  \A a \in DOMAIN heap : a # mItemFirst =>
    \E b \in DOMAIN heap : heap[b].next = a /\ b < a

IInv ==
  /\ TypeInv /\ ListWhole /\ NoEmptyItem
  /\ InStream /\ Followed
  /\ SentIsGone

LEMMA InitIInv == Init => IInv
  BY SendBufferAssumption
  DEF Init, IInv, TypeInv, ListWhole, NoEmptyItem, InStream, Followed,
      SentIsGone, Head

-----------------------------------------------------------------------------
(* A set of naturals that is not empty has a least element.                *)
LEMMA Least ==
  ASSUME NEW T \in SUBSET Nat, T # {}
  PROVE  \E m \in T : \A k \in T : m <= k
  <1> DEFINE R == OpToRel(<, Nat)
  <1>1. IsWellFoundedOn(R, Nat)
    BY NatLessThanWellFounded
  <1>2. R = {p \in Nat \X Nat : p[1] < p[2]}
    BY DEF OpToRel
  <1> HIDE DEF R
  <1>3. PICK m \in T : \A k \in T : ~ (<<k, m>> \in R)
    BY <1>1, WFMin
  <1>4. \A k \in T : k < m => <<k, m>> \in R
    BY <1>2
  <1>5. \A k \in T : k \in Nat
    OBVIOUS
  <1>6. \A k \in T : ~ (k < m)
    BY <1>3, <1>4
  <1>7. QED
    BY <1>5, <1>6

(* mClear leaves nothing behind: the least item out of reach would follow  *)
(* one in reach.                                                           *)
LEMMA AllReachable ==
  ASSUME IInv
  PROVE  Reachable = DOMAIN heap
  <1>1. CASE mItemFirst = NULL
    BY <1>1 DEF IInv, ListWhole, Reachable
  <1>2. CASE mItemFirst # NULL
    <2>1. SUFFICES ASSUME NEW S \in SUBSET DOMAIN heap, mItemFirst \in S,
                          \A b \in S : heap[b].next \in S \cup {NULL},
                          DOMAIN heap \ S # {}
                   PROVE  FALSE
      BY DEF Reachable
    <2>2. DOMAIN heap \ S \in SUBSET Nat
      BY DEF IInv, TypeInv
    <2>3. PICK m \in DOMAIN heap \ S : \A k \in DOMAIN heap \ S : m <= k
      BY <2>1, <2>2, Least
    <2>4. PICK b \in DOMAIN heap : heap[b].next = m /\ b < m
      BY <2>1, <2>3 DEF IInv, Followed
    <2>5. b \in S
      <3>1. b \in Nat /\ m \in Nat
        BY <2>2, <2>3 DEF IInv, TypeInv
      <3>2. QED
        BY <2>3, <2>4, <3>1
    <2>6. m \in Nat /\ m # NULL
      BY <2>2, <2>3, SendBufferAssumption
    <2>7. QED
      BY <2>1, <2>3, <2>4, <2>5, <2>6
  <1>3. QED
    BY <1>1, <1>2

-----------------------------------------------------------------------------
(* What append does to the list.                                           *)
LEMMA AppendShape ==
  ASSUME IInv, NEW n \in Nat, append(n)
  PROVE  /\ n > 0 /\ appended \in Nat /\ appended \notin DOMAIN heap
         /\ DOMAIN heap' = DOMAIN heap \cup {appended}
         /\ heap' = [a \in DOMAIN heap' |-> heap'[a]]
         /\ heap'[appended] = bufferItem(n)
         /\ \A a \in DOMAIN heap : a # mItemLast => heap'[a] = heap[a]
         /\ mItemLast # NULL =>
              /\ mItemLast \in DOMAIN heap
              /\ heap'[mItemLast] = [heap[mItemLast] EXCEPT !.next = appended]
         /\ appended' = appended + n /\ sent' = sent /\ overran' = overran
         /\ mItemFirst' = (IF mItemFirst = NULL THEN appended ELSE mItemFirst)
         /\ mItemLast' = appended
  <1>1. n > 0
    BY DEF append, Ignores
  <1>2. \A a \in DOMAIN heap : a < appended
    BY DEF IInv, TypeInv, InStream, Item
  <1>3. appended \in Nat /\ appended \notin DOMAIN heap
    BY <1>2 DEF IInv, TypeInv
  <1>4. mItemLast # NULL => mItemLast \in DOMAIN heap
    BY DEF IInv, ListWhole
  <1>5. QED
    BY <1>1, <1>3, <1>4 DEF append, First

(* Every item keeps its length and offset when another is appended.        *)
LEMMA AppendKeeps ==
  ASSUME IInv, NEW n \in Nat, append(n)
  PROVE  /\ TypeInv'
         /\ \A a \in DOMAIN heap : /\ heap'[a].length = heap[a].length
                                   /\ heap'[a].offset = heap[a].offset
                                   /\ a # mItemLast => heap'[a].next = heap[a].next
         /\ mItemLast # NULL => heap'[mItemLast].next = appended
  <1>1. /\ n > 0 /\ appended \in Nat
        /\ DOMAIN heap' = DOMAIN heap \cup {appended}
        /\ heap' = [a \in DOMAIN heap' |-> heap'[a]]
        /\ heap'[appended] = bufferItem(n)
        /\ \A a \in DOMAIN heap : a # mItemLast => heap'[a] = heap[a]
        /\ mItemLast # NULL =>
             /\ mItemLast \in DOMAIN heap
             /\ heap'[mItemLast] = [heap[mItemLast] EXCEPT !.next = appended]
        /\ appended' = appended + n /\ sent' = sent
    BY AppendShape
  <1>2. \A a \in DOMAIN heap : heap[a] \in Item /\ a \in Nat /\ a # NULL
    BY SendBufferAssumption DEF IInv, TypeInv
  <1>3. \A a \in DOMAIN heap : a # mItemLast => heap'[a] \in Item
    BY <1>1, <1>2
  <1>4. ASSUME mItemLast \in DOMAIN heap
        PROVE  /\ heap'[mItemLast] \in Item
               /\ heap'[mItemLast].length = heap[mItemLast].length
               /\ heap'[mItemLast].offset = heap[mItemLast].offset
               /\ heap'[mItemLast].next = appended
    <2>1. heap'[mItemLast] = [heap[mItemLast] EXCEPT !.next = appended]
      BY <1>1, <1>2, <1>4
    <2>2. heap[mItemLast] \in Item
      BY <1>2, <1>4
    <2>3. QED
      BY <1>1, <2>1, <2>2 DEF Item
  <1>5. heap'[appended] \in Item
    <2>1. bufferItem(n) \in Item
      BY <1>1 DEF bufferItem, Item
    <2>2. QED
      BY <1>1, <2>1
  <1>6. \A a \in DOMAIN heap' : heap'[a] \in Item
    BY <1>1, <1>3, <1>4, <1>5
  <1>7. TypeInv'
    <2>1. DOMAIN heap' \subseteq Nat
      BY <1>1, <1>2
    <2>2. appended' \in Nat /\ sent' \in Nat
      BY <1>1 DEF IInv, TypeInv
    <2>3. QED
      BY <1>1, <1>6, <2>1, <2>2 DEF TypeInv
  <1>8. QED
    BY <1>1, <1>4, <1>7

LEMMA AppendStep ==
  ASSUME IInv, NEW n \in Nat, append(n)
  PROVE  IInv' /\ Head' = Head
  <1>1. TypeInv'
    BY AppendKeeps
  <1>2. \A a \in DOMAIN heap :
          /\ a \in Nat /\ a < appended /\ heap[a].length \in Nat \ {0}
          /\ a + heap[a].length <= appended
    BY DEF IInv, TypeInv, InStream, Item
  <1>3. heap'[appended].length = n /\ heap'[appended].offset = 0
        /\ heap'[appended].next = NULL
    <2>1. heap'[appended] = bufferItem(n)
      BY AppendShape
    <2>2. QED
      BY <2>1 DEF bufferItem
  <1>4. InStream'
    <2>1. /\ n > 0 /\ appended \in Nat /\ appended' = appended + n
          /\ DOMAIN heap' = DOMAIN heap \cup {appended}
          /\ mItemLast' = appended
          /\ \A a \in DOMAIN heap : heap'[a].length = heap[a].length
      BY AppendShape, AppendKeeps
    <2>2. ASSUME NEW a \in DOMAIN heap', NEW b \in DOMAIN heap', a < b
          PROVE  a + heap'[a].length <= b
      <3>1. a \in DOMAIN heap
        BY <1>2, <2>1, <2>2
      <3>2. CASE b = appended
        BY <1>2, <2>1, <3>1, <3>2
      <3>3. CASE b \in DOMAIN heap
        BY <2>1, <2>2, <3>1, <3>3 DEF IInv, InStream
      <3>4. QED
        BY <2>1, <3>2, <3>3
    <2>3. \A a \in DOMAIN heap' : a + heap'[a].length <= appended'
      BY <1>2, <1>3, <2>1
    <2>4. mItemLast' + heap'[mItemLast'].length = appended'
      BY <1>3, <2>1
    <2>5. QED
      BY <2>2, <2>3, <2>4 DEF InStream
  <1>5. Followed'
    <2>1. SUFFICES ASSUME NEW a \in DOMAIN heap', a # mItemFirst'
                   PROVE  \E b \in DOMAIN heap' : heap'[b].next = a /\ b < a
      BY DEF Followed
    <2>2. CASE a = appended
      <3>1. mItemFirst # NULL
        BY <2>1, <2>2, AppendShape
      <3>2. mItemLast # NULL /\ mItemLast \in DOMAIN heap
        BY <3>1 DEF IInv, ListWhole
      <3>3. QED
        BY <2>2, <3>2, <1>2, AppendShape, AppendKeeps
    <2>3. CASE a # appended
      <3>1. a \in DOMAIN heap /\ mItemFirst # NULL /\ a # mItemFirst
        BY <2>1, <2>3, AppendShape DEF IInv, ListWhole
      <3>2. PICK b \in DOMAIN heap : heap[b].next = a /\ b < a
        BY <3>1 DEF IInv, Followed
      <3>3. b # mItemLast
        <4>1. a # NULL
          BY <3>1, <1>2, SendBufferAssumption
        <4>2. QED
          BY <3>1, <3>2, <4>1 DEF IInv, ListWhole
      <3>4. QED
        BY <3>2, <3>3, AppendShape, AppendKeeps
    <2>4. QED
      BY <2>2, <2>3
  <1>6. ListWhole'
    <2>1. appended # NULL /\ appended \in Nat
      BY AppendShape, SendBufferAssumption
    <2>2. CASE mItemFirst = NULL
      <3>1. DOMAIN heap = {}
        BY <2>2 DEF IInv, ListWhole
      <3>2. QED
        BY <2>1, <2>2, <3>1, <1>3, AppendShape DEF ListWhole
    <2>3. CASE mItemFirst # NULL
      <3>1. /\ mItemLast # NULL /\ mItemLast \in DOMAIN heap
            /\ mItemFirst \in DOMAIN heap
            /\ \A a \in DOMAIN heap : mItemFirst <= a
            /\ \A a \in DOMAIN heap : a # mItemLast =>
                 /\ heap[a].next = a + heap[a].length
                 /\ heap[a].next \in DOMAIN heap
            /\ mItemLast + heap[mItemLast].length = appended
        BY <2>3 DEF IInv, ListWhole, InStream
      <3>2. \A a \in DOMAIN heap :
              /\ heap'[a].next = a + heap'[a].length
              /\ heap'[a].next \in DOMAIN heap'
        BY <3>1, AppendShape, AppendKeeps
      <3>3. mItemFirst' = mItemFirst /\ mItemFirst <= appended
        BY <2>3, <3>1, <1>2, AppendShape
      <3>4. \A a \in DOMAIN heap : a # appended
        BY AppendShape
      <3>5. QED
        BY <2>1, <2>3, <3>1, <3>2, <3>3, <3>4, <1>3, AppendShape
        DEF ListWhole
    <2>4. QED
      BY <2>2, <2>3
  <1>7. NoEmptyItem'
    <2>1. \A a \in DOMAIN heap : a = mItemFirst => mItemFirst' = a
      BY <1>2, AppendShape, SendBufferAssumption
    <2>2. QED
      BY <2>1, <1>3, AppendShape, AppendKeeps DEF IInv, NoEmptyItem
  <1>8. Head' = Head
    <2>1. CASE mItemFirst = NULL
      BY <2>1, <1>3, AppendShape, SendBufferAssumption DEF Head
    <2>2. CASE mItemFirst # NULL
      <3>1. mItemFirst \in DOMAIN heap
        BY <2>2 DEF IInv, ListWhole
      <3>2. QED
        BY <2>2, <3>1, AppendShape, AppendKeeps DEF Head
    <2>3. QED
      BY <2>1, <2>2
  <1>9. SentIsGone'
    BY <1>8, AppendShape DEF IInv, SentIsGone
  <1>10. QED
    BY <1>1, <1>4, <1>5, <1>6, <1>7, <1>8, <1>9 DEF IInv

-----------------------------------------------------------------------------
(* What is known of the first item when advance is called.                 *)
LEMMA FirstItem ==
  ASSUME IInv, mItemFirst # NULL
  PROVE  /\ mItemFirst \in DOMAIN heap /\ mItemFirst \in Nat
         /\ heap[mItemFirst] \in Item
         /\ size = heap[mItemFirst].length - heap[mItemFirst].offset
         /\ size \in Nat \ {0}
         /\ Head = mItemFirst + heap[mItemFirst].offset
         /\ Head + size = mItemFirst + heap[mItemFirst].length
         /\ Head + size <= appended
  <1>1. mItemFirst \in DOMAIN heap /\ mItemFirst \in Nat
        /\ heap[mItemFirst] \in Item
    BY DEF IInv, ListWhole, TypeInv
  <1>2. heap[mItemFirst].offset < heap[mItemFirst].length
        /\ mItemFirst + heap[mItemFirst].length <= appended
    BY <1>1 DEF IInv, NoEmptyItem, InStream
  <1>3. heap[mItemFirst].offset \in Nat /\ heap[mItemFirst].length \in Nat
    BY <1>1 DEF Item
  <1>4. QED
    BY <1>1, <1>2, <1>3 DEF size, Head

(* advance within the first item.                                          *)
LEMMA AdvanceWithin ==
  ASSUME IInv, NEW n \in Nat, mItemFirst # NULL, Taken(n) < size,
         heap' = [heap EXCEPT ![mItemFirst].offset = @ + Taken(n)],
         UNCHANGED <<mItemFirst, mItemLast, appended>>, sent' = sent + n,
         overran' = (overran \/ n > size)
  PROVE  IInv' /\ Head' = Head + Taken(n)
  <1> DEFINE first == mItemFirst
  <1>1. /\ Taken(n) \in Nat /\ Taken(n) = n /\ n < size
        /\ mItemFirst' = first /\ mItemLast' = mItemLast
        /\ appended' = appended /\ sent' = sent + n
    BY FirstItem DEF Taken
  <1>2. /\ DOMAIN heap' = DOMAIN heap
        /\ heap' = [a \in DOMAIN heap' |-> heap'[a]]
        /\ \A a \in DOMAIN heap : a # first => heap'[a] = heap[a]
        /\ heap'[first] = [heap[first] EXCEPT !.offset = @ + n]
    BY <1>1, FirstItem DEF IInv, TypeInv
  <1>3. /\ heap'[first] \in Item
        /\ heap'[first].length = heap[first].length
        /\ heap'[first].next = heap[first].next
        /\ heap'[first].offset = heap[first].offset + n
    BY <1>2, FirstItem DEF Item
  <1>4. \A a \in DOMAIN heap : /\ heap'[a].length = heap[a].length
                               /\ heap'[a].next = heap[a].next
    BY <1>2, <1>3
  <1>5. heap'[first].offset < heap[first].length
    <2>1. heap[first].offset \in Nat /\ heap[first].length \in Nat
      BY FirstItem DEF Item
    <2>2. n < heap[first].length - heap[first].offset
      BY <1>1, FirstItem
    <2>3. QED
      BY <1>3, <2>1, <2>2
  <1>6. TypeInv'
    <2>1. \A a \in DOMAIN heap' : heap'[a] \in Item
      BY <1>2, <1>3 DEF IInv, TypeInv
    <2>2. appended' \in Nat /\ sent' \in Nat
      BY <1>1 DEF IInv, TypeInv
    <2>3. QED
      BY <1>2, <2>1, <2>2 DEF IInv, TypeInv
  <1>7. ListWhole'
    BY <1>2, <1>4, FirstItem DEF IInv, ListWhole
  <1>8. NoEmptyItem'
    BY <1>2, <1>3, <1>5 DEF IInv, NoEmptyItem
  <1>9. InStream'
    <2>1. mItemLast # NULL => mItemLast \in DOMAIN heap
      BY DEF IInv, ListWhole
    <2>2. QED
      BY <1>2, <1>4, <2>1 DEF IInv, InStream
  <1>10. Followed'
    BY <1>2, <1>4 DEF IInv, Followed
  <1>11. Head' = Head + n
    <2>1. heap[first].offset \in Nat
      BY FirstItem DEF Item
    <2>2. Head = first + heap[first].offset
      BY FirstItem
    <2>3. Head' = first + heap'[first].offset
      BY <1>1 DEF Head
    <2>4. QED
      BY <1>3, <2>1, <2>2, <2>3, FirstItem
  <1>12. SentIsGone'
    BY <1>11 DEF IInv, SentIsGone
  <1>13. QED
    BY <1>1, <1>6, <1>7, <1>8, <1>9, <1>10, <1>11, <1>12 DEF IInv

(* advance that uses the first item up: the next one becomes the first.    *)
LEMMA AdvanceOver ==
  ASSUME IInv, NEW n \in Nat, n <= size + Overrun,
         mItemFirst # NULL, Taken(n) = size,
         heap' = [a \in DOMAIN heap \ {mItemFirst} |-> heap[a]],
         mItemFirst' = heap[mItemFirst].next,
         mItemLast' = Last(heap[mItemFirst].next),
         appended' = appended, sent' = sent + n,
         overran' = (overran \/ n > size)
  PROVE  IInv' /\ Head' = Head + Taken(n)
  <1> DEFINE first == mItemFirst
             next == heap[mItemFirst].next
  <1>1. /\ DOMAIN heap' = DOMAIN heap \ {first}
        /\ \A a \in DOMAIN heap' : heap'[a] = heap[a]
        /\ heap' = [a \in DOMAIN heap' |-> heap'[a]]
    OBVIOUS
  <1>2. TypeInv'
    BY <1>1 DEF IInv, TypeInv
  <1>3. /\ mItemLast \in DOMAIN heap /\ mItemLast # NULL
        /\ \A a \in DOMAIN heap :
             /\ a \in Nat /\ heap[a].length \in Nat \ {0}
             /\ first <= a
             /\ a = mItemLast => heap[a].next = NULL
             /\ a # mItemLast => /\ heap[a].next = a + heap[a].length
                                 /\ heap[a].next \in DOMAIN heap
             /\ a # first => first + heap[first].length <= a
             /\ a # first => heap[a].offset = 0
    <2>1. \A a \in DOMAIN heap : a \in Nat /\ heap[a].length \in Nat \ {0}
      BY DEF IInv, TypeInv, Item
    <2>2. \A a \in DOMAIN heap : a # first => first < a
      BY <2>1, FirstItem DEF IInv, ListWhole
    <2>3. \A a \in DOMAIN heap : a # first => first + heap[first].length <= a
      BY <2>2, FirstItem DEF IInv, InStream
    <2>4. QED
      BY <2>1, <2>3 DEF IInv, ListWhole, NoEmptyItem
  <1>4. NoEmptyItem'
    BY <1>1, <1>3 DEF IInv, NoEmptyItem
  <1>5. ~ overran' => ~ overran /\ n = size
    <2>1. ~ (n > size) => n = size
      BY FirstItem DEF Taken
    <2>2. QED
      BY <2>1
  <1>6. CASE first = mItemLast
    <2>1. next = NULL /\ mItemFirst' = NULL /\ mItemLast' = NULL
      BY <1>3, <1>6, FirstItem DEF Last
    <2>2. DOMAIN heap' = {}
      <3>1. ASSUME NEW a \in DOMAIN heap, a # first PROVE FALSE
        <4>1. a + heap[a].length <= appended
              /\ first + heap[first].length = appended
          BY <1>3, <1>6, <3>1 DEF IInv, InStream
        <4>2. QED
          BY <1>3, <3>1, <4>1, FirstItem DEF IInv, TypeInv
      <3>2. QED
        BY <1>1, <3>1
    <2>3. Head' = Head + size
      <3>1. first + heap[first].length = appended
        BY <1>3, <1>6 DEF IInv, InStream
      <3>2. QED
        BY <2>1, <3>1, FirstItem DEF Head
    <2>4. ListWhole'
      BY <1>1, <2>1, <2>2 DEF ListWhole
    <2>5. InStream' /\ Followed'
      BY <2>1, <2>2 DEF InStream, Followed
    <2>6. SentIsGone'
      BY <1>5, <2>3 DEF IInv, SentIsGone
    <2>7. QED
      BY <1>2, <1>4, <2>3, <2>4, <2>5, <2>6 DEF IInv
  <1>7. CASE first # mItemLast
    <2>1. /\ next = first + heap[first].length
          /\ next \in DOMAIN heap /\ next \in Nat /\ next # NULL
          /\ next # first
      BY <1>3, <1>7, FirstItem, SendBufferAssumption
    <2>2. /\ mItemFirst' = next /\ mItemLast' = mItemLast
          /\ next \in DOMAIN heap' /\ mItemLast \in DOMAIN heap'
          /\ heap'[next].offset = 0
      BY <1>1, <1>3, <1>7, <2>1 DEF Last
    <2>3. Head' = Head + size
      BY <2>1, <2>2, FirstItem DEF Head
    <2>4. ListWhole'
      <3>1. \A a \in DOMAIN heap' : next <= a
        BY <1>1, <1>3, <2>1
      <3>2. ASSUME NEW a \in DOMAIN heap'
            PROVE  /\ a = mItemLast => heap'[a].next = NULL
                   /\ a # mItemLast => /\ heap'[a].next = a + heap'[a].length
                                       /\ heap'[a].next \in DOMAIN heap'
        <4>1. a \in DOMAIN heap /\ heap'[a] = heap[a] /\ a # first
          BY <1>1, <3>2
        <4>2. heap[a].next # first
          <5>1. a \in Nat /\ first \in Nat /\ first < a
            BY <1>3, <4>1, FirstItem
          <5>2. CASE a = mItemLast
            BY <1>3, <5>2, FirstItem, SendBufferAssumption
          <5>3. CASE a # mItemLast
            BY <1>3, <4>1, <5>1, <5>3
          <5>4. QED
            BY <5>2, <5>3
        <4>3. QED
          BY <1>1, <1>3, <4>1, <4>2
      <3>3. QED
        BY <1>3, <2>1, <2>2, <3>1, <3>2 DEF ListWhole
    <2>5. InStream'
      BY <1>1, <2>2 DEF IInv, InStream
    <2>6. Followed'
      <3>1. SUFFICES ASSUME NEW a \in DOMAIN heap', a # next
                     PROVE  \E b \in DOMAIN heap' : heap'[b].next = a /\ b < a
        BY <2>2 DEF Followed
      <3>2. a \in DOMAIN heap /\ a # first
        BY <1>1, <3>1
      <3>3. PICK b \in DOMAIN heap : heap[b].next = a /\ b < a
        BY <3>2 DEF IInv, Followed
      <3>4. b # first
        BY <3>1, <3>3
      <3>5. QED
        BY <1>1, <3>3, <3>4
    <2>7. SentIsGone'
      BY <1>5, <2>3 DEF IInv, SentIsGone
    <2>8. QED
      BY <1>2, <1>4, <2>3, <2>4, <2>5, <2>6, <2>7 DEF IInv
  <1>8. QED
    BY <1>6, <1>7

LEMMA AdvanceStep ==
  ASSUME IInv, NEW n \in Nat, n <= size + Overrun, advance(n)
  PROVE  /\ IInv' /\ Taken(n) \in Nat /\ Taken(n) <= appended - Head
         /\ Head' = Head + Taken(n) /\ appended' = appended
  <1>1. mItemFirst # NULL
    BY DEF advance
  <1>2. Taken(n) \in Nat /\ Taken(n) <= size
    BY <1>1, FirstItem DEF Taken
  <1>3. Taken(n) <= appended - Head
    <2>1. appended \in Nat /\ Head \in Nat
      BY <1>1, FirstItem DEF IInv, TypeInv, Item
    <2>2. QED
      BY <1>1, <1>2, <2>1, FirstItem
  <1>4. CASE Taken(n) < size
    BY <1>1, <1>2, <1>3, <1>4, FirstItem, AdvanceWithin DEF advance
  <1>5. CASE Taken(n) = size
    BY <1>1, <1>2, <1>3, <1>5, FirstItem, AdvanceOver DEF advance
  <1>6. QED
    BY <1>1, <1>2, <1>4, <1>5, FirstItem

LEMMA ClearStep ==
  ASSUME IInv, clear
  PROVE  IInv' /\ Head' = appended /\ appended' = appended
  <1>1. /\ heap' = [a \in {} |-> NULL] /\ DOMAIN heap' = {}
        /\ mItemFirst' = NULL /\ mItemLast' = NULL
        /\ appended' = appended /\ sent' = appended
    <2>1. DOMAIN heap \ Reachable = {}
      BY AllReachable
    <2>2. QED
      BY <2>1 DEF clear
  <1>2. QED
    BY <1>1
    DEF IInv, TypeInv, ListWhole, NoEmptyItem, InStream, Followed, SentIsGone, Head

LEMMA NextIInv ==
  ASSUME IInv, [Next]_vars
  PROVE  IInv'
  <1>1. ASSUME NEW n \in 0 .. MaxLen, append(n) PROVE IInv'
    BY <1>1, AppendStep, SendBufferAssumption
  <1>2. ASSUME NEW n \in 0 .. size + Overrun, advance(n) PROVE IInv'
    BY <1>2, AdvanceStep, SendBufferAssumption
  <1>3. CASE clear
    BY <1>3, ClearStep
  <1>4. CASE UNCHANGED vars
    BY <1>4 DEF vars, IInv, TypeInv, ListWhole, NoEmptyItem, InStream,
                Followed, SentIsGone, Head
  <1>5. QED
    BY <1>1, <1>2, <1>3, <1>4 DEF Next

(* The inductive invariant, for any lengths, bounds and overrun.           *)
THEOREM BufferInvariance == Spec => []IInv
  <1>1. IInv /\ [Next]_vars => IInv'
    BY NextIInv
  <1>2. QED
    BY <1>1, InitIInv, PTL DEF Spec

(* The list never breaks and never leaks (append, advance, mClear).        *)
THEOREM ListCorrect == Spec => []ListWhole
  <1>1. IInv => ListWhole
    BY DEF IInv
  <1>2. QED
    BY <1>1, BufferInvariance, PTL

(* data(length) never shows nothing while the buffer holds something.      *)
THEOREM ItemsCorrect == Spec => []NoEmptyItem
  <1>1. IInv => NoEmptyItem
    BY DEF IInv
  <1>2. QED
    BY <1>1, BufferInvariance, PTL

(* A caller within data(length) is shown every byte once, in order.        *)
THEOREM SentCorrect == Spec => []SentIsGone
  <1>1. IInv => SentIsGone
    BY DEF IInv
  <1>2. QED
    BY <1>1, BufferInvariance, PTL

(* Every step of SendBuffer is a step of SendBufferTrivial or changes      *)
(* nothing of it: append appends, advance drops what it took from the      *)
(* first item, clear drops everything.                                     *)
LEMMA StepSimulation ==
  ASSUME IInv, [Next]_vars
  PROVE  [Trivial!Next]_<<Head, appended>>
  <1>1. ASSUME NEW n \in 0 .. MaxLen, append(n)
        PROVE  [Trivial!Next]_<<Head, appended>>
    <2>1. n > 0 /\ appended + n <= MaxBytes
      BY <1>1, SendBufferAssumption DEF append, Ignores
    <2>2. Head' = Head /\ appended' = appended + n
      BY <1>1, AppendStep, SendBufferAssumption DEF append
    <2>3. Trivial!append(n)
      BY <2>1, <2>2 DEF Trivial!append
    <2>4. n \in 1 .. MaxLen
      BY <2>1, SendBufferAssumption
    <2>5. QED
      BY <2>3, <2>4 DEF Trivial!Next
  <1>2. ASSUME NEW n \in 0 .. size + Overrun, advance(n)
        PROVE  [Trivial!Next]_<<Head, appended>>
    <2>1. /\ Taken(n) \in Nat /\ Taken(n) <= appended - Head
          /\ Head' = Head + Taken(n) /\ appended' = appended
      BY <1>2, AdvanceStep
    <2>2. Trivial!advance(Taken(n))
      BY <2>1 DEF Trivial!advance
    <2>3. appended - Head \in Int
      BY <1>2, FirstItem DEF IInv, TypeInv, Item, advance
    <2>4. Taken(n) \in 0 .. appended - Head
      BY <2>1, <2>3
    <2>5. QED
      BY <2>2, <2>4 DEF Trivial!Next
  <1>3. CASE clear
    BY <1>3, ClearStep DEF Trivial!clear, Trivial!Next
  <1>4. CASE UNCHANGED vars
    BY <1>4 DEF vars, Head
  <1>5. QED
    BY <1>1, <1>2, <1>3, <1>4 DEF Next

(* SendBuffer can replace SendBufferTrivial under BufferedSender.          *)
THEOREM Refinement == Spec => ImplementsTrivial
  <1>1. Init => Trivial!Init
    BY DEF Init, Head, Trivial!Init
  <1>2. IInv /\ [Next]_vars => [Trivial!Next]_<<Head, appended>>
    BY StepSimulation
  <1>3. QED
    BY <1>1, <1>2, BufferInvariance, PTL DEF Spec, ImplementsTrivial, Trivial!Spec
=============================================================================
