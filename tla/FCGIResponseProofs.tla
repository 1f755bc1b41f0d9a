------------------------- MODULE FCGIResponseProofs --------------------------
(***************************************************************************)
(* Every response is well framed, and its streams carry what the last      *)
(* calls of the setters said, for any limits, any strings and any calls.   *)
(***************************************************************************)
EXTENDS MCFCGIResponse, SequenceTheorems, FiniteSetTheorems, TLAPS

LEMMA Division ==
  ASSUME NEW a \in Nat, NEW m \in Nat \ {0}
  PROVE  /\ a \div m \in Nat /\ a % m \in 0 .. m - 1
         /\ a = m * (a \div m) + (a % m)
BY SMT

LEMMA Multiple ==
  ASSUME NEW m \in Nat \ {0}, NEW q \in Nat
  PROVE  (m * q) % m = 0
OBVIOUS

LEMMA Monotone ==
  ASSUME NEW m \in Nat, NEW k \in Nat, NEW q \in Nat, k <= q
  PROVE  m * k <= m * q
OBVIOUS

(* Padding fills a record up to the alignment.                             *)
LEMMA PaddingAligns ==
  ASSUME NEW len \in Nat
  PROVE  Padding(len) \in 0 .. Align - 1 /\ (len + Padding(len)) % Align = 0
<1> DEFINE q == len \div Align
           r == len % Align
<1>1. q \in Nat /\ r \in 0 .. Align - 1 /\ len = Align * q + r
  BY Division, FramingAssumption
<1>2. CASE r = 0
  BY <1>1, <1>2, FramingAssumption DEF Padding
<1>3. CASE r # 0
  <2>1. Padding(len) = Align - r
    BY <1>3 DEF Padding
  <2>2. len + Padding(len) = Align * (q + 1)
    <3>1. Align * (q + 1) = Align * q + Align
      BY <1>1, FramingAssumption
    <3> HIDE DEF q, r
    <3> QED
      BY <1>1, <2>1, <3>1, FramingAssumption
  <2>3. (Align * (q + 1)) % Align = 0
    BY <1>1, Multiple, FramingAssumption
  <2> HIDE DEF q, r
  <2> QED
    BY <1>1, <1>3, <2>1, <2>2, <2>3, FramingAssumption
<1> QED
  BY <1>2, <1>3

(* Each portion holds at least a byte and at most MaxData.                 *)
LEMMA PortionBounds ==
  ASSUME NEW n \in Nat, NEW k \in 1 .. Portions(n)
  PROVE  /\ PortionLen(n, k) \in 1 .. MaxData
         /\ From(k) \in Nat /\ From(k) >= 1
         /\ From(k) + PortionLen(n, k) - 1 <= n
<1> DEFINE q == Portions(n)
<1>1. q \in Nat /\ MaxData * q <= n + MaxData - 1
  BY Division, FramingAssumption DEF Portions
<1>2. k \in Nat /\ k >= 1 /\ k <= q
  BY <1>1
<1> HIDE DEF q
<1>3. MaxData * k <= n + MaxData - 1
  BY <1>1, <1>2, Monotone, FramingAssumption
<1>4. (k - 1) * MaxData = MaxData * k - MaxData /\ MaxData * k >= MaxData
  BY <1>2, Monotone, FramingAssumption
<1>5. MaxData * k \in Nat
  BY <1>2, FramingAssumption
<1> QED
  BY <1>3, <1>4, <1>5, FramingAssumption DEF PortionLen, From

-----------------------------------------------------------------------------
Frame == [type : {"STDOUT", "STDERR", "END_REQUEST"}, len : Nat, pad : Nat,
          body : Seq(Nat)]

(* A record that does not end the request.                                 *)
ValidStream(r) ==
  /\ Len(r.body) = r.len + r.pad /\ Len(r.body) % Align = 0
  /\ r.pad < Align /\ r.len > 0
  /\ r.type # "END_REQUEST" /\ r.len <= MaxData

LEMMA ZerosType ==
  ASSUME NEW n \in Nat
  PROVE  Zeros(n) \in Seq(Nat) /\ Len(Zeros(n)) = n
BY DEF Zeros

LEMMA WritesValidStream ==
  ASSUME NEW type \in {"STDOUT", "STDERR"}, NEW s \in Seq(Nat)
  PROVE  /\ m_write(type, s) \in Seq(Frame)
         /\ \A k \in 1 .. Len(m_write(type, s)) : ValidStream(m_write(type, s)[k])
<1> DEFINE w == m_write(type, s)
<1>1. Portions(Len(s)) \in Nat /\ Len(s) \in Nat
  BY Division, FramingAssumption DEF Portions
<1>2. w = [k \in 1 .. Portions(Len(s)) |-> w[k]]
  BY DEF m_write
<1>3. ASSUME NEW k \in 1 .. Portions(Len(s))
      PROVE  w[k] \in Frame /\ ValidStream(w[k])
  <2> DEFINE len == PortionLen(Len(s), k)
             pad == Padding(len)
             data == SubSeq(s, From(k), From(k) + len - 1)
             frame == [type |-> type, len |-> len, pad |-> pad,
                       body |-> data \o Zeros(pad)]
  <2>1. /\ len \in 1 .. MaxData /\ From(k) \in Nat /\ From(k) >= 1
        /\ From(k) + len - 1 <= Len(s)
    BY <1>1, PortionBounds
  <2>2. pad \in 0 .. Align - 1 /\ (len + pad) % Align = 0
    BY <2>1, PaddingAligns, FramingAssumption
  <2>3. w[k] = frame
    BY DEF m_write
  <2> HIDE DEF len, pad, w
  <2>4. data \in Seq(Nat) /\ Len(data) = len
    <3>1. \A i \in From(k) .. From(k) + len - 1 : s[i] \in Nat
      BY SMTT(30), <2>1, ElementOfSeq
    <3>2. /\ From(k) \in Int /\ From(k) + len - 1 \in Int
          /\ From(k) <= From(k) + len - 1
          /\ (From(k) + len - 1) - From(k) + 1 = len
      BY <2>1, FramingAssumption
    <3> QED
      BY <3>1, <3>2, SubSeqProperties
  <2>5. Zeros(pad) \in Seq(Nat) /\ Len(Zeros(pad)) = pad
    BY <2>2, ZerosType, FramingAssumption
  <2> HIDE DEF data
  <2>6. data \o Zeros(pad) \in Seq(Nat) /\ Len(data \o Zeros(pad)) = len + pad
    BY <2>4, <2>5, ConcatProperties
  <2>7. /\ len \in Nat /\ len > 0 /\ len <= MaxData
        /\ pad \in Nat /\ pad < Align
    BY <2>1, <2>2, FramingAssumption
  <2>8. frame \in Frame
    BY <2>6, <2>7 DEF Frame
  <2>9. ValidStream(frame)
    <3>1. /\ frame.len = len /\ frame.pad = pad /\ frame.type = type
          /\ frame.body = data \o Zeros(pad)
      OBVIOUS
    <3> HIDE DEF frame
    <3> QED
      BY <2>2, <2>6, <2>7, <3>1 DEF ValidStream
  <2> QED
    BY <2>3, <2>8, <2>9
<1> HIDE DEF w
<1>4. w \in Seq(Frame) /\ Len(w) = Portions(Len(s))
  BY <1>1, <1>2, <1>3
<1>5. \A k \in 1 .. Len(w) : ValidStream(w[k])
  BY <1>3, <1>4
<1> QED
  BY <1>4, <1>5 DEF w

(* Framed streams stay framed when they are joined.                        *)
LEMMA JoinedStreams ==
  ASSUME NEW a \in Seq(Frame), NEW b \in Seq(Frame),
         \A k \in 1 .. Len(a) : ValidStream(a[k]),
         \A k \in 1 .. Len(b) : ValidStream(b[k])
  PROVE  /\ a \o b \in Seq(Frame)
         /\ \A k \in 1 .. Len(a \o b) : ValidStream((a \o b)[k])
<1>1. Len(a) \in Nat /\ Len(b) \in Nat
  BY LenProperties
<1> QED
  BY <1>1, ConcatProperties

Typed ==
  /\ m_str1 \in Seq(Nat) /\ m_str2 \in Seq(Nat) /\ m_error \in Seq(Nat)
  /\ m_source_type \subseteq {"raw", "header", "content"}

LEMMA WriteOutWellFramed ==
  ASSUME Typed, writeOut
  PROVE  WellFramed'
<1> DEFINE out == IF ShowsFirst THEN m_write("STDOUT", m_str1) ELSE <<>>
           content == IF ShowsSecond THEN m_write("STDOUT", m_str2) ELSE <<>>
           err == m_write("STDERR", m_error)
           streams == (err \o out) \o content
<1>1. /\ err \in Seq(Frame) /\ out \in Seq(Frame) /\ content \in Seq(Frame)
      /\ \A k \in 1 .. Len(err) : ValidStream(err[k])
      /\ \A k \in 1 .. Len(out) : ValidStream(out[k])
      /\ \A k \in 1 .. Len(content) : ValidStream(content[k])
  BY WritesValidStream, EmptySeq DEF Typed
<1>2. cashed' = streams \o <<EndRequest>>
  BY DEF writeOut
<1> HIDE DEF err, out, content
<1>3. /\ streams \in Seq(Frame)
      /\ \A k \in 1 .. Len(streams) : ValidStream(streams[k])
  <2>1. /\ err \o out \in Seq(Frame)
        /\ \A k \in 1 .. Len(err \o out) : ValidStream((err \o out)[k])
    BY <1>1, JoinedStreams
  <2> QED
    BY <1>1, <2>1, JoinedStreams
<1> HIDE DEF streams
<1>4. /\ EndRequest \in Frame /\ EndRequest.type = "END_REQUEST"
      /\ EndRequest.len = 8 /\ EndRequest.pad = 0 /\ Len(EndRequest.body) = 8
  BY ZerosType DEF EndRequest, Frame
<1>5. /\ Len(streams) \in Nat /\ Len(cashed') = Len(streams) + 1
      /\ \A k \in 1 .. Len(streams) : cashed'[k] = streams[k]
      /\ cashed'[Len(streams) + 1] = EndRequest
  <2>1. <<EndRequest>> \in Seq(Frame) /\ Len(<<EndRequest>>) = 1
    BY <1>4
  <2>2. <<EndRequest>>[1] = EndRequest
    OBVIOUS
  <2>3. Len(streams) \in Nat
    BY <1>3, LenProperties
  <2> DEFINE last == <<EndRequest>>
  <2> HIDE DEF last
  <2>4. /\ Len(streams \o last) = Len(streams) + Len(last)
        /\ \A i \in 1 .. Len(streams) + Len(last) : (streams \o last)[i] =
             IF i <= Len(streams) THEN streams[i] ELSE last[i - Len(streams)]
    BY <1>3, <2>1, ConcatProperties DEF last
  <2>5. cashed' = streams \o last /\ Len(last) = 1 /\ last[1] = EndRequest
    BY <1>2, <2>1, <2>2 DEF last
  <2> QED
    BY <2>3, <2>4, <2>5
<1>6. ASSUME NEW k \in 1 .. Len(cashed')
      PROVE  LET r == cashed'[k] IN
             /\ Len(r.body) = r.len + r.pad /\ Len(r.body) % Align = 0
             /\ r.pad < Align /\ r.len > 0
             /\ r.type # "END_REQUEST" => r.len <= MaxData
             /\ r.type = "END_REQUEST" <=> k = Len(cashed')
  <2>1. CASE k = Len(streams) + 1
    <3>1. /\ cashed'[k] = EndRequest /\ k = Len(cashed')
          /\ Len(EndRequest.body) = EndRequest.len + EndRequest.pad
          /\ 0 < Align /\ 0 < 8
      BY <1>4, <1>5, <2>1, FramingAssumption
    <3>2. Len(EndRequest.body) % Align = 0
      BY <1>4, FramingAssumption
    <3> QED
      BY <1>4, <3>1, <3>2
  <2>2. CASE k \in 1 .. Len(streams)
    BY <1>3, <1>5, <2>2 DEF ValidStream
  <2> QED
    BY <1>5, <2>1, <2>2
<1> QED
  BY <1>6 DEF WellFramed

(* Every response a caller can make is well framed for its receiver.       *)
THEOREM Framing == Spec => []WellFramed
<1> DEFINE Inv == Typed /\ WellFramed
<1>1. Init => Inv
  BY EmptySeq DEF Init, Typed, WellFramed
<1>2. Inv /\ [Next]_responseVars => Inv'
  <2> SUFFICES ASSUME Inv, [Next]_responseVars PROVE Inv'
    OBVIOUS
  <2>1. ASSUME NEW s \in Strings, setHeader(s) PROVE Inv'
    <3>1. s \in Seq(Nat) /\ EndOfHeader \in Seq(Nat)
      BY FramingAssumption DEF EndOfHeader
    <3>2. s \o EndOfHeader \in Seq(Nat)
      BY <3>1, ConcatProperties
    <3> QED
      BY <2>1, <3>2 DEF setHeader, Typed, WellFramed
  <2>2. ASSUME NEW s \in Strings, setContent(s) \/ setRaw(s) \/ setError(s)
        PROVE  Inv'
    BY <2>2, FramingAssumption DEF setContent, setRaw, setError, Typed, WellFramed
  <2>3. CASE writeOut
    <3>1. Typed'
      BY <2>3 DEF writeOut, Typed
    <3> QED
      BY <2>3, <3>1, WriteOutWellFramed
  <2>4. CASE UNCHANGED responseVars
    BY <2>4 DEF responseVars, Typed, WellFramed
  <2> QED
    BY <2>1, <2>2, <2>3, <2>4 DEF Next
<1>3. Inv => WellFramed
  OBVIOUS
<1> QED
  BY <1>1, <1>2, <1>3, PTL DEF Spec

-----------------------------------------------------------------------------
(* Reading a stream: the bytes of its records one after the other.         *)

(* v[k] is what has been read after k of the pieces s, beginning with i.   *)
Reads(v, i, s) ==
  /\ v \in [0 .. Len(s) -> Seq(Nat)]
  /\ v[0] = i
  /\ \A k \in 1 .. Len(s) : v[k] = v[k - 1] \o s[k]

Yields(i, s, r) == \E v : Reads(v, i, s) /\ v[Len(s)] = r

LEMMA NoneBelow ==
  ASSUME NEW S \in SUBSET Nat, \A m \in S : \E k \in S : k < m
  PROVE  S = {}
<1> SUFFICES ASSUME S # {} PROVE FALSE
  OBVIOUS
<1> DEFINE R == OpToRel(<, Nat)
<1>1. IsWellFoundedOn(R, Nat)
  BY NatLessThanWellFounded
<1>2. PICK m \in S : \A k \in S : ~ (<<k, m>> \in R)
  BY <1>1, WFMin
<1>3. PICK k \in S : k < m
  OBVIOUS
<1>4. <<k, m>> \in R
  BY <1>3 DEF OpToRel
<1> QED
  BY <1>2, <1>4

LEMMA YieldsFlattened ==
  ASSUME NEW s \in Seq(Seq(Nat)), NEW r, Yields(<<>>, s, r)
  PROVE  FlattenSeq(s) = r
<1>1. Len(s) \in Nat
  OBVIOUS
<1>2. PICK v : Reads(v, <<>>, s) /\ v[Len(s)] = r
  BY DEF Yields
<1>3. CASE Len(s) = 0
  BY <1>2, <1>3 DEF FlattenSeq, Reads
<1>4. CASE Len(s) # 0
  <2> DEFINE F(g) == g = [i \in 1 .. Len(s) |-> IF i = 1 THEN s[i] ELSE g[i - 1] \o s[i]]
             flat == CHOOSE g : F(g)
  <2>1. FlattenSeq(s) = flat[Len(s)]
    BY <1>4 DEF FlattenSeq
  <2>2. F([i \in 1 .. Len(s) |-> v[i]])
    <3> DEFINE g == [i \in 1 .. Len(s) |-> v[i]]
    <3>1. ASSUME NEW i \in 1 .. Len(s)
          PROVE  v[i] = IF i = 1 THEN s[i] ELSE g[i - 1] \o s[i]
      <4>1. v[i] = v[i - 1] \o s[i]
        BY <1>2 DEF Reads
      <4>2. CASE i = 1
        <5>1. v[0] = <<>> /\ i - 1 = 0 /\ s[i] \in Seq(Nat)
          BY <1>2, <4>2 DEF Reads
        <5>2. <<>> \o s[i] = s[i]
          BY <5>1
        <5> QED
          BY <4>1, <4>2, <5>1, <5>2
      <4>3. CASE i # 1
        <5>1. i - 1 \in 1 .. Len(s)
          BY <1>1, <4>3
        <5>2. g[i - 1] = v[i - 1]
          BY <5>1
        <5> QED
          BY <4>1, <4>3, <5>2
      <4> QED
        BY <4>2, <4>3
    <3>2. [i \in 1 .. Len(s) |-> v[i]] =
            [i \in 1 .. Len(s) |-> IF i = 1 THEN s[i] ELSE g[i - 1] \o s[i]]
      <4> HIDE DEF g
      <4> QED
        BY SMTT(30), <3>1
    <3> QED
      BY <3>2
  <2>3. F(flat)
    BY <2>2
  <2> HIDE DEF flat
  <2>4. \A i \in 1 .. Len(s) : flat[i] = IF i = 1 THEN s[i] ELSE flat[i - 1] \o s[i]
    BY <2>3
  <2> DEFINE bad == {k \in Nat : k \in 1 .. Len(s) /\ flat[k] # v[k]}
  <2>5. ASSUME NEW m \in bad PROVE \E k \in bad : k < m
    <3>1. m \in 1 .. Len(s) /\ flat[m] # v[m] /\ v[m] = v[m - 1] \o s[m]
      BY <1>2 DEF Reads
    <3>2. m # 1
      <4> SUFFICES ASSUME m = 1 PROVE FALSE
        OBVIOUS
      <4>1. v[0] = <<>> /\ m - 1 = 0 /\ s[m] \in Seq(Nat)
        BY <1>2, <3>1 DEF Reads
      <4>2. flat[m] = s[m]
        BY <2>4, <3>1
      <4>3. <<>> \o s[m] = s[m]
        BY <4>1
      <4> QED
        BY <3>1, <4>1, <4>2, <4>3
    <3>3. m - 1 \in 1 .. Len(s) /\ m - 1 \in Nat /\ m - 1 < m
      BY <1>1, <3>1, <3>2
    <3>4. flat[m] = flat[m - 1] \o s[m]
      BY <2>4, <3>1, <3>2
    <3>5. flat[m - 1] # v[m - 1]
      BY <3>1, <3>4
    <3> QED
      BY <3>3, <3>5
  <2>6. bad = {}
    <3> HIDE DEF bad
    <3>1. bad \in SUBSET Nat
      BY DEF bad
    <3> QED
      BY <2>5, <3>1, NoneBelow
  <2>7. flat[Len(s)] = v[Len(s)]
    <3>1. Len(s) \in 1 .. Len(s)
      BY <1>1, <1>4
    <3> QED
      BY <1>1, <2>6, <3>1
  <2> QED
    BY <1>2, <2>1, <2>7
<1> QED
  BY <1>3, <1>4

LEMMA YieldsJoined ==
  ASSUME NEW x \in Seq(Seq(Nat)), NEW y \in Seq(Seq(Nat)), NEW i, NEW m, NEW r,
         Yields(i, x, m), Yields(m, y, r)
  PROVE  Yields(i, x \o y, r)
<1>1. PICK v : Reads(v, i, x) /\ v[Len(x)] = m
  BY DEF Yields
<1>2. PICK w : Reads(w, m, y) /\ w[Len(y)] = r
  BY DEF Yields
<1>3. PICK a, b, z : a = Len(x) /\ b = Len(y) /\ z = x \o y
  OBVIOUS
<1>4. /\ a \in Nat /\ b \in Nat /\ Len(z) = a + b
      /\ \A k \in 1 .. a : z[k] = x[k]
      /\ \A k \in 1 .. b : z[a + k] = y[k]
  BY <1>3
<1> DEFINE u == [k \in 0 .. a + b |-> IF k <= a THEN v[k] ELSE w[k - a]]
<1>5. /\ v \in [0 .. a -> Seq(Nat)] /\ w \in [0 .. b -> Seq(Nat)]
      /\ v[0] = i /\ v[a] = w[0] /\ w[b] = r
  BY <1>1, <1>2, <1>3 DEF Reads
<1>6. \A k \in 0 .. a : u[k] = v[k]
  BY <1>4
<1>7. \A k \in 0 .. b : u[a + k] = w[k]
  <2> SUFFICES ASSUME NEW k \in 0 .. b PROVE u[a + k] = w[k]
    OBVIOUS
  <2>1. CASE k = 0
    BY <1>4, <1>5, <2>1
  <2>2. CASE k # 0
    <3>1. a + k \in 0 .. a + b /\ ~ a + k <= a /\ (a + k) - a = k
      BY <1>4, <2>2
    <3> QED
      BY <3>1
  <2> QED
    BY <2>1, <2>2
<1>8. u \in [0 .. a + b -> Seq(Nat)]
  <2> SUFFICES ASSUME NEW k \in 0 .. a + b
               PROVE  (IF k <= a THEN v[k] ELSE w[k - a]) \in Seq(Nat)
    OBVIOUS
  <2>1. CASE k <= a
    BY <1>4, <1>5, <2>1
  <2>2. CASE ~ k <= a
    <3>1. k - a \in 0 .. b
      BY <1>4, <2>2
    <3> QED
      BY <1>5, <2>2, <3>1
  <2> QED
    BY <2>1, <2>2
<1> HIDE DEF u
<1>9. ASSUME NEW k \in 1 .. a + b PROVE u[k] = u[k - 1] \o z[k]
  <2>1. CASE k <= a
    <3>1. k \in 1 .. a /\ k \in 0 .. a /\ k - 1 \in 0 .. a
      BY <1>4, <2>1
    <3>2. v[k] = v[k - 1] \o x[k]
      BY <1>1, <1>3, <3>1 DEF Reads
    <3> QED
      BY <1>4, <1>6, <3>1, <3>2
  <2>2. CASE ~ k <= a
    <3>1. PICK n : n = k - a
      OBVIOUS
    <3>2. n \in 1 .. b /\ n \in 0 .. b /\ n - 1 \in 0 .. b
          /\ a + n = k /\ a + (n - 1) = k - 1
      BY <1>4, <2>2, <3>1
    <3>3. w[n] = w[n - 1] \o y[n]
      BY <1>2, <1>3, <3>2 DEF Reads
    <3>4. u[a + n] = w[n] /\ u[a + (n - 1)] = w[n - 1] /\ z[a + n] = y[n]
      BY <1>4, <1>7, <3>2
    <3> QED
      BY <3>2, <3>3, <3>4
  <2> QED
    BY <2>1, <2>2
<1>10. u[0] = i /\ u[a + b] = r
  BY <1>4, <1>5, <1>6, <1>7
<1>11. Reads(u, i, z) /\ u[Len(z)] = r
  BY <1>4, <1>8, <1>9, <1>10 DEF Reads
<1> QED
  BY <1>3, <1>11 DEF Yields

LEMMA YieldsNothing ==
  ASSUME NEW s \in Seq(Seq(Nat)), \A k \in 1 .. Len(s) : s[k] = <<>>, NEW i \in Seq(Nat)
  PROVE  Yields(i, s, i)
<1> DEFINE v == [k \in 0 .. Len(s) |-> i]
<1>1. /\ v \in [0 .. Len(s) -> Seq(Nat)] /\ v[0] = i /\ v[Len(s)] = i
      /\ \A k \in 1 .. Len(s) : v[k] = i /\ v[k - 1] = i
  OBVIOUS
<1>2. i \o <<>> = i
  OBVIOUS
<1> HIDE DEF v
<1>3. Reads(v, i, s)
  BY <1>1, <1>2 DEF Reads
<1> QED
  BY <1>1, <1>3 DEF Yields

LEMMA SubSeqIs ==
  ASSUME NEW s \in Seq(Nat), NEW a \in 0 .. Len(s), NEW b \in a .. Len(s)
  PROVE  LET t == SubSeq(s, a + 1, b)
         IN  /\ t \in Seq(Nat) /\ Len(t) = b - a
             /\ \A k \in 1 .. b - a : t[k] = s[a + k]
<1> PICK t : t = SubSeq(s, a + 1, b)
  OBVIOUS
<1>1. t = [k \in 1 .. b - a |-> s[a + k]]
  <2>1. t = [k \in 1 .. b - (a + 1) + 1 |-> s[k + (a + 1) - 1]]
    BY t = SubSeq(s, a + 1, b)
  <2>2. b - (a + 1) + 1 = b - a /\ \A k \in 1 .. b - a : k + (a + 1) - 1 = a + k
    OBVIOUS
  <2> QED
    BY <2>1, <2>2
<1>2. \A k \in 1 .. b - a : s[a + k] \in Nat
  <2> SUFFICES ASSUME NEW k \in 1 .. b - a PROVE s[a + k] \in Nat
    OBVIOUS
  <2>1. a + k \in 1 .. Len(s)
    OBVIOUS
  <2> QED
    BY SMTT(30), <2>1
<1>3. b - a \in Nat
  OBVIOUS
<1> QED
  BY SMTT(30), <1>1, <1>2, <1>3, t = SubSeq(s, a + 1, b)

LEMMA SubSeqsJoin ==
  ASSUME NEW s \in Seq(Nat), NEW a \in 0 .. Len(s), NEW b \in a .. Len(s)
  PROVE  SubSeq(s, 1, b) = SubSeq(s, 1, a) \o SubSeq(s, a + 1, b)
<1>1. 1 \in 1 .. Len(s) + 1 /\ a \in 1 - 1 .. Len(s)
  OBVIOUS
<1> QED
  BY <1>1, ConcatAdjacentSubSeq

(* The bytes of s read back from its portions.                             *)
Cuts(s) ==
  [k \in 1 .. Portions(Len(s)) |->
     SubSeq(s, From(k), From(k) + PortionLen(Len(s), k) - 1)]

LEMMA CutsYield ==
  ASSUME NEW s \in Seq(Nat), NEW i \in Seq(Nat)
  PROVE  Cuts(s) \in Seq(Seq(Nat)) /\ Yields(i, Cuts(s), i \o s)
<1> DEFINE n == Len(s)
           q == Portions(n)
           cut(k) == IF k = q THEN n ELSE k * MaxData
           v == [k \in 0 .. q |-> i \o SubSeq(s, 1, cut(k))]
<1>1. n \in Nat /\ MaxData \in Nat \ {0}
  BY FramingAssumption
<1>2. q \in Nat /\ MaxData * q <= n + MaxData - 1 /\ MaxData * q >= n
  <2>1. PICK a : a = n + MaxData - 1
    OBVIOUS
  <2>2. a \in Nat /\ q = a \div MaxData
    BY <1>1, <2>1 DEF Portions
  <2>3. q \in Nat /\ a % MaxData \in 0 .. MaxData - 1 /\ a = MaxData * q + (a % MaxData)
    BY <1>1, <2>2, Division
  <2> PICK z : z = MaxData * q
    OBVIOUS
  <2> HIDE DEF q
  <2>4. z \in Nat
    <3>1. PICK x \in Nat, y \in Nat : x = MaxData /\ y = q
      BY <1>1, <2>3
    <3>2. x * y \in Nat
      OBVIOUS
    <3> QED
      BY <3>1, <3>2
  <2> HIDE DEF q
  <2> QED
    BY <1>1, <2>1, <2>2, <2>3, <2>4
<1> HIDE DEF q, n
<1>3. ASSUME NEW k \in 1 .. q
      PROVE  /\ cut(k - 1) = (k - 1) * MaxData
             /\ From(k) = cut(k - 1) + 1
             /\ From(k) + PortionLen(n, k) - 1 = cut(k)
             /\ cut(k - 1) \in 0 .. n /\ cut(k) \in cut(k - 1) .. n
  <2>1. k \in Nat /\ k - 1 \in Nat /\ k - 1 # q /\ k <= q
    BY <1>2
  <2>2. cut(k - 1) = (k - 1) * MaxData /\ From(k) = cut(k - 1) + 1
    BY <2>1 DEF From
  <2>3. PICK c : c = (k - 1) * MaxData
    OBVIOUS
  <2>4. c \in Nat /\ k * MaxData = c + MaxData /\ MaxData * k = c + MaxData
    BY <1>1, <2>1, <2>3
  <2>5. /\ PortionLen(n, k) \in 1 .. MaxData
        /\ c + 1 + PortionLen(n, k) - 1 <= n
        /\ PortionLen(n, k) = IF n - c > MaxData THEN MaxData ELSE n - c
    <3>1. /\ PortionLen(n, k) \in 1 .. MaxData
          /\ From(k) + PortionLen(n, k) - 1 <= n
      BY <1>1, PortionBounds DEF q
    <3>2. n - From(k) + 1 = n - c /\ From(k) = c + 1
      BY <1>1, <2>2, <2>3, <2>4
    <3> QED
      BY <3>1, <3>2 DEF PortionLen
  <2>6. c + PortionLen(n, k) = cut(k)
    <3>1. CASE k = q
      <4>1. n - c <= MaxData
        BY <1>1, <1>2, <2>4, <3>1
      <4> QED
        BY <1>1, <2>4, <2>5, <3>1, <4>1
    <3>2. CASE k # q
      <4>1. MaxData * (k + 1) <= MaxData * q
        BY <1>1, <1>2, <2>1, <3>2, Monotone
      <4>2. MaxData * (k + 1) = c + MaxData + MaxData
        BY <1>1, <2>1, <2>4
      <4>3. PICK z : z = MaxData * q
        OBVIOUS
      <4>4. z \in Nat
        <5>1. PICK x \in Nat, y \in Nat : x = MaxData /\ y = q
          BY <1>1, <1>2
        <5>2. x * y \in Nat
          OBVIOUS
        <5> QED
          BY <4>3, <5>1, <5>2
      <4>5. z <= n + MaxData - 1 /\ c + MaxData + MaxData <= z /\ z \in Nat
        BY ONLY <1>2, <4>1, <4>2, <4>3, <4>4
      <4>6. n - c > MaxData
        BY <1>1, <2>4, <4>5
      <4> QED
        BY <1>1, <2>4, <2>5, <3>2, <4>6
    <3> QED
      BY <3>1, <3>2
  <2> HIDE DEF cut
  <2>7. PICK x, y, p : x = cut(k - 1) /\ y = cut(k) /\ p = PortionLen(n, k)
    OBVIOUS
  <2>8. /\ x = c /\ y = c + p /\ p \in 1 .. MaxData /\ c + 1 + p - 1 <= n
        /\ From(k) = c + 1
    BY <2>2, <2>3, <2>5, <2>6, <2>7
  <2>9. x \in 0 .. n /\ y \in x .. n /\ From(k) + p - 1 = y /\ From(k) = x + 1
    BY ONLY <1>1, <2>4, <2>8
  <2> QED
    BY <2>2, <2>7, <2>9
<1>4. cut(0) = 0 /\ cut(q) = n /\ \A k \in 0 .. q : cut(k) \in 0 .. n
  <2>1. cut(0) = 0
    <3>1. q = 0 => n = 0
      BY <1>1, <1>2
    <3>2. 0 * MaxData = 0
      BY <1>1
    <3> QED
      BY <3>1, <3>2
  <2>2. ASSUME NEW k \in 0 .. q PROVE cut(k) \in 0 .. n
    <3>1. CASE k = 0
      BY <1>1, <2>1, <3>1
    <3>2. CASE k # 0
      <4>1. k \in 1 .. q
        BY <1>2, <3>2
      <4>2. cut(k - 1) \in 0 .. n /\ cut(k) \in cut(k - 1) .. n
        BY <1>3, <4>1
      <4> HIDE DEF cut
      <4> QED
        BY <1>1, <4>2
    <3> QED
      BY <3>1, <3>2
  <2> QED
    BY <2>1, <2>2
<1> HIDE DEF cut
<1>5. PICK c : c = Cuts(s)
  OBVIOUS
<1>6. ASSUME NEW k \in 1 .. q
      PROVE  /\ c[k] = SubSeq(s, cut(k - 1) + 1, cut(k)) /\ c[k] \in Seq(Nat)
             /\ SubSeq(s, 1, cut(k)) = SubSeq(s, 1, cut(k - 1)) \o c[k]
  <2>1. c[k] = SubSeq(s, From(k), From(k) + PortionLen(n, k) - 1)
    BY <1>5 DEF Cuts, q, n
  <2>2. c[k] = SubSeq(s, cut(k - 1) + 1, cut(k))
    BY <1>3, <2>1
  <2>3. cut(k - 1) \in 0 .. Len(s) /\ cut(k) \in cut(k - 1) .. Len(s)
    BY <1>3 DEF n
  <2> QED
    BY <2>2, <2>3, SubSeqIs, SubSeqsJoin
<1>7. c \in Seq(Seq(Nat)) /\ Len(c) = q
  <2>1. c = [k \in 1 .. q |-> c[k]]
    BY <1>5 DEF Cuts, q, n
  <2>2. c \in [1 .. q -> Seq(Nat)]
    BY <1>6, <2>1
  <2> QED
    BY <1>2, <2>2
<1>8. \A k \in 0 .. q : SubSeq(s, 1, cut(k)) \in Seq(Nat)
  <2> SUFFICES ASSUME NEW k \in 0 .. q PROVE SubSeq(s, 0 + 1, cut(k)) \in Seq(Nat)
    OBVIOUS
  <2>1. cut(k) \in 0 .. Len(s) /\ 0 \in 0 .. Len(s)
    BY <1>1, <1>4 DEF n
  <2> QED
    BY <2>1, SubSeqIs
<1>9. Reads(v, i, c)
  <2>1. v \in [0 .. Len(c) -> Seq(Nat)]
    BY <1>7, <1>8
  <2>2. v[0] = i
    <3>1. SubSeq(s, 1, 0) = <<>>
      OBVIOUS
    <3>2. v[0] = i \o <<>>
      BY <1>2, <1>4, <3>1
    <3> QED
      BY <3>2, ConcatEmptySeq
  <2>3. ASSUME NEW k \in 1 .. q PROVE v[k] = v[k - 1] \o c[k]
    <3>1. k \in 0 .. q /\ k - 1 \in 0 .. q
      BY <1>2
    <3>2. PICK a, b : a = SubSeq(s, 1, cut(k - 1)) /\ b = c[k]
      OBVIOUS
    <3>3. v[k] = i \o (a \o b) /\ v[k - 1] = i \o a
      BY <1>6, <3>1, <3>2
    <3>4. a \in Seq(Nat) /\ b \in Seq(Nat)
      BY <1>6, <1>8, <3>1, <3>2
    <3>5. (i \o a) \o b = i \o (a \o b)
      <4>1. i \in Seq(Nat)
        OBVIOUS
      <4> QED
        BY ONLY <3>4, <4>1, ConcatAssociative, SMTT(60)
    <3> QED
      BY <3>2, <3>3, <3>5
  <2> HIDE DEF v
  <2> QED
    BY <1>7, <2>1, <2>2, <2>3 DEF Reads
<1>10. v[Len(c)] = i \o s
  <2>1. SubSeq(s, 1, n) = s
    BY DEF n
  <2>2. q \in 0 .. q
    BY <1>2
  <2> QED
    BY <1>4, <1>7, <2>1, <2>2
<1> HIDE DEF v
<1> QED
  BY <1>5, <1>7, <1>9, <1>10 DEF Yields

-----------------------------------------------------------------------------
(* What the records of a response hold of a stream.                        *)

Pieces(type, recs) ==
  [k \in 1 .. Len(recs) |->
     IF recs[k].type = type THEN SubSeq(recs[k].body, 1, recs[k].len) ELSE <<>>]

LEMMA PiecesJoined ==
  ASSUME NEW T, NEW a \in Seq(Frame), NEW b \in Seq(Frame)
  PROVE  Pieces(T, a \o b) = Pieces(T, a) \o Pieces(T, b)
<1>1. PICK c : c = a \o b
  OBVIOUS
<1>2. /\ c \in Seq(Frame) /\ Len(c) = Len(a) + Len(b)
      /\ \A k \in 1 .. Len(a) + Len(b) :
           c[k] = IF k <= Len(a) THEN a[k] ELSE b[k - Len(a)]
  BY <1>1, ConcatProperties
<1> DEFINE piece(r) == IF r.type = T THEN SubSeq(r.body, 1, r.len) ELSE <<>>
<1>3. PICK x, y : x = Pieces(T, a) /\ y = Pieces(T, b)
  OBVIOUS
<1>4. /\ x = [k \in 1 .. Len(a) |-> piece(a[k])]
      /\ y = [k \in 1 .. Len(b) |-> piece(b[k])]
      /\ Pieces(T, c) = [k \in 1 .. Len(c) |-> piece(c[k])]
  BY <1>3 DEF Pieces
<1> HIDE DEF piece
<1> DEFINE S == {piece(r) : r \in Frame}
<1>5. x \in Seq(S) /\ y \in Seq(S) /\ Len(x) = Len(a) /\ Len(y) = Len(b)
  <2>1. Len(a) \in Nat /\ Len(b) \in Nat
        /\ (\A k \in 1 .. Len(a) : a[k] \in Frame)
        /\ (\A k \in 1 .. Len(b) : b[k] \in Frame)
    OBVIOUS
  <2>2. x \in [1 .. Len(a) -> S] /\ y \in [1 .. Len(b) -> S]
    BY <1>4, <2>1
  <2> HIDE DEF S
  <2>3. x \in Seq(S) /\ Len(x) = Len(a)
    BY ONLY <2>1, <2>2
  <2>4. y \in Seq(S) /\ Len(y) = Len(b)
    BY ONLY <2>1, <2>2
  <2> QED
    BY <2>3, <2>4
<1> HIDE DEF S
<1>6. /\ x \o y \in Seq(S) /\ Len(x \o y) = Len(a) + Len(b)
      /\ \A k \in 1 .. Len(a) + Len(b) :
           (x \o y)[k] = IF k <= Len(a) THEN x[k] ELSE y[k - Len(a)]
  <2>1. /\ x \o y \in Seq(S) /\ Len(x \o y) = Len(x) + Len(y)
        /\ \A k \in 1 .. Len(x) + Len(y) :
             (x \o y)[k] = IF k <= Len(x) THEN x[k] ELSE y[k - Len(x)]
    <3>1. x \in Seq(S) /\ y \in Seq(S)
      BY <1>5
    <3> QED
      BY ONLY <3>1, ConcatProperties
  <2> QED
    BY <1>5, <2>1
<1>7. PICK z : z = x \o y
  OBVIOUS
<1>8. ASSUME NEW k \in 1 .. Len(c) PROVE z[k] = piece(c[k])
  <2>1. Len(a) \in Nat /\ Len(b) \in Nat
    OBVIOUS
  <2>2. CASE k <= Len(a)
    <3>1. k \in 1 .. Len(a) /\ k \in 1 .. Len(a) + Len(b)
      BY <1>2, <2>1, <2>2
    <3>2. z[k] = x[k] /\ c[k] = a[k]
      BY <1>2, <1>6, <1>7, <2>2, <3>1
    <3> QED
      BY <1>4, <3>1, <3>2
  <2>3. CASE ~ k <= Len(a)
    <3>1. k - Len(a) \in 1 .. Len(b) /\ k \in 1 .. Len(a) + Len(b)
      BY <1>2, <2>1, <2>3
    <3>2. z[k] = y[k - Len(a)] /\ c[k] = b[k - Len(a)]
      BY <1>2, <1>6, <1>7, <2>3, <3>1
    <3> QED
      BY <1>4, <3>1, <3>2
  <2> QED
    BY <2>2, <2>3
<1>9. z = [k \in 1 .. Len(c) |-> z[k]]
  <2>1. z \in Seq(S) /\ Len(z) = Len(c)
    BY <1>2, <1>6, <1>7
  <2>2. z \in [1 .. Len(z) -> S]
    BY ONLY <2>1
  <2> QED
    BY ONLY <2>1, <2>2
<1>10. z = [k \in 1 .. Len(c) |-> piece(c[k])]
  BY <1>8, <1>9
<1> QED
  BY <1>1, <1>3, <1>4, <1>7, <1>10

LEMMA WritesPieces ==
  ASSUME NEW type \in {"STDOUT", "STDERR"}, NEW T \in {"STDOUT", "STDERR"},
         NEW s \in Seq(Nat), NEW i \in Seq(Nat)
  PROVE  /\ Pieces(T, m_write(type, s)) \in Seq(Seq(Nat))
         /\ Yields(i, Pieces(T, m_write(type, s)), IF T = type THEN i \o s ELSE i)
<1>1. PICK w, q : w = m_write(type, s) /\ q = Portions(Len(s))
  OBVIOUS
<1>2. q \in Nat /\ Len(s) \in Nat /\ Len(w) = q
  <2>1. q \in Nat /\ Len(s) \in Nat
    <3>1. Len(s) \in Nat /\ MaxData \in Nat \ {0}
      BY FramingAssumption
    <3>2. PICK a : a = Len(s) + MaxData - 1
      OBVIOUS
    <3>3. a \in Nat
      BY <3>1, <3>2
    <3>4. a \div MaxData \in Nat
      BY <3>1, <3>3, Division
    <3> QED
      BY <1>1, <3>1, <3>2, <3>4 DEF Portions
  <2>2. w = [k \in 1 .. q |-> w[k]]
    BY <1>1 DEF m_write
  <2> QED
    BY ONLY <2>1, <2>2
<1>3. CASE T # type
  <2>1. \A k \in 1 .. q : w[k].type # T
    BY <1>1, <1>3 DEF m_write
  <2>2. PICK x : x = Pieces(T, w)
    OBVIOUS
  <2>3. x = [k \in 1 .. q |-> <<>>]
    BY <1>2, <2>1, <2>2 DEF Pieces
  <2>4. x \in Seq(Seq(Nat)) /\ Len(x) = q /\ \A k \in 1 .. Len(x) : x[k] = <<>>
    BY <1>2, <2>3
  <2> QED
    BY <1>1, <1>3, <2>2, <2>4, YieldsNothing
<1>4. CASE T = type
  <2>1. ASSUME NEW k \in 1 .. q
        PROVE  (IF w[k].type = T THEN SubSeq(w[k].body, 1, w[k].len) ELSE <<>>) = Cuts(s)[k]
    <3> DEFINE len == PortionLen(Len(s), k)
               data == SubSeq(s, From(k), From(k) + len - 1)
    <3>1. /\ w[k].type = T /\ w[k].len = len
          /\ w[k].body = data \o Zeros(Padding(len))
      BY <1>1, <1>4 DEF m_write
    <3>2. Cuts(s)[k] = data
      BY <1>1 DEF Cuts
    <3>3. len \in Nat /\ From(k) \in Nat /\ From(k) >= 1 /\ From(k) + len - 1 <= Len(s)
      BY <1>1, <1>2, PortionBounds, FramingAssumption
    <3> HIDE DEF len
    <3>4. data \in Seq(Nat) /\ Len(data) = len
      <4>1. PICK a, b : a = From(k) - 1 /\ b = From(k) + len - 1
        OBVIOUS
      <4>2. a \in 0 .. Len(s) /\ b \in a .. Len(s) /\ a + 1 = From(k) /\ b - a = len
        BY SMTT(30), <1>2, <3>3, <4>1
      <4>3. SubSeq(s, a + 1, b) \in Seq(Nat) /\ Len(SubSeq(s, a + 1, b)) = b - a
        BY <4>2, SubSeqIs
      <4> QED
        BY <4>1, <4>2, <4>3
    <3> HIDE DEF data
    <3>5. Padding(len) \in Nat
      <4>1. Padding(len) \in 0 .. Align - 1
        BY <3>3, PaddingAligns
      <4> QED
        BY <4>1, FramingAssumption
    <3>6. PICK z : z = Zeros(Padding(len)) /\ z \in Seq(Nat)
      BY <3>5, ZerosType
    <3>7. /\ data \o z \in Seq(Nat) /\ Len(data \o z) = len + Len(z)
          /\ \A n \in 1 .. len + Len(z) :
               (data \o z)[n] = IF n <= len THEN data[n] ELSE z[n - len]
      BY ZenonT(60), <3>4, <3>6, ConcatProperties
    <3>8. PICK y : y = data \o z
      OBVIOUS
    <3>9. PICK x : x = SubSeq(y, 0 + 1, len)
      OBVIOUS
    <3>10. /\ x \in Seq(Nat) /\ Len(x) = len - 0
           /\ \A n \in 1 .. len - 0 : x[n] = y[0 + n]
      <4>1. 0 \in 0 .. Len(y) /\ len \in 0 .. Len(y) /\ y \in Seq(Nat)
        BY <3>3, <3>6, <3>7, <3>8
      <4> QED
        BY <3>9, <4>1, SubSeqIs
    <3>11. \A n \in 1 .. Len(x) : x[n] = data[n]
      BY <3>3, <3>6, <3>7, <3>8, <3>10
    <3>12. x = data
      <4>1. x \in Seq(Nat) /\ data \in Seq(Nat) /\ Len(x) = Len(data)
        BY <3>3, <3>4, <3>10
      <4> QED
        BY ONLY <3>11, <4>1, SeqEqual
    <3>13. 0 + 1 = 1
      OBVIOUS
    <3> QED
      BY <3>1, <3>2, <3>6, <3>8, <3>9, <3>12, <3>13
  <2>2. Pieces(T, w) =
          [k \in 1 .. q |-> IF w[k].type = T THEN SubSeq(w[k].body, 1, w[k].len) ELSE <<>>]
    BY <1>2 DEF Pieces
  <2>3. Cuts(s) = [k \in 1 .. q |-> Cuts(s)[k]]
    BY <1>1 DEF Cuts
  <2>4. Pieces(T, w) = Cuts(s)
    BY <2>1, <2>2, <2>3
  <2> QED
    BY <1>1, <1>4, <2>4, CutsYield
<1> QED
  BY <1>3, <1>4

(* The two streams of a response that writeOut caches.                     *)
LEMMA WriteOutDecodes ==
  ASSUME Typed, writeOut
  PROVE  /\ Decoded("STDERR")' = m_error
         /\ Decoded("STDOUT")' =
              (IF ShowsFirst THEN m_str1 ELSE <<>>)
              \o (IF ShowsSecond THEN m_str2 ELSE <<>>)
<1>1. PICK err, out, content, first, second :
        /\ err = m_write("STDERR", m_error)
        /\ first = (IF ShowsFirst THEN m_str1 ELSE <<>>)
        /\ out = (IF ShowsFirst THEN m_write("STDOUT", m_str1) ELSE <<>>)
        /\ second = (IF ShowsSecond THEN m_str2 ELSE <<>>)
        /\ content = (IF ShowsSecond THEN m_write("STDOUT", m_str2) ELSE <<>>)
  OBVIOUS
<1>2. cashed' = ((err \o out) \o content) \o <<EndRequest>>
  BY <1>1 DEF writeOut
<1>3. /\ m_error \in Seq(Nat) /\ m_str1 \in Seq(Nat) /\ m_str2 \in Seq(Nat)
      /\ first \in Seq(Nat) /\ second \in Seq(Nat)
  <2>1. <<>> \in Seq(Nat)
    OBVIOUS
  <2> QED
    BY <1>1, <2>1 DEF Typed
<1>4. /\ err \in Seq(Frame) /\ out \in Seq(Frame) /\ content \in Seq(Frame)
      /\ <<EndRequest>> \in Seq(Frame)
  <2>1. <<>> \in Seq(Frame)
    OBVIOUS
  <2>2. EndRequest \in Frame
    BY ZerosType DEF EndRequest, Frame
  <2> QED
    BY <1>1, <1>3, <2>1, <2>2, WritesValidStream
<1>5. ASSUME NEW T \in {"STDOUT", "STDERR"}
      PROVE  FlattenSeq(Pieces(T, cashed')) =
               IF T = "STDERR" THEN m_error ELSE first \o second
  <2>1. PICK p1, p2, p3, p4 : /\ p1 = Pieces(T, err) /\ p2 = Pieces(T, out)
                              /\ p3 = Pieces(T, content) /\ p4 = Pieces(T, <<EndRequest>>)
    OBVIOUS
  <2>2. Pieces(T, cashed') = ((p1 \o p2) \o p3) \o p4
    <3>1. err \o out \in Seq(Frame) /\ (err \o out) \o content \in Seq(Frame)
      BY <1>4, ConcatProperties
    <3>2. Pieces(T, err \o out) = p1 \o p2
      BY <1>4, <2>1, PiecesJoined
    <3>3. Pieces(T, (err \o out) \o content) = (p1 \o p2) \o p3
      BY ZenonT(60), <1>4, <2>1, <3>1, <3>2, PiecesJoined
    <3> QED
      BY ZenonT(60), <1>2, <1>4, <2>1, <3>1, <3>3, PiecesJoined
  <2> DEFINE mark1 == IF T = "STDERR" THEN m_error ELSE <<>>
             mark2 == IF T = "STDERR" THEN m_error ELSE first
             mark3 == IF T = "STDERR" THEN m_error ELSE first \o second
  <2>3. /\ mark1 \in Seq(Nat) /\ mark2 \in Seq(Nat) /\ mark3 \in Seq(Nat)
    <3>1. <<>> \in Seq(Nat) /\ first \o second \in Seq(Nat)
      BY <1>3, ConcatProperties
    <3> QED
      BY <1>3, <3>1
  <2>4. \A i \in Seq(Nat) : Pieces(T, <<>>) \in Seq(Seq(Nat)) /\ Yields(i, Pieces(T, <<>>), i)
    <3> SUFFICES ASSUME NEW i \in Seq(Nat)
                 PROVE  Pieces(T, <<>>) \in Seq(Seq(Nat)) /\ Yields(i, Pieces(T, <<>>), i)
      OBVIOUS
    <3>1. PICK x : x = Pieces(T, <<>>)
      OBVIOUS
    <3>2. x \in Seq(Seq(Nat)) /\ Len(x) = 0
      BY <3>1 DEF Pieces
    <3> QED
      BY <3>1, <3>2, YieldsNothing
  <2>5. p1 \in Seq(Seq(Nat)) /\ Yields(<<>>, p1, mark1)
    <3>1. <<>> \in Seq(Nat) /\ <<>> \o m_error = m_error
      BY <1>3, ConcatEmptySeq
    <3>2. /\ Pieces(T, m_write("STDERR", m_error)) \in Seq(Seq(Nat))
          /\ Yields(<<>>, Pieces(T, m_write("STDERR", m_error)),
                    IF T = "STDERR" THEN <<>> \o m_error ELSE <<>>)
      BY <1>3, <3>1, WritesPieces
    <3> QED
      BY <1>1, <2>1, <3>1, <3>2
  <2>6. p2 \in Seq(Seq(Nat)) /\ Yields(mark1, p2, mark2)
    <3>1. CASE ShowsFirst
      <4>1. first = m_str1 /\ out = m_write("STDOUT", m_str1)
        BY <1>1, <3>1
      <4>2. /\ p2 \in Seq(Seq(Nat))
            /\ Yields(mark1, p2, IF T = "STDOUT" THEN mark1 \o m_str1 ELSE mark1)
        <5> HIDE DEF mark1
        <5> QED
          BY <1>3, <2>1, <2>3, <4>1, WritesPieces
      <4>3. (IF T = "STDOUT" THEN mark1 \o m_str1 ELSE mark1) = mark2
        BY <1>3, <4>1, ConcatEmptySeq
      <4> QED
        BY <4>2, <4>3
    <3>2. CASE ~ ShowsFirst
      <4>1. first = <<>> /\ out = <<>>
        BY <1>1, <3>2
      <4>2. mark2 = mark1
        BY <4>1
      <4> HIDE DEF mark1, mark2
      <4> QED
        BY <2>1, <2>3, <2>4, <4>1, <4>2
    <3> QED
      BY <3>1, <3>2
  <2>7. p3 \in Seq(Seq(Nat)) /\ Yields(mark2, p3, mark3)
    <3>1. CASE ShowsSecond
      <4>1. second = m_str2 /\ content = m_write("STDOUT", m_str2)
        BY <1>1, <3>1
      <4>2. /\ p3 \in Seq(Seq(Nat))
            /\ Yields(mark2, p3, IF T = "STDOUT" THEN mark2 \o m_str2 ELSE mark2)
        <5> HIDE DEF mark2
        <5> QED
          BY <1>3, <2>1, <2>3, <4>1, WritesPieces
      <4>3. (IF T = "STDOUT" THEN mark2 \o m_str2 ELSE mark2) = mark3
        BY <4>1
      <4> QED
        BY <4>2, <4>3
    <3>2. CASE ~ ShowsSecond
      <4>1. second = <<>> /\ content = <<>>
        BY <1>1, <3>2
      <4>2. mark3 = mark2
        BY <1>3, <4>1, ConcatEmptySeq
      <4> HIDE DEF mark2, mark3
      <4> QED
        BY <2>1, <2>3, <2>4, <4>1, <4>2
    <3> QED
      BY <3>1, <3>2
  <2>8. p4 \in Seq(Seq(Nat)) /\ Yields(mark3, p4, mark3)
    <3>1. PICK r : r = EndRequest
      OBVIOUS
    <3>2. r.type # T
      BY <3>1 DEF EndRequest
    <3>3. Len(<<r>>) = 1 /\ <<r>>[1] = r
      OBVIOUS
    <3>4. p4 = [k \in 1 .. 1 |-> <<>>]
      BY <2>1, <3>1, <3>2, <3>3 DEF Pieces
    <3>5. p4 \in Seq(Seq(Nat)) /\ Len(p4) = 1 /\ \A k \in 1 .. Len(p4) : p4[k] = <<>>
      BY <3>4
    <3> HIDE DEF mark3
    <3> QED
      BY <2>3, <3>5, YieldsNothing
  <2> HIDE DEF mark1, mark2, mark3
  <2>9. p1 \o p2 \in Seq(Seq(Nat)) /\ Yields(<<>>, p1 \o p2, mark2)
    BY <2>5, <2>6, YieldsJoined, ConcatProperties
  <2>10. (p1 \o p2) \o p3 \in Seq(Seq(Nat)) /\ Yields(<<>>, (p1 \o p2) \o p3, mark3)
    BY <2>7, <2>9, YieldsJoined, ConcatProperties
  <2>11. ((p1 \o p2) \o p3) \o p4 \in Seq(Seq(Nat))
         /\ Yields(<<>>, ((p1 \o p2) \o p3) \o p4, mark3)
    BY <2>8, <2>10, YieldsJoined, ConcatProperties
  <2>12. FlattenSeq(Pieces(T, cashed')) = mark3
    BY <2>2, <2>11, YieldsFlattened
  <2> QED
    BY <2>12 DEF mark3
<1>6. Decoded("STDERR")' = FlattenSeq(Pieces("STDERR", cashed'))
      /\ Decoded("STDOUT")' = FlattenSeq(Pieces("STDOUT", cashed'))
  BY DEF Decoded, Pieces
<1> QED
  BY <1>1, <1>5, <1>6

-----------------------------------------------------------------------------
(* What the setters keep is what the last calls said.                      *)

CallRecord == [name : {"header", "content", "raw", "error"}, arg : Strings]

LastIn(cs, x, k) ==
  LET at == {i \in k + 1 .. Len(cs) : cs[i].name = x}
  IN  IF at = {} THEN 0 ELSE Max(at)

LEMMA MaxIs ==
  ASSUME NEW n \in Nat, NEW S \in SUBSET (1 .. n), S # {}
  PROVE  Max(S) \in S /\ \A i \in S : i <= Max(S)
<1> DEFINE T == {m \in Nat : \A i \in S : i <= m}
<1>1. n \in T
  OBVIOUS
<1>2. PICK m \in T : \A k \in T : ~ k < m
  <2>1. T \in SUBSET Nat /\ T # {}
    BY <1>1
  <2> HIDE DEF T
  <2> QED
    BY <2>1, NoneBelow
<1>3. m \in S
  <2> SUFFICES ASSUME m \notin S PROVE FALSE
    OBVIOUS
  <2>1. \A i \in S : i <= m - 1
    OBVIOUS
  <2>2. PICK i \in S : TRUE
    OBVIOUS
  <2>3. m - 1 \in Nat /\ m - 1 < m
    BY <2>1, <2>2
  <2> QED
    BY <1>2, <2>1, <2>3
<1>4. \E x \in S : \A y \in S : x >= y
  BY <1>3
<1>5. Max(S) \in S /\ \A y \in S : Max(S) >= y
  BY <1>4 DEF Max
<1> QED
  BY <1>5

LEMMA LastInIs ==
  ASSUME NEW cs, Len(cs) \in Nat, NEW x, NEW k \in Nat, NEW l
  PROVE  l = LastIn(cs, x, k) <=>
           \/ l = 0 /\ \A i \in k + 1 .. Len(cs) : cs[i].name # x
           \/ /\ l \in k + 1 .. Len(cs) /\ cs[l].name = x
              /\ \A i \in k + 1 .. Len(cs) : cs[i].name = x => i <= l
<1> DEFINE at == {i \in k + 1 .. Len(cs) : cs[i].name = x}
<1>1. CASE at = {}
  <2>1. LastIn(cs, x, k) = 0
    BY <1>1 DEF LastIn
  <2> QED
    BY <1>1, <2>1
<1>2. CASE at # {}
  <2>1. LastIn(cs, x, k) = Max(at)
    BY <1>2 DEF LastIn
  <2>2. at \in SUBSET (1 .. Len(cs))
    OBVIOUS
  <2>3. Max(at) \in at /\ \A i \in at : i <= Max(at)
    <3> HIDE DEF at
    <3> QED
      BY <1>2, <2>2, MaxIs
  <2>4. PICK n : n = Max(at)
    OBVIOUS
  <2>5. n \in at /\ \A i \in at : i <= n
    BY <2>3, <2>4
  <2> QED
    BY <2>1, <2>4, <2>5
<1> QED
  BY <1>1, <1>2

LEMMA LastInAppend ==
  ASSUME NEW cs \in Seq(CallRecord), NEW c \in CallRecord, NEW x
  PROVE  LET cs2 == Append(cs, c)
         IN  /\ \A k \in 0 .. Len(cs) :
                  LastIn(cs2, x, k) = IF c.name = x THEN Len(cs) + 1 ELSE LastIn(cs, x, k)
             /\ LastIn(cs2, x, Len(cs) + 1) = 0
             /\ \A k \in 0 .. Len(cs) : LastIn(cs, x, k) \in 0 .. Len(cs)
             /\ LastIn(cs, x, Len(cs)) = 0
<1> PICK cs2, n : cs2 = Append(cs, c) /\ n = Len(cs)
  OBVIOUS
<1>1. /\ n \in Nat /\ Len(cs) = n /\ Len(cs2) = n + 1 /\ cs2[n + 1] = c
      /\ \A i \in 1 .. n : cs2[i] = cs[i]
  OBVIOUS
<1>2. ASSUME NEW k \in 0 .. n
      PROVE  LastIn(cs, x, k) \in 0 .. n
  <2>1. PICK l : l = LastIn(cs, x, k)
    OBVIOUS
  <2>2. l = 0 \/ l \in k + 1 .. n
    BY <1>1, <2>1, LastInIs
  <2> QED
    BY <1>1, <2>1, <2>2
<1>3. ASSUME NEW k \in 0 .. n
      PROVE  LastIn(cs2, x, k) = IF c.name = x THEN n + 1 ELSE LastIn(cs, x, k)
  <2>1. PICK l, m : l = LastIn(cs, x, k) /\ m = (IF c.name = x THEN n + 1 ELSE l)
    OBVIOUS
  <2>2. \/ l = 0 /\ \A i \in k + 1 .. n : cs[i].name # x
        \/ /\ l \in k + 1 .. n /\ cs[l].name = x
           /\ \A i \in k + 1 .. n : cs[i].name = x => i <= l
    BY <1>1, <2>1, LastInIs
  <2>3. \A i \in k + 1 .. n + 1 : (i \in k + 1 .. n /\ cs2[i] = cs[i]) \/ (i = n + 1 /\ cs2[i] = c)
    BY <1>1
  <2>4. \/ m = 0 /\ \A i \in k + 1 .. n + 1 : cs2[i].name # x
        \/ /\ m \in k + 1 .. n + 1 /\ cs2[m].name = x
           /\ \A i \in k + 1 .. n + 1 : cs2[i].name = x => i <= m
    <3>1. CASE c.name = x
      BY <1>1, <2>1, <3>1
    <3>2. CASE c.name # x /\ l = 0
      BY <1>1, <2>1, <2>2, <2>3, <3>2
    <3>3. CASE c.name # x /\ l # 0
      <4>1. m = l /\ l \in k + 1 .. n /\ cs2[l] = cs[l] /\ cs[l].name = x
        BY <1>1, <2>1, <2>2, <3>3
      <4>2. \A i \in k + 1 .. n + 1 : cs2[i].name = x => i <= l
        BY <2>2, <2>3, <3>3
      <4> QED
        BY <1>1, <4>1, <4>2
    <3> QED
      BY <3>1, <3>2, <3>3
  <2>5. m = LastIn(cs2, x, k)
    <3>1. Len(cs2) \in Nat /\ k \in Nat
      BY <1>1
    <3>2. m = LastIn(cs2, x, k) <=>
            \/ m = 0 /\ \A i \in k + 1 .. Len(cs2) : cs2[i].name # x
            \/ /\ m \in k + 1 .. Len(cs2) /\ cs2[m].name = x
               /\ \A i \in k + 1 .. Len(cs2) : cs2[i].name = x => i <= m
      BY ONLY <3>1, LastInIs
    <3> QED
      BY <1>1, <2>4, <3>2
  <2> QED
    BY <2>1, <2>5
<1>4. LastIn(cs2, x, n + 1) = 0 /\ LastIn(cs, x, n) = 0
  <2>1. \A i \in (n + 1) + 1 .. n + 1 : FALSE
    BY <1>1
  <2>2. \A i \in n + 1 .. n : FALSE
    BY <1>1
  <2>3. n + 1 \in Nat /\ Len(cs2) \in Nat /\ Len(cs) \in Nat
    BY <1>1
  <2>4. (\A i \in (n + 1) + 1 .. Len(cs2) : cs2[i].name # x)
        /\ (\A i \in n + 1 .. Len(cs) : cs[i].name # x)
    BY <1>1, <2>1, <2>2
  <2>5. (\A i \in (n + 1) + 1 .. Len(cs2) : cs2[i].name # x)
          => 0 = LastIn(cs2, x, n + 1)
    BY ONLY <2>3, LastInIs
  <2>6. (\A i \in n + 1 .. Len(cs) : cs[i].name # x) => 0 = LastIn(cs, x, n)
    BY ONLY <1>1, <2>3, LastInIs
  <2> QED
    BY <2>4, <2>5, <2>6
<1> QED
  BY <1>2, <1>3, <1>4

ArgIn(cs, i) == IF i = 0 THEN <<>> ELSE cs[i].arg

(* The members of a response show the last calls of the list cs.           *)
Shown(cs, str1, str2, err, st) ==
  LET raw == LastIn(cs, "raw", 0)
      header == LastIn(cs, "header", raw)
      content == LastIn(cs, "content", raw)
  IN  /\ err = ArgIn(cs, LastIn(cs, "error", 0))
      /\ "header" \in st <=> header # 0
      /\ "content" \in st <=> content # 0
      /\ "raw" \in st <=> raw # 0 /\ header = 0 /\ content = 0
      /\ header # 0 => str1 = ArgIn(cs, header) \o EndOfHeader
      /\ "raw" \in st => str1 = ArgIn(cs, raw)
      /\ content # 0 => str2 = ArgIn(cs, content)

(* What a setter named c.name leaves in the members.                       *)
Sets(c, str1, str2, err, st, str1n, str2n, errn, stn) ==
  \/ /\ c.name = "header" /\ str1n = c.arg \o EndOfHeader /\ str2n = str2 /\ errn = err
     /\ stn = (st \cap {"content"}) \cup {"header"}
  \/ /\ c.name = "content" /\ str1n = str1 /\ str2n = c.arg /\ errn = err
     /\ stn = (st \cap {"header"}) \cup {"content"}
  \/ /\ c.name = "raw" /\ str1n = c.arg /\ str2n = str2 /\ errn = err /\ stn = {"raw"}
  \/ /\ c.name = "error" /\ str1n = str1 /\ str2n = str2 /\ errn = c.arg /\ stn = st

LEMMA CallShown ==
  ASSUME NEW cs \in Seq(CallRecord), NEW c \in CallRecord,
         NEW str1, NEW str2, NEW err, NEW st, NEW str1n, NEW str2n, NEW errn, NEW stn,
         Shown(cs, str1, str2, err, st),
         Sets(c, str1, str2, err, st, str1n, str2n, errn, stn)
  PROVE  Shown(Append(cs, c), str1n, str2n, errn, stn)
<1> PICK cs2, n : cs2 = Append(cs, c) /\ n = Len(cs)
  OBVIOUS
<1> PICK raw, header, content, error :
      /\ raw = LastIn(cs, "raw", 0) /\ header = LastIn(cs, "header", raw)
      /\ content = LastIn(cs, "content", raw) /\ error = LastIn(cs, "error", 0)
  OBVIOUS
<1>1. /\ n \in Nat /\ cs2[n + 1] = c
      /\ \A i \in 1 .. n : cs2[i] = cs[i]
  OBVIOUS
<1>2. \A x : /\ \A k \in 0 .. n :
                  LastIn(cs2, x, k) = IF c.name = x THEN n + 1 ELSE LastIn(cs, x, k)
             /\ LastIn(cs2, x, n + 1) = 0
             /\ \A k \in 0 .. n : LastIn(cs, x, k) \in 0 .. n
  <2> SUFFICES ASSUME NEW x
               PROVE  /\ \A k \in 0 .. n :
                           LastIn(cs2, x, k) = IF c.name = x THEN n + 1 ELSE LastIn(cs, x, k)
                      /\ LastIn(cs2, x, n + 1) = 0
                      /\ \A k \in 0 .. n : LastIn(cs, x, k) \in 0 .. n
    OBVIOUS
  <2>1. /\ \A k \in 0 .. Len(cs) :
             LastIn(Append(cs, c), x, k) =
               IF c.name = x THEN Len(cs) + 1 ELSE LastIn(cs, x, k)
        /\ LastIn(Append(cs, c), x, Len(cs) + 1) = 0
        /\ \A k \in 0 .. Len(cs) : LastIn(cs, x, k) \in 0 .. Len(cs)
    BY LastInAppend
  <2> QED
    BY <2>1
<1>3. raw \in 0 .. n /\ header \in 0 .. n /\ content \in 0 .. n /\ error \in 0 .. n
  <2>1. 0 \in 0 .. n
    BY <1>1
  <2>2. raw \in 0 .. n /\ error \in 0 .. n
    BY <1>2, <2>1
  <2> QED
    BY <1>2, <2>2
<1>4. /\ err = ArgIn(cs, error)
      /\ "header" \in st <=> header # 0
      /\ "content" \in st <=> content # 0
      /\ "raw" \in st <=> raw # 0 /\ header = 0 /\ content = 0
      /\ header # 0 => str1 = ArgIn(cs, header) \o EndOfHeader
      /\ "raw" \in st => str1 = ArgIn(cs, raw)
      /\ content # 0 => str2 = ArgIn(cs, content)
  BY DEF Shown
<1>5. (\A i \in 0 .. n : ArgIn(cs2, i) = ArgIn(cs, i)) /\ ArgIn(cs2, n + 1) = c.arg
      /\ n + 1 # 0
  BY <1>1 DEF ArgIn
<1> PICK raw2, header2, content2, error2 :
      /\ raw2 = LastIn(cs2, "raw", 0) /\ header2 = LastIn(cs2, "header", raw2)
      /\ content2 = LastIn(cs2, "content", raw2) /\ error2 = LastIn(cs2, "error", 0)
  OBVIOUS
<1>6. /\ raw2 = (IF c.name = "raw" THEN n + 1 ELSE raw)
      /\ error2 = (IF c.name = "error" THEN n + 1 ELSE error)
  <2>1. 0 \in 0 .. n
    BY <1>1
  <2> QED
    BY <1>2, <2>1
<1>7. CASE c.name = "raw"
  <2>1. /\ str1n = c.arg /\ str2n = str2 /\ errn = err /\ stn = {"raw"}
    BY <1>7 DEF Sets
  <2>2. raw2 = n + 1 /\ header2 = 0 /\ content2 = 0 /\ error2 = error
    BY <1>2, <1>6, <1>7
  <2>3. Shown(cs2, str1n, str2n, errn, stn)
    BY <1>3, <1>4, <1>5, <2>1, <2>2 DEF Shown
  <2> QED
    BY <2>3
<1>8. CASE c.name # "raw"
  <2>1. /\ raw2 = raw
        /\ header2 = (IF c.name = "header" THEN n + 1 ELSE header)
        /\ content2 = (IF c.name = "content" THEN n + 1 ELSE content)
    BY <1>2, <1>3, <1>6, <1>8
  <2>2. CASE c.name = "header"
    <3>1. /\ str1n = c.arg \o EndOfHeader /\ str2n = str2 /\ errn = err
          /\ stn = (st \cap {"content"}) \cup {"header"}
      BY <2>2 DEF Sets
    <3>2. header2 = n + 1 /\ content2 = content /\ error2 = error
      BY <1>6, <2>1, <2>2
    <3>3. Shown(cs2, str1n, str2n, errn, stn)
      BY <1>3, <1>4, <1>5, <2>1, <3>1, <3>2 DEF Shown
    <3> QED
      BY <3>3
  <2>3. CASE c.name = "content"
    <3>1. /\ str1n = str1 /\ str2n = c.arg /\ errn = err
          /\ stn = (st \cap {"header"}) \cup {"content"}
      BY <2>3 DEF Sets
    <3>2. header2 = header /\ content2 = n + 1 /\ error2 = error
      BY <1>6, <2>1, <2>3
    <3>3. Shown(cs2, str1n, str2n, errn, stn)
      BY <1>3, <1>4, <1>5, <2>1, <3>1, <3>2 DEF Shown
    <3> QED
      BY <3>3
  <2>4. CASE c.name = "error"
    <3>1. str1n = str1 /\ str2n = str2 /\ errn = c.arg /\ stn = st
      BY <2>4 DEF Sets
    <3>2. header2 = header /\ content2 = content /\ error2 = n + 1
      BY <1>6, <2>1, <2>4
    <3>3. Shown(cs2, str1n, str2n, errn, stn)
      BY <1>3, <1>4, <1>5, <2>1, <3>1, <3>2 DEF Shown
    <3> QED
      BY <3>3
  <2> QED
    BY <1>8, <2>2, <2>3, <2>4 DEF CallRecord
<1> QED
  BY <1>7, <1>8

(* The response invariant: the members show the calls made, and once they  *)
(* are written so do the streams.                                          *)
ResponseInv ==
  /\ Typed
  /\ calls \in Seq(CallRecord)
  /\ Shown(calls, m_str1, m_str2, m_error, m_source_type)
  /\ OutputAsCalled

LEMMA SetterKeeps ==
  ASSUME ResponseInv, NEW c \in CallRecord, NEW str1n, NEW str2n, NEW errn, NEW stn,
         Sets(c, m_str1, m_str2, m_error, m_source_type, str1n, str2n, errn, stn)
  PROVE  /\ str1n \in Seq(Nat) /\ str2n \in Seq(Nat) /\ errn \in Seq(Nat)
         /\ stn \subseteq {"raw", "header", "content"}
         /\ Append(calls, c) \in Seq(CallRecord)
         /\ Shown(Append(calls, c), str1n, str2n, errn, stn)
<1>1. c.arg \in Seq(Nat) /\ EndOfHeader \in Seq(Nat)
  BY FramingAssumption DEF CallRecord, EndOfHeader
<1>2. c.arg \o EndOfHeader \in Seq(Nat)
  BY <1>1, ConcatProperties
<1>3. str1n \in Seq(Nat) /\ str2n \in Seq(Nat) /\ errn \in Seq(Nat)
  BY <1>1, <1>2 DEF Sets, ResponseInv, Typed
<1>4. stn \subseteq {"raw", "header", "content"}
  BY DEF Sets, ResponseInv, Typed
<1> QED
  BY <1>3, <1>4, CallShown DEF ResponseInv

LEMMA WritesExpected ==
  ASSUME ResponseInv, writeOut, UNCHANGED calls
  PROVE  OutputAsCalled'
<1> PICK raw, header, content, error :
      /\ raw = LastIn(calls, "raw", 0) /\ header = LastIn(calls, "header", raw)
      /\ content = LastIn(calls, "content", raw) /\ error = LastIn(calls, "error", 0)
  OBVIOUS
<1>0. m_source_type \subseteq {"raw", "header", "content"}
  BY DEF ResponseInv, Typed
<1>1. /\ m_error = ArgIn(calls, error)
      /\ "header" \in m_source_type <=> header # 0
      /\ "content" \in m_source_type <=> content # 0
      /\ "raw" \in m_source_type <=> raw # 0 /\ header = 0 /\ content = 0
      /\ header # 0 => m_str1 = ArgIn(calls, header) \o EndOfHeader
      /\ "raw" \in m_source_type => m_str1 = ArgIn(calls, raw)
      /\ content # 0 => m_str2 = ArgIn(calls, content)
  BY DEF ResponseInv, Shown
<1>2. /\ Decoded("STDERR")' = m_error
      /\ Decoded("STDOUT")' =
           (IF ShowsFirst THEN m_str1 ELSE <<>>)
           \o (IF ShowsSecond THEN m_str2 ELSE <<>>)
  BY WriteOutDecodes DEF ResponseInv
<1>3. m_str1 \in Seq(Nat) /\ m_str2 \in Seq(Nat) /\ <<>> \in Seq(Nat)
  BY DEF ResponseInv, Typed
<1>4. Expected' =
        IF header = 0 /\ content = 0 THEN ArgIn(calls, raw)
        ELSE (IF header = 0 THEN <<>> ELSE ArgIn(calls, header) \o EndOfHeader)
             \o ArgIn(calls, content)
  BY DEF Expected, LastCall, LastIn, ArgOf, ArgIn
<1>5. ArgOf(LastCall("error", 0))' = ArgIn(calls, error)
  BY DEF LastCall, LastIn, ArgOf, ArgIn
<1>6. Decoded("STDOUT")' = Expected'
  <2>1. CASE header = 0 /\ content = 0 /\ raw = 0
    <3>1. ArgIn(calls, raw) = <<>> /\ <<>> \o <<>> = <<>>
      BY <2>1 DEF ArgIn
    <3>2. ~ ShowsFirst /\ ~ ShowsSecond
      BY <1>1, <2>1 DEF ShowsFirst, ShowsSecond
    <3> QED
      BY <1>2, <1>4, <2>1, <3>1, <3>2
  <2>2. CASE header = 0 /\ content = 0 /\ raw # 0
    <3>1. m_str1 = ArgIn(calls, raw) /\ m_str1 \o <<>> = m_str1
      BY <1>1, <1>3, <2>2, ConcatEmptySeq
    <3>2. m_source_type = {"raw"}
      BY <1>0, <1>1, <2>2
    <3>3. ShowsFirst /\ ~ ShowsSecond
      BY <3>2 DEF ShowsFirst, ShowsSecond
    <3> QED
      BY <1>2, <1>4, <2>2, <3>1, <3>3
  <2>3. CASE header # 0 \/ content # 0
    <3>1. /\ "raw" \notin m_source_type
          /\ ShowsFirst <=> header # 0
          /\ ShowsSecond <=> content # 0
      BY <1>1, <2>3 DEF ShowsFirst, ShowsSecond
    <3>2. (IF ShowsFirst THEN m_str1 ELSE <<>>)
            = (IF header = 0 THEN <<>> ELSE ArgIn(calls, header) \o EndOfHeader)
      BY <1>1, <3>1
    <3>3. (IF ShowsSecond THEN m_str2 ELSE <<>>) = ArgIn(calls, content)
      BY <1>1, <3>1 DEF ArgIn
    <3> QED
      BY <1>2, <1>4, <2>3, <3>2, <3>3
  <2> QED
    BY <2>1, <2>2, <2>3
<1> QED
  BY <1>1, <1>2, <1>5, <1>6 DEF OutputAsCalled

(* Whatever the order of the setters and whatever they set, the peer reads *)
(* what the last calls said.                                               *)
THEOREM OutputAsCalledAlways == MCSpec => []OutputAsCalled
<1>1. MCInit => ResponseInv
  <2> SUFFICES ASSUME MCInit PROVE ResponseInv
    OBVIOUS
  <2>1. Typed /\ calls = <<>> /\ calls \in Seq(CallRecord) /\ cashed = <<>>
    BY DEF MCInit, Init, Typed
  <2>2. \A x : LastIn(<<>>, x, 0) = 0
    <3>1. \A i \in 0 + 1 .. Len(<<>>) : FALSE
      OBVIOUS
    <3> QED
      BY <3>1 DEF LastIn
  <2>3. Shown(calls, m_str1, m_str2, m_error, m_source_type)
    BY <2>1, <2>2 DEF MCInit, Init, Shown, ArgIn
  <2> QED
    BY <2>1, <2>3 DEF ResponseInv, OutputAsCalled, Written
<1>2. ResponseInv /\ [MCNext]_vars => ResponseInv'
  <2> SUFFICES ASSUME ResponseInv, [MCNext]_vars PROVE ResponseInv'
    OBVIOUS
  <2>1. ASSUME NEW s \in Strings, NEW name \in {"header", "content", "raw", "error"},
               Call(name, s), UNCHANGED cashed,
               Sets([name |-> name, arg |-> s], m_str1, m_str2, m_error, m_source_type,
                    m_str1', m_str2', m_error', m_source_type')
        PROVE  ResponseInv'
    <3>1. PICK c : c = [name |-> name, arg |-> s]
      OBVIOUS
    <3>2. c \in CallRecord /\ calls' = Append(calls, c) /\ cashed' = <<>>
      BY <2>1, <3>1 DEF CallRecord, Call
    <3>3. /\ m_str1' \in Seq(Nat) /\ m_str2' \in Seq(Nat) /\ m_error' \in Seq(Nat)
          /\ m_source_type' \subseteq {"raw", "header", "content"}
          /\ calls' \in Seq(CallRecord)
          /\ Shown(calls', m_str1', m_str2', m_error', m_source_type')
      BY <2>1, <3>1, <3>2, SetterKeeps
    <3>4. OutputAsCalled'
      BY <3>2 DEF OutputAsCalled, Written
    <3>5. Shown(calls, m_str1, m_str2, m_error, m_source_type)'
      BY <3>3 DEF Shown, LastIn, ArgIn
    <3> QED
      BY <3>3, <3>4, <3>5 DEF ResponseInv, Typed
  <2>2. ASSUME NEW s \in Strings, Call("header", s) /\ setHeader(s) PROVE ResponseInv'
    <3>1. UNCHANGED cashed
          /\ Sets([name |-> "header", arg |-> s], m_str1, m_str2, m_error, m_source_type,
                  m_str1', m_str2', m_error', m_source_type')
      BY <2>2 DEF setHeader, Sets
    <3> QED
      BY <2>1, <2>2, <3>1
  <2>3. ASSUME NEW s \in Strings, Call("content", s) /\ setContent(s) PROVE ResponseInv'
    <3>1. UNCHANGED cashed
          /\ Sets([name |-> "content", arg |-> s], m_str1, m_str2, m_error, m_source_type,
                  m_str1', m_str2', m_error', m_source_type')
      BY <2>3 DEF setContent, Sets
    <3> QED
      BY <2>1, <2>3, <3>1
  <2>4. ASSUME NEW s \in Strings, Call("raw", s) /\ setRaw(s) PROVE ResponseInv'
    <3>1. UNCHANGED cashed
          /\ Sets([name |-> "raw", arg |-> s], m_str1, m_str2, m_error, m_source_type,
                  m_str1', m_str2', m_error', m_source_type')
      BY <2>4 DEF setRaw, Sets
    <3> QED
      BY <2>1, <2>4, <3>1
  <2>5. ASSUME NEW s \in Strings, Call("error", s) /\ setError(s) PROVE ResponseInv'
    <3>1. UNCHANGED cashed
          /\ Sets([name |-> "error", arg |-> s], m_str1, m_str2, m_error, m_source_type,
                  m_str1', m_str2', m_error', m_source_type')
      BY <2>5 DEF setError, Sets
    <3> QED
      BY <2>1, <2>5, <3>1
  <2>6. ASSUME UNCHANGED <<m_str1, m_str2, m_error, m_source_type, calls>>
        PROVE  Shown(calls, m_str1, m_str2, m_error, m_source_type)'
    <3>1. Shown(calls', m_str1', m_str2', m_error', m_source_type')
      BY <2>6 DEF ResponseInv
    <3> QED
      BY <3>1 DEF Shown, LastIn, ArgIn
  <2>7. CASE writeOut /\ UNCHANGED calls
    <3>1. /\ UNCHANGED <<m_str1, m_str2, m_error, m_source_type, calls>>
          /\ OutputAsCalled'
      BY <2>7, WritesExpected DEF writeOut
    <3> QED
      BY <2>6, <3>1 DEF ResponseInv, Typed
  <2>8. CASE UNCHANGED vars
    <3>1. UNCHANGED <<m_str1, m_str2, m_error, m_source_type, cashed, calls>>
      BY <2>8 DEF vars, responseVars
    <3>2. Decoded("STDOUT")' = Decoded("STDOUT") /\ Decoded("STDERR")' = Decoded("STDERR")
      BY <3>1 DEF Decoded
    <3>3. Expected' = Expected
          /\ ArgOf(LastCall("error", 0))' = ArgOf(LastCall("error", 0))
      BY <3>1 DEF Expected, LastCall, ArgOf
    <3>4. OutputAsCalled'
      BY <3>1, <3>2, <3>3 DEF ResponseInv, OutputAsCalled, Written
    <3> QED
      BY <2>6, <3>1, <3>4 DEF ResponseInv, Typed
  <2> QED
    BY <2>2, <2>3, <2>4, <2>5, <2>7, <2>8 DEF MCNext
<1>3. ResponseInv => OutputAsCalled
  BY DEF ResponseInv
<1> QED
  BY <1>1, <1>2, <1>3, PTL DEF MCSpec
=============================================================================
