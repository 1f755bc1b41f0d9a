------------------------------ MODULE EchoProofs -------------------------------
(***************************************************************************)
(* The one sender of echo mode is right for any peers, descriptors, kernel *)
(* buffers and inputs: its writer (WriterIffCached), the order of all it   *)
(* sends (OutputInOrder) and whose bytes a peer reads (OwnUntilFull).      *)
(***************************************************************************)
EXTENDS Echo, SequenceTheorems, FiniteSetTheorems, TLAPS

Byte == [src : Clients, pos : Nat]
sent == Len(owed) - Len(mBuffer)

TypeInv ==
  /\ DOMAIN fdtab \in Limits
  /\ fdtab \in [DOMAIN fdtab -> Clients \cup {NULL}]
  /\ sentIn \in [Clients -> Int] /\ readIn \in [Clients -> Nat]
  /\ link \in [Clients -> {"up", "fin", "rst"}]
  /\ sndq \in [Clients -> Seq(Byte)] /\ got \in [Clients -> Seq(Byte)]
  /\ mBuffer \in Seq(Byte) /\ owed \in Seq(Byte)
  /\ abandoned \in BOOLEAN

(* The kernel never holds more than it takes.                              *)
NoExcess == \A c \in Clients : Len(sndq[c]) <= SndBuf

(* Every open connection has its reader, every watcher and pending event   *)
(* is the server's, an open connection's reader's or the writer's.         *)
Watched ==
  /\ m_handlers = [fd \in DOMAIN fdtab |->
                     IF fdtab[fd] = NULL THEN NULL ELSE Reader(fd)]
  /\ \A w \in watchers \cup pending :
       \/ w = Accepter
       \/ \E fd \in DOMAIN fdtab : fdtab[fd] # NULL /\ w = Reader(fd)
       \/ m_write_handler # NULL /\ w = m_write_handler

(* The writer stays in the loop unless its peer left with output cached.   *)
OneWriter ==
  /\ m_write_handler = NULL <=> mBuffer = <<>>
  /\ m_write_handler # NULL =>
       \E fd \in DOMAIN fdtab :
         m_write_handler = [kind |-> "write", fd |-> fd, n |-> 0]
  /\ m_write_handler # NULL => m_write_handler \in watchers \/ abandoned

(* Unless a peer left, the writer's is there, and the kernel refused it    *)
(* bytes or it was reset.                                                  *)
Refused ==
  m_write_handler # NULL /\ ~ abandoned =>
    LET c == fdtab[m_write_handler.fd]
    IN  c # NULL /\ (link[c] = "rst" \/ Len(Stream(c)) >= SndBuf)

(* OutputInOrder, place by place.                                          *)
Owed ==
  /\ \A i \in 1 .. Len(owed) : owed[i].pos <= readIn[owed[i].src]
  /\ \A i, j \in 1 .. Len(owed) : owed[i] = owed[j] => i = j
  /\ Len(mBuffer) <= Len(owed)
  /\ \A i \in 1 .. Len(mBuffer) : mBuffer[i] = owed[sent + i]

\* The first n[c] places of st[c] are of the first s of out, in its order and
\* of one c only; and all of those are there.
Placed(st, n, out, s) ==
  /\ \A c \in Clients : \A i \in 1 .. n[c] : \E p \in 1 .. s : st[c][i] = out[p]
  /\ \A c \in Clients : \A i, j \in 1 .. n[c] : \A p, q \in 1 .. s :
       i < j /\ st[c][i] = out[p] /\ st[c][j] = out[q] => p < q
  /\ \A c, d \in Clients : c # d =>
       \A i \in 1 .. n[c], j \in 1 .. n[d] : st[c][i] # st[d][j]
Covered(st, n, out, s) ==
  \A p \in 1 .. s : \E c \in Clients : \E i \in 1 .. n[c] : st[c][i] = out[p]

Streams == [c \in Clients |-> Stream(c)]
Lens == [c \in Clients |-> Len(Stream(c))]
Streamed ==
  /\ Placed(Streams, Lens, owed, sent)
  /\ (\A c \in Clients : link[c] # "rst") => Covered(Streams, Lens, owed, sent)

IInv ==
  /\ TypeInv /\ NoExcess /\ Watched /\ OneWriter
  /\ Refused /\ OwnUntilFull
  /\ Owed /\ Streamed

LEMMA InitIInv == Init => IInv
<1> SUFFICES ASSUME Init PROVE IInv
  OBVIOUS
<1>1. PICK fds \in Limits : /\ fdtab = [fd \in fds |-> NULL]
                            /\ m_handlers = [fd \in fds |-> NULL]
  BY DEF Init
<1>2. TypeInv
  <2>1. DOMAIN fdtab \in Limits /\ fdtab \in [DOMAIN fdtab -> Clients \cup {NULL}]
    BY <1>1
  <2>2. <<>> \in Seq(Byte)
    BY EmptySeq
  <2>3. /\ sndq \in [Clients -> Seq(Byte)] /\ got \in [Clients -> Seq(Byte)]
        /\ mBuffer \in Seq(Byte) /\ owed \in Seq(Byte)
    <3>1. /\ sndq = [c \in Clients |-> <<>>] /\ got = [c \in Clients |-> <<>>]
          /\ mBuffer = <<>> /\ owed = <<>>
      BY DEF Init
    <3> QED
      BY <2>2, <3>1
  <2>4. /\ sentIn \in [Clients -> Int] /\ readIn \in [Clients -> Nat]
        /\ link \in [Clients -> {"up", "fin", "rst"}] /\ abandoned \in BOOLEAN
    <3>1. /\ sentIn = [c \in Clients |-> 0] /\ readIn = [c \in Clients |-> 0]
          /\ link = [c \in Clients |-> "up"] /\ abandoned = FALSE
      BY DEF Init
    <3>2. sentIn \in [Clients -> Int]
      BY <3>1
    <3>3. readIn \in [Clients -> Nat]
      BY <3>1
    <3>4. link \in [Clients -> {"up", "fin", "rst"}]
      BY <3>1
    <3> QED
      BY <3>1, <3>2, <3>3, <3>4
  <2> QED
    BY <2>1, <2>3, <2>4 DEF TypeInv
<1>3. \A c \in Clients : Stream(c) = <<>> /\ Len(sndq[c]) = 0
  BY DEF Init, Stream
<1>4. NoExcess /\ OwnUntilFull
  BY <1>3, EchoAssumption DEF NoExcess, OwnUntilFull
<1>5. Watched /\ OneWriter /\ Refused
  BY <1>1 DEF Init, Watched, OneWriter, Refused
<1>6. Owed /\ Streamed
  <2>1. Len(owed) = 0 /\ Len(mBuffer) = 0 /\ sent = 0
    BY DEF Init, sent
  <2>2. \A c \in Clients : Lens[c] = 0
    BY <1>3 DEF Lens
  <2>3. Placed(Streams, Lens, owed, sent) /\ Covered(Streams, Lens, owed, sent)
    BY <2>1, <2>2 DEF Placed, Covered
  <2> QED
    BY <2>1, <2>3 DEF Owed, Streamed
<1> QED
  BY <1>2, <1>4, <1>5, <1>6 DEF IInv

-----------------------------------------------------------------------------
(* What steps do to the output.                                            *)

LEMMA Joined ==
  ASSUME NEW S, NEW s \in Seq(S), NEW t \in Seq(S)
  PROVE  /\ s \o t \in Seq(S) /\ Len(s \o t) = Len(s) + Len(t)
         /\ \A i \in 1 .. Len(s) : (s \o t)[i] = s[i]
         /\ \A i \in 1 .. Len(t) : (s \o t)[Len(s) + i] = t[i]
<1>1. Len(s) \in Nat /\ Len(t) \in Nat
  BY LenProperties
<1>2. /\ s \o t \in Seq(S) /\ Len(s \o t) = Len(s) + Len(t)
      /\ \A i \in 1 .. Len(s) + Len(t) :
           (s \o t)[i] = IF i <= Len(s) THEN s[i] ELSE t[i - Len(s)]
  BY ConcatProperties
<1>3. ASSUME NEW i \in 1 .. Len(t) PROVE (s \o t)[Len(s) + i] = t[i]
  <2>1. /\ Len(s) + i \in 1 .. Len(s) + Len(t) /\ ~ (Len(s) + i <= Len(s))
        /\ Len(s) + i - Len(s) = i
    BY <1>1
  <2> QED
    BY <1>2, <2>1
<1>4. ASSUME NEW i \in 1 .. Len(s) PROVE (s \o t)[i] = s[i]
  <2>1. i \in 1 .. Len(s) + Len(t) /\ i <= Len(s)
    BY <1>1
  <2> QED
    BY <1>2, <2>1
<1> QED
  BY <1>2, <1>3, <1>4

LEMMA StreamType ==
  ASSUME TypeInv, NEW c \in Clients
  PROVE  /\ Stream(c) \in Seq(Byte)
         /\ Len(Stream(c)) = Len(got[c]) + Len(sndq[c])
         /\ Len(got[c]) \in Nat /\ Len(sndq[c]) \in Nat
         /\ \A i \in 1 .. Len(Stream(c)) :
              Stream(c)[i] = IF i <= Len(got[c]) THEN got[c][i]
                             ELSE sndq[c][i - Len(got[c])]
<1>1. got[c] \in Seq(Byte) /\ sndq[c] \in Seq(Byte)
  BY DEF TypeInv
<1> QED
  BY ZenonT(60), <1>1, ConcatProperties, LenProperties DEF Stream

(* The kernel takes more bytes for c.                                      *)
Takes(c, more) ==
  /\ got' = got
  /\ sndq' = [sndq EXCEPT ![c] = @ \o more]

LEMMA Taken ==
  ASSUME TypeInv, NEW c \in Clients, NEW more \in Seq(Byte), Takes(c, more)
  PROVE  /\ sndq' \in [Clients -> Seq(Byte)]
         /\ Len(sndq'[c]) = Len(sndq[c]) + Len(more)
         /\ Len(Stream(c)') = Len(Stream(c)) + Len(more)
         /\ \A i \in 1 .. Len(Stream(c)) : Stream(c)'[i] = Stream(c)[i]
         /\ \A i \in 1 .. Len(more) : Stream(c)'[Len(Stream(c)) + i] = more[i]
         /\ \A d \in Clients \ {c} : Stream(d)' = Stream(d) /\ sndq'[d] = sndq[d]
<1>1. got[c] \in Seq(Byte) /\ sndq[c] \in Seq(Byte)
  BY DEF TypeInv
<1>2. /\ sndq'[c] = sndq[c] \o more /\ got'[c] = got[c]
      /\ \A d \in Clients \ {c} : sndq'[d] = sndq[d] /\ got'[d] = got[d]
  BY DEF Takes, TypeInv
<1>3. sndq[c] \o more \in Seq(Byte) /\ Len(sndq[c] \o more) = Len(sndq[c]) + Len(more)
  BY <1>1, ConcatProperties
<1>4. (got[c] \o sndq[c]) \o more = got[c] \o (sndq[c] \o more)
  <2>1. \A s, t, u \in Seq(Byte) : (s \o t) \o u = s \o (t \o u)
    BY ConcatAssociative
  <2> QED
    BY <1>1, <2>1
<1>5. Stream(c)' = Stream(c) \o more
  BY <1>2, <1>4 DEF Stream
<1>6. /\ Len(Stream(c) \o more) = Len(Stream(c)) + Len(more)
      /\ \A i \in 1 .. Len(Stream(c)) : (Stream(c) \o more)[i] = Stream(c)[i]
      /\ \A i \in 1 .. Len(more) : (Stream(c) \o more)[Len(Stream(c)) + i] = more[i]
  BY StreamType, Joined
<1>7. \A d \in Clients \ {c} : Stream(d)' = Stream(d) /\ sndq'[d] = sndq[d]
  BY <1>2 DEF Stream
<1>8. sndq' \in [Clients -> Seq(Byte)]
  BY <1>3 DEF Takes, TypeInv
<1> QED
  BY <1>2, <1>3, <1>5, <1>6, <1>7, <1>8

(* A line of output is cut after k bytes.                                  *)
LEMMA Cut ==
  ASSUME NEW S, NEW line \in Seq(S), NEW k \in 0 .. Len(line)
  PROVE  /\ SubSeq(line, 1, k) \in Seq(S) /\ Len(SubSeq(line, 1, k)) = k
         /\ \A i \in 1 .. k : SubSeq(line, 1, k)[i] = line[i]
         /\ SubSeq(line, k + 1, Len(line)) \in Seq(S)
         /\ Len(SubSeq(line, k + 1, Len(line))) = Len(line) - k
         /\ \A i \in 1 .. Len(line) - k :
              SubSeq(line, k + 1, Len(line))[i] = line[k + i]
<1>1. /\ Len(line) \in Nat /\ k \in Nat /\ k + 1 \in Int /\ k <= Len(line)
      /\ \A i \in 1 .. Len(line) : line[i] \in S
  BY LenProperties, ElementOfSeq
<1>2. /\ SubSeq(line, 1, k) \in Seq(S)
      /\ Len(SubSeq(line, 1, k)) = IF 1 <= k THEN k - 1 + 1 ELSE 0
      /\ \A i \in 1 .. k - 1 + 1 : SubSeq(line, 1, k)[i] = line[1 + i - 1]
  <2>1. \A i \in 1 .. k : line[i] \in S
    BY <1>1
  <2> QED
    BY <1>1, <2>1, SubSeqProperties
<1> DEFINE m == k + 1
<1>3. /\ SubSeq(line, m, Len(line)) \in Seq(S)
      /\ Len(SubSeq(line, m, Len(line))) =
           IF m <= Len(line) THEN Len(line) - m + 1 ELSE 0
      /\ \A i \in 1 .. Len(line) - m + 1 :
           SubSeq(line, m, Len(line))[i] = line[m + i - 1]
  <2>1. m \in Int /\ \A i \in m .. Len(line) : line[i] \in S
    BY <1>1
  <2> HIDE DEF m
  <2> QED
    BY <1>1, <2>1, SubSeqProperties
<1>4. \A i \in 1 .. k : SubSeq(line, 1, k)[i] = line[i]
  <2> TAKE i \in 1 .. k
  <2>1. i \in 1 .. k - 1 + 1 /\ 1 + i - 1 = i
    BY <1>1
  <2> QED
    BY <1>2, <2>1
<1>5. \A i \in 1 .. Len(line) - k : SubSeq(line, m, Len(line))[i] = line[k + i]
  <2> TAKE i \in 1 .. Len(line) - k
  <2>1. i \in 1 .. Len(line) - m + 1 /\ m + i - 1 = k + i
    BY <1>1
  <2> QED
    BY <1>3, <2>1
<1>6. Len(SubSeq(line, 1, k)) = k /\ Len(SubSeq(line, m, Len(line))) = Len(line) - k
  BY <1>1, <1>2, <1>3
<1> QED
  BY <1>2, <1>3, <1>4, <1>5, <1>6

(* The sender owes out, too, and the kernel takes the first k bytes of all *)
(* it has for c.                                                           *)
Output(c, out, k) ==
  /\ owed' = owed \o out
  /\ mBuffer' = SubSeq(mBuffer \o out, k + 1, Len(mBuffer \o out))
  /\ Takes(c, SubSeq(mBuffer \o out, 1, k))

(* It is new and was received by now.                                      *)
New(out) ==
  /\ \A i \in 1 .. Len(out) : /\ readIn[out[i].src] < out[i].pos
                              /\ out[i].pos <= readIn'[out[i].src]
  /\ \A i, j \in 1 .. Len(out) : out[i] = out[j] => i = j

(* c gets the next k of out.                                               *)
LEMMA PlacedMore ==
  ASSUME NEW c \in Clients, NEW s \in Nat, NEW k \in Nat,
         NEW out, NEW out2, \A p \in 1 .. s : out2[p] = out[p],
         \A p, q \in 1 .. s + k : out2[p] = out2[q] => p = q,
         NEW n \in [Clients -> Nat], NEW n2 \in [Clients -> Nat],
         NEW st, NEW st2,
         \A d \in Clients \ {c} : st2[d] = st[d] /\ n2[d] = n[d],
         n2[c] = n[c] + k,
         \A i \in 1 .. n[c] : st2[c][i] = st[c][i],
         \A i \in 1 .. k : st2[c][n[c] + i] = out2[s + i]
  PROVE  /\ Placed(st, n, out, s) => Placed(st2, n2, out2, s + k)
         /\ Covered(st, n, out, s) => Covered(st2, n2, out2, s + k)
<1>1. \A d \in Clients : n[d] \in Nat /\ n2[d] \in Nat
  OBVIOUS
<1>2. \A d \in Clients : \A i \in 1 .. n2[d] :
        \/ i \in 1 .. n[d] /\ st2[d][i] = st[d][i]
        \/ /\ d = c /\ i > n[c] /\ i - n[c] \in 1 .. k
           /\ st2[d][i] = out2[s + (i - n[c])]
  <2> TAKE d \in Clients
  <2> TAKE i \in 1 .. n2[d]
  <2>1. CASE d # c \/ i <= n[c]
    BY <1>1, <2>1
  <2>2. CASE d = c /\ i > n[c]
    <3>1. i - n[c] \in 1 .. k /\ n[c] + (i - n[c]) = i
      BY <1>1, <2>2
    <3> QED
      BY <2>2, <3>1
  <2> QED
    BY <1>1, <2>1, <2>2
<1>3. ASSUME Placed(st, n, out, s) PROVE Placed(st2, n2, out2, s + k)
  <2>0. \A d \in Clients : \A i \in 1 .. n[d] : \E p \in 1 .. s : st[d][i] = out2[p]
    BY <1>3 DEF Placed
  <2>1. \A d \in Clients : \A i \in 1 .. n2[d] : \E p \in 1 .. s + k :
          /\ st2[d][i] = out2[p]
          /\ IF i \in 1 .. n[d] /\ st2[d][i] = st[d][i] THEN p <= s
             ELSE d = c /\ i > n[c] /\ p = s + (i - n[c])
    <3> TAKE d \in Clients
    <3> TAKE i \in 1 .. n2[d]
    <3>1. CASE i \in 1 .. n[d] /\ st2[d][i] = st[d][i]
      <4>1. PICK p \in 1 .. s : st[d][i] = out2[p]
        BY <2>0, <3>1
      <4>2. p \in 1 .. s + k /\ p <= s
        OBVIOUS
      <4> QED
        BY <3>1, <4>1, <4>2
    <3>2. CASE /\ ~ (i \in 1 .. n[d] /\ st2[d][i] = st[d][i])
               /\ d = c /\ i > n[c] /\ i - n[c] \in 1 .. k
               /\ st2[d][i] = out2[s + (i - n[c])]
      <4>1. s + (i - n[c]) \in 1 .. s + k
        BY <1>1, <3>2
      <4> QED
        BY <3>2, <4>1
    <3> QED
      BY <1>2, <3>1, <3>2
  <2>2. ASSUME NEW d \in Clients, NEW i \in 1 .. n2[d], NEW j \in 1 .. n2[d],
               NEW p \in 1 .. s + k, NEW q \in 1 .. s + k,
               i < j, st2[d][i] = out2[p], st2[d][j] = out2[q]
        PROVE  p < q
    <3>1. PICK a \in 1 .. s + k :
            /\ st2[d][i] = out2[a]
            /\ IF i \in 1 .. n[d] /\ st2[d][i] = st[d][i] THEN a <= s
               ELSE d = c /\ i > n[c] /\ a = s + (i - n[c])
      BY <2>1
    <3>2. PICK b \in 1 .. s + k :
            /\ st2[d][j] = out2[b]
            /\ IF j \in 1 .. n[d] /\ st2[d][j] = st[d][j] THEN b <= s
               ELSE d = c /\ j > n[c] /\ b = s + (j - n[c])
      BY <2>1
    <3>3. a = p /\ b = q
      <4>1. out2[a] = out2[p] /\ out2[b] = out2[q]
        BY <2>2, <3>1, <3>2
      <4> QED
        BY <4>1
    <3>4. CASE b > s
      BY <1>1, <2>2, <3>1, <3>2, <3>3, <3>4
    <3>5. CASE b <= s
      <4>1. j \in 1 .. n[d] /\ st2[d][j] = st[d][j]
        BY <1>1, <3>2, <3>5
      <4>2. i \in 1 .. n[d] /\ st2[d][i] = st[d][i]
        BY <1>1, <1>2, <2>2, <4>1
      <4>3. a \in 1 .. s /\ b \in 1 .. s
        BY <3>1, <3>5, <4>2
      <4>4. st[d][i] = out[a] /\ st[d][j] = out[b]
        BY <3>1, <3>2, <4>1, <4>2, <4>3
      <4>5. a < b
        BY <1>3, <2>2, <4>1, <4>2, <4>3, <4>4 DEF Placed
      <4> QED
        BY <3>3, <4>5
    <3> QED
      BY <3>4, <3>5
  <2>3. ASSUME NEW d \in Clients, NEW e \in Clients, d # e, e # c,
               NEW i \in 1 .. n2[d], NEW j \in 1 .. n2[e]
        PROVE  st2[d][i] # st2[e][j]
    <3>1. j \in 1 .. n[e] /\ st2[e][j] = st[e][j]
      BY <1>2, <2>3
    <3>2. CASE i \in 1 .. n[d] /\ st2[d][i] = st[d][i]
      BY <1>3, <2>3, <3>1, <3>2 DEF Placed
    <3>3. CASE ~ (i \in 1 .. n[d] /\ st2[d][i] = st[d][i])
      <4>1. PICK p \in 1 .. s + k : st2[d][i] = out2[p] /\ p > s
        BY <1>1, <1>2, <2>1, <3>3
      <4>2. PICK q \in 1 .. s : st[e][j] = out2[q]
        BY <2>0, <3>1
      <4>3. q \in 1 .. s + k /\ p # q
        BY <4>1
      <4> QED
        BY <3>1, <4>1, <4>2, <4>3
    <3> QED
      BY <3>2, <3>3
  <2>4. \A d, e \in Clients : d # e =>
          \A i \in 1 .. n2[d], j \in 1 .. n2[e] : st2[d][i] # st2[e][j]
    BY <2>3
  <2> QED
    BY <2>1, <2>2, <2>4 DEF Placed
<1>4. ASSUME Covered(st, n, out, s), NEW p \in 1 .. s + k
      PROVE  \E d \in Clients : \E i \in 1 .. n2[d] : st2[d][i] = out2[p]
  <2>1. CASE p <= s
    <3>1. p \in 1 .. s /\ out2[p] = out[p]
      BY <2>1
    <3>2. PICK d \in Clients : \E i \in 1 .. n[d] : st[d][i] = out[p]
      BY <1>4, <3>1 DEF Covered
    <3>3. PICK i \in 1 .. n[d] : st[d][i] = out[p]
      BY <3>2
    <3>4. i \in 1 .. n2[d] /\ st2[d][i] = st[d][i]
      BY <1>1
    <3> QED
      BY <3>1, <3>3, <3>4
  <2>2. CASE p > s
    <3>1. /\ p - s \in 1 .. k /\ s + (p - s) = p
          /\ n[c] + (p - s) \in 1 .. n2[c]
      BY <1>1, <2>2
    <3>2. st2[c][n[c] + (p - s)] = out2[s + (p - s)]
      BY <3>1
    <3> QED
      BY <3>1, <3>2
  <2> QED
    BY <2>1, <2>2
<1> QED
  BY <1>3, <1>4 DEF Covered

(* The order is kept if out is new.                                        *)
LEMMA OutputStep ==
  ASSUME TypeInv, Owed, Streamed, NEW c \in Clients, NEW out \in Seq(Byte),
         NEW k \in 0 .. Len(mBuffer) + Len(out), Output(c, out, k), New(out),
         link' = link, readIn' \in [Clients -> Nat],
         \A d \in Clients : readIn[d] <= readIn'[d]
  PROVE  /\ Owed' /\ Streamed'
         /\ owed' \in Seq(Byte) /\ mBuffer' \in Seq(Byte)
         /\ SubSeq(mBuffer \o out, 1, k) \in Seq(Byte)
         /\ Len(SubSeq(mBuffer \o out, 1, k)) = k
         /\ Len(mBuffer') = Len(mBuffer) + Len(out) - k
<1> DEFINE line == mBuffer \o out
           more == SubSeq(line, 1, k)
<1>1. /\ Len(owed) \in Nat /\ Len(mBuffer) \in Nat /\ Len(out) \in Nat
      /\ sent \in Nat /\ Len(owed) = sent + Len(mBuffer)
      /\ owed \in Seq(Byte) /\ mBuffer \in Seq(Byte)
  BY LenProperties DEF TypeInv, Owed, sent
<1>2. /\ line \in Seq(Byte) /\ Len(line) = Len(mBuffer) + Len(out)
      /\ \A i \in 1 .. Len(mBuffer) : line[i] = mBuffer[i]
      /\ \A i \in 1 .. Len(out) : line[Len(mBuffer) + i] = out[i]
  BY <1>1, Joined
<1>3. /\ owed' \in Seq(Byte) /\ Len(owed') = Len(owed) + Len(out)
      /\ \A i \in 1 .. Len(owed) : owed'[i] = owed[i]
      /\ \A i \in 1 .. Len(out) : owed'[Len(owed) + i] = out[i]
  <2>1. owed' = owed \o out
    BY DEF Output
  <2> QED
    <3>1. /\ owed \o out \in Seq(Byte) /\ Len(owed \o out) = Len(owed) + Len(out)
          /\ \A i \in 1 .. Len(owed) : (owed \o out)[i] = owed[i]
          /\ \A i \in 1 .. Len(out) : (owed \o out)[Len(owed) + i] = out[i]
      <4>1. owed \in Seq(Byte) /\ out \in Seq(Byte)
        BY <1>1
      <4> QED
        BY <4>1, Joined
    <3> QED
      BY <2>1, <3>1
<1>4. /\ mBuffer' \in Seq(Byte) /\ Len(mBuffer') = Len(line) - k
      /\ \A i \in 1 .. Len(mBuffer') : mBuffer'[i] = line[k + i]
      /\ more \in Seq(Byte) /\ Len(more) = k
      /\ \A i \in 1 .. k : more[i] = line[i]
  <2>1. mBuffer' = SubSeq(line, k + 1, Len(line)) /\ k \in 0 .. Len(line)
    BY <1>2 DEF Output
  <2> HIDE DEF line
  <2> QED
    BY <1>2, <2>1, Cut
<1>0. Takes(c, more)
  BY DEF Output
<1> HIDE DEF line, more
<1>5. \A i \in 1 .. Len(line) : line[i] = owed'[sent + i]
  <2> TAKE i \in 1 .. Len(line)
  <2>1. CASE i <= Len(mBuffer)
    <3>1. i \in 1 .. Len(mBuffer) /\ sent + i \in 1 .. Len(owed)
      BY <1>1, <2>1
    <3> QED
      BY <1>2, <1>3, <3>1 DEF Owed
  <2>2. CASE i > Len(mBuffer)
    <3>0. i - Len(mBuffer) \in 1 .. Len(out) /\ i = Len(mBuffer) + (i - Len(mBuffer))
      BY <1>1, <1>2, <2>2
    <3>1. PICK j \in 1 .. Len(out) : i = Len(mBuffer) + j
      BY <3>0
    <3>2. sent + i = Len(owed) + j
      BY <1>1, <3>1
    <3>3. line[Len(mBuffer) + j] = out[j] /\ owed'[Len(owed) + j] = out[j]
      BY <1>2, <1>3
    <3> QED
      BY <3>1, <3>2, <3>3
  <2> QED
    BY <1>1, <2>1, <2>2
<1>6. sent' = sent + k /\ k \in 0 .. Len(line) /\ k \in Nat
  BY <1>1, <1>2, <1>3, <1>4 DEF sent
<1>7. \A p \in 1 .. Len(owed') :
        \/ p \in 1 .. Len(owed) /\ owed'[p] = owed[p]
        \/ p > Len(owed) /\ \E i \in 1 .. Len(out) : p = Len(owed) + i /\ owed'[p] = out[i]
  <2> TAKE p \in 1 .. Len(owed')
  <2>1. CASE p <= Len(owed)
    BY <1>1, <1>3, <2>1
  <2>2. CASE p > Len(owed)
    <3>1. p - Len(owed) \in 1 .. Len(out) /\ p = Len(owed) + (p - Len(owed))
      BY <1>1, <1>3, <2>2
    <3> QED
      BY <1>3, <2>2, <3>1
  <2> QED
    BY <1>1, <2>1, <2>2
<1>8. \A p, q \in 1 .. Len(owed') : owed'[p] = owed'[q] => p = q
  <2>1. \A i \in 1 .. Len(owed), j \in 1 .. Len(out) : owed[i] # out[j]
    <3> TAKE i \in 1 .. Len(owed), j \in 1 .. Len(out)
    <3>1. owed[i] \in Byte /\ out[j] \in Byte
      BY <1>1, ElementOfSeq
    <3>2. owed[i].pos <= readIn[owed[i].src] /\ readIn[out[j].src] < out[j].pos
      BY DEF Owed, New
    <3>3. owed[i].pos \in Nat /\ readIn[owed[i].src] \in Nat
      BY <3>1 DEF Byte, TypeInv
    <3> QED
      BY SMTT(30), <3>2, <3>3
  <2>2. \A i, j \in 1 .. Len(owed) : owed[i] = owed[j] => i = j
    BY DEF Owed
  <2>3. \A i, j \in 1 .. Len(out) : out[i] = out[j] => i = j
    BY DEF New
  <2> SUFFICES ASSUME NEW p \in 1 .. Len(owed'), NEW q \in 1 .. Len(owed'),
                      owed'[p] = owed'[q]
               PROVE  p = q
    OBVIOUS
  <2>4. CASE p \in 1 .. Len(owed) /\ owed'[p] = owed[p]
    BY <1>7, <2>1, <2>2, <2>4
  <2>5. CASE \E i \in 1 .. Len(out) : p = Len(owed) + i /\ owed'[p] = out[i]
    BY <1>7, <2>1, <2>3, <2>5
  <2> QED
    BY <1>7, <2>4, <2>5
<1>9. \A p \in 1 .. Len(owed') : owed'[p].pos <= readIn'[owed'[p].src]
  <2> TAKE p \in 1 .. Len(owed')
  <2>1. CASE p \in 1 .. Len(owed) /\ owed'[p] = owed[p]
    <3>1. owed[p] \in Byte /\ owed[p].pos <= readIn[owed[p].src]
      BY <1>1, <2>1, ElementOfSeq DEF Owed
    <3>2. owed[p].src \in Clients /\ owed[p].pos \in Nat
      BY <3>1 DEF Byte
    <3>3. readIn[owed[p].src] \in Nat /\ readIn'[owed[p].src] \in Nat
      BY <3>2 DEF TypeInv
    <3> QED
      BY <2>1, <3>1, <3>2, <3>3
  <2>2. CASE \E i \in 1 .. Len(out) : owed'[p] = out[i]
    BY <2>2 DEF New
  <2> QED
    BY <1>7, <2>1, <2>2
<1>10. Owed'
  <2>1. Len(mBuffer') <= Len(owed')
    BY <1>1, <1>2, <1>3, <1>4, <1>6
  <2>2. \A i \in 1 .. Len(mBuffer') : mBuffer'[i] = owed'[sent' + i]
    <3> TAKE i \in 1 .. Len(mBuffer')
    <3>1. k + i \in 1 .. Len(line) /\ sent + (k + i) = sent' + i
      BY <1>1, <1>2, <1>4, <1>6
    <3> QED
      BY <1>4, <1>5, <3>1
  <2> QED
    BY <1>8, <1>9, <2>1, <2>2 DEF Owed
<1>11. Streamed'
  <2>1. /\ \A p \in 1 .. sent : owed'[p] = owed[p]
        /\ \A p, q \in 1 .. sent + k : owed'[p] = owed'[q] => p = q
    <3>1. /\ \A p \in 1 .. sent : p \in 1 .. Len(owed)
          /\ \A p \in 1 .. sent + k : p \in 1 .. Len(owed')
      BY <1>1, <1>2, <1>3, <1>6
    <3> QED
      BY <1>3, <1>8, <3>1
  <2>2. /\ Len(Stream(c)') = Len(Stream(c)) + k
        /\ \A i \in 1 .. Len(Stream(c)) : Stream(c)'[i] = Stream(c)[i]
        /\ \A i \in 1 .. k : Stream(c)'[Len(Stream(c)) + i] = more[i]
        /\ \A d \in Clients \ {c} : Stream(d)' = Stream(d)
    BY <1>0, <1>4, Taken
  <2>3. \A i \in 1 .. k : more[i] = owed'[sent + i]
    <3> TAKE i \in 1 .. k
    <3>1. i \in 1 .. Len(line)
      BY <1>1, <1>2, <1>6
    <3> QED
      BY <1>4, <1>5, <3>1
  <2>4. \A d \in Clients : Len(Stream(d)) \in Nat /\ Len(Stream(d)') \in Nat
    BY <1>6, <2>2, StreamType, LenProperties
  <2>5. /\ Lens \in [Clients -> Nat] /\ Lens' \in [Clients -> Nat]
        /\ \A d \in Clients : Lens[d] = Len(Stream(d)) /\ Lens'[d] = Len(Stream(d)')
        /\ \A d \in Clients : Streams[d] = Stream(d) /\ Streams'[d] = Stream(d)'
    BY <2>4 DEF Lens, Streams
  <2>6. /\ \A d \in Clients \ {c} : Streams'[d] = Streams[d] /\ Lens'[d] = Lens[d]
        /\ Lens'[c] = Lens[c] + k
        /\ \A i \in 1 .. Lens[c] : Streams'[c][i] = Streams[c][i]
        /\ \A i \in 1 .. k : Streams'[c][Lens[c] + i] = owed'[sent + i]
    <3>1. \A d \in Clients \ {c} : Streams'[d] = Streams[d] /\ Lens'[d] = Lens[d]
      BY <2>2, <2>5
    <3>2. /\ Lens'[c] = Lens[c] + k
          /\ \A i \in 1 .. Lens[c] : Streams'[c][i] = Streams[c][i]
      BY <2>2, <2>5
    <3>3. \A i \in 1 .. k : Streams'[c][Lens[c] + i] = more[i]
      BY <2>2, <2>5
    <3> QED
      BY <2>3, <3>1, <3>2, <3>3
  <2>7. /\ Placed(Streams, Lens, owed, sent) => Placed(Streams', Lens', owed', sent + k)
        /\ Covered(Streams, Lens, owed, sent) => Covered(Streams', Lens', owed', sent + k)
    BY <1>1, <1>6, <2>1, <2>5, <2>6, PlacedMore
  <2> QED
    BY <1>6, <2>7 DEF Streamed
<1> QED
  BY <1>2, <1>3, <1>4, <1>10, <1>11 DEF line, more

(* A step after which no peer has been sent more keeps the order.          *)
LEMMA NoMoreOutput ==
  ASSUME TypeInv, Owed, Streamed, OwnUntilFull, owed' = owed, mBuffer' = mBuffer,
         readIn' \in [Clients -> Nat], \A d \in Clients : readIn[d] <= readIn'[d],
         \A d \in Clients :
           /\ Len(Stream(d)') \in Nat /\ Len(Stream(d)') <= Len(Stream(d))
           /\ \A i \in 1 .. Len(Stream(d)') : Stream(d)'[i] = Stream(d)[i],
         (\A d \in Clients : link'[d] # "rst") =>
           \A d \in Clients : link[d] # "rst" /\ Len(Stream(d)') = Len(Stream(d)),
         abandoned => abandoned'
  PROVE  Owed' /\ Streamed' /\ OwnUntilFull'
<1>1. sent' = sent
  BY DEF sent
<1>2. Owed'
  <2>1. \A i \in 1 .. Len(owed) : owed[i].pos <= readIn'[owed[i].src]
    <3> TAKE i \in 1 .. Len(owed)
    <3>1. owed[i] \in Byte /\ owed[i].pos <= readIn[owed[i].src]
      BY ElementOfSeq DEF TypeInv, Owed
    <3>2. owed[i].src \in Clients /\ owed[i].pos \in Nat
      BY <3>1 DEF Byte
    <3>3. readIn[owed[i].src] \in Nat /\ readIn'[owed[i].src] \in Nat
      BY <3>2 DEF TypeInv
    <3> QED
      BY <3>1, <3>2, <3>3
  <2> QED
    BY <1>1, <2>1 DEF Owed
<1>3. \A d \in Clients : Len(Stream(d)) \in Nat
  BY StreamType, LenProperties
<1>4. OwnUntilFull'
  <2> SUFFICES ASSUME ~ abandoned', NEW d \in Clients, NEW i \in 1 .. Len(Stream(d)'),
                      i <= SndBuf
               PROVE  Stream(d)'[i].src = d
    BY DEF OwnUntilFull
  <2>1. i \in 1 .. Len(Stream(d))
    BY <1>3
  <2> QED
    BY <2>1 DEF OwnUntilFull
<1>5. \A d \in Clients : /\ Streams[d] = Stream(d) /\ Streams'[d] = Stream(d)'
                         /\ Lens[d] = Len(Stream(d)) /\ Lens'[d] = Len(Stream(d)')
  BY DEF Streams, Lens
<1>6. \A d \in Clients : \A i \in 1 .. Lens'[d] :
        i \in 1 .. Lens[d] /\ Streams'[d][i] = Streams[d][i]
  BY <1>3, <1>5
<1>7. Placed(Streams', Lens', owed, sent)
  BY <1>6 DEF Streamed, Placed
<1>8. (\A d \in Clients : link'[d] # "rst") => Covered(Streams', Lens', owed, sent)
  <2> SUFFICES ASSUME \A d \in Clients : link'[d] # "rst"
               PROVE  Covered(Streams', Lens', owed, sent)
    OBVIOUS
  <2>1. \A d \in Clients : Lens'[d] = Lens[d] /\ link[d] # "rst"
    BY <1>5
  <2> QED
    BY <1>6, <2>1 DEF Streamed, Covered
<1>9. Streamed'
  BY <1>1, <1>7, <1>8 DEF Streamed
<1> QED
  BY <1>2, <1>4, <1>9

(* More bytes are a peer's own, or it was refused some before.             *)
LEMMA OwnStep ==
  ASSUME TypeInv, OwnUntilFull, NEW c \in Clients, NEW more \in Seq(Byte),
         Takes(c, more), abandoned' = abandoned,
         ~ abandoned => \/ Len(Stream(c)) >= SndBuf
                        \/ \A i \in 1 .. Len(more) : more[i].src = c
  PROVE  OwnUntilFull'
<1> SUFFICES ASSUME ~ abandoned, NEW d \in Clients, NEW i \in 1 .. Len(Stream(d)'),
                    i <= SndBuf
             PROVE  Stream(d)'[i].src = d
  BY DEF OwnUntilFull
<1>1. Len(Stream(c)) \in Nat /\ Len(more) \in Nat /\ SndBuf \in Nat
  BY StreamType, LenProperties, EchoAssumption
<1>2. /\ Len(Stream(c)') = Len(Stream(c)) + Len(more)
      /\ \A j \in 1 .. Len(Stream(c)) : Stream(c)'[j] = Stream(c)[j]
      /\ \A j \in 1 .. Len(more) : Stream(c)'[Len(Stream(c)) + j] = more[j]
      /\ \A e \in Clients \ {c} : Stream(e)' = Stream(e)
  BY Taken
<1>3. CASE d # c
  BY <1>2, <1>3 DEF OwnUntilFull
<1>4. CASE d = c /\ i <= Len(Stream(c))
  <2>1. i \in 1 .. Len(Stream(c))
    BY <1>1, <1>4
  <2> QED
    BY <1>2, <1>4, <2>1 DEF OwnUntilFull
<1>5. CASE d = c /\ i > Len(Stream(c))
  <2>1. i - Len(Stream(c)) \in 1 .. Len(more) /\ i = Len(Stream(c)) + (i - Len(Stream(c)))
    BY <1>1, <1>2, <1>5
  <2>2. PICK j \in 1 .. Len(more) : i = Len(Stream(c)) + j
    BY <2>1
  <2>3. Stream(c)'[i] = more[j]
    BY <1>2, <2>2
  <2> QED
    BY <1>1, <1>5, <2>2, <2>3
<1> QED
  BY <1>1, <1>3, <1>4, <1>5

-----------------------------------------------------------------------------
(* What steps do to the watchers.                                          *)

LEMMA WriterNotNULL ==
  ASSUME TypeInv, NEW fd \in DOMAIN fdtab
  PROVE  [kind |-> "write", fd |-> fd, n |-> 0] # NULL
<1>1. fd \in UNION Limits
  BY DEF TypeInv
<1> QED
  BY <1>1, EchoAssumption

LEMMA EventOf ==
  ASSUME TypeInv, Watched, OneWriter, NEW w \in watchers \cup pending
  PROVE  /\ w.kind \in {"accept", "read", "write"}
         /\ w.kind = "accept" => w = Accepter
         /\ w.kind = "read" => /\ w.fd \in DOMAIN fdtab /\ fdtab[w.fd] \in Clients
                              /\ w = Reader(w.fd) /\ m_handlers[w.fd] = w
         /\ w.kind = "write" => /\ m_write_handler # NULL /\ w = m_write_handler
                               /\ w.fd \in DOMAIN fdtab
<1>1. CASE w = Accepter
  BY <1>1 DEF Accepter
<1>2. CASE \E fd \in DOMAIN fdtab : fdtab[fd] # NULL /\ w = Reader(fd)
  <2>1. PICK fd \in DOMAIN fdtab : fdtab[fd] # NULL /\ w = Reader(fd)
    BY <1>2
  <2>2. w.fd = fd /\ w.kind = "read"
    BY <2>1 DEF Reader
  <2> QED
    BY <2>1, <2>2 DEF TypeInv, Watched
<1>3. CASE m_write_handler # NULL /\ w = m_write_handler
  <2>1. PICK fd \in DOMAIN fdtab : w = [kind |-> "write", fd |-> fd, n |-> 0]
    BY <1>3 DEF OneWriter
  <2> QED
    BY <1>3, <2>1
<1> QED
  BY <1>1, <1>2, <1>3 DEF Watched

LEMMA WritersAre ==
  ASSUME TypeInv, Watched, OneWriter
  PROVE  /\ Writers \subseteq {m_write_handler}
         /\ m_write_handler = NULL => Writers = {}
         /\ m_write_handler # NULL /\ m_write_handler \in watchers =>
              Writers = {m_write_handler}
<1>1. \A w \in Writers : m_write_handler # NULL /\ w = m_write_handler
  BY EventOf DEF Writers
<1>2. m_write_handler # NULL => m_write_handler.kind = "write"
  BY DEF OneWriter
<1> QED
  BY <1>1, <1>2 DEF Writers

LEMMA WatchedKept ==
  ASSUME Watched, UNCHANGED <<fdtab, m_handlers, m_write_handler>>,
         watchers' \subseteq watchers, pending' \subseteq pending \cup watchers
  PROVE  Watched'
BY DEF Watched

-----------------------------------------------------------------------------
(* The peers.                                                              *)

(* A peer's step touches neither the server's tables nor the sender: IInv  *)
(* is kept if the streams only lose an end.                                *)
LEMMA PeerStep ==
  ASSUME IInv,
         UNCHANGED <<fdtab, readIn, m_handlers, mBuffer, m_write_handler, owed,
                     abandoned, ioVars>>,
         sentIn' \in [Clients -> Int],
         link' \in [Clients -> {"up", "fin", "rst"}],
         \A d \in Clients : link[d] = "rst" => link'[d] = "rst",
         sndq' \in [Clients -> Seq(Byte)], got' \in [Clients -> Seq(Byte)],
         \A d \in Clients :
           /\ Len(sndq'[d]) <= Len(sndq[d])
           /\ Len(Stream(d)') \in Nat /\ Len(Stream(d)') <= Len(Stream(d))
           /\ \A i \in 1 .. Len(Stream(d)') : Stream(d)'[i] = Stream(d)[i]
           /\ link'[d] # "rst" => Len(Stream(d)') = Len(Stream(d))
  PROVE  IInv'
<1>1. TypeInv'
  BY DEF IInv, TypeInv
<1>2. NoExcess'
  <2> SUFFICES ASSUME NEW d \in Clients PROVE Len(sndq'[d]) <= SndBuf
    BY DEF NoExcess
  <2>1. Len(sndq[d]) \in Nat /\ Len(sndq'[d]) \in Nat /\ SndBuf \in Nat
    BY LenProperties, EchoAssumption DEF IInv, TypeInv
  <2> QED
    BY <2>1 DEF IInv, NoExcess
<1>3. Watched' /\ OneWriter'
  BY DEF ioVars, IInv, Watched, OneWriter
<1>4. Refused'
  <2> SUFFICES ASSUME m_write_handler # NULL, ~ abandoned
               PROVE  LET c == fdtab[m_write_handler.fd]
                      IN  c # NULL /\ (link'[c] = "rst" \/ Len(Stream(c)') >= SndBuf)
    BY DEF Refused
  <2>1. m_write_handler.fd \in DOMAIN fdtab
    BY DEF IInv, OneWriter
  <2>2. PICK c \in Clients : c = fdtab[m_write_handler.fd]
    BY <2>1 DEF IInv, Refused, TypeInv
  <2>3. link[c] = "rst" \/ Len(Stream(c)) >= SndBuf
    BY <2>2 DEF IInv, Refused
  <2>4. link'[c] = "rst" \/ Len(Stream(c)') >= SndBuf
    BY <2>3
  <2> QED
    BY <2>2, <2>4, EchoAssumption
<1>5. Owed' /\ Streamed' /\ OwnUntilFull'
  <2>1. \A d \in Clients : readIn[d] <= readIn'[d]
    BY DEF IInv, TypeInv
  <2>2. readIn' \in [Clients -> Nat]
    BY DEF IInv, TypeInv
  <2> QED
    BY <2>1, <2>2, NoMoreOutput DEF IInv
<1> QED
  BY <1>1, <1>2, <1>3, <1>4, <1>5 DEF IInv

(* Without a change of the streams.                                        *)
LEMMA QuietStep ==
  ASSUME IInv,
         UNCHANGED <<fdtab, readIn, m_handlers, mBuffer, m_write_handler, owed,
                     abandoned, ioVars, sndq, got>>,
         sentIn' \in [Clients -> Int],
         link' \in [Clients -> {"up", "fin", "rst"}],
         \A d \in Clients : link[d] = "rst" => link'[d] = "rst"
  PROVE  IInv'
<1>1. \A d \in Clients : Stream(d)' = Stream(d) /\ Len(Stream(d)) \in Nat
  BY StreamType, LenProperties DEF Stream, IInv
<1>2. \A d \in Clients : sndq[d] \in Seq(Byte) /\ Len(sndq[d]) \in Nat
  BY LenProperties DEF IInv, TypeInv
<1>3. sndq' \in [Clients -> Seq(Byte)] /\ got' \in [Clients -> Seq(Byte)]
  BY DEF IInv, TypeInv
<1>4. \A d \in Clients :
           /\ Len(sndq'[d]) <= Len(sndq[d])
           /\ Len(Stream(d)') \in Nat /\ Len(Stream(d)') <= Len(Stream(d))
           /\ \A i \in 1 .. Len(Stream(d)') : Stream(d)'[i] = Stream(d)[i]
           /\ link'[d] # "rst" => Len(Stream(d)') = Len(Stream(d))
  BY <1>1, <1>2
<1> QED
  BY <1>3, <1>4, PeerStep

LEMMA PeerReadStep ==
  ASSUME IInv, NEW c \in Clients, PeerRead(c)
  PROVE  IInv'
<1>0. TypeInv
  BY DEF IInv
<1>1. PICK n \in 1 .. Len(sndq[c]) :
        /\ got' = [got EXCEPT ![c] = @ \o SubSeq(sndq[c], 1, n)]
        /\ sndq' = [sndq EXCEPT ![c] = SubSeq(@, n + 1, Len(@))]
  BY DEF PeerRead
<1>2. sndq[c] \in Seq(Byte) /\ got[c] \in Seq(Byte) /\ n \in 0 .. Len(sndq[c])
  BY <1>0, LenProperties DEF TypeInv
<1> DEFINE first == SubSeq(sndq[c], 1, n)
           rest == SubSeq(sndq[c], n + 1, Len(sndq[c]))
<1>3. /\ first \in Seq(Byte) /\ rest \in Seq(Byte)
      /\ Len(rest) = Len(sndq[c]) - n /\ Len(sndq[c]) \in Nat
  BY <1>2, Cut, LenProperties
<1>4. first \o rest = sndq[c]
  <2>1. /\ 1 \in 1 .. Len(sndq[c]) + 1 /\ n \in 1 - 1 .. Len(sndq[c])
        /\ Len(sndq[c]) \in n .. Len(sndq[c])
    BY <1>2, <1>3
  <2>2. first \o rest = SubSeq(sndq[c], 1, Len(sndq[c]))
    BY <1>2, <2>1, ConcatAdjacentSubSeq
  <2>3. SubSeq(sndq[c], 1, Len(sndq[c])) = sndq[c]
    BY <1>2, SubSeqFull
  <2> QED
    BY <2>2, <2>3
<1>5. /\ got'[c] = got[c] \o first /\ sndq'[c] = rest
      /\ \A d \in Clients \ {c} : got'[d] = got[d] /\ sndq'[d] = sndq[d]
  BY <1>0, <1>1 DEF TypeInv
<1>6. got[c] \o first \in Seq(Byte)
  BY <1>2, <1>3, Joined
<1>7. got' \in [Clients -> Seq(Byte)] /\ sndq' \in [Clients -> Seq(Byte)]
  BY <1>0, <1>1, <1>3, <1>6 DEF TypeInv
<1>8. (got[c] \o first) \o rest = got[c] \o sndq[c]
  <2> HIDE DEF first, rest
  <2>0. \A s, t, u \in Seq(Byte) : (s \o t) \o u = s \o (t \o u)
    BY SMTT(30), ConcatAssociative
  <2>1. (got[c] \o first) \o rest = got[c] \o (first \o rest)
    BY <1>2, <1>3, <2>0
  <2> QED
    BY <1>4, <2>1
<1> HIDE DEF first, rest
<1>9. \A d \in Clients : Stream(d)' = Stream(d)
  BY <1>5, <1>8 DEF Stream
<1>10. \A d \in Clients :
         /\ Len(sndq'[d]) <= Len(sndq[d])
         /\ Len(Stream(d)) \in Nat
  <2> TAKE d \in Clients
  <2>1. Len(Stream(d)) \in Nat /\ Len(sndq[d]) \in Nat
    BY <1>0, StreamType, LenProperties
  <2>2. n \in Nat
    BY <1>2
  <2> QED
    BY SMTT(30), <1>3, <1>5, <2>1, <2>2
<1>11. UNCHANGED <<fdtab, readIn, m_handlers, mBuffer, m_write_handler, owed,
                   abandoned, ioVars, sentIn, link>>
  BY DEF PeerRead, senderVars
<1>12. sentIn' \in [Clients -> Int] /\ link' \in [Clients -> {"up", "fin", "rst"}]
  BY <1>0, <1>11 DEF TypeInv
<1>13. \A d \in Clients :
           /\ Len(sndq'[d]) <= Len(sndq[d])
           /\ Len(Stream(d)') \in Nat /\ Len(Stream(d)') <= Len(Stream(d))
           /\ \A i \in 1 .. Len(Stream(d)') : Stream(d)'[i] = Stream(d)[i]
           /\ link'[d] # "rst" => Len(Stream(d)') = Len(Stream(d))
  BY <1>9, <1>10
<1> QED
  BY <1>7, <1>11, <1>12, <1>13, PeerStep

(* A reset throws away the end of a stream.                                *)
LEMMA PeerRstStep ==
  ASSUME IInv, NEW c \in Clients, PeerRst(c)
  PROVE  IInv'
<1>0. TypeInv /\ c \in Clients
  BY DEF IInv
<1>1. /\ link' = [link EXCEPT ![c] = "rst"] /\ sndq' = [sndq EXCEPT ![c] = <<>>]
      /\ UNCHANGED <<fdtab, readIn, m_handlers, mBuffer, m_write_handler, owed,
                     abandoned, ioVars, sentIn, got>>
  BY DEF PeerRst, senderVars
<1>2. <<>> \in Seq(Byte) /\ Len(<<>>) = 0
  BY EmptySeq
<1>3. /\ sndq' \in [Clients -> Seq(Byte)] /\ got' \in [Clients -> Seq(Byte)]
      /\ link' \in [Clients -> {"up", "fin", "rst"}] /\ sentIn' \in [Clients -> Int]
  <2>1. sndq' \in [Clients -> Seq(Byte)]
    BY <1>0, <1>1, <1>2 DEF TypeInv
  <2>2. link' \in [Clients -> {"up", "fin", "rst"}]
    BY <1>0, <1>1 DEF TypeInv
  <2> QED
    BY <1>0, <1>1, <2>1, <2>2 DEF TypeInv
<1>4. /\ link'[c] = "rst" /\ sndq'[c] = <<>> /\ got'[c] = got[c]
      /\ \A d \in Clients \ {c} : /\ link'[d] = link[d] /\ sndq'[d] = sndq[d]
                                  /\ got'[d] = got[d]
  BY <1>0, <1>1 DEF TypeInv
<1>5. \A d \in Clients \ {c} : Stream(d)' = Stream(d)
  BY <1>4 DEF Stream
<1>6. Stream(c)' = got[c]
  <2>1. got[c] \in Seq(Byte)
    BY <1>0 DEF TypeInv
  <2>2. got[c] \o <<>> = got[c]
    BY <2>1, ConcatEmptySeq
  <2> QED
    BY <1>4, <2>2 DEF Stream
<1>7. \A d \in Clients : /\ Len(Stream(d)) \in Nat /\ Len(sndq[d]) \in Nat
                         /\ Len(got[d]) \in Nat
                         /\ Len(Stream(d)) = Len(got[d]) + Len(sndq[d])
                         /\ \A i \in 1 .. Len(got[d]) : Stream(d)[i] = got[d][i]
  <2> TAKE d \in Clients
  <2>1. /\ Len(got[d]) \in Nat /\ Len(sndq[d]) \in Nat
        /\ Len(Stream(d)) = Len(got[d]) + Len(sndq[d])
        /\ \A i \in 1 .. Len(Stream(d)) :
             i <= Len(got[d]) => Stream(d)[i] = got[d][i]
    BY <1>0, StreamType
  <2>2. \A a, b \in Nat : \A i \in 1 .. a : i \in 1 .. a + b /\ i <= a
    OBVIOUS
  <2>3. \A i \in 1 .. Len(got[d]) : i \in 1 .. Len(Stream(d)) /\ i <= Len(got[d])
    BY <2>1, <2>2
  <2>4. \A i \in 1 .. Len(got[d]) : Stream(d)[i] = got[d][i]
    BY <2>1, <2>3
  <2>5. Len(Stream(d)) \in Nat
    BY <1>0, StreamType, LenProperties
  <2> QED
    BY <2>1, <2>4, <2>5
<1>8. ASSUME NEW d \in Clients
      PROVE  /\ Len(sndq'[d]) <= Len(sndq[d])
             /\ Len(Stream(d)') \in Nat /\ Len(Stream(d)') <= Len(Stream(d))
             /\ \A i \in 1 .. Len(Stream(d)') : Stream(d)'[i] = Stream(d)[i]
             /\ link'[d] # "rst" => Len(Stream(d)') = Len(Stream(d))
  <2>1. CASE d # c
    BY <1>4, <1>5, <1>7, <2>1
  <2>2. CASE d = c
    <3>1. Len(sndq'[c]) = 0
      BY <1>2, <1>4
    <3>0. \A a, b \in Nat : a <= a + b /\ 0 <= b
      OBVIOUS
    <3>2. /\ Len(got[c]) \in Nat /\ Len(got[c]) <= Len(Stream(c))
          /\ 0 <= Len(sndq[c])
      BY <1>7, <3>0
    <3>3. \A i \in 1 .. Len(got[c]) : Stream(c)'[i] = Stream(c)[i]
      BY <1>6, <1>7
    <3> QED
      BY <1>4, <1>6, <2>2, <3>1, <3>2, <3>3
  <2> QED
    BY <2>1, <2>2
<1>9. \A d \in Clients : link[d] = "rst" => link'[d] = "rst"
  BY <1>4
<1> QED
  BY <1>1, <1>3, <1>8, <1>9, PeerStep

LEMMA PeersStep ==
  ASSUME IInv, NEW c \in Clients,
         Connect(c) \/ PeerSend(c) \/ PeerRead(c) \/ PeerFin(c) \/ PeerRst(c)
  PROVE  IInv'
<1>0. TypeInv /\ c \in Clients
  BY DEF IInv
<1>1. CASE Connect(c)
  BY <1>0, <1>1, QuietStep DEF Connect, senderVars, TypeInv
<1>2. CASE PeerSend(c)
  <2>1. PICK n \in 1 .. InLen - sentIn[c] : sentIn' = [sentIn EXCEPT ![c] = @ + n]
    BY <1>2 DEF PeerSend
  <2>2. sentIn[c] + n \in Int
    BY <1>0, <2>1 DEF TypeInv
  <2>3. sentIn' \in [Clients -> Int] /\ link' \in [Clients -> {"up", "fin", "rst"}]
    BY <1>0, <1>2, <2>1, <2>2 DEF TypeInv, PeerSend
  <2> QED
    BY <1>2, <2>3, QuietStep DEF PeerSend, senderVars
<1>3. CASE PeerFin(c)
  <2>1. link' \in [Clients -> {"up", "fin", "rst"}] /\ sentIn' \in [Clients -> Int]
    BY <1>0, <1>3 DEF TypeInv, PeerFin
  <2>2. \A d \in Clients : link[d] = "rst" => link'[d] = "rst"
    BY <1>0, <1>3 DEF TypeInv, PeerFin
  <2> QED
    BY <1>3, <2>1, <2>2, QuietStep DEF PeerFin, senderVars
<1> QED
  BY <1>1, <1>2, <1>3, PeerReadStep, PeerRstStep

-----------------------------------------------------------------------------
(* The server.                                                             *)

(* A poll stops the writer only if its descriptor is closed.               *)
LEMMA WaitStep == ASSUME IInv, Wait PROVE IInv'
<1>1. /\ pending' = {w \in watchers : HasEvent(w)}
      /\ watchers' = watchers \ {w \in watchers : Closed(w)}
      /\ UNCHANGED <<socketVars, m_handlers, senderVars, abandoned>>
  BY DEF Wait, PollAndKill
<1> USE DEF socketVars, senderVars
<1>2. TypeInv' /\ NoExcess' /\ Refused' /\ OwnUntilFull' /\ Owed' /\ Streamed'
  <2>1. TypeInv' /\ NoExcess'
    BY <1>1 DEF IInv, TypeInv, NoExcess
  <2>2. Refused' /\ OwnUntilFull'
    BY <1>1 DEF IInv, Refused, OwnUntilFull, Stream
  <2>3. Owed' /\ Streamed'
    BY <1>1 DEF IInv, Owed, Streamed, Streams, Lens, Stream, sent
  <2> QED
    BY <2>1, <2>2, <2>3
<1>3. Watched'
  BY <1>1, WatchedKept DEF IInv
<1>4. OneWriter'
  <2>1. ASSUME m_write_handler # NULL, ~ abandoned PROVE m_write_handler \in watchers'
    <3>1. m_write_handler \in watchers /\ fdtab[m_write_handler.fd] # NULL
      BY <2>1 DEF IInv, OneWriter, Refused
    <3> QED
      BY <1>1, <3>1 DEF Closed
  <2> QED
    BY <1>1, <2>1 DEF IInv, OneWriter, TypeInv
<1> QED
  BY <1>2, <1>3, <1>4 DEF IInv

LEMMA AcceptStep ==
  ASSUME IInv, NEW w \in pending, m_on_receive_server(w)
  PROVE  IInv'
<1> USE DEF senderVars
<1>1. UNCHANGED <<sentIn, readIn, link, sndq, got, senderVars, abandoned>>
  BY DEF m_on_receive_server
<1>2. NoExcess' /\ OwnUntilFull' /\ Owed' /\ Streamed'
  <2>1. NoExcess' /\ OwnUntilFull'
    BY <1>1 DEF IInv, NoExcess, OwnUntilFull, Stream
  <2>2. Owed' /\ Streamed'
    BY <1>1 DEF IInv, Owed, Streamed, Streams, Lens, Stream, sent
  <2> QED
    BY <2>1, <2>2
<1>3. CASE Callback(w, {}, {}) /\ UNCHANGED <<fdtab, stage, m_handlers>>
  <2>1. watchers' = watchers /\ pending' \subseteq pending
    BY <1>3 DEF Callback
  <2>2. TypeInv' /\ Refused' /\ OneWriter'
    BY <1>1, <1>3, <2>1 DEF IInv, TypeInv, Refused, OneWriter, Stream
  <2>3. Watched'
    BY <1>1, <1>3, <2>1, WatchedKept DEF IInv
  <2> QED
    BY <1>2, <2>2, <2>3 DEF IInv
<1>4. ASSUME NEW c \in Clients, NEW fd \in DOMAIN fdtab, fdtab[fd] = NULL,
             fdtab' = [fdtab EXCEPT ![fd] = c],
             m_handlers' = [m_handlers EXCEPT ![fd] = Reader(fd)],
             Callback(w, {Reader(fd)}, {})
      PROVE  IInv'
  <2>1. watchers' = watchers \cup {Reader(fd)} /\ pending' \subseteq pending
    BY <1>4 DEF Callback
  <2>2. /\ DOMAIN fdtab' = DOMAIN fdtab /\ fdtab'[fd] = c /\ c # NULL
        /\ \A other \in DOMAIN fdtab \ {fd} : fdtab'[other] = fdtab[other]
    BY <1>4, EchoAssumption
  <2>3. fdtab' \in [DOMAIN fdtab' -> Clients \cup {NULL}]
    BY <1>4, <2>2 DEF IInv, TypeInv
  <2>4. TypeInv'
    BY <1>1, <2>2, <2>3 DEF IInv, TypeInv
  <2>5. Watched'
    <3>1. m_handlers' = [other \in DOMAIN fdtab' |->
                           IF fdtab'[other] = NULL THEN NULL ELSE Reader(other)]
      BY <1>4, <2>2 DEF IInv, Watched
    <3>2. \A v \in watchers' \cup pending' :
            \/ v = Accepter
            \/ \E other \in DOMAIN fdtab' : fdtab'[other] # NULL /\ v = Reader(other)
            \/ m_write_handler # NULL /\ v = m_write_handler
      <4> TAKE v \in watchers' \cup pending'
      <4>1. CASE v = Reader(fd)
        BY <2>2, <4>1
      <4>2. CASE v \in watchers \cup pending
        BY <2>2, <4>2 DEF IInv, Watched
      <4> QED
        BY <2>1, <4>1, <4>2
    <3> QED
      BY <1>1, <3>1, <3>2 DEF Watched
  <2>6. OneWriter'
    BY <1>1, <2>1, <2>2 DEF IInv, OneWriter
  <2>7. Refused'
    <3> SUFFICES ASSUME m_write_handler # NULL, ~ abandoned
                 PROVE  LET d == fdtab'[m_write_handler.fd]
                        IN  d # NULL /\ (link[d] = "rst" \/ Len(Stream(d)) >= SndBuf)
      BY <1>1 DEF Refused, Stream
    <3>1. m_write_handler.fd \in DOMAIN fdtab /\ fdtab[m_write_handler.fd] # NULL
      BY DEF IInv, OneWriter, Refused
    <3>2. fdtab'[m_write_handler.fd] = fdtab[m_write_handler.fd]
      BY <1>4, <2>2, <3>1
    <3> QED
      BY <3>2 DEF IInv, Refused
  <2> QED
    BY <1>2, <2>4, <2>5, <2>6, <2>7 DEF IInv
<1> QED
  BY <1>3, <1>4 DEF m_on_receive_server

(* The input of a connection has ended: its descriptor and reader go.      *)
LEMMA EndStep ==
  ASSUME IInv, NEW w \in pending, w.kind = "read",
         Callback(w, {}, {m_handlers[w.fd]}),
         m_handlers' = [m_handlers EXCEPT ![w.fd] = NULL],
         fdtab' = [fdtab EXCEPT ![w.fd] = NULL],
         abandoned' = (abandoned \/ \E v \in Writers : v.fd = w.fd),
         UNCHANGED <<sentIn, link, got, readIn, sndq, senderVars>>
  PROVE  IInv'
<1> USE DEF senderVars
<1>0. /\ TypeInv /\ Watched /\ OneWriter /\ Refused
      /\ w.fd \in DOMAIN fdtab /\ w = Reader(w.fd) /\ m_handlers[w.fd] = w
  BY EventOf DEF IInv
<1>1. /\ watchers' = watchers \ {w} /\ pending' = pending \ {w}
      /\ DOMAIN fdtab' = DOMAIN fdtab /\ fdtab'[w.fd] = NULL
      /\ \A fd \in DOMAIN fdtab \ {w.fd} : fdtab'[fd] = fdtab[fd]
  BY <1>0 DEF Callback
<1>2. NoExcess' /\ Owed' /\ Streamed' /\ OwnUntilFull'
  <2>1. NoExcess' /\ OwnUntilFull'
    BY DEF IInv, NoExcess, OwnUntilFull, Stream
  <2>2. Owed' /\ Streamed'
    BY DEF IInv, Owed, Streamed, Streams, Lens, Stream, sent
  <2> QED
    BY <2>1, <2>2
<1>3. TypeInv'
  <2>1. fdtab' \in [DOMAIN fdtab' -> Clients \cup {NULL}]
    BY <1>0, <1>1 DEF TypeInv
  <2>2. abandoned' \in BOOLEAN
    BY <1>0 DEF TypeInv
  <2> QED
    BY <1>0, <1>1, <2>1, <2>2 DEF TypeInv
<1>4. Watched'
  <2>1. m_handlers' = [fd \in DOMAIN fdtab' |->
                         IF fdtab'[fd] = NULL THEN NULL ELSE Reader(fd)]
    BY <1>0, <1>1 DEF Watched
  <2>2. ASSUME NEW v \in watchers' \cup pending'
        PROVE  \/ v = Accepter
               \/ \E fd \in DOMAIN fdtab' : fdtab'[fd] # NULL /\ v = Reader(fd)
               \/ m_write_handler # NULL /\ v = m_write_handler
    <3>1. v \in watchers \cup pending /\ v # w
      BY <1>1
    <3>2. CASE \E fd \in DOMAIN fdtab : fdtab[fd] # NULL /\ v = Reader(fd)
      <4>1. PICK fd \in DOMAIN fdtab : fdtab[fd] # NULL /\ v = Reader(fd)
        BY <3>2
      <4>2. fd # w.fd
        BY <1>0, <3>1, <4>1
      <4> QED
        BY <1>1, <4>1, <4>2
    <3> QED
      BY <1>0, <3>1, <3>2 DEF Watched
  <2> QED
    BY <2>1, <2>2 DEF Watched
<1>5. m_write_handler # NULL => m_write_handler # w
  BY <1>0 DEF OneWriter
<1>6. OneWriter'
  <2>1. abandoned => abandoned'
    BY <1>0 DEF TypeInv
  <2> QED
    BY <1>0, <1>1, <1>5, <2>1 DEF OneWriter
<1>7. Refused'
  <2> SUFFICES ASSUME m_write_handler # NULL, ~ abandoned'
               PROVE  LET d == fdtab'[m_write_handler.fd]
                      IN  d # NULL /\ (link[d] = "rst" \/ Len(Stream(d)) >= SndBuf)
    BY DEF Refused, Stream
  <2>1. ~ abandoned /\ \A v \in Writers : v.fd # w.fd
    OBVIOUS
  <2>2. m_write_handler \in Writers
    BY <1>0, <2>1, WritersAre DEF OneWriter
  <2>3. m_write_handler.fd \in DOMAIN fdtab \ {w.fd}
    BY <1>0, <2>1, <2>2 DEF OneWriter
  <2>4. fdtab'[m_write_handler.fd] = fdtab[m_write_handler.fd]
    BY <1>1, <2>3
  <2> QED
    BY <1>0, <2>1, <2>4 DEF Refused
<1> QED
  BY <1>2, <1>3, <1>4, <1>6, <1>7 DEF IInv

(* What a send changes is right if the kernel takes no more than it has    *)
(* room for, and the bytes are the peer's or it was refused some.          *)
LEMMA OutputKeeps ==
  ASSUME IInv, NEW c \in Clients, NEW out \in Seq(Byte),
         NEW k \in 0 .. Len(mBuffer) + Len(out), Output(c, out, k), New(out),
         k <= Room(c),
         readIn' \in [Clients -> Nat], \A d \in Clients : readIn[d] <= readIn'[d],
         UNCHANGED <<fdtab, m_handlers, link, sentIn, abandoned>>,
         ~ abandoned => \/ Len(Stream(c)) >= SndBuf
                        \/ \A i \in 1 .. k : (mBuffer \o out)[i].src = c
  PROVE  /\ TypeInv' /\ NoExcess' /\ Owed' /\ Streamed' /\ OwnUntilFull'
         /\ Len(mBuffer') = Len(mBuffer) + Len(out) - k
         /\ Len(sndq'[c]) = Len(sndq[c]) + k
         /\ \A d \in Clients : Len(Stream(d)') >= Len(Stream(d))
<1> DEFINE more == SubSeq(mBuffer \o out, 1, k)
<1>0. TypeInv /\ Owed /\ Streamed /\ OwnUntilFull /\ NoExcess /\ c \in Clients
  BY DEF IInv
<1>1. /\ Owed' /\ Streamed' /\ owed' \in Seq(Byte) /\ mBuffer' \in Seq(Byte)
      /\ more \in Seq(Byte) /\ Len(more) = k
      /\ Len(mBuffer') = Len(mBuffer) + Len(out) - k
  BY SMTT(30), <1>0, OutputStep
<1>2. Takes(c, more) /\ got' = got
  BY DEF Output, Takes
<1>3. \A i \in 1 .. k : more[i] = (mBuffer \o out)[i]
  <2>1. mBuffer \in Seq(Byte)
    BY <1>0 DEF TypeInv
  <2>2. /\ mBuffer \o out \in Seq(Byte)
        /\ Len(mBuffer \o out) = Len(mBuffer) + Len(out)
    BY <2>1, Joined
  <2> QED
    BY <2>2, Cut
<1> HIDE DEF more
<1>4. /\ sndq' \in [Clients -> Seq(Byte)]
      /\ Len(sndq'[c]) = Len(sndq[c]) + k
      /\ Len(Stream(c)') = Len(Stream(c)) + k
      /\ \A d \in Clients \ {c} : Stream(d)' = Stream(d) /\ sndq'[d] = sndq[d]
  BY <1>0, <1>1, <1>2, Taken
<1>5. \A d \in Clients : /\ Len(Stream(d)) \in Nat /\ Len(sndq[d]) \in Nat
                         /\ sndq[d] \in Seq(Byte)
  BY <1>0, StreamType, LenProperties DEF TypeInv
<1>6. TypeInv'
  BY <1>0, <1>1, <1>2, <1>4 DEF TypeInv
<1>7. k \in Nat
  <2>1. mBuffer \in Seq(Byte)
    BY <1>0 DEF TypeInv
  <2>2. Len(mBuffer) \in Nat /\ Len(out) \in Nat
    BY <2>1, LenProperties
  <2> QED
    BY <2>2
<1>8. NoExcess'
  <2> SUFFICES ASSUME NEW d \in Clients PROVE Len(sndq'[d]) <= SndBuf
    BY DEF NoExcess
  <2>1. CASE d = c
    <3>1. SndBuf \in Nat /\ Room(c) = SndBuf - Len(sndq[c])
      BY EchoAssumption DEF Room
    <3> QED
      BY <1>4, <1>5, <1>7, <2>1, <3>1
  <2>2. CASE d # c
    BY <1>0, <1>4, <2>2 DEF NoExcess
  <2> QED
    BY <2>1, <2>2
<1>9. OwnUntilFull'
  <2>1. ~ abandoned => \/ Len(Stream(c)) >= SndBuf
                       \/ \A i \in 1 .. Len(more) : more[i].src = c
    BY <1>1, <1>3
  <2> QED
    BY <1>0, <1>1, <1>2, <2>1, OwnStep
<1>10. \A d \in Clients : Len(Stream(d)') >= Len(Stream(d))
  <2> TAKE d \in Clients
  <2>1. CASE d = c
    BY <1>4, <1>5, <1>7, <2>1
  <2>2. CASE d # c
    <3>1. Len(Stream(d)') = Len(Stream(d)) /\ Len(Stream(d)) \in Nat
      BY <1>4, <1>5, <2>2
    <3> QED
      BY <3>1
  <2> QED
    BY <2>1, <2>2
<1> QED
  BY <1>1, <1>4, <1>6, <1>8, <1>9, <1>10

LEMMA RefusedKept ==
  ASSUME IInv, UNCHANGED <<fdtab, link, abandoned, m_write_handler>>,
         \A d \in Clients : Len(Stream(d)') \in Nat /\ Len(Stream(d)') >= Len(Stream(d))
  PROVE  Refused'
<1> SUFFICES ASSUME m_write_handler # NULL, ~ abandoned
             PROVE  LET d == fdtab[m_write_handler.fd]
                    IN  d # NULL /\ (link[d] = "rst" \/ Len(Stream(d)') >= SndBuf)
  BY DEF Refused
<1>1. m_write_handler.fd \in DOMAIN fdtab /\ fdtab[m_write_handler.fd] # NULL
  BY DEF IInv, OneWriter, Refused
<1>2. PICK d \in Clients : d = fdtab[m_write_handler.fd]
  BY <1>1 DEF IInv, TypeInv
<1>3. link[d] = "rst" \/ Len(Stream(d)) >= SndBuf
  BY <1>2 DEF IInv, Refused
<1>4. Len(Stream(d)) \in Nat /\ SndBuf \in Nat
  BY StreamType, LenProperties, EchoAssumption DEF IInv
<1> QED
  BY <1>1, <1>2, <1>3, <1>4

(* After a step of the sender the watchers are right: nothing is stopped   *)
(* or started, or a writer is started, or the writer is stopped.           *)
LEMMA WatchersKept ==
  ASSUME IInv, NEW w \in pending, UNCHANGED <<fdtab, m_handlers>>,
         abandoned' = abandoned,
         \/ /\ UNCHANGED m_write_handler /\ Callback(w, {}, {})
            /\ mBuffer' = <<>> <=> mBuffer = <<>>
         \/ /\ m_write_handler = NULL /\ mBuffer' # <<>>
            /\ \E fd \in DOMAIN fdtab : m_write_handler' = Writer(fd)
            /\ Callback(w, {m_write_handler'}, {})
         \/ /\ m_write_handler' = NULL /\ mBuffer' = <<>>
            /\ Callback(w, {}, {m_write_handler})
  PROVE  Watched' /\ OneWriter'
<1>0. TypeInv /\ Watched /\ OneWriter
  BY DEF IInv
<1>1. CASE /\ UNCHANGED m_write_handler /\ Callback(w, {}, {})
           /\ mBuffer' = <<>> <=> mBuffer = <<>>
  <2>1. watchers' = watchers /\ pending' \subseteq pending
    BY <1>1 DEF Callback
  <2> QED
    BY <1>0, <1>1, <2>1, WatchedKept DEF OneWriter
<1>2. CASE /\ m_write_handler = NULL /\ mBuffer' # <<>>
           /\ \E fd \in DOMAIN fdtab : m_write_handler' = Writer(fd)
           /\ Callback(w, {m_write_handler'}, {})
  <2>1. PICK fd \in DOMAIN fdtab : m_write_handler' = Writer(fd)
    BY <1>2
  <2>2. Writer(fd) = [kind |-> "write", fd |-> fd, n |-> 0]
    <3>1. Writers = {} /\ Cardinality({}) = 0
      BY <1>0, <1>2, WritersAre, FS_EmptySet
    <3> QED
      BY <3>1 DEF Writer
  <2>3. m_write_handler' = [kind |-> "write", fd |-> fd, n |-> 0] /\ m_write_handler' # NULL
    BY <1>0, <2>1, <2>2, WriterNotNULL
  <2>4. watchers' = watchers \cup {m_write_handler'} /\ pending' \subseteq pending
    BY <1>2 DEF Callback
  <2>5. Watched'
    BY <1>0, <1>2, <2>3, <2>4 DEF Watched
  <2>6. OneWriter'
    BY <1>2, <2>3, <2>4 DEF OneWriter
  <2> QED
    BY <2>5, <2>6
<1>3. CASE /\ m_write_handler' = NULL /\ mBuffer' = <<>>
           /\ Callback(w, {}, {m_write_handler})
  <2>1. /\ watchers' = watchers \ {m_write_handler}
        /\ pending' \subseteq pending \ {m_write_handler}
    BY <1>3 DEF Callback
  <2> QED
    BY <1>0, <1>3, <2>1 DEF Watched, OneWriter
<1> QED
  BY <1>1, <1>2, <1>3

LEMMA RoomIs ==
  ASSUME IInv, NEW c \in Clients
  PROVE  /\ Room(c) \in Nat /\ Room(c) = SndBuf - Len(sndq[c])
         /\ Len(sndq[c]) \in Nat /\ SndBuf \in Nat
<1>1. Len(sndq[c]) \in Nat /\ SndBuf \in Nat
  BY StreamType, EchoAssumption DEF IInv
<1>2. Len(sndq[c]) <= SndBuf
  BY SMTT(30) DEF IInv, NoExcess
<1> QED
  BY <1>1, <1>2 DEF Room

(* BufferedSender::send, with new output of the peer that it is called for. *)
LEMMA SendStep ==
  ASSUME IInv, NEW w \in pending, w.kind = "read", NEW out \in Seq(Byte),
         New(out), out # <<>>, \A i \in 1 .. Len(out) : out[i].src = fdtab[w.fd],
         send(w, w.fd, out),
         readIn' \in [Clients -> Nat], \A d \in Clients : readIn[d] <= readIn'[d],
         UNCHANGED <<fdtab, stage, m_handlers, abandoned, sentIn, link, got>>
  PROVE  IInv'
<1>0. /\ TypeInv /\ Watched /\ OneWriter /\ Owed /\ Streamed /\ OwnUntilFull
      /\ mBuffer \in Seq(Byte) /\ sndq \in [Clients -> Seq(Byte)]
  BY DEF IInv, TypeInv
<1>1. PICK c \in Clients : w.fd \in DOMAIN fdtab /\ c = fdtab[w.fd]
  BY <1>0, EventOf
<1>2. Len(out) \in Nat /\ Len(out) > 0 /\ Len(mBuffer) \in Nat
  BY <1>0, LenProperties, EmptySeq
<1>3. /\ Room(c) \in Nat /\ Room(c) = SndBuf - Len(sndq[c])
      /\ Len(sndq[c]) \in Nat /\ SndBuf \in Nat
  BY <1>1, RoomIs
<1>4. \A d \in Clients : Len(Stream(d)) \in Nat
  BY <1>0, StreamType, LenProperties
\* Output of the connection, k bytes of which the kernel takes.
<1>5. ASSUME NEW k \in 0 .. Len(mBuffer) + Len(out), Output(c, out, k), k <= Room(c),
             ~ abandoned => \/ Len(Stream(c)) >= SndBuf
                            \/ \A i \in 1 .. k : (mBuffer \o out)[i].src = c
      PROVE  /\ TypeInv' /\ NoExcess' /\ Owed' /\ Streamed' /\ OwnUntilFull'
             /\ Len(mBuffer') = Len(mBuffer) + Len(out) - k
             /\ Len(sndq'[c]) = Len(sndq[c]) + k
             /\ \A d \in Clients : Len(Stream(d)') \in Nat /\ Len(Stream(d)') >= Len(Stream(d))
  <2>1. /\ TypeInv' /\ NoExcess' /\ Owed' /\ Streamed' /\ OwnUntilFull'
        /\ Len(mBuffer') = Len(mBuffer) + Len(out) - k
        /\ Len(sndq'[c]) = Len(sndq[c]) + k
        /\ \A d \in Clients : Len(Stream(d)') >= Len(Stream(d))
    BY <1>1, <1>5, OutputKeeps
  <2>2. \A d \in Clients : Len(Stream(d)') \in Nat
    <3> TAKE d \in Clients
    <3>1. sndq'[d] \in Seq(Byte) /\ got'[d] \in Seq(Byte)
      BY <2>1 DEF TypeInv
    <3>2. got'[d] \o sndq'[d] \in Seq(Byte)
      BY <3>1, Joined
    <3> QED
      BY <3>2, LenProperties DEF Stream
  <2> QED
    BY <2>1, <2>2
<1>6. mBuffer = <<>> => mBuffer \o out = out /\ Len(mBuffer) = 0
  BY ConcatEmptySeq
<1>7. CASE /\ mBuffer # <<>>
           /\ mBuffer' = mBuffer \o out
           /\ owed' = owed \o out
           /\ UNCHANGED <<sndq, m_write_handler>>
           /\ Callback(w, {}, {})
  <2>1. mBuffer \o out \in Seq(Byte) /\ Len(mBuffer \o out) = Len(mBuffer) + Len(out)
    BY <1>0, Joined
  <2>2. SubSeq(mBuffer \o out, 0 + 1, Len(mBuffer \o out)) = mBuffer \o out
    BY <2>1, SubSeqFull
  <2>3. SubSeq(mBuffer \o out, 1, 0) = <<>>
    BY SubSeqEmpty
  <2>4. sndq' = [sndq EXCEPT ![c] = @ \o SubSeq(mBuffer \o out, 1, 0)]
    <3>1. sndq[c] \o <<>> = sndq[c]
      BY <1>0, <1>1, ConcatEmptySeq
    <3> QED
      BY <1>0, <1>1, <1>7, <2>3, <3>1
  <2>5. Output(c, out, 0)
    BY <1>7, <2>2, <2>4 DEF Output, Takes
  <2>6. 0 \in 0 .. Len(mBuffer) + Len(out) /\ 0 <= Room(c)
    BY <1>2, <1>3
  <2>7. /\ TypeInv' /\ NoExcess' /\ Owed' /\ Streamed' /\ OwnUntilFull'
        /\ Len(mBuffer') = Len(mBuffer) + Len(out) - 0
        /\ \A d \in Clients : Len(Stream(d)') \in Nat /\ Len(Stream(d)') >= Len(Stream(d))
    BY <1>5, <2>5, <2>6
  <2>8. mBuffer' # <<>>
    BY <1>2, <2>7, EmptySeq
  <2>9. Watched' /\ OneWriter'
    BY <1>7, <2>8, WatchersKept
  <2>10. Refused'
    BY <1>7, <2>7, RefusedKept
  <2> QED
    BY <2>7, <2>9, <2>10 DEF IInv
<1>8. CASE /\ mBuffer = <<>> /\ link[c] = "rst"
           /\ UNCHANGED <<sndq, senderVars>>
           /\ Callback(w, {}, {})
  <2>1. mBuffer' = mBuffer /\ m_write_handler' = m_write_handler /\ owed' = owed
    BY <1>8 DEF senderVars
  <2>2. TypeInv' /\ NoExcess'
    BY <1>8, <2>1 DEF IInv, TypeInv, NoExcess
  <2>3. \A d \in Clients : Stream(d)' = Stream(d)
    BY <1>8 DEF Stream
  <2>4. \A d \in Clients :
          /\ Len(Stream(d)') \in Nat /\ Len(Stream(d)') <= Len(Stream(d))
          /\ Len(Stream(d)') >= Len(Stream(d)) /\ Len(Stream(d)') = Len(Stream(d))
          /\ \A i \in 1 .. Len(Stream(d)') : Stream(d)'[i] = Stream(d)[i]
    BY <1>4, <2>3
  <2>5. Owed' /\ Streamed' /\ OwnUntilFull'
    BY <1>0, <2>1, <2>4, NoMoreOutput
  <2>6. Refused'
    BY <2>1, <2>4, RefusedKept
  <2>7. Watched' /\ OneWriter'
    BY <1>8, <2>1, WatchersKept
  <2> QED
    BY <2>2, <2>5, <2>6, <2>7 DEF IInv
<1>9. CASE /\ mBuffer = <<>> /\ link[c] # "rst" /\ Complete(out, Room(c))
           /\ sndq' = [sndq EXCEPT ![c] = @ \o out]
           /\ owed' = owed \o out
           /\ UNCHANGED <<mBuffer, m_write_handler>>
           /\ Callback(w, {}, {})
  <2>1. /\ SubSeq(out, 1, Len(out)) = out
        /\ SubSeq(out, Len(out) + 1, Len(out)) = <<>>
    <3>1. Len(out) + 1 \in Int /\ Len(out) \in Int /\ Len(out) < Len(out) + 1
      BY <1>2
    <3> QED
      BY <3>1, SubSeqFull, SubSeqEmpty
  <2>2. Output(c, out, Len(out))
    BY <1>6, <1>9, <2>1 DEF Output, Takes
  <2>3. Len(out) \in 0 .. Len(mBuffer) + Len(out) /\ Len(out) <= Room(c)
    BY <1>2, <1>9 DEF Complete
  <2>4. \A i \in 1 .. Len(out) : (mBuffer \o out)[i].src = c
    BY <1>1, <1>6, <1>9
  <2>5. /\ TypeInv' /\ NoExcess' /\ Owed' /\ Streamed' /\ OwnUntilFull'
        /\ \A d \in Clients : Len(Stream(d)') \in Nat /\ Len(Stream(d)') >= Len(Stream(d))
    BY <1>5, <2>2, <2>3, <2>4
  <2>6. Watched' /\ OneWriter'
    BY <1>9, WatchersKept
  <2>7. Refused'
    BY <1>9, <2>5, RefusedKept
  <2> QED
    BY <2>5, <2>6, <2>7 DEF IInv
<1>10. CASE /\ mBuffer = <<>> /\ link[c] # "rst" /\ ~ Complete(out, Room(c))
            /\ sndq' = [sndq EXCEPT ![c] = @ \o SubSeq(out, 1, Min2(Room(c), Len(out)))]
            /\ mBuffer' = Left(out, Room(c))
            /\ owed' = owed \o out
            /\ m_write_handler' = Writer(w.fd)
            /\ Callback(w, Waiters(w.fd, Room(c)), {})
  <2>1. Room(c) < Len(out) /\ Min2(Room(c), Len(out)) = Room(c)
    <3>1. ~ (Len(out) <= Room(c))
      BY <1>10 DEF Complete
    <3>2. \A a, b \in Nat : ~ (b <= a) => a < b /\ a <= b
      OBVIOUS
    <3>3. Room(c) < Len(out) /\ Room(c) <= Len(out)
      BY <1>2, <1>3, <3>1, <3>2
    <3> QED
      BY <3>3 DEF Min2
  <2>2. Output(c, out, Room(c))
    BY <1>6, <1>10, <2>1 DEF Output, Takes, Left
  <2>3. Room(c) \in 0 .. Len(mBuffer) + Len(out) /\ Room(c) <= Room(c)
    BY <1>2, <1>3, <2>1
  <2>4. \A i \in 1 .. Room(c) : (mBuffer \o out)[i].src = c
    <3>1. \A i \in 1 .. Room(c) : i \in 1 .. Len(out)
      BY <1>2, <1>3, <2>1
    <3> QED
      BY <1>1, <1>6, <1>10, <3>1
  <2>5. /\ TypeInv' /\ NoExcess' /\ Owed' /\ Streamed' /\ OwnUntilFull'
        /\ Len(mBuffer') = Len(mBuffer) + Len(out) - Room(c)
        /\ Len(sndq'[c]) = Len(sndq[c]) + Room(c)
    BY <1>5, <2>2, <2>3, <2>4
  <2>6. mBuffer' # <<>> /\ m_write_handler = NULL
    <3>1. Len(mBuffer') # 0
      BY <1>2, <1>3, <1>6, <1>10, <2>1, <2>5
    <3> QED
      BY <1>0, <1>10, <3>1, EmptySeq DEF OneWriter
  <2>7. Watched' /\ OneWriter'
    BY <1>1, <1>10, <2>6, WatchersKept DEF Waiters
  <2>8. Refused'
    <3>1. m_write_handler'.fd = w.fd
      BY <1>10 DEF Writer
    <3>2. fdtab'[m_write_handler'.fd] = c /\ c # NULL
      BY <1>1, <3>1, EchoAssumption
    <3>3. Len(sndq'[c]) = SndBuf
      BY <1>3, <2>5
    <3>4. Len(Stream(c)') >= SndBuf
      <4>1. got'[c] \in Seq(Byte) /\ sndq'[c] \in Seq(Byte)
        BY <1>1, <2>5 DEF TypeInv
      <4>2. Len(got'[c]) \in Nat /\ Len(got'[c] \o sndq'[c]) = Len(got'[c]) + Len(sndq'[c])
        BY <4>1, Joined, LenProperties
      <4>3. \A a, b \in Nat : a + b >= b
        OBVIOUS
      <4>4. Len(got'[c] \o sndq'[c]) >= SndBuf
        BY <1>3, <3>3, <4>2, <4>3
      <4> QED
        BY <4>4 DEF Stream
    <3> QED
      BY <3>2, <3>4 DEF Refused, Stream
  <2> QED
    BY <2>5, <2>7, <2>8 DEF IInv
<1> QED
  BY <1>1, <1>7, <1>8, <1>9, <1>10 DEF send

LEMMA Listed ==
  ASSUME NEW S, NEW n \in Nat, NEW f \in [1 .. n -> S]
  PROVE  f \in Seq(S) /\ Len(f) = n
<1>1. f \in Seq(S)
  OBVIOUS
<1>2. DOMAIN f = 1 .. Len(f) /\ Len(f) \in Nat
  BY <1>1, LenProperties
<1> QED
  BY <1>1, <1>2

(* What one recv read, reversed, is new and the peer's.                    *)
LEMMA Reversed ==
  ASSUME TypeInv, NEW c \in Clients, NEW len \in Nat, len > 0,
         readIn' = [readIn EXCEPT ![c] = @ + len]
  PROVE  LET out == Reverse([i \in 1 .. len |-> [src |-> c, pos |-> readIn[c] + i]])
         IN  /\ out \in Seq(Byte) /\ out # <<>> /\ New(out)
             /\ \A i \in 1 .. Len(out) : out[i].src = c
<1> DEFINE data == [i \in 1 .. len |-> [src |-> c, pos |-> readIn[c] + i]]
           out == Reverse(data)
           byte(i) == [src |-> c, pos |-> readIn[c] + (len - i + 1)]
<1>1. /\ readIn[c] \in Nat /\ readIn'[c] = readIn[c] + len
  BY DEF TypeInv
<1>2. Len(data) = len
  <2>1. data \in [1 .. len -> Byte]
    BY <1>1 DEF Byte
  <2> QED
    BY <2>1, Listed
<1>3. out = [i \in 1 .. len |-> byte(i)]
  <2>1. out = [i \in 1 .. len |-> data[len - i + 1]]
    BY <1>2 DEF Reverse
  <2>2. \A i \in 1 .. len : data[len - i + 1] = byte(i)
    <3> TAKE i \in 1 .. len
    <3>1. len - i + 1 \in 1 .. len
      OBVIOUS
    <3> QED
      BY <3>1
  <2> QED
    BY <2>1, <2>2
<1>4. out \in Seq(Byte) /\ Len(out) = len
  <2>1. \A i \in 1 .. len : byte(i) \in Byte
    BY <1>1 DEF Byte
  <2>2. out \in [1 .. len -> Byte]
    BY <1>3, <2>1
  <2> QED
    BY <2>2, Listed
<1>5. \A i \in 1 .. len : out[i] = byte(i)
  BY <1>3
<1> HIDE DEF out, data
<1>6. \A i \in 1 .. Len(out) : /\ out[i].src = c
                               /\ out[i].pos = readIn[c] + (len - i + 1)
  BY <1>4, <1>5
<1>7. New(out)
  <2>1. \A i \in 1 .. Len(out) : /\ readIn[out[i].src] < out[i].pos
                                 /\ out[i].pos <= readIn'[out[i].src]
    BY <1>1, <1>4, <1>6
  <2>2. \A i, j \in 1 .. Len(out) : out[i] = out[j] => i = j
    BY SMTT(30), <1>1, <1>4, <1>6
  <2> QED
    BY <2>1, <2>2 DEF New
<1>8. out # <<>>
  BY <1>4, EmptySeq
<1> QED
  BY <1>4, <1>6, <1>7, <1>8 DEF out, data

LEMMA ReceiveClientStep ==
  ASSUME IInv, NEW w \in pending, m_on_receive_client(w)
  PROVE  IInv'
<1>0. w.kind = "read" /\ TypeInv /\ UNCHANGED <<sentIn, link, got>>
  BY DEF IInv, m_on_receive_client
<1>1. PICK c \in Clients : c = fdtab[w.fd]
  BY <1>0, EventOf DEF IInv
<1> DEFINE len == Min2(Unread(c), BuffSize)
           out == Reverse([i \in 1 .. len |-> [src |-> c, pos |-> readIn[c] + i]])
<1>2. CASE /\ len > 0
           /\ readIn' = [readIn EXCEPT ![c] = @ + len]
           /\ send(w, w.fd, out)
           /\ UNCHANGED <<fdtab, stage, m_handlers, abandoned>>
  <2>1. len \in Nat
    <3>1. Unread(c) \in Int /\ BuffSize \in Nat
      BY <1>0, EchoAssumption DEF Unread, TypeInv
    <3>2. len \in Int
      BY <3>1 DEF Min2
    <3> HIDE DEF len
    <3> QED
      BY <1>2, <3>2
  <2> HIDE DEF len
  <2>2. /\ out \in Seq(Byte) /\ out # <<>> /\ New(out)
        /\ \A i \in 1 .. Len(out) : out[i].src = c
    BY <1>0, <1>2, <2>1, Reversed
  <2>3. /\ readIn' \in [Clients -> Nat]
        /\ \A d \in Clients : readIn[d] <= readIn'[d]
    BY <1>0, <1>2, <2>1 DEF TypeInv
  <2> HIDE DEF out
  <2> QED
    BY <1>0, <1>1, <1>2, <2>2, <2>3, SendStep
<1>3. CASE /\ Callback(w, {}, {m_handlers[w.fd]})
           /\ m_handlers' = [m_handlers EXCEPT ![w.fd] = NULL]
           /\ fdtab' = [fdtab EXCEPT ![w.fd] = NULL]
           /\ abandoned' = (abandoned \/ \E v \in Writers : v.fd = w.fd)
           /\ UNCHANGED <<readIn, sndq, senderVars>>
  BY <1>0, <1>3, EndStep
<1> QED
  BY <1>1, <1>2, <1>3 DEF m_on_receive_client

(* BufferedSender::m_on_send: a descriptor that is gone or full takes      *)
(* nothing, else the kernel gets what it has room for.                     *)
LEMMA OnSendStep ==
  ASSUME IInv, NEW w \in pending, m_on_send(w)
  PROVE  IInv'
<1> DEFINE n == IF fdtab[w.fd] = NULL \/ link[fdtab[w.fd]] = "rst" THEN 0
                ELSE Min2(Room(fdtab[w.fd]), Len(mBuffer))
<1>0. /\ w.kind = "write" /\ TypeInv /\ Watched /\ OneWriter
      /\ Owed /\ Streamed /\ OwnUntilFull
  BY DEF IInv, m_on_send
<1>1. m_write_handler # NULL /\ w = m_write_handler /\ w.fd \in DOMAIN fdtab
  BY <1>0, EventOf
<1>2. mBuffer \in Seq(Byte) /\ Len(mBuffer) \in Nat /\ mBuffer # <<>>
  BY SMTT(30), <1>0, <1>1, LenProperties DEF TypeInv, OneWriter
<1>3. /\ UNCHANGED <<fdtab, stage, sentIn, readIn, link, got>>
      /\ UNCHANGED <<m_handlers, owed, abandoned>>
      /\ mBuffer' = SubSeq(mBuffer, n + 1, Len(mBuffer))
      /\ n = 0 => sndq' = sndq
      /\ n # 0 => sndq' = [sndq EXCEPT ![fdtab[w.fd]] = @ \o SubSeq(mBuffer, 1, n)]
  BY DEF m_on_send
<1>4. \/ /\ mBuffer' = <<>> /\ m_write_handler' = NULL
         /\ Callback(w, {}, {m_write_handler})
      \/ /\ mBuffer' # <<>> /\ UNCHANGED m_write_handler
         /\ Callback(w, {}, {})
  BY DEF m_on_send, Finished
<1>5. /\ readIn' \in [Clients -> Nat] /\ \A d \in Clients : readIn[d] <= readIn'[d]
  BY <1>0, <1>3 DEF TypeInv
<1>6. Watched' /\ OneWriter'
  BY <1>2, <1>3, <1>4, WatchersKept
<1>7. ASSUME \A d \in Clients : Len(Stream(d)') \in Nat /\ Len(Stream(d)') >= Len(Stream(d))
      PROVE  Refused'
  <2>1. CASE m_write_handler' = NULL
    BY <2>1 DEF Refused
  <2>2. CASE UNCHANGED m_write_handler
    BY <1>3, <1>7, <2>2, RefusedKept
  <2> QED
    BY <1>4, <2>1, <2>2
<1>8. CASE n = 0
  <2>1. mBuffer' = mBuffer /\ sndq' = sndq
    <3>1. SubSeq(mBuffer, 0 + 1, Len(mBuffer)) = mBuffer
      BY <1>2, SubSeqFull
    <3> QED
      BY <1>3, <1>8, <3>1
  <2>2. TypeInv' /\ NoExcess'
    BY <1>3, <2>1 DEF IInv, TypeInv, NoExcess
  <2>3. \A d \in Clients : Stream(d)' = Stream(d) /\ Len(Stream(d)) \in Nat
    BY <1>0, <1>3, <2>1, StreamType, LenProperties DEF Stream
  <2>4. \A d \in Clients :
          /\ Len(Stream(d)') \in Nat /\ Len(Stream(d)') <= Len(Stream(d))
          /\ Len(Stream(d)') >= Len(Stream(d)) /\ Len(Stream(d)') = Len(Stream(d))
          /\ \A i \in 1 .. Len(Stream(d)') : Stream(d)'[i] = Stream(d)[i]
    BY <2>3
  <2>5. Owed' /\ Streamed' /\ OwnUntilFull'
    BY <1>0, <1>3, <1>5, <2>1, <2>4, NoMoreOutput
  <2>6. Refused'
    BY <1>7, <2>4
  <2> QED
    BY <1>6, <2>2, <2>5, <2>6 DEF IInv
<1>9. CASE n # 0
  <2>1. PICK c \in Clients : c = fdtab[w.fd]
    BY <1>0, <1>1, <1>9 DEF TypeInv
  <2>2. n = Min2(Room(c), Len(mBuffer))
    BY <1>9, <2>1
  <2>3. Room(c) \in Nat
    BY <2>1, RoomIs
  <2>4. n \in 0 .. Len(mBuffer) + Len(<<>>) /\ n <= Room(c)
    <3>1. Len(<<>>) = 0
      BY EmptySeq
    <3> QED
      BY <1>2, <2>2, <2>3, <3>1 DEF Min2
  <2>5. <<>> \in Seq(Byte) /\ New(<<>>)
    <3>1. Len(<<>>) = 0
      BY EmptySeq
    <3>2. 1 .. Len(<<>>) = {}
      BY <3>1
    <3> QED
      BY <3>2, EmptySeq DEF New
  <2> HIDE DEF n
  <2>6. Output(c, <<>>, n)
    <3>1. mBuffer \o <<>> = mBuffer /\ owed \o <<>> = owed
      BY <1>0, ConcatEmptySeq DEF TypeInv
    <3> QED
      BY <1>3, <1>9, <2>1, <3>1 DEF Output, Takes
  <2>7. ~ abandoned => Len(Stream(c)) >= SndBuf
    <3>1. ASSUME ~ abandoned PROVE link[c] = "rst" \/ Len(Stream(c)) >= SndBuf
      BY <1>1, <2>1, <3>1 DEF IInv, Refused
    <3>2. link[c] # "rst"
      BY <1>9, <2>1 DEF n
    <3> QED
      BY <3>1, <3>2
  <2>8. /\ TypeInv' /\ NoExcess' /\ Owed' /\ Streamed' /\ OwnUntilFull'
        /\ \A d \in Clients : Len(Stream(d)') >= Len(Stream(d))
    BY <1>3, <1>5, <2>4, <2>5, <2>6, <2>7, OutputKeeps
  <2>9. \A d \in Clients : Len(Stream(d)') \in Nat
    <3> TAKE d \in Clients
    <3>1. sndq'[d] \in Seq(Byte) /\ got'[d] \in Seq(Byte)
      BY <2>8 DEF TypeInv
    <3>2. got'[d] \o sndq'[d] \in Seq(Byte)
      BY <3>1, Joined
    <3> QED
      BY <3>2, LenProperties DEF Stream
  <2>10. Refused'
    BY <1>7, <2>8, <2>9
  <2> QED
    BY <1>6, <2>8, <2>10 DEF IInv
<1> QED
  BY <1>8, <1>9

LEMMA NextIInv == IInv /\ [Next]_vars => IInv'
<1> SUFFICES ASSUME IInv, [Next]_vars PROVE IInv'
  OBVIOUS
<1>1. CASE \E c \in Clients : Connect(c) \/ PeerSend(c) \/ PeerRead(c)
                              \/ PeerFin(c) \/ PeerRst(c)
  BY <1>1, PeersStep
<1>2. CASE Wait
  BY <1>2, WaitStep
<1>3. CASE Dispatch
  BY <1>3, AcceptStep, ReceiveClientStep, OnSendStep DEF Dispatch
<1>4. CASE UNCHANGED vars
  <2>1. UNCHANGED <<fdtab, readIn, m_handlers, mBuffer, m_write_handler, owed,
                    abandoned, ioVars, sndq, got, sentIn, link>>
    BY <1>4 DEF vars, socketVars, senderVars
  <2>2. sentIn' \in [Clients -> Int] /\ link' \in [Clients -> {"up", "fin", "rst"}]
    BY <2>1 DEF IInv, TypeInv
  <2> QED
    BY <2>1, <2>2, QuietStep
<1> QED
  BY <1>1, <1>2, <1>3, <1>4 DEF Next, Loop_step

LEMMA Invariance == Spec => []IInv
BY InitIInv, NextIInv, PTL DEF Spec

-----------------------------------------------------------------------------
(* The results.                                                            *)

(* One m_write_handler is enough for all connections: it is there while    *)
(* output is cached, and no other writer is in the loop.                   *)
THEOREM WriterIffCachedAlways == Spec => []WriterIffCached
<1>1. IInv => WriterIffCached
  <2> SUFFICES ASSUME IInv PROVE WriterIffCached
    OBVIOUS
  <2>1. TypeInv /\ Watched /\ OneWriter
    BY DEF IInv
  <2>2. m_write_handler # NULL <=> mBuffer # <<>>
    BY <2>1 DEF OneWriter
  <2>3. m_write_handler # NULL => Writers = {m_write_handler} \/ abandoned
    BY <2>1, WritersAre DEF OneWriter
  <2> QED
    BY <2>1, <2>2, <2>3, WritersAre DEF WriterIffCached
<1> QED
  BY <1>1, Invariance, PTL

(* What a peer reads before the kernel refused it any is its own, whatever *)
(* the others send, unless a peer left with output cached.                 *)
THEOREM OwnUntilFullAlways == Spec => []OwnUntilFull
<1>1. IInv => OwnUntilFull
  BY DEF IInv
<1> QED
  BY <1>1, Invariance, PTL

(* The shared sender neither loses nor repeats nor overtakes output, and   *)
(* gives each byte to one peer.                                            *)
THEOREM OutputInOrderAlways == Spec => []OutputInOrder
<1>1. IInv => OutputInOrder
  <2> SUFFICES ASSUME IInv PROVE OutputInOrder
    OBVIOUS
  <2> DEFINE At(b) == CHOOSE i \in DOMAIN owed : owed[i] = b
             line == SubSeq(owed, sent + 1, Len(owed))
             gone == SubSeq(owed, 1, sent)
  <2>1. TypeInv /\ Owed /\ Streamed
    BY DEF IInv
  <2>2. /\ owed \in Seq(Byte) /\ mBuffer \in Seq(Byte)
        /\ Len(owed) \in Nat /\ Len(mBuffer) \in Nat /\ DOMAIN owed = 1 .. Len(owed)
    BY <2>1, LenProperties DEF TypeInv
  <2>3. sent \in 0 .. Len(owed) /\ Len(owed) - sent = Len(mBuffer)
    BY SMTT(30), <2>1, <2>2 DEF Owed, sent
  <2>4. /\ gone \in Seq(Byte) /\ Len(gone) = sent
        /\ \A i \in 1 .. sent : gone[i] = owed[i]
        /\ line \in Seq(Byte) /\ Len(line) = Len(owed) - sent
        /\ \A i \in 1 .. Len(owed) - sent : line[i] = owed[sent + i]
    BY <2>2, <2>3, Cut
  <2>5. \A i, j \in DOMAIN owed : owed[i] = owed[j] => i = j
    BY <2>1, <2>2 DEF Owed
  <2>6. \A i \in DOMAIN owed : At(owed[i]) = i
    BY <2>5
  <2>7. \A c \in Clients : Streams[c] = Stream(c) /\ Lens[c] = Len(Stream(c))
    BY DEF Streams, Lens
  <2>8. \A i \in 1 .. sent : i \in DOMAIN owed
    BY <2>2, <2>3
  <2>9. \A c \in Clients :
          /\ Len(Stream(c)) \in Nat /\ DOMAIN Stream(c) = 1 .. Len(Stream(c))
          /\ ToSet(Stream(c)) = {Stream(c)[i] : i \in 1 .. Len(Stream(c))}
    BY <2>1, StreamType, LenProperties DEF ToSet
  <2>10. ToSet(gone) = {owed[i] : i \in 1 .. sent}
    <3>1. DOMAIN gone = 1 .. sent
      BY <2>4, LenProperties
    <3> QED
      BY <2>4, <3>1 DEF ToSet
  <2>11. \A c \in Clients : \A i \in 1 .. Len(Stream(c)) :
           \E p \in 1 .. sent : Stream(c)[i] = owed[p] /\ At(Stream(c)[i]) = p
    BY <2>1, <2>6, <2>7, <2>8 DEF Streamed, Placed
  <2> HIDE DEF At, line, gone
  <2>12. \A i \in DOMAIN owed : owed[i].pos <= readIn[owed[i].src]
    BY <2>1, <2>2 DEF Owed
  <2>13. mBuffer = line
    <3>1. Len(mBuffer) = Len(line) /\ \A i \in 1 .. Len(mBuffer) : mBuffer[i] = line[i]
      BY <2>1, <2>3, <2>4 DEF Owed
    <3> QED
      BY <2>2, <2>4, <3>1, SeqEqual
  <2>14. ASSUME NEW c \in Clients, NEW i \in 1 .. Len(Stream(c))
         PROVE  /\ Stream(c)[i] \in ToSet(gone)
                /\ i > 1 => At(Stream(c)[i - 1]) < At(Stream(c)[i])
    <3>1. PICK q \in 1 .. sent : Stream(c)[i] = owed[q] /\ At(Stream(c)[i]) = q
      BY <2>11
    <3>2. Stream(c)[i] \in ToSet(gone)
      BY <2>10, <3>1
    <3>3. ASSUME i > 1 PROVE At(Stream(c)[i - 1]) < At(Stream(c)[i])
      <4>1. i - 1 \in 1 .. Len(Stream(c)) /\ i - 1 < i
        BY <2>9, <3>3
      <4>2. PICK p \in 1 .. sent : Stream(c)[i - 1] = owed[p] /\ At(Stream(c)[i - 1]) = p
        BY <2>11, <4>1
      <4>3. p < q
        BY SMTT(30), <2>1, <2>7, <3>1, <4>1, <4>2 DEF Streamed, Placed
      <4> QED
        BY <3>1, <4>2, <4>3
    <3> QED
      BY <3>2, <3>3
  <2>15. \A c, d \in Clients : c # d => ToSet(Stream(c)) \cap ToSet(Stream(d)) = {}
    <3> TAKE c, d \in Clients
    <3> HAVE c # d
    <3>1. \A i \in 1 .. Len(Stream(c)), j \in 1 .. Len(Stream(d)) :
            Stream(c)[i] # Stream(d)[j]
      BY SMTT(30), <2>1, <2>7 DEF Streamed, Placed
    <3> QED
      BY <2>9, <3>1
  <2>16. (\A c \in Clients : link[c] # "rst") =>
           \A i \in 1 .. sent : \E c \in Clients : owed[i] \in ToSet(Stream(c))
    <3> HAVE \A c \in Clients : link[c] # "rst"
    <3>1. \A p \in 1 .. sent : \E c \in Clients :
            \E i \in 1 .. Len(Stream(c)) : Stream(c)[i] = owed[p]
      BY <2>1, <2>7 DEF Streamed, Covered
    <3> QED
      BY <2>9, <3>1
  <2> QED
    BY <2>5, <2>12, <2>13, <2>14, <2>15, <2>16 DEF OutputInOrder, At, line, gone, sent
<1> QED
  BY <1>1, Invariance, PTL
=============================================================================
