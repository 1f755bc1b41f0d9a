---------------------------- MODULE FCGIResponse ----------------------------
(***************************************************************************)
(* FCGIResponse: the caller sets a header, a content, a raw output or an   *)
(* error text in any order, and writeOut frames them as FastCGI records    *)
(* into the cache of the BufferedSender.  Strings are sequences of bytes;  *)
(* a record keeps the header fields that vary and the bytes cached after   *)
(* the header.  The raw output and the header share the member m_str1.     *)
(***************************************************************************)
EXTENDS Integers, Sequences

CONSTANTS
  MaxData,   \* m_max_data_length
  Align,     \* records are padded to a multiple of this
  Strings    \* what callers set

ASSUME FramingAssumption ==
  /\ MaxData \in Nat \ {0}
  /\ Align \in Nat \ {0} /\ 8 % Align = 0
  /\ \A s \in Strings : s \in Seq(Nat)

VARIABLES m_str1, m_str2, m_error, m_source_type, cashed

responseVars == <<m_str1, m_str2, m_error, m_source_type, cashed>>

EndOfHeader == <<13, 10, 13, 10>>

Zeros(n) == [i \in 1 .. n |-> 0]

\* Mutant: a full line of padding for data that needs none.
PaddingNeverZero(len) == Align - (len % Align)
Padding(len) == IF len % Align # 0 THEN Align - (len % Align) ELSE 0

(* m_write cuts s into portions of at most MaxData bytes; the k-th starts  *)
(* at From(k).                                                             *)
Portions(n) == (n + MaxData - 1) \div MaxData
From(k) == (k - 1) * MaxData + 1
PortionLen(n, k) ==
  LET left == n - From(k) + 1 IN IF left > MaxData THEN MaxData ELSE left

m_write(type, s) ==
  [k \in 1 .. Portions(Len(s)) |->
    LET len == PortionLen(Len(s), k)
        pad == Padding(len)
    IN  [type |-> type, len |-> len, pad |-> pad,
         body |-> SubSeq(s, From(k), From(k) + len - 1) \o Zeros(pad)]]

(* FCGI_EndRequestBody with status 0 and FCGI_REQUEST_COMPLETE.            *)
EndRequest == [type |-> "END_REQUEST", len |-> 8, pad |-> 0, body |-> Zeros(8)]

Init ==
  /\ m_str1 = <<>> /\ m_str2 = <<>> /\ m_error = <<>>
  /\ m_source_type = {}
  /\ cashed = <<>>

setHeader(s) ==
  /\ m_str1' = s \o EndOfHeader
  /\ m_source_type' = (m_source_type \cap {"content"}) \cup {"header"}
  /\ UNCHANGED <<m_str2, m_error, cashed>>

setContent(s) ==
  /\ m_str2' = s
  /\ m_source_type' = (m_source_type \cap {"header"}) \cup {"content"}
  /\ UNCHANGED <<m_str1, m_error, cashed>>

(* operator=                                                               *)
\* Mutant: the flag is added to those that are set, as the setters do.
SetRawKeepsFlags(s) ==
  /\ m_str1' = s
  /\ m_source_type' = m_source_type \cup {"raw"}
  /\ UNCHANGED <<m_str2, m_error, cashed>>
setRaw(s) ==
  /\ m_str1' = s
  /\ m_source_type' = {"raw"}
  /\ UNCHANGED <<m_str2, m_error, cashed>>

setError(s) ==
  /\ m_error' = s
  /\ UNCHANGED <<m_str1, m_str2, m_source_type, cashed>>

(* The strings writeOut puts on STDOUT: the raw output if its flag stands  *)
(* alone, otherwise header and content by their bits.                      *)
ShowsFirst == m_source_type = {"raw"} \/ "header" \in m_source_type
ShowsSecond == m_source_type # {"raw"} /\ "content" \in m_source_type

(* What writeOut caches before it calls send_cashed.                       *)
writeOut ==
  /\ cashed' =
       m_write("STDERR", m_error)
       \o (IF ShowsFirst THEN m_write("STDOUT", m_str1) ELSE <<>>)
       \o (IF ShowsSecond THEN m_write("STDOUT", m_str2) ELSE <<>>)
       \o <<EndRequest>>
  /\ UNCHANGED <<m_str1, m_str2, m_error, m_source_type>>

Next ==
  \/ \E s \in Strings : \/ setHeader(s) \/ setContent(s)
                        \/ setRaw(s) \/ setError(s)
  \/ writeOut

Spec == Init /\ [][Next]_responseVars

(* Every record the peer must parse is well framed: the two length fields  *)
(* describe the bytes that follow, a stream record is neither empty (which *)
(* would end the stream early) nor longer than MaxData, records keep the   *)
(* alignment, and END_REQUEST comes once and last.                         *)
WellFramed ==
  \A k \in 1 .. Len(cashed) :
    LET r == cashed[k] IN
    /\ Len(r.body) = r.len + r.pad /\ Len(r.body) % Align = 0
    /\ r.pad < Align /\ r.len > 0
    /\ r.type # "END_REQUEST" => r.len <= MaxData
    /\ r.type = "END_REQUEST" <=> k = Len(cashed)
=============================================================================
