---------------------------- MODULE FCGIRequest ----------------------------
(***************************************************************************)
(* FCGIRequest::parse: what the daemon makes of the bytes a peer has sent  *)
(* so far.  A request is a sequence of FastCGI records; a record keeps     *)
(* what parse looks at (type, request id, content and padding length).     *)
(* The stream is counted in units: the first unit of a header is its       *)
(* version byte, the second holds the type.  HeaderLen = 8 and             *)
(* BodyLen = 8 are the real sizes, smaller values scale the stream down    *)
(* without removing any of the places where it can be cut.                 *)
(***************************************************************************)
EXTENDS Integers, Sequences

CONSTANTS
  HeaderLen,   \* sizeof(FCGI_Header)
  BodyLen      \* sizeof(FCGI_BeginRequestBody)

ASSUME LengthsAssumption ==
  /\ HeaderLen \in Nat /\ HeaderLen >= 2
  /\ BodyLen \in Nat \ {0}

RecordTypes == {"BEGIN", "ABORT", "GET_VALUES", "PARAMS", "STDIN", "OTHER"}

Record == [type : RecordTypes, id : Nat, len : Nat, pad : Nat]

Verdict == {"Ready", "Insufficient", "Error"}

Size(r) == HeaderLen + r.len + r.pad

(* Where record k of the stream m begins; Start(m, Len(m) + 1) is its end. *)
Start(m, k) ==
  LET start[j \in 1 .. Len(m) + 1] ==
        IF j = 1 THEN 0 ELSE start[j - 1] + Size(m[j - 1])
  IN  start[k]

Total(m) == Start(m, Len(m) + 1)

(***************************************************************************)
(* The loop of parse leaves at record k: no complete header is left, the   *)
(* request id differs, the content is cut, the empty STDIN record ends the *)
(* request, or the type is not one the loop knows.                         *)
(***************************************************************************)
\* Mutant: the request id is not compared.
StopsNotAtId(m, id, to, k) ==
  \/ to - Start(m, k) < HeaderLen
  \/ to - Start(m, k) - HeaderLen < m[k].len
  \/ m[k].type = "STDIN" /\ m[k].len = 0
  \/ m[k].type \notin {"PARAMS", "GET_VALUES", "STDIN"}
\* Mutant: the padding must have arrived as well.
StopsAtPadding(m, id, to, k) ==
  \/ to - Start(m, k) < HeaderLen
  \/ m[k].id # id
  \/ to - Start(m, k) - HeaderLen < m[k].len + m[k].pad
  \/ m[k].type = "STDIN" /\ m[k].len = 0
  \/ m[k].type \notin {"PARAMS", "GET_VALUES", "STDIN"}
Stops(m, id, to, k) ==
  \/ to - Start(m, k) < HeaderLen
  \/ m[k].id # id
  \/ to - Start(m, k) - HeaderLen < m[k].len
  \/ m[k].type = "STDIN" /\ m[k].len = 0
  \/ m[k].type \notin {"PARAMS", "GET_VALUES", "STDIN"}

(* The closing test of parse: a STDIN record was among those consumed.     *)
\* Mutant: parse does not wait for STDIN (as it once did).
CinNotMandatory(m, first, last) == TRUE
cin_obtained(m, first, last) == \E k \in first .. last - 1 : m[k].type = "STDIN"

(* The while loop of parse, begun at record first with input up to to.     *)
Loop(m, id, first, to) ==
  LET last == CHOOSE k \in first .. Len(m) + 1 :
                /\ Stops(m, id, to, k)
                /\ \A j \in first .. k - 1 : ~ Stops(m, id, to, j)
      left == to - Start(m, last)
  IN  IF left < HeaderLen
      THEN IF cin_obtained(m, first, last) THEN "Ready" ELSE "Insufficient"
      ELSE IF m[last].id # id THEN "Error"
      ELSE IF left - HeaderLen < m[last].len THEN "Insufficient"
      ELSE IF m[last].type = "STDIN" THEN "Ready"
      ELSE "Error"

(***************************************************************************)
(* requestProps::init followed by the loop, on the units from .. to - 1 of *)
(* the stream m: the set of verdicts the build can reach.  "Ready" is a    *)
(* normal return, "Insufficient" the InsufficientData exception, "Error"   *)
(* any other one.  init does not check how much has arrived (its checks    *)
(* are compiled under _DEBUG only): with one byte of header the type is    *)
(* read from memory that holds none, so either an unexpected type is       *)
(* thrown or the loop runs out of data.  Input that does not begin at a    *)
(* record, and a loop that does not, find no version or id they accept.    *)
(***************************************************************************)
parse(m, from, to) ==
  LET at(p) == {k \in 1 .. Len(m) + 1 : Start(m, k) = p}
      heads == at(from) \ {Len(m) + 1}
      head == m[CHOOSE k \in heads : TRUE]
      body == from + HeaderLen + (IF head.type = "BEGIN" THEN BodyLen ELSE 0)
  IN  IF heads = {} THEN {"Error"}
      ELSE IF to - from < 2 THEN {"Insufficient", "Error"}
      ELSE IF head.type \notin {"BEGIN", "GET_VALUES"} THEN {"Error"}
      ELSE IF to - body < HeaderLen THEN {"Insufficient"}
      ELSE IF at(body) = {} THEN {"Error"}
      ELSE {Loop(m, head.id, CHOOSE k \in at(body) : TRUE, to)}
=============================================================================
