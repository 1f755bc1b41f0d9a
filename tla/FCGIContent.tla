------------------------------ MODULE FCGIContent ------------------------------
(***************************************************************************)
(* What FCGIRequest keeps of the contents of a request: the name-value     *)
(* pairs of its PARAMS records (m_setup_parameters) and the body of its    *)
(* STDIN records (m_setup_stdin).  FCGIRequest models when a request is    *)
(* accepted; here all its records are there.                               *)
(*                                                                         *)
(* A byte is a number below Base, its high bit is Half; 256 and 128 are    *)
(* the real values, smaller ones make short lengths need the long form.    *)
(***************************************************************************)
EXTENDS Integers, SequencesExt, Functions

CONSTANTS Base, Half

ASSUME BaseAssumption == Base \in Nat /\ Half \in Nat /\ Half > 0 /\ Base = 2 * Half

VARIABLES
  pairs,     \* what the web server sends: names and values
  records,   \* the records it sends them in, and the body
  rec,       \* the record parse is at
  begin,     \* m_setup_parameters: how much of the record is read
  m_params, m_stdin,
  overrun    \* m_setup_parameters went beyond the record

contentVars == <<pairs, records, rec, begin, m_params, m_stdin, overrun>>

Byte == 0 .. Base - 1
NoParams == [name \in {} |-> <<>>]

-----------------------------------------------------------------------------
(* The web server: a length below Half takes one byte, any length may take *)
(* four, the first with its high bit set.                                  *)

Short(n) == <<n>>
Long(n) == <<Half + n \div (Base * Base * Base), (n \div (Base * Base)) % Base,
             (n \div Base) % Base, n % Base>>
Forms(s) == {Long(Len(s))} \cup (IF Len(s) < Half THEN {Short(Len(s))} ELSE {})
Encodings(p) == {n \o v \o p.name \o p.value : n \in Forms(p.name), v \in Forms(p.value)}

Params(content) == [type |-> "PARAMS", content |-> content]
Stdin(content) == [type |-> "STDIN", content |-> content]

-----------------------------------------------------------------------------
(* m_setup_parameters.                                                     *)

High(b) == b >= Half
\* Mutant: only the last of the four bytes counts.
LengthLastByte(c, i) == IF High(c[i]) THEN c[i + 3] ELSE c[i]
Length(c, i) ==
  IF High(c[i])
  THEN (c[i] - Half) * (Base * Base * Base) + c[i + 1] * (Base * Base)
         + c[i + 2] * Base + c[i + 3]
  ELSE c[i]
Width(c, i) == IF High(c[i]) THEN 4 ELSE 1

(* A length can be read at i.                                              *)
Readable(c, i) == i <= Len(c) /\ i + Width(c, i) - 1 <= Len(c)

(* One round of the loop: both lengths, then the name, then the value.     *)
(* What is read behind the record is whatever lies there.                  *)
m_setup_parameters ==
  LET c == records[rec].content
      n == begin + 1
      v == n + Width(c, n)
      name == v + Width(c, v)
      value == name + Length(c, n)
      end == value + Length(c, v)
      inside == Readable(c, n) /\ Readable(c, v) /\ end - 1 <= Len(c)
  IN  /\ rec <= Len(records) /\ ~ overrun
      /\ records[rec].type = "PARAMS" /\ begin # Len(c)
      /\ \/ /\ inside
            /\ LET key == SubSeq(c, name, value - 1)
               IN  m_params' = [k \in DOMAIN m_params \cup {key} |->
                                  IF k = key THEN SubSeq(c, value, end - 1)
                                  ELSE m_params[k]]
            /\ begin' = end - 1
            /\ UNCHANGED overrun
         \/ /\ ~ inside
            /\ overrun' = TRUE
            /\ UNCHANGED <<m_params, begin>>
      /\ UNCHANGED <<pairs, records, rec, m_stdin>>

(* assign: a record replaces what the one before it brought.               *)
m_setup_stdin ==
  /\ m_stdin' = records[rec].content
  /\ UNCHANGED <<m_params, overrun>>

(* parse goes on to the next record, skipping empty ones.                  *)
NextRecord ==
  /\ rec <= Len(records) /\ ~ overrun
  /\ \/ /\ records[rec].type = "PARAMS" /\ begin = Len(records[rec].content)
        /\ UNCHANGED <<m_params, m_stdin, overrun>>
     \/ /\ records[rec].type = "STDIN" /\ records[rec].content # <<>>
        /\ m_setup_stdin
     \/ /\ records[rec].type = "STDIN" /\ records[rec].content = <<>>
        /\ UNCHANGED <<m_params, m_stdin, overrun>>
  /\ rec' = rec + 1 /\ begin' = 0
  /\ UNCHANGED <<pairs, records>>

Decode == m_setup_parameters \/ NextRecord

-----------------------------------------------------------------------------
(* Correctness, for a server whose records hold whole pairs.  The protocol *)
(* lets a pair run on into the next record; the code does not.             *)

(* The parameters the first k pairs leave: a later value replaces an       *)
(* earlier one of the same name.                                           *)
Meant(k) ==
  [name \in {pairs[i].name : i \in 1 .. k} |->
     pairs[CHOOSE i \in 1 .. k :
             /\ pairs[i].name = name
             /\ \A j \in i + 1 .. k : pairs[j].name # name].value]
=============================================================================
