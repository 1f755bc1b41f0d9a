-------------------------- MODULE SendBufferTrivial --------------------------
(***************************************************************************)
(* SendBufferTrivial: the cached output as one string m_data, which is     *)
(* what BufferedSender is built with.  Bytes are positions in the stream   *)
(* of everything ever appended; m_data holds those in head .. tail - 1.    *)
(***************************************************************************)
EXTENDS Naturals

CONSTANTS
  MaxLen,    \* what one append brings at most
  MaxBytes   \* bound on all that is appended

VARIABLES head, tail

Init == head = 0 /\ tail = 0

append(n) ==
  /\ n > 0 /\ tail + n <= MaxBytes
  /\ tail' = tail + n
  /\ UNCHANGED head

(* m_data.substr(size) throws when size is beyond the end.                 *)
advance(size) ==
  /\ size <= tail - head
  /\ head' = head + size
  /\ UNCHANGED tail

clear ==
  /\ head' = tail
  /\ UNCHANGED tail

Next ==
  \/ \E n \in 1 .. MaxLen : append(n)
  \/ \E size \in 0 .. tail - head : advance(size)
  \/ clear

Spec == Init /\ [][Next]_<<head, tail>>
=============================================================================
