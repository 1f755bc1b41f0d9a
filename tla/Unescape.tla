------------------------------- MODULE Unescape -------------------------------
(***************************************************************************)
(* The unescaping of QUERY_STRING in connection.cpp: h2c and the loop of   *)
(* unescape, one percent sign per step, on strings of bytes.               *)
(***************************************************************************)
EXTENDS Integers, SequencesExt

VARIABLES
  arg,
  pos_prev,  \* how much of arg is done
  ret_val,
  returned

unescapeVars == <<arg, pos_prev, ret_val, returned>>

Percent == 37
Space == 32

(* The value of a hexadecimal digit, -1 for any other byte.                *)
Digit(b) ==
  CASE b \in 65 .. 70  -> b - 65 + 10
    [] b \in 97 .. 102 -> b - 97 + 10
    [] b \in 48 .. 57  -> b - 48
    [] OTHER           -> -1

(* h2c on the two bytes a and b: it fails if either is no digit; the       *)
(* result is kept in a char.                                               *)
IsPair(a, b) == Digit(a) # -1 /\ Digit(b) # -1
h2c(a, b) == (Digit(a) * 16 + Digit(b)) % 256

(* A control character becomes a space; bytes from 128 on are none,        *)
(* whatever the sign of char.                                              *)
\* Mutant: char is compared as it is, signed.
PrintableSigned(c) == IF c > Space /\ c < 128 THEN c ELSE Space
Printable(c) == IF c > Space THEN c ELSE Space

(* Two bytes follow the percent sign at pos (counted from 1).              *)
TwoFollow(pos) == pos + 2 <= Len(arg)

unescape ==
  LET at == {i \in pos_prev + 1 .. Len(arg) : arg[i] = Percent}
      pos == CHOOSE i \in at : \A j \in at : i <= j
      skipped == SubSeq(arg, pos_prev + 1, pos - 1)
  IN  /\ ~ returned
      /\ \/ /\ at = {}
            /\ ret_val' = ret_val \o SubSeq(arg, pos_prev + 1, Len(arg))
            /\ returned' = TRUE
            /\ UNCHANGED pos_prev
         \/ /\ at # {} /\ TwoFollow(pos) /\ IsPair(arg[pos + 1], arg[pos + 2])
            /\ ret_val' = ret_val \o skipped
                            \o <<Printable(h2c(arg[pos + 1], arg[pos + 2]))>>
            /\ pos_prev' = pos + 2
            /\ UNCHANGED returned
         \/ /\ at # {} /\ ~ (TwoFollow(pos) /\ IsPair(arg[pos + 1], arg[pos + 2]))
            /\ ret_val' = ret_val \o skipped \o <<Percent>>
            /\ pos_prev' = pos
            /\ UNCHANGED returned
      /\ UNCHANGED arg
=============================================================================
