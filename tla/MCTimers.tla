------------------------------ MODULE MCTimers ------------------------------
(* Instances of LibevTimers.                                               *)
EXTENDS LibevTimers

CONSTANTS t1, t2

Two == {t1, t2}
OneTwo == {1, 2}
=============================================================================
