------------------------------- MODULE MCEcho -------------------------------
(* An instance of Echo: two peers, one of which may hang up, and one or    *)
(* two descriptors for them.                                               *)
EXTENDS Echo

CONSTANTS c1, c2

Both == {c1, c2}
Second == {c2}
OneOrTwo == {{1}, {1, 2}}
=============================================================================
