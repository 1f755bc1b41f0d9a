---------------------------- MODULE MCSendBuffer ----------------------------
(* The instance of SendBuffer that TLC checks; see SendBuffer.cfg.         *)
EXTENDS SendBuffer
=============================================================================
