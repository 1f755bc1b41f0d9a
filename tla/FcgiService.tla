---------------------------- MODULE FcgiService -----------------------------
(***************************************************************************)
(* What the daemon promises a peer that sends one request: it is answered  *)
(* once, only after the whole request was sent, and it is dropped without  *)
(* its answer only if it hung up.  The service goes down only after some   *)
(* peer hung up.                                                           *)
(***************************************************************************)
CONSTANT Clients

VARIABLES
  phase,    \* how far each peer is served
  hungup,   \* the peers that closed or reset their connection early
  down      \* the process is lost

serviceVars == <<phase, hungup, down>>

Phases == {"idle", "asking", "asked", "answering", "served", "dropped"}

ServiceTypeOK ==
  /\ phase \in [Clients -> Phases]
  /\ hungup \subseteq Clients
  /\ down \in BOOLEAN

Init ==
  /\ phase = [c \in Clients |-> "idle"]
  /\ hungup = {}
  /\ down = FALSE

Move(c, from, to) ==
  /\ phase[c] \in from
  /\ phase' = [phase EXCEPT ![c] = to]

Connect(c) == Move(c, {"idle"}, "asking") /\ UNCHANGED <<hungup, down>>

(* The last byte of the request is sent.                                   *)
Ask(c) == Move(c, {"asking"}, "asked") /\ UNCHANGED <<hungup, down>>

(* The answer is made; it may leave at once or wait for the peer to read.  *)
Answer(c) ==
  /\ ~ down
  /\ \/ Move(c, {"asked"}, "answering")
     \/ Move(c, {"asked", "answering"}, "served")
  /\ UNCHANGED <<hungup, down>>

HangUp(c) ==
  /\ phase[c] \in {"asking", "asked", "answering"} /\ c \notin hungup
  /\ hungup' = hungup \cup {c}
  /\ UNCHANGED <<phase, down>>

Drop(c) ==
  /\ ~ down /\ c \in hungup
  /\ Move(c, {"asking", "asked", "answering"}, "dropped")
  /\ down' \in BOOLEAN
  /\ UNCHANGED hungup

Next == \E c \in Clients :
          Connect(c) \/ Ask(c) \/ Answer(c) \/ HangUp(c) \/ Drop(c)

Spec == Init /\ [][Next]_serviceVars
=============================================================================
