--------------------------- MODULE DaemonService ----------------------------
(***************************************************************************)
(* The daemon seen as the service it promises, for peers that each send    *)
(* one request without a body (clients of FcgiService are clients of       *)
(* Daemon).                                                                *)
(***************************************************************************)
EXTENDS Daemon

PhaseOf(c) ==
  CASE stage[c] = "new"      -> "idle"
    [] stage[c] = "finished" -> "served"
    [] stage[c] = "aborted"  -> "dropped"
    [] stage[c] \in {"queued", "open"} ->
         IF answered[c] > 0 THEN "answering"
         ELSE IF sentIn[c] = Total(Script[c]) THEN "asked" ELSE "asking"

Service == INSTANCE FcgiService WITH
  phase  <- [c \in Clients |-> PhaseOf(c)],
  hungup <- {c \in Clients : link[c] # "up"},
  down   <- derailed

(* The peers of the service: each sends one request, and of the pieces the *)
(* daemon may have read of it parse accepts the whole and waits for more   *)
(* of any other.  No piece is shorter than a recv after the first segment. *)
Shortest(c) == Min2(BuffSize, Min2(MinFirst, Total(Script[c])))
OneShot(c) ==
  /\ Total(Script[c]) > 0
  /\ \A to \in Shortest(c) .. Total(Script[c]) :
       parse(Script[c], 0, to) =
         {IF to = Total(Script[c]) THEN "Ready" ELSE "Insufficient"}

(* Every step of the daemon is a step of the service or invisible to it:   *)
(* no request is answered early or twice (connection.cpp:171-226), no peer *)
(* that stays is dropped (daemon.cpp:67, connection.cpp:148), and freed    *)
(* memory is used only after a peer hung up (buffered_sender.cpp:31-37).   *)
ImplementsService == Service!Spec
=============================================================================
