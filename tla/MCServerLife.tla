---------------------------- MODULE MCServerLife ----------------------------
(* An instance of ServerLife: four descriptors, for the listening socket,  *)
(* connections and the sockets of clients.                                 *)
EXTENDS ServerLife

FourFDs == 0 .. 3
=============================================================================
