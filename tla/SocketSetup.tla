------------------------------ MODULE SocketSetup ------------------------------
(***************************************************************************)
(* The socket set-up of SocketAsyncBase: four functions, each a sequence   *)
(* of system calls any of which may fail.                                  *)
(*   server     init_server_inet_socket(port)                              *)
(*   client     init_client_tcp_socket()                                   *)
(*   resolving  init_client_tcp_socket(fd, host, port, pure_ip)            *)
(*   local      init_client_unix_socket()                                  *)
(* Callers keep what they are given and close it at any time.  ServerLife  *)
(* composes this module with the server that calls the first.              *)
(***************************************************************************)
EXTENDS Naturals, Sequences, FiniteSets

CONSTANTS
  FDs,   \* the descriptors of the process
  NONE   \* no descriptor, no function

(* The calls of each function in their order.  freeaddrinfo and close are  *)
(* the cleaning up at the end.                                             *)
Calls ==
  [server    |-> <<"getaddrinfo", "socket", "fcntl", "setsockopt", "bind",
                   "listen", "freeaddrinfo", "close">>,
   client    |-> <<"socket", "fcntl", "close">>,
   resolving |-> <<"getaddrinfo", "socket", "fcntl", "freeaddrinfo", "close">>,
   local     |-> <<"socket", "fcntl", "close">>]
Functions == DOMAIN Calls

ASSUME SetupAssumption == NONE \notin FDs /\ NONE \notin Functions

VARIABLES
  func, pc,         \* the function running and its next call
  fd, addr,         \* its locals: descriptor, whether addr is not NULL
  error_happened,
  open,             \* kernel: what was done to each open descriptor
  addrinfos,        \* address lists allocated and not freed
  held,             \* descriptors callers have, by the function they are of
  heldAddrs,        \* address lists callers have
  crashed           \* a NULL addr was dereferenced

locals == <<func, fd, addr, error_happened>>
kernel == <<open, addrinfos>>
callers == <<held, heldAddrs>>
setupVars == <<pc, locals, kernel, callers, crashed>>

SetupInit ==
  /\ func = NONE /\ pc = 0 /\ fd = NONE /\ addr = FALSE
  /\ error_happened = FALSE
  /\ open = [f \in {} |-> {}] /\ addrinfos = 0
  /\ held = [f \in {} |-> NONE] /\ heldAddrs = 0
  /\ crashed = FALSE

-----------------------------------------------------------------------------
Enter(f) ==
  /\ pc = 0 /\ ~ crashed
  /\ func' = f /\ pc' = 1
  /\ fd' = NONE /\ addr' = FALSE /\ error_happened' = FALSE
  /\ UNCHANGED <<kernel, callers, crashed>>

At(call) ==
  /\ ~ crashed /\ func # NONE /\ pc <= Len(Calls[func])
  /\ Calls[func][pc] = call
  /\ pc' = pc + 1

(* A failed resolution is an error of a client, and only logged by the     *)
(* server.                                                                 *)
getaddrinfo ==
  /\ At("getaddrinfo")
  /\ \/ /\ addr' = TRUE /\ addrinfos' = addrinfos + 1
        /\ UNCHANGED error_happened
     \/ /\ error_happened' = (func = "resolving")
        /\ UNCHANGED <<addr, addrinfos>>
  /\ UNCHANGED <<func, fd, open, callers, crashed>>

(* socket is called whatever happened before.                              *)
socket ==
  /\ At("socket")
  /\ \/ \E f \in FDs \ DOMAIN open :
          /\ fd' = f
          /\ open' = [g \in DOMAIN open \cup {f} |->
                        IF g = f THEN {} ELSE open[g]]
          /\ UNCHANGED error_happened
     \/ error_happened' = TRUE /\ UNCHANGED <<fd, open>>
  /\ UNCHANGED <<func, addr, addrinfos, callers, crashed>>

(* A call that is done on the descriptor, or fails, or is skipped.         *)
\* Mutant: a failure is only logged.
TryUnnoticed(done, skipped) ==
  \/ /\ ~ skipped
     /\ open' = [open EXCEPT ![fd] = @ \cup done]
     /\ UNCHANGED error_happened
  \/ UNCHANGED <<open, error_happened>>
Try(done, skipped) ==
  \/ /\ ~ skipped
     /\ open' = [open EXCEPT ![fd] = @ \cup done]
     /\ UNCHANGED error_happened
  \/ /\ ~ skipped
     /\ error_happened' = TRUE
     /\ UNCHANGED open
  \/ /\ skipped
     /\ UNCHANGED <<open, error_happened>>

fcntl ==
  /\ At("fcntl")
  /\ Try({"O_NONBLOCK"}, fd = NONE)
  /\ UNCHANGED <<func, fd, addr, addrinfos, callers, crashed>>

setsockopt ==
  /\ At("setsockopt")
  /\ Try({"SO_REUSEADDR"}, error_happened)
  /\ UNCHANGED <<func, fd, addr, addrinfos, callers, crashed>>

(* bind reads addr->ai_addr without a test of addr.                        *)
bind ==
  /\ At("bind")
  /\ \/ /\ error_happened \/ addr
        /\ Try({"bound"}, error_happened)
        /\ UNCHANGED crashed
     \/ /\ ~ error_happened /\ ~ addr
        /\ crashed' = TRUE
        /\ UNCHANGED <<open, error_happened>>
  /\ UNCHANGED <<func, fd, addr, addrinfos, callers>>

listen ==
  /\ At("listen")
  /\ Try({"listening"}, error_happened)
  /\ UNCHANGED <<func, fd, addr, addrinfos, callers, crashed>>

(* The server frees the list always, a client only after an error: it is   *)
(* what that function returns.                                             *)
\* Mutant: the server frees it only after an error, too.
FreesOnError == addr /\ error_happened
Frees == addr /\ (func = "server" \/ error_happened)
freeaddrinfo ==
  /\ At("freeaddrinfo")
  /\ \/ /\ Frees
        /\ addr' = FALSE /\ addrinfos' = addrinfos - 1
     \/ /\ ~ Frees
        /\ UNCHANGED <<addr, addrinfos>>
  /\ UNCHANGED <<func, fd, error_happened, open, callers, crashed>>

(* A failure of close is only logged, the descriptor is gone with it.      *)
close_after_error ==
  /\ At("close")
  /\ \/ /\ error_happened /\ fd # NONE
        /\ open' = [f \in DOMAIN open \ {fd} |-> open[f]]
        /\ fd' = NONE
     \/ /\ ~ error_happened \/ fd = NONE
        /\ UNCHANGED <<open, fd>>
  /\ UNCHANGED <<func, addr, error_happened, addrinfos, callers, crashed>>

Return ==
  /\ func # NONE /\ pc = Len(Calls[func]) + 1
  /\ held' = [f \in DOMAIN held \cup ({fd} \ {NONE}) |->
                IF f = fd THEN func ELSE held[f]]
  /\ heldAddrs' = IF addr THEN heldAddrs + 1 ELSE heldAddrs
  /\ func' = NONE /\ pc' = 0 /\ fd' = NONE /\ addr' = FALSE
  /\ error_happened' = FALSE
  /\ UNCHANGED <<kernel, crashed>>

(* A caller closes a descriptor and frees the list it came with.           *)
CallerDrops(f) ==
  /\ ~ crashed
  /\ open' = [g \in DOMAIN open \ {f} |-> open[g]]
  /\ heldAddrs' = IF held[f] = "resolving" THEN heldAddrs - 1 ELSE heldAddrs
  /\ addrinfos' = IF held[f] = "resolving" THEN addrinfos - 1 ELSE addrinfos
  /\ held' = [g \in DOMAIN held \ {f} |-> held[g]]
  /\ UNCHANGED <<pc, locals, crashed>>

(* The calls inside a function.                                            *)
SetupStep ==
  \/ getaddrinfo \/ socket \/ fcntl \/ setsockopt \/ bind \/ listen
  \/ freeaddrinfo \/ close_after_error

Idle == pc = 0 /\ ~ crashed

-----------------------------------------------------------------------------
(* Correctness.                                                            *)

(* A descriptor is only returned if every call on it succeeded: it never   *)
(* blocks the loop, and a server's is bound and listening, in every order  *)
(* of failures, retries and reuse of its number.                           *)
HeldIsReady ==
  \A f \in DOMAIN held :
    f \in DOMAIN open /\
    open[f] = IF held[f] = "server"
              THEN {"O_NONBLOCK", "SO_REUSEADDR", "bound", "listening"}
              ELSE {"O_NONBLOCK"}
=============================================================================
