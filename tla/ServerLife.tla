------------------------------ MODULE ServerLife ------------------------------
(***************************************************************************)
(* The life of a SocketAsyncTCPServer: startup_inet, accepting, reading,   *)
(* shutdown, close() and close(fd), in any order its owner may call them,  *)
(* from received() or from another callback of the loop.  Daemon and Echo  *)
(* start the server once and never stop it; this module is about the rest  *)
(* of what the class offers.  A connection is its descriptor.  The         *)
(* descriptors come from SocketSetup, whose functions other parts of the   *)
(* process use at the same time.                                           *)
(***************************************************************************)
EXTENDS LibevWrapper, SocketSetup, Functions, FiniteSetsExt

CONSTANT
  MaxWaiting   \* bound on the peers in the accept queue

ASSUME ServerAssumption == FDs \subseteq Nat /\ MaxWaiting \in Nat

VARIABLES
  m_running, m_fd_main,
  m_handlers,   \* the reader of each descriptor the server has
  told,         \* owner: connected() and not yet disconnected()
  sockets,      \* kernel: what an accepted connection has to report
  waiting       \* kernel: the length of the accept queue

serverVars == <<m_running, m_fd_main, m_handlers, told>>
vars == <<serverVars, sockets, waiting, ioVars, setupVars>>

Reader(kind, c) == [kind |-> kind, fd |-> c]
Free == FDs \ DOMAIN open
With(f, x, y) == [z \in DOMAIN f \cup {x} |-> IF z = x THEN y ELSE f[z]]
Without(f, S) == Restrict(f, DOMAIN f \ S)
None == [c \in {} |-> 0]

Init ==
  /\ SetupInit
  /\ m_running = FALSE /\ m_fd_main = NONE
  /\ m_handlers = None /\ told = {}
  /\ sockets = None /\ waiting = 0
  /\ watchers = {} /\ pending = {}

-----------------------------------------------------------------------------
(* Kernel and peers.                                                       *)

Connect ==
  /\ m_fd_main # NONE /\ waiting < MaxWaiting
  /\ waiting' = waiting + 1
  /\ UNCHANGED <<serverVars, sockets, ioVars, setupVars>>

PeerActs(c) ==
  /\ sockets[c] = "idle"
  /\ \E state \in {"readable", "ended"} :
       sockets' = [sockets EXCEPT ![c] = state]
  /\ UNCHANGED <<serverVars, waiting, ioVars, setupVars>>

HasEvent(w) == IF w.kind = "accept" THEN waiting > 0
               ELSE sockets[w.fd] \in {"readable", "ended"}

Wait ==
  /\ Idle
  /\ Poll({w \in watchers : HasEvent(w)})
  /\ UNCHANGED <<serverVars, sockets, waiting, setupVars>>

-----------------------------------------------------------------------------
(* What the owner may call.                                                *)

startup_inet ==
  /\ ~ m_running
  /\ Enter("server")
  /\ UNCHANGED <<serverVars, sockets, waiting, ioVars>>

(* What it does with what init_server_inet_socket returns.                 *)
Started ==
  /\ func = "server" /\ Return
  /\ m_fd_main' = fd
  /\ \/ /\ fd # NONE
        /\ m_handlers' = With(m_handlers, fd, Reader("accept", fd))
        /\ Outside({Reader("accept", fd)}, {})
        /\ m_running' = TRUE
     \/ /\ fd = NONE
        /\ UNCHANGED <<m_handlers, m_running, ioVars>>
  /\ UNCHANGED <<told, sockets, waiting>>

(* Clients' sockets, of whoever else the process runs.                     *)
Clients ==
  /\ \/ \E f \in Functions \ {"server"} : Enter(f)
     \/ func # "server" /\ Return
     \/ Idle /\ \E f \in DOMAIN held \ {m_fd_main} : CallerDrops(f)
  /\ UNCHANGED <<serverVars, sockets, waiting, ioVars>>

(* m_close of each descriptor in fds, and their entries erased: the owner  *)
(* is told of all but the listening socket, whose queue is lost.           *)
\* Mutant: m_fd_main is not reset.
MainAfterKept(fds) == m_fd_main
MainAfter(fds) == IF m_fd_main \in fds THEN NONE ELSE m_fd_main

Closing(fds) ==
  /\ open' = Without(open, fds) /\ held' = Without(held, fds)
  /\ sockets' = Without(sockets, fds)
  /\ m_handlers' = Without(m_handlers, fds)
  /\ m_fd_main' = MainAfter(fds)
  /\ told' = told \ (fds \ {m_fd_main})
  /\ waiting' = IF m_fd_main \in fds THEN 0 ELSE waiting
  /\ UNCHANGED <<pc, locals, addrinfos, heldAddrs, crashed>>

shutdown == Closing(DOMAIN m_handlers) /\ m_running' = FALSE
close == Closing({m_fd_main} \cap DOMAIN m_handlers) /\ UNCHANGED m_running
closeFd(c) == Closing({c} \cap DOMAIN m_handlers) /\ UNCHANGED m_running

(* m_close stops the reader of what it closes.                             *)
Stopped == {m_handlers[c] : c \in DOMAIN m_handlers \ DOMAIN m_handlers'}

Owner ==
  /\ Idle
  /\ \/ startup_inet
     \/ shutdown /\ Outside({}, Stopped)
     \/ close /\ Outside({}, Stopped)
     \/ \E c \in told : closeFd(c) /\ Outside({}, Stopped)

-----------------------------------------------------------------------------
(* The callbacks.                                                          *)

(* Without a free descriptor accept fails and error() logs it, as the      *)
(* failure of fcntl is logged.                                             *)
m_on_receive_server(w) ==
  /\ w.kind = "accept"
  /\ \/ /\ Free = {}
        /\ Callback(w, {}, {})
        /\ UNCHANGED <<m_handlers, told, sockets, waiting, open>>
     \/ /\ Free # {}
        /\ LET new == Min(Free)
           IN  /\ told' = told \cup {new}
               /\ m_handlers' = With(m_handlers, new, Reader("client", new))
               /\ sockets' = With(sockets, new, "idle")
               /\ \E done \in {{}, {"O_NONBLOCK"}} : open' = With(open, new, done)
               /\ Callback(w, {Reader("client", new)}, {})
        /\ waiting' = waiting - 1
  /\ UNCHANGED <<m_running, m_fd_main, pc, locals, addrinfos, callers, crashed>>

(* Input is given to received(), which may call the server back.           *)
received(w) ==
  \/ /\ sockets' = [sockets EXCEPT ![w.fd] = "idle"]
     /\ Callback(w, {}, {})
     /\ UNCHANGED <<serverVars, waiting, setupVars>>
  \/ /\ closeFd(w.fd) \/ shutdown
     /\ Callback(w, {}, Stopped)

(* Whether the server still runs when the connection c has ended.         *)
\* Mutant: the listening socket does not count.
RunsAfterClients(c) == m_running /\ DOMAIN m_handlers # {c, m_fd_main}
RunsAfter(c) == m_running /\ DOMAIN m_handlers # {c}

m_on_receive_client(w) ==
  /\ w.kind = "client"
  /\ \/ /\ sockets[w.fd] = "readable"
        /\ received(w)
     \/ /\ sockets[w.fd] = "ended"
        /\ Closing({w.fd})
        /\ m_running' = RunsAfter(w.fd)
        /\ Callback(w, {}, {m_handlers[w.fd]})

Dispatch ==
  /\ Idle
  /\ \E w \in pending : m_on_receive_server(w) \/ m_on_receive_client(w)

Setup ==
  \/ SetupStep /\ UNCHANGED <<serverVars, sockets, waiting, ioVars>>
  \/ Started
  \/ Clients

Next ==
  \/ Connect \/ (\E c \in DOMAIN sockets : PeerActs(c))
  \/ Wait \/ Dispatch \/ Owner \/ Setup

Spec == Init /\ [][Next]_vars

-----------------------------------------------------------------------------
(* Correctness.                                                            *)

(* Kernel, server, loop and owner agree between calls, whatever the owner  *)
(* calls and from where: the server has exactly its listening socket and   *)
(* the connections the owner was told of, each open, each with one reader. *)
(* So when the loop returns because no watcher is left, the destructor's   *)
(* shutdown (line 26) finds nothing to close and calls no disconnected()   *)
(* of an object already destroyed.                                         *)
TablesAgree ==
  /\ DOMAIN m_handlers = told \cup ({m_fd_main} \ {NONE})
  /\ m_fd_main \notin told
  /\ DOMAIN m_handlers \subseteq DOMAIN open
  /\ watchers = {m_handlers[c] : c \in DOMAIN m_handlers}
  /\ {c \in DOMAIN held : held[c] = "server"} = {m_fd_main} \ {NONE}

(* An event that a callback of the round has made obsolete is gone: what   *)
(* is still to be delivered is for a living reader whose socket has it,    *)
(* also when the number was closed and given out again in between.         *)
EventsAreCurrent ==
  /\ pending \subseteq watchers
  /\ \A w \in pending : HasEvent(w)

(* A server that holds any descriptor says that it runs: startup_inet      *)
(* never overwrites a listening socket, which nobody could close then.     *)
RunsWhileOpen == m_handlers # None => m_running

(* Between calls every open descriptor is the server's or was returned to  *)
(* a caller that can close it, and every address list belongs to one:      *)
(* whatever failed on the way leaves nothing behind.                       *)
NothingLeaked ==
  Idle =>
    /\ DOMAIN open = DOMAIN held \cup told
    /\ addrinfos = heldAddrs
    /\ heldAddrs = Cardinality({c \in DOMAIN held : held[c] = "resolving"})
=============================================================================
