------------------------------- MODULE Daemon -------------------------------
(***************************************************************************)
(* The daemon in its default mode: one libev loop serving FastCGI peers.   *)
(* SocketAsyncTCPServer keeps a read watcher per descriptor (m_handlers),  *)
(* Daemon keeps a Connection object per descriptor (m_connections), a      *)
(* Connection is a BufferedSender that may own a write watcher, and any    *)
(* callback may close a descriptor and delete the object under its feet.   *)
(*                                                                         *)
(* A client is one TCP connection: it sends the records of its Script in   *)
(* segments of any size and reads what the daemon sends.  Streams are      *)
(* counted, not spelled out: sentIn and readIn are positions in the input  *)
(* stream, sndq is what the kernel holds of the output.  The Connection    *)
(* object of a client has the client's name.                               *)
(***************************************************************************)
EXTENDS LibevWrapper, FCGIRequest, FiniteSets

CONSTANTS
  Clients,    \* the connections that peers make
  FDs,        \* the descriptors the process has left for them
  NULL,       \* no client, no watcher
  BuffSize,   \* SocketAsyncBase::buff_size
  RespLen,    \* length of one response
  SndBuf,     \* what the kernel takes of the output before EAGAIN
  Script,     \* the records each client sends
  MinFirst,   \* what the first segment of a client holds at least
  Quitters    \* the clients that may hang up early

MainFd == 0   \* m_fd_main, the listening socket

Min2(a, b) == IF a < b THEN a ELSE b

VARIABLES
  fdtab,            \* kernel: which connection a descriptor stands for
  stage,            \* where a connection is in its life
  sentIn, readIn,   \* input stream: sent by the peer, received by the daemon
  link,             \* "up", closed by the peer ("fin") or reset ("rst")
  sndq, got,        \* output stream: in the kernel, read by the peer
  m_handlers,       \* SocketAsyncTCPServer: read watcher of a descriptor
  m_connections,    \* Daemon: Connection object of a descriptor
  objects,          \* the Connection objects allocated and not deleted
  m_input_buffer,   \* Connection: how much unparsed input it keeps
  mBuffer,          \* BufferedSender: how much output is cached
  m_write_handler,  \* BufferedSender: write watcher or NULL
  answered,         \* how many responses were made for a client
  derailed          \* the process used freed memory and may do anything

socketVars == <<fdtab, stage, sentIn, readIn, link, sndq, got>>
serverVars == <<m_handlers, m_connections>>
objectVars == <<objects, m_input_buffer, mBuffer, m_write_handler, answered>>
vars == <<socketVars, serverVars, objectVars, derailed, ioVars>>

Reader(fd) == [kind |-> "read", fd |-> fd, owner |-> NULL, n |-> 0]
Accepter == [kind |-> "accept", fd |-> MainFd, owner |-> NULL, n |-> 0]
Writer(o, fd, n) == [kind |-> "write", fd |-> fd, owner |-> o, n |-> n]

Watcher ==
  [kind : {"accept", "read", "write"}, fd : FDs \cup {MainFd},
   owner : Clients \cup {NULL}, n : Nat]

ASSUME DaemonAssumption ==
  /\ NULL \notin Clients /\ NULL \notin Watcher
  /\ FDs \subseteq Nat \ {MainFd}
  /\ BuffSize \in Nat \ {0} /\ RespLen \in Nat \ {0} /\ SndBuf \in Nat \ {0}
  /\ \A c \in Clients : Total(Script[c]) \in Nat
  /\ MinFirst \in Nat \ {0}
  /\ Quitters \subseteq Clients

Stages == {"new", "queued", "open", "finished", "aborted"}

Init ==
  /\ fdtab = [fd \in FDs |-> NULL]
  /\ stage = [c \in Clients |-> "new"]
  /\ sentIn = [c \in Clients |-> 0] /\ readIn = [c \in Clients |-> 0]
  /\ link = [c \in Clients |-> "up"]
  /\ sndq = [c \in Clients |-> 0] /\ got = [c \in Clients |-> 0]
  /\ m_handlers = [fd \in FDs |-> NULL]
  /\ m_connections = [fd \in FDs |-> NULL]
  /\ objects = {}
  /\ m_input_buffer = [c \in Clients |-> 0]
  /\ mBuffer = [c \in Clients |-> 0]
  /\ m_write_handler = [c \in Clients |-> NULL]
  /\ answered = [c \in Clients |-> 0]
  /\ derailed = FALSE
  /\ watchers = {Accepter} /\ pending = {}

-----------------------------------------------------------------------------
(* The kernel and the peers.                                               *)

Unread(c) == sentIn[c] - readIn[c]
Room(c) == SndBuf - sndq[c]

(* A reset: what the peer has not read of queued may be lost.              *)
Reset(c, queued) ==
  /\ link' = [link EXCEPT ![c] = "rst"]
  /\ \E kept \in 0 .. queued : sndq' = [sndq EXCEPT ![c] = kept]

(* The handshake ends in the accept queue, whether accept succeeds or not. *)
Connect(c) ==
  /\ stage[c] = "new"
  /\ stage' = [stage EXCEPT ![c] = "queued"]
  /\ UNCHANGED <<fdtab, sentIn, readIn, link, sndq, got>>
  /\ UNCHANGED <<serverVars, objectVars, derailed, ioVars>>

(* A segment arrives; one sent to a closed socket is answered by a reset.  *)
PeerSend(c) ==
  /\ stage[c] # "new" /\ link[c] = "up"
  /\ \E n \in 1 .. Total(Script[c]) - sentIn[c] :
       /\ sentIn[c] = 0 => n >= Min2(MinFirst, Total(Script[c]))
       /\ sentIn' = [sentIn EXCEPT ![c] = @ + n]
  /\ IF stage[c] \in {"finished", "aborted"}
     THEN Reset(c, sndq[c])
     ELSE UNCHANGED <<link, sndq>>
  /\ UNCHANGED <<fdtab, stage, readIn, got>>
  /\ UNCHANGED <<serverVars, objectVars, derailed, ioVars>>

PeerRead(c) ==
  /\ \E n \in 1 .. sndq[c] : /\ sndq' = [sndq EXCEPT ![c] = @ - n]
                             /\ got' = [got EXCEPT ![c] = @ + n]
  /\ UNCHANGED <<fdtab, stage, sentIn, readIn, link>>
  /\ UNCHANGED <<serverVars, objectVars, derailed, ioVars>>

(* A quitter shuts its sending side down, or resets the connection.        *)
PeerFin(c) ==
  /\ c \in Quitters /\ stage[c] \in {"queued", "open"} /\ link[c] = "up"
  /\ link' = [link EXCEPT ![c] = "fin"]
  /\ UNCHANGED <<fdtab, stage, sentIn, readIn, sndq, got>>
  /\ UNCHANGED <<serverVars, objectVars, derailed, ioVars>>

PeerRst(c) ==
  /\ c \in Quitters /\ stage[c] \in {"queued", "open"} /\ link[c] # "rst"
  /\ Reset(c, sndq[c])
  /\ UNCHANGED <<fdtab, stage, sentIn, readIn, got>>
  /\ UNCHANGED <<serverVars, objectVars, derailed, ioVars>>

(***************************************************************************)
(* When epoll reports a watcher.  A reset reports both directions.  A      *)
(* write watcher left on a closed descriptor is called back as well:       *)
(* libev's epoll_ctl fails on it and fd_kill delivers EV_ERROR.            *)
(***************************************************************************)
HasEvent(w) ==
  LET c == fdtab[w.fd] IN
  CASE w.kind = "accept" -> \E q \in Clients : stage[q] = "queued"
    [] w.kind = "read"   -> c # NULL /\ (Unread(c) > 0 \/ link[c] # "up")
    [] w.kind = "write"  -> c = NULL \/ Room(c) > 0 \/ link[c] = "rst"

Wait ==
  /\ ~ derailed
  /\ Poll({w \in watchers : HasEvent(w)})
  /\ UNCHANGED <<socketVars, serverVars, objectVars, derailed>>

-----------------------------------------------------------------------------
(* The daemon.                                                             *)

(* The watchers stopped when fd is closed and its object o is deleted: the *)
(* reader, by m_close, and the writer, by ~BufferedSender.                 *)
\* Mutant: the destructor forgets its writer.
StoppedReaderOnly(fd, o) == {m_handlers[fd]}
Stopped(fd, o) == {m_handlers[fd], m_write_handler[o]} \ {NULL}

\* Mutant: the descriptor is never closed.
CloseForgotten(fd) == UNCHANGED fdtab
CloseDescriptor(fd) == fdtab' = [fdtab EXCEPT ![fd] = NULL]

(* Daemon::disconnected deletes the object and forgets it.                 *)
\* Mutant: the entry of m_connections is not erased.
DisconnectedKeepsEntry(fd, o) ==
  /\ UNCHANGED m_connections
  /\ objects' = objects \ {o}
  /\ m_input_buffer' = [m_input_buffer EXCEPT ![o] = 0]
  /\ mBuffer' = [mBuffer EXCEPT ![o] = 0]
  /\ m_write_handler' = [m_write_handler EXCEPT ![o] = NULL]
disconnected(fd, o) ==
  /\ m_connections' = [m_connections EXCEPT ![fd] = NULL]
  /\ objects' = objects \ {o}
  /\ m_input_buffer' = [m_input_buffer EXCEPT ![o] = 0]
  /\ mBuffer' = [mBuffer EXCEPT ![o] = 0]
  /\ m_write_handler' = [m_write_handler EXCEPT ![o] = NULL]

(* SocketAsyncTCPServer::close(fd), for a callback of fired; queued is the *)
(* output the kernel holds.  The kernel resets the connection if unread    *)
(* input is left.                                                          *)
close(fired, fd, end, unread, queued) ==
  LET c == fdtab[fd]
      o == m_connections[fd]
  IN  /\ Callback(fired, {}, Stopped(fd, o))
      /\ CloseDescriptor(fd)
      /\ stage' = [stage EXCEPT ![c] = end]
      /\ IF unread > 0
         THEN Reset(c, queued)
         ELSE /\ sndq' = [sndq EXCEPT ![c] = queued]
              /\ UNCHANGED link
      /\ disconnected(fd, o)
      /\ m_handlers' = [m_handlers EXCEPT ![fd] = NULL]

(* accept takes the lowest free descriptor; connected() makes the object   *)
(* before the reader is registered.  With no descriptor free, error() only *)
(* logs and the connection stays in the queue.                             *)
m_on_receive_server(w) ==
  LET free == {fd \in FDs : fdtab[fd] = NULL}
  IN  /\ w.kind = "accept"
      /\ \/ /\ free = {}
            /\ Callback(w, {}, {})
            /\ UNCHANGED <<fdtab, stage, serverVars, objects>>
         \/ \E c \in Clients, fd \in free :
              /\ stage[c] = "queued" /\ \A other \in free : fd <= other
              /\ stage' = [stage EXCEPT ![c] = "open"]
              /\ fdtab' = [fdtab EXCEPT ![fd] = c]
              /\ m_connections' = [m_connections EXCEPT ![fd] = c]
              /\ objects' = objects \cup {c}
              /\ m_handlers' = [m_handlers EXCEPT ![fd] = Reader(fd)]
              /\ Callback(w, {Reader(fd)}, {})
      /\ UNCHANGED <<sentIn, readIn, link, sndq, got, derailed>>
      /\ UNCHANGED <<m_input_buffer, mBuffer, m_write_handler, answered>>

(* Connection::finished: one recv empties what it can of the input, the    *)
(* bytes are forgotten, and the connection is closed.  readNow is what the *)
(* daemon has received before it.                                          *)
finished(fired, fd, readNow, queued) ==
  LET c == fdtab[fd]
      left == sentIn[c] - readNow
      forgotten == Min2(BuffSize, left)
  IN  /\ readIn' = [readIn EXCEPT ![c] = readNow + forgotten]
      /\ close(fired, fd, "finished", left - forgotten, queued)

(* What is cached after a send that took room of len bytes.                *)
\* Mutant: the bytes sent are not taken off.
RestAll(len, room) == len
\* Mutant: more is taken off than was sent.
RestNone(len, room) == 0
Rest(len, room) == len - room

(* BufferedSender::send_cashed on len cached bytes: everything is sent, or *)
(* a new writer waits for the rest (an earlier one is overwritten), or the *)
(* send fails and failure() closes the connection.  kept is the unparsed   *)
(* input a surviving object is left with.  After finished() the loop tests *)
(* mBuffer of the deleted object once more; delete leaves the length of    *)
(* the emptied string in place, so the loop ends there.                    *)
send_cashed(fired, fd, len, readNow, kept) ==
  LET c == fdtab[fd]
      o == m_connections[fd]
      writer == Writer(o, fd, answered[o])
  IN  \/ /\ link[c] = "rst"
         /\ readIn' = [readIn EXCEPT ![c] = readNow]
         /\ close(fired, fd, "aborted", sentIn[c] - readNow, sndq[c])
      \/ /\ link[c] # "rst" /\ Room(c) >= len
         /\ finished(fired, fd, readNow, sndq[c] + len)
      \/ /\ link[c] # "rst" /\ Room(c) < len
         /\ readIn' = [readIn EXCEPT ![c] = readNow]
         /\ sndq' = [sndq EXCEPT ![c] = SndBuf]
         /\ mBuffer' = [mBuffer EXCEPT ![o] = Rest(len, Room(c))]
         /\ m_input_buffer' = [m_input_buffer EXCEPT ![o] = kept]
         /\ m_write_handler' = [m_write_handler EXCEPT ![o] = writer]
         /\ Callback(fired, {writer}, {})
         /\ UNCHANGED <<fdtab, stage, link, serverVars, objects>>

(* Daemon::received and Connection::received on len new bytes.  The parser *)
(* sees the kept input and the new bytes; input that was kept is appended  *)
(* to and stays even when the parser accepts it, input that was not is     *)
(* dropped then.                                                           *)
received(w, fd, len) ==
  LET c == fdtab[fd]
      o == m_connections[fd]
      kept == m_input_buffer[o]
      now == readIn[c] + len
  IN  \E verdict \in parse(Script[c], readIn[c] - kept, now) :
        \/ /\ verdict = "Insufficient"
           /\ readIn' = [readIn EXCEPT ![c] = now]
           /\ m_input_buffer' = [m_input_buffer EXCEPT ![o] = kept + len]
           /\ Callback(w, {}, {})
           /\ UNCHANGED <<fdtab, stage, link, sndq, serverVars>>
           /\ UNCHANGED <<objects, mBuffer, m_write_handler, answered>>
        \/ /\ verdict = "Error"
           /\ readIn' = [readIn EXCEPT ![c] = now]
           /\ close(w, fd, "aborted", sentIn[c] - now, sndq[c])
           /\ UNCHANGED answered
        \/ /\ verdict = "Ready"
           /\ answered' = [answered EXCEPT ![o] = @ + 1]
           /\ send_cashed(w, fd, mBuffer[o] + RespLen, now,
                          IF kept = 0 THEN 0 ELSE kept + len)

\* Mutant: recv returning 0 is not handled.
ReceiveIgnoresEnd(w) ==
  LET c == fdtab[w.fd]
  IN  /\ w.kind = "read"
      /\ \/ /\ Unread(c) > 0
            /\ received(w, w.fd, Min2(BuffSize, Unread(c)))
         \/ /\ Unread(c) = 0
            /\ Callback(w, {}, {})
            /\ UNCHANGED <<fdtab, stage, readIn, link, sndq>>
            /\ UNCHANGED <<serverVars, objectVars>>
      /\ UNCHANGED <<sentIn, got, derailed>>

(* One recv: input for received(), or the end of the input (or an error    *)
(* that means the connection is gone), which closes the descriptor.        *)
m_on_receive_client(w) ==
  LET c == fdtab[w.fd]
  IN  /\ w.kind = "read"
      /\ \/ /\ Unread(c) > 0
            /\ received(w, w.fd, Min2(BuffSize, Unread(c)))
         \/ /\ Unread(c) = 0 /\ link[c] # "up"
            /\ close(w, w.fd, "aborted", 0, sndq[c])
            /\ UNCHANGED <<readIn, answered>>
      /\ UNCHANGED <<sentIn, got, derailed>>

(* BufferedSender::m_on_send.  Called back for a deleted object it runs on *)
(* freed memory.  After failure() has deleted the object, the test of      *)
(* mBuffer.empty() reads freed memory: what it finds there decides whether *)
(* the freed watcher is stopped again.                                     *)
m_on_send(w) ==
  LET c == fdtab[w.fd]
      o == w.owner
  IN  /\ w.kind = "write"
      /\ \/ /\ o \notin objects
            /\ derailed' = TRUE
            /\ UNCHANGED <<fdtab, stage, readIn, link, sndq, serverVars, ioVars>>
            /\ UNCHANGED <<objects, m_input_buffer, mBuffer, m_write_handler>>
         \/ /\ o \in objects /\ link[c] = "rst"
            /\ derailed' \in BOOLEAN
            /\ close(w, w.fd, "aborted", Unread(c), sndq[c])
            /\ UNCHANGED readIn
         \/ /\ o \in objects /\ link[c] # "rst" /\ Room(c) >= mBuffer[o]
            /\ finished(w, w.fd, readIn[c], sndq[c] + mBuffer[o])
            /\ UNCHANGED derailed
         \/ /\ o \in objects /\ link[c] # "rst" /\ Room(c) < mBuffer[o]
            /\ mBuffer' = [mBuffer EXCEPT ![o] = Rest(@, Room(c))]
            /\ sndq' = [sndq EXCEPT ![c] = SndBuf]
            /\ Callback(w, {}, {})
            /\ UNCHANGED <<fdtab, stage, readIn, link, serverVars, derailed>>
            /\ UNCHANGED <<objects, m_input_buffer, m_write_handler>>
      /\ UNCHANGED <<sentIn, got, answered>>

(* m_io_cb: one watcher of the round is called back, in any order.         *)
Dispatch ==
  /\ ~ derailed
  /\ \E w \in pending : \/ m_on_receive_server(w)
                        \/ m_on_receive_client(w)
                        \/ m_on_send(w)

Loop_step == Wait \/ Dispatch

Next ==
  \/ \E c \in Clients : \/ Connect(c) \/ PeerSend(c) \/ PeerRead(c)
                        \/ PeerFin(c) \/ PeerRst(c)
  \/ Loop_step

Spec == Init /\ [][Next]_vars

(***************************************************************************)
(* The loop never rests while a watcher has an event, and a peer goes on   *)
(* sending its request and reading its answer.  Nothing makes a peer hang  *)
(* up.                                                                     *)
(***************************************************************************)
Fairness ==
  /\ WF_vars(Loop_step)
  /\ \A c \in Clients : WF_vars(Connect(c)) /\ WF_vars(PeerSend(c))
                                            /\ WF_vars(PeerRead(c))

FairSpec == Spec /\ Fairness

-----------------------------------------------------------------------------
(* Correctness.                                                            *)

(* Every variable keeps its type; positions in a stream never overtake one *)
(* another, and what is pending was started and not stopped.               *)
TypeOK ==
  /\ fdtab \in [FDs -> Clients \cup {NULL}]
  /\ stage \in [Clients -> Stages]
  /\ sentIn \in [Clients -> Nat] /\ readIn \in [Clients -> Nat]
  /\ \A c \in Clients : readIn[c] <= sentIn[c]
  /\ link \in [Clients -> {"up", "fin", "rst"}]
  /\ sndq \in [Clients -> 0 .. SndBuf] /\ got \in [Clients -> Nat]
  /\ m_handlers \in [FDs -> Watcher \cup {NULL}]
  /\ m_connections \in [FDs -> Clients \cup {NULL}]
  /\ objects \subseteq Clients
  /\ m_input_buffer \in [Clients -> Nat] /\ mBuffer \in [Clients -> Nat]
  /\ m_write_handler \in [Clients -> Watcher \cup {NULL}]
  /\ answered \in [Clients -> Nat]
  /\ derailed \in BOOLEAN
  /\ watchers \subseteq Watcher /\ pending \subseteq watchers

(* The three tables of a descriptor agree whatever callbacks ran in        *)
(* whatever order: the kernel's, SocketAsyncTCPServer's and Daemon's.  An  *)
(* open descriptor has its reader in the loop and its Connection object, a *)
(* closed one has neither, and no object is leaked or shared.  This is     *)
(* what the errors at daemon.cpp:34, 51 and 73 and m_handlers.at(fd) at    *)
(* socket_async_tcp_server.cpp:112 assume.                                 *)
RegistryAgrees ==
  /\ m_connections = fdtab
  /\ \A fd \in FDs :
       /\ m_handlers[fd] = IF fdtab[fd] = NULL THEN NULL ELSE Reader(fd)
       /\ Reader(fd) \in watchers <=> fdtab[fd] # NULL
  /\ \A fd, other \in FDs :
       fdtab[fd] = fdtab[other] => fd = other \/ fdtab[fd] = NULL
  /\ objects = {fdtab[fd] : fd \in FDs} \ {NULL}
  /\ objects = {c \in Clients : stage[c] = "open"}

(* A write watcher in the loop belongs to a living Connection, is the one  *)
(* its BufferedSender would stop, and watches that connection's socket: no *)
(* close path leaves one behind to run m_on_send on a deleted object or on *)
(* the next connection that is given the descriptor.  Holds for peers that *)
(* send one request and nothing after it.                                  *)
NoDanglingWatcher ==
  \A w \in watchers : w.kind = "write" =>
    /\ w.owner \in objects
    /\ m_write_handler[w.owner] = w
    /\ fdtab[w.fd] = w.owner

(* Where a request with a body can be answered twice, that is the only way *)
(* to lose a watcher: one that its BufferedSender does not hold, or that   *)
(* outlives it, belongs to a Connection that was answered again while      *)
(* output was cached (buffered_sender.cpp:117), and every answer loses at  *)
(* most one.                                                               *)
LeaksOnlyByDoubleAnswer ==
  \A o \in Clients :
    Cardinality({w \in watchers : w.kind = "write" /\ w.owner = o /\ w # m_write_handler[o]})
      <= IF answered[o] = 0 THEN 0 ELSE answered[o] - 1

(* Cached output is never stranded: a Connection that lives and has cached *)
(* output holds a started writer, and one that has none holds no writer.   *)
NoStrandedOutput ==
  \A o \in objects :
    /\ mBuffer[o] > 0 <=> m_write_handler[o] # NULL
    /\ m_write_handler[o] # NULL => m_write_handler[o] \in watchers

(* No byte of a response is lost, repeated or cut by partial sends: unless *)
(* a reset intervened, what the peer read, what the kernel holds and what  *)
(* is cached add up to the responses made, also after "finished" closed.   *)
OutputAccounted ==
  \A c \in Clients :
    link[c] # "rst" /\ stage[c] \in {"open", "finished"} =>
      got[c] + sndq[c] + mBuffer[c] = answered[c] * RespLen

(* A peer that hangs up, before or after it was answered, is released: its *)
(* descriptor and its object do not stay with the daemon.                  *)
Released ==
  \A c \in Clients :
    stage[c] = "open" /\ link[c] # "up" ~> stage[c] # "open" \/ derailed

(* A peer that stays gets its whole response, however the callbacks of     *)
(* other peers are ordered and even if it waits for a descriptor.          *)
Answered ==
  \A c \in Clients \ Quitters : <>(got[c] = RespLen \/ derailed)

(* pyfcgi_bug.py:4-12: closing with input unread makes the web server fail *)
(* with "read failed, 104"; a peer that does not hang up itself is never   *)
(* reset by the daemon.                                                    *)
NeverReset == \A c \in Clients \ Quitters : link[c] # "rst"
=============================================================================
