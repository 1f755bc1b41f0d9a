--------------------------------- MODULE Echo ---------------------------------
(***************************************************************************)
(* Echo mode: every peer is sent back what it sent, each received piece    *)
(* reversed.  Echo is a SocketAsyncTCPServer and, unlike Daemon, one       *)
(* BufferedSender for all its connections: there is one mBuffer and one    *)
(* m_write_handler, and send(fd, ...) appends to mBuffer whatever fd is    *)
(* while output of another descriptor is cached.                           *)
(*                                                                         *)
(* A byte is the peer it came from and its place in that peer's input, so  *)
(* that it can be followed to whichever peer reads it.                     *)
(***************************************************************************)
EXTENDS LibevWrapper, SequencesExt, Integers

CONSTANTS
  Clients,    \* the connections that peers make
  Limits,     \* the sets of descriptors the process may have left for them
  NULL,       \* no client, no watcher
  BuffSize,   \* SocketAsyncBase::buff_size
  SndBuf,     \* what the kernel takes of the output before EAGAIN
  InLen,      \* how much each peer sends
  Quitters    \* the peers that may hang up

MainFd == 0   \* m_fd_main

Min2(a, b) == IF a < b THEN a ELSE b

ASSUME EchoAssumption ==
  /\ NULL \notin Clients
  /\ NULL \notin [kind : {"write"}, fd : UNION Limits, n : {0}]
  /\ \A fds \in Limits : fds \subseteq Nat \ {MainFd}
  /\ BuffSize \in Nat \ {0} /\ SndBuf \in Nat \ {0} /\ InLen \in Nat
  /\ Quitters \subseteq Clients

VARIABLES
  fdtab,            \* kernel: which connection a descriptor stands for
  stage,            \* where a connection is in its life
  sentIn, readIn,   \* input stream: sent by the peer, received by the server
  link,             \* "up", closed by the peer ("fin") or reset ("rst")
  sndq, got,        \* output: held by the kernel, read by the peer
  m_handlers,       \* SocketAsyncTCPServer: read watcher of a descriptor
  mBuffer,          \* BufferedSender: the cached output
  m_write_handler,  \* BufferedSender: write watcher or NULL
  owed,             \* history: all output the sender took on, in order
  abandoned         \* history: a peer left while its writer had output cached

socketVars == <<fdtab, stage, sentIn, readIn, link, sndq, got>>
senderVars == <<mBuffer, m_write_handler, owed>>
vars == <<socketVars, m_handlers, senderVars, abandoned, ioVars>>

Reader(fd) == [kind |-> "read", fd |-> fd, n |-> 0]
Accepter == [kind |-> "accept", fd |-> MainFd, n |-> 0]
Writers == {w \in watchers : w.kind = "write"}
Writer(fd) == [kind |-> "write", fd |-> fd, n |-> Cardinality(Writers)]

Init ==
  /\ \E fds \in Limits : /\ fdtab = [fd \in fds |-> NULL]
                         /\ m_handlers = [fd \in fds |-> NULL]
  /\ stage = [c \in Clients |-> "new"]
  /\ sentIn = [c \in Clients |-> 0] /\ readIn = [c \in Clients |-> 0]
  /\ link = [c \in Clients |-> "up"]
  /\ sndq = [c \in Clients |-> <<>>] /\ got = [c \in Clients |-> <<>>]
  /\ mBuffer = <<>> /\ m_write_handler = NULL
  /\ owed = <<>> /\ abandoned = FALSE
  /\ watchers = {Accepter} /\ pending = {}

-----------------------------------------------------------------------------
(* The kernel and the peers.                                               *)

Unread(c) == sentIn[c] - readIn[c]
Room(c) == SndBuf - Len(sndq[c])

Connect(c) ==
  /\ stage[c] = "new"
  /\ stage' = [stage EXCEPT ![c] = "queued"]
  /\ UNCHANGED <<fdtab, sentIn, readIn, link, sndq, got>>
  /\ UNCHANGED <<m_handlers, senderVars, abandoned, ioVars>>

PeerSend(c) ==
  /\ stage[c] \in {"queued", "open"} /\ link[c] = "up"
  /\ \E n \in 1 .. InLen - sentIn[c] : sentIn' = [sentIn EXCEPT ![c] = @ + n]
  /\ UNCHANGED <<fdtab, stage, readIn, link, sndq, got>>
  /\ UNCHANGED <<m_handlers, senderVars, abandoned, ioVars>>

PeerRead(c) ==
  /\ \E n \in 1 .. Len(sndq[c]) :
       /\ got' = [got EXCEPT ![c] = @ \o SubSeq(sndq[c], 1, n)]
       /\ sndq' = [sndq EXCEPT ![c] = SubSeq(@, n + 1, Len(@))]
  /\ UNCHANGED <<fdtab, stage, sentIn, readIn, link>>
  /\ UNCHANGED <<m_handlers, senderVars, abandoned, ioVars>>

(* A quitter shuts its sending side down, or resets the connection, which  *)
(* throws away what it has not read.                                       *)
PeerFin(c) ==
  /\ c \in Quitters /\ stage[c] \in {"queued", "open"} /\ link[c] = "up"
  /\ link' = [link EXCEPT ![c] = "fin"]
  /\ UNCHANGED <<fdtab, stage, sentIn, readIn, sndq, got>>
  /\ UNCHANGED <<m_handlers, senderVars, abandoned, ioVars>>

PeerRst(c) ==
  /\ c \in Quitters /\ stage[c] \in {"queued", "open"} /\ link[c] # "rst"
  /\ link' = [link EXCEPT ![c] = "rst"]
  /\ sndq' = [sndq EXCEPT ![c] = <<>>]
  /\ UNCHANGED <<fdtab, stage, sentIn, readIn, got>>
  /\ UNCHANGED <<m_handlers, senderVars, abandoned, ioVars>>

(* When epoll reports a watcher; a reset reports both directions.          *)
Closed(w) == w.kind = "write" /\ fdtab[w.fd] = NULL
HasEvent(w) ==
  LET c == fdtab[w.fd] IN
  CASE w.kind = "accept" -> \E q \in Clients : stage[q] = "queued"
    [] w.kind = "read"   -> Unread(c) > 0 \/ link[c] # "up"
    [] w.kind = "write"  -> c = NULL \/ Room(c) > 0 \/ link[c] = "rst"

Wait ==
  /\ PollAndKill({w \in watchers : HasEvent(w)}, {w \in watchers : Closed(w)})
  /\ UNCHANGED <<socketVars, m_handlers, senderVars, abandoned>>

-----------------------------------------------------------------------------
(* The server.                                                             *)

(* With no descriptor free accept fails and the peer stays in the queue.   *)
m_on_receive_server(w) ==
  LET free == {fd \in DOMAIN fdtab : fdtab[fd] = NULL}
  IN  /\ w.kind = "accept"
      /\ \/ /\ free = {}
            /\ Callback(w, {}, {})
            /\ UNCHANGED <<fdtab, stage, m_handlers>>
         \/ \E c \in Clients, fd \in free :
              /\ stage[c] = "queued" /\ \A other \in free : fd <= other
              /\ stage' = [stage EXCEPT ![c] = "open"]
              /\ fdtab' = [fdtab EXCEPT ![fd] = c]
              /\ m_handlers' = [m_handlers EXCEPT ![fd] = Reader(fd)]
              /\ Callback(w, {Reader(fd)}, {})
      /\ UNCHANGED <<sentIn, readIn, link, sndq, got, senderVars, abandoned>>

(* What the kernel leaves of out for the cache, when that is anything, and *)
(* the writers started for it.                                             *)
\* Mutant: the whole piece is cached, not what is left of it.
LeftAll(out, room) == out
Left(out, room) == SubSeq(out, room + 1, Len(out))

\* Mutant: a writer is started whether or not anything is left.
CompleteNever(out, room) == FALSE
Complete(out, room) == Len(out) <= room

\* Mutant: only a send that took something starts a writer.
WaitersUnlessEAGAIN(fd, room) == IF room = 0 THEN {} ELSE {Writer(fd)}
Waiters(fd, room) == {Writer(fd)}

(* BufferedSender::send, from a callback of w: output goes behind what is  *)
(* cached, for whichever descriptor that is; if nothing is, it is sent at  *)
(* once, as far as the kernel takes it, and a writer waits for the rest.   *)
(* A failure is not noticed: Echo::failure does nothing.                   *)
send(w, fd, out) ==
  LET c == fdtab[fd]
  IN  \/ /\ mBuffer # <<>>
         /\ mBuffer' = mBuffer \o out
         /\ owed' = owed \o out
         /\ UNCHANGED <<sndq, m_write_handler>>
         /\ Callback(w, {}, {})
      \/ /\ mBuffer = <<>> /\ link[c] = "rst"
         /\ UNCHANGED <<sndq, senderVars>>
         /\ Callback(w, {}, {})
      \/ /\ mBuffer = <<>> /\ link[c] # "rst" /\ Complete(out, Room(c))
         /\ sndq' = [sndq EXCEPT ![c] = @ \o out]
         /\ owed' = owed \o out
         /\ UNCHANGED <<mBuffer, m_write_handler>>
         /\ Callback(w, {}, {})
      \/ /\ mBuffer = <<>> /\ link[c] # "rst" /\ ~ Complete(out, Room(c))
         /\ sndq' = [sndq EXCEPT ![c] = @ \o SubSeq(out, 1, Min2(Room(c), Len(out)))]
         /\ mBuffer' = Left(out, Room(c))
         /\ owed' = owed \o out
         /\ m_write_handler' = Writer(fd)
         /\ Callback(w, Waiters(fd, Room(c)), {})

(* recv finds the end of the input, or an error that means the connection  *)
(* is gone.                                                                *)
\* Mutant: a peer that shuts its sending side down is kept.
EndedByReset(c) == Unread(c) = 0 /\ link[c] = "rst"
Ended(c) == Unread(c) = 0 /\ link[c] # "up"

(* One recv.  Input is reversed and sent back.  At the end of the input or *)
(* after a reset the descriptor is closed; nothing tells the sender.       *)
m_on_receive_client(w) ==
  LET c == fdtab[w.fd]
      len == Min2(Unread(c), BuffSize)
      data == [i \in 1 .. len |-> [src |-> c, pos |-> readIn[c] + i]]
  IN  /\ w.kind = "read"
      /\ \/ /\ len > 0
            /\ readIn' = [readIn EXCEPT ![c] = @ + len]
            /\ send(w, w.fd, Reverse(data))
            /\ UNCHANGED <<fdtab, stage, m_handlers, abandoned>>
         \/ /\ Ended(c)
            /\ Callback(w, {}, {m_handlers[w.fd]})
            /\ m_handlers' = [m_handlers EXCEPT ![w.fd] = NULL]
            /\ fdtab' = [fdtab EXCEPT ![w.fd] = NULL]
            /\ stage' = [stage EXCEPT ![c] = "closed"]
            /\ abandoned' = (abandoned \/ \E v \in Writers : v.fd = w.fd)
            /\ UNCHANGED <<readIn, sndq, senderVars>>
      /\ UNCHANGED <<sentIn, link, got>>

(* The writer an emptied buffer stops.                                     *)
\* Mutant: it is forgotten, not stopped.
FinishedNone == {}
Finished == {m_write_handler}

(* BufferedSender::m_on_send: what is cached goes to the descriptor of the *)
(* watcher; a closed or reset one takes nothing.                           *)
m_on_send(w) ==
  LET c == fdtab[w.fd]
      n == IF c = NULL \/ link[c] = "rst" THEN 0
           ELSE Min2(Room(c), Len(mBuffer))
  IN  /\ w.kind = "write"
      /\ sndq' = IF n = 0 THEN sndq
                 ELSE [sndq EXCEPT ![c] = @ \o SubSeq(mBuffer, 1, n)]
      /\ mBuffer' = SubSeq(mBuffer, n + 1, Len(mBuffer))
      /\ \/ /\ mBuffer' = <<>>
            /\ m_write_handler' = NULL
            /\ Callback(w, {}, Finished)
         \/ /\ mBuffer' # <<>>
            /\ UNCHANGED m_write_handler
            /\ Callback(w, {}, {})
      /\ UNCHANGED <<fdtab, stage, sentIn, readIn, link, got>>
      /\ UNCHANGED <<m_handlers, owed, abandoned>>

Dispatch ==
  \E w \in pending : \/ m_on_receive_server(w)
                     \/ m_on_receive_client(w)
                     \/ m_on_send(w)

Loop_step == Wait \/ Dispatch

Next ==
  \/ \E c \in Clients : \/ Connect(c) \/ PeerSend(c) \/ PeerRead(c)
                        \/ PeerFin(c) \/ PeerRst(c)
  \/ Loop_step

Spec == Init /\ [][Next]_vars

(* The loop runs while a watcher has an event; peers go on sending and     *)
(* reading.  Hanging up is never assumed.                                  *)
Fairness ==
  /\ WF_vars(Loop_step)
  /\ \A c \in Clients : WF_vars(Connect(c)) /\ WF_vars(PeerSend(c))
                                            /\ WF_vars(PeerRead(c))

FairSpec == Spec /\ Fairness

-----------------------------------------------------------------------------
(* Correctness.                                                            *)

Stream(c) == got[c] \o sndq[c]

(* There is one writer exactly while output is cached, it is the one the   *)
(* sender would stop, and it stays in the loop unless the peer it was      *)
(* started for has left: one m_write_handler for all connections is        *)
(* enough, and buffered_sender.cpp:82 never overwrites a living one.       *)
WriterIffCached ==
  /\ m_write_handler # NULL <=> mBuffer # <<>>
  /\ Writers \subseteq {m_write_handler}
  /\ m_write_handler # NULL => Writers = {m_write_handler} \/ abandoned

(* Nothing is lost, repeated or overtaken in the shared sender: what is    *)
(* owed was received, each byte once, what is cached is the end of it,     *)
(* every peer reads owed bytes in the order in which they were owed, no    *)
(* two peers read the same byte, and without a reset none is missing.      *)
OutputInOrder ==
  LET At(b) == CHOOSE i \in DOMAIN owed : owed[i] = b
      sent == Len(owed) - Len(mBuffer)
  IN  /\ \A i \in DOMAIN owed : owed[i].pos <= readIn[owed[i].src]
      /\ \A i, j \in DOMAIN owed : owed[i] = owed[j] => i = j
      /\ mBuffer = SubSeq(owed, sent + 1, Len(owed))
      /\ \A c \in Clients : \A i \in 1 .. Len(Stream(c)) :
           /\ Stream(c)[i] \in ToSet(SubSeq(owed, 1, sent))
           /\ i > 1 => At(Stream(c)[i - 1]) < At(Stream(c)[i])
      /\ \A c, d \in Clients :
           c # d => ToSet(Stream(c)) \cap ToSet(Stream(d)) = {}
      /\ (\A c \in Clients : link[c] # "rst") =>
           \A i \in 1 .. sent : \E c \in Clients : owed[i] \in ToSet(Stream(c))

(* How far the sharing reaches: a peer is sent nothing but its own bytes   *)
(* as long as the kernel never had to refuse it any, that is within the    *)
(* first SndBuf bytes of its stream, unless a peer left with output        *)
(* cached.  Beyond that other peers' bytes may follow (echo.cpp:59).       *)
OwnUntilFull ==
  ~ abandoned =>
    \A c \in Clients : \A i \in 1 .. Len(Stream(c)) :
      i <= SndBuf => Stream(c)[i].src = c

(* A peer that hangs up is released, also while the sender has output for  *)
(* it that nobody will take.                                               *)
Released ==
  \A c \in Clients : stage[c] = "open" /\ link[c] # "up" ~> stage[c] = "closed"

(* Every byte a peer sent, once it is accepted, is in the end read by some *)
(* peer, unless a peer left with output cached or was reset.               *)
Echoed ==
  <>[](\/ \A c \in Clients, i \in 1 .. InLen :
            i <= sentIn[c] /\ stage[c] # "queued" =>
              \E d \in Clients : [src |-> c, pos |-> i] \in ToSet(got[d])
       \/ abandoned
       \/ \E c \in Clients : link[c] = "rst")
=============================================================================
