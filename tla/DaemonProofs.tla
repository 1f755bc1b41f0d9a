---------------------------- MODULE DaemonProofs -----------------------------
(***************************************************************************)
(* What holds of the daemon for any number of clients and descriptors, any *)
(* scripts, and any buffer sizes.  The invariants of Daemon are proved     *)
(* together: each needs the others, and all need what is said here of the  *)
(* watchers in the loop.  Then what a second answer costs, for any scripts;*)
(* and, for peers that send one request each, that no watcher is lost and  *)
(* that the daemon implements FcgiService.                                 *)
(***************************************************************************)
EXTENDS DaemonService, SequenceTheorems, FiniteSetTheorems, TLAPS

(* The watchers are those the code makes, on descriptors and for objects   *)
(* it makes them for; a writer whose object lives watches its socket, and  *)
(* an object that was deleted never comes back.                            *)
WatcherShape ==
  \A w \in watchers :
    /\ w.kind = "accept" => w = Accepter
    /\ w.kind = "read" => w.fd \in FDs /\ w = Reader(w.fd)
    /\ w.kind = "write" =>
         /\ w.fd \in FDs /\ w.owner \in Clients
         /\ stage[w.owner] \notin {"new", "queued"}
         /\ w.owner \in objects => fdtab[w.fd] = w.owner

(* What a BufferedSender holds as its writer is its own, and is in the     *)
(* loop; a Connection that is not there holds nothing.                     *)
HandlerShape ==
  \A o \in Clients :
    /\ m_write_handler[o] # NULL =>
         /\ m_write_handler[o] \in watchers
         /\ m_write_handler[o].kind = "write"
         /\ m_write_handler[o].owner = o
    /\ o \notin objects => m_write_handler[o] = NULL /\ mBuffer[o] = 0

(* Nothing is sent to a connection before it is accepted.                  *)
Untouched ==
  \A c \in Clients : stage[c] \in {"new", "queued"} =>
    got[c] = 0 /\ sndq[c] = 0 /\ answered[c] = 0

IInv ==
  /\ TypeOK
  /\ RegistryAgrees
  /\ WatcherShape
  /\ HandlerShape
  /\ NoStrandedOutput
  /\ Untouched
  /\ OutputAccounted

LEMMA InitIInv == Init => IInv
<1> SUFFICES ASSUME Init PROVE IInv
  OBVIOUS
<1> USE DaemonAssumption DEF Init
<1>1. TypeOK
  <2>1. watchers \subseteq Watcher /\ pending \subseteq watchers
    BY DEF Watcher, Accepter, MainFd
  <2>2. sndq \in [Clients -> 0 .. SndBuf]
    OBVIOUS
  <2>3. /\ stage \in [Clients -> Stages]
        /\ link \in [Clients -> {"up", "fin", "rst"}]
    BY DEF Stages
  <2>4. \A c \in Clients : readIn[c] <= sentIn[c]
    OBVIOUS
  <2> QED
    BY <2>1, <2>2, <2>3, <2>4 DEF TypeOK
<1>2. RegistryAgrees
  BY DEF RegistryAgrees, Reader, Accepter
<1>3. WatcherShape /\ HandlerShape
  BY DEF WatcherShape, HandlerShape, Accepter
<1>4. NoStrandedOutput /\ Untouched /\ OutputAccounted
  BY DEF NoStrandedOutput, Untouched, OutputAccounted
<1> QED
  BY <1>1, <1>2, <1>3, <1>4 DEF IInv

-----------------------------------------------------------------------------
(* The peers and the kernel.                                               *)

(* A step that leaves the daemon alone and moves no connection out of its  *)
(* place keeps IInv if it keeps the output accounts of each connection.    *)
LEMMA PeerStep ==
  ASSUME IInv,
         UNCHANGED <<fdtab, stage, serverVars, objectVars, derailed, ioVars>>,
         readIn' = readIn,
         sentIn' \in [Clients -> Nat],
         \A c \in Clients : sentIn'[c] >= sentIn[c],
         link' \in [Clients -> {"up", "fin", "rst"}],
         sndq' \in [Clients -> 0 .. SndBuf], got' \in [Clients -> Nat],
         \A c \in Clients : link'[c] # "rst" =>
           link[c] # "rst" /\ got'[c] + sndq'[c] = got[c] + sndq[c],
         \A c \in Clients : got[c] = 0 /\ sndq[c] = 0 =>
           got'[c] = 0 /\ sndq'[c] = 0
  PROVE  IInv'
<1> USE DEF serverVars, objectVars, ioVars
<1>1. TypeOK'
  BY DEF IInv, TypeOK
<1>2. RegistryAgrees'
  BY DEF IInv, RegistryAgrees
<1>3. WatcherShape' /\ HandlerShape'
  BY DEF IInv, WatcherShape, HandlerShape
<1>4. NoStrandedOutput'
  BY DEF IInv, NoStrandedOutput
<1>5. Untouched'
  BY DEF IInv, Untouched
<1>6. OutputAccounted'
  BY DEF IInv, OutputAccounted, TypeOK
<1> QED
  BY <1>1, <1>2, <1>3, <1>4, <1>5, <1>6 DEF IInv

LEMMA ConnectStep ==
  ASSUME IInv, NEW c \in Clients, Connect(c)
  PROVE  IInv'
<1> USE DEF Connect, serverVars, objectVars, ioVars
<1>1. TypeOK'
  BY DEF IInv, TypeOK, Stages
<1>2. RegistryAgrees'
  BY DEF IInv, TypeOK, RegistryAgrees
<1>3. WatcherShape'
  BY DEF IInv, TypeOK, WatcherShape
<1>4. HandlerShape' /\ NoStrandedOutput'
  BY DEF IInv, HandlerShape, NoStrandedOutput
<1>5. Untouched' /\ OutputAccounted'
  BY DEF IInv, TypeOK, Untouched, OutputAccounted
<1> QED
  BY <1>1, <1>2, <1>3, <1>4, <1>5 DEF IInv

LEMMA PeerSendStep ==
  ASSUME IInv, NEW c \in Clients, PeerSend(c)
  PROVE  IInv'
<1>1. PICK n \in 1 .. Total(Script[c]) - sentIn[c] :
        sentIn' = [sentIn EXCEPT ![c] = @ + n]
  BY DEF PeerSend
<1>2. n \in Nat
  BY <1>1, DaemonAssumption DEF IInv, TypeOK
<1>3. /\ sentIn' \in [Clients -> Nat]
      /\ \A d \in Clients : sentIn'[d] >= sentIn[d]
  BY <1>1, <1>2 DEF IInv, TypeOK
<1>4. UNCHANGED <<fdtab, stage, readIn, got, serverVars, objectVars, derailed, ioVars>>
  BY DEF PeerSend
<1>5. CASE stage[c] \in {"finished", "aborted"}
  <2>1. PICK kept \in 0 .. sndq[c] : /\ link' = [link EXCEPT ![c] = "rst"]
                                     /\ sndq' = [sndq EXCEPT ![c] = kept]
    BY <1>5 DEF PeerSend, Reset
  <2> QED
    BY <1>3, <1>4, <2>1, PeerStep, DaemonAssumption DEF IInv, TypeOK
<1>6. CASE stage[c] \notin {"finished", "aborted"}
  <2>1. UNCHANGED <<link, sndq>>
    BY <1>6 DEF PeerSend
  <2> QED
    BY <1>3, <1>4, <2>1, PeerStep DEF IInv, TypeOK
<1> QED
  BY <1>5, <1>6

LEMMA PeerReadStep ==
  ASSUME IInv, NEW c \in Clients, PeerRead(c)
  PROVE  IInv'
<1>1. PICK n \in 1 .. sndq[c] : /\ sndq' = [sndq EXCEPT ![c] = @ - n]
                                /\ got' = [got EXCEPT ![c] = @ + n]
  BY DEF PeerRead
<1>2. UNCHANGED <<fdtab, stage, sentIn, readIn, link,
                  serverVars, objectVars, derailed, ioVars>>
  BY DEF PeerRead
<1>3. sndq' \in [Clients -> 0 .. SndBuf] /\ got' \in [Clients -> Nat]
  BY <1>1, DaemonAssumption DEF IInv, TypeOK
<1>4. \A d \in Clients : /\ got'[d] + sndq'[d] = got[d] + sndq[d]
                         /\ sndq[d] = 0 => d # c
  BY <1>1, DaemonAssumption DEF IInv, TypeOK
<1> QED
  BY <1>1, <1>2, <1>3, <1>4, PeerStep DEF IInv, TypeOK

LEMMA PeerFinStep ==
  ASSUME IInv, NEW c \in Clients, PeerFin(c)
  PROVE  IInv'
BY PeerStep DEF PeerFin, IInv, TypeOK

LEMMA PeerRstStep ==
  ASSUME IInv, NEW c \in Clients, PeerRst(c)
  PROVE  IInv'
<1>1. PICK kept \in 0 .. sndq[c] : /\ link' = [link EXCEPT ![c] = "rst"]
                                   /\ sndq' = [sndq EXCEPT ![c] = kept]
  BY DEF PeerRst, Reset
<1> QED
  BY <1>1, PeerStep, DaemonAssumption DEF PeerRst, IInv, TypeOK

LEMMA WaitStep == ASSUME IInv, Wait PROVE IInv'
<1> USE DEF Wait, Poll, socketVars, serverVars, objectVars
<1>1. TypeOK'
  BY DEF IInv, TypeOK
<1>2. RegistryAgrees' /\ WatcherShape' /\ HandlerShape'
  BY DEF IInv, RegistryAgrees, WatcherShape, HandlerShape
<1>3. NoStrandedOutput' /\ Untouched' /\ OutputAccounted'
  BY DEF IInv, NoStrandedOutput, Untouched, OutputAccounted
<1> QED
  BY <1>1, <1>2, <1>3 DEF IInv

-----------------------------------------------------------------------------
(* The daemon.                                                             *)

(* What IInv says of an open descriptor.                                   *)
LEMMA OpenDescriptor ==
  ASSUME IInv, NEW fd \in FDs, fdtab[fd] # NULL
  PROVE  /\ fdtab[fd] \in Clients /\ fdtab[fd] \in objects
         /\ stage[fdtab[fd]] = "open"
         /\ m_connections[fd] = fdtab[fd]
         /\ m_handlers[fd] = Reader(fd)
         /\ \A other \in FDs : fdtab[other] = fdtab[fd] => other = fd
BY DEF IInv, TypeOK, RegistryAgrees

(* Closing a descriptor keeps IInv, whichever callback does it: the reader *)
(* and the writer of the object are gone from the loop, and no other       *)
(* connection's are.                                                       *)
LEMMA CloseStep ==
  ASSUME IInv, NEW w \in pending, NEW fd \in FDs, fdtab[fd] # NULL,
         NEW end \in {"finished", "aborted"},
         NEW unread, NEW queued \in 0 .. SndBuf,
         close(w, fd, end, unread, queued),
         UNCHANGED <<sentIn, got>>,
         readIn' \in [Clients -> Nat],
         \A c \in Clients : readIn'[c] <= sentIn[c],
         answered' \in [Clients -> Nat],
         \A c \in Clients : c # fdtab[fd] => answered'[c] = answered[c],
         end = "finished" /\ link[fdtab[fd]] # "rst" =>
           got[fdtab[fd]] + queued = answered'[fdtab[fd]] * RespLen,
         derailed' \in BOOLEAN
  PROVE  IInv'
<1> DEFINE c == fdtab[fd]
           stopped == {m_handlers[fd], m_write_handler[c]} \ {NULL}
<1>1. /\ c \in Clients /\ c \in objects /\ stage[c] = "open"
      /\ m_connections[fd] = c /\ m_handlers[fd] = Reader(fd)
      /\ \A other \in FDs : fdtab[other] = c => other = fd
  BY OpenDescriptor
<1>2. /\ watchers' = watchers \ stopped
      /\ pending' = pending \ (stopped \cup {w})
      /\ fdtab' = [fdtab EXCEPT ![fd] = NULL]
      /\ stage' = [stage EXCEPT ![c] = end]
      /\ m_handlers' = [m_handlers EXCEPT ![fd] = NULL]
      /\ m_connections' = [m_connections EXCEPT ![fd] = NULL]
      /\ objects' = objects \ {c}
      /\ m_input_buffer' = [m_input_buffer EXCEPT ![c] = 0]
      /\ mBuffer' = [mBuffer EXCEPT ![c] = 0]
      /\ m_write_handler' = [m_write_handler EXCEPT ![c] = NULL]
  BY <1>1 DEF close, Callback, Stopped, CloseDescriptor, disconnected
<1>3. \E kept \in 0 .. queued :
        /\ sndq' = [sndq EXCEPT ![c] = kept]
        /\ \/ link' = [link EXCEPT ![c] = "rst"]
           \/ link' = link /\ kept = queued
  BY DaemonAssumption DEF close, Reset
<1>4. /\ link' \in [Clients -> {"up", "fin", "rst"}]
      /\ sndq' \in [Clients -> 0 .. SndBuf]
      /\ \A d \in Clients : d # c => link'[d] = link[d] /\ sndq'[d] = sndq[d]
      /\ link'[c] # "rst" => link[c] # "rst" /\ sndq'[c] = queued
  BY <1>1, <1>3, DaemonAssumption DEF IInv, TypeOK
<1>5. \A v \in stopped : \/ v = Reader(fd)
                         \/ v.kind = "write" /\ v.owner = c
  BY <1>1 DEF IInv, HandlerShape
<1>6. Reader(fd) \in stopped /\ m_write_handler[c] \notin watchers'
  <2>1. Reader(fd) # NULL
    BY <1>1, DaemonAssumption DEF Reader, Watcher
  <2>2. NULL \notin watchers
    BY DaemonAssumption DEF IInv, TypeOK
  <2> QED
    BY <1>1, <1>2, <2>1, <2>2
<1> HIDE DEF stopped
<1>7. TypeOK'
  BY <1>1, <1>2, <1>4 DEF IInv, TypeOK, Stages
<1>8. RegistryAgrees'
  <2>1. m_connections' = fdtab'
    BY <1>1, <1>2 DEF IInv, TypeOK, RegistryAgrees
  <2>2. \A f \in FDs :
          /\ m_handlers'[f] = IF fdtab'[f] = NULL THEN NULL ELSE Reader(f)
          /\ Reader(f) \in watchers' <=> fdtab'[f] # NULL
    BY <1>1, <1>2, <1>5, <1>6 DEF IInv, TypeOK, RegistryAgrees, Reader
  <2>3. \A f, other \in FDs :
          fdtab'[f] = fdtab'[other] => f = other \/ fdtab'[f] = NULL
    BY <1>1, <1>2 DEF IInv, TypeOK, RegistryAgrees
  <2>4. objects' = {fdtab'[f] : f \in FDs} \ {NULL}
    BY <1>1, <1>2 DEF IInv, TypeOK, RegistryAgrees
  <2>5. objects' = {d \in Clients : stage'[d] = "open"}
    BY <1>1, <1>2 DEF IInv, TypeOK, RegistryAgrees
  <2> QED
    BY <2>1, <2>2, <2>3, <2>4, <2>5 DEF RegistryAgrees
<1>9. WatcherShape'
  BY <1>1, <1>2 DEF IInv, TypeOK, WatcherShape
<1>10. HandlerShape'
  BY <1>1, <1>2, <1>5 DEF IInv, TypeOK, HandlerShape, Reader
<1>11. NoStrandedOutput'
  BY <1>1, <1>2, <1>10 DEF IInv, TypeOK, NoStrandedOutput, HandlerShape
<1>12. Untouched'
  BY <1>1, <1>2, <1>4 DEF IInv, TypeOK, Untouched
<1>13. OutputAccounted'
  BY <1>1, <1>2, <1>4 DEF IInv, TypeOK, OutputAccounted
<1> QED
  BY <1>7, <1>8, <1>9, <1>10, <1>11, <1>12, <1>13 DEF IInv

(* What IInv says of a watcher that is called back.                        *)
LEMMA CalledBack ==
  ASSUME IInv, NEW w \in pending
  PROVE  /\ w \in watchers /\ w # NULL
         /\ w.kind = "read" => /\ w.fd \in FDs /\ w = Reader(w.fd)
                               /\ fdtab[w.fd] # NULL
         /\ w.kind = "write" /\ w.owner \in objects =>
              /\ w.fd \in FDs /\ fdtab[w.fd] = w.owner /\ w.owner # NULL
<1>1. w \in watchers /\ w \in Watcher
  BY DEF IInv, TypeOK
<1>2. w # NULL /\ NULL \notin Clients
  BY <1>1, DaemonAssumption
<1>3. /\ w.kind = "read" => w.fd \in FDs /\ w = Reader(w.fd)
      /\ w.kind = "write" =>
           /\ w.fd \in FDs /\ w.owner \in Clients
           /\ w.owner \in objects => fdtab[w.fd] = w.owner
  BY <1>1 DEF IInv, WatcherShape
<1>4. ASSUME w.kind = "read" PROVE fdtab[w.fd] # NULL
  BY <1>1, <1>3, <1>4 DEF IInv, RegistryAgrees
<1> QED
  BY <1>1, <1>2, <1>3, <1>4

LEMMA AcceptStep ==
  ASSUME IInv, NEW w \in pending, m_on_receive_server(w)
  PROVE  IInv'
<1> USE DEF serverVars
<1>1. CASE Callback(w, {}, {}) /\ UNCHANGED <<fdtab, stage, serverVars, objects>>
  <2>1. /\ watchers' = watchers /\ pending' \subseteq pending
        /\ UNCHANGED <<fdtab, stage, serverVars, objects, sentIn, readIn, link,
                       sndq, got, derailed, m_input_buffer, mBuffer,
                       m_write_handler, answered>>
    BY <1>1 DEF m_on_receive_server, Callback
  <2> QED
    BY <2>1 DEF IInv, TypeOK, RegistryAgrees, WatcherShape, HandlerShape,
                NoStrandedOutput, Untouched, OutputAccounted
<1>2. ASSUME NEW c \in Clients, NEW fd \in FDs,
             stage[c] = "queued", fdtab[fd] = NULL,
             stage' = [stage EXCEPT ![c] = "open"],
             fdtab' = [fdtab EXCEPT ![fd] = c],
             m_connections' = [m_connections EXCEPT ![fd] = c],
             objects' = objects \cup {c},
             m_handlers' = [m_handlers EXCEPT ![fd] = Reader(fd)],
             Callback(w, {Reader(fd)}, {})
      PROVE  IInv'
  <2>2. /\ watchers' = watchers \cup {Reader(fd)}
        /\ pending' = pending \ {w}
        /\ UNCHANGED <<sentIn, readIn, link, sndq, got, derailed,
                       m_input_buffer, mBuffer, m_write_handler, answered>>
    BY <1>2 DEF m_on_receive_server, Callback
  <2>3. c \notin objects /\ c # NULL
    BY <1>2, DaemonAssumption DEF IInv, TypeOK, RegistryAgrees
  <2>4. Reader(fd) \in Watcher /\ Reader(fd) # NULL
    <3>1. Reader(fd) \in Watcher
      BY DEF Reader, Watcher
    <3> QED
      BY <3>1, DaemonAssumption
  <2>5. TypeOK'
    BY <1>2, <2>2, <2>4 DEF IInv, TypeOK, Stages
  <2>6. RegistryAgrees'
    <3>1. m_connections' = fdtab'
      BY <1>2 DEF IInv, TypeOK, RegistryAgrees
    <3>2. \A f \in FDs :
            /\ m_handlers'[f] = IF fdtab'[f] = NULL THEN NULL ELSE Reader(f)
            /\ Reader(f) \in watchers' <=> fdtab'[f] # NULL
      BY <1>2, <2>2, <2>3 DEF IInv, TypeOK, RegistryAgrees, Reader
    <3>3. \A f, other \in FDs :
            fdtab'[f] = fdtab'[other] => f = other \/ fdtab'[f] = NULL
      BY <1>2, <2>3 DEF IInv, TypeOK, RegistryAgrees
    <3>4. objects' = {fdtab'[f] : f \in FDs} \ {NULL}
      BY <1>2, <2>3 DEF IInv, TypeOK, RegistryAgrees
    <3>5. objects' = {d \in Clients : stage'[d] = "open"}
      BY <1>2 DEF IInv, TypeOK, RegistryAgrees
    <3> QED
      BY <3>1, <3>2, <3>3, <3>4, <3>5 DEF RegistryAgrees
  <2>7. WatcherShape'
    <3>1. /\ Reader(fd).kind = "read" /\ Reader(fd).fd = fd
      BY DEF Reader
    <3>2. \A v \in watchers : v.kind = "write" /\ v.owner \in objects' =>
            v.owner \in objects /\ v.fd # fd
      BY <1>2, DaemonAssumption DEF IInv, TypeOK, WatcherShape
    <3>3. \A v \in watchers : v.kind = "write" =>
            stage'[v.owner] \notin {"new", "queued"}
      BY <1>2 DEF IInv, TypeOK, WatcherShape
    <3>4. \A v \in watchers : v.kind = "write" /\ v.owner \in objects' =>
            fdtab'[v.fd] = v.owner
      BY <1>2, <3>2 DEF IInv, TypeOK, WatcherShape
    <3> QED
      BY <1>2, <2>2, <3>1, <3>3, <3>4 DEF IInv, WatcherShape
  <2>8. HandlerShape' /\ NoStrandedOutput'
    BY <1>2, <2>2, <2>3 DEF IInv, TypeOK, HandlerShape, NoStrandedOutput
  <2>9. Untouched' /\ OutputAccounted'
    <3>1. got[c] = 0 /\ sndq[c] = 0 /\ answered[c] = 0 /\ mBuffer[c] = 0
      BY <1>2, <2>3 DEF IInv, Untouched, HandlerShape
    <3> QED
      BY <1>2, <2>2, <3>1, DaemonAssumption
         DEF IInv, TypeOK, Untouched, OutputAccounted
  <2> QED
    BY <2>5, <2>6, <2>7, <2>8, <2>9 DEF IInv
<1> QED
  BY <1>1, <1>2 DEF m_on_receive_server

(* finished() closes with everything sent that the responses are made of.  *)
LEMMA FinishedStep ==
  ASSUME IInv, NEW w \in pending, NEW fd \in FDs, fdtab[fd] # NULL,
         NEW readNow \in Nat, readNow <= sentIn[fdtab[fd]],
         NEW queued \in 0 .. SndBuf,
         finished(w, fd, readNow, queued),
         UNCHANGED <<sentIn, got>>,
         answered' \in [Clients -> Nat],
         \A c \in Clients : c # fdtab[fd] => answered'[c] = answered[c],
         link[fdtab[fd]] # "rst" =>
           got[fdtab[fd]] + queued = answered'[fdtab[fd]] * RespLen,
         derailed' \in BOOLEAN
  PROVE  IInv'
<1> DEFINE left == sentIn[fdtab[fd]] - readNow
           forgotten == Min2(BuffSize, left)
<1>1. fdtab[fd] \in Clients
  BY OpenDescriptor
<1>2. left \in Nat /\ forgotten \in Nat /\ forgotten <= left
  BY <1>1, DaemonAssumption DEF IInv, TypeOK, Min2
<1>3. /\ readIn' = [readIn EXCEPT ![fdtab[fd]] = readNow + forgotten]
      /\ close(w, fd, "finished", left - forgotten, queued)
  BY DEF finished
<1>4. /\ readIn' \in [Clients -> Nat]
      /\ \A c \in Clients : readIn'[c] <= sentIn[c]
  BY <1>1, <1>2, <1>3 DEF IInv, TypeOK
<1> HIDE DEF left, forgotten
<1> QED
  BY <1>3, <1>4, CloseStep

(* A step that changes what a surviving connection has sent and cached.    *)
(* writers are the writers it starts (none, or the new one of o).          *)
LEMMA SendStep ==
  ASSUME IInv, NEW w \in pending, NEW o \in objects,
         NEW writers \in SUBSET Watcher, Callback(w, writers, {}),
         \/ writers = {} /\ m_write_handler' = m_write_handler
         \/ \E fd \in FDs, n \in Nat :
              /\ fdtab[fd] = o /\ writers = {Writer(o, fd, n)}
              /\ m_write_handler' = [m_write_handler EXCEPT ![o] = Writer(o, fd, n)],
         UNCHANGED <<fdtab, stage, sentIn, link, got, serverVars, objects>>,
         readIn' \in [Clients -> Nat],
         \A c \in Clients : readIn'[c] <= sentIn[c],
         m_input_buffer' \in [Clients -> Nat],
         sndq' \in [Clients -> 0 .. SndBuf],
         mBuffer' \in [Clients -> Nat],
         answered' \in [Clients -> Nat],
         \A c \in Clients : c # o =>
           sndq'[c] = sndq[c] /\ mBuffer'[c] = mBuffer[c] /\ answered'[c] = answered[c],
         mBuffer'[o] > 0 <=> m_write_handler'[o] # NULL,
         link[o] # "rst" =>
           got[o] + sndq'[o] + mBuffer'[o] = answered'[o] * RespLen,
         derailed' \in BOOLEAN
  PROVE  IInv'
<1>1. o \in Clients /\ stage[o] = "open"
  BY DEF IInv, TypeOK, RegistryAgrees
<1>2. watchers' = watchers \cup writers /\ pending' = pending \ {w}
  BY DEF Callback
<1>3. \A v \in writers : /\ v.kind = "write" /\ v.fd \in FDs
                         /\ v.owner = o /\ fdtab[v.fd] = o
                         /\ m_write_handler' = [m_write_handler EXCEPT ![o] = v]
  BY DEF Writer
<1>4. NULL \notin writers
  BY DaemonAssumption
<1> USE DEF serverVars
<1>5. TypeOK'
  <2>1. m_write_handler' \in [Clients -> Watcher \cup {NULL}]
    BY <1>1, <1>3 DEF IInv, TypeOK
  <2> QED
    BY <1>2, <2>1 DEF IInv, TypeOK
<1>6. RegistryAgrees'
  BY <1>2, <1>3 DEF IInv, RegistryAgrees, Reader
<1>7. WatcherShape'
  BY <1>1, <1>2, <1>3 DEF IInv, WatcherShape
<1>8. HandlerShape'
  <2>1. ASSUME NEW c \in Clients
        PROVE  \/ m_write_handler'[c] = m_write_handler[c]
               \/ c = o /\ \E v \in writers : m_write_handler'[c] = v
    BY <1>1, <1>3 DEF IInv, TypeOK
  <2> QED
    BY <1>2, <1>3, <2>1 DEF IInv, HandlerShape
<1>9. NoStrandedOutput'
  <2>1. ASSUME NEW c \in objects, c # o
        PROVE  m_write_handler'[c] = m_write_handler[c]
    BY <1>1, <1>3, <2>1 DEF IInv, TypeOK
  <2>2. m_write_handler'[o] # NULL => m_write_handler'[o] \in watchers'
    BY <1>1, <1>5, <1>8 DEF HandlerShape
  <2> QED
    BY <1>2, <2>1, <2>2 DEF IInv, TypeOK, NoStrandedOutput
<1>10. Untouched'
  BY <1>1 DEF IInv, Untouched
<1>11. OutputAccounted'
  BY <1>1 DEF IInv, OutputAccounted
<1> QED
  BY <1>5, <1>6, <1>7, <1>8, <1>9, <1>10, <1>11 DEF IInv

LEMMA SendCashedStep ==
  ASSUME IInv, NEW w \in pending, NEW fd \in FDs, fdtab[fd] # NULL,
         NEW readNow \in Nat, readNow <= sentIn[fdtab[fd]], NEW kept \in Nat,
         send_cashed(w, fd, mBuffer[m_connections[fd]] + RespLen, readNow, kept),
         answered' = [answered EXCEPT ![m_connections[fd]] = @ + 1],
         UNCHANGED <<sentIn, got, derailed>>
  PROVE  IInv'
<1> DEFINE c == fdtab[fd]
           len == mBuffer[c] + RespLen
           writer == Writer(c, fd, answered[c])
<1>1. /\ c \in Clients /\ c \in objects /\ stage[c] = "open"
      /\ m_connections[fd] = c
  BY OpenDescriptor
<1>2. /\ mBuffer[c] \in Nat /\ len \in Nat /\ sndq[c] \in 0 .. SndBuf
      /\ answered[c] \in Nat /\ answered'[c] = answered[c] + 1
      /\ Room(c) \in Nat /\ Room(c) = SndBuf - sndq[c] /\ len > 0
  BY <1>1, DaemonAssumption DEF IInv, TypeOK, Room
<1>3. /\ answered' \in [Clients -> Nat]
      /\ \A d \in Clients : d # c => answered'[d] = answered[d]
      /\ derailed' \in BOOLEAN
  BY <1>1 DEF IInv, TypeOK
<1>4. link[c] # "rst" =>
        got[c] + sndq[c] + len = answered'[c] * RespLen
  <2>1. link[c] # "rst" =>
          got[c] + sndq[c] + mBuffer[c] = answered[c] * RespLen
    BY <1>1 DEF IInv, OutputAccounted
  <2>2. (answered[c] + 1) * RespLen = answered[c] * RespLen + RespLen
    BY <1>2, DaemonAssumption
  <2>3. got[c] \in Nat /\ RespLen \in Nat /\ answered[c] * RespLen \in Nat
    BY <1>1, <1>2, DaemonAssumption DEF IInv, TypeOK
  <2> QED
    BY <1>2, <2>1, <2>2, <2>3
<1>5. ASSUME readIn' = [readIn EXCEPT ![c] = readNow]
      PROVE  /\ readIn' \in [Clients -> Nat]
             /\ \A d \in Clients : readIn'[d] <= sentIn[d]
  BY <1>1, <1>5 DEF IInv, TypeOK
<1>6. CASE /\ readIn' = [readIn EXCEPT ![c] = readNow]
           /\ close(w, fd, "aborted", sentIn[c] - readNow, sndq[c])
  BY <1>2, <1>3, <1>5, <1>6, CloseStep
<1>7. CASE /\ link[c] # "rst" /\ Room(c) >= len
           /\ finished(w, fd, readNow, sndq[c] + len)
  <2>1. sndq[c] + len \in 0 .. SndBuf
    BY <1>2, <1>7, DaemonAssumption
  <2>2. got[c] + (sndq[c] + len) = answered'[c] * RespLen
    BY <1>1, <1>2, <1>4, <1>7 DEF IInv, TypeOK
  <2> HIDE DEF len
  <2> QED
    BY <1>3, <1>7, <2>1, <2>2, FinishedStep
<1>8. CASE /\ link[c] # "rst" /\ Room(c) < len
           /\ readIn' = [readIn EXCEPT ![c] = readNow]
           /\ sndq' = [sndq EXCEPT ![c] = SndBuf]
           /\ mBuffer' = [mBuffer EXCEPT ![c] = len - Room(c)]
           /\ m_input_buffer' = [m_input_buffer EXCEPT ![c] = kept]
           /\ m_write_handler' = [m_write_handler EXCEPT ![c] = writer]
           /\ Callback(w, {writer}, {})
           /\ UNCHANGED <<fdtab, stage, link, serverVars, objects>>
  <2>1. writer \in Watcher
    BY <1>1, <1>2 DEF Writer, Watcher
  <2>2. /\ sndq' \in [Clients -> 0 .. SndBuf] /\ sndq'[c] = SndBuf
        /\ mBuffer' \in [Clients -> Nat] /\ mBuffer'[c] = len - Room(c)
        /\ m_input_buffer' \in [Clients -> Nat]
        /\ \A d \in Clients : d # c =>
             sndq'[d] = sndq[d] /\ mBuffer'[d] = mBuffer[d]
    BY <1>1, <1>2, <1>8, DaemonAssumption DEF IInv, TypeOK
  <2>3. mBuffer'[c] > 0 /\ m_write_handler'[c] # NULL
    BY <1>1, <1>2, <1>8, <2>1, <2>2, DaemonAssumption DEF IInv, TypeOK
  <2>4. got[c] + sndq'[c] + mBuffer'[c] = answered'[c] * RespLen
    <3>1. got[c] \in Nat
      BY <1>1 DEF IInv, TypeOK
    <3> HIDE DEF len
    <3> QED
      BY <1>2, <1>4, <1>8, <2>2, <3>1, DaemonAssumption
  <2>5. \E f \in FDs, n \in Nat :
          /\ fdtab[f] = c /\ {writer} = {Writer(c, f, n)}
          /\ m_write_handler' = [m_write_handler EXCEPT ![c] = Writer(c, f, n)]
    BY <1>2, <1>8
  <2> HIDE DEF len, writer
  <2>6. UNCHANGED <<fdtab, stage, sentIn, link, got, serverVars, objects>>
    BY <1>8
  <2>7. /\ {writer} \in SUBSET Watcher /\ Callback(w, {writer}, {})
        /\ readIn' \in [Clients -> Nat]
        /\ \A d \in Clients : readIn'[d] <= sentIn[d]
    BY <1>5, <1>8, <2>1
  <2>8. /\ link[c] # "rst" =>
             got[c] + sndq'[c] + mBuffer'[c] = answered'[c] * RespLen
        /\ mBuffer'[c] > 0 <=> m_write_handler'[c] # NULL
    BY <2>3, <2>4
  <2> HIDE DEF c
  <2> QED
    BY ZenonT(60), <1>1, <1>3, <2>2, <2>5, <2>6, <2>7, <2>8, SendStep
<1> QED
  BY <1>1, <1>6, <1>7, <1>8 DEF send_cashed, Rest

LEMMA ReceiveStep ==
  ASSUME IInv, NEW w \in pending, m_on_receive_client(w)
  PROVE  IInv'
<1> DEFINE fd == w.fd
           c == fdtab[fd]
           len == Min2(BuffSize, Unread(c))
           now == readIn[c] + len
           kept == m_input_buffer[c]
<1>1. fd \in FDs /\ c # NULL
  BY CalledBack DEF m_on_receive_client
<1>2. c \in Clients /\ c \in objects /\ m_connections[fd] = c
  BY <1>1, OpenDescriptor
<1>3. UNCHANGED <<sentIn, got, derailed>>
  BY DEF m_on_receive_client
<1>4. /\ readIn[c] \in Nat /\ sentIn[c] \in Nat /\ readIn[c] <= sentIn[c]
      /\ kept \in Nat /\ sndq[c] \in 0 .. SndBuf
      /\ answered \in [Clients -> Nat] /\ derailed' \in BOOLEAN
  BY <1>2, <1>3 DEF IInv, TypeOK
<1>5. CASE Unread(c) > 0 /\ received(w, fd, len)
  <2>1. len \in Nat /\ now \in Nat /\ now <= sentIn[c]
    BY <1>4, <1>5, DaemonAssumption DEF Min2, Unread
  <2> HIDE DEF len
  <2>2. ASSUME readIn' = [readIn EXCEPT ![c] = now]
        PROVE  /\ readIn' \in [Clients -> Nat]
               /\ \A d \in Clients : readIn'[d] <= sentIn[d]
    BY <1>2, <2>1, <2>2 DEF IInv, TypeOK
  <2>3. CASE /\ readIn' = [readIn EXCEPT ![c] = now]
             /\ m_input_buffer' = [m_input_buffer EXCEPT ![c] = kept + len]
             /\ Callback(w, {}, {})
             /\ UNCHANGED <<fdtab, stage, link, sndq, serverVars>>
             /\ UNCHANGED <<objects, mBuffer, m_write_handler, answered>>
    <3>1. m_input_buffer' \in [Clients -> Nat]
      <4>1. kept + len \in Nat
        BY <1>4, <2>1
      <4> QED
        BY <2>3, <4>1 DEF IInv, TypeOK
    <3>2. mBuffer'[c] > 0 <=> m_write_handler'[c] # NULL
      BY <1>2, <2>3 DEF IInv, NoStrandedOutput
    <3>3. link[c] # "rst" =>
            got[c] + sndq'[c] + mBuffer'[c] = answered'[c] * RespLen
      BY <1>2, <2>3 DEF IInv, OutputAccounted, RegistryAgrees
    <3>4. /\ sndq' \in [Clients -> 0 .. SndBuf] /\ mBuffer' \in [Clients -> Nat]
          /\ answered' \in [Clients -> Nat]
      BY <2>3 DEF IInv, TypeOK
    <3> QED
      BY <1>2, <1>3, <1>4, <2>2, <2>3, <3>1, <3>2, <3>3, <3>4, SendStep
  <2>4. CASE /\ readIn' = [readIn EXCEPT ![c] = now]
             /\ close(w, fd, "aborted", sentIn[c] - now, sndq[c])
             /\ UNCHANGED answered
    BY <1>1, <1>3, <1>4, <2>2, <2>4, CloseStep
  <2>5. CASE /\ answered' = [answered EXCEPT ![c] = @ + 1]
             /\ send_cashed(w, fd, mBuffer[c] + RespLen, now,
                            IF kept = 0 THEN 0 ELSE kept + len)
    <3>1. (IF kept = 0 THEN 0 ELSE kept + len) \in Nat
      BY <1>4, <2>1
    <3> QED
      BY <1>1, <1>2, <1>3, <2>1, <2>5, <3>1, SendCashedStep
  <2> QED
    BY <1>2, <1>5, <2>3, <2>4, <2>5 DEF received
<1>6. CASE /\ close(w, fd, "aborted", 0, sndq[c])
           /\ UNCHANGED <<readIn, answered>>
  <2>1. /\ readIn' \in [Clients -> Nat]
        /\ \A d \in Clients : readIn'[d] <= sentIn[d]
    BY <1>6 DEF IInv, TypeOK
  <2> QED
    BY <1>1, <1>3, <1>4, <1>6, <2>1, CloseStep
<1> QED
  BY <1>5, <1>6 DEF m_on_receive_client

LEMMA WritableStep ==
  ASSUME IInv, NEW w \in pending, m_on_send(w)
  PROVE  IInv'
<1> DEFINE fd == w.fd
           o == w.owner
<1>1. UNCHANGED <<sentIn, got, answered>> /\ w.kind = "write"
  BY DEF m_on_send
<1>2. CASE o \notin objects
  <2>1. /\ derailed' = TRUE
        /\ UNCHANGED <<fdtab, stage, readIn, link, sndq, serverVars, ioVars>>
        /\ UNCHANGED <<objects, m_input_buffer, mBuffer, m_write_handler>>
    BY <1>2 DEF m_on_send
  <2> QED
    BY <1>1, <2>1 DEF serverVars, ioVars, IInv, TypeOK, RegistryAgrees,
         WatcherShape, HandlerShape, NoStrandedOutput, Untouched, OutputAccounted
<1>3. CASE o \in objects
  <2>1. fd \in FDs /\ fdtab[fd] = o /\ o # NULL /\ o \in Clients
    BY <1>1, <1>3, CalledBack DEF IInv, TypeOK
  <2>2. /\ readIn \in [Clients -> Nat] /\ sndq[o] \in 0 .. SndBuf
        /\ \A d \in Clients : readIn[d] <= sentIn[d]
        /\ answered \in [Clients -> Nat] /\ derailed \in BOOLEAN
        /\ readIn[o] \in Nat /\ mBuffer[o] \in Nat /\ got[o] \in Nat
        /\ Room(o) = SndBuf - sndq[o] /\ Room(o) \in Nat
    BY <2>1, DaemonAssumption DEF IInv, TypeOK, Room
  <2>3. link[o] # "rst" =>
          got[o] + sndq[o] + mBuffer[o] = answered[o] * RespLen
    BY <1>3, <2>1 DEF IInv, OutputAccounted, RegistryAgrees
  <2>4. CASE /\ derailed' \in BOOLEAN
             /\ close(w, fd, "aborted", Unread(o), sndq[o])
             /\ UNCHANGED readIn
    BY <1>1, <2>1, <2>2, <2>4, CloseStep
  <2>5. CASE /\ link[o] # "rst" /\ Room(o) >= mBuffer[o]
             /\ finished(w, fd, readIn[o], sndq[o] + mBuffer[o])
             /\ UNCHANGED derailed
    <3>1. sndq[o] + mBuffer[o] \in 0 .. SndBuf
      BY <2>2, <2>5, DaemonAssumption
    <3>2. got[o] + (sndq[o] + mBuffer[o]) = answered[o] * RespLen
      BY <2>2, <2>3, <2>5
    <3> QED
      BY <1>1, <2>1, <2>2, <2>5, <3>1, <3>2, FinishedStep
  <2>6. CASE /\ link[o] # "rst" /\ Room(o) < mBuffer[o]
             /\ mBuffer' = [mBuffer EXCEPT ![o] = @ - Room(o)]
             /\ sndq' = [sndq EXCEPT ![o] = SndBuf]
             /\ Callback(w, {}, {})
             /\ UNCHANGED <<fdtab, stage, readIn, link, serverVars, derailed>>
             /\ UNCHANGED <<objects, m_input_buffer, m_write_handler>>
    <3>1. /\ mBuffer' \in [Clients -> Nat] /\ mBuffer'[o] = mBuffer[o] - Room(o)
          /\ sndq' \in [Clients -> 0 .. SndBuf] /\ sndq'[o] = SndBuf
          /\ \A d \in Clients : d # o =>
               sndq'[d] = sndq[d] /\ mBuffer'[d] = mBuffer[d]
      BY <2>1, <2>2, <2>6, DaemonAssumption DEF IInv, TypeOK
    <3>2. mBuffer'[o] > 0 /\ m_write_handler'[o] # NULL
      BY <1>3, <2>2, <2>6, <3>1 DEF IInv, NoStrandedOutput
    <3>3. got[o] + sndq'[o] + mBuffer'[o] = answered'[o] * RespLen
      BY <1>1, <2>2, <2>3, <2>6, <3>1, DaemonAssumption
    <3>4. m_input_buffer' \in [Clients -> Nat]
      BY <2>6 DEF IInv, TypeOK
    <3> QED
      BY <1>1, <1>3, <2>2, <2>6, <3>1, <3>2, <3>3, <3>4, SendStep
  <2> QED
    BY <1>3, <2>1, <2>4, <2>5, <2>6 DEF m_on_send, Rest
<1> QED
  BY <1>2, <1>3

-----------------------------------------------------------------------------
(* IInv is inductive.                                                      *)
LEMMA NextIInv == IInv /\ [Next]_vars => IInv'
<1> SUFFICES ASSUME IInv, [Next]_vars PROVE IInv'
  OBVIOUS
<1>1. ASSUME NEW c \in Clients,
             \/ Connect(c) \/ PeerSend(c) \/ PeerRead(c)
             \/ PeerFin(c) \/ PeerRst(c)
      PROVE  IInv'
  BY <1>1, ConnectStep, PeerSendStep, PeerReadStep, PeerFinStep, PeerRstStep
<1>2. CASE Wait
  BY <1>2, WaitStep
<1>3. CASE Dispatch
  <2>1. PICK w \in pending : \/ m_on_receive_server(w)
                             \/ m_on_receive_client(w)
                             \/ m_on_send(w)
    BY <1>3 DEF Dispatch
  <2> QED
    BY <2>1, AcceptStep, ReceiveStep, WritableStep
<1>4. CASE UNCHANGED vars
  BY <1>4 DEF vars, socketVars, serverVars, objectVars, ioVars, IInv, TypeOK,
     RegistryAgrees, WatcherShape, HandlerShape, NoStrandedOutput, Untouched,
     OutputAccounted
<1> QED
  BY <1>1, <1>2, <1>3, <1>4 DEF Next, Loop_step

(* Every behaviour of the daemon keeps all of the invariants.              *)
THEOREM Invariance == Spec => []IInv
BY InitIInv, NextIInv, PTL DEF Spec

(* Every variable keeps its type and streams are never read beyond what    *)
(* was sent.                                                               *)
THEOREM TypeCorrect == Spec => []TypeOK
<1>1. IInv => TypeOK
  BY DEF IInv
<1> QED
  BY <1>1, Invariance, PTL

(* The kernel's table, m_handlers, m_connections and the Connection        *)
(* objects agree after every callback, for any scripts, hang-ups and reuse *)
(* of descriptors: connected() never finds an object in its place,         *)
(* disconnected() and received() always find one.                          *)
THEOREM RegistryCorrect == Spec => []RegistryAgrees
<1>1. IInv => RegistryAgrees
  BY DEF IInv
<1> QED
  BY <1>1, Invariance, PTL

(* send_cashed and m_on_send never leave cached output without a writer in *)
(* the loop, nor a writer without output.                                  *)
THEOREM OutputNeverStranded == Spec => []NoStrandedOutput
<1>1. IInv => NoStrandedOutput
  BY DEF IInv
<1> QED
  BY <1>1, Invariance, PTL

(* Partial sends lose, repeat or cut nothing.                              *)
THEOREM OutputNeverLost == Spec => []OutputAccounted
<1>1. IInv => OutputAccounted
  BY DEF IInv
<1> QED
  BY <1>1, Invariance, PTL

-----------------------------------------------------------------------------
(* What the write watchers cost, for any scripts.                          *)

(* Each answer starts at most one writer, which is told apart by the       *)
(* number of answers before it, and only that of the last answer is held.  *)
Numbered ==
  \A w \in watchers : w.kind = "write" =>
    /\ w.n < answered[w.owner]
    /\ w.n = answered[w.owner] - 1 => w = m_write_handler[w.owner]
    /\ \A v \in watchers :
         v.kind = "write" /\ v.owner = w.owner /\ v.n = w.n => v = w

-----------------------------------------------------------------------------
(* What the callbacks do.                                                  *)

(* close, given what IInv says of the descriptor.                          *)
LEMMA Closes ==
  ASSUME IInv, NEW w \in pending, NEW fd \in FDs, NEW c \in Clients, c = fdtab[fd],
         NEW end, NEW unread, NEW queued, close(w, fd, end, unread, queued)
  PROVE  /\ watchers' = watchers \ {Reader(fd), m_write_handler[c]}
         /\ stage' = [stage EXCEPT ![c] = end]
         /\ objects' = objects \ {c} /\ c \in objects /\ stage[c] = "open"
         /\ m_write_handler' = [m_write_handler EXCEPT ![c] = NULL]
         /\ m_input_buffer' = [m_input_buffer EXCEPT ![c] = 0]
         /\ unread > 0 => link' = [link EXCEPT ![c] = "rst"]
         /\ ~ (unread > 0) => link' = link
<1>1. fdtab[fd] # NULL
  BY DaemonAssumption
<1>2. c \in objects /\ stage[c] = "open" /\ m_connections[fd] = c /\ m_handlers[fd] = Reader(fd)
  BY <1>1, OpenDescriptor
<1>3. NULL \notin watchers
  BY DaemonAssumption DEF IInv, TypeOK
<1>4. watchers' = watchers \ ({Reader(fd), m_write_handler[c]} \ {NULL})
  BY <1>2 DEF close, Callback, Stopped
<1>5. watchers' = watchers \ {Reader(fd), m_write_handler[c]}
  BY <1>3, <1>4
<1> QED
  BY <1>2, <1>5 DEF close, disconnected, Reset

(* A recv of the reader: no verdict yet, a wrong one, an answer that is    *)
(* given up, sent or cached, or the end of the input.                      *)
Waits(c, now) ==
  /\ "Insufficient" \in parse(Script[c], readIn[c] - m_input_buffer[c], now)
  /\ readIn' = [readIn EXCEPT ![c] = now]
  /\ m_input_buffer' = [m_input_buffer EXCEPT ![c] = m_input_buffer[c] + (now - readIn[c])]
  /\ UNCHANGED <<stage, link, objects, m_write_handler, answered, watchers>>
Refuses(w, c, now) ==
  /\ "Error" \in parse(Script[c], readIn[c] - m_input_buffer[c], now)
  /\ readIn' = [readIn EXCEPT ![c] = now]
  /\ answered' = answered
  /\ close(w, w.fd, "aborted", sentIn[c] - now, sndq[c])
Answers(w, c, now) ==
  /\ "Ready" \in parse(Script[c], readIn[c] - m_input_buffer[c], now)
  /\ answered' = [answered EXCEPT ![c] = @ + 1]
  /\ LET forgotten == Min2(BuffSize, sentIn[c] - now)
     IN  \/ /\ link[c] = "rst"
            /\ readIn' = [readIn EXCEPT ![c] = now]
            /\ close(w, w.fd, "aborted", sentIn[c] - now, sndq[c])
         \/ /\ readIn' = [readIn EXCEPT ![c] = now + forgotten]
            /\ \E queued : close(w, w.fd, "finished", sentIn[c] - now - forgotten, queued)
         \/ /\ readIn' = [readIn EXCEPT ![c] = now]
            /\ m_write_handler' =
                 [m_write_handler EXCEPT ![c] = Writer(c, w.fd, answered[c])]
            /\ watchers' = watchers \cup {Writer(c, w.fd, answered[c])}
            /\ \E kept : m_input_buffer' = [m_input_buffer EXCEPT ![c] = kept]
            /\ UNCHANGED <<stage, link, objects>>
Ends(w, c) ==
  /\ Unread(c) = 0 /\ link[c] # "up"
  /\ close(w, w.fd, "aborted", 0, sndq[c])
  /\ UNCHANGED <<readIn, answered>>

LEMMA Receives ==
  ASSUME IInv, NEW w \in pending, m_on_receive_client(w)
  PROVE  \E c \in Clients :
           /\ w.fd \in FDs /\ c = fdtab[w.fd] /\ c \in objects /\ stage[c] = "open"
           /\ UNCHANGED <<sentIn, got, derailed>>
           /\ \/ /\ Unread(c) > 0
                 /\ LET now == readIn[c] + Min2(BuffSize, Unread(c))
                    IN  Waits(c, now) \/ Refuses(w, c, now) \/ Answers(w, c, now)
              \/ Ends(w, c)
<1>1. w.fd \in FDs /\ fdtab[w.fd] # NULL
  BY CalledBack DEF m_on_receive_client
<1>2. PICK c \in Clients : /\ c = fdtab[w.fd] /\ c \in objects
                           /\ m_connections[w.fd] = c /\ stage[c] = "open"
  BY <1>1, OpenDescriptor
<1> DEFINE len == Min2(BuffSize, Unread(c))
           now == readIn[c] + len
<1>3. readIn[c] \in Nat /\ sentIn[c] \in Nat
  BY <1>2 DEF IInv, TypeOK
<1>4. CASE Unread(c) > 0 /\ received(w, w.fd, len)
  <2>1. len \in Int /\ now - readIn[c] = len
    BY <1>3, DaemonAssumption DEF Min2, Unread
  <2> HIDE DEF len, now
  <2>2. PICK verdict \in parse(Script[c], readIn[c] - m_input_buffer[c], now) :
          \/ /\ verdict = "Insufficient"
             /\ readIn' = [readIn EXCEPT ![c] = now]
             /\ m_input_buffer' = [m_input_buffer EXCEPT ![c] = m_input_buffer[c] + len]
             /\ Callback(w, {}, {})
             /\ UNCHANGED <<fdtab, stage, link, sndq, serverVars>>
             /\ UNCHANGED <<objects, mBuffer, m_write_handler, answered>>
          \/ /\ verdict = "Error"
             /\ readIn' = [readIn EXCEPT ![c] = now]
             /\ close(w, w.fd, "aborted", sentIn[c] - now, sndq[c])
             /\ UNCHANGED answered
          \/ /\ verdict = "Ready"
             /\ answered' = [answered EXCEPT ![c] = @ + 1]
             /\ send_cashed(w, w.fd, mBuffer[c] + RespLen, now,
                            IF m_input_buffer[c] = 0 THEN 0 ELSE m_input_buffer[c] + len)
    BY <1>2, <1>4 DEF received, now
  <2>3. Waits(c, now) \/ Refuses(w, c, now) \/ Answers(w, c, now)
    <3>1. CASE verdict = "Insufficient"
      <4>1. Waits(c, now)
        BY <2>1, <2>2, <3>1 DEF Waits, Callback
      <4> QED
        BY <4>1
    <3>2. CASE verdict = "Error"
      <4>1. Refuses(w, c, now)
        BY <2>2, <3>2 DEF Refuses
      <4> QED
        BY <4>1
    <3>3. CASE verdict = "Ready"
      <4>1. Answers(w, c, now)
        BY <1>2, <2>2, <3>3 DEF Answers, send_cashed, finished, Callback
      <4> QED
        BY <4>1
    <3> QED
      BY <2>2, <3>1, <3>2, <3>3
  <2> QED
    BY <1>1, <1>2, <1>4, <2>3 DEF m_on_receive_client, len, now
<1>5. CASE Unread(c) = 0 /\ link[c] # "up" /\ close(w, w.fd, "aborted", 0, sndq[c])
           /\ UNCHANGED <<readIn, answered>>
  BY <1>1, <1>2, <1>5 DEF Ends, m_on_receive_client
<1> QED
  BY <1>2, <1>4, <1>5 DEF m_on_receive_client

(* A write callback: on freed memory, or of a living connection that is    *)
(* given up, finished or still has output cached.                          *)
Stale ==
  /\ derailed' = TRUE
  /\ UNCHANGED <<stage, readIn, link, objects, m_input_buffer, m_write_handler, watchers>>
GivesUp(w) ==
  /\ link[w.owner] = "rst" /\ derailed' \in BOOLEAN
  /\ close(w, w.fd, "aborted", Unread(w.owner), sndq[w.owner])
  /\ UNCHANGED readIn
Finishes(w) ==
  LET c == w.owner
      forgotten == Min2(BuffSize, Unread(c))
  IN  /\ readIn' = [readIn EXCEPT ![c] = readIn[c] + forgotten]
      /\ \E queued : close(w, w.fd, "finished", Unread(c) - forgotten, queued)
      /\ UNCHANGED derailed
GoesOn ==
  UNCHANGED <<stage, readIn, link, objects, m_input_buffer, m_write_handler,
              watchers, derailed>>

LEMMA Writes ==
  ASSUME IInv, NEW w \in pending, m_on_send(w)
  PROVE  /\ w \in watchers /\ w.kind = "write" /\ w.owner \in Clients
         /\ UNCHANGED <<sentIn, got, answered>>
         /\ \/ w.owner \notin objects /\ Stale
            \/ /\ w.owner \in objects /\ w.fd \in FDs /\ w.owner = fdtab[w.fd]
               /\ stage[w.owner] = "open"
               /\ GivesUp(w) \/ Finishes(w) \/ GoesOn
<1>1. w \in watchers /\ w.kind = "write" /\ UNCHANGED <<sentIn, got, answered>>
  BY CalledBack DEF m_on_send
<1>2. PICK o \in Clients : o = w.owner
  BY <1>1 DEF IInv, WatcherShape
<1>3. CASE o \notin objects
  BY <1>1, <1>2, <1>3 DEF m_on_send, Stale, ioVars
<1>4. CASE o \in objects
  <2>1. w.fd \in FDs /\ fdtab[w.fd] = o /\ stage[o] = "open"
    BY <1>1, <1>2, <1>4, CalledBack DEF IInv, RegistryAgrees
  <2>2. GivesUp(w) \/ Finishes(w) \/ GoesOn
    <3>1. CASE /\ link[o] = "rst" /\ derailed' \in BOOLEAN
               /\ close(w, w.fd, "aborted", Unread(o), sndq[o])
               /\ UNCHANGED readIn
      <4>1. GivesUp(w)
        BY <1>2, <3>1 DEF GivesUp
      <4> QED
        BY <4>1
    <3>2. CASE /\ finished(w, w.fd, readIn[o], sndq[o] + mBuffer[o])
               /\ UNCHANGED derailed
      <4>1. Finishes(w)
        BY <1>2, <2>1, <3>2 DEF finished, Finishes, Unread
      <4> QED
        BY <4>1
    <3>3. CASE /\ Callback(w, {}, {})
               /\ UNCHANGED <<fdtab, stage, readIn, link, serverVars, derailed>>
               /\ UNCHANGED <<objects, m_input_buffer, m_write_handler>>
      <4>1. GoesOn
        BY <3>3 DEF GoesOn, Callback
      <4> QED
        BY <4>1
    <3> QED
      BY <1>2, <1>4, <2>1, <3>1, <3>2, <3>3 DEF m_on_send
  <2> QED
    BY <1>1, <1>2, <1>4, <2>1, <2>2
<1> QED
  BY <1>3, <1>4

LEMMA Accepts ==
  ASSUME IInv, NEW w \in pending, m_on_receive_server(w)
  PROVE  /\ UNCHANGED <<sentIn, readIn, link, got, derailed, answered, m_write_handler,
                        m_input_buffer>>
         /\ \/ UNCHANGED <<stage, objects, watchers>>
            \/ \E c \in Clients, fd \in FDs :
                 /\ stage[c] = "queued" /\ c \notin objects
                 /\ stage' = [stage EXCEPT ![c] = "open"]
                 /\ objects' = objects \cup {c}
                 /\ watchers' = watchers \cup {Reader(fd)}
<1>1. /\ UNCHANGED <<sentIn, readIn, link, got, derailed, answered, m_write_handler,
                     m_input_buffer>>
      /\ \/ UNCHANGED <<stage, objects, watchers>>
         \/ \E c \in Clients, fd \in FDs :
              /\ stage[c] = "queued"
              /\ stage' = [stage EXCEPT ![c] = "open"]
              /\ objects' = objects \cup {c}
              /\ watchers' = watchers \cup {Reader(fd)}
  BY DEF m_on_receive_server, Callback
<1>2. \A c \in Clients : stage[c] = "queued" => c \notin objects
  BY DEF IInv, RegistryAgrees
<1> QED
  BY <1>1, <1>2

-----------------------------------------------------------------------------
(* Every answer loses at most one watcher.                                 *)

(* No writer is started, and the writers of a connection that stops        *)
(* holding one do not include it.                                          *)
LEMMA FewerWriters ==
  ASSUME IInv, Numbered,
         answered' \in [Clients -> Nat], \A c \in Clients : answered'[c] >= answered[c],
         \A v \in watchers' : v.kind = "write" =>
           /\ v \in watchers
           /\ \/ m_write_handler'[v.owner] = m_write_handler[v.owner]
              \/ v # m_write_handler[v.owner]
  PROVE  Numbered'
<1> SUFFICES ASSUME NEW w \in watchers', w.kind = "write"
             PROVE  /\ w.n < answered'[w.owner]
                    /\ w.n = answered'[w.owner] - 1 => w = m_write_handler'[w.owner]
                    /\ \A v \in watchers' :
                         v.kind = "write" /\ v.owner = w.owner /\ v.n = w.n => v = w
  BY DEF Numbered
<1>1. w \in watchers /\ w.owner \in Clients /\ w.n \in Nat
  BY DEF IInv, WatcherShape, TypeOK, Watcher
<1>2. /\ w.n < answered[w.owner]
      /\ w.n = answered[w.owner] - 1 => w = m_write_handler[w.owner]
      /\ \A v \in watchers :
           v.kind = "write" /\ v.owner = w.owner /\ v.n = w.n => v = w
  BY <1>1 DEF Numbered
<1>3. answered[w.owner] \in Nat /\ answered'[w.owner] \in Nat
  BY <1>1 DEF IInv, TypeOK
<1>4. w.n < answered'[w.owner]
  BY <1>1, <1>2, <1>3
<1>5. w.n = answered'[w.owner] - 1 => w = m_write_handler'[w.owner]
  BY <1>1, <1>2, <1>3
<1> QED
  BY <1>2, <1>4, <1>5

LEMMA OneMoreWriter ==
  ASSUME IInv, Numbered, NEW c \in Clients, NEW fd \in FDs,
         answered' = [answered EXCEPT ![c] = @ + 1],
         m_write_handler' = [m_write_handler EXCEPT ![c] = Writer(c, fd, answered[c])],
         watchers' = watchers \cup {Writer(c, fd, answered[c])}
  PROVE  Numbered'
<1> DEFINE new == Writer(c, fd, answered[c])
<1>1. /\ new.kind = "write" /\ new.owner = c /\ new.n = answered[c]
      /\ m_write_handler'[c] = new
      /\ \A o \in Clients \ {c} : m_write_handler'[o] = m_write_handler[o]
                                  /\ answered'[o] = answered[o]
      /\ answered'[c] = answered[c] + 1 /\ answered[c] \in Nat
  BY DEF IInv, TypeOK, Writer
<1>2. \A w \in watchers : w.kind = "write" =>
        w.owner \in Clients /\ w.n \in Nat /\ answered[w.owner] \in Nat
  BY DEF IInv, WatcherShape, TypeOK, Watcher
<1>3. watchers' = watchers \cup {new}
  OBVIOUS
<1> HIDE DEF new
<1>4. ASSUME NEW w \in watchers, w.kind = "write"
      PROVE  /\ w.n < answered'[w.owner]
             /\ w.n = answered'[w.owner] - 1 => w = m_write_handler'[w.owner]
             /\ w.owner = c => w.n # new.n
  <2>1. /\ w.n < answered[w.owner] /\ w.owner \in Clients
        /\ w.n = answered[w.owner] - 1 => w = m_write_handler[w.owner]
    BY <1>2, <1>4 DEF Numbered
  <2>2. w.n \in Nat /\ answered[w.owner] \in Nat
    BY <1>2, <1>4
  <2>3. CASE w.owner = c
    BY <1>1, <2>1, <2>2, <2>3
  <2>4. CASE w.owner # c
    BY <1>1, <2>1, <2>4
  <2> QED
    BY <2>3, <2>4
<1>5. \A v, w \in watchers :
        v.kind = "write" /\ w.kind = "write" /\ v.owner = w.owner /\ v.n = w.n => v = w
  BY DEF Numbered
<1> QED
  BY <1>1, <1>3, <1>4, <1>5 DEF Numbered

(* A close takes the held writer out of the loop.                          *)
LEMMA ClosedWriters ==
  ASSUME IInv, Numbered, NEW w \in pending, NEW fd \in FDs, NEW c \in Clients, c = fdtab[fd],
         NEW end, NEW unread, NEW queued, close(w, fd, end, unread, queued),
         answered' \in [Clients -> Nat], \A d \in Clients : answered'[d] >= answered[d]
  PROVE  Numbered'
<1>1. /\ watchers' = watchers \ {Reader(fd), m_write_handler[c]}
      /\ m_write_handler' = [m_write_handler EXCEPT ![c] = NULL]
  BY Closes
<1>2. \A v \in watchers' : v.kind = "write" =>
        /\ v \in watchers /\ v.owner \in Clients /\ v # m_write_handler[c]
  BY <1>1 DEF IInv, WatcherShape
<1>3. \A o \in Clients \ {c} : m_write_handler'[o] = m_write_handler[o]
  BY <1>1 DEF IInv, TypeOK
<1> QED
  BY <1>2, <1>3, FewerWriters

LEMMA NextNumbered == IInv /\ Numbered /\ [Next]_vars => Numbered'
<1> SUFFICES ASSUME IInv, Numbered, [Next]_vars PROVE Numbered'
  OBVIOUS
<1>0. answered \in [Clients -> Nat] /\ \A c \in Clients : answered[c] >= answered[c]
  BY DEF IInv, TypeOK
<1>1. CASE UNCHANGED <<watchers, m_write_handler, answered>>
  BY <1>1 DEF Numbered
<1>2. CASE \E c \in Clients : \/ Connect(c) \/ PeerSend(c) \/ PeerRead(c)
                              \/ PeerFin(c) \/ PeerRst(c)
  BY <1>1, <1>2 DEF Connect, PeerSend, PeerRead, PeerFin, PeerRst, objectVars, ioVars
<1>3. CASE Wait
  BY <1>1, <1>3 DEF Wait, Poll, objectVars
<1>4. ASSUME NEW w \in pending, m_on_receive_server(w) PROVE Numbered'
  <2>1. \A v \in watchers' : v.kind = "write" => v \in watchers
    BY <1>4, Accepts DEF Reader
  <2>2. UNCHANGED <<answered, m_write_handler>>
    BY <1>4, Accepts
  <2> QED
    BY <1>0, <2>1, <2>2, FewerWriters
<1>5. ASSUME NEW w \in pending, m_on_receive_client(w) PROVE Numbered'
  <2>1. PICK c \in Clients :
          /\ w.fd \in FDs /\ c = fdtab[w.fd]
          /\ \/ \E now : Waits(c, now) \/ Refuses(w, c, now) \/ Answers(w, c, now)
             \/ Ends(w, c)
    BY <1>5, Receives
  <2>2. ASSUME answered' = [answered EXCEPT ![c] = @ + 1]
        PROVE  answered' \in [Clients -> Nat] /\ \A d \in Clients : answered'[d] >= answered[d]
    BY <1>0, <2>2
  <2>3. CASE \E now : Waits(c, now)
    BY <1>1, <2>3 DEF Waits
  <2>4. CASE (\E now : Refuses(w, c, now)) \/ Ends(w, c)
    <3>1. answered' = answered /\ \E unread, queued : close(w, w.fd, "aborted", unread, queued)
      BY <2>4 DEF Refuses, Ends
    <3> QED
      BY <1>0, <2>1, <3>1, ClosedWriters
  <2>5. CASE \E now : Answers(w, c, now)
    <3>1. answered' = [answered EXCEPT ![c] = @ + 1]
      BY <2>5 DEF Answers
    <3>2. CASE \E end, unread, queued : close(w, w.fd, end, unread, queued)
      BY <2>1, <2>2, <3>1, <3>2, ClosedWriters
    <3>3. CASE /\ m_write_handler' =
                    [m_write_handler EXCEPT ![c] = Writer(c, w.fd, answered[c])]
               /\ watchers' = watchers \cup {Writer(c, w.fd, answered[c])}
      BY <2>1, <3>1, <3>3, OneMoreWriter
    <3> QED
      BY <2>5, <3>2, <3>3 DEF Answers
  <2> QED
    BY <2>1, <2>3, <2>4, <2>5
<1>6. ASSUME NEW w \in pending, m_on_send(w) PROVE Numbered'
  <2>1. /\ w.owner \in Clients /\ answered' = answered
        /\ \/ Stale
           \/ /\ w.fd \in FDs /\ w.owner = fdtab[w.fd]
              /\ GivesUp(w) \/ Finishes(w) \/ GoesOn
    BY <1>6, Writes
  <2>2. CASE Stale \/ GoesOn
    BY <1>1, <2>1, <2>2 DEF Stale, GoesOn
  <2>3. CASE /\ w.fd \in FDs /\ w.owner = fdtab[w.fd]
             /\ GivesUp(w) \/ Finishes(w)
    <3>1. \E end, unread, queued : close(w, w.fd, end, unread, queued)
      BY <2>3 DEF GivesUp, Finishes
    <3> QED
      BY <1>0, <2>1, <2>3, <3>1, ClosedWriters
  <2> QED
    BY <2>1, <2>2, <2>3
<1>7. CASE UNCHANGED vars
  BY <1>1, <1>7 DEF vars, objectVars, ioVars
<1> QED
  BY <1>2, <1>3, <1>4, <1>5, <1>6, <1>7 DEF Next, Loop_step, Dispatch

LEMMA NumberedInvariance == Spec => [](IInv /\ Numbered)
<1>1. Init => Numbered
  BY DEF Init, Numbered, Accepter
<1> QED
  BY <1>1, InitIInv, NextIInv, NextNumbered, PTL DEF Spec

(* For any scripts, a watcher is only ever lost by answering again while   *)
(* output is cached, one for each such answer.                             *)
THEOREM LeaksCounted == Spec => []LeaksOnlyByDoubleAnswer
<1>1. IInv /\ Numbered => LeaksOnlyByDoubleAnswer
  <2> SUFFICES ASSUME IInv, Numbered, NEW o \in Clients
               PROVE  Cardinality({w \in watchers :
                         w.kind = "write" /\ w.owner = o /\ w # m_write_handler[o]})
                        <= IF answered[o] = 0 THEN 0 ELSE answered[o] - 1
    BY DEF LeaksOnlyByDoubleAnswer
  <2> DEFINE lost == {w \in watchers :
                        w.kind = "write" /\ w.owner = o /\ w # m_write_handler[o]}
             top == answered[o] - 2
  <2>1. answered[o] \in Nat
    BY DEF IInv, TypeOK
  <2>2. \A w \in lost : w.n \in 0 .. top
    <3> TAKE w \in lost
    <3>1. w.n < answered[o] /\ w.n # answered[o] - 1
      BY DEF Numbered
    <3>2. w.n \in Nat
      BY DEF IInv, TypeOK, Watcher
    <3> QED
      BY <2>1, <3>1, <3>2
  <2>3. \A v, w \in lost : v.n = w.n => v = w
    BY DEF Numbered
  <2> HIDE DEF lost
  <2>4. [w \in lost |-> w.n] \in Injection(lost, 0 .. top)
    <3>1. [w \in lost |-> w.n] \in [lost -> 0 .. top]
      BY <2>2
    <3> QED
      BY <2>3, <3>1 DEF Injection, IsInjective
  <2>5. /\ IsFiniteSet(0 .. top)
        /\ Cardinality(0 .. top) = IF 0 > top THEN 0 ELSE top - 0 + 1
    <3>1. top \in Int /\ 0 \in Int
      BY <2>1
    <3> HIDE DEF top
    <3> QED
      BY <3>1, FS_Interval
  <2>6. Cardinality(lost) <= Cardinality(0 .. top)
    BY <2>4, <2>5, FS_Injection
  <2>7. Cardinality(0 .. top) = IF answered[o] = 0 THEN 0 ELSE answered[o] - 1
    BY <2>1, <2>5
  <2> QED
    BY <2>6, <2>7 DEF lost
<1> QED
  BY <1>1, NumberedInvariance, PTL

-----------------------------------------------------------------------------
(* Peers that send one request.                                            *)

OneShots == \A c \in Clients : OneShot(c)

(* How far a peer is, in its input and in its life: nothing is read after  *)
(* the answer, and before it all that was read is kept.                    *)
ServedAt(c) ==
  /\ sentIn[c] <= Total(Script[c])
  /\ sentIn[c] = 0 \/ sentIn[c] >= Min2(MinFirst, Total(Script[c]))
  /\ readIn[c] = 0 \/ readIn[c] >= Shortest(c)
  /\ answered[c] \in {0, 1}
  /\ answered[c] = 1 => readIn[c] = Total(Script[c])
  /\ stage[c] \in {"new", "queued", "open"} /\ answered[c] = 0 =>
       m_input_buffer[c] = readIn[c]
  /\ stage[c] = "new" => sentIn[c] = 0
  /\ stage[c] = "finished" => answered[c] = 1
  /\ stage[c] = "aborted" => link[c] # "up"
Served == \A c \in Clients : ServedAt(c)

(* Nothing is left behind by a connection that is answered once.           *)
LEMMA AnsweredOnce == IInv /\ Numbered /\ Served => NoDanglingWatcher
<1> SUFFICES ASSUME IInv, Numbered, Served, NEW w \in watchers, w.kind = "write"
             PROVE  /\ w.owner \in objects
                    /\ m_write_handler[w.owner] = w
                    /\ fdtab[w.fd] = w.owner
  BY DEF NoDanglingWatcher
<1>1. w.owner \in Clients /\ w.n \in Nat /\ w # NULL
  BY DaemonAssumption DEF IInv, WatcherShape, TypeOK, Watcher
<1>2. w.n < answered[w.owner] /\ answered[w.owner] \in {0, 1}
  BY <1>1 DEF Numbered, Served, ServedAt
<1>3. w = m_write_handler[w.owner]
  BY <1>1, <1>2 DEF Numbered
<1> QED
  BY <1>1, <1>3 DEF IInv, HandlerShape, WatcherShape

(* A step about one peer, as the service sees it.                          *)
Phase == [c \in Clients |-> PhaseOf(c)]
Hungup == {c \in Clients : link[c] # "up"}
Apart(c) ==
  \A d \in Clients \ {c} :
    /\ stage'[d] = stage[d] /\ sentIn'[d] = sentIn[d] /\ readIn'[d] = readIn[d]
    /\ link'[d] = link[d] /\ answered'[d] = answered[d]
    /\ m_input_buffer'[d] = m_input_buffer[d]

LEMMA Moves ==
  ASSUME NEW c \in Clients, Apart(c)
  PROVE  /\ Phase' = [Phase EXCEPT ![c] = PhaseOf(c)']
         /\ (link'[c] # "up" <=> link[c] # "up") => Hungup' = Hungup
         /\ link'[c] # "up" => Hungup' = Hungup \cup {c}
         /\ Served /\ ServedAt(c)' => Served'
<1>1. \A d \in Clients \ {c} : PhaseOf(d)' = PhaseOf(d)
  BY DEF Apart, PhaseOf
<1>2. Phase' = [Phase EXCEPT ![c] = PhaseOf(c)']
  BY <1>1 DEF Phase
<1>3. /\ (link'[c] # "up" <=> link[c] # "up") => Hungup' = Hungup
      /\ link'[c] # "up" => Hungup' = Hungup \cup {c}
  BY DEF Apart, Hungup
<1>4. \A d \in Clients \ {c} : ServedAt(d) => ServedAt(d)'
  BY DEF Apart, ServedAt
<1> QED
  BY <1>2, <1>3, <1>4 DEF Served

(* What a step has to show: the peer is where it should be, and its phase  *)
(* moves as in the service or not at all.                                  *)
Serves(c) ==
  LET from == PhaseOf(c)
      to == PhaseOf(c)'
      same == link'[c] # "up" <=> link[c] # "up"
      up == ~ derailed /\ derailed' = derailed
  IN  \/ to = from /\ same /\ derailed' = derailed
      \/ from = "idle" /\ to = "asking" /\ same /\ derailed' = derailed
      \/ from = "asking" /\ to = "asked" /\ same /\ derailed' = derailed
      \/ from = "asked" /\ to = "answering" /\ same /\ up
      \/ from \in {"asked", "answering"} /\ to = "served" /\ same /\ up
      \/ /\ from \in {"asking", "asked", "answering"} /\ to = from
         /\ link[c] = "up" /\ link'[c] # "up" /\ derailed' = derailed
      \/ /\ from \in {"asking", "asked", "answering"} /\ to = "dropped"
         /\ link[c] # "up" /\ same /\ ~ derailed /\ derailed' \in BOOLEAN

LEMMA ServesIsService ==
  ASSUME NEW c \in Clients, Apart(c), Serves(c)
  PROVE  [Service!Next]_<<Phase, Hungup, derailed>>
<1> USE DEF Service!Next, Service!Move, Phase, Hungup
<1> DEFINE same == link'[c] # "up" <=> link[c] # "up"
<1>0. /\ Phase' = [Phase EXCEPT ![c] = PhaseOf(c)'] /\ Phase[c] = PhaseOf(c)
      /\ same => Hungup' = Hungup
      /\ link'[c] # "up" => Hungup' = Hungup \cup {c}
      /\ link[c] # "up" => c \in Hungup
      /\ link[c] = "up" => c \notin Hungup
  BY Moves
<1>1. CASE PhaseOf(c)' = PhaseOf(c) /\ same /\ derailed' = derailed
  <2>1. Phase' = Phase /\ Hungup' = Hungup
    BY <1>0, <1>1
  <2> QED
    BY <1>1, <2>1
<1>2. CASE PhaseOf(c) = "idle" /\ PhaseOf(c)' = "asking" /\ same /\ derailed' = derailed
  <2>1. Service!Connect(c)
    BY <1>0, <1>2 DEF Service!Connect
  <2> QED
    BY <2>1
<1>3. CASE PhaseOf(c) = "asking" /\ PhaseOf(c)' = "asked" /\ same /\ derailed' = derailed
  <2>1. Service!Ask(c)
    BY <1>0, <1>3 DEF Service!Ask
  <2> QED
    BY <2>1
<1>4. CASE /\ \/ PhaseOf(c) = "asked" /\ PhaseOf(c)' = "answering"
              \/ PhaseOf(c) \in {"asked", "answering"} /\ PhaseOf(c)' = "served"
           /\ same /\ ~ derailed /\ derailed' = derailed
  <2>1. Service!Answer(c)
    BY <1>0, <1>4 DEF Service!Answer
  <2> QED
    BY <2>1
<1>5. CASE /\ PhaseOf(c) \in {"asking", "asked", "answering"} /\ PhaseOf(c)' = PhaseOf(c)
           /\ link[c] = "up" /\ link'[c] # "up" /\ derailed' = derailed
  <2>1. Service!HangUp(c)
    BY <1>0, <1>5 DEF Service!HangUp
  <2> QED
    BY <2>1
<1>6. CASE /\ PhaseOf(c) \in {"asking", "asked", "answering"} /\ PhaseOf(c)' = "dropped"
           /\ link[c] # "up" /\ same /\ ~ derailed /\ derailed' \in BOOLEAN
  <2>1. Service!Drop(c)
    BY <1>0, <1>6 DEF Service!Drop
  <2> QED
    BY <2>1
<1> QED
  BY <1>1, <1>2, <1>3, <1>4, <1>5, <1>6 DEF Serves

(* What a step does to the peers: something right to one, or nothing.      *)
Step ==
  \/ \E c \in Clients : Apart(c) /\ Serves(c) /\ ServedAt(c)'
  \/ UNCHANGED <<stage, sentIn, readIn, link, answered, m_input_buffer, derailed>>

LEMMA Facts ==
  ASSUME OneShots, IInv, Served, NEW c \in Clients
  PROVE  /\ sentIn[c] \in Nat /\ readIn[c] \in Nat /\ readIn[c] <= sentIn[c]
         /\ Total(Script[c]) \in Nat /\ Total(Script[c]) > 0
         /\ stage[c] \in Stages /\ ServedAt(c)
         /\ stage \in [Clients -> Stages] /\ sentIn \in [Clients -> Nat]
         /\ readIn \in [Clients -> Nat] /\ link \in [Clients -> {"up", "fin", "rst"}]
         /\ answered \in [Clients -> Nat] /\ m_input_buffer \in [Clients -> Nat]
         /\ stage[c] \in {"new", "queued"} => answered[c] = 0
         /\ answered[c] = 1 => sentIn[c] = Total(Script[c])
<1>1. /\ sentIn[c] \in Nat /\ readIn[c] \in Nat /\ readIn[c] <= sentIn[c]
      /\ Total(Script[c]) \in Nat /\ Total(Script[c]) > 0
      /\ stage[c] \in Stages /\ ServedAt(c)
      /\ stage \in [Clients -> Stages] /\ sentIn \in [Clients -> Nat]
      /\ readIn \in [Clients -> Nat] /\ link \in [Clients -> {"up", "fin", "rst"}]
      /\ answered \in [Clients -> Nat] /\ m_input_buffer \in [Clients -> Nat]
      /\ stage[c] \in {"new", "queued"} => answered[c] = 0
  BY DaemonAssumption DEF IInv, TypeOK, OneShots, OneShot, Served, Untouched
<1>2. answered[c] = 1 => sentIn[c] = Total(Script[c])
  BY <1>1 DEF ServedAt
<1> QED
  BY <1>1, <1>2

LEMMA PeersSteps ==
  ASSUME OneShots, IInv, Served, NEW c \in Clients,
         Connect(c) \/ PeerSend(c) \/ PeerRead(c) \/ PeerFin(c) \/ PeerRst(c)
  PROVE  Step
<1>0. /\ sentIn[c] \in Nat /\ readIn[c] \in Nat /\ readIn[c] <= sentIn[c]
      /\ Total(Script[c]) \in Nat /\ Total(Script[c]) > 0
      /\ stage[c] \in Stages /\ ServedAt(c)
      /\ stage \in [Clients -> Stages] /\ sentIn \in [Clients -> Nat]
      /\ readIn \in [Clients -> Nat] /\ link \in [Clients -> {"up", "fin", "rst"}]
      /\ stage[c] \in {"new", "queued"} => answered[c] = 0
      /\ answered[c] = 1 => sentIn[c] = Total(Script[c])
  BY Facts
<1>1. CASE Connect(c)
  <2>1. /\ stage[c] = "new" /\ stage'[c] = "queued"
        /\ \A d \in Clients \ {c} : stage'[d] = stage[d]
        /\ UNCHANGED <<sentIn, readIn, link, answered, m_input_buffer, derailed>>
    BY <1>0, <1>1 DEF Connect, objectVars
  <2>2. Apart(c)
    BY <2>1 DEF Apart
  <2>3. ServedAt(c)'
    BY <1>0, <2>1 DEF ServedAt
  <2>4. Serves(c)
    BY <1>0, <2>1 DEF Serves, PhaseOf, ServedAt
  <2> QED
    BY <2>2, <2>3, <2>4 DEF Step
<1>2. CASE PeerSend(c)
  <2>1. PICK n \in 1 .. Total(Script[c]) - sentIn[c] :
          /\ sentIn[c] = 0 => n >= Min2(MinFirst, Total(Script[c]))
          /\ sentIn' = [sentIn EXCEPT ![c] = @ + n]
    BY <1>2 DEF PeerSend
  <2>2. /\ n \in Nat /\ sentIn[c] < Total(Script[c]) /\ answered[c] = 0
        /\ stage[c] \in {"queued", "open"} /\ link[c] = "up"
    BY <1>0, <1>2, <2>1 DEF PeerSend, ServedAt, Stages
  <2>3. /\ sentIn'[c] = sentIn[c] + n /\ sentIn'[c] <= Total(Script[c])
        /\ \A d \in Clients \ {c} : sentIn'[d] = sentIn[d]
        /\ UNCHANGED <<stage, readIn, link, answered, m_input_buffer, derailed>>
    BY <1>0, <1>2, <2>1, <2>2 DEF PeerSend, objectVars
  <2>4. Apart(c)
    BY <2>3 DEF Apart
  <2>5. sentIn'[c] >= Min2(MinFirst, Total(Script[c]))
    <3>1. MinFirst \in Nat
      BY DaemonAssumption
    <3> QED
      BY <1>0, <2>1, <2>2, <2>3, <3>1 DEF ServedAt, Min2
  <2>6. ServedAt(c)'
    BY <1>0, <2>2, <2>3, <2>5 DEF ServedAt
  <2>7. Serves(c)
    BY <1>0, <2>2, <2>3 DEF Serves, PhaseOf
  <2> QED
    BY <2>4, <2>6, <2>7 DEF Step
<1>3. CASE PeerRead(c)
  BY <1>3 DEF PeerRead, objectVars, Step
<1>4. CASE PeerFin(c) \/ PeerRst(c)
  <2>1. /\ stage[c] \in {"queued", "open"} /\ link'[c] # "up"
        /\ \A d \in Clients \ {c} : link'[d] = link[d]
        /\ UNCHANGED <<stage, sentIn, readIn, answered, m_input_buffer, derailed>>
    BY <1>0, <1>4 DEF PeerFin, PeerRst, Reset, objectVars
  <2>2. Apart(c)
    BY <2>1 DEF Apart
  <2>3. ServedAt(c)'
    BY <1>0, <2>1 DEF ServedAt
  <2>4. Serves(c)
    <3>1. PhaseOf(c)' = PhaseOf(c)
      BY <2>1 DEF PhaseOf
    <3>2. PhaseOf(c) \in {"asking", "asked", "answering"}
      BY <2>1 DEF PhaseOf
    <3> QED
      BY <2>1, <3>1, <3>2 DEF Serves
  <2> QED
    BY <2>2, <2>3, <2>4 DEF Step
<1> QED
  BY <1>1, <1>2, <1>3, <1>4

LEMMA AcceptSteps ==
  ASSUME OneShots, IInv, Served, NEW w \in pending, m_on_receive_server(w)
  PROVE  Step
<1>1. UNCHANGED <<sentIn, readIn, link, derailed, answered, m_input_buffer>>
  BY Accepts
<1>2. CASE UNCHANGED stage
  BY <1>1, <1>2 DEF Step
<1>3. CASE \E c \in Clients : /\ stage[c] = "queued"
                              /\ stage' = [stage EXCEPT ![c] = "open"]
  <2>1. PICK c \in Clients : /\ stage[c] = "queued"
                             /\ stage' = [stage EXCEPT ![c] = "open"]
    BY <1>3
  <2>2. stage \in [Clients -> Stages] /\ ServedAt(c)
    BY Facts
  <2>3. stage'[c] = "open" /\ \A d \in Clients \ {c} : stage'[d] = stage[d]
    BY <2>1, <2>2
  <2>4. Apart(c)
    BY <1>1, <2>3 DEF Apart
  <2>5. ServedAt(c)'
    BY <1>1, <2>1, <2>2, <2>3 DEF ServedAt
  <2>6. Serves(c)
    <3>1. PhaseOf(c)' = PhaseOf(c)
      BY <1>1, <2>1, <2>3 DEF PhaseOf
    <3> QED
      BY <1>1, <3>1 DEF Serves
  <2> QED
    BY <2>4, <2>5, <2>6 DEF Step
<1> QED
  BY <1>2, <1>3, Accepts

(* A close of the peer's descriptor with nothing of its input unread.      *)
LEMMA CloseSteps ==
  ASSUME OneShots, IInv, Served, NEW w \in pending, NEW fd \in FDs, NEW c \in Clients,
         c = fdtab[fd], NEW end \in {"finished", "aborted"}, NEW unread, NEW queued,
         close(w, fd, end, unread, queued),
         unread > 0 => link[c] = "rst",
         ~ derailed, derailed' \in BOOLEAN, end = "finished" => derailed' = derailed,
         sentIn' = sentIn,
         \A d \in Clients \ {c} : readIn'[d] = readIn[d] /\ answered'[d] = answered[d],
         readIn'[c] = 0 \/ readIn'[c] >= Shortest(c),
         answered'[c] \in {0, 1}, answered'[c] = 1 => readIn'[c] = Total(Script[c]),
         end = "finished" => answered'[c] = 1 /\ sentIn[c] = Total(Script[c]),
         end = "aborted" => link[c] # "up"
  PROVE  Step
<1>1. /\ stage' = [stage EXCEPT ![c] = end] /\ stage[c] = "open"
      /\ m_input_buffer' = [m_input_buffer EXCEPT ![c] = 0]
      /\ unread > 0 => link' = [link EXCEPT ![c] = "rst"]
      /\ ~ (unread > 0) => link' = link
  BY Closes
<1>2. /\ ServedAt(c)
      /\ stage \in [Clients -> Stages] /\ link \in [Clients -> {"up", "fin", "rst"}]
      /\ m_input_buffer \in [Clients -> Nat]
  BY Facts
<1>3. link' = link
  <2>1. CASE unread > 0
    <3>1. link' = [link EXCEPT ![c] = "rst"] /\ link[c] = "rst"
      BY <1>1, <2>1
    <3> QED
      BY <1>2, <3>1
  <2>2. CASE ~ (unread > 0)
    BY <1>1, <2>2
  <2> QED
    BY <2>1, <2>2
<1>4. /\ stage'[c] = end
      /\ \A d \in Clients \ {c} : /\ stage'[d] = stage[d]
                                  /\ m_input_buffer'[d] = m_input_buffer[d]
  BY <1>1, <1>2
<1>5. Apart(c)
  BY <1>3, <1>4 DEF Apart
<1>6. ServedAt(c)'
  BY <1>2, <1>3, <1>4 DEF ServedAt
<1>7. Serves(c)
  <2>1. PhaseOf(c) \in {"asking", "asked", "answering"}
    BY <1>1 DEF PhaseOf
  <2>2. CASE end = "aborted"
    <3>1. PhaseOf(c)' = "dropped"
      BY <1>4, <2>2 DEF PhaseOf
    <3> QED
      BY <1>3, <2>1, <2>2, <3>1 DEF Serves
  <2>3. CASE end = "finished"
    <3>1. PhaseOf(c)' = "served"
      BY <1>4, <2>3 DEF PhaseOf
    <3>2. PhaseOf(c) \in {"asked", "answering"}
      BY <1>1, <2>3 DEF PhaseOf
    <3> QED
      BY <1>3, <2>3, <3>1, <3>2 DEF Serves
  <2> QED
    BY <2>2, <2>3
<1> QED
  BY <1>5, <1>6, <1>7 DEF Step

(* What is read before the answer is the beginning of the request.         *)
LEMMA Verdicts ==
  ASSUME OneShots, IInv, Served, NEW c \in Clients, stage[c] = "open", Unread(c) > 0
  PROVE  LET now == readIn[c] + Min2(BuffSize, Unread(c))
         IN  /\ answered[c] = 0 /\ m_input_buffer[c] = readIn[c]
             /\ now \in Nat /\ readIn[c] \in Nat
             /\ now <= sentIn[c] /\ now >= Shortest(c) /\ now <= Total(Script[c])
             /\ parse(Script[c], readIn[c] - m_input_buffer[c], now) =
                  {IF now = Total(Script[c]) THEN "Ready" ELSE "Insufficient"}
<1> DEFINE now == readIn[c] + Min2(BuffSize, Unread(c))
           first == Min2(MinFirst, Total(Script[c]))
<1>1. /\ sentIn[c] \in Nat /\ readIn[c] \in Nat /\ readIn[c] <= sentIn[c]
      /\ Total(Script[c]) \in Nat /\ Total(Script[c]) > 0 /\ ServedAt(c)
      /\ answered[c] = 1 => sentIn[c] = Total(Script[c])
  BY Facts
<1>2. answered[c] = 0 /\ m_input_buffer[c] = readIn[c] /\ sentIn[c] > readIn[c]
  BY <1>1 DEF ServedAt, Unread
<1>3. BuffSize \in Nat /\ MinFirst \in Nat
  BY DaemonAssumption
<1>4. now \in Nat /\ now <= sentIn[c] /\ now <= Total(Script[c])
  BY <1>1, <1>2, <1>3 DEF Min2, Unread, ServedAt
<1>5. now >= Shortest(c)
  <2>1. Shortest(c) = Min2(BuffSize, first) /\ first \in Nat
    BY <1>1, <1>3 DEF Shortest, Min2
  <2>2. CASE readIn[c] = 0
    <3>1. sentIn[c] >= first
      BY <1>1, <1>2, <2>2 DEF ServedAt
    <3>2. now = Min2(BuffSize, sentIn[c])
      BY <1>1, <1>3, <2>2 DEF Unread, Min2
    <3> HIDE DEF now, first
    <3> QED
      BY <1>1, <1>3, <2>1, <3>1, <3>2 DEF Min2
  <2>3. CASE readIn[c] # 0
    <3>1. readIn[c] >= Shortest(c) /\ Shortest(c) \in Nat
      BY <1>1, <1>3, <2>1, <2>3 DEF ServedAt, Min2
    <3>2. now >= readIn[c]
      BY <1>1, <1>2, <1>3 DEF Min2, Unread
    <3> HIDE DEF now
    <3> QED
      BY <1>1, <1>4, <3>1, <3>2
  <2> QED
    BY <2>2, <2>3
<1> HIDE DEF now
<1>6. now \in Shortest(c) .. Total(Script[c])
  <2>1. Shortest(c) \in Int
    BY <1>1, <1>3 DEF Shortest, Min2
  <2> QED
    BY <1>1, <1>4, <1>5, <2>1
<1>7. readIn[c] - m_input_buffer[c] = 0
  BY <1>1, <1>2
<1>8. parse(Script[c], 0, now) =
        {IF now = Total(Script[c]) THEN "Ready" ELSE "Insufficient"}
  BY <1>6 DEF OneShots, OneShot
<1> QED
  BY <1>1, <1>2, <1>4, <1>5, <1>7, <1>8 DEF now

LEMMA ReceiveSteps ==
  ASSUME OneShots, IInv, Served, ~ derailed, NEW w \in pending, m_on_receive_client(w)
  PROVE  Step
<1>1. PICK c \in Clients :
        /\ w.fd \in FDs /\ c = fdtab[w.fd] /\ stage[c] = "open"
        /\ UNCHANGED <<sentIn, got, derailed>>
        /\ \/ /\ Unread(c) > 0
              /\ LET now == readIn[c] + Min2(BuffSize, Unread(c))
                 IN  Waits(c, now) \/ Refuses(w, c, now) \/ Answers(w, c, now)
           \/ Ends(w, c)
  BY Receives
<1>2. /\ sentIn[c] \in Nat /\ readIn[c] \in Nat /\ readIn[c] <= sentIn[c]
      /\ Total(Script[c]) \in Nat /\ ServedAt(c)
      /\ readIn \in [Clients -> Nat] /\ answered \in [Clients -> Nat]
      /\ m_input_buffer \in [Clients -> Nat] /\ derailed' \in BOOLEAN
  BY <1>1, Facts DEF IInv, TypeOK
<1>3. CASE Ends(w, c)
  <2>1. /\ close(w, w.fd, "aborted", 0, sndq[c]) /\ link[c] # "up"
        /\ UNCHANGED <<readIn, answered>>
    BY <1>3 DEF Ends
  <2> QED
    BY <1>1, <1>2, <2>1, CloseSteps DEF ServedAt
<1>4. CASE Unread(c) > 0 /\ ~ Ends(w, c)
  <2>1. PICK now \in Nat :
          /\ Waits(c, now) \/ Refuses(w, c, now) \/ Answers(w, c, now)
          /\ answered[c] = 0 /\ m_input_buffer[c] = readIn[c]
          /\ now <= sentIn[c] /\ now >= Shortest(c) /\ now <= Total(Script[c])
          /\ parse(Script[c], readIn[c] - m_input_buffer[c], now) =
               {IF now = Total(Script[c]) THEN "Ready" ELSE "Insufficient"}
    BY <1>1, <1>4, Verdicts
  <2>2. ~ Refuses(w, c, now)
    BY <2>1 DEF Refuses
  <2>3. CASE Waits(c, now)
    <3>1. /\ readIn'[c] = now /\ m_input_buffer'[c] = now
          /\ \A d \in Clients \ {c} : /\ readIn'[d] = readIn[d]
                                      /\ m_input_buffer'[d] = m_input_buffer[d]
          /\ UNCHANGED <<stage, link, answered>>
      <4>1. m_input_buffer[c] + (now - readIn[c]) = now
        BY <1>2, <2>1
      <4> QED
        BY <1>2, <2>3, <4>1 DEF Waits
    <3>2. Apart(c)
      BY <1>1, <3>1 DEF Apart
    <3>3. ServedAt(c)'
      BY <1>1, <1>2, <2>1, <3>1 DEF ServedAt
    <3>4. Serves(c)
      <4>1. PhaseOf(c)' = PhaseOf(c)
        BY <1>1, <3>1 DEF PhaseOf
      <4> QED
        BY <1>1, <3>1, <4>1 DEF Serves
    <3> QED
      BY <3>2, <3>3, <3>4 DEF Step
  <2>4. CASE Answers(w, c, now)
    <3>1. now = Total(Script[c]) /\ sentIn[c] = now
      BY <1>2, <2>1, <2>4 DEF Answers, ServedAt
    <3>2. /\ answered'[c] = 1
          /\ \A d \in Clients \ {c} : answered'[d] = answered[d]
      BY <1>2, <2>1, <2>4 DEF Answers
    <3> DEFINE forgotten == Min2(BuffSize, sentIn[c] - now)
    <3>3. sentIn[c] - now = 0 /\ forgotten = 0 /\ now + forgotten = now
      BY <2>1, <3>1, DaemonAssumption DEF Min2
    <3>4. CASE /\ link[c] = "rst"
               /\ readIn' = [readIn EXCEPT ![c] = now]
               /\ close(w, w.fd, "aborted", sentIn[c] - now, sndq[c])
      <4>1. readIn'[c] = now /\ \A d \in Clients \ {c} : readIn'[d] = readIn[d]
        BY <1>2, <3>4
      <4>2. PICK unread, queued :
              close(w, w.fd, "aborted", unread, queued) /\ link[c] = "rst"
        BY <3>4
      <4>3. /\ w.fd \in FDs /\ c = fdtab[w.fd]
            /\ derailed' \in BOOLEAN /\ sentIn' = sentIn
            /\ \A d \in Clients \ {c} : readIn'[d] = readIn[d] /\ answered'[d] = answered[d]
            /\ readIn'[c] >= Shortest(c)
            /\ answered'[c] \in {0, 1} /\ readIn'[c] = Total(Script[c])
        BY <1>1, <1>2, <2>1, <3>1, <3>2, <4>1
      <4> QED
        BY ONLY OneShots, IInv, Served, ~ derailed, w \in pending, c \in Clients,
                <4>2, <4>3, CloseSteps
    <3>5. CASE /\ readIn' = [readIn EXCEPT ![c] = now + forgotten]
               /\ \E queued : close(w, w.fd, "finished", sentIn[c] - now - forgotten, queued)
      <4>1. readIn'[c] = now /\ \A d \in Clients \ {c} : readIn'[d] = readIn[d]
        BY <1>2, <3>3, <3>5
      <4>2. PICK queued, unread : close(w, w.fd, "finished", unread, queued) /\ unread = 0
        BY <3>3, <3>5
      <4> HIDE DEF forgotten
      <4>3. /\ w.fd \in FDs /\ c = fdtab[w.fd] /\ ~ unread > 0
            /\ derailed' = derailed /\ derailed' \in BOOLEAN /\ sentIn' = sentIn
            /\ \A d \in Clients \ {c} : readIn'[d] = readIn[d] /\ answered'[d] = answered[d]
            /\ readIn'[c] >= Shortest(c)
            /\ answered'[c] = 1 /\ readIn'[c] = Total(Script[c])
            /\ sentIn[c] = Total(Script[c])
        BY <1>1, <1>2, <2>1, <3>1, <3>2, <4>1, <4>2
      <4> QED
        BY ONLY OneShots, IInv, Served, ~ derailed, w \in pending, c \in Clients,
                <4>2, <4>3, CloseSteps
    <3>6. CASE /\ readIn' = [readIn EXCEPT ![c] = now]
               /\ UNCHANGED <<stage, link>>
               /\ \E kept : m_input_buffer' = [m_input_buffer EXCEPT ![c] = kept]
      <4>1. /\ readIn'[c] = now
            /\ \A d \in Clients \ {c} : /\ readIn'[d] = readIn[d]
                                        /\ m_input_buffer'[d] = m_input_buffer[d]
        BY <1>2, <3>6
      <4>2. Apart(c)
        BY SMTT(30), <1>1, <3>2, <3>6, <4>1 DEF Apart
      <4>3. ServedAt(c)'
        BY <1>1, <1>2, <2>1, <3>1, <3>2, <3>6, <4>1 DEF ServedAt
      <4>4. Serves(c)
        <5>1. PhaseOf(c) = "asked"
          BY <1>1, <2>1, <3>1 DEF PhaseOf
        <5>2. PhaseOf(c)' = "answering"
          BY <1>1, <3>2, <3>6 DEF PhaseOf
        <5> QED
          BY <1>1, <3>6, <5>1, <5>2 DEF Serves
      <4> QED
        BY <4>2, <4>3, <4>4 DEF Step
    <3> QED
      BY <2>4, <3>4, <3>5, <3>6 DEF Answers
  <2> QED
    BY <2>1, <2>2, <2>3, <2>4
<1> QED
  BY <1>1, <1>3, <1>4

LEMMA WriteSteps ==
  ASSUME OneShots, IInv, Numbered, Served, ~ derailed, NEW w \in pending, m_on_send(w)
  PROVE  Step
<1>1. PICK c \in Clients :
        /\ c = w.owner /\ w \in watchers /\ w.kind = "write"
        /\ UNCHANGED <<sentIn, got, answered>>
        /\ c \in objects => /\ w.fd \in FDs /\ c = fdtab[w.fd] /\ stage[c] = "open"
                            /\ GivesUp(w) \/ Finishes(w) \/ GoesOn
  BY Writes
<1>2. c \in objects
  BY <1>1, AnsweredOnce DEF NoDanglingWatcher
<1>3. /\ sentIn[c] \in Nat /\ readIn[c] \in Nat /\ ServedAt(c)
      /\ readIn \in [Clients -> Nat] /\ answered \in [Clients -> Nat]
      /\ answered[c] = 1 => sentIn[c] = Total(Script[c])
      /\ derailed \in BOOLEAN
  BY Facts DEF IInv, TypeOK
<1>4. answered[c] = 1 /\ readIn[c] = Total(Script[c]) /\ Unread(c) = 0
  <2>1. w.n < answered[c] /\ w.n \in Nat
    BY <1>1 DEF Numbered, IInv, TypeOK, Watcher
  <2>2. answered[c] = 1
    BY <1>3, <2>1 DEF ServedAt
  <2> QED
    BY <1>3, <2>2 DEF ServedAt, Unread
<1>5. CASE GivesUp(w)
  <2>1. /\ link[c] = "rst" /\ derailed' \in BOOLEAN /\ readIn' = readIn
        /\ close(w, w.fd, "aborted", Unread(c), sndq[c])
    BY <1>1, <1>5 DEF GivesUp
  <2> QED
    BY <1>1, <1>2, <1>3, <2>1, CloseSteps DEF ServedAt
<1>6. CASE Finishes(w)
  <2> DEFINE forgotten == Min2(BuffSize, Unread(c))
  <2>1. forgotten = 0
    BY <1>4, DaemonAssumption DEF Min2
  <2>2. readIn[c] + forgotten = readIn[c] /\ Unread(c) - forgotten = 0
    BY <1>3, <1>4, <2>1
  <2>3. PICK queued, unread : close(w, w.fd, "finished", unread, queued) /\ unread = 0
    BY <1>1, <1>6, <2>2 DEF Finishes
  <2>4. readIn' = readIn /\ derailed' = derailed
    BY <1>1, <1>3, <1>6, <2>2 DEF Finishes
  <2> HIDE DEF forgotten
  <2>5. ~ (unread > 0)
    BY <2>3
  <2> QED
    BY <1>1, <1>2, <1>3, <1>4, <2>3, <2>4, <2>5, CloseSteps DEF ServedAt
<1>7. CASE GoesOn
  BY <1>1, <1>7 DEF GoesOn, Step
<1> QED
  BY <1>1, <1>2, <1>5, <1>6, <1>7

LEMMA NextStep ==
  ASSUME OneShots, IInv, Numbered, Served, [Next]_vars
  PROVE  Step
<1>1. CASE \E c \in Clients : \/ Connect(c) \/ PeerSend(c) \/ PeerRead(c)
                              \/ PeerFin(c) \/ PeerRst(c)
  BY <1>1, PeersSteps
<1>2. CASE Wait
  BY <1>2 DEF Wait, socketVars, objectVars, Step
<1>3. CASE Dispatch
  BY <1>3, AcceptSteps, ReceiveSteps, WriteSteps DEF Dispatch
<1>4. CASE UNCHANGED vars
  BY <1>4 DEF vars, socketVars, objectVars, Step
<1> QED
  BY <1>1, <1>2, <1>3, <1>4 DEF Next, Loop_step

(* A step that is right to the peers keeps Served and is the service's.    *)
LEMMA StepIsService ==
  ASSUME Served, Step
  PROVE  Served' /\ [Service!Next]_<<Phase, Hungup, derailed>>
<1>1. CASE UNCHANGED <<stage, sentIn, readIn, link, answered, m_input_buffer, derailed>>
  <2>1. Phase' = Phase /\ Hungup' = Hungup
    BY <1>1 DEF Phase, PhaseOf, Hungup
  <2> QED
    BY <1>1, <2>1 DEF Served, ServedAt
<1>2. CASE \E c \in Clients : Apart(c) /\ Serves(c) /\ ServedAt(c)'
  BY <1>2, Moves, ServesIsService
<1> QED
  BY <1>1, <1>2 DEF Step

LEMMA InitServed == OneShots /\ Init => Served
<1> SUFFICES ASSUME OneShots, Init, NEW c \in Clients PROVE ServedAt(c)
  BY DEF Served
<1>1. Total(Script[c]) \in Nat /\ MinFirst \in Nat
  BY DaemonAssumption
<1> QED
  BY <1>1 DEF Init, ServedAt

LEMMA ServedInvariance == OneShots => (Spec => [](IInv /\ Numbered /\ Served))
<1> SUFFICES ASSUME OneShots PROVE Spec => [](IInv /\ Numbered /\ Served)
  OBVIOUS
<1>1. Init => Served
  BY InitServed
<1>2. IInv /\ Numbered /\ Served /\ [Next]_vars => Served'
  BY NextStep, StepIsService
<1> QED
  BY <1>1, <1>2, NumberedInvariance, PTL DEF Spec

(* Peers that send one request leave no watcher behind: each write watcher *)
(* in the loop is its living Connection's, whatever closes it.             *)
THEOREM NothingDangles == OneShots => (Spec => []NoDanglingWatcher)
BY AnsweredOnce, ServedInvariance, PTL

(* For such peers the daemon implements the service: one answer for each   *)
(* request, when it is whole, and no peer dropped that did not hang up.    *)
THEOREM ServiceImplemented == OneShots => (Spec => ImplementsService)
<1> SUFFICES ASSUME OneShots PROVE Spec => ImplementsService
  OBVIOUS
<1>1. Init => Service!Init
  <2> SUFFICES ASSUME Init PROVE Service!Init
    OBVIOUS
  <2>1. \A c \in Clients : PhaseOf(c) = "idle" /\ link[c] = "up"
    BY DEF Init, PhaseOf
  <2> QED
    BY <2>1 DEF Init, Service!Init
<1>2. IInv /\ Numbered /\ Served /\ [Next]_vars =>
        [Service!Next]_<<Phase, Hungup, derailed>>
  BY NextStep, StepIsService
<1> QED
  BY <1>1, <1>2, ServedInvariance, PTL
     DEF Spec, ImplementsService, Service!Spec, Service!serviceVars, Phase, Hungup

-----------------------------------------------------------------------------
(* There are such peers, whatever the lengths of a record's parts: those   *)
(* that send a GET, if their first segment shows the type of the record.   *)

IsGet(m) ==
  /\ m \in Seq(Record) /\ Len(m) = 3
  /\ m[1].type = "BEGIN" /\ m[1].len = BodyLen /\ m[1].pad = 0
  /\ m[2].type = "PARAMS" /\ m[2].id = m[1].id
  /\ m[3].type = "STDIN" /\ m[3].id = m[1].id /\ m[3].len = 0 /\ m[3].pad = 0

LEMMA StartsOfGet ==
  ASSUME NEW m, IsGet(m)
  PROVE  /\ Start(m, 1) = 0
         /\ Start(m, 2) = HeaderLen + BodyLen
         /\ Start(m, 3) = 2 * HeaderLen + BodyLen + m[2].len + m[2].pad
         /\ Total(m) = 3 * HeaderLen + BodyLen + m[2].len + m[2].pad
<1> DEFINE F(f) == f = [j \in 1 .. 4 |-> IF j = 1 THEN 0 ELSE f[j - 1] + Size(m[j - 1])]
           f0 == CHOOSE f : F(f)
           g == [j \in 1 .. 4 |->
                   IF j = 1 THEN 0
                   ELSE IF j = 2 THEN Size(m[1])
                   ELSE IF j = 3 THEN Size(m[1]) + Size(m[2])
                   ELSE Size(m[1]) + Size(m[2]) + Size(m[3])]
<1>1. /\ m[1] \in Record /\ m[2] \in Record /\ m[3] \in Record
      /\ Len(m) = 3 /\ Len(m) + 1 = 4
  <2>1. m \in Seq(Record) /\ Len(m) = 3
    BY DEF IsGet
  <2>2. \A k \in 1 .. Len(m) : m[k] \in Record
    BY <2>1, ElementOfSeq
  <2> QED
    BY <2>1, <2>2
<1>2. /\ Size(m[1]) = HeaderLen + BodyLen
      /\ Size(m[2]) = HeaderLen + m[2].len + m[2].pad
      /\ Size(m[3]) = HeaderLen
      /\ m[2].len \in Nat /\ m[2].pad \in Nat
  BY <1>1, LengthsAssumption DEF IsGet, Size, Record
<1>3. F(g)
  <2>1. ASSUME NEW j \in 1 .. 4
        PROVE  g[j] = IF j = 1 THEN 0 ELSE g[j - 1] + Size(m[j - 1])
    <3>1. CASE j = 1
      BY <3>1
    <3>2. CASE j = 2
      BY <3>2, <1>2, LengthsAssumption
    <3>3. CASE j = 3
      BY <3>3
    <3>4. CASE j = 4
      BY <3>4
    <3> QED
      BY <3>1, <3>2, <3>3, <3>4
  <2> HIDE DEF g
  <2>2. g = [j \in 1 .. 4 |-> g[j]]
    BY DEF g
  <2> QED
    BY <2>1, <2>2
<1>4. F(f0)
  BY <1>3
<1> HIDE DEF g, f0
<1>5. /\ f0[1] = 0
      /\ f0[2] = f0[1] + Size(m[1])
      /\ f0[3] = f0[2] + Size(m[2])
      /\ f0[4] = f0[3] + Size(m[3])
  BY <1>4
<1>6. \A k \in 1 .. 4 : Start(m, k) = f0[k]
  BY <1>1 DEF Start, f0
<1> QED
  BY <1>1, <1>2, <1>5, <1>6, LengthsAssumption DEF Total

(* A peer that sends a GET is one the theorems above are about.            *)
THEOREM GetIsOneShot ==
  ASSUME MinFirst >= 2, BuffSize >= 2, NEW c \in Clients, IsGet(Script[c])
  PROVE  OneShot(c)
<1> DEFINE m == Script[c]
           id == m[1].id
           body == HeaderLen + BodyLen
<1>1. /\ m[2].len \in Nat /\ m[2].pad \in Nat /\ Len(m) = 3
      /\ m[1].type = "BEGIN" /\ m[2].type = "PARAMS" /\ m[3].type = "STDIN"
      /\ m[2].id = id /\ m[3].id = id /\ m[3].len = 0
  <2>1. m \in Seq(Record) /\ Len(m) = 3
    BY DEF IsGet
  <2>2. m[2] \in Record
    BY <2>1, ElementOfSeq
  <2>3. m[2].len \in Nat /\ m[2].pad \in Nat
    BY <2>2 DEF Record
  <2> HIDE DEF m
  <2>4. IsGet(m)
    BY DEF m
  <2> QED
    BY <2>3, <2>4 DEF IsGet
<1>2. /\ Start(m, 1) = 0
      /\ Start(m, 2) = body
      /\ Start(m, 3) = body + HeaderLen + m[2].len + m[2].pad
      /\ Start(m, 4) = Total(m)
      /\ Total(m) = body + 2 * HeaderLen + m[2].len + m[2].pad
  <2> HIDE DEF m
  <2>1. IsGet(m)
    BY DEF m
  <2> QED
    <3>1. Len(m) + 1 = 4
      BY <1>1
    <3>2. Start(m, 4) = Total(m)
      BY <3>1 DEF Total
    <3> QED
      BY <3>2, <2>1, StartsOfGet, <1>1, LengthsAssumption
<1> HIDE DEF m
<1>3. SUFFICES ASSUME NEW to \in Shortest(c) .. Total(m)
               PROVE  parse(m, 0, to) = {IF to = Total(m) THEN "Ready" ELSE "Insufficient"}
  BY <1>1, <1>2, LengthsAssumption DEF OneShot, m
<1>4. to \in Int /\ to >= 2 /\ to <= Total(m)
  BY <1>1, <1>2, <1>3, LengthsAssumption, DaemonAssumption DEF Shortest, Min2, m
<1>5. ASSUME NEW k \in 1 .. 4
      PROVE  /\ Start(m, k) = 0 <=> k = 1
             /\ Start(m, k) = body <=> k = 2
  BY <1>1, <1>2, LengthsAssumption
<1>6. parse(m, 0, to) =
        IF to - body < HeaderLen THEN {"Insufficient"} ELSE {Loop(m, id, 2, to)}
  <2> DEFINE at(p) == {k \in 1 .. Len(m) + 1 : Start(m, k) = p}
             heads == at(0) \ {Len(m) + 1}
             head == m[CHOOSE k \in heads : TRUE]
             next == 0 + HeaderLen + (IF head.type = "BEGIN" THEN BodyLen ELSE 0)
  <2>1. at(0) = {1} /\ at(body) = {2}
    BY <1>1, <1>5
  <2>2. heads = {1}
    BY <2>1, <1>1
  <2>3. head = m[1]
    BY <2>2
  <2>4. next = body
    BY <2>3, <1>1, LengthsAssumption
  <2>5. (CHOOSE k \in {2} : TRUE) = 2
    OBVIOUS
  <2>6. ~ (to - 0 < 2)
    BY <1>4
  <2>7. parse(m, 0, to) =
          IF heads = {} THEN {"Error"}
          ELSE IF to - 0 < 2 THEN {"Insufficient", "Error"}
          ELSE IF head.type \notin {"BEGIN", "GET_VALUES"} THEN {"Error"}
          ELSE IF to - next < HeaderLen THEN {"Insufficient"}
          ELSE IF at(next) = {} THEN {"Error"}
          ELSE {Loop(m, head.id, CHOOSE k \in at(next) : TRUE, to)}
    BY DEF parse
  <2> HIDE DEF at, heads, head, next, body
  <2> QED
    BY <1>1, <2>1, <2>2, <2>3, <2>4, <2>5, <2>6, <2>7
<1>7. ASSUME to - body >= HeaderLen
      PROVE  Loop(m, id, 2, to) = IF to = Total(m) THEN "Ready" ELSE "Insufficient"
  <2> DEFINE S(k) == /\ Stops(m, id, to, k)
                     /\ \A j \in 2 .. k - 1 : ~ Stops(m, id, to, j)
             last == CHOOSE k \in 2 .. Len(m) + 1 : S(k)
  <2>1. CASE to - body - HeaderLen < m[2].len
    <3>1. Stops(m, id, to, 2)
      BY <2>1, <1>2 DEF Stops
    <3>2. \A k \in 2 .. Len(m) + 1 : S(k) <=> k = 2
      BY <3>1, <1>1
    <3>3. last = 2
      BY <3>2, <1>1
    <3>4. to # Total(m)
      BY <2>1, <1>1, <1>2, <1>4, LengthsAssumption
    <3> HIDE DEF last
    <3>5. /\ ~ (to - Start(m, 2) < HeaderLen)
          /\ to - Start(m, 2) - HeaderLen < m[2].len
      BY <2>1, <1>1, <1>2, <1>4, <1>7, LengthsAssumption
    <3>6. Loop(m, id, 2, to) = "Insufficient"
      BY <3>3, <3>5, <1>1 DEF Loop, last
    <3> QED
      BY <3>4, <3>6
  <2>2. CASE to - body - HeaderLen >= m[2].len
    <3>1. ~ Stops(m, id, to, 2)
      BY <2>2, <1>1, <1>2, <1>4, <1>7, LengthsAssumption DEF Stops
    <3>2. Stops(m, id, to, 3)
      BY <1>1 DEF Stops
    <3>3. \A k \in 2 .. Len(m) + 1 : S(k) <=> k = 3
      BY <3>1, <3>2, <1>1
    <3>4. last = 3
      BY <3>3, <1>1
    <3>5. ~ cin_obtained(m, 2, 3)
      BY <1>1 DEF cin_obtained
    <3>6. to - Start(m, 3) < HeaderLen <=> to # Total(m)
      BY <1>1, <1>2, <1>4, LengthsAssumption
    <3>7. ~ (to - Start(m, 3) < HeaderLen) => ~ (to - Start(m, 3) - HeaderLen < m[3].len)
      BY <1>1, <1>2, <1>4, LengthsAssumption
    <3> HIDE DEF last
    <3> QED
      BY <3>4, <3>5, <3>6, <3>7, <1>1 DEF Loop, last
  <2> QED
    BY <2>1, <2>2, <1>1, <1>4, LengthsAssumption
<1>8. to - body < HeaderLen => to # Total(m)
  BY <1>1, <1>2, <1>4, LengthsAssumption
<1> QED
  BY <1>4, <1>6, <1>7, <1>8, LengthsAssumption
=============================================================================
