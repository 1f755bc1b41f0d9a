-------------------------- MODULE ServerLifeProofs ---------------------------
(***************************************************************************)
(* The server and the set-up functions keep one another's accounts, for    *)
(* any descriptors and any accept queue, whatever the owner and the rest   *)
(* of the process call, and whichever system call fails.  The invariants   *)
(* of ServerLife and SocketSetup are proved together: what a set-up        *)
(* function has done so far decides what it returns, and what it returned  *)
(* decides what may be closed.                                             *)
(***************************************************************************)
EXTENDS ServerLife, FiniteSetTheorems, TLAPS

(* The calls the running function has behind it.                           *)
Past(call) == \E i \in DOMAIN Calls[func] : i < pc /\ Calls[func][i] = call

(* What they leave on its descriptor if all succeeded.                     *)
Done ==
  (IF Past("fcntl") THEN {"O_NONBLOCK"} ELSE {}) \cup
  (IF Past("setsockopt") THEN {"SO_REUSEADDR"} ELSE {}) \cup
  (IF Past("bind") THEN {"bound"} ELSE {}) \cup
  (IF Past("listen") THEN {"listening"} ELSE {})

SetupTypes ==
  /\ func \in Functions \cup {NONE}
  /\ func = NONE => pc = 0 /\ fd = NONE /\ ~ addr /\ ~ crashed
  /\ func # NONE => pc \in 1 .. Len(Calls[func]) + 1
  /\ crashed => func # NONE /\ pc <= Len(Calls[func])
  /\ fd \in FDs \cup {NONE}
  /\ addr \in BOOLEAN /\ error_happened \in BOOLEAN /\ crashed \in BOOLEAN

(* What the locals of the running function say of the calls behind it.     *)
Working ==
  func # NONE =>
    /\ ~ Past("socket") => fd = NONE
    /\ Past("socket") /\ ~ error_happened => fd # NONE
    /\ Past("close") /\ error_happened => fd = NONE
    /\ fd # NONE /\ ~ error_happened /\ ~ crashed => open[fd] = Done
    /\ addr => Past("getaddrinfo")
    /\ Past("getaddrinfo") /\ func = "resolving" => addr \/ error_happened
    /\ Past("freeaddrinfo") /\ addr => func = "resolving" /\ ~ error_happened

(* Every open descriptor is a caller's, a connection or the one that is    *)
(* being set up, and no two of these; the same for address lists.          *)
Accounts ==
  /\ DOMAIN open = DOMAIN held \cup told \cup ({fd} \ {NONE})
  /\ DOMAIN open \subseteq FDs
  /\ DOMAIN held \cap told = {}
  /\ fd \notin DOMAIN held \cup told
  /\ \A c \in DOMAIN held : held[c] \in Functions
  /\ IsFiniteSet(DOMAIN held)
  /\ heldAddrs = Cardinality({c \in DOMAIN held : held[c] = "resolving"})
  /\ addrinfos = heldAddrs + (IF addr THEN 1 ELSE 0)

(* The readers are those of the listening socket and of connections, the   *)
(* kernel has a state for each connection, and while the server's set-up   *)
(* function runs the server has nothing.                                   *)
ServerShape ==
  /\ m_fd_main \in FDs \cup {NONE}
  /\ m_running \in BOOLEAN
  /\ waiting \in Nat
  /\ m_handlers = [c \in told \cup ({m_fd_main} \ {NONE}) |->
                     Reader(IF c = m_fd_main THEN "accept" ELSE "client", c)]
  /\ DOMAIN sockets = told
  /\ func = "server" => ~ m_running

IInv ==
  /\ SetupTypes /\ Working /\ Accounts
  /\ ServerShape
  /\ TablesAgree /\ EventsAreCurrent /\ RunsWhileOpen
  /\ HeldIsReady

LEMMA InitIInv == Init => IInv
<1> SUFFICES ASSUME Init PROVE IInv
  OBVIOUS
<1> USE SetupAssumption DEF Init, SetupInit, None
<1>1. SetupTypes /\ Working
  BY DEF SetupTypes, Working
<1>2. Accounts
  <2>1. {c \in DOMAIN held : held[c] = "resolving"} = {} /\ DOMAIN held = {}
    OBVIOUS
  <2> QED
    BY <2>1, FS_EmptySet DEF Accounts
<1>3. ServerShape
  BY DEF ServerShape
<1>4. TablesAgree /\ EventsAreCurrent /\ RunsWhileOpen /\ HeldIsReady
  BY DEF TablesAgree, EventsAreCurrent, RunsWhileOpen, HeldIsReady
<1> QED
  BY <1>1, <1>2, <1>3, <1>4 DEF IInv

-----------------------------------------------------------------------------
(* The set-up functions.                                                   *)

(* A call is behind the function once it is made, and nothing else.        *)
LEMMA PastAfter ==
  ASSUME SetupTypes, NEW call, At(call), func' = func, NEW other
  PROVE  Past(other)' <=> Past(other) \/ other = call
BY DEF SetupTypes, At, Past

(* The order of the calls.                                                 *)
LEMMA CallsAre ==
  /\ Functions = {"server", "client", "resolving", "local"}
  /\ DOMAIN Calls["server"] = 1 .. 8 /\ Len(Calls["server"]) = 8
  /\ Calls["server"][1] = "getaddrinfo" /\ Calls["server"][2] = "socket"
  /\ Calls["server"][3] = "fcntl" /\ Calls["server"][4] = "setsockopt"
  /\ Calls["server"][5] = "bind" /\ Calls["server"][6] = "listen"
  /\ Calls["server"][7] = "freeaddrinfo" /\ Calls["server"][8] = "close"
  /\ DOMAIN Calls["resolving"] = 1 .. 5 /\ Len(Calls["resolving"]) = 5
  /\ Calls["resolving"][1] = "getaddrinfo" /\ Calls["resolving"][2] = "socket"
  /\ Calls["resolving"][3] = "fcntl" /\ Calls["resolving"][4] = "freeaddrinfo"
  /\ Calls["resolving"][5] = "close"
  /\ \A f \in {"client", "local"} :
       /\ DOMAIN Calls[f] = 1 .. 3 /\ Len(Calls[f]) = 3
       /\ Calls[f][1] = "socket" /\ Calls[f][2] = "fcntl" /\ Calls[f][3] = "close"
BY DEF Functions, Calls

LEMMA Order ==
  ASSUME SetupTypes, NEW call, At(call)
  PROVE  /\ func \in Functions
         /\ ~ Past(call)
         /\ call # "getaddrinfo" /\ func \in {"server", "resolving"} => Past("getaddrinfo")
         /\ call \notin {"getaddrinfo", "socket"} => Past("socket")
         /\ call = "getaddrinfo" => ~ Past("socket")
         /\ call \in {"getaddrinfo", "socket"} => Done = {}
         /\ call \notin {"freeaddrinfo", "close"} => ~ Past("freeaddrinfo")
         /\ call # "close" => ~ Past("close") /\ pc < Len(Calls[func])
         /\ call \in {"setsockopt", "bind", "listen"} => func = "server"
         /\ call \in {"getaddrinfo", "freeaddrinfo"} => func \in {"server", "resolving"}
<1>1. /\ func \in Functions /\ pc \in 1 .. Len(Calls[func])
      /\ Calls[func][pc] = call
  BY DEF SetupTypes, At
<1>2. CASE func = "server"
  BY <1>1, <1>2, CallsAre DEF Past, Done
<1>3. CASE func = "resolving"
  BY <1>1, <1>3, CallsAre DEF Past, Done
<1>4. CASE func \in {"client", "local"}
  <2>1. /\ DOMAIN Calls[func] = 1 .. 3 /\ Len(Calls[func]) = 3
        /\ Calls[func][1] = "socket" /\ Calls[func][2] = "fcntl"
        /\ Calls[func][3] = "close"
    BY <1>4, CallsAre
  <2> QED
    BY <1>1, <1>4, <2>1 DEF Past, Done
<1> QED
  BY <1>1, <1>2, <1>3, <1>4, CallsAre

(* A call of a set-up function touches neither the server nor what callers *)
(* hold: IInv is kept if the function's own accounts are.                  *)
LEMMA CallStep ==
  ASSUME IInv, NEW call, At(call),
         UNCHANGED <<func, callers, serverVars, sockets, waiting, ioVars>>,
         SetupTypes', Working',
         DOMAIN open' = DOMAIN held \cup told \cup ({fd'} \ {NONE}),
         fd' \notin DOMAIN held \cup told,
         addrinfos' = heldAddrs + (IF addr' THEN 1 ELSE 0),
         \A c \in DOMAIN held : open'[c] = open[c]
  PROVE  IInv'
<1> USE DEF callers, serverVars, ioVars
<1>1. Accounts'
  BY DEF IInv, Accounts, SetupTypes
<1>2. ServerShape'
  BY DEF IInv, ServerShape
<1>3. TablesAgree'
  BY DEF IInv, TablesAgree
<1>4. EventsAreCurrent' /\ RunsWhileOpen'
  BY DEF IInv, EventsAreCurrent, RunsWhileOpen, HasEvent
<1>5. HeldIsReady'
  BY <1>1 DEF IInv, HeldIsReady, Accounts
<1> QED
  BY <1>1, <1>2, <1>3, <1>4, <1>5 DEF IInv

LEMMA TypesKept ==
  ASSUME SetupTypes, NEW call, At(call), func' = func, crashed' = crashed,
         fd' \in FDs \cup {NONE}, addr' \in BOOLEAN, error_happened' \in BOOLEAN
  PROVE  SetupTypes'
BY SMTT(30), CallsAre DEF SetupTypes, At

(* fcntl, setsockopt, bind and listen: they succeed, fail, or are skipped  *)
(* after an error.                                                         *)
LEMMA TryStep ==
  ASSUME IInv, NEW call \in {"fcntl", "setsockopt", "bind", "listen"}, At(call),
         NEW mark, Done' = Done \cup {mark},
         NEW skipped \in BOOLEAN, skipped => error_happened,
         fd = NONE => skipped, Try({mark}, skipped),
         UNCHANGED <<func, fd, addr, addrinfos, callers, crashed>>,
         UNCHANGED <<serverVars, sockets, waiting, ioVars>>
  PROVE  IInv'
<1>1. /\ \/ ~ skipped /\ open' = [open EXCEPT ![fd] = @ \cup {mark}]
         \/ open' = open /\ error_happened'
      /\ error_happened => error_happened'
      /\ error_happened' \in BOOLEAN
  BY DEF Try, IInv, SetupTypes
<1>2. DOMAIN open' = DOMAIN open /\ \A c \in DOMAIN open \ {fd} : open'[c] = open[c]
  BY <1>1
<1>3. /\ Past("socket") /\ ~ Past("freeaddrinfo") /\ ~ Past("close")
      /\ func \in {"server", "resolving"} => Past("getaddrinfo")
      /\ func \in Functions
  BY Order DEF IInv
<1>4. \A other \in {"getaddrinfo", "socket", "freeaddrinfo", "close"} :
        Past(other)' <=> Past(other)
  BY PastAfter DEF IInv
<1>5. SetupTypes'
  BY <1>1, TypesKept DEF IInv, SetupTypes
<1>6. fd # NONE => fd \in DOMAIN open
  BY DEF IInv, Accounts
<1>7. ~ crashed
  BY DEF At
<1>8. fd # NONE /\ ~ error_happened' => open'[fd] = Done'
  BY <1>1, <1>3, <1>6, <1>7, SetupAssumption DEF IInv, Working, SetupTypes
<1>9. Working'
  BY <1>1, <1>3, <1>4, <1>8, CallsAre DEF IInv, Working, SetupTypes
<1> QED
  BY <1>2, <1>5, <1>9, CallStep DEF IInv, Accounts

LEMMA DoneAfter ==
  ASSUME SetupTypes, NEW call, At(call), func' = func
  PROVE  Done' = Done \cup (CASE call = "fcntl" -> {"O_NONBLOCK"}
                              [] call = "setsockopt" -> {"SO_REUSEADDR"}
                              [] call = "bind" -> {"bound"}
                              [] call = "listen" -> {"listening"}
                              [] OTHER -> {})
BY PastAfter DEF Done

LEMMA GetaddrinfoStep ==
  ASSUME IInv, getaddrinfo, UNCHANGED <<serverVars, sockets, waiting, ioVars>>
  PROVE  IInv'
<1> USE DEF getaddrinfo
<1>1. /\ At("getaddrinfo") /\ func' = func /\ fd' = fd
      /\ UNCHANGED <<open, callers, crashed>> /\ SetupTypes
  BY DEF IInv
<1>2. /\ func \in {"server", "resolving"} /\ func # NONE
      /\ ~ Past("getaddrinfo") /\ ~ Past("freeaddrinfo") /\ ~ Past("close")
      /\ ~ Past("socket")
  BY <1>1, Order, SetupAssumption
<1>3. \A other : Past(other)' <=> Past(other) \/ other = "getaddrinfo"
  BY <1>1, PastAfter
<1>4. ~ addr /\ fd = NONE
  BY <1>2 DEF IInv, Working
<1>5. SetupTypes'
  BY <1>1, TypesKept DEF SetupTypes
<1>6. Working'
  BY <1>1, <1>2, <1>3, <1>4 DEF Working
<1>7. addrinfos' = heldAddrs + (IF addr' THEN 1 ELSE 0)
  <2>1. heldAddrs \in Nat /\ addrinfos = heldAddrs
    BY <1>4, FS_CardinalityType, FS_Subset DEF IInv, Accounts
  <2> QED
    BY <1>1, <1>4, <2>1
<1> QED
  BY <1>1, <1>5, <1>6, <1>7, CallStep DEF IInv, Accounts

LEMMA SocketStep ==
  ASSUME IInv, socket, UNCHANGED <<serverVars, sockets, waiting, ioVars>>
  PROVE  IInv'
<1> USE DEF socket
<1>1. /\ At("socket") /\ func' = func /\ addr' = addr /\ addrinfos' = addrinfos
      /\ UNCHANGED <<callers, crashed>> /\ SetupTypes
  BY DEF IInv
<1>2. /\ func \in Functions /\ func # NONE
      /\ ~ Past("socket") /\ ~ Past("freeaddrinfo") /\ ~ Past("close")
      /\ Done = {}
  BY <1>1, Order, SetupAssumption
<1>3. /\ \A other : Past(other)' <=> Past(other) \/ other = "socket"
      /\ Done' = {}
  BY <1>1, <1>2, PastAfter, DoneAfter
<1>4. fd = NONE
  BY <1>2 DEF IInv, Working
<1>5. CASE error_happened' = TRUE /\ UNCHANGED <<fd, open>>
  <2>1. SetupTypes'
    BY <1>1, <1>5, TypesKept DEF SetupTypes
  <2>2. Working'
    BY <1>1, <1>2, <1>3, <1>4, <1>5 DEF IInv, Working
  <2> QED
    BY <1>1, <1>5, <2>1, <2>2, CallStep DEF IInv, Accounts
<1>6. ASSUME NEW f \in FDs \ DOMAIN open, fd' = f,
             open' = [g \in DOMAIN open \cup {f} |-> IF g = f THEN {} ELSE open[g]],
             UNCHANGED error_happened
      PROVE  IInv'
  <2>1. SetupTypes'
    BY <1>1, <1>6, TypesKept DEF SetupTypes
  <2>2. Working'
    BY <1>1, <1>2, <1>3, <1>6, SetupAssumption DEF IInv, Working
  <2>3. DOMAIN open' = DOMAIN held \cup told \cup ({fd'} \ {NONE})
    BY <1>4, <1>6, SetupAssumption DEF IInv, Accounts
  <2> QED
    BY <1>1, <1>6, <2>1, <2>2, <2>3, CallStep DEF IInv, Accounts
<1> QED
  BY <1>5, <1>6

LEMMA FreeaddrinfoStep ==
  ASSUME IInv, freeaddrinfo, UNCHANGED <<serverVars, sockets, waiting, ioVars>>
  PROVE  IInv'
<1> USE DEF freeaddrinfo, Frees
<1>1. /\ At("freeaddrinfo") /\ func' = func /\ SetupTypes
      /\ UNCHANGED <<fd, error_happened, open, callers, crashed>>
  BY DEF IInv
<1>2. /\ func \in {"server", "resolving"} /\ func # NONE
      /\ Past("socket") /\ Past("getaddrinfo") /\ ~ Past("close")
  BY <1>1, Order, SetupAssumption
<1>3. /\ \A other : Past(other)' <=> Past(other) \/ other = "freeaddrinfo"
      /\ Done' = Done
  BY <1>1, PastAfter, DoneAfter
<1>4. SetupTypes'
  BY <1>1, TypesKept DEF SetupTypes
<1>5. Working'
  BY <1>1, <1>2, <1>3 DEF IInv, Working
<1>6. addrinfos' = heldAddrs + (IF addr' THEN 1 ELSE 0)
  <2>1. heldAddrs \in Nat
    BY FS_CardinalityType, FS_Subset DEF IInv, Accounts
  <2> QED
    BY <2>1 DEF IInv, Accounts
<1> QED
  BY <1>1, <1>4, <1>5, <1>6, CallStep DEF IInv, Accounts

LEMMA CloseStep ==
  ASSUME IInv, close_after_error, UNCHANGED <<serverVars, sockets, waiting, ioVars>>
  PROVE  IInv'
<1> USE DEF close_after_error
<1>1. /\ At("close") /\ func' = func /\ SetupTypes
      /\ UNCHANGED <<addr, error_happened, addrinfos, callers, crashed>>
  BY DEF IInv
<1>2. /\ func \in Functions /\ func # NONE /\ Past("socket")
  BY <1>1, Order, SetupAssumption
<1>3. /\ \A other : Past(other)' <=> Past(other) \/ other = "close"
      /\ Done' = Done
  <2>1. \A other : Past(other)' <=> Past(other) \/ other = "close"
    BY <1>1, PastAfter
  <2> QED
    BY <2>1 DEF Done
<1>4. SetupTypes'
  BY <1>1, TypesKept DEF SetupTypes
<1>5. Working'
  BY <1>1, <1>2, <1>3 DEF IInv, Working
<1>6. /\ DOMAIN open' = DOMAIN held \cup told \cup ({fd'} \ {NONE})
      /\ fd' \notin DOMAIN held \cup told
      /\ \A c \in DOMAIN held : open'[c] = open[c]
  BY SetupAssumption DEF IInv, Accounts
<1> QED
  BY <1>1, <1>4, <1>5, <1>6, CallStep DEF IInv, Accounts

LEMMA SetupStepStep ==
  ASSUME IInv, SetupStep, UNCHANGED <<serverVars, sockets, waiting, ioVars>>
  PROVE  IInv'
<1>1. SetupTypes /\ Working
  BY DEF IInv
<1>2. CASE fcntl
  <2>1. At("fcntl") /\ Done' = Done \cup {"O_NONBLOCK"}
    BY <1>1, <1>2, DoneAfter DEF fcntl
  <2>2. fd = NONE => error_happened
    BY <1>1, <2>1, Order, SetupAssumption DEF Working
  <2> QED
    BY <1>2, <2>1, <2>2, TryStep DEF fcntl
<1>3. ASSUME NEW call \in {"setsockopt", "bind", "listen"}, At(call)
      PROVE  fd = NONE => error_happened
  BY <1>1, <1>3, Order, SetupAssumption DEF Working
<1>4. CASE setsockopt
  <2>1. At("setsockopt") /\ Done' = Done \cup {"SO_REUSEADDR"}
    BY <1>1, <1>4, DoneAfter DEF setsockopt
  <2> QED
    BY <1>1, <1>3, <1>4, <2>1, TryStep DEF setsockopt, SetupTypes
<1>5. CASE listen
  <2>1. At("listen") /\ Done' = Done \cup {"listening"}
    BY <1>1, <1>5, DoneAfter DEF listen
  <2> QED
    BY <1>1, <1>3, <1>5, <2>1, TryStep DEF listen, SetupTypes
<1>6. CASE bind
  <2>1. At("bind") /\ Done' = Done \cup {"bound"}
    BY <1>1, <1>6, DoneAfter DEF bind
  <2>2. CASE Try({"bound"}, error_happened) /\ UNCHANGED crashed
    BY <1>1, <1>3, <1>6, <2>1, <2>2, TryStep DEF bind, SetupTypes
  <2>3. CASE crashed' = TRUE /\ UNCHANGED <<open, error_happened>>
    <3>1. /\ func \in Functions /\ func # NONE /\ pc < Len(Calls[func])
          /\ Past("socket") /\ ~ Past("freeaddrinfo") /\ ~ Past("close")
      BY <1>1, <2>1, Order, SetupAssumption
    <3>2. UNCHANGED <<func, fd, addr, addrinfos, callers>> /\ pc' = pc + 1
      BY <1>6 DEF bind, At
    <3>3. SetupTypes'
      BY <1>1, <2>3, <3>1, <3>2, CallsAre DEF SetupTypes
    <3>4. \A other : Past(other)' <=> Past(other) \/ other = "bind"
      BY <1>1, <2>1, <3>2, PastAfter
    <3>5. Working'
      BY <1>1, <2>3, <3>1, <3>2, <3>4 DEF Working
    <3> QED
      BY <2>1, <2>3, <3>2, <3>3, <3>5, CallStep DEF IInv, Accounts
  <2> QED
    BY <1>6, <2>2, <2>3 DEF bind
<1> QED
  BY <1>2, <1>4, <1>5, <1>6, GetaddrinfoStep, SocketStep, FreeaddrinfoStep,
     CloseStep DEF SetupStep

(* A function is entered while no other runs.                              *)
LEMMA EnterStep ==
  ASSUME IInv, NEW f \in Functions, Enter(f), f = "server" => ~ m_running,
         UNCHANGED <<serverVars, sockets, waiting, ioVars>>
  PROVE  IInv'
<1> USE DEF Enter, kernel, callers, serverVars, ioVars
<1>1. func = NONE /\ fd = NONE /\ ~ addr
  BY CallsAre DEF IInv, SetupTypes
<1>2. func' = f /\ f # NONE /\ pc' = 1 /\ Len(Calls[f]) \in Nat
  BY SetupAssumption, CallsAre
<1>3. SetupTypes'
  <2>1. pc' \in 1 .. Len(Calls[func']) + 1
    BY <1>2
  <2>2. crashed' = FALSE /\ fd' = NONE /\ addr' = FALSE /\ error_happened' = FALSE
    BY DEF IInv, SetupTypes
  <2> QED
    BY <1>2, <2>1, <2>2 DEF SetupTypes
<1>4. \A call : ~ Past(call)'
  BY <1>2, CallsAre DEF Past
<1>5. Working'
  BY <1>4 DEF Working
<1>6. Accounts' /\ HeldIsReady'
  BY <1>1 DEF IInv, Accounts, HeldIsReady
<1>7. ServerShape' /\ TablesAgree'
  BY <1>2 DEF IInv, ServerShape, TablesAgree
<1>8. EventsAreCurrent' /\ RunsWhileOpen'
  BY DEF IInv, EventsAreCurrent, RunsWhileOpen, HasEvent
<1> QED
  BY <1>3, <1>5, <1>6, <1>7, <1>8 DEF IInv

(* What a function returns: nothing, or a descriptor on which all its      *)
(* calls succeeded, with an address list if it is a resolving client's.    *)
LEMMA Returned ==
  ASSUME IInv, Return
  PROVE  /\ func \in Functions /\ ~ crashed
         /\ addr <=> func = "resolving" /\ fd # NONE
         /\ fd # NONE => open[fd] =
              IF func = "server"
              THEN {"O_NONBLOCK", "SO_REUSEADDR", "bound", "listening"}
              ELSE {"O_NONBLOCK"}
<1>1. /\ func \in Functions /\ func # NONE /\ pc = Len(Calls[func]) + 1
      /\ ~ crashed /\ Working
  BY CallsAre DEF Return, IInv, SetupTypes
<1>2. /\ Past("socket") /\ Past("fcntl") /\ Past("close")
      /\ Past("getaddrinfo") <=> func \in {"server", "resolving"}
      /\ Past("freeaddrinfo") <=> func \in {"server", "resolving"}
      /\ Past("setsockopt") <=> func = "server"
      /\ Past("bind") <=> func = "server"
      /\ Past("listen") <=> func = "server"
  <2>1. CASE func = "server"
    BY <1>1, <2>1, CallsAre DEF Past
  <2>2. CASE func = "resolving"
    BY <1>1, <2>2, CallsAre DEF Past
  <2>3. CASE func \in {"client", "local"}
    <3>1. /\ DOMAIN Calls[func] = 1 .. 3 /\ Len(Calls[func]) = 3
          /\ Calls[func][1] = "socket" /\ Calls[func][2] = "fcntl"
          /\ Calls[func][3] = "close"
      BY <2>3, CallsAre
    <3> QED
      BY <1>1, <2>3, <3>1 DEF Past
  <2> QED
    BY <1>1, <2>1, <2>2, <2>3, CallsAre
<1>3. fd # NONE => ~ error_happened
  BY <1>1, <1>2 DEF Working
<1>4. fd = NONE => error_happened
  BY <1>1, <1>2 DEF Working
<1>5. addr <=> func = "resolving" /\ fd # NONE
  BY <1>1, <1>2, <1>3, <1>4 DEF Working
<1>6. fd # NONE => open[fd] = Done
  BY <1>1, <1>3 DEF Working
<1> QED
  BY <1>1, <1>2, <1>5, <1>6 DEF Done

(* The caller's accounts after a return.                                   *)
LEMMA ReturnStep ==
  ASSUME IInv, Return, UNCHANGED told
  PROVE  /\ SetupTypes' /\ Working' /\ Accounts' /\ HeldIsReady'
         /\ func' = NONE /\ DOMAIN open' = DOMAIN open
         /\ {c \in DOMAIN held' : held'[c] = "server"} =
              {c \in DOMAIN held : held[c] = "server"} \cup
              (IF func = "server" THEN {fd} \ {NONE} ELSE {})
<1> DEFINE new == {fd} \ {NONE}
           resolving == {c \in DOMAIN held : held[c] = "resolving"}
<1>1. /\ func' = NONE /\ pc' = 0 /\ fd' = NONE /\ ~ addr' /\ addr' \in BOOLEAN
      /\ error_happened' = FALSE /\ UNCHANGED <<open, addrinfos, crashed>>
      /\ heldAddrs' = IF addr THEN heldAddrs + 1 ELSE heldAddrs
      /\ held' = [c \in DOMAIN held \cup new |-> IF c = fd THEN func ELSE held[c]]
      /\ new = IF fd = NONE THEN {} ELSE {fd}
  BY DEF Return, kernel
<1> HIDE DEF new
<1>2. fd \notin DOMAIN held /\ func \in Functions /\ ~ crashed
  BY Returned DEF IInv, Accounts
<1>3. SetupTypes' /\ Working'
  BY <1>1, <1>2 DEF IInv, SetupTypes, Working
<1>4. HeldIsReady'
  BY <1>1, <1>2, Returned DEF IInv, HeldIsReady, Accounts
<1>5. /\ IsFiniteSet(resolving) /\ heldAddrs = Cardinality(resolving)
      /\ heldAddrs \in Nat /\ IsFiniteSet(DOMAIN held)
  BY FS_Subset, FS_CardinalityType DEF IInv, Accounts
<1>6. {c \in DOMAIN held' : held'[c] = "resolving"} =
        IF addr THEN resolving \cup {fd} ELSE resolving
  BY <1>1, <1>2, Returned
<1>7. addr => fd \notin resolving
  BY <1>2
<1> HIDE DEF resolving
<1>8. heldAddrs' = Cardinality({c \in DOMAIN held' : held'[c] = "resolving"})
  BY <1>1, <1>5, <1>6, <1>7, FS_AddElement
<1>9. IsFiniteSet(DOMAIN held')
  BY <1>1, <1>5, FS_AddElement
<1>10. addrinfos' = heldAddrs'
  BY <1>1, <1>5 DEF IInv, Accounts, SetupTypes
<1>11. Accounts'
  BY <1>1, <1>2, <1>5, <1>8, <1>9, <1>10, SetupAssumption DEF IInv, Accounts
<1>12. {c \in DOMAIN held' : held'[c] = "server"} =
         {c \in DOMAIN held : held[c] = "server"} \cup
         (IF func = "server" THEN {fd} \ {NONE} ELSE {})
  BY <1>1, <1>2
<1> QED
  BY <1>1, <1>3, <1>4, <1>11, <1>12

(* startup_inet ends: the server has a listening socket with its reader,   *)
(* or nothing.                                                             *)
LEMMA StartedStep ==
  ASSUME IInv, Started
  PROVE  IInv'
<1> USE DEF serverVars, ioVars
<1>1. /\ func = "server" /\ Return /\ m_fd_main' = fd
      /\ UNCHANGED <<told, sockets, waiting>>
  BY DEF Started
<1>2. /\ told = {} /\ m_fd_main = NONE /\ watchers = {} /\ pending = {}
      /\ DOMAIN m_handlers = {} /\ DOMAIN sockets = {}
      /\ {c \in DOMAIN held : held[c] = "server"} = {}
      /\ fd \in FDs \cup {NONE}
      /\ fd # NONE => fd \in DOMAIN open
  <2>1. m_handlers = None /\ DOMAIN None = {}
    BY <1>1 DEF IInv, ServerShape, RunsWhileOpen, None
  <2>2. told = {} /\ m_fd_main = NONE
    BY <2>1 DEF IInv, TablesAgree
  <2> QED
    BY <2>1, <2>2 DEF IInv, TablesAgree, EventsAreCurrent, ServerShape, SetupTypes,
         Accounts
<1>3. /\ SetupTypes' /\ Working' /\ Accounts' /\ HeldIsReady'
      /\ func' = NONE /\ DOMAIN open' = DOMAIN open
      /\ {c \in DOMAIN held' : held'[c] = "server"} = {fd} \ {NONE}
  BY <1>1, <1>2, ReturnStep
<1>4. CASE /\ fd # NONE
           /\ m_handlers' = With(m_handlers, fd, Reader("accept", fd))
           /\ Outside({Reader("accept", fd)}, {})
           /\ m_running' = TRUE
  <2>1. /\ m_handlers' = [c \in {fd} |-> Reader("accept", c)]
        /\ watchers' = {Reader("accept", fd)} /\ pending' = {}
    BY <1>2, <1>4 DEF With, Outside
  <2>2. /\ m_fd_main' = fd /\ told' = {} /\ m_running' = TRUE /\ waiting' = waiting
        /\ DOMAIN sockets' = {} /\ fd \in FDs
    BY <1>1, <1>2, <1>4
  <2>3. {fd} \ {NONE} = {fd} /\ func' # "server"
    BY <1>3, <1>4, SetupAssumption, CallsAre
  <2>4. ServerShape'
    BY <2>1, <2>2, <2>3 DEF IInv, ServerShape
  <2>5. TablesAgree'
    BY <1>2, <1>3, <1>4, <2>1, <2>2, <2>3 DEF TablesAgree
  <2>6. EventsAreCurrent' /\ RunsWhileOpen'
    BY <2>1, <2>2 DEF EventsAreCurrent, RunsWhileOpen
  <2> QED
    BY <1>3, <2>4, <2>5, <2>6 DEF IInv
<1>5. CASE fd = NONE /\ UNCHANGED <<m_handlers, m_running, ioVars>>
  <2>1. ServerShape'
    BY <1>1, <1>2, <1>3, <1>5, SetupAssumption DEF IInv, ServerShape
  <2>2. TablesAgree' /\ EventsAreCurrent' /\ RunsWhileOpen'
    BY <1>1, <1>2, <1>3, <1>5
    DEF IInv, TablesAgree, EventsAreCurrent, RunsWhileOpen
  <2> QED
    BY <1>3, <2>1, <2>2 DEF IInv
<1> QED
  BY <1>4, <1>5 DEF Started

(* A caller that is not the server closes what it has.                     *)
LEMMA DropStep ==
  ASSUME IInv, pc = 0, NEW f \in DOMAIN held, f # m_fd_main, CallerDrops(f),
         UNCHANGED <<serverVars, sockets, waiting, ioVars>>
  PROVE  IInv'
<1> DEFINE resolving == {c \in DOMAIN held : held[c] = "resolving"}
<1> USE DEF serverVars, ioVars
<1>1. func = NONE /\ fd = NONE /\ addr = FALSE
  BY CallsAre DEF IInv, SetupTypes
<1>2. /\ open' = [g \in DOMAIN open \ {f} |-> open[g]]
      /\ held' = [g \in DOMAIN held \ {f} |-> held[g]]
      /\ UNCHANGED <<pc, func, fd, addr, error_happened, crashed>>
      /\ heldAddrs' = IF held[f] = "resolving" THEN heldAddrs - 1 ELSE heldAddrs
      /\ addrinfos' = IF held[f] = "resolving" THEN addrinfos - 1 ELSE addrinfos
  BY DEF CallerDrops, locals
<1>3. SetupTypes' /\ Working'
  BY <1>1, <1>2 DEF IInv, SetupTypes, Working
<1>4. HeldIsReady'
  BY <1>2 DEF IInv, HeldIsReady
<1>5. /\ IsFiniteSet(resolving) /\ heldAddrs = Cardinality(resolving)
      /\ heldAddrs \in Nat /\ IsFiniteSet(DOMAIN held)
  BY FS_Subset, FS_CardinalityType DEF IInv, Accounts
<1>6. {c \in DOMAIN held' : held'[c] = "resolving"} = resolving \ {f}
  BY <1>2
<1>7. held[f] = "resolving" <=> f \in resolving
  OBVIOUS
<1>8. f \notin resolving => resolving \ {f} = resolving
  OBVIOUS
<1> HIDE DEF resolving
<1>9. heldAddrs' = Cardinality({c \in DOMAIN held' : held'[c] = "resolving"})
  BY <1>2, <1>5, <1>6, <1>7, <1>8, FS_RemoveElement
<1>10. IsFiniteSet(DOMAIN held')
  BY <1>2, <1>5, FS_RemoveElement
<1>11. addrinfos' = heldAddrs'
  BY <1>1, <1>2, <1>5 DEF IInv, Accounts
<1>12. Accounts'
  BY <1>1, <1>2, <1>9, <1>10, <1>11 DEF IInv, Accounts
<1>13. ServerShape' /\ EventsAreCurrent' /\ RunsWhileOpen'
  BY <1>2 DEF IInv, ServerShape, EventsAreCurrent, RunsWhileOpen, HasEvent
<1>14. TablesAgree'
  <2>1. DOMAIN m_handlers \subseteq DOMAIN open'
    <3>1. f \notin DOMAIN m_handlers
      BY DEF IInv, TablesAgree, Accounts
    <3> QED
      BY <1>2, <3>1 DEF IInv, TablesAgree
  <2>2. {c \in DOMAIN held' : held'[c] = "server"} =
          {c \in DOMAIN held : held[c] = "server"}
    <3>1. held[f] # "server"
      BY DEF IInv, TablesAgree
    <3> QED
      BY <1>2, <3>1
  <2> QED
    BY <2>1, <2>2 DEF IInv, TablesAgree
<1> QED
  BY <1>3, <1>4, <1>12, <1>13, <1>14 DEF IInv

LEMMA ClientsStep == ASSUME IInv, Clients PROVE IInv'
<1>1. UNCHANGED <<serverVars, sockets, waiting, ioVars>>
  BY DEF Clients
<1>2. CASE \E f \in Functions \ {"server"} : Enter(f)
  BY <1>1, <1>2, EnterStep
<1>3. CASE func # "server" /\ Return
  <2>1. /\ SetupTypes' /\ Working' /\ Accounts' /\ HeldIsReady'
        /\ func' = NONE /\ DOMAIN open' = DOMAIN open
        /\ {c \in DOMAIN held' : held'[c] = "server"} =
             {c \in DOMAIN held : held[c] = "server"}
    BY <1>1, <1>3, ReturnStep DEF serverVars
  <2>2. TablesAgree' /\ EventsAreCurrent' /\ RunsWhileOpen'
    BY <1>1, <2>1 DEF serverVars, ioVars, IInv, TablesAgree, EventsAreCurrent,
       RunsWhileOpen, HasEvent
  <2>3. ServerShape'
    BY <1>1, <2>1, SetupAssumption, CallsAre DEF serverVars, IInv, ServerShape
  <2> QED
    BY <2>1, <2>2, <2>3 DEF IInv
<1>4. CASE Idle /\ \E f \in DOMAIN held \ {m_fd_main} : CallerDrops(f)
  BY <1>1, <1>4, DropStep DEF Idle
<1> QED
  BY <1>2, <1>3, <1>4 DEF Clients

-----------------------------------------------------------------------------
(* The server.                                                             *)

(* Between the set-up functions only what callers hold is open.            *)
LEMMA AtRest ==
  ASSUME IInv, Idle
  PROVE  /\ func = NONE /\ fd = NONE /\ addr = FALSE
         /\ DOMAIN open = DOMAIN held \cup told
         /\ NONE \notin DOMAIN open
BY CallsAre, SetupAssumption DEF Idle, IInv, SetupTypes, Accounts

(* Closing any of the server's descriptors keeps IInv, if m_running stays  *)
(* true while any is left.                                                 *)
LEMMA ClosingStep ==
  ASSUME IInv, Idle, NEW fds \in SUBSET DOMAIN m_handlers, Closing(fds),
         m_running' \in BOOLEAN,
         DOMAIN m_handlers # fds => m_running' = m_running,
         watchers' = watchers \ {m_handlers[c] : c \in fds},
         pending' \subseteq pending \ {m_handlers[c] : c \in fds}
  PROVE  IInv'
<1>1. /\ func = NONE /\ fd = NONE /\ addr = FALSE
      /\ DOMAIN open = DOMAIN held \cup told /\ NONE \notin DOMAIN open
  BY AtRest
<1>2. /\ open' = [c \in DOMAIN open \ fds |-> open[c]]
      /\ held' = [c \in DOMAIN held \ fds |-> held[c]]
      /\ sockets' = [c \in DOMAIN sockets \ fds |-> sockets[c]]
      /\ m_handlers' = [c \in DOMAIN m_handlers \ fds |-> m_handlers[c]]
      /\ m_fd_main' = (IF m_fd_main \in fds THEN NONE ELSE m_fd_main)
      /\ told' = told \ (fds \ {m_fd_main})
      /\ waiting' = IF m_fd_main \in fds THEN 0 ELSE waiting
      /\ UNCHANGED <<pc, func, fd, addr, error_happened, addrinfos, heldAddrs,
                     crashed>>
  BY DEF Closing, Without, Restrict, MainAfter, locals
<1>3. /\ DOMAIN m_handlers = told \cup ({m_fd_main} \ {NONE})
      /\ m_fd_main \notin told /\ told \subseteq FDs
      /\ \A c \in DOMAIN m_handlers :
           m_handlers[c] = Reader(IF c = m_fd_main THEN "accept" ELSE "client", c)
      /\ DOMAIN sockets = told
  BY DEF IInv, ServerShape, TablesAgree, Accounts
<1>4. \A c \in DOMAIN m_handlers :
         /\ m_handlers[c].fd = c
         /\ m_handlers[c].kind = IF c = m_fd_main THEN "accept" ELSE "client"
  <2> TAKE c \in DOMAIN m_handlers
  <2>1. \A kind : Reader(kind, c).fd = c /\ Reader(kind, c).kind = kind
    BY DEF Reader
  <2> QED
    BY <1>3, <2>1
<1>5. /\ DOMAIN m_handlers' = told' \cup ({m_fd_main'} \ {NONE})
      /\ told' = told \ fds /\ m_fd_main' \notin told'
  BY <1>1, <1>2, <1>3, SetupAssumption
<1>6. SetupTypes' /\ Working'
  BY <1>1, <1>2 DEF IInv, SetupTypes, Working
<1>7. HeldIsReady'
  BY <1>2 DEF IInv, HeldIsReady
<1>8. Accounts'
  <2>1. DOMAIN open' = DOMAIN held' \cup told'
    BY <1>1, <1>2, <1>5
  <2>2. {c \in DOMAIN held' : held'[c] = "resolving"} =
          {c \in DOMAIN held : held[c] = "resolving"}
    BY <1>2, <1>3 DEF IInv, TablesAgree, Accounts
  <2>3. IsFiniteSet(DOMAIN held')
    BY <1>2, FS_Subset DEF IInv, Accounts
  <2> QED
    BY <1>1, <1>2, <1>5, <2>1, <2>2, <2>3 DEF IInv, Accounts
<1>9. ServerShape'
  <2>1. m_handlers' = [c \in told' \cup ({m_fd_main'} \ {NONE}) |->
                         Reader(IF c = m_fd_main' THEN "accept" ELSE "client", c)]
    BY <1>2, <1>3, <1>5
  <2> QED
    BY <1>1, <1>2, <1>3, <1>5, <2>1, SetupAssumption, CallsAre DEF IInv, ServerShape
<1>10. TablesAgree'
  <2>1. watchers' = {m_handlers'[c] : c \in DOMAIN m_handlers'}
    <3>1. \A c, d \in DOMAIN m_handlers : m_handlers[c] = m_handlers[d] => c = d
      BY <1>4
    <3>2. watchers = {m_handlers[c] : c \in DOMAIN m_handlers}
      BY DEF IInv, TablesAgree
    <3>3. watchers' = {m_handlers[c] : c \in DOMAIN m_handlers \ fds}
      BY <3>1, <3>2
    <3> QED
      BY <1>2, <3>3
  <2>2. {c \in DOMAIN held' : held'[c] = "server"} = {m_fd_main'} \ {NONE}
    BY <1>1, <1>2 DEF IInv, TablesAgree
  <2>3. DOMAIN m_handlers' \subseteq DOMAIN open'
    BY <1>2 DEF IInv, TablesAgree
  <2> QED
    BY <1>5, <2>1, <2>2, <2>3 DEF TablesAgree
<1>11. EventsAreCurrent'
  <2>1. ASSUME NEW w \in pending'
        PROVE  \E c \in DOMAIN m_handlers \ fds : w = m_handlers[c] /\ HasEvent(w)
    BY DEF IInv, TablesAgree, EventsAreCurrent
  <2>2. ASSUME NEW w \in pending' PROVE HasEvent(w)'
    <3>1. PICK c \in DOMAIN m_handlers \ fds : w = m_handlers[c] /\ HasEvent(w)
      BY <2>1
    <3>2. w.fd = c /\ w.kind = IF c = m_fd_main THEN "accept" ELSE "client"
      BY <1>4, <3>1
    <3>3. CASE c = m_fd_main
      BY <1>2, <3>1, <3>2, <3>3 DEF HasEvent
    <3>4. CASE c # m_fd_main
      <4>1. c \in DOMAIN sockets'
        BY <1>2, <1>3, <3>1, <3>4
      <4> QED
        BY <1>2, <3>1, <3>2, <3>4, <4>1 DEF HasEvent
    <3> QED
      BY <3>3, <3>4
  <2>3. pending' \subseteq watchers'
    BY DEF IInv, EventsAreCurrent
  <2> QED
    BY <2>2, <2>3 DEF EventsAreCurrent
<1>12. RunsWhileOpen'
  <2>1. DOMAIN m_handlers = fds => m_handlers' = None
    BY <1>2 DEF None
  <2>2. DOMAIN m_handlers # fds => m_handlers # None
    BY DEF None
  <2> QED
    BY <2>1, <2>2 DEF IInv, RunsWhileOpen
<1> QED
  BY <1>6, <1>7, <1>8, <1>9, <1>10, <1>11, <1>12 DEF IInv

(* accept gives out a descriptor that nobody has.                          *)
LEMMA LowestFree ==
  ASSUME SetupTypes, Free # {}
  PROVE  Min(Free) \in Free
<1> DEFINE R == OpToRel(<, Nat)
<1>1. Free \subseteq Nat
  BY ServerAssumption DEF Free
<1>2. IsWellFoundedOn(R, Nat)
  BY NatLessThanWellFounded
<1>3. R = {p \in Nat \X Nat : p[1] < p[2]}
  BY DEF OpToRel
<1> HIDE DEF R
<1>4. PICK least \in Free : \A c \in Free : ~ (<<c, least>> \in R)
  BY <1>1, <1>2, WFMin
<1>5. \A c \in Free : ~ (c < least)
  <2> TAKE c \in Free
  <2>1. c \in Nat /\ least \in Nat /\ ~ (<<c, least>> \in R)
    BY <1>1, <1>4
  <2> QED
    BY <1>3, <2>1
<1>6. \A c \in Free : least <= c
  BY <1>1, <1>5
<1> QED
  BY <1>6 DEF Min

(* Its connection gets a reader and is told to the owner.                  *)
LEMMA AcceptStep ==
  ASSUME IInv, Idle, NEW w \in pending, m_on_receive_server(w)
  PROVE  IInv'
<1>1. /\ w.kind = "accept"
      /\ UNCHANGED <<m_running, m_fd_main, pc, func, fd, addr, error_happened,
                     addrinfos, held, heldAddrs, crashed>>
  BY DEF m_on_receive_server, locals, callers
<1>2. SetupTypes' /\ Working'
  BY <1>1, AtRest DEF IInv, SetupTypes, Working
<1>3. CASE Callback(w, {}, {}) /\ UNCHANGED <<m_handlers, told, sockets, waiting, open>>
  <2>1. watchers' = watchers /\ pending' = pending \ {w}
    BY <1>3 DEF Callback
  <2>2. Accounts' /\ ServerShape' /\ RunsWhileOpen' /\ TablesAgree' /\ HeldIsReady'
    BY <1>1, <1>3, <2>1
    DEF IInv, Accounts, ServerShape, RunsWhileOpen, TablesAgree, HeldIsReady
  <2>3. EventsAreCurrent'
    BY <1>1, <1>3, <2>1 DEF IInv, EventsAreCurrent, HasEvent
  <2> QED
    BY <1>2, <2>2, <2>3 DEF IInv
<1>4. ASSUME Free # {}, NEW new, new = Min(Free),
             told' = told \cup {new},
             m_handlers' = With(m_handlers, new, Reader("client", new)),
             sockets' = With(sockets, new, "idle"),
             NEW done, open' = With(open, new, done),
             Callback(w, {Reader("client", new)}, {}),
             waiting' = waiting - 1
      PROVE  IInv'
  <2>1. new \in FDs /\ new \notin DOMAIN open
    BY <1>4, LowestFree DEF IInv, Free
  <2>2. /\ watchers' = watchers \cup {Reader("client", new)}
        /\ pending' = pending \ {w}
        /\ m_handlers' = [c \in DOMAIN m_handlers \cup {new} |->
                            IF c = new THEN Reader("client", new) ELSE m_handlers[c]]
        /\ sockets' = [c \in DOMAIN sockets \cup {new} |->
                         IF c = new THEN "idle" ELSE sockets[c]]
        /\ open' = [c \in DOMAIN open \cup {new} |->
                      IF c = new THEN done ELSE open[c]]
    BY <1>4 DEF Callback, With
  <2>3. /\ func = NONE /\ fd = NONE /\ addr = FALSE /\ new # NONE
        /\ DOMAIN open = DOMAIN held \cup told /\ NONE \notin DOMAIN open
        /\ new \notin DOMAIN held /\ new \notin told
    BY <2>1, AtRest, SetupAssumption
  <2>4. /\ DOMAIN m_handlers = told \cup ({m_fd_main} \ {NONE})
        /\ DOMAIN sockets = told
        /\ \A c \in DOMAIN m_handlers :
             m_handlers[c] = Reader(IF c = m_fd_main THEN "accept" ELSE "client", c)
    BY DEF IInv, TablesAgree, ServerShape
  <2>5. new # m_fd_main
    <3>1. m_fd_main # NONE => m_fd_main \in DOMAIN m_handlers
      BY <2>4
    <3>2. DOMAIN m_handlers \subseteq DOMAIN open
      BY DEF IInv, TablesAgree
    <3> QED
      BY <2>1, <2>3, <3>1, <3>2
  <2>6. Accounts' /\ HeldIsReady'
    <3>1. DOMAIN open' = DOMAIN held' \cup told' /\ DOMAIN open' \subseteq FDs
      BY <1>1, <1>4, <2>1, <2>2, <2>3 DEF IInv, Accounts
    <3>2. DOMAIN held' \cap told' = {} /\ fd' = NONE /\ addr' = FALSE
      BY <1>1, <1>4, <2>3 DEF IInv, Accounts
    <3>3. NONE \notin DOMAIN held' \cup told'
      BY <3>1, SetupAssumption
    <3>4. Accounts'
      BY <1>1, <2>3, <3>1, <3>2, <3>3 DEF IInv, Accounts
    <3> QED
      BY <1>1, <2>2, <2>3, <3>4 DEF IInv, HeldIsReady
  <2>7. HasEvent(w) /\ m_handlers # None
    BY DEF IInv, EventsAreCurrent, TablesAgree, None
  <2>8. waiting > 0 /\ waiting \in Nat
    BY <1>1, <2>7 DEF HasEvent, IInv, ServerShape
  <2>9. ServerShape'
    <3>1. m_handlers' = [c \in told' \cup ({m_fd_main'} \ {NONE}) |->
                           Reader(IF c = m_fd_main' THEN "accept" ELSE "client", c)]
      BY SMTT(30), <1>1, <1>4, <2>2, <2>4, <2>5
    <3>2. DOMAIN sockets' = told'
      BY <1>4, <2>2, <2>4
    <3>3. waiting' \in Nat
      BY <1>4, <2>8
    <3> QED
      BY <1>1, <3>1, <3>2, <3>3 DEF IInv, ServerShape
  <2>10. TablesAgree'
    <3>1. /\ DOMAIN m_handlers' = told' \cup ({m_fd_main'} \ {NONE})
          /\ m_fd_main' \notin told'
          /\ DOMAIN m_handlers' \subseteq DOMAIN open'
      BY <1>1, <1>4, <2>2, <2>4, <2>5 DEF IInv, TablesAgree
    <3>2. watchers' = {m_handlers'[c] : c \in DOMAIN m_handlers'}
      <4>1. new \notin DOMAIN m_handlers
        BY <2>3, <2>4, <2>5
      <4>2. watchers = {m_handlers[c] : c \in DOMAIN m_handlers}
        BY DEF IInv, TablesAgree
      <4> QED
        BY <2>2, <4>1, <4>2
    <3> QED
      BY <1>1, <3>1, <3>2 DEF IInv, TablesAgree
  <2>11. EventsAreCurrent'
    <3>1. ASSUME NEW v \in pending'
          PROVE  /\ v.kind = "client" /\ v.fd \in DOMAIN sockets /\ v.fd # new
                 /\ v \in watchers' /\ HasEvent(v)
      <4>1. \A kind, c : Reader(kind, c).fd = c /\ Reader(kind, c).kind = kind
        BY DEF Reader
      <4>2. PICK c \in DOMAIN m_handlers : v = m_handlers[c]
        BY <2>2 DEF IInv, EventsAreCurrent, TablesAgree
      <4>3. PICK d \in DOMAIN m_handlers : w = m_handlers[d]
        BY DEF IInv, EventsAreCurrent, TablesAgree
      <4>4. d = m_fd_main /\ c # d
        BY <1>1, <2>2, <2>4, <4>1, <4>2, <4>3
      <4> QED
        BY <2>2, <2>3, <2>4, <4>1, <4>2, <4>4 DEF IInv, EventsAreCurrent
    <3> QED
      BY <2>2, <3>1 DEF EventsAreCurrent, HasEvent
  <2>12. RunsWhileOpen'
    BY <1>1, <2>7 DEF IInv, RunsWhileOpen
  <2> QED
    BY <1>2, <2>6, <2>9, <2>10, <2>11, <2>12 DEF IInv
<1> QED
  BY <1>3, <1>4 DEF m_on_receive_server

(* The readers that closing stops.                                         *)
LEMMA StoppedAre ==
  ASSUME NEW fds \in SUBSET DOMAIN m_handlers, Closing(fds)
  PROVE  Stopped = {m_handlers[c] : c \in fds}
<1>1. DOMAIN m_handlers' = DOMAIN m_handlers \ fds
  BY DEF Closing, Without, Restrict
<1> QED
  BY <1>1 DEF Stopped

(* A pending event is that of the reader of one descriptor.                *)
LEMMA EventOf ==
  ASSUME IInv, NEW w \in pending
  PROVE  /\ w.fd \in DOMAIN m_handlers /\ w = m_handlers[w.fd] /\ HasEvent(w)
         /\ w.kind = IF w.fd = m_fd_main THEN "accept" ELSE "client"
<1>1. PICK c \in DOMAIN m_handlers : w = m_handlers[c] /\ HasEvent(w)
  BY DEF IInv, EventsAreCurrent, TablesAgree
<1>2. w = Reader(IF c = m_fd_main THEN "accept" ELSE "client", c)
  BY <1>1 DEF IInv, ServerShape
<1>3. \A kind : Reader(kind, c).fd = c /\ Reader(kind, c).kind = kind
  BY DEF Reader
<1> QED
  BY <1>1, <1>2, <1>3

(* A change of one connection's state keeps IInv, if no event of that      *)
(* connection is pending after it.                                         *)
LEMMA SocketsStep ==
  ASSUME IInv, NEW c \in DOMAIN sockets, NEW state,
         sockets' = [sockets EXCEPT ![c] = state],
         watchers' = watchers, pending' \subseteq pending,
         \A w \in pending' : w.fd # c \/ w.kind = "accept",
         UNCHANGED <<serverVars, waiting, setupVars>>
  PROVE  IInv'
<1> USE DEF serverVars, setupVars, locals, kernel, callers
<1>1. SetupTypes' /\ Working' /\ Accounts' /\ HeldIsReady'
  BY DEF IInv, SetupTypes, Working, Past, Done, Accounts, HeldIsReady
<1>2. ServerShape' /\ TablesAgree' /\ RunsWhileOpen'
  BY DEF IInv, ServerShape, TablesAgree, RunsWhileOpen
<1>3. EventsAreCurrent'
  <2>1. ASSUME NEW w \in pending' PROVE HasEvent(w)' /\ w \in watchers'
    <3>1. w \in pending /\ HasEvent(w) /\ w \in watchers
      BY DEF IInv, EventsAreCurrent
    <3>2. CASE w.kind = "accept"
      BY <3>1, <3>2 DEF HasEvent
    <3>3. CASE w.kind # "accept"
      BY <3>1, <3>3 DEF HasEvent
    <3> QED
      BY <3>1, <3>2, <3>3
  <2> QED
    BY <2>1 DEF EventsAreCurrent
<1> QED
  BY <1>1, <1>2, <1>3 DEF IInv

(* A connection reports input, which the owner may answer by closing it or *)
(* everything, or its end.                                                 *)
LEMMA ReceiveClientStep ==
  ASSUME IInv, Idle, NEW w \in pending, m_on_receive_client(w)
  PROVE  IInv'
<1>1. /\ w.kind = "client" /\ w.fd \in DOMAIN m_handlers
      /\ w = m_handlers[w.fd] /\ w.fd # m_fd_main /\ m_running \in BOOLEAN
  BY EventOf DEF m_on_receive_client, IInv, ServerShape
<1>2. w.fd \in DOMAIN sockets
  BY <1>1 DEF IInv, ServerShape, TablesAgree
<1>3. CASE /\ sockets' = [sockets EXCEPT ![w.fd] = "idle"]
           /\ Callback(w, {}, {})
           /\ UNCHANGED <<serverVars, waiting, setupVars>>
  <2>1. watchers' = watchers /\ pending' = pending \ {w}
    BY <1>3 DEF Callback
  <2>2. \A v \in pending' : v.fd # w.fd
    BY <1>1, <2>1, EventOf
  <2> QED
    BY <1>2, <1>3, <2>1, <2>2, SocketsStep
<1>4. CASE closeFd(w.fd) /\ Callback(w, {}, Stopped)
  <2>1. Closing({w.fd}) /\ m_running' = m_running
    <3>1. {w.fd} \cap DOMAIN m_handlers = {w.fd}
      BY <1>1
    <3> QED
      BY <1>4, <3>1 DEF closeFd
  <2>2. Stopped = {m_handlers[c] : c \in {w.fd}}
    BY <1>1, <2>1, StoppedAre
  <2>3. watchers' = watchers \ Stopped /\ pending' \subseteq pending \ Stopped
    BY <1>4 DEF Callback
  <2> QED
    BY <1>1, <2>1, <2>2, <2>3, ClosingStep
<1>5. CASE shutdown /\ Callback(w, {}, Stopped)
  <2>1. Closing(DOMAIN m_handlers) /\ m_running' = FALSE
    BY <1>5 DEF shutdown
  <2>2. Stopped = {m_handlers[c] : c \in DOMAIN m_handlers}
    BY <2>1, StoppedAre
  <2>3. watchers' = watchers \ Stopped /\ pending' \subseteq pending \ Stopped
    BY <1>5 DEF Callback
  <2> QED
    BY <2>1, <2>2, <2>3, ClosingStep
<1>6. CASE /\ Closing({w.fd})
           /\ m_running' = RunsAfter(w.fd)
           /\ Callback(w, {}, {m_handlers[w.fd]})
  <2>1. /\ watchers' = watchers \ {m_handlers[c] : c \in {w.fd}}
        /\ pending' \subseteq pending \ {m_handlers[c] : c \in {w.fd}}
    BY <1>6 DEF Callback
  <2>2. /\ m_running' \in BOOLEAN
        /\ DOMAIN m_handlers # {w.fd} => m_running' = m_running
    BY <1>1, <1>6 DEF RunsAfter
  <2> QED
    BY <1>1, <1>6, <2>1, <2>2, ClosingStep
<1> QED
  BY <1>3, <1>4, <1>5, <1>6 DEF m_on_receive_client, received

(* The owner calls the server.                                             *)
LEMMA OwnerStep == ASSUME IInv, Owner PROVE IInv'
<1>1. Idle /\ m_running \in BOOLEAN
  BY DEF Owner, IInv, ServerShape
<1>2. CASE startup_inet
  BY <1>2, EnterStep, CallsAre DEF startup_inet
<1>3. ASSUME NEW fds \in SUBSET DOMAIN m_handlers, Closing(fds),
             m_running' \in BOOLEAN,
             DOMAIN m_handlers # fds => m_running' = m_running,
             Outside({}, Stopped)
      PROVE  IInv'
  <2>1. Stopped = {m_handlers[c] : c \in fds}
    BY <1>3, StoppedAre
  <2>2. watchers' = watchers \ Stopped /\ pending' = pending \ Stopped
    BY <1>3 DEF Outside
  <2> QED
    BY <1>1, <1>3, <2>1, <2>2, ClosingStep
<1>4. CASE shutdown /\ Outside({}, Stopped)
  <2>1. Closing(DOMAIN m_handlers) /\ m_running' = FALSE
    BY <1>4 DEF shutdown
  <2> QED
    BY <1>3, <1>4, <2>1
<1>5. CASE close /\ Outside({}, Stopped)
  <2>1. Closing({m_fd_main} \cap DOMAIN m_handlers) /\ m_running' = m_running
    BY <1>5 DEF close
  <2> QED
    BY <1>1, <1>3, <1>5, <2>1
<1>6. ASSUME NEW c \in told, closeFd(c), Outside({}, Stopped)
      PROVE  IInv'
  <2>1. Closing({c} \cap DOMAIN m_handlers) /\ m_running' = m_running
    BY <1>6 DEF closeFd
  <2> QED
    BY <1>1, <1>3, <1>6, <2>1
<1> QED
  BY <1>2, <1>4, <1>5, <1>6 DEF Owner

(* The kernel reports events that are there, and peers only add to them.   *)
LEMMA KernelStep ==
  ASSUME IInv, Connect \/ (\E c \in DOMAIN sockets : PeerActs(c)) \/ Wait
  PROVE  IInv'
<1> USE DEF serverVars, setupVars, locals, kernel, callers
<1>1. ASSUME UNCHANGED <<serverVars, sockets, setupVars, watchers>>,
             waiting' \in Nat, EventsAreCurrent'
      PROVE  IInv'
  <2>1. SetupTypes' /\ Working' /\ Accounts' /\ HeldIsReady'
    BY <1>1 DEF IInv, SetupTypes, Working, Past, Done, Accounts, HeldIsReady
  <2>2. ServerShape' /\ TablesAgree' /\ RunsWhileOpen'
    BY <1>1 DEF IInv, ServerShape, TablesAgree, RunsWhileOpen
  <2> QED
    BY <1>1, <2>1, <2>2 DEF IInv
<1>2. CASE Connect
  <2>1. waiting' = waiting + 1 /\ waiting \in Nat /\ UNCHANGED <<watchers, pending, sockets>>
    BY <1>2 DEF Connect, ioVars, IInv, ServerShape
  <2>2. EventsAreCurrent'
    BY <2>1 DEF IInv, EventsAreCurrent, HasEvent
  <2> QED
    BY <1>1, <1>2, <2>1, <2>2 DEF Connect
<1>3. ASSUME NEW c \in DOMAIN sockets, PeerActs(c)
      PROVE  IInv'
  <2>1. PICK state \in {"readable", "ended"} : sockets' = [sockets EXCEPT ![c] = state]
    BY <1>3 DEF PeerActs
  <2>2. \A w \in pending : w.fd # c \/ w.kind = "accept"
    BY <1>3, EventOf DEF PeerActs, HasEvent
  <2> QED
    BY <1>3, <2>1, <2>2, SocketsStep DEF PeerActs, ioVars
<1>4. CASE Wait
  <2>1. /\ pending' = {w \in watchers : HasEvent(w)} /\ watchers' = watchers
        /\ UNCHANGED <<serverVars, sockets, waiting, setupVars>>
    BY <1>4 DEF Wait, Poll
  <2>2. EventsAreCurrent'
    BY <2>1 DEF EventsAreCurrent, HasEvent
  <2>3. waiting' \in Nat
    BY <2>1 DEF IInv, ServerShape
  <2> QED
    BY <1>1, <2>1, <2>2, <2>3
<1> QED
  BY <1>2, <1>3, <1>4

LEMMA NextIInv == IInv /\ [Next]_vars => IInv'
<1> SUFFICES ASSUME IInv, [Next]_vars PROVE IInv'
  OBVIOUS
<1>1. CASE Connect \/ (\E c \in DOMAIN sockets : PeerActs(c)) \/ Wait
  BY <1>1, KernelStep
<1>2. CASE Dispatch
  BY <1>2, AcceptStep, ReceiveClientStep DEF Dispatch
<1>3. CASE Owner
  BY <1>3, OwnerStep
<1>4. CASE Setup
  BY <1>4, SetupStepStep, StartedStep, ClientsStep DEF Setup
<1>5. CASE UNCHANGED vars
  <2> USE <1>5 DEF vars, serverVars, setupVars, ioVars, locals, kernel, callers
  <2>1. SetupTypes' /\ Working' /\ Accounts' /\ HeldIsReady'
    BY DEF IInv, SetupTypes, Working, Past, Done, Accounts, HeldIsReady
  <2>2. ServerShape' /\ TablesAgree' /\ RunsWhileOpen'
    BY DEF IInv, ServerShape, TablesAgree, RunsWhileOpen
  <2>3. EventsAreCurrent'
    BY DEF IInv, EventsAreCurrent, HasEvent
  <2> QED
    BY <2>1, <2>2, <2>3 DEF IInv
<1> QED
  BY <1>1, <1>2, <1>3, <1>4, <1>5 DEF Next

-----------------------------------------------------------------------------
(* The results.                                                            *)

LEMMA Invariance == Spec => []IInv
BY InitIInv, NextIInv, PTL DEF Spec

(* Kernel, server, loop and owner agree between calls, for any descriptors *)
(* and accept queue.                                                       *)
THEOREM TablesAgreeAlways == Spec => []TablesAgree
<1>1. IInv => TablesAgree
  BY DEF IInv
<1> QED
  BY <1>1, Invariance, PTL

(* No event is delivered that a callback of the same round made obsolete.  *)
THEOREM EventsCurrentAlways == Spec => []EventsAreCurrent
<1>1. IInv => EventsAreCurrent
  BY DEF IInv
<1> QED
  BY <1>1, Invariance, PTL

(* A server that has a descriptor runs, so that startup_inet never         *)
(* overwrites a listening socket.                                          *)
THEOREM RunsWhileOpenAlways == Spec => []RunsWhileOpen
<1>1. IInv => RunsWhileOpen
  BY DEF IInv
<1> QED
  BY <1>1, Invariance, PTL

(* Every open descriptor and address list has an owner between calls,      *)
(* whichever system calls failed.                                          *)
THEOREM NothingLeakedEver == Spec => []NothingLeaked
<1>1. IInv => NothingLeaked
  <2> SUFFICES ASSUME IInv, Idle
               PROVE  /\ DOMAIN open = DOMAIN held \cup told
                      /\ addrinfos = heldAddrs
                      /\ heldAddrs = Cardinality({c \in DOMAIN held : held[c] = "resolving"})
    BY DEF NothingLeaked
  <2>1. /\ heldAddrs = Cardinality({c \in DOMAIN held : held[c] = "resolving"})
        /\ addrinfos = heldAddrs + (IF addr THEN 1 ELSE 0)
        /\ IsFiniteSet(DOMAIN held)
    BY DEF IInv, Accounts
  <2>2. heldAddrs \in Nat
    BY <2>1, FS_Subset, FS_CardinalityType
  <2> QED
    BY <2>1, <2>2, AtRest
<1> QED
  BY <1>1, Invariance, PTL

(* What a set-up function returns had every call on it succeed.            *)
THEOREM HeldIsReadyAlways == Spec => []HeldIsReady
<1>1. IInv => HeldIsReady
  BY DEF IInv
<1> QED
  BY <1>1, Invariance, PTL
=============================================================================
