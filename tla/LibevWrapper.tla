---------------------------- MODULE LibevWrapper ----------------------------
(***************************************************************************)
(* The io half of LibevWrapper and the libev loop under it.  A watcher is  *)
(* an allocated and started ev_io with the io_handler_props it carries:    *)
(* kind names the callback, fd the descriptor, owner the connection whose  *)
(* object the callback runs on (NULL for the server), n tells apart the    *)
(* watchers one owner has had.  libev collects the events of one poll in a *)
(* pending set and then calls back one watcher after the other.            *)
(***************************************************************************)
VARIABLES
  watchers,   \* started ev_io structures
  pending     \* those whose event of the last poll is not yet delivered

ioVars == <<watchers, pending>>

(***************************************************************************)
(* What one callback, that of fired, does to the loop: init_io_reader and  *)
(* init_io_writer allocate and start the watchers in started,              *)
(* stop_io_handler stops and frees those in stopped.  ev_io_stop also      *)
(* forgets the pending event of a watcher it stops.                        *)
(***************************************************************************)
\* Mutant: the watcher is freed without ev_io_stop.
CallbackNoStop(fired, started, stopped) ==
  /\ fired \in pending
  /\ watchers' = (watchers \ stopped) \cup started
  /\ pending' = pending \ {fired}
Callback(fired, started, stopped) ==
  /\ fired \in pending
  /\ watchers' = (watchers \ stopped) \cup started
  /\ pending' = pending \ (stopped \cup {fired})

(* The same from outside the io callbacks, a timer's for instance.         *)
\* Mutant: the watcher is freed without ev_io_stop.
OutsideNoStop(started, stopped) ==
  /\ watchers' = (watchers \ stopped) \cup started
  /\ UNCHANGED pending
Outside(started, stopped) ==
  /\ watchers' = (watchers \ stopped) \cup started
  /\ pending' = pending \ stopped

(* One epoll round: it returns when at least one watcher has an event and  *)
(* reports every watcher that has one (level triggered).                   *)
Poll(ready) ==
  /\ pending = {}
  /\ ready # {}
  /\ pending' = ready
  /\ UNCHANGED watchers

(* A round that also finds watchers on closed descriptors: epoll_ctl fails *)
(* for them, fd_kill stops them and reports the failure as an event.       *)
PollAndKill(ready, killed) ==
  /\ pending = {}
  /\ ready # {}
  /\ pending' = ready
  /\ watchers' = watchers \ killed
=============================================================================
