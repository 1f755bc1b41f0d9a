------------------------------ MODULE LibevTimers ------------------------------
(***************************************************************************)
(* The timer half of LibevWrapper: init_timer, init_timer_periodic,        *)
(* stop_timer, pause_timer, restart_timer and m_timer_cb, with libev's     *)
(* timer queue under it and an owner of timers above it.  No mode of the   *)
(* program starts a timer.  The note in libev_wrapper.h:19-23 says that a  *)
(* timer stops itself by returning false, but a one-shot timer is freed    *)
(* whatever it returns: KeepsOneShot tells an owner that takes the note at *)
(* its word from one that knows.                                           *)
(*                                                                         *)
(* A timer is the address of its ev_timer; an address freed is used again. *)
(* Time is relative: left counts down to the next expiry.                  *)
(***************************************************************************)
EXTENDS Naturals

CONSTANTS
  Addresses,     \* where an ev_timer can be allocated
  Delays,        \* the delays and intervals in use
  MaxCalls,      \* bound on the calls the owner makes in a behaviour
  KeepsOneShot   \* whether the owner keeps a one-shot timer that fired

ASSUME TimersAssumption ==
  /\ Delays \subseteq Nat \ {0} /\ MaxCalls \in Nat
  /\ KeepsOneShot \in BOOLEAN

VARIABLES
  allocated,  \* the ev_timer and timer_handler_props not yet deleted
  active,     \* in libev's timer queue
  pending,    \* expired in this round, not yet called back
  repeat,     \* ev_timer::repeat, 0 for a one-shot timer
  left,       \* time to the next expiry
  held,       \* the owner: timers it has a pointer to
  running,    \* the owner: those it expects a callback from
  calls,      \* how many calls it has made
  crashed     \* a deleted ev_timer was used

libevVars == <<active, pending, left>>
ownerVars == <<held, running>>
vars == <<allocated, repeat, libevVars, ownerVars, calls, crashed>>

Init ==
  /\ allocated = {} /\ active = {} /\ pending = {}
  /\ repeat = [t \in Addresses |-> 0] /\ left = [t \in Addresses |-> 0]
  /\ held = {} /\ running = {} /\ calls = 0 /\ crashed = FALSE

-----------------------------------------------------------------------------
(* libev.                                                                  *)

Tick ==
  /\ ~ crashed /\ pending = {}
  /\ \E t \in active : left[t] > 0
  /\ left' = [t \in Addresses |-> IF t \in active /\ left[t] > 0
                                  THEN left[t] - 1 ELSE left[t]]
  /\ UNCHANGED <<allocated, active, pending, repeat, ownerVars, calls, crashed>>

(* timers_reify: expired timers become pending; periodic ones are armed    *)
(* again, one-shot ones leave the queue.                                   *)
Expire ==
  LET expired == {t \in active : left[t] = 0}
  IN  /\ ~ crashed /\ pending = {} /\ expired # {}
      /\ pending' = expired
      /\ active' = active \ {t \in expired : repeat[t] = 0}
      /\ left' = [t \in Addresses |->
                    IF t \in expired THEN repeat[t] ELSE left[t]]
      /\ UNCHANGED <<allocated, repeat, ownerVars, calls, crashed>>

-----------------------------------------------------------------------------
(* The wrapper, called by the owner.                                       *)

Call ==
  /\ ~ crashed
  /\ calls < MaxCalls /\ calls' = calls + 1

(* init_timer (interval 0) and init_timer_periodic.                        *)
m_init_timer(t, delay, interval) ==
  /\ Call
  /\ t \notin allocated
  /\ allocated' = allocated \cup {t}
  /\ active' = active \cup {t}
  /\ repeat' = [repeat EXCEPT ![t] = interval]
  /\ left' = [left EXCEPT ![t] = delay]
  /\ held' = held \cup {t} /\ running' = running \cup {t}
  /\ UNCHANGED <<pending, crashed>>

(* ev_timer_stop takes the timer out of the queue and forgets its event;   *)
(* stop_timer deletes it.  On a deleted timer both are undefined.          *)
stop_timer(t) ==
  /\ Call
  /\ active' = active \ {t} /\ pending' = pending \ {t}
  /\ allocated' = allocated \ {t}
  /\ crashed' = (t \notin allocated)
  /\ held' = held \ {t} /\ running' = running \ {t}
  /\ UNCHANGED <<repeat, left>>

\* Mutant: an expiry of this round is still delivered.
PauseKeepsPending(t) ==
  /\ Call
  /\ active' = active \ {t}
  /\ running' = running \ {t}
  /\ crashed' = (t \notin allocated)
  /\ UNCHANGED <<allocated, pending, repeat, left, held>>
pause_timer(t) ==
  /\ Call
  /\ active' = active \ {t} /\ pending' = pending \ {t}
  /\ running' = running \ {t}
  /\ crashed' = (t \notin allocated)
  /\ UNCHANGED <<allocated, repeat, left, held>>

(* ev_timer_again: a periodic timer starts its interval anew; a one-shot   *)
(* timer has no interval and is only stopped.                              *)
\* Mutant: a paused timer is not started.
RestartOnlyActive(t) ==
  /\ Call
  /\ pending' = pending \ {t}
  /\ left' = [left EXCEPT ![t] = repeat[t]]
  /\ running' = IF repeat[t] > 0 THEN running \cup {t} ELSE running \ {t}
  /\ active' = IF repeat[t] > 0 THEN active ELSE active \ {t}
  /\ crashed' = (t \notin allocated)
  /\ UNCHANGED <<allocated, repeat, held>>
restart_timer(t) ==
  /\ Call
  /\ pending' = pending \ {t}
  /\ \/ /\ repeat[t] > 0
        /\ active' = active \cup {t}
        /\ left' = [left EXCEPT ![t] = repeat[t]]
        /\ running' = running \cup {t}
     \/ /\ repeat[t] = 0
        /\ active' = active \ {t}
        /\ running' = running \ {t}
        /\ UNCHANGED left
  /\ crashed' = (t \notin allocated)
  /\ UNCHANGED <<allocated, repeat, held>>

-----------------------------------------------------------------------------
(* m_timer_cb: the owner's method runs; if it says false the timer is      *)
(* stopped, and then, or if it is a one-shot timer, deleted.  The owner    *)
(* forgets a timer whose method says false.                                *)

\* Mutant: w->repeat is not tested, one-shot timers are left behind.
DeletedIfFalse(t, ret) == ~ ret
Deleted(t, ret) == ~ ret \/ repeat[t] = 0

m_timer_cb(t, ret) ==
  /\ ~ crashed /\ t \in pending
  /\ pending' = pending \ {t}
  /\ active' = IF ret THEN active ELSE active \ {t}
  /\ allocated' = IF Deleted(t, ret) THEN allocated \ {t} ELSE allocated
  /\ held' = IF ret /\ (repeat[t] > 0 \/ KeepsOneShot)
             THEN held ELSE held \ {t}
  /\ running' = IF ret /\ repeat[t] > 0 THEN running ELSE running \ {t}
  /\ crashed' = (t \notin allocated)
  /\ UNCHANGED <<repeat, left, calls>>

Fire(t) == \E ret \in BOOLEAN : m_timer_cb(t, ret)

Next ==
  \/ Tick \/ Expire
  \/ \E t \in Addresses, delay \in Delays :
       m_init_timer(t, delay, 0) \/ m_init_timer(t, delay, delay)
  \/ \E t \in held : stop_timer(t) \/ pause_timer(t) \/ restart_timer(t)
  \/ \E t \in pending : Fire(t)

Spec == Init /\ [][Next]_vars

(* Time passes and the loop runs.  The owner need not call anything.       *)
Fairness ==
  /\ WF_vars(Tick) /\ WF_vars(Expire)
  /\ \A t \in Addresses : WF_vars(Fire(t))

FairSpec == Spec /\ Fairness

-----------------------------------------------------------------------------
(* Correctness.                                                            *)

(* For an owner that forgets a one-shot timer when it has fired, what it   *)
(* holds is exactly what is allocated: no pointer dangles and no timer is  *)
(* leaked, and no deleted timer is ever used, although addresses are used  *)
(* again and events may be pending when a timer is stopped.                *)
HeldIsAllocated == held = allocated /\ ~ crashed

(* Once a timer is paused or stopped its method is not called, not even    *)
(* for an expiry of the round in progress, until it is restarted.          *)
QuietWhenStopped == (active \cup pending) \subseteq running

(* A timer expires unless it is stopped or paused; a periodic timer that   *)
(* was paused expires again after restart_timer.                           *)
Fires == \A t \in Addresses : t \in running ~> t \in pending \/ t \notin running
=============================================================================
