----------------------------- MODULE TimersProofs -----------------------------
(* An owner that forgets one-shot timers when they fire never uses a       *)
(* deleted timer, whatever it calls and whenever, for any addresses,       *)
(* delays and number of calls.                                             *)
EXTENDS LibevTimers, TLAPS

(* A one-shot timer leaves the queue when it expires, before its method is *)
(* called: m_timer_cb deletes it without ev_timer_stop.                    *)
OneShotsLeft == \A t \in pending : repeat[t] = 0 => t \notin active

(* The two properties depend on one another through what lies between:     *)
(* libev knows only timers the owner runs, which it holds.                 *)
IInv ==
  /\ HeldIsAllocated
  /\ QuietWhenStopped
  /\ running \subseteq held /\ held \subseteq Addresses
  /\ repeat \in [Addresses -> Nat]
  /\ OneShotsLeft

LEMMA InitIInv == Init => IInv
  BY DEF Init, IInv, HeldIsAllocated, QuietWhenStopped, OneShotsLeft

LEMMA LibevStep ==
  ASSUME IInv, Tick \/ Expire
  PROVE  IInv'
  <1> USE DEF IInv, HeldIsAllocated, QuietWhenStopped, OneShotsLeft, ownerVars
  <1>1. CASE Tick
    BY <1>1 DEF Tick
  <1>2. CASE Expire
    BY <1>2 DEF Expire
  <1>3. QED
    BY <1>1, <1>2

LEMMA StartStep ==
  ASSUME IInv, NEW t \in Addresses, NEW d \in Nat, NEW i \in Nat,
         m_init_timer(t, d, i)
  PROVE  IInv'
  BY DEF IInv, HeldIsAllocated, QuietWhenStopped, OneShotsLeft, m_init_timer

(* stop_timer, pause_timer and restart_timer for a timer that is held.     *)
LEMMA CallStep ==
  ASSUME IInv, NEW t \in held,
         stop_timer(t) \/ pause_timer(t) \/ restart_timer(t)
  PROVE  IInv'
  <1> USE DEF IInv, HeldIsAllocated, QuietWhenStopped, OneShotsLeft
  <1>1. CASE stop_timer(t)
    BY <1>1 DEF stop_timer
  <1>2. CASE pause_timer(t)
    BY <1>2 DEF pause_timer
  <1>3. CASE restart_timer(t)
    BY <1>3 DEF restart_timer
  <1>4. QED
    BY <1>1, <1>2, <1>3

(* m_timer_cb.  A periodic timer whose method says true stays where it is; *)
(* any other is out of the queue, by ev_timer_stop or since it expired,    *)
(* and leaves allocated, held and running together.                        *)
LEMMA FireStep ==
  ASSUME ~ KeepsOneShot, IInv, NEW t \in pending, NEW ret \in BOOLEAN,
         m_timer_cb(t, ret)
  PROVE  IInv'
  <1>1. t \in running /\ t \in held /\ t \in allocated /\ repeat[t] \in Nat
    BY DEF IInv, HeldIsAllocated, QuietWhenStopped
  <1>2. /\ pending' = pending \ {t} /\ repeat' = repeat
        /\ active' = IF ret THEN active ELSE active \ {t}
    BY DEF m_timer_cb
  <1>3. ~ crashed'
    BY <1>1 DEF m_timer_cb
  <1>4. \/ /\ allocated' = allocated /\ held' = held
           /\ running' = running /\ active' = active
        \/ /\ allocated' = allocated \ {t} /\ held' = held \ {t}
           /\ running' = running \ {t} /\ t \notin active'
    <2>1. CASE ~ ret
      BY <2>1, <1>2 DEF m_timer_cb, Deleted
    <2>2. CASE ret /\ repeat[t] = 0
      <3>1. t \notin active
        BY <2>2 DEF IInv, OneShotsLeft
      <3>2. QED
        BY <2>2, <3>1, <1>2 DEF m_timer_cb, Deleted
    <2>3. CASE ret /\ repeat[t] > 0
      <3>1. repeat[t] # 0
        BY <2>3, <1>1
      <3>2. QED
        BY <2>3, <3>1, <1>2 DEF m_timer_cb, Deleted
    <2>4. QED
      BY <1>1, <2>1, <2>2, <2>3
  <1>5. active' \subseteq active
    BY <1>2
  <1>6. QED
    BY <1>1, <1>2, <1>3, <1>4, <1>5
    DEF IInv, HeldIsAllocated, QuietWhenStopped, OneShotsLeft

LEMMA NextIInv ==
  ASSUME ~ KeepsOneShot, IInv, [Next]_vars
  PROVE  IInv'
  <1>1. CASE Tick \/ Expire
    BY <1>1, LibevStep
  <1>2. ASSUME NEW t \in Addresses, NEW d \in Delays,
               m_init_timer(t, d, 0) \/ m_init_timer(t, d, d)
        PROVE  IInv'
    <2>1. d \in Nat /\ 0 \in Nat
      BY TimersAssumption
    <2>2. QED
      BY <1>2, <2>1, StartStep
  <1>3. ASSUME NEW t \in held,
               stop_timer(t) \/ pause_timer(t) \/ restart_timer(t)
        PROVE  IInv'
    BY <1>3, CallStep
  <1>4. ASSUME NEW t \in pending, Fire(t)
        PROVE  IInv'
    BY <1>4, FireStep DEF Fire
  <1>5. CASE UNCHANGED vars
    BY <1>5 DEF IInv, HeldIsAllocated, QuietWhenStopped, OneShotsLeft,
                vars, libevVars, ownerVars
  <1>6. QED
    BY <1>1, <1>2, <1>3, <1>4, <1>5 DEF Next

(* The inductive invariant holds in every behaviour of an owner that       *)
(* forgets one-shot timers when they fire (libev_wrapper.cpp:22-142).      *)
THEOREM TimersInvariance == ~ KeepsOneShot => (Spec => []IInv)
  <1>1. SUFFICES ASSUME ~ KeepsOneShot PROVE Spec => []IInv
    OBVIOUS
  <1>2. IInv /\ [Next]_vars => IInv'
    BY <1>1, NextIInv
  <1>3. QED
    BY <1>2, InitIInv, PTL DEF Spec

(* What the owner holds is what is allocated, and nothing deleted is used  *)
(* (stop_timer, m_timer_cb: delete phnd, delete w).                        *)
THEOREM HeldCorrect == ~ KeepsOneShot => (Spec => []HeldIsAllocated)
  <1>1. IInv => HeldIsAllocated
    BY DEF IInv
  <1>2. QED
    BY <1>1, TimersInvariance, PTL

(* A paused or stopped timer is not called back (pause_timer, stop_timer). *)
THEOREM QuietCorrect == ~ KeepsOneShot => (Spec => []QuietWhenStopped)
  <1>1. IInv => QuietWhenStopped
    BY DEF IInv
  <1>2. QED
    BY <1>1, TimersInvariance, PTL
=============================================================================
