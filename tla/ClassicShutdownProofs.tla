------------------------ MODULE ClassicShutdownProofs ------------------------
(***************************************************************************)
(* Proofs about ClassicShutdown for every timeout and lateness of the run  *)
(* loop: the timer is in BTstack's list at most once, when the guitar goes *)
(* to sleep, and that it does not stay awake untouched.                    *)
(***************************************************************************)
EXTENDS ClassicShutdown, TLAPS

(* As long as BTstack has not undone a restart, the timer is in the list,  *)
(* as old as the last activity, or it has been taken off it to be          *)
(* dispatched, and may have been entered anew since.                       *)
TimerInv ==
    /\ AddedOnce
    /\ phase = "boot" => listed = 0 /\ ~popped
    /\ phase = "boot" => ~registered /\ ~lost
    /\ phase # "boot" => m_callback /\ m_timeout_ms = Timeout
    /\ popped => phase = "run" /\ ~busy /\ ~lost
    /\ lost => listed = 0
    /\ phase = "run" /\ ~lost /\ ~popped =>
          listed = 1 /\ idle = age
    /\ popped /\ listed = 1 => idle = 0
    /\ popped /\ listed # 1 => Timeout <= idle /\ idle <= Timeout + Late

IInv == TypeOK /\ TimerInv
-----------------------------------------------------------------------------
LEMMA Invariant == Spec => []IInv
<1> USE ClassicAssumption
<1>0. /\ 0 \in 0..IdleCap /\ 0 \in 0..(Timeout + Late) /\ 0 \in 0..Timeout
      /\ Timeout \in 0..Timeout /\ 0 \in 0..2 /\ 1 \in 0..2
  BY DEF IdleCap
<1>1. Init => IInv
  <2> SUFFICES ASSUME Init PROVE IInv
    OBVIOUS
  <2>1. TypeOK
    BY <1>0, Zenon DEF Init, TypeOK, TimerInit
  <2>2. phase = "boot" /\ listed = 0 /\ ~popped /\ ~registered /\ ~lost
    BY Zenon DEF Init, TimerInit
  <2> QED BY <2>1, <2>2 DEF IInv, TimerInv, AddedOnce
<1>2. IInv /\ [Next]_vars => IInv'
  <2> SUFFICES ASSUME IInv, [Next]_vars PROVE IInv'
    OBVIOUS
  <2> USE DEF IInv, TypeOK, TimerInv, AddedOnce
  <2>1. CASE init_shutdown
    <3>1. listed = 0 /\ ~popped /\ ~lost
      BY <2>1 DEF init_shutdown
    <3>2. listed' = 1 /\ age' = 0
      BY <2>1, <3>1 DEF init_shutdown, start
    <3>3. m_callback' \in BOOLEAN /\ m_callback'
      BY <2>1, Zenon DEF init_shutdown
    <3>4. /\ phase' = "run" /\ m_timeout_ms' = Timeout /\ idle' = 0
          /\ UNCHANGED <<registered, popped, busy, lost>>
      BY <2>1 DEF init_shutdown
    <3>5. TypeOK'
      BY <1>0, <3>2, <3>3, <3>4
    <3> QED BY <3>1, <3>2, <3>3, <3>4, <3>5
  <2>2. CASE ButtonStateChange
    <3>1. /\ phase # "boot" /\ m_callback /\ phase' = phase
          /\ UNCHANGED <<registered, popped, busy>>
          /\ idle' = 0
      BY <2>2 DEF ButtonStateChange
    <3>2. stopped(listed) = 0
      BY DEF stopped
    <3>3. CASE restart /\ lost' = FALSE
      <4>1. listed' = 1 /\ age' = 0 /\ UNCHANGED <<m_callback, m_timeout_ms>>
        BY <3>1, <3>2, <3>3 DEF restart, start
      <4>2. lost' \in BOOLEAN /\ ~lost'
        BY <3>3, Zenon
      <4>3. TypeOK'
        BY <1>0, <3>1, <4>1, <4>2
      <4> QED BY <3>1, <4>1, <4>2, <4>3
    <3>4. CASE /\ busy /\ listed' = 0 /\ age' = 0 /\ lost' = TRUE
               /\ UNCHANGED <<m_callback, m_timeout_ms>>
      <4>1. lost' \in BOOLEAN /\ lost' /\ busy
        BY <3>4, Zenon
      <4>2. TypeOK'
        BY <1>0, <3>1, <3>4, <4>1
      <4> QED BY <3>1, <3>4, <4>1, <4>2
    <3> QED BY <2>2, <3>3, <3>4 DEF ButtonStateChange
  <2>3. CASE register_button_state_listener \/ StackList
    <3>1. /\ phase' = phase /\ phase = "run" /\ ~popped
          /\ UNCHANGED <<m_callback, m_timeout_ms, listed, age, popped, lost,
                         idle>>
      BY <2>3 DEF register_button_state_listener, StackList, timerVars
    <3>2. registered' \in BOOLEAN /\ busy' \in BOOLEAN
      BY <2>3, Zenon DEF register_button_state_listener, StackList
    <3>3. TypeOK'
      BY <3>1, <3>2
    <3> QED BY <3>1, <3>3
  <2>4. CASE Tick
    BY <2>4 DEF Tick, IdleCap
  <2>5. CASE Pop
    <3>1. /\ phase' = phase /\ phase = "run" /\ ~popped /\ ~busy
          /\ listed > 0 /\ age >= m_timeout_ms /\ listed' = stopped(listed)
          /\ UNCHANGED <<registered, m_callback, m_timeout_ms, age, busy, lost,
                         idle>>
      BY <2>5 DEF Pop, IsDue
    <3>2. popped' \in BOOLEAN /\ popped'
      BY <2>5, Zenon DEF Pop
    <3>3. listed = 1 /\ listed' = 0 /\ ~lost
      BY <3>1 DEF stopped
    <3>4. idle = age /\ Timeout <= idle /\ idle <= Timeout + Late
      BY <3>1, <3>3
    <3>5. TypeOK'
      BY <1>0, <3>1, <3>2, <3>3
    <3> QED BY <3>1, <3>2, <3>3, <3>4, <3>5
  <2>6. CASE timer_dispatch \/ Wake
    <3>1. /\ phase # "boot" /\ phase' \in {"dormant", "reset"}
          /\ UNCHANGED <<registered, m_callback, m_timeout_ms, listed, age, busy,
                         lost, idle>>
      BY <2>6 DEF timer_dispatch, Wake, timerVars
    <3>2. popped' \in BOOLEAN /\ ~popped'
      <4>1. CASE timer_dispatch
        BY <4>1, Zenon DEF timer_dispatch
      <4>2. CASE Wake
        BY <4>2 DEF Wake
      <4> QED BY <2>6, <4>1, <4>2
    <3>3. TypeOK'
      BY <3>1, <3>2
    <3> QED BY <3>1, <3>2, <3>3
  <2>7. CASE reboot
    <3>1. TypeOK'
      BY <1>0, <2>7, Zenon DEF reboot
    <3>2. phase' = "boot" /\ listed' = 0 /\ ~popped' /\ ~registered' /\ ~lost'
      BY <2>7, Zenon DEF reboot
    <3> QED BY <3>1, <3>2
  <2>8. CASE UNCHANGED vars
    BY <2>8 DEF vars, timerVars
  <2> QED BY <2>1, <2>2, <2>3, <2>4, <2>5, <2>6, <2>7, <2>8 DEF Next
<1> QED BY <1>1, <1>2, PTL DEF Spec

(* Every variable keeps its type: the timer is in BTstack's list twice at   *)
(* most, and no list holds an entry that is overdue by more than Late.     *)
THEOREM TypeCorrect == Spec => []TypeOK
<1>1. IInv => TypeOK
  BY DEF IInv
<1> QED BY <1>1, Invariant, PTL

(* However activity, dispatch and a restart that BTstack undoes interleave, *)
(* the timer is never in the list twice (timer.cpp:12-76).                 *)
THEOREM NeverAddedTwice == Spec => []AddedOnce
<1>1. IInv => AddedOnce
  BY DEF IInv, TimerInv
<1> QED BY <1>1, Invariant, PTL

(* An untouched guitar is awake for the timeout, served late, at most.     *)
THEOREM StaysAwakeBounded == Spec => []AwakeBounded
<1>1. IInv => AwakeBounded
  BY ClassicAssumption DEF IInv, TypeOK, TimerInv, AddedOnce, AwakeBounded
<1> QED BY <1>1, Invariant, PTL

(* The guitar sleeps only after the whole timeout, or ignores a change that *)
(* came between the removal of its timer and the dispatch.                 *)
THEOREM SleepsJustified == Spec => SleepJustified
<1> DEFINE Justified ==
      phase = "run" /\ phase' = "dormant" =>
          idle >= Timeout \/ (idle = 0 /\ listed = 1)
<1>1. IInv /\ [Next]_vars => [Justified]_vars
  <2> SUFFICES ASSUME IInv, Next, phase = "run", phase' = "dormant"
               PROVE  idle >= Timeout \/ (idle = 0 /\ listed = 1)
    OBVIOUS
  <2>1. popped
    BY DEF Next, init_shutdown, register_button_state_listener,
           ButtonStateChange, StackList, Tick, Pop, timer_dispatch, Wake, reboot
  <2> QED BY <2>1 DEF IInv, TimerInv
<1> QED BY <1>1, Invariant, PTL DEF Spec, SleepJustified
=============================================================================
