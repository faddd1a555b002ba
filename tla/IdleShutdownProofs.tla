------------------------- MODULE IdleShutdownProofs -------------------------
(***************************************************************************)
(* Proofs about IdleShutdown for every timeout, polling period and lateness *)
(* of the run loop: when the guitar may give up, and when it must.         *)
(***************************************************************************)
EXTENDS IdleShutdown, TLAPS

(* How long nothing has happened, told by the timers: an activity the       *)
(* periodic timer has not seen is younger than that timer, and one it has   *)
(* seen is at most one late period older than the shutdown timer.           *)
IdleInv ==
    phase = "run" =>
        /\ should_restart_timer => idle <= restart_timer
        /\ ~should_restart_timer =>
              /\ shutdown_timer <= idle
              /\ idle <= shutdown_timer + Poll + Late

IInv ==
    /\ TypeOK
    /\ IdleInv

LEMMA Invariant == Spec => []IInv
<1> USE ShutdownAssumption
<1>0. /\ 0 \in 0..(Timeout + Late) /\ 0 \in 0..(Poll + Late)
      /\ 0 \in 0..IdleCap /\ Poll + Late \in Nat
  BY DEF IdleCap
<1>1. Init => IInv
  BY <1>0 DEF Init, IInv, TypeOK, IdleInv
<1>2. IInv /\ [Next]_vars => IInv'
  <2> SUFFICES ASSUME IInv, [Next]_vars PROVE IInv'
    OBVIOUS
  <2> USE DEF IInv, TypeOK, IdleInv
  <2>1. CASE init
    BY <1>0, <2>1 DEF init
  <2>2. CASE Tick
    <3>1. /\ phase = "run" /\ phase' = "run"
          /\ shutdown_timer' \in 0..(Timeout + Late)
          /\ restart_timer' \in 0..(Poll + Late)
          /\ idle' \in 0..IdleCap
          /\ UNCHANGED should_restart_timer
      BY <2>2 DEF Tick, IdleCap
    <3>2. IdleInv'
      BY <2>2, <3>1 DEF Tick, IdleCap
    <3> QED BY <3>1, <3>2
  <2>3. CASE restart
    BY <1>0, <2>3 DEF restart
  <2>4. CASE restart_shutdown_timer_callback
    <3>1. /\ UNCHANGED <<phase, idle>> /\ phase # "boot"
          /\ restart_timer' = 0 /\ should_restart_timer' = FALSE
      BY <2>4 DEF restart_shutdown_timer_callback
    <3>2. CASE should_restart_timer
      <4>1. shutdown_timer' = 0
        BY <2>4, <3>2 DEF restart_shutdown_timer_callback
      <4>2. phase = "run" => 0 <= idle /\ idle <= 0 + Poll + Late
        BY <3>2
      <4>3. TypeOK'
        BY <1>0, <3>1, <4>1
      <4>4. IdleInv'
        BY <3>1, <4>1, <4>2
      <4> QED BY <3>1, <4>3, <4>4
    <3>3. CASE ~should_restart_timer
      <4>1. shutdown_timer' = shutdown_timer
        BY <2>4, <3>3 DEF restart_shutdown_timer_callback
      <4> QED BY <1>0, <3>1, <3>3, <4>1
    <3> QED BY <3>2, <3>3
  <2>5. CASE shutdown_timer_callback
    BY <2>5 DEF shutdown_timer_callback
  <2>6. CASE LeaveLoop
    BY <2>6 DEF LeaveLoop
  <2>7. CASE WakeAndReboot
    BY <1>0, <2>7 DEF WakeAndReboot
  <2>8. CASE UNCHANGED vars
    BY <2>8 DEF vars
  <2> QED BY <2>1, <2>2, <2>3, <2>4, <2>5, <2>6, <2>7, <2>8 DEF Next
<1> QED BY <1>1, <1>2, PTL DEF Spec

(* Every variable keeps its type; no timer is overdue by more than Late.   *)
THEOREM TypeCorrect == Spec => []TypeOK
<1>1. IInv => TypeOK
  BY DEF IInv
<1> QED BY <1>1, Invariant, PTL

(* The guitar is never awake, untouched, for longer than both periods.     *)
THEOREM StaysAwakeBounded == Spec => []AwakeBounded
<1>1. IInv => AwakeBounded
  BY ShutdownAssumption DEF IInv, TypeOK, IdleInv, IdleCap, AwakeBounded
<1> QED BY <1>1, Invariant, PTL

(* The guitar gives up only when it was idle for the whole timeout, or when *)
(* the periodic timer has not seen the last activity yet.                   *)
THEOREM ExitsJustified == Spec => ExitJustified
<1> DEFINE Justified ==
      phase = "run" /\ phase' = "exiting" =>
          \/ idle >= Timeout
          \/ should_restart_timer /\ idle <= restart_timer
<1>1. IInv /\ [Next]_vars => [Justified]_vars
  <2> SUFFICES ASSUME IInv, Next, phase = "run", phase' = "exiting"
               PROVE  \/ idle >= Timeout
                      \/ should_restart_timer /\ idle <= restart_timer
    OBVIOUS
  <2>1. shutdown_timer_callback
    BY DEF Next, init, Tick, restart, restart_shutdown_timer_callback,
           LeaveLoop, WakeAndReboot
  <2>2. shutdown_timer >= Timeout
    BY <2>1 DEF shutdown_timer_callback
  <2> QED BY <2>2, ShutdownAssumption DEF IInv, TypeOK, IdleInv, IdleCap
<1> QED BY <1>1, Invariant, PTL DEF Spec, ExitJustified
=============================================================================
