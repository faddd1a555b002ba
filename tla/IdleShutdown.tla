---------------------------- MODULE IdleShutdown ----------------------------
(***************************************************************************)
(* shutdown.cpp and main() of simpler_main_project: the guitar leaves the  *)
(* run loop when nothing has happened for shutdown_timeout_ms, sleeps, and *)
(* reboots when the wake-up button is let go. Activity does not restart    *)
(* the shutdown timer itself: it sets a flag that a second, periodic timer *)
(* looks at. Timers run in BTstack's run loop, one at a time, and a busy   *)
(* loop may serve a due timer late. Time advances in ticks.                *)
(***************************************************************************)
EXTENDS Integers

CONSTANTS
    Timeout,    \* shutdown_timeout_ms, in ticks
    Poll,       \* restart_shutdown_timeout_ms, in ticks
    Late        \* ticks by which the run loop may serve a due timer late

ASSUME ShutdownAssumption ==
    /\ Timeout \in Nat \ {0}
    /\ Poll \in Nat \ {0}
    /\ Late \in Nat

VARIABLES
    phase,          \* where main() is
    shutdown_timer, \* ticks since shutdown_timer was last added
    restart_timer,  \* ticks since restart_shutdown_timer was last added
    should_restart_timer,
    idle            \* history: ticks since boot or the last restart()

vars == <<phase, shutdown_timer, restart_timer, should_restart_timer, idle>>

\* idle is not counted beyond this bound, one more than a guitar can stay
\* awake untouched.
IdleCap == Timeout + Poll + 2 * Late + 1

TypeOK ==
    /\ phase \in {"boot", "run", "exiting", "dormant"}
    /\ shutdown_timer \in 0..(Timeout + Late)
    /\ restart_timer \in 0..(Poll + Late)
    /\ should_restart_timer \in BOOLEAN
    /\ idle \in 0..IdleCap

Init ==
    /\ phase = "boot"
    /\ shutdown_timer = 0 /\ restart_timer = 0
    /\ should_restart_timer = FALSE
    /\ idle = 0

\* shutdown::init adds both timers.
init ==
    /\ phase = "boot"
    /\ phase' = "run"
    /\ shutdown_timer' = 0 /\ restart_timer' = 0
    /\ idle' = 0
    /\ UNCHANGED should_restart_timer

Tick ==
    /\ phase = "run"
    /\ shutdown_timer < Timeout + Late
    /\ restart_timer < Poll + Late
    /\ shutdown_timer' = shutdown_timer + 1
    /\ restart_timer' = restart_timer + 1
    /\ idle' = IF idle < IdleCap THEN idle + 1 ELSE idle
    /\ UNCHANGED <<phase, should_restart_timer>>

\* MUTANT: the flag is only set while the shutdown timer is far from due.
restart_Lossy ==
    /\ phase # "dormant"
    /\ should_restart_timer' = (shutdown_timer < Timeout - Poll)
    /\ idle' = 0
    /\ UNCHANGED <<phase, shutdown_timer, restart_timer>>

\* A button changed, a host subscribed or the link was lost, which may happen
\* before shutdown::init has been reached.
restart ==
    /\ phase # "dormant"
    /\ should_restart_timer' = TRUE
    /\ idle' = 0
    /\ UNCHANGED <<phase, shutdown_timer, restart_timer>>

\* MUTANT: the flag is not reset.
restart_shutdown_timer_callback_KeepsFlag ==
    /\ phase \in {"run", "exiting"}
    /\ restart_timer >= Poll
    /\ shutdown_timer' = IF should_restart_timer THEN 0 ELSE shutdown_timer
    /\ restart_timer' = 0
    /\ UNCHANGED <<phase, should_restart_timer, idle>>

\* MUTANT: the shutdown timer is restarted without looking at the flag.
restart_shutdown_timer_callback_Always ==
    /\ phase \in {"run", "exiting"}
    /\ restart_timer >= Poll
    /\ shutdown_timer' = 0 /\ restart_timer' = 0
    /\ should_restart_timer' = FALSE
    /\ UNCHANGED <<phase, idle>>

\* MUTANT: the shutdown timer's deadline is extended, not set anew.
restart_shutdown_timer_callback_Extends ==
    /\ phase \in {"run", "exiting"}
    /\ restart_timer >= Poll
    /\ shutdown_timer' =
          IF should_restart_timer THEN shutdown_timer - Timeout ELSE shutdown_timer
    /\ should_restart_timer' = FALSE
    /\ restart_timer' = 0
    /\ UNCHANGED <<phase, idle>>

\* The flag is looked at and reset; both set_timer and add_timer count from now.
restart_shutdown_timer_callback ==
    /\ phase \in {"run", "exiting"}
    /\ restart_timer >= Poll
    /\ shutdown_timer' = IF should_restart_timer THEN 0 ELSE shutdown_timer
    /\ should_restart_timer' = FALSE
    /\ restart_timer' = 0
    /\ UNCHANGED <<phase, idle>>

\* The timer is not added again; the run loop is told to stop.
shutdown_timer_callback ==
    /\ phase = "run"
    /\ shutdown_timer >= Timeout
    /\ phase' = "exiting"
    /\ UNCHANGED <<shutdown_timer, restart_timer, should_restart_timer, idle>>

\* btstack_run_loop_execute returns: radio off, then dormant.
LeaveLoop ==
    /\ phase = "exiting"
    /\ phase' = "dormant"
    /\ UNCHANGED <<shutdown_timer, restart_timer, should_restart_timer, idle>>

\* A rising edge on the wake-up pin; the watchdog resets every static.
WakeAndReboot ==
    /\ phase = "dormant"
    /\ phase' = "boot"
    /\ shutdown_timer' = 0 /\ restart_timer' = 0
    /\ should_restart_timer' = FALSE
    /\ idle' = 0

Next ==
    \/ init \/ Tick \/ restart
    \/ restart_shutdown_timer_callback \/ shutdown_timer_callback
    \/ LeaveLoop \/ WakeAndReboot

\* Time passes and the run loop serves its timers; nobody has to press a button.
Fairness ==
    /\ WF_vars(init) /\ WF_vars(Tick) /\ WF_vars(LeaveLoop)
    /\ WF_vars(restart_shutdown_timer_callback)
    /\ WF_vars(shutdown_timer_callback)

Spec == Init /\ [][Next]_vars
FairSpec == Spec /\ Fairness
-----------------------------------------------------------------------------
(* Properties                                                              *)

\* The guitar gives up only after Timeout ticks without activity, or on an
\* activity so recent that the periodic timer has not seen it yet: that
\* button press is lost, the player's last one before the guitar sleeps
\* (shutdown.cpp:17-43).
ExitJustified ==
    [][phase = "run" /\ phase' = "exiting" =>
          \/ idle >= Timeout
          \/ should_restart_timer /\ idle <= restart_timer]_vars

\* It never stays awake longer than the two periods, each served late, after
\* the last activity (shutdown.cpp:24-36).
AwakeBounded == phase = "run" => idle <= Timeout + Poll + 2 * Late

\* A guitar nobody touches ends up asleep.
Sleeps ==
    <>[][~restart /\ ~WakeAndReboot]_vars => <>[](phase = "dormant")
=============================================================================
