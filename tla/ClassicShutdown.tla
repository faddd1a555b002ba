--------------------------- MODULE ClassicShutdown ---------------------------
(***************************************************************************)
(* shutdown.cpp of main_project, as it runs when main() calls              *)
(* init_shutdown (main.cpp:210 has the call commented out): every button   *)
(* change restarts one timer, from the GPIO interrupt; when it runs out,   *)
(* its callback puts the guitar to sleep and never returns. BTstack works  *)
(* on its timers below the interrupt, which calls it all the same: between *)
(* the removal of a due timer and its dispatch, and in the middle of a     *)
(* change of the list. Time advances in ticks.                             *)
(***************************************************************************)
EXTENDS OneShotTimer

CONSTANTS
    Timeout,    \* shutdown_time_ms, in ticks
    Late        \* ticks by which the run loop may serve a due timer late

ASSUME ClassicAssumption == Timeout \in Nat \ {0} /\ Late \in Nat

VARIABLES
    phase,          \* what the processor does
    registered,     \* the GPIO interrupts are enabled
    popped,         \* BTstack has removed the timer, to dispatch it
    busy,           \* BTstack is half way through a change of its list
    lost,           \* history: the last restart fell into such a change and
                    \* was undone by it
    idle            \* history: ticks since the last button change

vars == <<phase, registered, timerVars, popped, busy, lost, idle>>

\* idle is not counted beyond this bound.
IdleCap == Timeout + Late + 1

TypeOK ==
    /\ phase \in {"boot", "run", "dormant", "reset"}
    /\ registered \in BOOLEAN /\ popped \in BOOLEAN /\ busy \in BOOLEAN
    /\ lost \in BOOLEAN
    /\ m_callback \in BOOLEAN /\ m_timeout_ms \in 0..Timeout
    /\ listed \in 0..2 /\ age \in 0..(Timeout + Late)
    /\ idle \in 0..IdleCap

Init ==
    /\ phase = "boot" /\ registered = FALSE
    /\ TimerInit
    /\ popped = FALSE /\ busy = FALSE /\ lost = FALSE
    /\ idle = 0
-----------------------------------------------------------------------------
\* MUTANT: the timer is started before it has its callback.
init_shutdown_StartsFirst ==
    /\ phase = "boot"
    /\ phase' = "run"
    /\ start(m_callback, listed)
    /\ m_timeout_ms' = Timeout /\ m_callback' = TRUE
    /\ idle' = 0
    /\ UNCHANGED <<registered, popped, busy, lost>>

\* Sets timeout and callback, subscribes, and starts the timer.
init_shutdown ==
    /\ phase = "boot"
    /\ phase' = "run"
    /\ m_timeout_ms' = Timeout /\ m_callback' = TRUE
    /\ start(TRUE, listed)
    /\ idle' = 0
    /\ UNCHANGED <<registered, popped, busy, lost>>

register_button_state_listener ==
    /\ phase = "run" /\ ~popped /\ ~busy /\ ~registered
    /\ registered' = TRUE
    /\ UNCHANGED <<phase, timerVars, popped, busy, lost, idle>>

\* The subscriber of ButtonStateChange, in the interrupt, which a sleeping
\* processor does not serve. BTstack may undo what it does to a list that was
\* half way changed.
ButtonStateChange ==
    /\ registered /\ phase # "dormant"
    /\ \/ restart /\ lost' = FALSE
       \/ /\ busy
          /\ listed' = 0 /\ age' = 0 /\ lost' = TRUE
          /\ UNCHANGED <<m_callback, m_timeout_ms>>
    /\ idle' = 0
    /\ UNCHANGED <<phase, registered, popped, busy>>

\* BTstack adds or removes one of its own timers.
StackList ==
    /\ phase = "run" /\ ~popped
    /\ busy' = ~busy
    /\ UNCHANGED <<phase, registered, timerVars, popped, lost, idle>>

Tick ==
    /\ phase = "run" /\ ~popped
    /\ listed > 0 => age < Timeout + Late
    /\ age' = IF listed > 0 THEN age + 1 ELSE age
    /\ idle' = IF idle < IdleCap THEN idle + 1 ELSE idle
    /\ UNCHANGED <<phase, registered, m_callback, m_timeout_ms, listed, popped,
                   busy, lost>>

\* The run loop takes a due timer off its list...
Pop ==
    /\ phase = "run" /\ ~popped /\ ~busy
    /\ IsDue
    /\ popped' = TRUE
    /\ listed' = stopped(listed)
    /\ UNCHANGED <<phase, registered, m_callback, m_timeout_ms, age, busy, lost,
                   idle>>

\* ... and dispatches it, whatever has happened to it since: the callback.
timer_dispatch ==
    /\ popped
    /\ popped' = FALSE
    /\ phase' = "dormant"
    /\ UNCHANGED <<registered, timerVars, busy, lost, idle>>

\* A rising edge on reboot_gpio; the callback goes on to start the watchdog.
Wake ==
    /\ phase = "dormant"
    /\ phase' = "reset"
    /\ UNCHANGED <<registered, timerVars, popped, busy, lost, idle>>

reboot ==
    /\ phase = "reset"
    /\ phase' = "boot" /\ registered' = FALSE
    /\ m_callback' = FALSE /\ m_timeout_ms' = 0 /\ listed' = 0 /\ age' = 0
    /\ popped' = FALSE /\ busy' = FALSE /\ lost' = FALSE
    /\ idle' = 0

Next ==
    \/ init_shutdown \/ register_button_state_listener
    \/ ButtonStateChange
    \/ StackList \/ Tick \/ Pop \/ timer_dispatch
    \/ Wake \/ reboot

\* main() boots, time passes, the watchdog bites; BTstack finishes what it
\* does to its list and comes back to its due timers again and again.
Fairness ==
    /\ WF_vars(init_shutdown) /\ WF_vars(Tick) /\ WF_vars(timer_dispatch)
    /\ WF_vars(reboot) /\ WF_vars(busy /\ StackList) /\ SF_vars(Pop)

Spec == Init /\ [][Next]_vars
FairSpec == Spec /\ Fairness
-----------------------------------------------------------------------------
(* Properties                                                              *)

\* The timer is never in BTstack's list twice, wherever the interrupt comes:
\* restart() stops before it starts (timer.cpp:15-35, shutdown.cpp:65-66).
AddedOnce == listed <= 1

\* The guitar goes to sleep only after Timeout ticks without a button change,
\* or on a change that came between the removal of the timer and its dispatch:
\* its callback does not ask whether it has been started again
\* (timer.cpp:47-52, shutdown.cpp:55-63).
SleepJustified ==
    [][phase = "run" /\ phase' = "dormant" =>
          idle >= Timeout \/ (idle = 0 /\ listed = 1)]_vars

\* A guitar nobody touches stays awake for the timeout only, unless BTstack
\* undid the last restart (shutdown.cpp:52-69).
AwakeBounded == phase = "run" /\ ~lost => idle <= Timeout + Late

\* A guitar nobody touches ends up asleep, unless BTstack undid the last
\* restart: then nothing but another button change ever sends it to sleep.
Sleeps ==
    <>[][~ButtonStateChange /\ ~Wake]_vars => <>[](phase = "dormant" \/ lost)
=============================================================================
