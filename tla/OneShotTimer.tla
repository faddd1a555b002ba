---------------------------- MODULE OneShotTimer ----------------------------
(***************************************************************************)
(* timer.cpp of main_project: a timer of BTstack's run loop with its       *)
(* callback and timeout. BTstack keeps the timers that are added in a      *)
(* linked list and removes one from it before it dispatches it; adding one *)
(* that is in the list enters it a second time.                            *)
(***************************************************************************)
EXTENDS Naturals

VARIABLES
    m_callback,     \* a callback is set
    m_timeout_ms,
    listed,         \* how often it is in BTstack's list (external)
    age             \* time since it was last added (external)

timerVars == <<m_callback, m_timeout_ms, listed, age>>

TimerInit == m_callback = FALSE /\ m_timeout_ms = 0 /\ listed = 0 /\ age = 0

\* A timer that is in the list n times is started, if it has a callback.
start(callback, n) ==
    /\ listed' = IF callback THEN n + 1 ELSE n
    /\ age' = IF callback THEN 0 ELSE age

\* How often a timer that was in the list n times is after stop().
stopped(n) == IF n = 0 THEN 0 ELSE n - 1

\* MUTANT: the timer is not taken off the list first.
restart_NoStop ==
    /\ start(m_callback, listed)
    /\ UNCHANGED <<m_callback, m_timeout_ms>>

\* MUTANT: the timer goes on with what is left of its timeout.
restart_Resumes ==
    /\ listed' = stopped(listed) + 1
    /\ UNCHANGED <<m_callback, m_timeout_ms, age>>

restart ==
    /\ start(m_callback, stopped(listed))
    /\ UNCHANGED <<m_callback, m_timeout_ms>>

IsDue == listed > 0 /\ age >= m_timeout_ms
=============================================================================
