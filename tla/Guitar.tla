------------------------------- MODULE Guitar -------------------------------
(***************************************************************************)
(* simpler_main_project as main.cpp puts it together: the scan and the     *)
(* link of BleGuitar, the timers of IdleShutdown and those of Battery      *)
(* share BTstack's run loop, one handler at a time; main() boots them one  *)
(* after the other, sleeps when the loop ends and reboots when the wake-up *)
(* button is let go. A tick is the period of the scan.                     *)
(***************************************************************************)
EXTENDS Integers

CONSTANTS
    NumButtons, Handles, HCI_CON_HANDLE_INVALID,    \* see BleGuitar
    Timeout, Poll, Late,                            \* see IdleShutdown
    Voltages,                                       \* see Battery
    WakeButton      \* the button on GPIO 2

ASSUME GuitarAssumption ==
    /\ NumButtons \in Nat \ {0}
    /\ WakeButton \in 1..NumButtons
    /\ HCI_CON_HANDLE_INVALID \notin Handles
    /\ Timeout \in Nat \ {0} /\ Poll \in Nat \ {0} /\ Late \in Nat
    /\ Voltages \subseteq 0..4095

VARIABLES
    level, button_states, report, con_handle, scan, i,      \* see BleGuitar
    link, wanted, host, moved, touched,
    power, shutdown_timer, restart_timer,                   \* see IdleShutdown
    should_restart_timer, idle,
    raw, armed, voltage_read_gpio, battery_value,           \* see Battery
    due,        \* the scan of this tick is still to come
    woken,      \* the GPIO block has seen the edge that ends dormancy
    quiet       \* history: ticks since a change was sampled, a host
                \* subscribed or a link was lost

bleVars == <<level, button_states, report, con_handle, scan, i, link, wanted,
             host, moved, touched>>
powerVars == <<power, shutdown_timer, restart_timer, should_restart_timer, idle>>
batteryVars == <<raw, armed, voltage_read_gpio, battery_value>>
mainVars == <<due, woken, quiet>>
vars == <<bleVars, powerVars, batteryVars, mainVars>>

Ble == INSTANCE BleGuitar WITH phase <- scan
Shutdown == INSTANCE IdleShutdown WITH phase <- power
Gauge == INSTANCE Battery

TypeOK ==
    /\ Ble!TypeOK /\ Shutdown!TypeOK /\ Gauge!TypeOK
    /\ due \in BOOLEAN /\ woken \in BOOLEAN /\ quiet \in 0..Shutdown!IdleCap

Init ==
    /\ Ble!Init /\ Shutdown!Init /\ Gauge!Init
    /\ due = TRUE /\ woken = FALSE /\ quiet = 0

\* Timers are armed and no handler is running.
LoopFree == scan = "armed"
-----------------------------------------------------------------------------
(* main()                                                                  *)

\* bt::init, buttons::init
BootBle ==
    /\ Ble!Boot
    /\ UNCHANGED <<powerVars, batteryVars, mainVars>>

\* shutdown::init, battery::init; a scan may come between them and the above.
InitTimers ==
    /\ LoopFree
    /\ Shutdown!init /\ Gauge!init
    /\ quiet' = 0
    /\ UNCHANGED <<bleVars, due, woken>>

\* MUTANT: the radio is not taken down, and its link stays.
Sleep_RadioStays ==
    /\ Shutdown!LeaveLoop
    /\ LoopFree /\ scan' = "asleep"
    /\ woken' = FALSE
    /\ UNCHANGED <<level, button_states, report, con_handle, i, link, wanted,
                   host, moved, touched, batteryVars, due, quiet>>

\* The loop returns, the radio goes down, the wake-up pin is armed for an edge
\* that is still to come. The divider of the battery stays as it is.
Sleep ==
    /\ Ble!LeaveLoop /\ Shutdown!LeaveLoop
    /\ woken' = FALSE
    /\ UNCHANGED <<batteryVars, due, quiet>>

Reboot ==
    /\ woken
    /\ Ble!Reboot /\ Shutdown!WakeAndReboot /\ Gauge!Reset
    /\ due' = TRUE /\ woken' = FALSE /\ quiet' = 0
-----------------------------------------------------------------------------
(* The player, the host and the cell                                       *)

\* MUTANT: a press of the wake-up button ends dormancy, not its release.
Move_WakesOnPress(p) ==
    /\ Ble!Edge(p)
    /\ woken' = (woken \/ (power = "dormant" /\ p = WakeButton /\ ~level[p]))
    /\ UNCHANGED <<powerVars, batteryVars, due, quiet>>

\* Letting go of the wake-up button is a rising edge.
Move(p) ==
    /\ Ble!Edge(p)
    /\ woken' = (woken \/ (power = "dormant" /\ p = WakeButton /\ level[p]))
    /\ UNCHANGED <<powerVars, batteryVars, due, quiet>>

Drift ==
    /\ Gauge!Drift
    /\ UNCHANGED <<bleVars, powerVars, mainVars>>

\* What counts as activity.
Restart ==
    /\ Shutdown!restart
    /\ quiet' = 0

HostConnects ==
    /\ \E h \in Handles : Ble!Connect(h)
    /\ UNCHANGED <<powerVars, batteryVars, mainVars>>

HostSubscribesOrLeaves ==
    /\ Ble!InputReportEnable \/ Ble!DisconnectionComplete
    /\ Restart
    /\ UNCHANGED <<batteryVars, due, woken>>
-----------------------------------------------------------------------------
(* The run loop                                                            *)

Tick ==
    /\ LoopFree /\ ~due
    /\ Shutdown!Tick
    /\ due' = TRUE
    /\ quiet' = IF quiet < Shutdown!IdleCap THEN quiet + 1 ELSE quiet
    /\ UNCHANGED <<bleVars, batteryVars, woken>>

DebounceTimerFires ==
    /\ due
    /\ Ble!DebounceTimerFires
    /\ due' = FALSE
    /\ UNCHANGED <<powerVars, batteryVars, woken, quiet>>

\* MUTANT: every button that is sampled counts as activity.
ScanButton_AlwaysRestarts ==
    /\ Ble!ScanButton
    /\ Restart
    /\ UNCHANGED <<batteryVars, due, woken>>

\* MUTANT: a button that is let go does not count as activity.
ScanButton_PressesOnly ==
    /\ Ble!ScanButton
    /\ IF button_states' # button_states
       THEN /\ quiet' = 0
            /\ IF level[i] THEN Shutdown!restart ELSE UNCHANGED powerVars
       ELSE UNCHANGED <<powerVars, quiet>>
    /\ UNCHANGED <<batteryVars, due, woken>>

\* MUTANT: a change starts the shutdown timer anew by itself.
ScanButton_Rearms ==
    /\ Ble!ScanButton
    /\ IF button_states' # button_states
       THEN shutdown_timer' = 0 /\ idle' = 0 /\ quiet' = 0
       ELSE UNCHANGED <<shutdown_timer, idle, quiet>>
    /\ UNCHANGED <<power, restart_timer, should_restart_timer, batteryVars, due,
                   woken>>

\* A button that changed is reported and counts as activity.
ScanButton ==
    /\ Ble!ScanButton
    /\ IF button_states' # button_states
       THEN Restart
       ELSE UNCHANGED <<powerVars, quiet>>
    /\ UNCHANGED <<batteryVars, due, woken>>

CanSendNow ==
    /\ Ble!CanSendNow
    /\ UNCHANGED <<powerVars, batteryVars, mainVars>>

ShutdownTimers ==
    /\ LoopFree
    /\ \/ Shutdown!restart_shutdown_timer_callback
       \/ Shutdown!shutdown_timer_callback
    /\ UNCHANGED <<bleVars, batteryVars, mainVars>>

BatteryTimers ==
    /\ LoopFree
    /\ \/ Gauge!battery_sense_start_timer_callback
       \/ Gauge!battery_sense_read_timer_callback
    /\ UNCHANGED <<bleVars, powerVars, mainVars>>

Next ==
    \/ BootBle \/ InitTimers \/ Sleep \/ Reboot
    \/ \E p \in 1..NumButtons : Move(p)
    \/ Drift \/ HostConnects \/ HostSubscribesOrLeaves
    \/ Tick \/ DebounceTimerFires \/ ScanButton \/ CanSendNow
    \/ ShutdownTimers \/ BatteryTimers

\* main() goes on, time passes, a scan that started ends; the shutdown timers,
\* whose lateness is bounded, hold up time until they are served. The run loop
\* grants requests and serves the battery's timers between scans, again and
\* again: strong fairness. Nobody has to play.
Fairness ==
    /\ WF_vars(BootBle) /\ WF_vars(InitTimers) /\ WF_vars(Sleep)
    /\ WF_vars(Reboot)
    /\ WF_vars(Tick) /\ WF_vars(DebounceTimerFires) /\ WF_vars(ScanButton)
    /\ WF_vars(ShutdownTimers)
    /\ SF_vars(CanSendNow) /\ SF_vars(BatteryTimers)

Spec == Init /\ [][Next]_vars
FairSpec == Spec /\ Fairness
-----------------------------------------------------------------------------
(* Properties                                                              *)

\* Put together, the buttons and the link are those of BleGuitar, whose
\* handlers nothing else in the loop holds up for good (main.cpp:25-33,
\* buttons.cpp:39-67).
ImplementsBle == Ble!FairSpec

\* Put together, the shutdown is that of IdleShutdown: what calls restart()
\* calls nothing else of it (buttons.cpp:61, bt.cpp:65, bt.cpp:79).
ImplementsShutdown == Shutdown!FairSpec

\* The parts come up, sleep and reboot together, wherever the loop is left: an
\* awake guitar has exactly one battery timer armed, and the divider is on
\* exactly while that one is to read it; a dormant guitar scans nothing, has no
\* link, vouches to no host and owes nothing; and the edge that ends dormancy
\* is never one from before it (main.cpp:25-66, battery.cpp:26-63).
InStep ==
    /\ power = "boot" => scan # "asleep" /\ armed = {}
    /\ power \in {"run", "exiting"} =>
          scan \in {"armed", "scan"} /\ armed \in {{"start"}, {"read"}}
    /\ power = "dormant" =>
          /\ scan = "asleep" /\ ~wanted
          /\ link = HCI_CON_HANDLE_INVALID
          /\ con_handle = HCI_CON_HANDLE_INVALID
    /\ voltage_read_gpio <=> "read" \in armed
    /\ woken => power = "dormant"

\* The player keeps the guitar awake: it gives up only when no button change
\* was sampled, no host subscribed and no link was lost for the whole timeout,
\* or so recently that the periodic timer has not seen it
\* (buttons.cpp:51-62, bt.cpp:62-79, shutdown.cpp:17-43).
PlayKeepsAwake ==
    [][power = "run" /\ power' = "exiting" =>
          quiet >= Timeout \/ quiet <= Poll + Late]_vars

\* Left alone by players and hosts the guitar ends up asleep, held buttons and
\* an open link notwithstanding (main.cpp:31-47).
LeftAloneSleeps ==
    <>[][~(HostSubscribesOrLeaves \/ \E p \in 1..NumButtons : Move(p))]_vars
        => <>[](power = "dormant")

\* A guitar that fell asleep with its wake-up button held is running again
\* some time after the button is let go (main.cpp:44-66).
WakesWhenLetGo ==
    [](power = "dormant" /\ level[WakeButton] =>
          <>(power = "run") \/ [](level[WakeButton]))

\* On a guitar that is kept awake the gauge comes to show the charge that the
\* cell comes to have (battery.cpp:26-63).
GaugeFollows ==
    <>[][UNCHANGED raw]_vars /\ <>[](power = "run") =>
        <>[](battery_value \in Gauge!Charge(raw))
=============================================================================
