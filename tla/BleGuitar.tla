------------------------------ MODULE BleGuitar ------------------------------
(***************************************************************************)
(* Buttons and link of simpler_main_project: a 1 ms timer scans the pins   *)
(* in order, updates the report in place and asks BTstack for each change  *)
(* to send it; bt.cpp answers BTstack's events. Everything but the player  *)
(* runs in BTstack's context, one handler at a time: the scan is cut at    *)
(* each gpio_get, between which pins move, and nothing else runs.          *)
(* BTstack takes one connection as a peripheral at a time.                 *)
(***************************************************************************)
EXTENDS Naturals

CONSTANTS
    NumButtons,             \* the size of button_gpios
    Handles,                \* connection handles
    HCI_CON_HANDLE_INVALID

ASSUME BleAssumption ==
    /\ NumButtons \in Nat \ {0}
    /\ HCI_CON_HANDLE_INVALID \notin Handles

VARIABLES
    level,          \* state of each pin, TRUE = pressed (low)
    button_states,  \* what the last scan found
    report,         \* hid::report, as the set of buttons whose bit is set
    con_handle,
    phase,          \* main() boots, then the timer is armed or scans; after
                    \* the run loop it sleeps
    i,              \* the index the scan is at
    link,           \* handle of the connection that is up (external)
    wanted,         \* a CAN_SEND_NOW event is owed to the link (external)
    host,           \* what the host believes is pressed (external)
    moved,          \* history: buttons not sampled since they last moved
    touched         \* history: a change was accepted for sending on this link

scanVars == <<button_states, report, phase, i, moved>>
linkVars == <<con_handle, link, wanted, host, touched>>
vars == <<level, scanVars, linkVars>>

Buttons == 1..NumButtons

TypeOK ==
    /\ level \in [Buttons -> BOOLEAN] /\ button_states \in [Buttons -> BOOLEAN]
    /\ report \subseteq Buttons /\ host \subseteq Buttons /\ moved \subseteq Buttons
    /\ con_handle \in Handles \cup {HCI_CON_HANDLE_INVALID}
    /\ link \in Handles \cup {HCI_CON_HANDLE_INVALID}
    /\ phase \in {"off", "radio", "armed", "scan", "asleep"}
    /\ i \in Buttons
    /\ wanted \in BOOLEAN /\ touched \in BOOLEAN

\* Buttons may be held while the guitar starts; no pin has been sampled.
Init ==
    /\ level \in [Buttons -> BOOLEAN]
    /\ button_states = [p \in Buttons |-> FALSE]
    /\ report = {} /\ moved = Buttons
    /\ con_handle = HCI_CON_HANDLE_INVALID
    /\ phase = "off" /\ i = 1
    /\ link = HCI_CON_HANDLE_INVALID /\ wanted = FALSE
    /\ host = {} /\ touched = FALSE

is_connected == con_handle # HCI_CON_HANDLE_INVALID

\* No handler is running and the radio is on.
StackFree == phase \in {"radio", "armed"}
-----------------------------------------------------------------------------
(* buttons.cpp                                                             *)

\* The player presses or releases a button, at any time.
Edge(p) ==
    /\ level' = [level EXCEPT ![p] = ~@]
    /\ moved' = moved \cup {p}
    /\ UNCHANGED <<button_states, report, phase, i, linkVars>>

\* hids_device_request_can_send_now_event: the event follows later or, where
\* BTstack can send at once, inside the call, with the report as it is then.
RequestCanSendNow(handle, r) ==
    IF handle # link
    THEN UNCHANGED <<wanted, host>>
    ELSE \/ wanted' = TRUE /\ UNCHANGED host
         \/ wanted' = FALSE /\ host' = r

send_hid_report(r) ==
    IF is_connected
    THEN touched' = TRUE /\ RequestCanSendNow(con_handle, r)
    ELSE UNCHANGED <<touched, wanted, host>>

\* MUTANT: the loop runs to the size of the array included.
NextButton_OffByOne ==
    IF i <= NumButtons
    THEN i' = i + 1 /\ UNCHANGED phase
    ELSE i' = 1 /\ phase' = "armed"

\* After the last button the handler arms its timer again.
NextButton ==
    IF i < NumButtons
    THEN i' = i + 1 /\ UNCHANGED phase
    ELSE i' = 1 /\ phase' = "armed"

\* MUTANT: sending is requested before the bit is changed.
ScanButton_SendFirst ==
    /\ phase = "scan"
    /\ moved' = moved \ {i}
    /\ IF button_states[i] # level[i]
       THEN /\ button_states' = [button_states EXCEPT ![i] = level[i]]
            /\ report' = IF level[i] THEN report \cup {i} ELSE report \ {i}
            /\ send_hid_report(report)
       ELSE UNCHANGED <<button_states, report, touched, wanted, host>>
    /\ NextButton
    /\ UNCHANGED <<level, con_handle, link>>

\* One round of debounce_timer_handler's loop: a button that changed has its
\* bit set or cleared, and the report is to be sent.
ScanButton ==
    /\ phase = "scan"
    /\ moved' = moved \ {i}
    /\ IF button_states[i] # level[i]
       THEN /\ button_states' = [button_states EXCEPT ![i] = level[i]]
            /\ report' = IF level[i] THEN report \cup {i} ELSE report \ {i}
            /\ send_hid_report(report')
       ELSE UNCHANGED <<button_states, report, touched, wanted, host>>
    /\ NextButton
    /\ UNCHANGED <<level, con_handle, link>>

DebounceTimerFires ==
    /\ phase = "armed"
    /\ phase' = "scan"
    /\ UNCHANGED <<level, button_states, report, i, moved, linkVars>>
-----------------------------------------------------------------------------
(* main() and bt.cpp                                                       *)

\* bt::init turns the radio on, buttons::init arms the timer; BTstack may run
\* in between.
Boot ==
    /\ \/ phase = "off" /\ phase' = "radio"
       \/ phase = "radio" /\ phase' = "armed"
    /\ UNCHANGED <<level, button_states, report, i, moved, linkVars>>

\* The run loop returns; cyw43_arch_deinit takes the radio down, and BTstack
\* reports every connection closed. Nothing is scanned from here on.
LeaveLoop ==
    /\ phase = "armed"
    /\ phase' = "asleep"
    /\ con_handle' = HCI_CON_HANDLE_INVALID
    /\ link' = HCI_CON_HANDLE_INVALID /\ wanted' = FALSE
    /\ UNCHANGED <<level, button_states, report, i, moved, host, touched>>

\* MUTANT: the watchdog leaves the report as it was.
Reboot_KeepsReport ==
    /\ phase = "asleep"
    /\ phase' = "off"
    /\ button_states' = [p \in Buttons |-> FALSE] /\ moved' = Buttons
    /\ UNCHANGED <<level, report, i, linkVars>>

\* Woken, main() starts the watchdog, which resets every static.
Reboot ==
    /\ phase = "asleep"
    /\ phase' = "off"
    /\ button_states' = [p \in Buttons |-> FALSE] /\ report' = {}
    /\ moved' = Buttons
    /\ UNCHANGED <<level, i, linkVars>>

\* A host connects; bt.cpp hears of it only when the host subscribes.
Connect(h) ==
    /\ StackFree
    /\ link = HCI_CON_HANDLE_INVALID
    /\ link' = h
    /\ host' = {} /\ touched' = FALSE
    /\ UNCHANGED <<level, scanVars, con_handle, wanted>>

\* HIDS_SUBEVENT_INPUT_REPORT_ENABLE, whether it enables or disables.
InputReportEnable ==
    /\ StackFree
    /\ link # HCI_CON_HANDLE_INVALID
    /\ con_handle' = link
    /\ UNCHANGED <<level, scanVars, link, wanted, host, touched>>

\* HCI_EVENT_DISCONNECTION_COMPLETE; BTstack drops what it owed the link.
DisconnectionComplete ==
    /\ StackFree
    /\ link # HCI_CON_HANDLE_INVALID
    /\ con_handle' = HCI_CON_HANDLE_INVALID
    /\ link' = HCI_CON_HANDLE_INVALID /\ wanted' = FALSE
    /\ UNCHANGED <<level, scanVars, host, touched>>

\* MUTANT: the report is not sent when it says that nothing is pressed.
CanSendNow_NotEmpty ==
    /\ StackFree
    /\ wanted
    /\ wanted' = FALSE
    /\ host' = IF con_handle = link /\ report # {} THEN report ELSE host
    /\ UNCHANGED <<level, scanVars, con_handle, link, touched>>

\* HIDS_SUBEVENT_CAN_SEND_NOW: the report as it is now, to con_handle.
CanSendNow ==
    /\ StackFree
    /\ wanted
    /\ wanted' = FALSE
    /\ host' = IF con_handle = link THEN report ELSE host
    /\ UNCHANGED <<level, scanVars, con_handle, link, touched>>

Next ==
    \/ \E p \in Buttons : Edge(p)
    \/ DebounceTimerFires \/ ScanButton
    \/ Boot \/ LeaveLoop \/ Reboot
    \/ \E h \in Handles : Connect(h)
    \/ InputReportEnable \/ DisconnectionComplete
    \/ CanSendNow

\* main() boots on, a scan that started ends, and the timer fires. The run
\* loop also polls the radio between timers, so a request that is pending
\* between scans again and again is granted: strong fairness.
Fairness ==
    /\ WF_vars(Boot) /\ WF_vars(DebounceTimerFires) /\ WF_vars(ScanButton)
    /\ SF_vars(CanSendNow)

Spec == Init /\ [][Next]_vars
FairSpec == Spec /\ Fairness
-----------------------------------------------------------------------------
(* Properties                                                              *)

\* At any moment, also half way through a scan, a subscribed host that has
\* been sent anything is right about every button the player has not moved
\* since it was last sampled, unless a report is still to be sent: requests
\* are made per change, after the change, on the handle of the live link
\* (buttons.cpp:45-63, bt.cpp:62-87).
HostExplained ==
    is_connected /\ touched /\ ~wanted =>
        \A p \in Buttons \ moved : p \in host <=> level[p]

\* A button that comes to rest on a link that comes to rest is shown as it is
\* in the end, however wildly the other buttons go on
\* (buttons.cpp:39-67, bt.cpp:81-87).
Settles ==
    \A p \in Buttons :
        <>[][~(Edge(p) \/ DisconnectionComplete
                  \/ \E h \in Handles : Connect(h))]_vars =>
            <>[](is_connected /\ touched => (p \in host <=> level[p]))

Mirror == INSTANCE ButtonMirror WITH
    held    <- {p \in Buttons : level[p]},
    known   <- report,
    unseen  <- moved,
    vouched <- is_connected /\ touched,
    owed    <- wanted

\* Step by step the scan and the link do what ButtonMirror promises, across
\* sleep and reboot: no step makes the host's view worse than owed
\* (buttons.cpp:39-67, bt.cpp:50-87, main.cpp:30-67).
ImplementsMirror == Mirror!Spec
=============================================================================
