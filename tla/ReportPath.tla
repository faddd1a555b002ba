----------------------------- MODULE ReportPath -----------------------------
(***************************************************************************)
(* The path of a button change through the Bluetooth Classic firmware      *)
(* (main_project): GPIO edge -> interrupt -> PubSub -> report -> HID       *)
(* device -> host, interleaved with the connection events of BTstack.      *)
(*                                                                         *)
(* Three contexts share the globals of main.cpp and bt_init.cpp on one     *)
(* core, and each preempts the ones below it:                              *)
(*   - the GPIO interrupt, which runs to completion once entered;          *)
(*   - BTstack's handlers (pico_cyw43_arch_none, threadsafe background),   *)
(*     one at a time, interruptible between any two assignments;           *)
(*   - main(), which only boots and then sits in the run loop.             *)
(*                                                                         *)
(* Of a report only the buttons wired to a pin are kept: pin_mappings      *)
(* gives each pin a button of its own, so a report maps pins to pressed.   *)
(***************************************************************************)
EXTENDS Naturals, FiniteSets

CONSTANTS
    Pins,       \* the GPIOs of pin_mappings
    NoPin,      \* no interrupt in service
    Cids,       \* HID channel identifiers BTstack may hand out
    NoCid       \* the identifier 0: no channel

ASSUME ConstantsAssumption ==
    /\ NoPin \notin Pins
    /\ NoCid \notin Cids

VARIABLES
    level,      \* electrical state of each pin, TRUE = pressed (low)
    latched,    \* pins whose edge the GPIO block has latched
    irq,        \* the pin whose interrupt is in service, or NoPin
    registered, \* pins with an interrupt enabled
    subscribed, \* main()'s lambda is in ButtonStateChange's subscribers
    report,     \* globals::report of main.cpp
    hid_report, \* globals::report of bt_init.cpp
    connected,  \* globals::connected
    hid_cid,    \* globals::hid_cid
    bt,         \* what the BTstack context executes
    ev,         \* the connection event hid_event_handler is working on
    unread,     \* fields to_packed has still to read
    msg,        \* the packed report under construction
    hci,        \* power state of the controller (external)
    link,       \* cid of the open HID channel (external)
    attempt,    \* cid of the outgoing connection attempt (external)
    wanted,     \* a CAN_SEND_NOW event is owed to the link (external)
    host,       \* what the host believes is pressed on this link (external)
    moved,      \* history: pins that changed since main() subscribed
    touched,    \* history: a change was accepted for sending on this link
    overtaken   \* history: a report was sent while an older one was being
                \* packed, and none was started since

gpioVars  == <<level, latched, irq, moved>>
bootVars  == <<registered, subscribed>>
reportVars == <<report, hid_report>>
flagVars  == <<connected, hid_cid>>
packVars  == <<unread, msg>>
linkVars  == <<link, attempt, wanted, host, touched, overtaken>>
vars == <<gpioVars, bootVars, reportVars, flagVars, bt, ev, packVars, hci,
          linkVars>>

Reports  == [Pins -> BOOLEAN]
Released == [p \in Pins |-> FALSE]
BtSteps  == {"idle", "cid", "flag", "publish", "try", "pack"}
Events   == {"none", "opened", "failed", "closed"}

TypeOK ==
    /\ level \in Reports /\ report \in Reports /\ hid_report \in Reports
    /\ msg \in Reports /\ host \in Reports
    /\ latched \subseteq Pins /\ registered \subseteq Pins
    /\ moved \subseteq Pins /\ unread \subseteq Pins
    /\ irq \in Pins \cup {NoPin}
    /\ hid_cid \in Cids \cup {NoCid}
    /\ link \in Cids \cup {NoCid} /\ attempt \in Cids \cup {NoCid}
    /\ bt \in BtSteps /\ ev \in Events
    /\ hci \in {"off", "starting", "working"}
    /\ subscribed \in BOOLEAN /\ connected \in BOOLEAN
    /\ wanted \in BOOLEAN /\ touched \in BOOLEAN /\ overtaken \in BOOLEAN

\* Buttons may be held while the board starts; every global starts zeroed.
Init ==
    /\ level \in Reports
    /\ latched = {} /\ irq = NoPin /\ moved = {}
    /\ registered = {} /\ subscribed = FALSE
    /\ report = Released /\ hid_report = Released
    /\ connected = FALSE /\ hid_cid = NoCid
    /\ bt = "idle" /\ ev = "none" /\ unread = {} /\ msg = Released
    /\ hci = "off" /\ link = NoCid /\ attempt = NoCid
    /\ wanted = FALSE /\ host = Released
    /\ touched = FALSE /\ overtaken = FALSE

BtRuns   == irq = NoPin
BtFree   == irq = NoPin /\ bt = "idle"
MainRuns == BtFree
-----------------------------------------------------------------------------
(* The GPIO block and its interrupt                                        *)

\* A player presses or releases a button; an enabled pin latches the edge.
Edge(p) ==
    /\ level' = [level EXCEPT ![p] = ~@]
    /\ latched' = IF p \in registered THEN latched \cup {p} ELSE latched
    /\ moved' = IF subscribed THEN moved \cup {p} ELSE moved
    /\ UNCHANGED <<irq, bootVars, reportVars, flagVars, bt, ev, packVars, hci,
                   linkVars>>

\* The SDK's dispatcher acknowledges the edge before it calls the callback.
IrqEnter(p) ==
    /\ irq = NoPin
    /\ p \in latched
    /\ irq' = p
    /\ latched' = latched \ {p}
    /\ UNCHANGED <<level, moved, bootVars, reportVars, flagVars, bt, ev,
                   packVars, hci, linkVars>>

\* hid_device_request_can_send_now_event: a cid BTstack does not know is
\* ignored; the event comes later or, where the stack can send at once, inside
\* the call, and then the interrupt itself transmits r, whole.
RequestCanSendNow(cid, r) ==
    IF cid = NoCid \/ cid # link
    THEN UNCHANGED <<wanted, host, overtaken>>
    ELSE \/ wanted' = TRUE /\ UNCHANGED <<host, overtaken>>
         \/ wanted' = FALSE /\ host' = r /\ overtaken' = (bt = "pack")

\* MUTANT: only the button that changed is copied.
send_report_Delta(r) ==
    IF connected
    THEN /\ hid_report' = [p \in {irq} |-> r[p]]
         /\ touched' = TRUE
         /\ RequestCanSendNow(hid_cid, r)
    ELSE UNCHANGED <<hid_report, touched, wanted, host, overtaken>>

\* MUTANT: only the first change on a channel requests to send.
send_report_Once(r) ==
    IF connected
    THEN /\ hid_report' = r
         /\ touched' = TRUE
         /\ IF touched THEN UNCHANGED <<wanted, host, overtaken>>
                       ELSE RequestCanSendNow(hid_cid, r)
    ELSE UNCHANGED <<hid_report, touched, wanted, host, overtaken>>

send_report(r) ==
    IF connected
    THEN /\ hid_report' = r
         /\ touched' = TRUE
         /\ RequestCanSendNow(hid_cid, r)
    ELSE UNCHANGED <<hid_report, touched, wanted, host, overtaken>>

\* main()'s subscriber stores the button and sends the report.
ButtonStateChange(p, pressed) ==
    /\ report' = [report EXCEPT ![p] = pressed]
    /\ send_report(report')

\* MUTANT: an edge toggles the button, whatever the pin says: two edges that
\* share an interrupt count as one.
gpio_interrupt_callback_Toggle ==
    /\ irq # NoPin
    /\ irq' = NoPin
    /\ IF subscribed
       THEN ButtonStateChange(irq, ~report[irq])
       ELSE UNCHANGED <<reportVars, wanted, host, touched, overtaken>>
    /\ UNCHANGED <<level, latched, moved, bootVars, flagVars, bt, ev, packVars,
                   hci, link, attempt>>

\* Reads the pin and publishes ButtonStateChange, which main()'s lambda hears
\* once it is subscribed. A level change after the read latches a new edge.
gpio_interrupt_callback ==
    /\ irq # NoPin
    /\ irq' = NoPin
    /\ IF subscribed
       THEN ButtonStateChange(irq, level[irq])
       ELSE UNCHANGED <<reportVars, wanted, host, touched, overtaken>>
    /\ UNCHANGED <<level, latched, moved, bootVars, flagVars, bt, ev, packVars,
                   hci, link, attempt>>
-----------------------------------------------------------------------------
(* main(): boot, then the run loop                                         *)

init_bt ==
    /\ MainRuns
    /\ hci = "off"
    /\ hid_report' = Released
    /\ hci' = "starting"
    /\ UNCHANGED <<gpioVars, bootVars, report, flagVars, bt, ev, packVars,
                   linkVars>>

\* The SDK discards an edge latched before the interrupt was enabled.
register_button_state_listener(p) ==
    /\ MainRuns
    /\ hci # "off"
    /\ p \notin registered
    /\ registered' = registered \cup {p}
    /\ latched' = latched \ {p}
    /\ UNCHANGED <<level, irq, moved, subscribed, reportVars, flagVars, bt, ev,
                   packVars, hci, linkVars>>

subscribe ==
    /\ MainRuns
    /\ registered = Pins /\ hci # "off"
    /\ ~subscribed
    /\ subscribed' = TRUE
    /\ UNCHANGED <<gpioVars, registered, reportVars, flagVars, bt, ev, packVars,
                   hci, linkVars>>
-----------------------------------------------------------------------------
(* packet_handler and hid_event_handler, one assignment at a time          *)

\* BTSTACK_EVENT_STATE, HCI_STATE_WORKING: publishes BluetoothReady.
HciWorking ==
    /\ BtFree
    /\ hci = "starting"
    /\ hci' = "working"
    /\ bt' = "try"
    /\ UNCHANGED <<gpioVars, bootVars, reportVars, flagVars, ev, packVars,
                   linkVars>>

\* CONNECTION_OPENED with success: our attempt, or a host that connects to us
\* (which takes the place of an attempt in progress).
ConnectionOpened(c) ==
    /\ BtFree
    /\ hci = "working"
    /\ link = NoCid
    /\ link' = c /\ attempt' = NoCid
    /\ wanted' = FALSE /\ host' = Released
    /\ touched' = FALSE /\ overtaken' = FALSE
    /\ bt' = "cid" /\ ev' = "opened"
    /\ UNCHANGED <<gpioVars, bootVars, reportVars, flagVars, packVars, hci>>

\* CONNECTION_OPENED with an error status: our attempt failed.
ConnectionFailed ==
    /\ BtFree
    /\ attempt # NoCid
    /\ attempt' = NoCid
    /\ bt' = "cid" /\ ev' = "failed"
    /\ UNCHANGED <<gpioVars, bootVars, reportVars, flagVars, packVars, hci,
                   link, wanted, host, touched, overtaken>>

ConnectionClosed ==
    /\ BtFree
    /\ link # NoCid
    /\ link' = NoCid /\ wanted' = FALSE
    /\ bt' = "cid" /\ ev' = "closed"
    /\ UNCHANGED <<gpioVars, bootVars, reportVars, flagVars, packVars, hci,
                   attempt, host, touched, overtaken>>

\* MUTANT: the flag is set before the cid.
UpdateConnection_FlagFirst ==
    /\ BtRuns
    /\ \/ /\ bt = "cid"
          /\ connected' = (ev = "opened")
          /\ bt' = "flag"
          /\ UNCHANGED hid_cid
       \/ /\ bt = "flag"
          /\ hid_cid' = IF ev = "opened" THEN link ELSE NoCid
          /\ bt' = "publish"
          /\ UNCHANGED connected
    /\ UNCHANGED <<gpioVars, bootVars, reportVars, ev, packVars, hci, linkVars>>

\* The two assignments all three branches make, in their order: the cid, then
\* the flag the interrupt tests.
UpdateConnection ==
    /\ BtRuns
    /\ \/ /\ bt = "cid"
          /\ hid_cid' = IF ev = "opened" THEN link ELSE NoCid
          /\ bt' = "flag"
          /\ UNCHANGED connected
       \/ /\ bt = "flag"
          /\ connected' = (ev = "opened")
          /\ bt' = "publish"
          /\ UNCHANGED hid_cid
    /\ UNCHANGED <<gpioVars, bootVars, reportVars, ev, packVars, hci, linkVars>>

\* MUTANT: the BluetoothConnected subscriber ignores ev.connected.
PublishConnection_AlwaysRetry ==
    /\ BtRuns
    /\ bt = "publish"
    /\ bt' = "try"
    /\ ev' = "none"
    /\ UNCHANGED <<gpioVars, bootVars, reportVars, flagVars, packVars, hci,
                   linkVars>>

\* BluetoothConnected or BluetoothDisconnected reaches bt_reconnect's
\* subscribers: all but a successful connection try the next link key.
PublishConnection ==
    /\ BtRuns
    /\ bt = "publish"
    /\ bt' = IF ev # "closed" /\ connected THEN "idle" ELSE "try"
    /\ ev' = "none"
    /\ UNCHANGED <<gpioVars, bootVars, reportVars, flagVars, packVars, hci,
                   linkVars>>

\* link_key_iterator_try_next, the key database left open (see Reconnect): no
\* key is left, or hid_device_connect stores a cid through get_hid_cid() and
\* starts an attempt, or it fails, a status nobody looks at.
link_key_iterator_try_next ==
    /\ BtRuns
    /\ bt = "try"
    /\ bt' = "idle"
    /\ \/ UNCHANGED <<hid_cid, attempt>>
       \/ \E c \in Cids :
             /\ hid_cid' = c
             /\ attempt' \in {c, NoCid}
    /\ UNCHANGED <<gpioVars, bootVars, reportVars, connected, ev, packVars, hci,
                   link, wanted, host, touched, overtaken>>

\* CAN_SEND_NOW: transmit_report starts to pack bt_init's report.
CanSendNow ==
    /\ BtFree
    /\ wanted
    /\ wanted' = FALSE /\ overtaken' = FALSE
    /\ bt' = "pack" /\ unread' = Pins /\ msg' = Released
    /\ UNCHANGED <<gpioVars, bootVars, reportVars, flagVars, ev, hci, link,
                   attempt, host, touched>>

\* to_packed reads the fields one by one, in an order the compiler chooses.
PackField(p) ==
    /\ BtRuns
    /\ bt = "pack"
    /\ p \in unread
    /\ msg' = [msg EXCEPT ![p] = hid_report[p]]
    /\ unread' = unread \ {p}
    /\ UNCHANGED <<gpioVars, bootVars, reportVars, flagVars, bt, ev, hci,
                   linkVars>>

\* MUTANT: the message is lost when a newer request is already pending, and
\* that request is forgotten with it.
SendMessage_DropsRequest ==
    /\ BtRuns
    /\ bt = "pack"
    /\ unread = {}
    /\ host' = IF hid_cid = link /\ ~wanted THEN msg ELSE host
    /\ wanted' = FALSE
    /\ bt' = "idle" /\ msg' = Released
    /\ UNCHANGED <<gpioVars, bootVars, reportVars, flagVars, ev, unread, hci,
                   link, attempt, touched, overtaken>>

\* hid_device_send_interrupt_message: BTstack ignores a cid it does not know.
SendMessage ==
    /\ BtRuns
    /\ bt = "pack"
    /\ unread = {}
    /\ host' = IF hid_cid = link THEN msg ELSE host
    /\ bt' = "idle" /\ msg' = Released
    /\ UNCHANGED <<gpioVars, bootVars, reportVars, flagVars, ev, unread, hci,
                   link, attempt, wanted, touched, overtaken>>
-----------------------------------------------------------------------------
Boot == init_bt \/ subscribe
            \/ \E p \in Pins : register_button_state_listener(p)

BtHandler == UpdateConnection \/ PublishConnection
                \/ link_key_iterator_try_next \/ SendMessage
                \/ \E p \in Pins : PackField(p)

LinkEvent == HciWorking \/ ConnectionFailed \/ ConnectionClosed
                \/ \E c \in Cids : ConnectionOpened(c)

Next ==
    \/ \E p \in Pins : Edge(p)
    \/ \E p \in Pins : IrqEnter(p)
    \/ gpio_interrupt_callback
    \/ Boot
    \/ BtHandler
    \/ LinkEvent
    \/ CanSendNow

\* A latched interrupt is taken, a handler that has started finishes, main()
\* goes on booting, and BTstack grants a request while the link stays up.
\* Players, hosts and the radio owe nothing.
Fairness ==
    /\ \A p \in Pins : WF_vars(IrqEnter(p))
    /\ WF_vars(gpio_interrupt_callback)
    /\ WF_vars(Boot)
    /\ WF_vars(BtHandler)
    /\ WF_vars(CanSendNow)

Spec == Init /\ [][Next]_vars
FairSpec == Spec /\ Fairness
-----------------------------------------------------------------------------
(* Properties                                                              *)

\* A button that moved since main() subscribed is reported as it is, once no
\* edge of it is latched or in service: the callback reads the level after
\* the edge was acknowledged, so no change falls between the two
\* (buttons.cpp:8-16, main.cpp:217-229).
LevelReported ==
    \A p \in moved : p \in latched \/ irq = p \/ report[p] = level[p]

\* Whenever no connection handler is half way, the flag the interrupt tests
\* says whether a channel is open and hid_cid names that channel; during an
\* outgoing attempt hid_cid names the attempt. hid_cid has two writers, the
\* events of bt_init.cpp:45-66 and, through get_hid_cid(), hid_device_connect
\* (bt_reconnect.cpp:40).
ConnectionConsistent ==
    /\ bt \in {"idle", "pack"} =>
          /\ connected <=> link # NoCid
          /\ connected => hid_cid = link
    /\ attempt # NoCid => hid_cid = attempt /\ ~connected

\* A report that to_packed read while the interrupt overwrote it (half of the
\* old, half of the new) is never the last one, unless BTstack answered the
\* interrupt's request inside the call: the request is still pending and will
\* send the whole (bt_init.cpp:33, 199-200).
TornIsFollowed ==
    bt = "pack" /\ ~wanted /\ ~overtaken =>
        \A p \in Pins \ unread : msg[p] = hid_report[p]

\* End to end: on an open channel over which a change was accepted, once no
\* edge, handler or request is pending the host holds every button that moved
\* as it physically is. The one exception is a report overtaken while it was
\* packed: it reaches the host after the newer one and stays.
HostSeesButtons ==
    BtFree /\ latched = {} /\ ~wanted /\ connected /\ touched /\ ~overtaken =>
        \A p \in moved : host[p] = level[p]

\* Nothing from outside disturbs the path: no button moves and the channel
\* neither opens nor closes.
Disturbance ==
    \/ \E p \in Pins : Edge(p)
    \/ ConnectionClosed
    \/ \E c \in Cids : ConnectionOpened(c)

\* When the player and the radio come to rest, an open channel over which a
\* change was accepted ends up showing the host every button that moved:
\* interrupts, requests and transmissions all drain (bt_init.cpp:69-71,
\* 195-202).
Settles ==
    <>[][~Disturbance]_vars =>
        <>[](link # NoCid /\ touched /\ ~overtaken =>
                \A p \in moved : host[p] = level[p])

\* A button that has not moved since main() subscribed was never read; an
\* overtaken report is not vouched for.
Mirror == INSTANCE ButtonMirror WITH
    Buttons <- Pins,
    held    <- {p \in Pins : level[p]},
    known   <- {p \in Pins : report[p]},
    host    <- {p \in Pins : host[p]},
    unseen  <- (Pins \ moved) \cup latched \cup ({irq} \cap Pins),
    vouched <- link # NoCid /\ touched /\ ~overtaken,
    owed    <- wanted \/ bt = "pack"

\* Step by step the interrupt, the handlers and the transmission do what
\* ButtonMirror promises: whatever is sent while changes come in is followed
\* by another report (bt_init.cpp:30-71, 190-202).
ImplementsMirror == Mirror!Spec
=============================================================================
