-------------------------- MODULE ReportPathProofs --------------------------
(***************************************************************************)
(* Proofs about ReportPath for every set of pins and channel identifiers.  *)
(* Three invariants, each inductive given the ones before it:              *)
(*   LevelInv  the GPIO block, the interrupt and main()'s report agree;    *)
(*   LinkInv   the flag and the cid of bt_init.cpp against the channel, at *)
(*             every assignment of a connection handler;                   *)
(*   HostInv   what the host has, or is owed, against the two reports.     *)
(***************************************************************************)
EXTENDS ReportPath, TLAPS

LevelInv ==
    /\ LevelReported
    /\ moved # {} => subscribed
    /\ subscribed => registered = Pins

LinkInv ==
    /\ bt \in {"idle", "pack"} => (connected <=> link # NoCid)
    /\ bt = "pack" => link # NoCid
    /\ bt \in {"cid", "flag", "publish"} => (link # NoCid <=> ev = "opened")
    /\ bt \in {"cid", "flag"} /\ ev = "opened" => ~connected
    /\ bt \in {"flag", "publish"} => hid_cid = link
    /\ bt = "publish" => (connected <=> link # NoCid)
    /\ bt = "try" => link = NoCid /\ ~connected
    /\ connected /\ link # NoCid => hid_cid = link
    /\ attempt # NoCid => bt = "idle" /\ link = NoCid /\ hid_cid = attempt
    /\ wanted => link # NoCid
    /\ hci # "working" => link = NoCid /\ attempt = NoCid /\ bt = "idle"

HostInv ==
    /\ wanted \/ bt = "pack" => touched
    /\ touched /\ link # NoCid => connected /\ hid_report = report
    /\ bt = "pack" /\ ~wanted /\ ~overtaken =>
          \A p \in Pins \ unread : msg[p] = hid_report[p]
    /\ touched /\ link # NoCid /\ ~wanted /\ ~overtaken /\ bt # "pack" =>
          host = hid_report
-----------------------------------------------------------------------------
LEMMA TypeStep == TypeOK /\ [Next]_vars => TypeOK'
<1> USE ConstantsAssumption DEF TypeOK, Reports, Released, BtSteps, Events
<1> SUFFICES ASSUME TypeOK, [Next]_vars PROVE TypeOK'
  OBVIOUS
<1>1. TypeOK'
  <2>1. ASSUME NEW p \in Pins, Edge(p) PROVE TypeOK'
    BY <2>1 DEF Edge, bootVars, reportVars, flagVars, packVars, linkVars
  <2>2. ASSUME NEW p \in Pins, IrqEnter(p) PROVE TypeOK'
    BY <2>2 DEF IrqEnter, bootVars, reportVars, flagVars, packVars, linkVars
  <2>3. CASE gpio_interrupt_callback
    <3>1. report' \in Reports
      BY <2>3 DEF gpio_interrupt_callback, ButtonStateChange, reportVars
    <3>2. /\ hid_report' \in Reports /\ host' \in Reports
          /\ wanted' \in BOOLEAN /\ touched' \in BOOLEAN
          /\ overtaken' \in BOOLEAN
      BY <2>3, <3>1 DEF gpio_interrupt_callback, reportVars,
                        ButtonStateChange, send_report, RequestCanSendNow
    <3> QED
      BY <2>3, <3>1, <3>2 DEF gpio_interrupt_callback, bootVars, flagVars,
                              packVars
  <2>4. CASE Boot
    <3>1. CASE init_bt
      BY <3>1 DEF init_bt, gpioVars, bootVars, flagVars, packVars, linkVars
    <3>2. CASE subscribe
      BY <3>2 DEF subscribe, gpioVars, reportVars, flagVars, packVars, linkVars
    <3>3. ASSUME NEW p \in Pins, register_button_state_listener(p)
          PROVE  TypeOK'
      BY <3>3 DEF register_button_state_listener, reportVars, flagVars,
                  packVars, linkVars
    <3> QED BY <2>4, <3>1, <3>2, <3>3 DEF Boot
  <2>5. CASE BtHandler
    <3>1. CASE UpdateConnection
      <4>1. connected' \in BOOLEAN
        BY <3>1 DEF UpdateConnection
      <4>2. hid_cid' \in Cids \cup {NoCid} /\ bt' \in BtSteps
        BY <3>1 DEF UpdateConnection
      <4> QED
        BY <3>1, <4>1, <4>2 DEF UpdateConnection, gpioVars, bootVars,
                                reportVars, packVars, linkVars
    <3>2. CASE PublishConnection
      BY <3>2 DEF PublishConnection, gpioVars, bootVars, reportVars, flagVars,
                  packVars, linkVars
    <3>3. CASE link_key_iterator_try_next
      BY <3>3 DEF link_key_iterator_try_next, gpioVars, bootVars, reportVars,
                  packVars
    <3>4. CASE SendMessage
      BY <3>4 DEF SendMessage, gpioVars, bootVars, reportVars, flagVars
    <3>5. ASSUME NEW p \in Pins, PackField(p) PROVE TypeOK'
      BY <3>5 DEF PackField, gpioVars, bootVars, reportVars, flagVars, linkVars
    <3> QED BY <2>5, <3>1, <3>2, <3>3, <3>4, <3>5 DEF BtHandler
  <2>6. CASE LinkEvent
    <3>1. CASE HciWorking
      BY <3>1 DEF HciWorking, gpioVars, bootVars, reportVars, flagVars,
                  packVars, linkVars
    <3>2. CASE ConnectionFailed
      BY <3>2 DEF ConnectionFailed, gpioVars, bootVars, reportVars, flagVars,
                  packVars
    <3>3. CASE ConnectionClosed
      BY <3>3 DEF ConnectionClosed, gpioVars, bootVars, reportVars, flagVars,
                  packVars
    <3>4. ASSUME NEW c \in Cids, ConnectionOpened(c) PROVE TypeOK'
      BY <3>4 DEF ConnectionOpened, gpioVars, bootVars, reportVars, flagVars,
                  packVars
    <3> QED BY <2>6, <3>1, <3>2, <3>3, <3>4 DEF LinkEvent
  <2>7. CASE CanSendNow
    BY <2>7 DEF CanSendNow, gpioVars, bootVars, reportVars, flagVars
  <2>8. CASE UNCHANGED vars
    BY <2>8 DEF vars, gpioVars, bootVars, reportVars, flagVars, packVars,
                linkVars
  <2> QED BY <2>1, <2>2, <2>3, <2>4, <2>5, <2>6, <2>7, <2>8 DEF Next
<1> QED BY <1>1

(* Every variable keeps its type, whatever the interleaving of the three   *)
(* contexts.                                                               *)
THEOREM TypeCorrect == Spec => []TypeOK
<1>1. Init => TypeOK
  BY ConstantsAssumption DEF Init, TypeOK, Reports, Released, BtSteps, Events
<1> QED BY <1>1, TypeStep, PTL DEF Spec
-----------------------------------------------------------------------------
(* BTstack's handlers touch neither the pins nor main()'s globals.         *)
LEMMA HandlersLeavePins ==
  ASSUME BtHandler \/ LinkEvent \/ CanSendNow \/ UNCHANGED vars
  PROVE  UNCHANGED <<gpioVars, bootVars, report>>
<1>1. CASE BtHandler
  BY <1>1 DEF BtHandler, UpdateConnection, PublishConnection,
              link_key_iterator_try_next, SendMessage, PackField, reportVars
<1>2. CASE LinkEvent
  BY <1>2 DEF LinkEvent, HciWorking, ConnectionFailed, ConnectionClosed,
              ConnectionOpened, reportVars
<1>3. CASE CanSendNow
  BY <1>3 DEF CanSendNow, reportVars
<1>4. CASE UNCHANGED vars
  BY <1>4 DEF vars, reportVars
<1> QED BY <1>1, <1>2, <1>3, <1>4

LEMMA LevelInvariant == Spec => []LevelInv
<1>1. Init => LevelInv
  BY DEF Init, LevelInv, LevelReported
<1>2. TypeOK /\ LevelInv /\ [Next]_vars => LevelInv'
  <2> SUFFICES ASSUME TypeOK, LevelInv, [Next]_vars PROVE LevelInv'
    OBVIOUS
  <2> USE ConstantsAssumption DEF LevelInv, LevelReported
  <2>1. ASSUME NEW p \in Pins, Edge(p) PROVE LevelInv'
    <3>1. /\ level' = [level EXCEPT ![p] = ~@] /\ level \in [Pins -> BOOLEAN]
          /\ UNCHANGED <<irq, report, registered, subscribed>>
          /\ moved' = IF subscribed THEN moved \cup {p} ELSE moved
          /\ latched' = IF p \in registered THEN latched \cup {p} ELSE latched
          /\ moved \subseteq Pins
      BY <2>1 DEF Edge, bootVars, reportVars, TypeOK, Reports
    <3> QED BY <3>1
  <2>2. ASSUME NEW p \in Pins, IrqEnter(p) PROVE LevelInv'
    BY <2>2 DEF IrqEnter, bootVars, reportVars, TypeOK
  <2>3. CASE gpio_interrupt_callback
    <3>1. /\ irq \in Pins /\ irq' = NoPin /\ report \in [Pins -> BOOLEAN]
          /\ UNCHANGED <<level, latched, moved, registered, subscribed>>
      BY <2>3 DEF gpio_interrupt_callback, bootVars, TypeOK, Reports
    <3>2. CASE subscribed
      <4>1. report' = [report EXCEPT ![irq] = level[irq]]
        BY <2>3, <3>2 DEF gpio_interrupt_callback, ButtonStateChange
      <4> QED BY <3>1, <4>1
    <3>3. CASE ~subscribed
      BY <3>1, <3>3
    <3> QED BY <3>2, <3>3
  <2>4. CASE Boot
    <3>1. CASE init_bt
      BY <3>1 DEF init_bt, gpioVars, bootVars
    <3>2. CASE subscribe
      BY <3>2 DEF subscribe, gpioVars, reportVars
    <3>3. ASSUME NEW p \in Pins, register_button_state_listener(p)
          PROVE  LevelInv'
      BY <3>3 DEF register_button_state_listener, reportVars
    <3> QED BY <2>4, <3>1, <3>2, <3>3 DEF Boot
  <2>5. CASE BtHandler \/ LinkEvent \/ CanSendNow \/ UNCHANGED vars
    BY <2>5, HandlersLeavePins DEF gpioVars, bootVars
  <2> QED BY <2>1, <2>2, <2>3, <2>4, <2>5 DEF Next
<1> QED BY <1>1, <1>2, TypeCorrect, PTL DEF Spec

(* A button that moved since start-up is reported as it is, unless its     *)
(* edge is still latched or in service: acknowledging before reading loses *)
(* no change.                                                              *)
THEOREM LevelsReported == Spec => []LevelReported
<1>1. LevelInv => LevelReported
  BY DEF LevelInv
<1> QED BY <1>1, LevelInvariant, PTL
-----------------------------------------------------------------------------
(* The variables LinkInv is about, but for wanted.                         *)
connVars == <<connected, hid_cid, bt, ev, hci, link, attempt>>

(* An interrupt can only add to, or take from, what the link is owed.      *)
LEMMA InterruptKeepsLinkInv ==
  ASSUME TypeOK, LinkInv, gpio_interrupt_callback
  PROVE  LinkInv'
<1>1. UNCHANGED connVars
  BY DEF gpio_interrupt_callback, flagVars, connVars
<1>2. wanted' => wanted \/ link # NoCid
  <2>1. CASE subscribed /\ connected /\ hid_cid = link /\ hid_cid # NoCid
    BY <2>1
  <2>2. CASE ~(subscribed /\ connected /\ hid_cid = link /\ hid_cid # NoCid)
    BY <2>2 DEF gpio_interrupt_callback, ButtonStateChange, send_report, RequestCanSendNow
  <2> QED BY <2>1, <2>2
<1> QED BY <1>1, <1>2 DEF LinkInv, connVars

LEMMA LinkInvariant == Spec => []LinkInv
<1>1. Init => LinkInv
  BY DEF Init, LinkInv
<1>2. TypeOK /\ LinkInv /\ [Next]_vars => LinkInv'
  <2> SUFFICES ASSUME TypeOK, LinkInv, [Next]_vars PROVE LinkInv'
    OBVIOUS
  <2> USE ConstantsAssumption
  <2>1. ASSUME UNCHANGED <<connVars, wanted>> PROVE LinkInv'
    BY <2>1 DEF LinkInv, connVars
  <2>2. ASSUME NEW p \in Pins, Edge(p) \/ IrqEnter(p) PROVE LinkInv'
    BY <2>1, <2>2 DEF Edge, IrqEnter, connVars, flagVars, linkVars
  <2>3. CASE gpio_interrupt_callback
    BY <2>3, InterruptKeepsLinkInv
  <2>4. CASE Boot
    <3>1. CASE init_bt
      BY <3>1 DEF init_bt, LinkInv, flagVars, linkVars
    <3>2. CASE subscribe
      BY <2>1, <3>2 DEF subscribe, connVars, flagVars, linkVars
    <3>3. ASSUME NEW p \in Pins, register_button_state_listener(p)
          PROVE  LinkInv'
      BY <2>1, <3>3 DEF register_button_state_listener, connVars, flagVars,
                        linkVars
    <3> QED BY <2>4, <3>1, <3>2, <3>3 DEF Boot
  <2>5. CASE BtHandler
    <3>1. CASE UpdateConnection
      <4>1. UNCHANGED <<ev, hci, link, attempt, wanted>>
        BY <3>1 DEF UpdateConnection, linkVars
      <4>2. CASE bt = "cid"
        <5>1. hid_cid' = link /\ bt' = "flag" /\ UNCHANGED connected
          BY <3>1, <4>2 DEF UpdateConnection, LinkInv
        <5> QED BY <4>1, <4>2, <5>1 DEF LinkInv
      <4>3. CASE bt = "flag"
        <5>1. /\ connected' = (ev = "opened")
              /\ bt' = "publish" /\ UNCHANGED hid_cid
          BY <3>1, <4>3 DEF UpdateConnection
        <5> QED BY <4>1, <4>3, <5>1 DEF LinkInv
      <4> QED BY <3>1, <4>2, <4>3 DEF UpdateConnection
    <3>2. CASE PublishConnection
      BY <3>2 DEF PublishConnection, LinkInv, flagVars, linkVars
    <3>3. CASE link_key_iterator_try_next
      BY <3>3 DEF link_key_iterator_try_next, LinkInv, TypeOK
    <3>4. CASE SendMessage
      BY <3>4 DEF SendMessage, LinkInv, flagVars
    <3>5. ASSUME NEW p \in Pins, PackField(p) PROVE LinkInv'
      BY <2>1, <3>5 DEF PackField, connVars, flagVars, linkVars
    <3> QED BY <2>5, <3>1, <3>2, <3>3, <3>4, <3>5 DEF BtHandler
  <2>6. CASE LinkEvent
    <3>1. CASE HciWorking
      BY <3>1 DEF HciWorking, BtFree, LinkInv, flagVars, linkVars
    <3>2. CASE ConnectionFailed
      BY <3>2 DEF ConnectionFailed, BtFree, LinkInv, flagVars
    <3>3. CASE ConnectionClosed
      BY <3>3 DEF ConnectionClosed, BtFree, LinkInv, flagVars
    <3>4. ASSUME NEW c \in Cids, ConnectionOpened(c) PROVE LinkInv'
      BY <3>4 DEF ConnectionOpened, BtFree, LinkInv, flagVars
    <3> QED BY <2>6, <3>1, <3>2, <3>3, <3>4 DEF LinkEvent
  <2>7. CASE CanSendNow
    BY <2>7 DEF CanSendNow, BtFree, LinkInv, flagVars
  <2>8. CASE UNCHANGED vars
    BY <2>1, <2>8 DEF vars, connVars, flagVars, linkVars
  <2> QED BY <2>2, <2>3, <2>4, <2>5, <2>6, <2>7, <2>8 DEF Next
<1> QED BY <1>1, <1>2, TypeCorrect, PTL DEF Spec

(* Outside a connection handler, connected says whether a channel is open  *)
(* and hid_cid names it; hid_cid names an outgoing attempt as long as it   *)
(* lasts.                                                                  *)
THEOREM ConnectionsConsistent == Spec => []ConnectionConsistent
<1>1. LinkInv => ConnectionConsistent
  BY DEF LinkInv, ConnectionConsistent
<1> QED BY <1>1, LinkInvariant, PTL
-----------------------------------------------------------------------------
(* What HostInv is about, but for the interrupt's writes.                  *)
hostVars == <<report, hid_report, connected, bt, packVars, link, wanted, host,
              touched, overtaken>>

(* The interrupt leaves both reports equal and the link either owed a      *)
(* report or, if BTstack answered at once, in possession of it.            *)
LEMMA InterruptKeepsHostInv ==
  ASSUME TypeOK, LinkInv, HostInv, gpio_interrupt_callback
  PROVE  HostInv'
<1>1. UNCHANGED <<connected, bt, unread, msg, link>>
  BY DEF gpio_interrupt_callback, flagVars, packVars
<1>2. CASE subscribed /\ connected
  <2>1. hid_report' = report' /\ touched'
    BY <1>2 DEF gpio_interrupt_callback, ButtonStateChange, send_report
  <2>2. CASE link = NoCid
    BY <1>1, <2>1, <2>2 DEF HostInv, LinkInv
  <2>3. CASE link # NoCid
    <3>1. hid_cid = link /\ hid_cid # NoCid
      BY <1>2, <2>3 DEF LinkInv
    <3>2. \/ wanted'
          \/ host' = hid_report' /\ (overtaken' <=> bt = "pack")
      BY <1>2, <3>1, <2>1
         DEF gpio_interrupt_callback, ButtonStateChange, send_report,
             RequestCanSendNow
    <3> QED BY <1>1, <1>2, <2>1, <2>3, <3>2 DEF HostInv
  <2> QED BY <2>2, <2>3
<1>3. CASE ~(subscribed /\ connected)
  <2>1. UNCHANGED <<hid_report, wanted, host, touched, overtaken>>
    BY <1>3 DEF gpio_interrupt_callback, ButtonStateChange, send_report, reportVars
  <2>2. ~subscribed => report' = report
    BY DEF gpio_interrupt_callback, reportVars
  <2> QED BY <1>1, <1>3, <2>1, <2>2 DEF HostInv
<1> QED BY <1>2, <1>3

LEMMA HostInvariant == Spec => []HostInv
<1>1. Init => HostInv
  BY DEF Init, HostInv
<1>2. TypeOK /\ LinkInv /\ HostInv /\ [Next]_vars => HostInv'
  <2> SUFFICES ASSUME TypeOK, LinkInv, HostInv, [Next]_vars PROVE HostInv'
    OBVIOUS
  <2> USE ConstantsAssumption
  <2>1. ASSUME UNCHANGED hostVars PROVE HostInv'
    BY <2>1 DEF HostInv, hostVars, packVars
  <2>2. ASSUME NEW p \in Pins, Edge(p) \/ IrqEnter(p) PROVE HostInv'
    BY <2>1, <2>2 DEF Edge, IrqEnter, hostVars, reportVars, flagVars, packVars,
                      linkVars
  <2>3. CASE gpio_interrupt_callback
    BY <2>3, InterruptKeepsHostInv
  <2>4. CASE Boot
    <3>1. CASE init_bt
      BY <3>1 DEF init_bt, LinkInv, HostInv, flagVars, packVars, linkVars
    <3>2. CASE subscribe
      BY <2>1, <3>2 DEF subscribe, hostVars, reportVars, flagVars, packVars,
                        linkVars
    <3>3. ASSUME NEW p \in Pins, register_button_state_listener(p)
          PROVE  HostInv'
      BY <2>1, <3>3 DEF register_button_state_listener, hostVars, reportVars,
                        flagVars, packVars, linkVars
    <3> QED BY <2>4, <3>1, <3>2, <3>3 DEF Boot
  <2>5. CASE BtHandler
    <3>1. CASE UpdateConnection
      <4>1. UNCHANGED <<reportVars, packVars, linkVars>>
        BY <3>1 DEF UpdateConnection
      <4>2. bt \in {"cid", "flag"} /\ bt' \in {"flag", "publish"}
        BY <3>1 DEF UpdateConnection
      <4>3. link # NoCid /\ connected => connected'
        BY <3>1, <4>2 DEF UpdateConnection, LinkInv
      <4> QED BY <4>1, <4>2, <4>3 DEF HostInv, reportVars, packVars, linkVars
    <3>2. CASE PublishConnection
      BY <3>2 DEF PublishConnection, HostInv, reportVars, flagVars, packVars,
                  linkVars
    <3>3. CASE link_key_iterator_try_next
      BY <3>3 DEF link_key_iterator_try_next, LinkInv, HostInv, reportVars,
                  packVars
    <3>4. CASE SendMessage
      <4>1. link # NoCid /\ ~wanted /\ ~overtaken => msg = hid_report
        <5> SUFFICES ASSUME ~wanted, ~overtaken PROVE msg = hid_report
          OBVIOUS
        <5>1. \A p \in Pins : msg[p] = hid_report[p]
          BY <3>4 DEF SendMessage, HostInv
        <5> QED BY <5>1 DEF TypeOK, Reports
      <4>2. connected => hid_cid = link
        BY <3>4 DEF SendMessage, LinkInv
      <4>3. /\ UNCHANGED <<reportVars, flagVars, link, wanted, touched,
                           overtaken>>
            /\ bt = "pack" /\ bt' = "idle"
            /\ host' = IF hid_cid = link THEN msg ELSE host
        BY <3>4 DEF SendMessage
      <4> QED BY <4>1, <4>2, <4>3 DEF HostInv, reportVars, flagVars
    <3>5. ASSUME NEW p \in Pins, PackField(p) PROVE HostInv'
      <4>1. /\ UNCHANGED <<reportVars, flagVars, bt, linkVars>>
            /\ bt = "pack" /\ unread' = unread \ {p}
            /\ msg' = [msg EXCEPT ![p] = hid_report[p]]
            /\ msg \in [Pins -> BOOLEAN]
        BY <3>5 DEF PackField, TypeOK, Reports
      <4> QED BY <4>1 DEF HostInv, reportVars, flagVars, linkVars
    <3> QED BY <2>5, <3>1, <3>2, <3>3, <3>4, <3>5 DEF BtHandler
  <2>6. CASE LinkEvent
    <3>1. CASE HciWorking
      BY <3>1 DEF HciWorking, BtFree, LinkInv, HostInv, reportVars, flagVars,
                  packVars, linkVars
    <3>2. CASE ConnectionFailed
      BY <3>2 DEF ConnectionFailed, BtFree, LinkInv, HostInv, reportVars,
                  flagVars, packVars
    <3>3. CASE ConnectionClosed
      BY <3>3 DEF ConnectionClosed, BtFree, HostInv, reportVars, flagVars,
                  packVars
    <3>4. ASSUME NEW c \in Cids, ConnectionOpened(c) PROVE HostInv'
      BY <3>4 DEF ConnectionOpened, BtFree, HostInv, reportVars, flagVars,
                  packVars
    <3> QED BY <2>6, <3>1, <3>2, <3>3, <3>4 DEF LinkEvent
  <2>7. CASE CanSendNow
    BY <2>7 DEF CanSendNow, BtFree, LinkInv, HostInv, reportVars, flagVars
  <2>8. CASE UNCHANGED vars
    BY <2>1, <2>8 DEF vars, hostVars, reportVars, flagVars, linkVars
  <2> QED BY <2>2, <2>3, <2>4, <2>5, <2>6, <2>7, <2>8 DEF Next
<1> QED BY <1>1, <1>2, TypeCorrect, LinkInvariant, PTL DEF Spec

(* A torn report is always followed by a whole one, unless the stack let   *)
(* the newer report overtake it.                                           *)
THEOREM TornFollowed == Spec => []TornIsFollowed
<1>1. HostInv => TornIsFollowed
  BY DEF HostInv, TornIsFollowed
<1> QED BY <1>1, HostInvariant, PTL

(* At rest, on an open channel over which a change was accepted, the host  *)
(* holds every button that moved as it physically is: the host has         *)
(* bt_init's report, which is main()'s report, which is the pins.          *)
THEOREM HostSees == Spec => []HostSeesButtons
<1>1. TypeOK /\ LevelReported /\ LinkInv /\ HostInv => HostSeesButtons
  <2> SUFFICES ASSUME TypeOK, LevelReported, LinkInv, HostInv,
                      BtFree, latched = {}, ~wanted, connected, touched,
                      ~overtaken, NEW p \in moved
               PROVE  host[p] = level[p]
    BY DEF HostSeesButtons
  <2>1. host = report
    BY DEF BtFree, LinkInv, HostInv
  <2>2. report[p] = level[p]
    BY ConstantsAssumption DEF BtFree, LevelReported, TypeOK
  <2> QED BY <2>1, <2>2
<1> QED BY <1>1, TypeCorrect, LevelsReported, LinkInvariant, HostInvariant, PTL
-----------------------------------------------------------------------------
(* What the mapping to ButtonMirror is made of. *)
pinVars == <<level, report, moved, latched, irq>>
saidVars == <<link, touched, overtaken, wanted, bt, host>>

(* The interrupt reads its pin; an open channel that vouches is told, at    *)
(* once or later, unless the answer overtakes a report.                    *)
LEMMA InterruptReads ==
  ASSUME TypeOK, LevelInv, LinkInv, HostInv, gpio_interrupt_callback
  PROVE  Mirror!Next \/ UNCHANGED Mirror!vars
<1> USE ConstantsAssumption
<1>1. /\ irq \in Pins /\ irq' = NoPin
      /\ UNCHANGED <<level, latched, moved, bt, link, connected>>
      /\ report \in [Pins -> BOOLEAN] /\ level \in [Pins -> BOOLEAN]
      /\ latched \subseteq Pins /\ moved \subseteq Pins
  BY DEF gpio_interrupt_callback, flagVars, TypeOK, Reports
<1>2. TypeOK'
  <2>1. Next
    BY DEF Next
  <2> QED BY <2>1, TypeStep
<1>3. CASE subscribed
  <2>1. /\ report' = [report EXCEPT ![irq] = level[irq]]
        /\ send_report(report')
    BY <1>3 DEF gpio_interrupt_callback, ButtonStateChange
  <2>2. Mirror!Tell \/ (report' = report /\ UNCHANGED Mirror!linkVars)
    <3>1. CASE link = NoCid
      BY <1>1, <3>1 DEF Mirror!Tell
    <3>2. CASE link # NoCid /\ connected
      <4>1. hid_cid = link /\ hid_cid # NoCid /\ touched'
        BY <2>1, <3>2 DEF LinkInv, send_report
      <4>2. \/ wanted' /\ UNCHANGED <<host, overtaken>>
            \/ ~wanted' /\ host' = report' /\ overtaken' = (bt = "pack")
        BY <2>1, <3>2, <4>1 DEF send_report, RequestCanSendNow
      <4>3. CASE wanted' /\ UNCHANGED <<host, overtaken>>
        BY <1>1, <1>2, <3>2, <4>1, <4>3 DEF Mirror!Tell, TypeOK
      <4>4. CASE ~wanted' /\ host' = report' /\ overtaken' = (bt = "pack")
        BY <1>1, <1>2, <3>2, <4>1, <4>4 DEF Mirror!Tell, TypeOK
      <4> QED BY <4>2, <4>3, <4>4
    <3>3. CASE link # NoCid /\ ~connected
      <4>1. ~touched /\ UNCHANGED <<wanted, host, touched, overtaken>>
        BY <2>1, <3>3 DEF HostInv, send_report
      <4> QED BY <3>3, <4>1 DEF Mirror!Tell
    <3> QED BY <3>1, <3>2, <3>3
  <2>3. ASSUME NEW p \in Pins, p = irq PROVE Mirror!Read(p)
    BY <1>1, <2>1, <2>2, <2>3 DEF Mirror!Read
  <2>4. \E p \in Pins : Mirror!Read(p)
    BY <1>1, <2>3
  <2> QED BY <2>4 DEF Mirror!Next
<1>4. CASE ~subscribed
  <2>1. UNCHANGED <<report, wanted, host, touched, overtaken>> /\ moved = {}
    BY <1>4 DEF gpio_interrupt_callback, reportVars, LevelInv
  <2> QED BY <1>1, <2>1 DEF Mirror!vars
<1> QED BY <1>3, <1>4

(* A message that leaves is what main() knows, unless another is owed or    *)
(* it was overtaken.                                                       *)
LEMMA MessageDelivers ==
  ASSUME TypeOK, LinkInv, HostInv, SendMessage
  PROVE  Mirror!Next \/ UNCHANGED Mirror!vars
<1>1. /\ UNCHANGED <<pinVars, link, wanted, touched, overtaken>>
      /\ bt = "pack" /\ bt' = "idle" /\ unread = {}
      /\ link # NoCid /\ touched /\ connected /\ hid_cid = link
      /\ host' = msg /\ hid_report = report
      /\ msg \in [Pins -> BOOLEAN] /\ report \in [Pins -> BOOLEAN]
  BY DEF SendMessage, LinkInv, HostInv, TypeOK, Reports, gpioVars, reportVars,
         pinVars
<1>2. CASE overtaken
  BY <1>1, <1>2 DEF Mirror!Next, Mirror!LinkChanges, pinVars
<1>3. CASE ~overtaken /\ wanted
  BY <1>1, <1>3 DEF Mirror!Next, Mirror!Garble, pinVars
<1>4. CASE ~overtaken /\ ~wanted
  <2>1. \A p \in Pins : msg[p] = report[p]
    BY <1>1, <1>4 DEF HostInv
  <2> QED
    BY <1>1, <1>4, <2>1 DEF Mirror!Next, Mirror!Deliver, pinVars
<1> QED BY <1>2, <1>3, <1>4 DEF TypeOK

(* The interrupt, the handlers and the transmission implement ButtonMirror: *)
(* every step of the three contexts is one of its steps or none.           *)
THEOREM MirrorImplemented == Spec => ImplementsMirror
<1> USE ConstantsAssumption
<1>1. Init => Mirror!Init
  BY DEF Init, Mirror!Init, Released, Reports
<1> DEFINE IInv == TypeOK /\ LevelInv /\ LinkInv /\ HostInv
<1>2. IInv /\ [Next]_vars => [Mirror!Next]_(Mirror!vars)
  <2> SUFFICES ASSUME TypeOK, LevelInv, LinkInv, HostInv, [Next]_vars
               PROVE  Mirror!Next \/ UNCHANGED Mirror!vars
    OBVIOUS
  <2>1. ASSUME UNCHANGED <<pinVars, saidVars>>
        PROVE  UNCHANGED Mirror!vars
    BY <2>1 DEF pinVars, saidVars, Mirror!vars
  <2>1a. ASSUME UNCHANGED <<pinVars, link, touched, overtaken, wanted, host>>,
                bt # "pack", bt' # "pack"
         PROVE  UNCHANGED Mirror!vars
    BY <2>1a DEF pinVars, Mirror!vars
  <2> USE DEF pinVars, saidVars, gpioVars, reportVars, linkVars
  <2>2. ASSUME UNCHANGED pinVars, host' \in Reports,
               link' # NoCid /\ touched' /\ ~overtaken' =>
                   /\ ~(link # NoCid /\ touched /\ ~overtaken)
                   /\ wanted' \/ bt' = "pack"
        PROVE  Mirror!Next
    BY <2>2 DEF Mirror!Next, Mirror!LinkChanges, pinVars
  <2>3. ASSUME NEW p \in Pins, Edge(p) PROVE Mirror!Next
    <3>1. /\ level' = [level EXCEPT ![p] = ~@] /\ level \in [Pins -> BOOLEAN]
          /\ moved' = IF subscribed THEN moved \cup {p} ELSE moved
          /\ latched' = IF p \in registered THEN latched \cup {p} ELSE latched
          /\ UNCHANGED <<irq, report, bt, linkVars>>
      BY <2>3 DEF Edge, reportVars, TypeOK, Reports
    <3>2. subscribed => registered = Pins
      BY DEF LevelInv
    <3>3. ~subscribed => moved = {}
      BY DEF LevelInv
    <3>4. Mirror!Move(p)
      BY <3>1, <3>2, <3>3
         DEF Mirror!Move, Mirror!linkVars, linkVars, TypeOK
    <3> QED BY <3>4 DEF Mirror!Next
  <2>4. ASSUME NEW p \in Pins, IrqEnter(p) PROVE UNCHANGED Mirror!vars
    BY <2>4 DEF IrqEnter, reportVars, linkVars, Mirror!vars, TypeOK
  <2>5. CASE gpio_interrupt_callback
    BY <2>5, InterruptReads
  <2>6. CASE Boot
    <3>1. CASE init_bt \/ subscribe
      BY <2>1, <3>1 DEF init_bt, subscribe, pinVars, saidVars, gpioVars,
                        reportVars, linkVars
    <3>2. ASSUME NEW p \in Pins, register_button_state_listener(p)
          PROVE  UNCHANGED Mirror!vars
      <4>1. moved = {} /\ latched' = latched \ {p}
            /\ UNCHANGED <<level, irq, moved, report, bt, linkVars>>
        BY <3>2 DEF register_button_state_listener, LevelInv, reportVars
      <4> QED BY <4>1 DEF Mirror!vars, linkVars, TypeOK
    <3> QED BY <2>6, <3>1, <3>2 DEF Boot
  <2>7. CASE BtHandler
    <3>1. CASE UpdateConnection
      BY <2>1a, <3>1 DEF UpdateConnection
    <3>2. CASE PublishConnection
      BY <2>1a, <3>2 DEF PublishConnection
    <3>3. CASE link_key_iterator_try_next
      BY <2>1a, <3>3 DEF link_key_iterator_try_next
    <3>4. CASE SendMessage
      BY <3>4, MessageDelivers
    <3>5. ASSUME NEW p \in Pins, PackField(p) PROVE UNCHANGED Mirror!vars
      BY <2>1, <3>5 DEF PackField, pinVars, saidVars, gpioVars, reportVars,
                        linkVars
    <3> QED BY <2>7, <3>1, <3>2, <3>3, <3>4, <3>5 DEF BtHandler
  <2>8. CASE LinkEvent
    <3>1. CASE HciWorking
      BY <2>1a, <3>1 DEF HciWorking, BtFree
    <3>2. CASE ConnectionFailed
      BY <2>1a, <3>2 DEF ConnectionFailed, BtFree
    <3>3. CASE ConnectionClosed
      BY <2>2, <3>3 DEF ConnectionClosed, pinVars, gpioVars, reportVars, TypeOK
    <3>4. ASSUME NEW c \in Cids, ConnectionOpened(c) PROVE Mirror!Next
      BY <2>2, <3>4 DEF ConnectionOpened, pinVars, gpioVars, reportVars,
                        Released, Reports
    <3> QED BY <2>8, <3>1, <3>2, <3>3, <3>4 DEF LinkEvent
  <2>9. CASE CanSendNow
    <3>1. /\ UNCHANGED <<pinVars, link, touched, host>>
          /\ wanted /\ ~overtaken' /\ bt' = "pack" /\ host' \in Reports
      BY <2>9 DEF CanSendNow, TypeOK
    <3>2. CASE overtaken
      BY <2>2, <3>1, <3>2
    <3>3. CASE ~overtaken
      BY <3>1, <3>3 DEF Mirror!vars, TypeOK
    <3> QED BY <3>2, <3>3 DEF TypeOK
  <2>10. CASE UNCHANGED vars
    BY <2>1, <2>10 DEF vars, pinVars, saidVars, gpioVars, reportVars, linkVars
  <2> QED BY <2>3, <2>4, <2>5, <2>6, <2>7, <2>8, <2>9, <2>10 DEF Next
<1> QED BY <1>1, <1>2, TypeCorrect, LevelInvariant, LinkInvariant,
           HostInvariant, PTL DEF Spec, ImplementsMirror, Mirror!Spec
-----------------------------------------------------------------------------
(* What ButtonMirror buys: a button that was read since it moved is known  *)
(* as it is, and a host that is vouched for and owed nothing has what is   *)
(* known. MirrorInv is stated of the report path's state and used of       *)
(* ButtonMirror's steps alone.                                             *)
MirrorInv ==
    LET held == {p \in Pins : level[p]}
        known == {p \in Pins : report[p]}
        unseen == (Pins \ moved) \cup latched \cup ({irq} \cap Pins)
    IN  /\ \A p \in Pins \ unseen : p \in known <=> p \in held
        /\ (link # NoCid /\ touched /\ ~overtaken) /\ ~(wanted \/ bt = "pack")
               => {p \in Pins : host[p]} = known

(* A host the guitar vouches for and owes nothing is right about every      *)
(* button that was read since it moved: whatever takes ButtonMirror's      *)
(* steps keeps its promise (bt_init.cpp:30-76).                            *)
THEOREM FollowsHand == Mirror!Spec => []Mirror!Truthful
<1>1. Mirror!Init => MirrorInv
  BY DEF Mirror!Init, MirrorInv
<1>2. MirrorInv /\ [Mirror!Next]_(Mirror!vars) => MirrorInv'
  <2> SUFFICES ASSUME MirrorInv, [Mirror!Next]_(Mirror!vars) PROVE MirrorInv'
    OBVIOUS
  <2> USE DEF MirrorInv, Mirror!linkVars
  <2>1. ASSUME NEW p \in Pins, Mirror!Move(p) PROVE MirrorInv'
    BY <2>1 DEF Mirror!Move
  <2>2. ASSUME NEW p \in Pins, Mirror!Read(p) PROVE MirrorInv'
    BY <2>2 DEF Mirror!Read, Mirror!Tell
  <2>3. CASE Mirror!Deliver
    BY <2>3 DEF Mirror!Deliver
  <2>4. CASE Mirror!Garble
    BY <2>4 DEF Mirror!Garble
  <2>5. CASE Mirror!LinkChanges
    BY <2>5 DEF Mirror!LinkChanges
  <2>6. CASE Mirror!Restart
    BY <2>6 DEF Mirror!Restart
  <2>7. CASE UNCHANGED Mirror!vars
    BY <2>7 DEF Mirror!vars
  <2> QED BY <2>1, <2>2, <2>3, <2>4, <2>5, <2>6, <2>7 DEF Mirror!Next
<1>3. MirrorInv => Mirror!Truthful
  BY DEF MirrorInv, Mirror!Truthful
<1> QED BY <1>1, <1>2, <1>3, PTL DEF Mirror!Spec

(* At any moment, between any two assignments of the three contexts: an    *)
(* open channel over which a change was accepted and that is owed nothing  *)
(* shows every button that was read since it moved (bt_init.cpp:30-71).    *)
THEOREM HostFollowsHand == Spec => []Mirror!Truthful
BY MirrorImplemented, FollowsHand, PTL DEF ImplementsMirror
=============================================================================
