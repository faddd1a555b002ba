-------------------------- MODULE BleGuitarProofs --------------------------
(***************************************************************************)
(* Proofs about BleGuitar for any number of buttons and any handles. Inv   *)
(* says where the three copies of the buttons stand: the two that the scan *)
(* keeps agree, they are right about every button not moved since it was   *)
(* sampled, and the host has the report or is owed it.                     *)
(***************************************************************************)
EXTENDS BleGuitar, TLAPS

ScanInv ==
    \A p \in Buttons :
        /\ p \in report <=> button_states[p]
        /\ p \notin moved => button_states[p] = level[p]

LinkInv ==
    /\ is_connected => con_handle = link
    /\ touched /\ link # HCI_CON_HANDLE_INVALID => is_connected
    /\ is_connected /\ touched /\ ~wanted => host = report

OffInv ==
    phase \in {"off", "asleep"} =>
        link = HCI_CON_HANDLE_INVALID /\ ~is_connected /\ ~wanted

Inv == TypeOK /\ ScanInv /\ LinkInv /\ OffInv

(* What a change does to the link's side, whenever the request is answered. *)
LEMMA SendsOrOwes ==
  ASSUME TypeOK, LinkInv, NEW r \in SUBSET Buttons, report' = r,
         UNCHANGED <<con_handle, link>>, send_hid_report(r)
  PROVE  /\ LinkInv'
         /\ wanted' \in BOOLEAN /\ touched' \in BOOLEAN
         /\ host' \subseteq Buttons
<1> USE DEF LinkInv, TypeOK, send_hid_report, is_connected
<1>1. CASE is_connected
  <2>1. con_handle = link /\ touched'
    BY <1>1
  <2>2. \/ wanted' /\ host' = host
        \/ ~wanted' /\ host' = r
    BY <1>1, <2>1 DEF RequestCanSendNow
  <2>3. wanted' \in BOOLEAN /\ host' \subseteq Buttons
    BY <1>1, <2>1 DEF RequestCanSendNow
  <2> QED BY <1>1, <2>1, <2>2, <2>3
<1>2. CASE ~is_connected
  BY <1>2
<1> QED BY <1>1, <1>2

LEMMA ScanKeepsInv == ASSUME Inv, ScanButton PROVE Inv'
<1> USE BleAssumption DEF Inv
<1>1. i \in Buttons /\ level[i] \in BOOLEAN /\ moved' = moved \ {i}
  BY DEF ScanButton, TypeOK
<1>2. i' \in Buttons /\ phase' \in {"armed", "scan"}
  BY <1>1 DEF ScanButton, NextButton, TypeOK, Buttons
<1>3. UNCHANGED <<level, con_handle, link>>
  BY DEF ScanButton
<1>4. CASE button_states[i] # level[i]
  <2>1. /\ button_states' = [button_states EXCEPT ![i] = level[i]]
        /\ report' = IF level[i] THEN report \cup {i} ELSE report \ {i}
        /\ send_hid_report(report')
    BY <1>4 DEF ScanButton
  <2>2. report' \in SUBSET Buttons /\ button_states' \in [Buttons -> BOOLEAN]
    BY <1>1, <2>1 DEF TypeOK
  <2>3. /\ LinkInv' /\ wanted' \in BOOLEAN /\ touched' \in BOOLEAN
        /\ host' \subseteq Buttons
    BY <1>3, <2>1, <2>2, SendsOrOwes
  <2>4. ScanInv'
    BY <1>1, <1>3, <2>1 DEF ScanInv, TypeOK
  <2>5. TypeOK'
    BY <1>1, <1>2, <1>3, <2>2, <2>3 DEF TypeOK
  <2> QED BY <1>2, <2>3, <2>4, <2>5 DEF OffInv
<1>5. CASE button_states[i] = level[i]
  <2>1. UNCHANGED <<button_states, report, touched, wanted, host>>
    BY <1>5 DEF ScanButton
  <2> QED
    BY <1>1, <1>2, <1>3, <1>5, <2>1
       DEF TypeOK, ScanInv, LinkInv, OffInv, is_connected
<1> QED BY <1>4, <1>5

LEMMA Invariant == Spec => []Inv
<1> USE BleAssumption
<1>1. Init => Inv
  <2>1. 1 \in Buttons
    BY DEF Buttons
  <2> QED
    BY <2>1 DEF Init, Inv, TypeOK, ScanInv, LinkInv, OffInv, is_connected
<1>2. Inv /\ [Next]_vars => Inv'
  <2> SUFFICES ASSUME Inv, [Next]_vars PROVE Inv'
    OBVIOUS
  <2> USE DEF Inv, TypeOK, ScanInv, LinkInv, OffInv, is_connected, StackFree
  <2>1. ASSUME NEW p \in Buttons, Edge(p) PROVE Inv'
    BY <2>1 DEF Edge, linkVars
  <2>2. CASE DebounceTimerFires
    BY <2>2 DEF DebounceTimerFires, linkVars
  <2>3. CASE ScanButton
    BY <2>3, ScanKeepsInv
  <2>4. CASE Boot
    BY <2>4 DEF Boot, linkVars
  <2>5. ASSUME NEW h \in Handles, Connect(h) PROVE Inv'
    BY <2>5 DEF Connect, scanVars
  <2>6. CASE InputReportEnable
    BY <2>6 DEF InputReportEnable, scanVars
  <2>7. CASE DisconnectionComplete
    BY <2>7 DEF DisconnectionComplete, scanVars
  <2>8. CASE CanSendNow
    BY <2>8 DEF CanSendNow, scanVars
  <2>9. CASE LeaveLoop
    BY <2>9 DEF LeaveLoop
  <2>10. CASE Reboot
    BY <2>10 DEF Reboot, linkVars
  <2>11. CASE UNCHANGED vars
    BY <2>11 DEF vars, scanVars, linkVars
  <2> QED BY <2>1, <2>2, <2>3, <2>4, <2>5, <2>6, <2>7, <2>8, <2>9, <2>10,
             <2>11 DEF Next
<1> QED BY <1>1, <1>2, PTL DEF Spec

(* Every variable keeps its type; the scan's index stays inside the array  *)
(* (buttons.cpp:45).                                                       *)
THEOREM TypeCorrect == Spec => []TypeOK
<1>1. Inv => TypeOK
  BY DEF Inv
<1> QED BY <1>1, Invariant, PTL

(* A subscribed host is right about every button not moved since it was    *)
(* sampled, unless a report is still owed (buttons.cpp:45-63).             *)
THEOREM HostIsExplained == Spec => []HostExplained
<1>1. Inv => HostExplained
  BY DEF Inv, ScanInv, LinkInv, HostExplained
<1> QED BY <1>1, Invariant, PTL

-----------------------------------------------------------------------------
(* One round of the scan reads one button: what it knows afterwards is that *)
(* button's level, and the host has it, is owed it, or nothing was news.    *)
LEMMA ScanReads == ASSUME Inv, ScanButton PROVE Mirror!Read(i)
<1> USE DEF Inv
<1>1. /\ i \in Buttons
      /\ report \subseteq Buttons /\ moved \subseteq Buttons
      /\ moved' = moved \ {i} /\ UNCHANGED <<level, con_handle, link>>
  BY DEF ScanButton, TypeOK
<1>2. CASE button_states[i] # level[i]
  <2>1. /\ report' = IF level[i] THEN report \cup {i} ELSE report \ {i}
        /\ send_hid_report(report')
    BY <1>2 DEF ScanButton
  <2>2. Mirror!Tell
    <3>1. CASE is_connected
      <4>1. con_handle = link /\ touched' /\ is_connected'
        BY <1>1, <2>1, <3>1 DEF LinkInv, send_hid_report, is_connected
      <4>2. \/ wanted' /\ host' = host
            \/ ~wanted' /\ host' = report'
        BY <2>1, <3>1, <4>1 DEF send_hid_report, RequestCanSendNow
      <4> QED BY <4>1, <4>2 DEF Mirror!Tell
    <3>2. CASE ~is_connected
      <4>1. ~is_connected' /\ host' = host
        BY <1>1, <2>1, <3>2 DEF send_hid_report, is_connected
      <4> QED BY <4>1 DEF Mirror!Tell, TypeOK
    <3> QED BY <3>1, <3>2
  <2> QED BY <1>1, <2>1, <2>2 DEF Mirror!Read
<1>3. CASE button_states[i] = level[i]
  <2>1. UNCHANGED <<report, touched, wanted, host>>
    BY <1>3 DEF ScanButton
  <2>2. i \in report <=> level[i]
    BY <1>1, <1>3 DEF ScanInv
  <2>3. UNCHANGED Mirror!linkVars
    BY <1>1, <2>1 DEF is_connected, Mirror!linkVars
  <2> QED BY <1>1, <2>1, <2>2, <2>3 DEF Mirror!Read
<1> QED BY <1>2, <1>3

(* The scan, the link, sleep and reboot implement ButtonMirror: every step  *)
(* is one of its steps or none.                                             *)
THEOREM MirrorImplemented == Spec => ImplementsMirror
<1> USE BleAssumption
<1>1. Init => Mirror!Init
  BY DEF Init, Mirror!Init, is_connected
<1>2. Inv /\ [Next]_vars => [Mirror!Next]_(Mirror!vars)
  <2> SUFFICES ASSUME Inv, [Next]_vars
               PROVE  Mirror!Next \/ UNCHANGED Mirror!vars
    OBVIOUS
  <2> USE DEF Inv, TypeOK, is_connected
  <2>1. ASSUME NEW p \in Buttons, Edge(p) PROVE Mirror!Next
    BY <2>1 DEF Edge, linkVars, Mirror!Next, Mirror!Move, Mirror!linkVars
  <2>2. CASE ScanButton
    BY <2>2, ScanReads DEF Mirror!Next
  <2>3. CASE DebounceTimerFires \/ Boot
    BY <2>3 DEF DebounceTimerFires, Boot, linkVars, Mirror!vars
  <2>4. CASE LeaveLoop
    BY <2>4 DEF LeaveLoop, Mirror!Next, Mirror!LinkChanges
  <2>5. CASE Reboot
    BY <2>5 DEF Reboot, OffInv, linkVars, Mirror!Next, Mirror!Restart
  <2>6. ASSUME NEW h \in Handles, Connect(h) PROVE Mirror!Next
    BY <2>6 DEF Connect, scanVars, Mirror!Next, Mirror!LinkChanges, LinkInv
  <2>7. CASE InputReportEnable
    BY <2>7 DEF InputReportEnable, scanVars, Mirror!vars, LinkInv
  <2>8. CASE DisconnectionComplete
    BY <2>8 DEF DisconnectionComplete, scanVars, Mirror!Next,
                Mirror!LinkChanges
  <2>9. CASE CanSendNow
    BY <2>9 DEF CanSendNow, scanVars, Mirror!Next, Mirror!Deliver,
                Mirror!LinkChanges, LinkInv
  <2>10. CASE UNCHANGED vars
    BY <2>10 DEF vars, scanVars, linkVars, Mirror!vars
  <2> QED BY <2>1, <2>2, <2>3, <2>4, <2>5, <2>6, <2>7, <2>8, <2>9, <2>10
          DEF Next
<1> QED BY <1>1, <1>2, Invariant, PTL DEF Spec, ImplementsMirror, Mirror!Spec
=============================================================================
