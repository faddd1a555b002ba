---------------------------- MODULE GuitarProofs ----------------------------
(***************************************************************************)
(* Proofs about Guitar for any number of buttons, any timeouts and any     *)
(* voltages: sharing the run loop, the parts stay what their own modules   *)
(* say, and what those prove holds of the whole.                           *)
(***************************************************************************)
EXTENDS Guitar, TLAPS

BleProofs == INSTANCE BleGuitarProofs WITH phase <- scan
ShutdownProofs == INSTANCE IdleShutdownProofs WITH phase <- power

(* Every step of the whole is a step of the buttons and the link, or none. *)
LEMMA BleStep == [Next]_vars => [Ble!Next]_(Ble!vars)
<1> USE DEF Ble!vars, Ble!scanVars, Ble!linkVars, bleVars
<1> SUFFICES ASSUME [Next]_vars PROVE [Ble!Next]_(Ble!vars)
  OBVIOUS
<1>1. CASE BootBle \/ Sleep \/ Reboot
  BY <1>1 DEF BootBle, Sleep, Reboot, Ble!Next
<1>2. CASE InitTimers \/ Drift \/ Tick \/ ShutdownTimers \/ BatteryTimers
  BY <1>2 DEF InitTimers, Drift, Tick, ShutdownTimers, BatteryTimers
<1>3. ASSUME NEW p \in 1..NumButtons, Move(p) PROVE Ble!Next
  BY <1>3 DEF Move, Ble!Next, Ble!Buttons
<1>4. CASE HostConnects \/ HostSubscribesOrLeaves
  BY <1>4 DEF HostConnects, HostSubscribesOrLeaves, Ble!Next
<1>5. CASE DebounceTimerFires \/ ScanButton \/ CanSendNow
  BY <1>5 DEF DebounceTimerFires, ScanButton, CanSendNow, Ble!Next
<1>6. CASE UNCHANGED vars
  BY <1>6 DEF vars
<1> QED BY <1>1, <1>2, <1>3, <1>4, <1>5, <1>6 DEF Next

(* Every step of the whole is a step of the shutdown, or none of its.      *)
LEMMA ShutdownStep == [Next]_vars => [Shutdown!Next]_(Shutdown!vars)
<1> USE DEF Shutdown!vars, powerVars
<1> SUFFICES ASSUME [Next]_vars PROVE [Shutdown!Next]_(Shutdown!vars)
  OBVIOUS
<1>1. CASE InitTimers \/ Sleep \/ Reboot \/ Tick \/ ShutdownTimers
  BY <1>1 DEF InitTimers, Sleep, Reboot, Tick, ShutdownTimers, Shutdown!Next
<1>2. CASE BootBle \/ Drift \/ HostConnects \/ DebounceTimerFires \/ CanSendNow
           \/ BatteryTimers
  BY <1>2 DEF BootBle, Drift, HostConnects, DebounceTimerFires, CanSendNow,
              BatteryTimers
<1>3. ASSUME NEW p \in 1..NumButtons, Move(p) PROVE UNCHANGED Shutdown!vars
  BY <1>3 DEF Move
<1>4. CASE HostSubscribesOrLeaves \/ ScanButton
  BY <1>4 DEF HostSubscribesOrLeaves, ScanButton, Restart, Shutdown!Next
<1>5. CASE UNCHANGED vars
  BY <1>5 DEF vars
<1> QED BY <1>1, <1>2, <1>3, <1>4, <1>5 DEF Next

(* The buttons and the link keep their specification in the whole.         *)
THEOREM BleImplemented == Spec => Ble!Spec
<1>1. Init => Ble!Init
  BY DEF Init
<1> QED BY <1>1, BleStep, PTL DEF Spec, Ble!Spec

(* The shutdown keeps its specification in the whole.                      *)
THEOREM ShutdownImplemented == Spec => Shutdown!Spec
<1>1. Init => Shutdown!Init
  BY DEF Init
<1> QED BY <1>1, ShutdownStep, PTL DEF Spec, Shutdown!Spec
-----------------------------------------------------------------------------
(* The instances name the same steps.                                      *)
LEMMA SameBle ==
  /\ Ble!Init <=> BleProofs!Init
  /\ [Ble!Next]_(Ble!vars) <=> [BleProofs!Next]_(BleProofs!vars)
BY DEF Ble!Init, BleProofs!Init, Ble!Next, BleProofs!Next, Ble!vars,
   BleProofs!vars, Ble!scanVars, BleProofs!scanVars, Ble!linkVars,
   BleProofs!linkVars, Ble!Buttons, BleProofs!Buttons,
   Ble!Edge, BleProofs!Edge, Ble!DebounceTimerFires,
   BleProofs!DebounceTimerFires, Ble!ScanButton, BleProofs!ScanButton,
   Ble!NextButton, BleProofs!NextButton, Ble!send_hid_report,
   BleProofs!send_hid_report, Ble!is_connected, BleProofs!is_connected,
   Ble!RequestCanSendNow, BleProofs!RequestCanSendNow, Ble!Boot,
   BleProofs!Boot, Ble!LeaveLoop, BleProofs!LeaveLoop, Ble!Reboot,
   BleProofs!Reboot, Ble!Connect, BleProofs!Connect, Ble!InputReportEnable,
   BleProofs!InputReportEnable, Ble!DisconnectionComplete,
   BleProofs!DisconnectionComplete, Ble!CanSendNow, BleProofs!CanSendNow,
   Ble!StackFree, BleProofs!StackFree

(* A subscribed host that is owed nothing is right about every button that *)
(* was sampled since it moved, on the whole guitar.                        *)
THEOREM HostExplainedInGuitar == Spec => []Ble!HostExplained
<1>1. BleProofs!Spec => []BleProofs!HostExplained
  BY GuitarAssumption, BleProofs!HostIsExplained DEF BleProofs!HostIsExplained
<1>2. Ble!Spec => BleProofs!Spec
  BY SameBle, PTL DEF Ble!Spec, BleProofs!Spec
<1>3. BleProofs!HostExplained <=> Ble!HostExplained
  BY DEF Ble!HostExplained, BleProofs!HostExplained, Ble!is_connected,
         BleProofs!is_connected, Ble!Buttons, BleProofs!Buttons
<1> QED BY <1>1, <1>2, <1>3, BleImplemented, PTL

LEMMA SameMirror ==
  /\ Ble!Mirror!Init <=> BleProofs!Mirror!Init
  /\ [Ble!Mirror!Next]_(Ble!Mirror!vars)
        <=> [BleProofs!Mirror!Next]_(BleProofs!Mirror!vars)
BY DEF Ble!Mirror!Init, BleProofs!Mirror!Init, Ble!Mirror!Next,
   BleProofs!Mirror!Next, Ble!Mirror!vars, BleProofs!Mirror!vars,
   Ble!Mirror!linkVars, BleProofs!Mirror!linkVars, Ble!Mirror!Move,
   BleProofs!Mirror!Move, Ble!Mirror!Read, BleProofs!Mirror!Read,
   Ble!Mirror!Tell, BleProofs!Mirror!Tell, Ble!Mirror!Deliver,
   BleProofs!Mirror!Deliver, Ble!Mirror!Garble, BleProofs!Mirror!Garble,
   Ble!Mirror!LinkChanges, BleProofs!Mirror!LinkChanges, Ble!Mirror!Restart,
   BleProofs!Mirror!Restart, Ble!is_connected, BleProofs!is_connected,
   Ble!Buttons, BleProofs!Buttons

(* The whole guitar implements ButtonMirror: timers, sleep and reboot make *)
(* no host's view worse than what it is owed.                              *)
THEOREM MirrorInGuitar == Spec => Ble!ImplementsMirror
<1>1. BleProofs!Spec => BleProofs!ImplementsMirror
  BY GuitarAssumption, BleProofs!MirrorImplemented
     DEF BleProofs!MirrorImplemented
<1>2. Ble!Spec => BleProofs!Spec
  BY SameBle, PTL DEF Ble!Spec, BleProofs!Spec
<1>3. BleProofs!ImplementsMirror => Ble!ImplementsMirror
  BY SameMirror, PTL DEF BleProofs!ImplementsMirror, Ble!ImplementsMirror,
     BleProofs!Mirror!Spec, Ble!Mirror!Spec
<1> QED BY <1>1, <1>2, <1>3, BleImplemented, PTL
-----------------------------------------------------------------------------
LEMMA SameShutdown ==
  /\ Shutdown!Init <=> ShutdownProofs!Init
  /\ [Shutdown!Next]_(Shutdown!vars)
        <=> [ShutdownProofs!Next]_(ShutdownProofs!vars)
BY DEF Shutdown!Init, ShutdownProofs!Init, Shutdown!Next, ShutdownProofs!Next,
   Shutdown!vars, ShutdownProofs!vars, Shutdown!init, ShutdownProofs!init,
   Shutdown!Tick, ShutdownProofs!Tick, Shutdown!IdleCap,
   ShutdownProofs!IdleCap, Shutdown!restart, ShutdownProofs!restart,
   Shutdown!restart_shutdown_timer_callback,
   ShutdownProofs!restart_shutdown_timer_callback,
   Shutdown!shutdown_timer_callback, ShutdownProofs!shutdown_timer_callback,
   Shutdown!LeaveLoop, ShutdownProofs!LeaveLoop, Shutdown!WakeAndReboot,
   ShutdownProofs!WakeAndReboot

LEMMA ShutdownInvariant == Spec => []ShutdownProofs!IInv
<1>1. ShutdownProofs!Spec => []ShutdownProofs!IInv
  BY GuitarAssumption, ShutdownProofs!Invariant DEF ShutdownProofs!Invariant
<1>2. Shutdown!Spec => ShutdownProofs!Spec
  BY SameShutdown, PTL DEF Shutdown!Spec, ShutdownProofs!Spec
<1> QED BY <1>1, <1>2, ShutdownImplemented, PTL

(* What the guitar itself counts as activity is what restart() hears of.   *)
LEMMA QuietIsIdle == Spec => [](quiet = idle)
<1>1. Init => quiet = idle
  BY DEF Init, Shutdown!Init
<1>2. quiet = idle /\ [Next]_vars => (quiet = idle)'
  <2> SUFFICES ASSUME quiet = idle, [Next]_vars PROVE quiet' = idle'
    OBVIOUS
  <2>1. CASE InitTimers \/ Reboot
    BY <2>1 DEF InitTimers, Reboot, Shutdown!init, Shutdown!WakeAndReboot
  <2>2. CASE Sleep \/ ShutdownTimers
    BY <2>2 DEF Sleep, ShutdownTimers, Shutdown!LeaveLoop,
                Shutdown!restart_shutdown_timer_callback,
                Shutdown!shutdown_timer_callback, mainVars
  <2>3. CASE Tick
    BY <2>3 DEF Tick, Shutdown!Tick
  <2>4. CASE HostSubscribesOrLeaves \/ ScanButton
    BY <2>4 DEF HostSubscribesOrLeaves, ScanButton, Restart, Shutdown!restart,
                powerVars
  <2>5. ASSUME NEW p \in 1..NumButtons, Move(p) PROVE quiet' = idle'
    BY <2>5 DEF Move, powerVars
  <2>6. CASE BootBle \/ Drift \/ HostConnects \/ DebounceTimerFires
             \/ CanSendNow \/ BatteryTimers
    BY <2>6 DEF BootBle, Drift, HostConnects, DebounceTimerFires, CanSendNow,
                BatteryTimers, powerVars, mainVars
  <2>7. CASE UNCHANGED vars
    BY <2>7 DEF vars, powerVars, mainVars
  <2> QED BY <2>1, <2>2, <2>3, <2>4, <2>5, <2>6, <2>7 DEF Next
<1> QED BY <1>1, <1>2, PTL DEF Spec

(* The guitar gives up on no player: only when nothing happened for the    *)
(* whole timeout, or too recently for the periodic timer to have seen it.  *)
THEOREM PlayAlwaysKeepsAwake == Spec => PlayKeepsAwake
<1> DEFINE Justified ==
      power = "run" /\ power' = "exiting" =>
          quiet >= Timeout \/ quiet <= Poll + Late
<1>1. ShutdownProofs!IInv /\ quiet = idle /\ [Next]_vars => [Justified]_vars
  <2> SUFFICES ASSUME ShutdownProofs!IInv, quiet = idle,
                      [Next]_vars, power = "run", power' = "exiting"
               PROVE  quiet >= Timeout \/ quiet <= Poll + Late
    OBVIOUS
  <2>1. Shutdown!shutdown_timer_callback
    BY ShutdownStep DEF Shutdown!Next, Shutdown!init, Shutdown!Tick,
       Shutdown!restart, Shutdown!restart_shutdown_timer_callback,
       Shutdown!LeaveLoop, Shutdown!WakeAndReboot, Shutdown!vars
  <2>2. shutdown_timer >= Timeout
    BY <2>1 DEF Shutdown!shutdown_timer_callback
  <2> QED
    BY <2>2, GuitarAssumption
       DEF ShutdownProofs!IInv, ShutdownProofs!IdleInv, ShutdownProofs!TypeOK,
           ShutdownProofs!IdleCap
<1> QED BY <1>1, ShutdownInvariant, QuietIsIdle, PTL DEF Spec, PlayKeepsAwake

(* Whatever the buttons, the host and the gauge do, an awake guitar was     *)
(* played or visited within the two periods, each served late              *)
(* (shutdown.cpp:24-36).                                                   *)
THEOREM AwakeBoundedInGuitar ==
  Spec => [](Shutdown!AwakeBounded
              /\ (power = "run" => quiet <= Timeout + Poll + 2 * Late))
<1>1. ShutdownProofs!IInv => Shutdown!AwakeBounded
  BY GuitarAssumption
     DEF ShutdownProofs!IInv, ShutdownProofs!TypeOK, ShutdownProofs!IdleInv,
         ShutdownProofs!IdleCap, Shutdown!AwakeBounded
<1>2. Shutdown!AwakeBounded /\ quiet = idle =>
          (power = "run" => quiet <= Timeout + Poll + 2 * Late)
  BY DEF Shutdown!AwakeBounded
<1> QED BY <1>1, <1>2, ShutdownInvariant, QuietIsIdle, PTL

(* The periodic timer has not seen the activity a guitar that gives up      *)
(* early ignores, in the whole as alone (shutdown.cpp:17-43).              *)
THEOREM ExitsJustifiedInGuitar == Spec => Shutdown!ExitJustified
<1>1. ShutdownProofs!Spec => ShutdownProofs!ExitJustified
  BY GuitarAssumption, ShutdownProofs!ExitsJustified
     DEF ShutdownProofs!ExitsJustified
<1>2. Shutdown!Spec => ShutdownProofs!Spec
  BY SameShutdown, PTL DEF Shutdown!Spec, ShutdownProofs!Spec
<1>3. ShutdownProofs!ExitJustified => Shutdown!ExitJustified
  BY PTL DEF ShutdownProofs!ExitJustified, Shutdown!ExitJustified,
     ShutdownProofs!vars, Shutdown!vars
<1> QED BY <1>1, <1>2, <1>3, ShutdownImplemented, PTL
-----------------------------------------------------------------------------
(* The charge that is shown fits a byte, whatever the cast does.           *)
LEMMA ChargeFits == raw \in 0..4095 => Gauge!Charge(raw) \subseteq 0..255
<1> HAVE raw \in 0..4095
<1>1. Gauge!Scaled(raw) \in Int /\ Gauge!Scaled(raw) <= 5033780
  BY DEF Gauge!Scaled
<1>2. CASE Gauge!Scaled(raw) >= 0
  <2>1. Gauge!Scaled(raw) \div 36864 \in 0..255
    BY <1>1, <1>2
  <2> QED BY <1>2, <2>1 DEF Gauge!Charge
<1>3. CASE ~(Gauge!Scaled(raw) >= 0)
  <2>1. (-((-Gauge!Scaled(raw)) \div 36864)) % 256 \in 0..255
    BY <1>1
  <2>2. 0 \in 0..255
    OBVIOUS
  <2> QED BY <1>3, <2>1, <2>2 DEF Gauge!Charge
<1> QED BY <1>2, <1>3

(* Every step of the whole is one of the gauge, or none of its.            *)
LEMMA BatteryStep ==
  ASSUME Gauge!TypeOK, [Next]_vars
  PROVE  Gauge!TypeOK'
<1> USE DEF Gauge!TypeOK
<1>0. /\ 0 \in 0..255 /\ 100 \in 0..255
      /\ {} \subseteq {"start", "read"} /\ {"start"} \subseteq {"start", "read"}
  OBVIOUS
<1>1. CASE InitTimers
  BY <1>0, <1>1, Zenon DEF InitTimers, Gauge!init
<1>2. CASE Reboot
  BY <1>0, <1>2, Zenon DEF Reboot, Gauge!Reset
<1>3. CASE Drift
  BY <1>3 DEF Drift, Gauge!Drift
<1>4. CASE BatteryTimers
  <2>1. CASE Gauge!battery_sense_start_timer_callback
    BY <2>1, Zenon DEF Gauge!battery_sense_start_timer_callback
  <2>2. CASE Gauge!battery_sense_read_timer_callback
    <3>1. raw \in 0..4095
      BY GuitarAssumption
    <3>2. Gauge!Charge(raw) \subseteq 0..255
      BY <3>1, ChargeFits
    <3> QED BY <2>2, <3>2, Zenon DEF Gauge!battery_sense_read_timer_callback
  <2> QED BY <1>4, <2>1, <2>2 DEF BatteryTimers
<1>5. CASE UNCHANGED batteryVars
  BY <1>5 DEF batteryVars
<1> QED BY <1>1, <1>2, <1>3, <1>4, <1>5
        DEF Next, vars, BootBle, Sleep, Move, HostConnects,
            HostSubscribesOrLeaves, Tick, DebounceTimerFires, ScanButton,
            CanSendNow, ShutdownTimers

LEMMA MainStep ==
  ASSUME due \in BOOLEAN, woken \in BOOLEAN, [Next]_vars
  PROVE  due' \in BOOLEAN /\ woken' \in BOOLEAN
<1>1. CASE InitTimers \/ Sleep \/ Reboot
  BY <1>1, Zenon DEF InitTimers, Sleep, Reboot
<1>2. ASSUME NEW p \in 1..NumButtons, Move(p)
      PROVE  due' \in BOOLEAN /\ woken' \in BOOLEAN
  BY <1>2, Zenon DEF Move
<1>3. CASE HostSubscribesOrLeaves \/ Tick \/ DebounceTimerFires \/ ScanButton
  BY <1>3, Zenon DEF HostSubscribesOrLeaves, Tick, DebounceTimerFires, ScanButton
<1>4. CASE UNCHANGED mainVars
  BY <1>4 DEF mainVars
<1> QED BY <1>1, <1>2, <1>3, <1>4
        DEF Next, vars, BootBle, Drift, HostConnects, CanSendNow,
            ShutdownTimers, BatteryTimers

(* Every variable of the guitar keeps its type: scan index, timers and     *)
(* charge stay in range.                                                   *)
THEOREM TypeCorrect == Spec => []TypeOK
<1> DEFINE Rest == Gauge!TypeOK /\ due \in BOOLEAN /\ woken \in BOOLEAN
<1>0. 0 \in 0..255 /\ {} \subseteq {"start", "read"}
  OBVIOUS
<1>1. Init => Rest
  BY <1>0, Zenon DEF Init, Gauge!Init, Gauge!TypeOK
<1>2. Rest /\ [Next]_vars => Rest'
  BY BatteryStep, MainStep
<1>3. Spec => []Rest
  BY <1>1, <1>2, PTL DEF Spec
<1>4. BleProofs!Spec => []BleProofs!TypeOK
  BY GuitarAssumption, BleProofs!TypeCorrect DEF BleProofs!TypeCorrect
<1>5. Ble!Spec => BleProofs!Spec
  BY SameBle, PTL DEF Ble!Spec, BleProofs!Spec
<1>6. ShutdownProofs!IInv => Shutdown!TypeOK
  BY DEF ShutdownProofs!IInv, ShutdownProofs!TypeOK, Shutdown!TypeOK,
         ShutdownProofs!IdleCap, Shutdown!IdleCap
<1>7. BleProofs!TypeOK => Ble!TypeOK
  BY DEF BleProofs!TypeOK, Ble!TypeOK, BleProofs!Buttons, Ble!Buttons
<1>8. Rest /\ Ble!TypeOK /\ Shutdown!TypeOK /\ quiet = idle => TypeOK
  BY DEF TypeOK, Shutdown!TypeOK
<1> QED BY <1>3, <1>4, <1>5, <1>6, <1>7, <1>8, BleImplemented, ShutdownInvariant,
           QuietIsIdle, PTL
-----------------------------------------------------------------------------
(* What every step of the buttons and the link says of where main() is.    *)
LEMMA StaysAwake ==
  ASSUME InStep, UNCHANGED <<power, batteryVars, woken>>,
         scan # "asleep", scan' # "asleep", scan \in {"armed", "scan"} =>
             scan' \in {"armed", "scan"}
  PROVE  InStep'
BY DEF InStep, batteryVars

(* The parts come up, sleep and reboot together; the divider is on exactly *)
(* between the two battery timers, one of which an awake guitar has armed  *)
(* (main.cpp:25-66, battery.cpp:26-63).                                    *)
THEOREM PartsInStep == Spec => []InStep
<1>1. Init => InStep
  BY DEF Init, Ble!Init, Shutdown!Init, Gauge!Init, InStep
<1>2. InStep /\ [Next]_vars => InStep'
  <2> SUFFICES ASSUME InStep, [Next]_vars PROVE InStep'
    OBVIOUS
  <2> USE DEF mainVars
  <2>1. CASE BootBle
    BY <2>1 DEF BootBle, Ble!Boot, Ble!linkVars, powerVars, batteryVars, InStep
  <2>2. CASE InitTimers
    BY <2>2 DEF InitTimers, LoopFree, Shutdown!init, Gauge!init, bleVars, InStep
  <2>3. CASE Sleep
    BY <2>3 DEF Sleep, Ble!LeaveLoop, Shutdown!LeaveLoop, batteryVars, InStep
  <2>4. CASE Reboot
    BY <2>4 DEF Reboot, Ble!Reboot, Ble!linkVars, Shutdown!WakeAndReboot,
                Gauge!Reset, InStep
  <2>5. ASSUME NEW p \in 1..NumButtons, Move(p) PROVE InStep'
    BY <2>5 DEF Move, Ble!Edge, Ble!linkVars, powerVars, batteryVars, InStep
  <2>6. CASE Drift
    BY <2>6 DEF Drift, Gauge!Drift, bleVars, powerVars, InStep
  <2>7. CASE HostConnects
    BY <2>7, StaysAwake DEF HostConnects, Ble!Connect, Ble!StackFree,
                            Ble!scanVars, powerVars
  <2>8. CASE HostSubscribesOrLeaves
    BY <2>8, StaysAwake
       DEF HostSubscribesOrLeaves, Ble!InputReportEnable,
           Ble!DisconnectionComplete, Ble!StackFree, Ble!scanVars, Restart,
           Shutdown!restart
  <2>9. CASE Tick
    BY <2>9 DEF Tick, Shutdown!Tick, bleVars, batteryVars, InStep
  <2>10. CASE DebounceTimerFires
    BY <2>10, StaysAwake DEF DebounceTimerFires, Ble!DebounceTimerFires,
                             powerVars
  <2>11. CASE ScanButton
    BY <2>11, StaysAwake DEF ScanButton, Ble!ScanButton, Ble!NextButton,
                             Restart, Shutdown!restart, powerVars
  <2>12. CASE CanSendNow
    BY <2>12, StaysAwake DEF CanSendNow, Ble!CanSendNow, Ble!StackFree,
                             Ble!scanVars, powerVars
  <2>13. CASE ShutdownTimers
    BY <2>13 DEF ShutdownTimers, LoopFree,
                 Shutdown!restart_shutdown_timer_callback,
                 Shutdown!shutdown_timer_callback, bleVars, batteryVars, InStep
  <2>14. CASE BatteryTimers
    <3>1. UNCHANGED <<bleVars, powerVars, woken>> /\ armed # {}
      BY <2>14 DEF BatteryTimers, Gauge!battery_sense_start_timer_callback,
                   Gauge!battery_sense_read_timer_callback
    <3>2. power # "dormant"
      BY <2>14 DEF BatteryTimers, LoopFree, InStep
    <3>3. CASE Gauge!battery_sense_start_timer_callback
      BY <3>1, <3>2, <3>3
         DEF Gauge!battery_sense_start_timer_callback, bleVars, powerVars, InStep
    <3>4. CASE Gauge!battery_sense_read_timer_callback
      BY <3>1, <3>2, <3>4
         DEF Gauge!battery_sense_read_timer_callback, bleVars, powerVars, InStep
    <3> QED BY <2>14, <3>3, <3>4 DEF BatteryTimers
  <2>15. CASE UNCHANGED vars
    BY <2>15 DEF vars, bleVars, powerVars, batteryVars, InStep
  <2> QED BY <2>1, <2>2, <2>3, <2>4, <2>5, <2>6, <2>7, <2>8, <2>9, <2>10,
             <2>11, <2>12, <2>13, <2>14, <2>15 DEF Next
<1> QED BY <1>1, <1>2, PTL DEF Spec
-----------------------------------------------------------------------------
(* Between an empty and a charged cell (3.3 V and a little over 4.2 V) the  *)
(* cast leaves the host one percentage, of 0 to 100, and never a lower one *)
(* for a higher voltage (battery.cpp:44-49).                               *)
THEOREM ChargeReadsTrue ==
  ASSUME NEW r \in 2925..3790, NEW s \in 2925..3790, r <= s
  PROVE  /\ Gauge!Charge(r) = {Gauge!Scaled(r) \div 36864}
         /\ \A c \in Gauge!Charge(r), d \in Gauge!Charge(s) :
               c \in 0..100 /\ d \in 0..100 /\ c <= d
<1>1. /\ Gauge!Scaled(r) \in Nat /\ Gauge!Scaled(s) \in Nat
      /\ Gauge!Scaled(r) <= Gauge!Scaled(s) /\ Gauge!Scaled(s) < 101 * 36864
  BY DEF Gauge!Scaled
<1>2. /\ Gauge!Charge(r) = {Gauge!Scaled(r) \div 36864}
      /\ Gauge!Charge(s) = {Gauge!Scaled(s) \div 36864}
  BY <1>1 DEF Gauge!Charge
<1>3. /\ Gauge!Scaled(r) \div 36864 \in 0..100
      /\ Gauge!Scaled(s) \div 36864 \in 0..100
      /\ Gauge!Scaled(r) \div 36864 <= Gauge!Scaled(s) \div 36864
  BY <1>1
<1> QED BY <1>2, <1>3
=============================================================================
