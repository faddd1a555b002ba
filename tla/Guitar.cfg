\* The wake-up button alone (BleGuitar has three); a timeout that spans more
\* than a poll. Of the two voltages one is below 3.3 V, where the cast of the
\* charge is undefined.
SPECIFICATION FairSpec
CONSTANTS
    NumButtons = 1
    Handles = {h1}
    HCI_CON_HANDLE_INVALID = HCI_CON_HANDLE_INVALID
    Timeout = 4
    Poll = 2
    Late = 0
    Voltages = {2900, 3400}
    WakeButton = 1
INVARIANTS
    TypeOK
    InStep
PROPERTIES
    ImplementsBle
    ImplementsShutdown
    PlayKeepsAwake
    LeftAloneSleeps
    WakesWhenLetGo
    GaugeFollows
