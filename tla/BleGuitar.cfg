\* Three buttons, so that a scan has a first, a middle and a last; two handles.
SPECIFICATION FairSpec
CONSTANTS
    NumButtons = 3
    Handles = {h1, h2}
    HCI_CON_HANDLE_INVALID = HCI_CON_HANDLE_INVALID
INVARIANTS
    TypeOK
    HostExplained
PROPERTIES
    Settles
    ImplementsMirror
