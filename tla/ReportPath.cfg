\* Two buttons, so that a report can be torn, and two channel identifiers, so
\* that a cid can be stale.
SPECIFICATION FairSpec
CONSTANTS
    Pins = {green, red}
    NoPin = NoPin
    Cids = {c1, c2}
    NoCid = NoCid
INVARIANTS
    TypeOK
    LevelReported
    ConnectionConsistent
    TornIsFollowed
    HostSeesButtons
PROPERTIES
    ImplementsMirror
    Settles
