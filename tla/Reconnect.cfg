\* Three slots and one host more, so that a pairing can evict a key.
SPECIFICATION FairSpec
CONSTANTS
    Hosts = {h1, h2, h3, h4}
    NoHost = NoHost
    NumSlots = 3
INVARIANTS
    TypeOK
    WalkExact
    NoSkippedKey
    NeverIdle
PROPERTIES
    WalkEnds
