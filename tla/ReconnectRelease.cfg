\* Expected to fail: the walk's end releases the iterator.
SPECIFICATION Spec
CONSTANTS
    Hosts = {h1, h2}
    NoHost = NoHost
    NumSlots = 1
INVARIANTS
    IteratorReleased
