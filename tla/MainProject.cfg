\* One button and one channel identifier (two of each in the runs of ReportPath),
\* two hosts for two key slots.
SPECIFICATION FairMainSpec
CONSTANTS
    Pins = {green}
    NoPin = NoPin
    Cids = {c1}
    NoCid = NoCid
    Hosts = {h1, h2}
    NoHost = NoHost
    NumSlots = 2
INVARIANTS
    MainTypeOK
    PicturesAgree
PROPERTIES
    ImplementsReportPath
    ImplementsReconnect
    HostIsFound
