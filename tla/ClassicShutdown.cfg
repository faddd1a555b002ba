\* A timeout of several ticks, served up to three ticks late.
SPECIFICATION FairSpec
CONSTANTS
    Timeout = 12
    Late = 3
INVARIANTS
    TypeOK
    AddedOnce
    AwakeBounded
PROPERTIES
    SleepJustified
    Sleeps
