\* The shutdown timer spans several periods of the restart timer.
SPECIFICATION FairSpec
CONSTANTS
    Timeout = 8
    Poll = 3
    Late = 1
INVARIANTS
    TypeOK
    AwakeBounded
PROPERTIES
    ExitJustified
    Sleeps
