\* Expected to fail: the message is as long as the descriptor says.
SPECIFICATION Spec
INVARIANTS
    LengthAsDescribed
