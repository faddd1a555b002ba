\* Both firmwares, every combination of held buttons.
SPECIFICATION Spec
INVARIANTS
    TypeOK
    HostReadsWhatIsHeld
