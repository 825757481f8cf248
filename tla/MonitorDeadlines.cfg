SPECIFICATION Spec
CONSTANTS
    TickRange = 20
    TempGrace = 1
    DomainGrace = 2
    CheckEvery = 1
    Recovery = 2
    Cooldown = 3
    Domains = {"d0"}
    MaxChanges = 1
INVARIANT HotChipStops
CHECK_DEADLOCK FALSE
