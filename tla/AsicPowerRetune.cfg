SPECIFICATION Spec
CONSTANTS
    u1 = u1
    hw = hw
    mon = mon
    Free = Free
    Boot <- hw
    Monitor <- mon
    Users <- OneUser
    Requests <- OnOffTune
    Retunes = TRUE
    Watchdog = TRUE
    PromptFaults = TRUE
    MaxOps = 2
    MaxFaults = 2
INVARIANT OutputStaysOff
CHECK_DEADLOCK FALSE
