SPECIFICATION LiveSpec
CONSTANTS
    u1 = u1
    hw = hw
    mon = mon
    Free = Free
    Boot <- hw
    Monitor <- mon
    Users <- OneUser
    Requests <- OnOffTune
    Retunes = TRUE
    Watchdog = TRUE
    PromptFaults = TRUE
    MaxOps = 3
    MaxFaults = 2
 
INVARIANT FlagsAgree
INVARIANT NoFalseStop
PROPERTY RequestsReturn
 
CHECK_DEADLOCK FALSE
