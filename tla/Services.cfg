SPECIFICATION Spec
CONSTANTS
    Endpoints <- TwoPools
    Unusable <- FixedPool
    NoPool = "none"
    ChunkLines = 2
    MaxPoolSaves = 1
    MaxBreaks = 1
    Configs <- TwoConfigs
    Presets <- TwoPresets
    MaxPosts = 2
    MaxBusFaults = 1
    Networks <- ThreeNetworks
    Good <- GoodNetworks
    Mute <- MuteNetworks
    Home <- AtHome
    None <- Nowhere
    MaxRetry = 1
    Attempts = 2
    MaxDrops = 1
    MaxTests = 2
    MaxSaves = 1
    LogSize = 2
    MaxLines = 6
    MaxPolls = 3
    Top = 5
    UsableSets <- UsableChoices
    UpDwell = 2
    DownDwell = 2
    StepsUp = 1
    StepsDown = 1
    StepsDownHot = 2
    MaxTunes = 1
    MaxClockFaults = 1
    Hosts = 2
    Remote = {9}
    TableSize = 2
    MaxPeerChanges = 2
    MaxAdded = 1
INVARIANT LinesOfConnection
PROPERTY SessionReturns
INVARIANT HardwareFollowsSettings
INVARIANT VoltageInLimits
PROPERTY VoltageFollowsSettings
 
PROPERTY StationReturns
INVARIANT MissedLinesAreTold
PROPERTY RingIsGivenBack
PROPERTY FailsafeReachesLowest
PROPERTY PeerIsListed
CHECK_DEADLOCK FALSE
