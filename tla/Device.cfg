SPECIFICATION Spec
CONSTANTS
    Boards <- OneAxeos
    MaxRequests = 2
    MaxBest = 1
    MaxCuts = 1
    Files <- FourFiles
    Foreign = TRUE
    MaxUploads = 3
    MaxPowerLosses = 1
    MaxFlashFaults = 1
    Capacity = 2
    Messages = {"x", "y"}
    SameFault = 1
    MaxUptime = 2
    MaxFaults = 3
    MaxBoots = 2
    Full = 3
    Lowest = 1
    FanConfigs <- ThreeFans
    MaxFanOps = 3
    MaxFanFaults = 2
    WeightedPools <- TwoPools
    VersionMasks = {"all", "few"}
    AnyMask = "all"
    Difficulties = {1, 2}
    ChipDifficulty = 2
    MaxAnnouncements = 2
    MaxPowerCycles = 1
    FrameJobs = 80
    SliceMaxJobs = 12
    Weightings <- FourWeightings
    MaxDisturbances = 2
    TickRange = 20
    TempGrace = 1
    DomainGrace = 2
    CheckEvery = 1
    Recovery = 2
    Cooldown = 3
    Domains = {"d0"}
    MaxChanges = 2
    AuxPools <- TwoPools
    PoolConfigs <- FourPoolConfigs
    NoHost = "none"
    NoUser = ""
    MaxPoolChanges = 2
    MaxRefusals = 1
    Blocks = {1, 2, 3, 4}
    NoBlock = 0
    Wallets = {"me", "odd"}
    Supported = {"me"}
    Coinbases <- FourCoinbases
    RecentBlocks = 2
    MinPercent = 9700
INVARIANT SettingsHoldUnlessOverlapped
INVARIANT SavedSettingsBoot
INVARIANT BestPersists
INVARIANT ForeignBoardKnown
 
INVARIANT RemovesTheListedFault
INVARIANT HotFanIsFull
INVARIANT JobsUnderTheirSettings
INVARIANT SharesFollowWeights
INVARIANT LostDomainIsRecovered
INVARIANT SessionsFitSettings
INVARIANT PayoutIsOfWork
PROPERTY UploadsSwitchAtOnce
CHECK_DEADLOCK FALSE
