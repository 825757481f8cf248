SPECIFICATION Spec
CONSTANTS
    Pools <- TwoPools
    Setups = 1
    ShareSlots = 2
    ResponseSlots = 1
    MaxShares = 3
    MaxConnections = 2
INVARIANT WritesOnLiveTransport
INVARIANT AnswerIsCounted
INVARIANT AnswersFollowShares
CHECK_DEADLOCK FALSE
