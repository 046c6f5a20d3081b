SPECIFICATION FairSpec
CONSTANTS
    MaxChanges <- AllButCeph
    MaxTotal = 2
    Ops <- EveryOp
    MidUpgrade <- JustPause
    MaxFails = 1
    MaxOps = 3
    MaxFlaky = 1
INVARIANT RunsWhatIsOnDisk
INVARIANT PausedStaysDown
INVARIANT ActiveIsUp
PROPERTY ChangesAreRendered
CHECK_DEADLOCK FALSE
