\* An update dom0 commits after the initial load read its address and
\* before qdb.watch() is registered is never applied.
CONSTANTS
    ChainFor <- IptChainFor
    NONE = NONE
    ResolveFail = ResolveFail
    Addrs <- MCAddrs
    InitialDb <- MCInitialDbFresh
    Updates <- MCUpdates
    MaxUpdates = 1
    Packets <- MCPackets
    ResolvConf <- MCResolvConf
    Resolve <- MCResolve
    Subnets <- MCSubnets
    FaultyCalls = {}
    MaxFailures = 0
    MaxRestarts = 0
    SignalTerm = FALSE
    NotifySend = TRUE
    WriteDuringStartup = TRUE
SPECIFICATION Spec
PROPERTY EventuallyConsistent
CHECK_DEADLOCK FALSE
