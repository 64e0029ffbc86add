\* SIGTERM that arrives while the daemon is not blocked in read_watch on
\* an empty queue only sets terminate_requested, which nothing reads.
CONSTANTS
    ChainFor <- IptChainFor
    NONE = NONE
    ResolveFail = ResolveFail
    Addrs <- MCAddrs
    InitialDb <- MCInitialDb
    Updates <- MCUpdates
    MaxUpdates = 0
    Packets <- MCPackets
    ResolvConf <- MCResolvConf
    Resolve <- MCResolve
    Subnets <- MCSubnets
    FaultyCalls = {}
    MaxFailures = 0
    MaxRestarts = 0
    SignalTerm = TRUE
    NotifySend = TRUE
    WriteDuringStartup = FALSE
SPECIFICATION Spec
PROPERTY TermLeadsToExit
CHECK_DEADLOCK FALSE
