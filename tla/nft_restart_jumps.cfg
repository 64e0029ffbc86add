\* After a kill and restart the kernel keeps table, chains and jumps; the
\* new process has an empty self.chains, and create_chain appends a second
\* jump to the chain the old process already jumps to.
CONSTANTS
    ChainFor <- NftChainFor
    NONE = NONE
    ResolveFail = ResolveFail
    Addrs <- MCAddrs
    InitialDb <- MCInitialDb
    Updates <- MCUpdates
    MaxUpdates = 0
    Packets <- MCPacketsDns
    ResolvConf <- MCResolvConf
    Resolve <- MCResolve
    Subnets <- MCSubnets
    FaultyCalls = {}
    MaxFailures = 0
    MaxRestarts = 1
    SignalTerm = FALSE
    NotifySend = TRUE
    WriteDuringStartup = FALSE
SPECIFICATION Spec
INVARIANT InstalledChainReachable
CHECK_DEADLOCK FALSE
