\* After a kill and restart the kernel still has the chains the old
\* process created, self.chains is empty, and create_chain's iptables -N
\* fails with an uncaught CalledProcessError.
CONSTANTS
    ChainFor <- IptChainFor
    NONE = NONE
    ResolveFail = ResolveFail
    Addrs <- MCAddrs
    InitialDb <- MCInitialDb
    Updates <- MCUpdates
    MaxUpdates = 0
    Packets <- MCPackets
    ResolvConf <- MCResolvConf
    Resolve <- MCResolve
    Subnets <- MCSubnets
    FaultyCalls = {}
    MaxFailures = 0
    MaxRestarts = 1
    SignalTerm = FALSE
    NotifySend = TRUE
    WriteDuringStartup = FALSE
SPECIFICATION Spec
INVARIANT NoCrash
CHECK_DEADLOCK FALSE
