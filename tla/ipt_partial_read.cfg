\* handle_addr triggered by one commit reads /qubes-firewall/<addr>/ while
\* dom0 is writing the next update of that address.
CONSTANTS
    ChainFor <- IptChainFor
    NONE = NONE
    ResolveFail = ResolveFail
    Addrs <- MCAddrs
    InitialDb <- MCInitialDb
    Updates <- MCUpdates
    MaxUpdates = 2
    Packets <- MCPackets
    ResolvConf <- MCResolvConf
    Resolve <- MCResolve
    Subnets <- MCSubnets
    FaultyCalls = {}
    MaxFailures = 0
    MaxRestarts = 0
    SignalTerm = FALSE
    NotifySend = TRUE
    WriteDuringStartup = FALSE
SPECIFICATION Spec
INVARIANT NoTransientAccept
CHECK_DEADLOCK FALSE
