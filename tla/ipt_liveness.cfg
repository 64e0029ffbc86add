\* Eventual consistency: no faults, dom0 writes only once the daemon
\* watches (a rule set, a missing policy, a wrong-family rule), the daemon
\* runs whenever it can and dom0 finishes an update.
CONSTANTS
    ChainFor <- IptChainFor
    NONE = NONE
    ResolveFail = ResolveFail
    Addrs <- MCAddrs
    InitialDb <- MCInitialDbFresh
    Updates <- MCUpdatesLive
    MaxUpdates = 2
    Packets <- MCPackets
    ResolvConf <- MCResolvConf
    Resolve <- MCResolve
    Subnets <- MCSubnets
    FaultyCalls = {}
    MaxFailures = 0
    MaxRestarts = 0
    SignalTerm = FALSE
    NotifySend = TRUE
    WriteDuringStartup = FALSE
SPECIFICATION Spec
PROPERTY EventuallyConsistent
\* the daemon blocks in read_watch once dom0 stops writing
CHECK_DEADLOCK FALSE
