\* Two IPv6 addresses whose chain names (the last 20 characters) are the
\* same: the second address gets no jump and its rules replace the first's.
CONSTANTS
    ChainFor <- IptChainFor
    NONE = NONE
    ResolveFail = ResolveFail
    Addrs <- MCAddrs6
    InitialDb <- MCInitialDb6
    Updates <- MCUpdates
    MaxUpdates = 0
    Packets <- MCPackets6
    ResolvConf <- MCResolvConf
    Resolve <- MCResolve
    Subnets <- MCSubnets
    FaultyCalls = {}
    MaxFailures = 0
    MaxRestarts = 0
    SignalTerm = FALSE
    NotifySend = TRUE
    WriteDuringStartup = FALSE
SPECIFICATION Spec
PROPERTY RefinesFirewallSpec
CHECK_DEADLOCK FALSE
