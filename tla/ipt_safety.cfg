\* Isolation and atomicity under dom0 writes at any time, one failed
\* call of each kind, one kill and restart, and SIGTERM.
CONSTANTS
    ChainFor <- IptChainFor
    NONE = NONE
    ResolveFail = ResolveFail
    Addrs <- MCAddrs
    InitialDb <- MCInitialDb
    Updates <- MCUpdatesWide
    MaxUpdates = 1
    Packets <- MCPacketsIcmp
    ResolvConf <- MCResolvConf
    Resolve <- MCResolveHosts
    Subnets <- MCSubnets
    FaultyCalls = {"init", "scripts", "resolve", "newchain", "jump", "flush", "restore", "cleanup"}
    MaxFailures = 1
    MaxRestarts = 1
    SignalTerm = TRUE
    NotifySend = TRUE
    WriteDuringStartup = TRUE
SPECIFICATION Spec
INVARIANT TypeOK
PROPERTY RefinesFirewallSpec
INVARIANT InstalledChainReachable
\* the daemon blocks in read_watch once dom0 stops writing
CHECK_DEADLOCK FALSE
