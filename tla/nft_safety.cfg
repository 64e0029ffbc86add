\* The nftables backend against FirewallSpec under dom0 writes at any time
\* (rule sets with dns rules, a refused program, a rule for the wrong family), one
\* failed nft call of each kind, one kill and restart, and SIGTERM.
CONSTANTS
    ChainFor <- NftChainFor
    NONE = NONE
    ResolveFail = ResolveFail
    Addrs <- MCAddrs
    InitialDb <- MCInitialDb
    Updates <- MCUpdatesNftWide
    MaxUpdates = 1
    Packets <- MCPacketsDns
    ResolvConf <- MCResolvConf
    Resolve <- MCResolveHosts
    Subnets <- MCSubnets
    FaultyCalls = {"init", "scripts", "resolve", "newchain", "apply", "cleanup"}
    MaxFailures = 1
    MaxRestarts = 1
    SignalTerm = TRUE
    NotifySend = TRUE
    WriteDuringStartup = TRUE
SPECIFICATION Spec
INVARIANT TypeOK
PROPERTY RefinesFirewallSpec
\* the daemon blocks in read_watch once dom0 stops writing
CHECK_DEADLOCK FALSE
