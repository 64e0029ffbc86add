\* Eventual consistency of the nftables backend: no faults, dom0 writes
\* only once the daemon watches (dns rule sets, a program nft refuses, a
\* missing policy), the daemon runs whenever it can, dom0 finishes an update.
CONSTANTS
    ChainFor <- NftChainFor
    NONE = NONE
    ResolveFail = ResolveFail
    Addrs <- MCAddrs
    InitialDb <- MCInitialDbFresh
    Updates <- MCUpdatesNftLive
    MaxUpdates = 2
    Packets <- MCPacketsDnsIcmp
    ResolvConf <- MCResolvConf
    Resolve <- MCResolveHosts
    Subnets <- MCSubnets
    FaultyCalls = {}
    MaxFailures = 0
    MaxRestarts = 0
    SignalTerm = FALSE
    NotifySend = TRUE
    WriteDuringStartup = FALSE
SPECIFICATION Spec
PROPERTY EventuallyConsistent
\* the daemon blocks in read_watch once dom0 stops writing
CHECK_DEADLOCK FALSE
