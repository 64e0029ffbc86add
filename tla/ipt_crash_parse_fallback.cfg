\* A per-address parse error ends the daemon when notify-send cannot be
\* executed: log_error raises OSError in handle_addr's except clause, main's
\* except OSError (meant for EINTR) ends the watch loop and cleanup()
\* removes every chain, with no SIGTERM.  (With NotifySend = TRUE and
\* FaultyCalls = {"restore"}, the fallback's RuleApplyError escapes main.)
CONSTANTS
    ChainFor <- IptChainFor
    NONE = NONE
    ResolveFail = ResolveFail
    Addrs <- MCAddrs
    InitialDb <- MCInitialDb
    Updates <- MCUpdatesErrors
    MaxUpdates = 1
    Packets <- MCPackets
    ResolvConf <- MCResolvConf
    Resolve <- MCResolve
    Subnets <- MCSubnets
    FaultyCalls = {}
    MaxFailures = 0
    MaxRestarts = 0
    SignalTerm = FALSE
    NotifySend = FALSE
    WriteDuringStartup = FALSE
SPECIFICATION Spec
INVARIANT NoCrash
CHECK_DEADLOCK FALSE
