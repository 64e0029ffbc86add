\* specialtarget=dns rules that prepare_rules drops: with dstports=53 it
\* compares the port text with "53:53"; with dst4=10.139.1.1 it intersects
\* the prefix "10.139.1.1/32" with the literal as strings.  Either update
\* alone lets DNS meet the policy instead of the rule.
CONSTANTS
    ChainFor <- IptChainFor
    NONE = NONE
    ResolveFail = ResolveFail
    Addrs <- MCAddrs
    InitialDb <- MCInitialDb
    Updates <- MCUpdatesDns
    MaxUpdates = 1
    Packets <- MCPacketsDns
    ResolvConf <- MCResolvConf
    Resolve <- MCResolve
    Subnets <- MCSubnets
    FaultyCalls = {}
    MaxFailures = 0
    MaxRestarts = 0
    SignalTerm = FALSE
    NotifySend = TRUE
    WriteDuringStartup = FALSE
SPECIFICATION Spec
PROPERTY RefinesFirewallSpec
CHECK_DEADLOCK FALSE
