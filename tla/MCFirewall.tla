------------------------------ MODULE MCFirewall ------------------------------
(* Constants for TLC shared by the backends: client VMs, the leaf sets     *)
(* dom0 may write for them, and packets on which their verdicts differ.   *)
EXTENDS Rules

VM1 == "10.137.0.5"
VM2 == "10.137.0.6"
Server1 == "10.0.0.1"
Server2 == "10.0.0.2"

\* leaf sets of /qubes-firewall/<addr>/
TcpOnly  == ("policy" :> "drop") @@ ("0000" :> "action=accept proto=tcp")
NotToOne == ("policy" :> "accept") @@ ("0000" :> "action=drop dst4=10.0.0.1/32")
\* order matters: tcp to Server1 is dropped by 0000 before 0001 accepts it
Ordered  == ("policy" :> "drop") @@ ("0000" :> "action=drop dst4=10.0.0.1/32")
                                 @@ ("0001" :> "action=accept proto=tcp")
NoPolicy == ("0000" :> "action=accept proto=tcp")
WrongFamily == ("policy" :> "accept") @@ ("0000" :> "action=drop dst6=fd00::1/128")
Malformed == ("policy" :> "drop") @@ ("0000" :> "action=accept proto")
NoLeaf == [k \in {} |-> ""]

MCAddrs == {VM1, VM2}
MCInitialDb == (VM1 :> TcpOnly) @@ (VM2 :> Ordered)
MCUpdates == {NotToOne}
MCUpdatesErrors == {NoPolicy, WrongFamily}
MCUpdatesMalformed == {Malformed}
MCUpdatesAll == MCUpdates \cup MCUpdatesErrors \cup MCUpdatesMalformed
\* what dom0 writes: a rule set, or one the daemon replaces by the fallback
MCUpdatesLive == MCUpdates \cup MCUpdatesErrors

\* a dsthost that resolves, one that does not (a parse error), an icmp type
ToHost   == ("policy" :> "drop") @@ ("0000" :> "action=accept proto=tcp dsthost=srv.example")
GoneHost == ("policy" :> "accept") @@ ("0000" :> "action=drop dsthost=gone.example")
PingOnly == ("policy" :> "drop") @@ ("0000" :> "action=accept proto=icmp icmptype=8")
MCUpdatesHosts == {ToHost, GoneHost, PingOnly}
MCUpdatesWide == MCUpdatesAll \cup MCUpdatesHosts

MCInitialDbFresh == (VM1 :> NoLeaf) @@ (VM2 :> Ordered)

MCPackets ==
    [f \in Families |->
        [proto : {"tcp", "udp"}, dst : {Server1, Server2}, port : {443},
         icmptype : {NONE}]]

\* tcp and udp to two servers, and an echo request and reply to one:
\* enough to tell every rule set of the updates apart
MCPacketsIcmp ==
    [f \in Families |->
        MCPackets[f] \cup [proto : {"icmp"}, dst : {Server1}, port : {0}, icmptype : {"0", "8"}]]

MCResolvConf == <<"nameserver 10.139.1.1">>
MCResolve == [n \in {} |-> ResolveFail]
\* getaddrinfo: srv.example has an IPv4 address only, gone.example none
MCResolveHosts == ("srv.example" :> [f \in Families |-> IF f = 4 THEN {Server1} ELSE ResolveFail])
                  @@ ("gone.example" :> [f \in Families |-> ResolveFail])
MCSubnets == [p \in {} |-> {}]

\* two global IPv6 addresses whose chain names are the same: the last 20
\* characters of 2001-db8-1-2-3-4-a89-5 and 2a01-db8-1-2-3-4-a89-5
VM6a == "2001:db8:1:2:3:4:a89:5"
VM6b == "2a01:db8:1:2:3:4:a89:5"
MCAddrs6 == {VM6a, VM6b}
TcpOnly6 == TcpOnly
OpenAll == ("policy" :> "accept")
MCInitialDb6 == (VM6a :> TcpOnly6) @@ (VM6b :> OpenAll)
MCPackets6 ==
    [f \in Families |->
        [proto : {"tcp", "udp"}, dst : {"2001:db8::53"}, port : {443},
         icmptype : {NONE}]]

\* the nameserver of MCResolvConf, and rule sets for it
NS == "10.139.1.1"
\* dom0 blocks DNS and allows the rest: a dns rule that emits no line lets
\* DNS through, where the fallback would have dropped everything
DnsPort  == ("policy" :> "accept") @@ ("0000" :> "action=drop specialtarget=dns dstports=53")
DnsRange == ("policy" :> "accept") @@ ("0000" :> "action=drop specialtarget=dns dstports=53-53")
DnsToNs  == ("policy" :> "accept") @@ ("0000" :> "action=drop specialtarget=dns dst4=10.139.1.1")
\* a port match on a protocol without ports: the program is refused
IcmpPort == ("policy" :> "accept") @@ ("0000" :> "action=drop proto=icmp dstports=443")
MCUpdatesDns == {DnsPort, DnsToNs}
MCUpdatesNft == {DnsRange, DnsToNs, IcmpPort, WrongFamily}
\* DNS over tcp and udp to the nameserver, and tcp to port 53 of another
\* host: enough to tell the dns rules, Ordered and TcpOnly apart
MCPacketsDns ==
    [f \in Families |->
        {[proto |-> p, dst |-> NS, port |-> 53, icmptype |-> NONE] : p \in {"tcp", "udp"}}
        \cup {[proto |-> "tcp", dst |-> Server1, port |-> 53, icmptype |-> NONE]}]
\* the same with an echo request and reply to Server1
MCPacketsDnsIcmp ==
    [f \in Families |->
        MCPacketsDns[f] \cup [proto : {"icmp"}, dst : {Server1}, port : {0}, icmptype : {"0", "8"}]]
\* a resolved dsthost beside the dns rules, the refused program and the
\* wrong-family rule
MCUpdatesNftWide == MCUpdatesNft \cup {ToHost}
MCUpdatesNftLive == MCUpdatesNft \cup {GoneHost, PingOnly}

=============================================================================
