------------------------------- MODULE Rules -------------------------------
(***************************************************************************)
(* The pure part of src/qubesagent/firewall.py: the parse of a rule set    *)
(* read from QubesDB (read_rules), the chain names (chain_for_addr,        *)
(* is_ip6), the nameservers (dns_addresses), the translation of a rule     *)
(* list into the lines of an iptables-restore program                      *)
(* (IptablesWorker.prepare_rules), and the packet semantics of the lines   *)
(* the kernel then runs.  Addresses, keys and rule values are TLA+         *)
(* strings, and the code's string operations (split, replace, slicing,     *)
(* sorted) are modelled on them by what they do.                           *)
(***************************************************************************)
EXTENDS Integers, Sequences, FiniteSets, TLC

CONSTANTS
    NONE,         \* Python's None
    ResolvConf,   \* the (stripped) lines of /etc/resolv.conf
    Resolve,      \* Resolve[name][family]: the addresses getaddrinfo returns,
    ResolveFail,  \*   or ResolveFail when it raises socket.gaierror
    Subnets       \* a prefix literal -> the host addresses it covers

Families == {4, 6}

\* A constant table: TLC keeps a function constructor as a lambda and
\* evaluates its body at every application; comparing it builds the table
\* once, and a constant definition keeps it for the whole run.
Tabulate(t) == IF t = t THEN t ELSE t

-----------------------------------------------------------------------------
(* String operations.  A character is a substring of length one.          *)

Ch(s, i) == SubSeq(s, i, i)
Rest(s) == SubSeq(s, 2, Len(s))
Count(s, c) == Cardinality({i \in 1..Len(s) : Ch(s, i) = c})
\* s.replace(c, r) for each character c in cs
RECURSIVE ReplaceChars(_, _, _)
ReplaceChars(s, cs, r) ==
    IF s = "" THEN ""
    ELSE (IF Ch(s, 1) \in cs THEN r ELSE Ch(s, 1)) \o ReplaceChars(Rest(s), cs, r)
\* s[-n:]
LastChars(s, n) == IF Len(s) <= n THEN s ELSE SubSeq(s, Len(s) - n + 1, Len(s))
\* s.split(c)
RECURSIVE Split(_, _)
Split(s, c) ==
    IF Count(s, c) = 0 THEN <<s>>
    ELSE LET p == CHOOSE i \in 1..Len(s) : Ch(s, i) = c /\ Count(SubSeq(s, 1, i - 1), c) = 0
         IN <<SubSeq(s, 1, p - 1)>> \o Split(SubSeq(s, p + 1, Len(s)), c)
StartsWith(s, t) == Len(s) >= Len(t) /\ SubSeq(s, 1, Len(t)) = t
Digits == "0123456789"
IsDigits(s) == Len(s) > 0 /\ \A i \in 1..Len(s) : Count(Digits, Ch(s, i)) = 1
\* int(s)
RECURSIVE Num(_)
Num(s) == IF s = "" THEN 0
          ELSE 10 * Num(SubSeq(s, 1, Len(s) - 1))
               + (CHOOSE d \in 0..9 : Ch(Digits, d + 1) = Ch(s, Len(s)))
\* str.upper()
Lower == "abcdefghijklmnopqrstuvwxyz"
RECURSIVE Upper(_)
Upper(s) ==
    IF s = "" THEN ""
    ELSE (IF Count(Lower, Ch(s, 1)) = 1
          THEN Ch("ABCDEFGHIJKLMNOPQRSTUVWXYZ", CHOOSE i \in 1..26 : Ch(Lower, i) = Ch(s, 1))
          ELSE Ch(s, 1)) \o Upper(Rest(s))
\* Python orders str by code point; these are the characters keys, options
\* and addresses use, in code-point order
CodeOrder == "-./0123456789:abcdefghijklmnopqrstuvwxyz"
Code(c) == CHOOSE i \in 1..Len(CodeOrder) : Ch(CodeOrder, i) = c
RECURSIVE StrLess(_, _)
StrLess(a, b) ==
    IF a = "" \/ b = "" THEN a = "" /\ b # ""
    ELSE IF Ch(a, 1) = Ch(b, 1) THEN StrLess(Rest(a), Rest(b))
         ELSE Code(Ch(a, 1)) < Code(Ch(b, 1))
\* sorted() of a set of str, by insertion
RECURSIVE Insert(_, _)
Insert(x, s) ==
    IF s = <<>> \/ StrLess(x, Head(s)) THEN <<x>> \o s
    ELSE <<Head(s)>> \o Insert(x, Tail(s))
RECURSIVE Sorted(_)
Sorted(S) ==
    IF S = {} THEN <<>>
    ELSE LET x == CHOOSE x \in S : TRUE IN Insert(x, Sorted(S \ {x}))

-----------------------------------------------------------------------------
(* Results: err is "none", "parse" (RuleParseError) or "value" (the       *)
(* ValueError dict() raises); val is the result when err = "none".        *)

Ok(v) == [err |-> "none", val |-> v]
Fail(e) == [err |-> e, val |-> NONE]

\* FirewallWorker.is_ip6
IsIp6(addr) == Count(addr, ":") > 0
FamilyOf(addr) == IF IsIp6(addr) THEN 6 ELSE 4

\* IptablesWorker.chain_for_addr: dots and colons become dashes, the last
\* 20 characters are kept
IptChainFor(addr) == "qbs-" \o LastChars(ReplaceChars(addr, {".", ":"}, "-"), 20)

\* dict(elem.split('=') for elem in rule.split(' ')): later tokens override
\* earlier ones; a token that does not split into exactly two is a ValueError
RECURSIVE ToDict(_)
ToDict(tokens) ==
    IF tokens = <<>> THEN [k \in {} |-> ""]
    ELSE LET kv == Split(Head(tokens), "=") IN ToDict(Tail(tokens)) @@ (kv[1] :> kv[2])
RuleDict(v) ==
    LET tokens == Split(v, " ")
    IN IF \E i \in DOMAIN tokens : Count(tokens[i], "=") # 1 THEN Fail("value")
       ELSE Ok(ToDict(tokens))

\* the for loop of read_rules over the sorted rule keys: the first key that
\* is not a rule number, whose value is not k=v tokens, or whose rule has
\* no action ends it with an error
RECURSIVE RuleLoop(_, _)
RuleLoop(entries, keys) ==
    IF keys = <<>> THEN Ok(<<>>)
    ELSE LET k == Head(keys)
             d == RuleDict(entries[k])
             more == RuleLoop(entries, Tail(keys))
         IN IF ~(Len(k) = 4 /\ IsDigits(k)) THEN Fail("parse")
            ELSE IF d.err # "none" THEN Fail("value")
            ELSE IF "action" \notin DOMAIN d.val THEN Fail("parse")
            ELSE IF more.err # "none" THEN more
            ELSE Ok(<<d.val>> \o more.val)

\* FirewallWorker.read_rules, given the leaves under /qubes-firewall/<addr>/:
\* the rules in sorted key order, then the policy as a rule of its own
ReadRules(entries) ==
    LET loop == RuleLoop(entries, Sorted(DOMAIN entries \ {"policy"}))
    IN IF "policy" \notin DOMAIN entries THEN Fail("parse")
       ELSE IF loop.err # "none" THEN loop
       ELSE Ok(loop.val \o << "action" :> entries["policy"] >>)

\* The fallback rule list handle_addr applies after an error
DropRules == << "action" :> "drop" >>

\* FirewallWorker.dns_addresses(family)
RECURSIVE Nameservers(_, _)
Nameservers(lines, f) ==
    IF lines = <<>> THEN <<>>
    ELSE LET line == Head(lines)
             keep == /\ StartsWith(line, "nameserver")
                     /\ \/ Count(line, ".") = 3 /\ f = 4
                        \/ Count(line, ":") > 0 /\ f = 6
         IN (IF keep THEN <<Split(line, " ")[2]>> ELSE <<>>) \o Nameservers(Tail(lines), f)
DnsAddresses(f) == Nameservers(ResolvConf, f)

-----------------------------------------------------------------------------
(* IptablesWorker.prepare_rules                                            *)

SupportedOpts == {"action", "proto", "dst4", "dst6", "dsthost", "dstports",
                  "specialtarget", "icmptype"}
FullMask(f) == IF f = 6 THEN "/128" ELSE "/32"
Has(r, o) == o \in DOMAIN r

\* the rule's destination is its dsthost, looked up with getaddrinfo
LooksUp(r) == ~Has(r, "dst4") /\ ~Has(r, "dst6") /\ Has(r, "dsthost")

\* the checks that raise RuleParseError for one rule, in either backend
RuleError(r, f) ==
    \/ DOMAIN r \ SupportedOpts # {}
    \/ Has(r, "dst4") /\ f = 6
    \/ Has(r, "dst6") /\ f = 4
    \/ LooksUp(r) /\ Resolve[r["dsthost"]][f] = ResolveFail

IsDnsRule(r) == Has(r, "specialtarget") /\ r["specialtarget"] = "dns"

\* the lines one rule expands to: proto x dsthost, both sorted
IptLines(chain, r, f) ==
    LET dns == {DnsAddresses(f)[i] \o FullMask(f) : i \in DOMAIN DnsAddresses(f)}
        protos0 == IF ~Has(r, "proto") THEN NONE
                   ELSE {IF r["proto"] = "icmp" /\ f = 6 THEN "icmpv6" ELSE r["proto"]}
        dsthosts0 == CASE Has(r, "dst4") -> {r["dst4"]}
                       [] Has(r, "dst6") -> {r["dst6"]}
                       [] Has(r, "dsthost") ->
                              {a \o FullMask(f) : a \in Resolve[r["dsthost"]][f]}
                       [] OTHER -> NONE
        ports0 == IF Has(r, "dstports")
                  THEN ReplaceChars(r["dstports"], {"-"}, ":") ELSE NONE
        skip == IsDnsRule(r) /\ (ports0 \notin {"53:53", NONE} \/ dns = {})
        protos == IF ~IsDnsRule(r) THEN protos0
                  ELSE IF protos0 = NONE THEN {"tcp", "udp"}
                  ELSE {"tcp", "udp"} \cap protos0
        dsthosts == IF ~IsDnsRule(r) THEN dsthosts0
                    ELSE IF dsthosts0 = NONE THEN dns ELSE dns \cap dsthosts0
        P == IF protos = NONE THEN <<NONE>> ELSE Sorted(protos)
        D == IF dsthosts = NONE THEN <<NONE>> ELSE Sorted(dsthosts)
        Line(p, d) ==
            [chain |-> chain, d |-> d, p |-> p,
             dport |-> IF IsDnsRule(r) THEN "53:53" ELSE ports0,
             icmp |-> IF Has(r, "icmptype") THEN r["icmptype"] ELSE NONE,
             j |-> Upper(r["action"])]
        RECURSIVE Lines(_, _)
        Lines(ps, ds) ==
            IF ps = <<>> THEN <<>>
            ELSE IF ds = <<>> THEN Lines(Tail(ps), D)
            ELSE <<Line(Head(ps), Head(ds))>> \o Lines(ps, Tail(ds))
    IN IF skip THEN <<>> ELSE Lines(P, D)

RECURSIVE IptRulesLines(_, _, _)
IptRulesLines(chain, rs, f) ==
    IF rs = <<>> THEN <<>>
    ELSE IptLines(chain, Head(rs), f) \o IptRulesLines(chain, Tail(rs), f)

IptPrepareRules(chain, rs, f) ==
    IF \E i \in DOMAIN rs : RuleError(rs[i], f) THEN Fail("parse")
    ELSE Ok(IptRulesLines(chain, rs, f))

-----------------------------------------------------------------------------
(* What the kernel does with the lines.  iptables-restore rejects a       *)
(* program with --dport but no -p tcp/udp, or --icmp-type but no icmp     *)
(* protocol.  A packet is [proto, dst, port, icmptype].                   *)

IptLineValid(l) == /\ l.dport # NONE => l.p \in {"tcp", "udp"}
                   /\ l.icmp # NONE => l.p \in {"icmp", "icmpv6"}
IptProgramValid(lines) == \A i \in DOMAIN lines : IptLineValid(lines[i])

Covers(d, h) == \/ d \in {h \o "/32", h \o "/128", h}
                \/ d \in DOMAIN Subnets /\ h \in Subnets[d]
PortIn(port, spec) ==
    LET b == Split(spec, ":") IN Num(b[1]) <= port /\ port <= Num(b[Len(b)])
IptMatch(l, pkt) ==
    /\ l.d = NONE \/ Covers(l.d, pkt.dst)
    /\ l.p = NONE \/ l.p = pkt.proto
    /\ l.dport = NONE \/ PortIn(pkt.port, l.dport)
    /\ l.icmp = NONE \/ l.icmp = pkt.icmptype

\* a user chain: the target of the first line that matches, else "RETURN"
RECURSIVE IptChainVerdict(_, _)
IptChainVerdict(lines, pkt) ==
    IF lines = <<>> THEN "RETURN"
    ELSE IF IptMatch(Head(lines), pkt) THEN Head(lines).j
    ELSE IptChainVerdict(Tail(lines), pkt)

-----------------------------------------------------------------------------
(* NftablesWorker.prepare_rules.  A rule of the nft program is a record:  *)
(* p the "ip protocol"/"ip6 nexthdr" match, d the set of "daddr" matches  *)
(* (each a set of prefixes, all must match), dp and dport the "<dp> dport" *)
(* match, icmp the "icmp(v6) type" match, j the verdict keyword.          *)

\* a mutant: the range kept as written
CollapseNone(ports) == ports
\* the dstports collapse: "53-53" becomes "53"
Collapse(ports) ==
    LET parts == Split(ports, "-")
    IN IF Cardinality({parts[i] : i \in DOMAIN parts}) = 1 THEN parts[1] ELSE ports

\* the rules one rule emits: none (a skipped dns rule), one, or one for
\* tcp and one for udp when dstports is set without proto
NftLines(r, f) ==
    LET dns == {DnsAddresses(f)[i] \o FullMask(f) : i \in DOMAIN DnsAddresses(f)}
        proto == IF ~Has(r, "proto") THEN NONE
                 ELSE IF r["proto"] = "icmp" /\ f = 6 THEN "icmpv6" ELSE r["proto"]
        dsts0 == CASE Has(r, "dst4") -> {{r["dst4"]}}
                   [] Has(r, "dst6") -> {{r["dst6"]}}
                   [] Has(r, "dsthost") ->
                          {{a \o FullMask(f) : a \in Resolve[r["dsthost"]][f]}}
                   [] OTHER -> {}
        ports0 == IF Has(r, "dstports") THEN Collapse(r["dstports"]) ELSE NONE
        skip == IsDnsRule(r) /\ (ports0 \notin {"53", NONE} \/ dns = {})
        ports == IF IsDnsRule(r) THEN "53" ELSE ports0
        Line(dp) == [p |-> proto, d |-> IF IsDnsRule(r) THEN dsts0 \cup {dns} ELSE dsts0,
                     dp |-> dp, dport |-> ports,
                     icmp |-> IF Has(r, "icmptype") THEN r["icmptype"] ELSE NONE,
                     j |-> r["action"]]
    IN CASE skip -> <<>>
         [] ports = NONE -> <<Line(NONE)>>
         [] Has(r, "proto") -> <<Line(r["proto"])>>
         [] OTHER -> <<Line("tcp"), Line("udp")>>

RECURSIVE NftRulesLines(_, _)
NftRulesLines(rs, f) ==
    IF rs = <<>> THEN <<>> ELSE NftLines(Head(rs), f) \o NftRulesLines(Tail(rs), f)

NftPrepareRules(rs, f) ==
    IF \E i \in DOMAIN rs : RuleError(rs[i], f) THEN Fail("parse")
    ELSE Ok(NftRulesLines(rs, f))

\* nft refuses a "dport" match of a protocol that has no ports
NftProgramValid(lines) == \A i \in DOMAIN lines : lines[i].dp \in {NONE, "tcp", "udp"}

NftMatch(l, pkt) ==
    /\ l.p \in {NONE, pkt.proto}
    /\ \A S \in l.d : \E x \in S : Covers(x, pkt.dst)
    /\ \/ l.dport = NONE
       \/ l.dp = pkt.proto /\ PortIn(pkt.port, ReplaceChars(l.dport, {"-"}, ":"))
    /\ l.icmp \in {NONE, pkt.icmptype}

RECURSIVE NftChainVerdict(_, _)
NftChainVerdict(lines, pkt) ==
    IF lines = <<>> THEN "RETURN"
    ELSE IF NftMatch(Head(lines), pkt) THEN Upper(Head(lines).j)
    ELSE NftChainVerdict(Tail(lines), pkt)

\* NftablesWorker.chain_for_addr: no truncation
NftChainFor(addr) == "qbs-" \o ReplaceChars(addr, {".", ":"}, "-")

=============================================================================
