----------------------------- MODULE RuleMeaning -----------------------------
(***************************************************************************)
(* What a rule set means, by the option table of spec.md section 3 and the *)
(* error handling of section 7, not by the translation of either backend: *)
(* the verdict it gives each packet.  FirewallSpec judges both backends    *)
(* against it.                                                              *)
(***************************************************************************)
EXTENDS Rules

CONSTANT
    Packets     \* Packets[f]: the packets of family f verdicts are compared on

\* dstports: "N" or "N-M", an inclusive range
Ports(s) == LET b == Split(s, "-") IN Num(b[1])..Num(b[Len(b)])

\* a rule is the conjunction of its selectors (spec.md section 3);
\* specialtarget=dns is tcp or udp to port 53 of a nameserver of the
\* family, and a dns rule whose dstports is not the DNS port matches nothing
RefMatch(r, f, pkt) ==
    LET ns == {DnsAddresses(f)[i] : i \in DOMAIN DnsAddresses(f)}
        proto == IF r["proto"] = "icmp" /\ f = 6 THEN "icmpv6" ELSE r["proto"]
    IN /\ Has(r, "proto") => pkt.proto = proto
       /\ Has(r, "dst4") => Covers(r["dst4"], pkt.dst)
       /\ Has(r, "dst6") => Covers(r["dst6"], pkt.dst)
       /\ Has(r, "dsthost") => pkt.dst \in Resolve[r["dsthost"]][f]
       /\ Has(r, "dstports") => pkt.proto \in {"tcp", "udp"} /\ pkt.port \in Ports(r["dstports"])
       /\ IsDnsRule(r) => /\ pkt.proto \in {"tcp", "udp"} /\ pkt.port = 53 /\ pkt.dst \in ns
                          /\ Has(r, "dstports") => Ports(r["dstports"]) = {53}
       /\ Has(r, "icmptype") => pkt.icmptype = r["icmptype"]

\* the first rule that matches decides; the policy rule matches everything
RECURSIVE RefVerdict(_, _, _)
RefVerdict(rl, f, pkt) ==
    IF rl = <<>> THEN "FALLTHROUGH"
    ELSE IF RefMatch(Head(rl), f, pkt) THEN Upper(Head(rl)["action"])
    ELSE RefVerdict(Tail(rl), f, pkt)

\* the meaning of the leaf set e for address a: its rules, or the fallback
\* drop when it does not parse (section 7: a parse error is also an unknown
\* option, a family mismatch or a failed lookup)
RefMeaning(a, e) ==
    LET r == ReadRules(e)
        f == FamilyOf(a)
    IN [pkt \in Packets[f] |->
           IF r.err # "none" \/ \E i \in DOMAIN r.val : RuleError(r.val[i], f)
           THEN "DROP" ELSE RefVerdict(r.val, f, pkt)]

=============================================================================
