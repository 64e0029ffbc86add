-------------------------- MODULE NftablesFirewall --------------------------
(***************************************************************************)
(* qubes-firewall with the nftables backend (NftablesWorker), the worker   *)
(* main picks when the nft tool is installed.  Every nft -f call is one    *)
(* step and one transaction: the kernel applies all of its program or none *)
(* of it.  init, create_chain and the per-address program are declarative: *)
(* a table or chain that exists is kept, a rule is appended.               *)
(*                                                                         *)
(* The kernel: fwd[f] holds the rules of chain forward of table            *)
(* "<f> qubes-firewall", kchains[f] its other chains.  Every init appends  *)
(* the ct state rule to forward and only "delete table" removes rules from *)
(* it, so the table exists exactly when fwd[f] is not empty.               *)
(***************************************************************************)
EXTENDS FirewallWorker

vars == <<storeVars, workerVars, kernelVars, envVars>>

\* ct state established,related accept: a new connection never matches it
CtAccept == [src |-> NONE, target |-> "CT"]
TableExists(f) == fwd[f] # <<>>
NoTables == [f \in Families |-> <<>>]
NoKChains == [f \in Families |-> [c \in {} |-> <<>>]]

\* The programs prepare_rules makes of the rule lists and the verdicts of
\* their rules: constant tables TLC computes once.
Prepared == Tabulate([k \in Families \X RuleLists |-> NftPrepareRules(k[2], k[1])])
Programs == {Prepared[k].val : k \in {j \in DOMAIN Prepared : Prepared[j].err = "none"}}
AllPackets == UNION {Packets[f] : f \in Families}
ChainVerdicts == Tabulate([k \in Programs \X AllPackets |-> NftChainVerdict(k[1], k[2])])
ChainVerdict(l, pkt) ==
    IF l \in Programs THEN ChainVerdicts[<<l, pkt>>] ELSE NftChainVerdict(l, pkt)

Init ==
    /\ WorkerInit
    /\ fwd = NoTables
    /\ kchains = NoKChains

-----------------------------------------------------------------------------
(* NftablesWorker                                                           *)

\* init: one nft -f that declares both tables and their chain forward (hook
\* forward, policy drop) and appends the ct state rule to it; its
\* RuleApplyError escapes main
NftInit ==
    /\ pc = "init"
    /\ \/ /\ CallOk(TRUE)
          /\ fwd' = [f \in Families |-> Append(fwd[f], CtAccept)]
          /\ pc' = "scripts"
       \/ CallFails("init", TRUE) /\ pc' = "crashed" /\ UNCHANGED fwd
    /\ UNCHANGED <<storeVars, sweep, cur, mode, rules, chains, termreq, kchains, restarts>>

\* create_chain: one nft -f that declares the chain (an existing one keeps
\* its rules) and appends "<f> saddr <addr> jump <chain>" to forward, then
\* self.chains[f].add; handle_addr catches its RuleApplyError
NewChain ==
    /\ pc = "newchain"
    /\ \/ /\ CallOk(TRUE)
          /\ kchains' = [kchains EXCEPT ![Fam] =
                           IF Chain \in DOMAIN @ THEN @ ELSE (Chain :> <<>>) @@ @]
          /\ fwd' = [fwd EXCEPT ![Fam] = Append(@, Jump(cur, Chain))]
          /\ chains' = [chains EXCEPT ![Fam] = @ \cup {Chain}]
          /\ pc' = "apply"
          /\ UNCHANGED <<rules, mode>>
       \/ CallFails("newchain", TRUE) /\ OnApplyError /\ UNCHANGED <<kchains, fwd, chains>>
    /\ UNCHANGED <<storeVars, sweep, cur, termreq, restarts>>

\* a mutant: the program appends to the chain without flushing it
NftApplyNoFlush ==
    /\ pc = "apply"
    /\ LET p == Prepared[<<Fam, rules>>] IN
       \/ p.err = "parse" /\ OnParseError /\ UNCHANGED <<kchains, failures>>
       \/ p.err = "none" /\ LookupFails(rules) /\ OnParseError /\ UNCHANGED kchains
       \/ /\ p.err = "none"
          /\ LET ok == NftProgramValid(p.val) /\ Chain \in DOMAIN kchains[Fam] IN
             \/ /\ CallOk(ok)
                /\ kchains' = [kchains EXCEPT ![Fam][Chain] = @ \o p.val]
                /\ Finish
                /\ UNCHANGED <<rules, mode>>
             \/ CallFails("apply", ok) /\ OnApplyError /\ UNCHANGED kchains
    /\ UNCHANGED <<storeVars, sweep, cur, chains, termreq, fwd, restarts>>

\* apply_rules_family: prepare_rules (a RuleParseError, a lookup failed on
\* its own included), then one nft -f that flushes the
\* chain and refills it; nft refuses the whole program or runs all of it
NftApply ==
    /\ pc = "apply"
    /\ LET p == Prepared[<<Fam, rules>>] IN
       \/ p.err = "parse" /\ OnParseError /\ UNCHANGED <<kchains, failures>>
       \/ p.err = "none" /\ LookupFails(rules) /\ OnParseError /\ UNCHANGED kchains
       \/ /\ p.err = "none"
          /\ LET ok == NftProgramValid(p.val) /\ Chain \in DOMAIN kchains[Fam] IN
             \/ /\ CallOk(ok)
                /\ kchains' = [kchains EXCEPT ![Fam][Chain] = p.val]
                /\ Finish
                /\ UNCHANGED <<rules, mode>>
             \/ CallFails("apply", ok) /\ OnApplyError /\ UNCHANGED kchains
    /\ UNCHANGED <<storeVars, sweep, cur, chains, termreq, fwd, restarts>>

\* cleanup: one nft -f deleting both tables; its RuleApplyError escapes main
NftCleanup ==
    /\ pc = "cleanup"
    /\ LET ok == \A f \in Families : TableExists(f) IN
       \/ /\ CallOk(ok)
          /\ fwd' = NoTables
          /\ kchains' = NoKChains
          /\ pc' = "stopped"
       \/ CallFails("cleanup", ok) /\ pc' = "crashed" /\ UNCHANGED kernelVars
    /\ UNCHANGED <<storeVars, sweep, cur, mode, rules, chains, termreq, restarts>>

Daemon == WorkerStep \/ NftInit \/ NewChain \/ NftApply \/ NftCleanup

Next == Daemon \/ SigTerm \/ Kill \/ Restart \/ DomZero

\* the main thread runs whenever it can; dom0 finishes an update it began
Spec == Init /\ [][Next]_vars /\ WF_vars(Daemon) /\ WF_vars(DomZeroFinish)

-----------------------------------------------------------------------------
(* What the kernel does with a new connection from a: no table, no        *)
(* filtering; else forward in order, a jump whose saddr matches runs the  *)
(* chain, a chain without a match returns, and the policy drops.          *)

RECURSIVE FwdVerdict(_, _, _, _)
FwdVerdict(f, a, pkt, i) ==
    IF i > Len(fwd[f]) THEN "DROP"
    ELSE LET r == fwd[f][i]
             v == IF r = CtAccept THEN "RETURN" ELSE ChainVerdict(kchains[f][r.target], pkt)
         IN IF r.src = a /\ v # "RETURN" THEN v ELSE FwdVerdict(f, a, pkt, i + 1)

VerdictOf(a) ==
    [pkt \in Packets[FamilyOf(a)] |->
        IF TableExists(FamilyOf(a)) THEN FwdVerdict(FamilyOf(a), a, pkt, 1)
        ELSE "FALLTHROUGH"]

\* the rules handle_addr installs for a when it reads the leaves e and
\* every call succeeds; forward's policy drops what the chain returns
InstalledLines(a, e) ==
    LET r == Parsed[e]
        p == Prepared[<<FamilyOf(a), r.val>>]
    IN IF r.err = "none" /\ p.err = "none" /\ NftProgramValid(p.val) THEN p.val
       ELSE Prepared[<<FamilyOf(a), DropRules>>].val
LinesVerdict(a, lines) ==
    [pkt \in Packets[FamilyOf(a)] |->
        IF ChainVerdict(lines, pkt) = "RETURN" THEN "DROP"
        ELSE ChainVerdict(lines, pkt)]

-----------------------------------------------------------------------------
(* Properties                                                              *)

Pcs == {"init", "scripts", "list", "sweep", "loop", "read", "newchain", "apply",
        "cleanup"} \cup Dead
ChainNames == {NftChainFor(a) : a \in Addrs}

TypeOK ==
    /\ pc \in Pcs
    /\ sweep \subseteq Addrs
    /\ cur \in Addrs \cup {NONE}
    /\ mode \in {"rules", "parse_fb", "apply_fb"}
    /\ chains \in [Families -> SUBSET ChainNames]
    /\ termreq \in BOOLEAN
    /\ \A f \in Families :
          /\ \A i \in DOMAIN fwd[f] :
                fwd[f][i] \in {CtAccept} \cup [src : Addrs, target : ChainNames]
          /\ DOMAIN kchains[f] \subseteq ChainNames
    /\ watchq \in Seq([addr : Addrs, slashes : {2, 3}])
    /\ failures \in 0..MaxFailures
    /\ restarts \in 0..MaxRestarts

\* The nftables backend implements FirewallSpec with the daemon up exactly
\* while both qubes-firewall tables exist: from the first successful init
\* to cleanup, through kills, crashes and restarts, every step changes one
\* address at a time to the meaning spec.md gives a rule set it held, or
\* to all-drop, and never leaves an address unfiltered.
FW == INSTANCE FirewallSpec WITH
          Leaves <- LeafSets,
          Meaning <- MeaningOf,
          filter <- [a \in Addrs |-> VerdictOf(a)],
          up <- \A f \in Families : TableExists(f)
RefinesFirewallSpec == FW!Spec

\* Once dom0 stops writing, the kernel treats the packets of every address
\* as its final leaf set has it.
EventuallyConsistent ==
    \A a \in Addrs : <>[](VerdictOf(a) = LinesVerdict(a, InstalledLines(a, db[a])))

=============================================================================
