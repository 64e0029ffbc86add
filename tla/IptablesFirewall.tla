-------------------------- MODULE IptablesFirewall --------------------------
(***************************************************************************)
(* qubes-firewall with the iptables backend (FirewallWorker.main,          *)
(* handle_addr and IptablesWorker) running against QubesDB and the         *)
(* kernel's filter table.  Every iptables, ip6tables or iptables-restore   *)
(* call is one step, so that the writer, SIGTERM and a kill of the process *)
(* can come between any two of them.  A call fails when the kernel refuses *)
(* it (a chain that exists or is missing, a program iptables-restore       *)
(* rejects) and, up to MaxFailures times, on its own (the xtables lock     *)
(* held by another process, no memory).                                    *)
(***************************************************************************)
EXTENDS FirewallWorker

VARIABLES
    prog       \* the lines prepare_rules produced

vars == <<storeVars, workerVars, prog, kernelVars, envVars>>

InitPcs == <<"init", "init_A4", "init_F6", "init_A6", "scripts">>
DropAll == [src |-> NONE, target |-> "DROP"]

\* The programs prepare_rules makes of the rule lists, and the verdicts of
\* their lines: constant tables TLC computes once.
Prepared == Tabulate([k \in Addrs \X RuleLists |->
                IptPrepareRules(IptChainFor(k[1]), k[2], FamilyOf(k[1]))])
Programs == {IF Prepared[k].err = "none" THEN Prepared[k].val ELSE <<>> : k \in DOMAIN Prepared}
AllPackets == UNION {Packets[f] : f \in Families}
ChainVerdicts == Tabulate([k \in Programs \X AllPackets |-> IptChainVerdict(k[1], k[2])])
ChainVerdict(l, pkt) ==
    IF l \in Programs THEN ChainVerdicts[<<l, pkt>>] ELSE IptChainVerdict(l, pkt)

Init ==
    /\ WorkerInit
    /\ prog = <<>>
    /\ fwd = [f \in Families |-> <<>>]        \* created empty before the service
    /\ kchains = [f \in Families |-> [c \in {} |-> <<>>]]

-----------------------------------------------------------------------------
(* FirewallWorker.main                                                      *)

\* a mutant: init appending the DROP before it flushes QBS-FORWARD
InitCmdSwapped ==
    \E i \in 1..4 :
        /\ pc = InitPcs[i]
        /\ LET f == IF i <= 2 THEN 4 ELSE 6 IN
           \/ /\ CallOk(TRUE)
              /\ fwd' = [fwd EXCEPT ![f] = IF i % 2 = 0 THEN <<>> ELSE Append(@, DropAll)]
              /\ pc' = InitPcs[i + 1]
           \/ /\ CallFails("init", TRUE)
              /\ LogError(pc' = "exited")
              /\ UNCHANGED fwd
        /\ UNCHANGED <<storeVars, sweep, cur, mode, rules, prog, chains, termreq,
                       kchains, restarts>>

\* IptablesWorker.init: -F QBS-FORWARD, -A QBS-FORWARD -j DROP, for 4 then
\* 6; a failed call is logged (log_error) and sys.exit(1) ends the process
InitCmd ==
    \E i \in 1..4 :
        /\ pc = InitPcs[i]
        /\ LET f == IF i <= 2 THEN 4 ELSE 6 IN
           \/ /\ CallOk(TRUE)
              /\ fwd' = [fwd EXCEPT ![f] = IF i % 2 = 1 THEN <<>> ELSE Append(@, DropAll)]
              /\ pc' = InitPcs[i + 1]
           \/ /\ CallFails("init", TRUE)
              /\ LogError(pc' = "exited")
              /\ UNCHANGED fwd
        /\ UNCHANGED <<storeVars, sweep, cur, mode, rules, prog, chains, termreq,
                       kchains, restarts>>

\* IptablesWorker.cleanup, for family 4 then 6: -F QBS-FORWARD, then -F and
\* -X of every chain in self.chains[f], in set order; a failed call raises
\* out of main and leaves the rest in the kernel
CleanupPcs == [f \in Families |-> IF f = 4 THEN "cleanup" ELSE "cleanup6"]
CleanupChainPcs == [f \in Families |-> IF f = 4 THEN "cleanupX4" ELSE "cleanupX6"]
CleanupForward ==
    \E f \in Families :
        /\ pc = CleanupPcs[f]
        /\ \/ CallOk(TRUE) /\ fwd' = [fwd EXCEPT ![f] = <<>>] /\ pc' = CleanupChainPcs[f]
           \/ CallFails("cleanup", TRUE) /\ pc' = "crashed" /\ UNCHANGED fwd
        /\ UNCHANGED <<storeVars, sweep, cur, mode, rules, prog, chains,
                       termreq, kchains, restarts>>

\* the chains of self.chains[f] not yet deleted
Undeleted(f) == chains[f] \cap DOMAIN kchains[f]

CleanupChain ==
    \E f \in Families :
        /\ pc = CleanupChainPcs[f]
        /\ \/ /\ Undeleted(f) = {}
              /\ pc' = IF f = 4 THEN CleanupPcs[6] ELSE "stopped"
              /\ UNCHANGED <<kchains, failures>>
           \/ \E c \in Undeleted(f) :
                 \/ /\ CallOk(TRUE)
                    /\ kchains' = [kchains EXCEPT ![f] =
                                     [d \in DOMAIN @ \ {c} |-> @[d]]]
                    /\ UNCHANGED pc
                 \/ CallFails("cleanup", TRUE) /\ pc' = "crashed" /\ UNCHANGED kchains
        /\ UNCHANGED <<storeVars, sweep, cur, mode, rules, prog, chains,
                       termreq, fwd, restarts>>

-----------------------------------------------------------------------------
(* FirewallWorker.handle_addr(cur) and IptablesWorker.apply_rules          *)

\* create_chain: -N chain; its CalledProcessError is caught by nothing
NewChain ==
    /\ pc = "newchain"
    /\ LET ok == Chain \notin DOMAIN kchains[Fam] IN
       \/ /\ CallOk(ok)
          /\ kchains' = [kchains EXCEPT ![Fam] = (Chain :> <<>>) @@ @]
          /\ pc' = "jump"
       \/ CallFails("newchain", ok) /\ pc' = "crashed" /\ UNCHANGED kchains
    /\ UNCHANGED <<storeVars, sweep, cur, mode, rules, prog, chains, termreq,
                   fwd, restarts>>

\* create_chain: -I QBS-FORWARD -s addr -j chain, then self.chains[f].add
InsertJump ==
    /\ pc = "jump"
    /\ \/ /\ CallOk(TRUE)
          /\ fwd' = [fwd EXCEPT ![Fam] = <<Jump(cur, Chain)>> \o @]
          /\ chains' = [chains EXCEPT ![Fam] = @ \cup {Chain}]
          /\ pc' = "apply"
       \/ CallFails("jump", TRUE) /\ pc' = "crashed" /\ UNCHANGED <<fwd, chains>>
    /\ UNCHANGED <<storeVars, sweep, cur, mode, rules, prog, termreq, kchains,
                   restarts>>

\* prepare_rules (its RuleParseError goes to the except clause before any
\* call), then -F chain (a CalledProcessError is a RuleApplyError)
FlushChain ==
    /\ pc = "apply"
    /\ LET p == Prepared[<<cur, rules>>]
           ok == Chain \in DOMAIN kchains[Fam]
       IN \/ /\ p.err = "parse"
             /\ OnParseError
             /\ UNCHANGED <<prog, kchains, failures>>
          \/ /\ p.err = "none"
             /\ LookupFails(rules)
             /\ OnParseError
             /\ UNCHANGED <<prog, kchains>>
          \/ /\ p.err = "none"
             /\ CallOk(ok)
             /\ kchains' = [kchains EXCEPT ![Fam][Chain] = <<>>]
             /\ prog' = p.val
             /\ pc' = "restore"
             /\ UNCHANGED <<rules, mode>>
          \/ /\ p.err = "none"
             /\ CallFails("flush", ok)
             /\ OnApplyError
             /\ UNCHANGED <<prog, kchains>>
    /\ UNCHANGED <<storeVars, sweep, cur, chains, termreq, fwd, restarts>>

\* iptables-restore -n with the program: the lines are appended to the
\* chain, or the whole program is refused (RuleApplyError)
Restore ==
    /\ pc = "restore"
    /\ LET ok == IptProgramValid(prog) /\ Chain \in DOMAIN kchains[Fam] IN
       \/ /\ CallOk(ok)
          /\ kchains' = [kchains EXCEPT ![Fam][Chain] = @ \o prog]
          /\ Finish
          /\ UNCHANGED <<rules, mode>>
       \/ CallFails("restore", ok) /\ OnApplyError /\ UNCHANGED kchains
    /\ UNCHANGED <<storeVars, sweep, cur, prog, chains, termreq, fwd, restarts>>

Daemon ==
    \/ WorkerStep /\ UNCHANGED prog
    \/ InitCmd \/ CleanupForward \/ CleanupChain
    \/ NewChain \/ InsertJump \/ FlushChain \/ Restore

-----------------------------------------------------------------------------
(* The environment: SIGTERM, kill and restart, the dom0 writer.            *)

Next ==
    \/ Daemon
    \/ (SigTerm \/ Kill \/ DomZero) /\ UNCHANGED prog
    \/ Restart /\ prog' = <<>>

\* the main thread runs whenever it can; dom0 finishes an update it began
Spec == Init /\ [][Next]_vars /\ WF_vars(Daemon) /\ WF_vars(DomZeroFinish /\ UNCHANGED prog)

-----------------------------------------------------------------------------
(* What the kernel does with a packet from a: QBS-FORWARD in order; a jump *)
(* whose -s matches runs the chain, whose RETURN goes on with the next rule *)

RECURSIVE FwdVerdict(_, _, _, _)
FwdVerdict(f, a, pkt, i) ==
    IF i > Len(fwd[f]) THEN "FALLTHROUGH"
    ELSE LET r == fwd[f][i]
             v == IF r.target = "DROP" THEN "DROP"
                  ELSE ChainVerdict(kchains[f][r.target], pkt)
         IN IF r.src \in {NONE, a} /\ v # "RETURN" THEN v
            ELSE FwdVerdict(f, a, pkt, i + 1)

VerdictOf(a) == [pkt \in Packets[FamilyOf(a)] |-> FwdVerdict(FamilyOf(a), a, pkt, 1)]
Uniform(a, v) == [pkt \in Packets[FamilyOf(a)] |-> v]

\* the lines handle_addr installs for a when it reads the leaves e and
\* every call succeeds; the chain returns into the final DROP
InstalledLines(a, e) ==
    LET r == Parsed[e]
        p == Prepared[<<a, r.val>>]
    IN IF r.err = "none" /\ p.err = "none" /\ IptProgramValid(p.val) THEN p.val
       ELSE Prepared[<<a, DropRules>>].val
LinesVerdict(a, lines) ==
    [pkt \in Packets[FamilyOf(a)] |->
        IF ChainVerdict(lines, pkt) = "RETURN" THEN "DROP"
        ELSE ChainVerdict(lines, pkt)]

-----------------------------------------------------------------------------
(* Properties                                                              *)

Pcs == {"init", "init_A4", "init_F6", "init_A6", "scripts", "list", "sweep",
        "loop", "read", "newchain", "jump", "apply", "restore"}
       \cup {CleanupPcs[f] : f \in Families} \cup {CleanupChainPcs[f] : f \in Families}
       \cup Dead
ChainNames == {IptChainFor(a) : a \in Addrs}

TypeOK ==
    /\ pc \in Pcs
    /\ sweep \subseteq Addrs
    /\ cur \in Addrs \cup {NONE}
    /\ mode \in {"rules", "parse_fb", "apply_fb"}
    /\ chains \in [Families -> SUBSET ChainNames]
    /\ termreq \in BOOLEAN
    /\ \A f \in Families :
          /\ \A i \in DOMAIN fwd[f] :
                fwd[f][i] \in [src : Addrs \cup {NONE}, target : ChainNames \cup {"DROP"}]
          /\ DOMAIN kchains[f] \subseteq ChainNames
    /\ watchq \in Seq([addr : Addrs, slashes : {2, 3}])
    /\ failures \in 0..MaxFailures
    /\ restarts \in 0..MaxRestarts

\* The daemon is not up: before init has added the final DROP, during
\* cleanup once QBS-FORWARD of family 4 is flushed, once the process is gone
FailOpen == pc \in {InitPcs[i] : i \in 1..4} \cup {"cleanupX4", "cleanup6", "cleanupX6"}
                   \cup Dead
\* The iptables backend implements FirewallSpec: the kernel's verdicts
\* (QBS-FORWARD, the chains, the final DROP) are its filter, and the daemon
\* is up outside FailOpen.  Every step of init, handle_addr (create_chain,
\* -F, iptables-restore and the fallbacks), cleanup, a kill or a restart is
\* a step of FirewallSpec: one address at a time, to the meaning the
\* option table of spec.md gives a rule set it held, or to all-drop.
FW == INSTANCE FirewallSpec WITH
          Leaves <- LeafSets,
          Meaning <- MeaningOf,
          filter <- [a \in Addrs |-> VerdictOf(a)],
          up <- ~FailOpen
RefinesFirewallSpec == FW!Spec

\* A packet is accepted only if a committed rule set of its source (one a
\* commit write /qubes-firewall/<a> ended) accepts it: what the watch
\* filter in main (paths with more than two '/' are skipped) is for.
NoTransientAccept ==
    \A a \in Addrs : \A pkt \in Packets[FamilyOf(a)] :
        VerdictOf(a)[pkt] = "ACCEPT" =>
            \E e \in committed[a] : LinesVerdict(a, InstalledLines(a, e))[pkt] = "ACCEPT"

\* Once dom0 stops writing, the kernel treats the packets of every address
\* as its final leaf set has it (main's initial load, the watch loop and
\* handle_addr together).
EventuallyConsistent ==
    \A a \in Addrs : <>[](VerdictOf(a) = LinesVerdict(a, InstalledLines(a, db[a])))

=============================================================================
