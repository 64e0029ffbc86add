--------------------------- MODULE FirewallWorker ---------------------------
(***************************************************************************)
(* FirewallWorker: the part of qubes-firewall both backends share.  main   *)
(* (the initial load, qdb.watch, the read_watch loop), handle_addr and its *)
(* fallbacks, terminate(), and the process around them (SIGTERM, a kill,   *)
(* a restart by the service manager), against QubesDB and the kernel's     *)
(* forward chain and per-address chains.  The backend modules add init,    *)
(* create_chain, the apply of a prepared program and cleanup; ChainFor is  *)
(* the backend's chain_for_addr.                                           *)
(***************************************************************************)
EXTENDS QubesDB, RuleMeaning

CONSTANTS
    ChainFor(_),        \* the backend's chain_for_addr
    FaultyCalls,        \* the backend calls that may fail on their own
    MaxFailures,        \* how many times they may
    MaxRestarts,        \* kills and restarts by the service manager
    SignalTerm,         \* whether SIGTERM is delivered (once)
    NotifySend,         \* whether the notify-send program can be executed
    WriteDuringStartup  \* whether dom0 writes before the daemon watches

VARIABLES
    pc,        \* where the main thread is
    sweep,     \* addresses of the initial load not yet handled
    cur,       \* the address handle_addr is handling
    mode,      \* "rules": first apply; "parse_fb"/"apply_fb": the fallback
               \* applied in the except RuleParseError / RuleApplyError clause
    rules,     \* the rule list apply_rules was called with
    chains,    \* the backend's self.chains: [family -> chains created]
    termreq,   \* FirewallWorker.terminate_requested
    fwd,       \* fwd[f]: the rules of the forward chain, [src, target]
    kchains,   \* kchains[f]: chain name -> its rules
    failures,  \* calls failed on their own so far
    restarts   \* kills and restarts so far

workerVars == <<pc, sweep, cur, mode, rules, chains, termreq>>
kernelVars == <<fwd, kchains>>
envVars == <<failures, restarts>>

Dead == {"killed", "crashed", "exited", "stopped"}
Fam == FamilyOf(cur)
Chain == ChainFor(cur)
NoChains == [f \in Families |-> {}]
\* a mutant: -I QBS-FORWARD -s chain -j addr, the arguments swapped
JumpSwapped(a, c) == [src |-> c, target |-> a]
Jump(a, c) == [src |-> a, target |-> c]

\* the outcome of one backend call: it succeeds if the kernel accepts it
\* and no fault is injected; it fails if the kernel refuses it or a fault
\* is injected
CallOk(accepted) == accepted /\ UNCHANGED failures
CallFails(call, accepted) ==
    IF accepted
    THEN call \in FaultyCalls /\ failures < MaxFailures /\ failures' = failures + 1
    ELSE UNCHANGED failures

\* Every leaf set /qubes-firewall/<a>/ can hold (the initial ones and every
\* part of an update) and the rule lists read_rules makes of them: constant
\* tables TLC computes once.
LeafSets == {InitialDb[a] : a \in Addrs}
            \cup UNION {{[k \in K |-> u[k]] : K \in SUBSET DOMAIN u} : u \in Updates}
Parsed == Tabulate([e \in LeafSets |-> ReadRules(e)])
Meanings == Tabulate([k \in Addrs \X LeafSets |-> RefMeaning(k[1], k[2])])
MeaningOf(a, e) == Meanings[<<a, e>>]
RuleLists == {IF Parsed[e].err = "none" THEN Parsed[e].val ELSE DropRules : e \in LeafSets}

WorkerInit ==
    /\ StoreInit
    /\ pc = "init"
    /\ sweep = {}
    /\ cur = NONE
    /\ mode = "rules"
    /\ rules = <<>>
    /\ chains = NoChains
    /\ termreq = FALSE
    /\ failures = 0
    /\ restarts = 0

-----------------------------------------------------------------------------
(* FirewallWorker.main                                                      *)

\* run_firewall_dir, run_user_script: subprocess.call of every executable
\* file of the script directories, then of the user script; their exit
\* codes are ignored, but a file that cannot be executed (no #! line)
\* raises OSError out of main.  What the scripts do is not modelled.
RunScripts ==
    /\ pc = "scripts"
    /\ \/ CallOk(TRUE) /\ pc' = "list"
       \/ CallFails("scripts", TRUE) /\ pc' = "crashed"
    /\ UNCHANGED <<storeVars, sweep, cur, mode, rules, chains, termreq,
                   kernelVars, restarts>>

\* for source_addr in self.list_targets()
ListStep ==
    /\ pc = "list"
    /\ sweep' = ListTargets
    /\ pc' = "sweep"
    /\ UNCHANGED <<storeVars, cur, mode, rules, chains, termreq, kernelVars, envVars>>

SweepNext ==
    /\ pc = "sweep"
    /\ \E a \in sweep : cur' = a /\ sweep' = sweep \ {a}
    /\ pc' = "read"
    /\ UNCHANGED <<storeVars, mode, rules, chains, termreq, kernelVars, envVars>>

\* self.qdb.watch('/qubes-firewall/') once the initial load is done
WatchStep ==
    /\ pc = "sweep"
    /\ sweep = {}
    /\ watching' = TRUE
    /\ pc' = "loop"
    /\ UNCHANGED <<db, barrier, writing, target, updates, watchq, committed, seen,
                   sweep, cur, mode, rules, chains, termreq, kernelVars, envVars>>

\* a mutant: the watch filter also skipping the commit writes
ReadWatchSkipsCommits ==
    /\ pc = "loop"
    /\ watchq # <<>>
    /\ watchq' = Tail(watchq)
    /\ \/ Head(watchq).slashes >= 2 /\ UNCHANGED <<pc, cur>>
       \/ Head(watchq).slashes < 2 /\ cur' = Head(watchq).addr /\ pc' = "read"
    /\ UNCHANGED <<db, barrier, writing, target, updates, watching, committed, seen,
                   sweep, mode, rules, chains, termreq, kernelVars, envVars>>

\* read_watch: a path with more than two '/' is skipped, a commit write
\* /qubes-firewall/<addr> is handled
ReadWatch ==
    /\ pc = "loop"
    /\ watchq # <<>>
    /\ watchq' = Tail(watchq)
    /\ \/ Head(watchq).slashes > 2 /\ UNCHANGED <<pc, cur>>
       \/ Head(watchq).slashes <= 2 /\ cur' = Head(watchq).addr /\ pc' = "read"
    /\ UNCHANGED <<db, barrier, writing, target, updates, watching, committed, seen,
                   sweep, mode, rules, chains, termreq, kernelVars, envVars>>

-----------------------------------------------------------------------------
(* FirewallWorker.handle_addr(cur)                                          *)

Finish == pc' = IF watching THEN "loop" ELSE "sweep"

\* apply_rules(cur, rs) called from the clause m: apply_rules_family starts
\* with create_chain unless the chain is in self.chains
StartApply(rs, m) ==
    /\ rules' = rs
    /\ mode' = m
    /\ pc' = IF Chain \in chains[Fam] THEN "apply" ELSE "newchain"

\* socket.getaddrinfo of the dsthost rules prepare_rules translates: a name
\* may also fail to resolve on its own (the resolver unreachable), and the
\* socket.gaierror is raised as RuleParseError before any call is made
LookupFails(rs) == (\E i \in DOMAIN rs : LooksUp(rs[i])) /\ CallFails("resolve", TRUE)

\* log_error: self.log.error, then subprocess.call(['notify-send', ...]),
\* which ignores the exit code but raises OSError when notify-send cannot be
\* executed.  The exception escapes the clause that called log_error; in
\* the watch loop main's except OSError (the one meant for EINTR) takes it
\* and runs cleanup(), elsewhere (init, the initial load) it ends main.
LogError(then) ==
    CASE NotifySend -> then
      [] watching   -> pc' = "cleanup" /\ UNCHANGED <<rules, mode>>
      [] OTHER      -> pc' = "crashed" /\ UNCHANGED <<rules, mode>>

\* RuleParseError from the try block: log_error, then the fallback is
\* applied (prepare_rules of [{'action': 'drop'}] never raises it)
OnParseError == LogError(StartApply(DropRules, "parse_fb"))

\* RuleApplyError: from the try block it is logged and the fallback is
\* retried; from the retry it is logged; raised in the except
\* RuleParseError clause it escapes handle_addr and main
OnApplyError ==
    CASE mode = "rules"    -> LogError(StartApply(DropRules, "apply_fb"))
      [] mode = "apply_fb" -> LogError(Finish /\ UNCHANGED <<rules, mode>>)
      [] mode = "parse_fb" -> pc' = "crashed" /\ UNCHANGED <<rules, mode>>

\* rules = self.read_rules(addr); a ValueError is caught by nothing
ReadRulesStep ==
    /\ pc = "read"
    /\ LET r == Parsed[db[cur]] IN
       CASE r.err = "none"  -> StartApply(r.val, "rules")
         [] r.err = "parse" -> OnParseError
         [] r.err = "value" -> pc' = "crashed" /\ UNCHANGED <<rules, mode>>
    /\ UNCHANGED <<storeVars, sweep, cur, chains, termreq, kernelVars, envVars>>

WorkerStep == RunScripts \/ ListStep \/ SweepNext \/ WatchStep \/ ReadWatch \/ ReadRulesStep

-----------------------------------------------------------------------------
(* The environment: SIGTERM, kill and restart, the dom0 writer.            *)

\* the signal_map handler calls terminate(); a read_watch blocked on an
\* empty queue is interrupted (OSError) and main goes on to cleanup()
SigTerm ==
    /\ SignalTerm
    /\ pc \notin Dead
    /\ ~termreq
    /\ termreq' = TRUE
    /\ pc' = IF pc = "loop" /\ watchq = <<>> THEN "cleanup" ELSE pc
    /\ UNCHANGED <<storeVars, sweep, cur, mode, rules, chains, kernelVars, envVars>>

\* the process is killed between two steps
Kill ==
    /\ restarts < MaxRestarts
    /\ pc \notin Dead
    /\ pc' = "killed"
    /\ UNCHANGED <<storeVars, sweep, cur, mode, rules, chains, termreq,
                   kernelVars, envVars>>

\* a mutant: a restart that keeps the old process's registry
RestartKeepsRegistry ==
    /\ pc \in Dead \ {"stopped"}
    /\ restarts < MaxRestarts
    /\ restarts' = restarts + 1
    /\ pc' = "init"
    /\ sweep' = {} /\ cur' = NONE /\ mode' = "rules"
    /\ rules' = <<>> /\ termreq' = FALSE
    /\ watching' = FALSE /\ watchq' = <<>>
    /\ UNCHANGED <<db, barrier, writing, target, updates, committed, seen,
                   kernelVars, failures, chains>>

\* the service manager starts a new process; the kernel keeps its tables,
\* the new process starts with empty self.chains and no watch
Restart ==
    /\ pc \in Dead \ {"stopped"}
    /\ restarts < MaxRestarts
    /\ restarts' = restarts + 1
    /\ pc' = "init"
    /\ sweep' = {} /\ cur' = NONE /\ mode' = "rules"
    /\ rules' = <<>> /\ chains' = NoChains /\ termreq' = FALSE
    /\ watching' = FALSE /\ watchq' = <<>>
    /\ UNCHANGED <<db, barrier, writing, target, updates, committed, seen,
                   kernelVars, failures>>

DomZero ==
    /\ WriteDuringStartup \/ watching
    /\ Writer
    /\ UNCHANGED <<workerVars, kernelVars, envVars>>
DomZeroFinish ==
    /\ WriteDuringStartup \/ watching
    /\ WriterFinish
    /\ UNCHANGED <<workerVars, kernelVars, envVars>>

-----------------------------------------------------------------------------
(* Properties of the daemon, whatever the backend                          *)

\* The installed-chain registry (self.chains) matches the kernel while the
\* daemon runs: every chain it holds exists and is reached from the
\* forward chain by exactly one jump, whose source match is the address
\* the chain was made for (spec.md section 3); this is what lets
\* apply_rules_family skip create_chain.  It must survive a kill and
\* restart, after which the kernel still holds the old process's chains.
InstalledChainReachable ==
    pc \notin Dead /\ ~termreq =>
        \A f \in Families : \A c \in chains[f] :
            /\ c \in DOMAIN kchains[f]
            /\ Cardinality({i \in DOMAIN fwd[f] : fwd[f][i].target = c}) = 1
            /\ \E a \in Addrs : Jump(a, c) \in {fwd[f][i] : i \in DOMAIN fwd[f]}
                              /\ ChainFor(a) = c

\* A per-address parse or apply error never ends the daemon (spec section
\* 7): handle_addr catches what read_rules and apply_rules raise, so the
\* daemon neither dies of an exception nor leaves main and runs cleanup()
\* (which removes the filtering of every address) unless SIGTERM asked it
\* to.  A kill and init's sys.exit (a fatal error by section 7) are not
\* per-address errors.
NoCrash == pc \in {"crashed", "stopped"} => termreq

\* After SIGTERM the daemon eventually leaves main (cleanup or exit).
TermLeadsToExit == termreq ~> (pc \in Dead)

=============================================================================
