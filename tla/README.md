# TLA+ models of qubes-firewall

This directory holds TLA+ models of the `qubes-firewall` daemon in
`src/qubesagent/firewall.py`. They are checked with TLC. The daemon runs in a
Qubes firewall VM. It reads per-client rule sets from QubesDB and loads
them into the kernel packet filter. There is one chain per client (source)
address. A jump from the top-level chain sends the client's traffic into
its chain. The top-level chain is `QBS-FORWARD` for iptables, and `forward`
of table `qubes-firewall` for nftables.

## The system and how its parts interact

- **QubesDB (the store) and dom0 (the writer).** These are not code of this
  repository. dom0 updates the rules for address `A` in three stages:
  1. it removes `/qubes-firewall/A/`;
  2. it writes the leaves `policy` and `0000`, `0001`, … one at a time;
  3. it writes the empty *commit* key `/qubes-firewall/A`.

  Every write fires the watch the daemon registered. An event carries only
  the path of the write. The daemon reads the event later and then reads the
  subtree with `multiread` as it is at that moment.
- **Config reader.** `read_rules` turns the leaves into a rule list.
  `list_targets` lists the addresses, and `is_ip6` gives an address's family.
- **Backends.** Module `main` picks `NftablesWorker` when the `nft` tool
  exists, else `IptablesWorker`. Each backend has:
  - `init`: prepares the top-level chain;
  - `create_chain`: creates a per-address chain and the jump to it;
  - `prepare_rules`: translates a rule list into a program;
  - `apply_rules_family`: loads the program;
  - `cleanup`.

  Each keeps a registry `self.chains[family]` of the chains it created, and
  calls `create_chain` only for chains not in it.
  - iptables issues one `iptables` call per step: `-N`, `-I`, `-F`, and
    then `iptables-restore`.
  - nftables issues one `nft -f` transaction per operation. That
    transaction is declarative: an existing table or chain is kept, and a
    rule is appended.
- **Daemon loop.** `FirewallWorker.main` runs these steps in order:
  1. `init`;
  2. the firewall scripts;
  3. one `handle_addr` per listed address (the initial sweep);
  4. `qdb.watch`;
  5. the watch loop. The loop skips paths with more than two `/` and
     calls `handle_addr` on each commit key.

  `handle_addr` reads and applies the rules. On a `RuleParseError` it applies
  the fallback `[{'action': 'drop'}]`. On a `RuleApplyError` it retries that
  fallback once. SIGTERM runs `terminate()`, which only sets
  `terminate_requested`. A `read_watch` blocked on an empty queue is
  interrupted, and `main` then runs `cleanup`.
- **Kernel.** The top-level chain is applied in order. A jump whose source
  match is the packet's source runs the address chain, and the first
  matching rule decides. A chain with no match returns. The packet is then
  dropped: by iptables' final `-j DROP`, or by nftables' `policy drop`.
  Without the nftables table nothing filters.

There is one thread. What interleaves with the daemon is:
- dom0;
- the signal;
- the failure of any single backend call;
- the death and restart of the process.

## Modules

| Module | Models |
|---|---|
| `Rules.tla` | The pure part: `read_rules`, `is_ip6`, `dns_addresses`, both `chain_for_addr`s and both `prepare_rules`, and the kernel's packet semantics for the programs they emit. |
| `QubesDB.tla` | The store and the dom0 writer (environment, from spec.md §6), and `list_targets`. |
| `FirewallWorker.tla` | What the backends share: the steps of `main` and `handle_addr`, the fallbacks, `log_error`, the firewall scripts, SIGTERM, a kill and a restart, and the backend-independent properties. `ChainFor` is the backend's `chain_for_addr`. |
| `IptablesFirewall.tla` | The iptables backend: one action per `iptables`/`iptables-restore` call. |
| `NftablesFirewall.tla` | The nftables backend: one action per `nft -f` transaction. |
| `RuleMeaning.tla` | What a rule set means, by spec.md's option table (§3) and error handling (§7), independent of either backend. |
| `FirewallSpec.tla` | The abstract service both backends must implement. |
| `MCFirewall.tla`, `MCIptablesFirewall.tla`, `MCNftablesFirewall.tla` | Constants for TLC: addresses, rule sets and packets. |

### Rules

Addresses, keys and rule values are TLA+ strings. The string operations the
code uses are operators that do the same thing:

- `split`, `replace`, `[-20:]`, `isdigit`, `upper`, `sorted` on code-point
  order;
- `dict()` of the `k=v` tokens, where a later token overrides an earlier one.

Each of `ReadRules`, `IptPrepareRules` and `NftPrepareRules` returns one of
two results. On success it is `Ok(value)`. On failure it is
`Fail("parse")`, which stands for `RuleParseError`, or `Fail("value")`,
which stands for the `ValueError` that `dict()` raises.

The two translations follow the code:

- **`IptLines`.**
  - icmp becomes icmpv6 for family 6.
  - `specialtarget=dns` intersects the protocols and destinations with the
    nameservers, or skips the rule. Both the port and the destinations are
    compared as text.
  - The (proto × dst) product is emitted in sorted order.
  - A line is a record `[chain, d, p, dport, icmp, j]`.
  - `IptLineValid` states what `iptables-restore` refuses.
- **`NftLines`.**
  - `Collapse` turns `N-N` into `N`.
  - A dns rule is skipped unless its port is `53` or unset.
  - A dns rule adds the nameserver set as a second `daddr` match, beside
    any `dst4`/`dst6`.
  - A port without a protocol gives a `tcp dport` rule and a `udp dport`
    rule.
  - `NftProgramValid` states what `nft` refuses: a `dport` match on a
    protocol without ports.

Programs are records, not text. The constant tables are wrapped in
`Tabulate`, so TLC builds them once at start-up rather than at every use:
`Parsed`, `Meanings`, `Prepared` and `ChainVerdicts`. Tables inside an
`INSTANCE` are never built once. That is why the meaning table lives in
`FirewallWorker` and is passed to `FirewallSpec` as the operator `Meaning`.

### FirewallWorker, IptablesFirewall, NftablesFirewall

State:

- `pc`: the step of the main thread.
- `sweep`: addresses of the initial load not yet handled.
- `cur`: the address `handle_addr` is working on.
- `mode`: which `apply_rules` call is running. The values are the first
  apply, the fallback from `except RuleParseError`, and the fallback from
  `except RuleApplyError`.
- `rules`: the rule list being applied.
- `chains`: the registry.
- `termreq`: `terminate_requested`.
- The kernel, as `fwd[f]` (the top-level chain) and `kchains[f]`
  (chain → rules).
- Only in iptables: `prog`, the prepared program between `-F` and the
  restore.

The nftables table exists exactly when `fwd[f]` is non-empty. `init`
appends the `ct state` rule, and only `delete table` removes it.

Every backend call can succeed or fail:

- It fails when the kernel refuses it. Examples: iptables' `-N` of an
  existing chain, a program `iptables-restore` or `nft` rejects, and an
  nft `flush chain` of a chain that does not exist.
- A call whose kind is in `FaultyCalls` can also fail on its own, up to
  `MaxFailures` times. Examples are a busy xtables lock or no memory.
- The `getaddrinfo` of a `dsthost` rule is one call of kind `resolve`,
  made while `prepare_rules` runs. A name that does not resolve is in the
  `Resolve` table. A lookup can also fail on its own when the resolver is
  unreachable. Either way the error is a `RuleParseError`, raised before
  any backend call (`LookupFails`).
- The firewall scripts are one call of kind `scripts`. `subprocess.call`
  ignores a script's exit code. It raises `OSError` for a file that cannot
  be executed, for example one without a `#!` line. Nothing in `main`
  catches that error, so the daemon dies before the initial load.

Exception flow follows the code:

- **iptables.** A failure in `-N` or `-I` of `create_chain` is a
  `CalledProcessError` that nothing catches, so the model moves to
  `crashed`. A failure in `-F` or in the restore is a `RuleApplyError`.
- **nftables.** Every failed `nft -f` is a `RuleApplyError`:
  - inside `handle_addr` (`create_chain` and the apply) it is handled by
    `OnApplyError`;
  - in `init` and `cleanup` it escapes `main`.
- `OnParseError` handles a `RuleParseError`. A `ValueError` crashes.
- A `RuleApplyError` raised in the `except RuleParseError` clause crashes.
  In the `except RuleApplyError` clause it is logged.
- `LogError` models `log_error`. Every except clause calls it first, and
  iptables' `init` calls it before `sys.exit(1)`. It calls
  `subprocess.call(['notify-send', …])`, which ignores the exit code.
  When notify-send cannot be executed (`NotifySend = FALSE`) the call
  raises `OSError`, and the error escapes the clause that called it.
  Where it goes next depends on where the daemon is:
  - In the watch loop, `main`'s `except OSError` catches it. That handler
    is meant for an interrupted `read_watch`. `cleanup()` then runs.
  - In `init` and in the initial load, it ends the process.

The environment actions:

- `DomZero` runs the writer.
- `SigTerm` sets the flag. It also moves to cleanup, but only when the
  daemon is blocked in `read_watch` on an empty queue.
- `Kill` ends the process.
- `Restart` starts a new one. The new process has an empty registry and no
  watch, and the kernel keeps its state.

### The abstract service and the refinement

`FirewallSpec` has three variables:

- `seen[a]`: the leaf sets `/qubes-firewall/a/` has held. This is QubesDB's
  history variable.
- `filter[a]`: the verdict of each packet from `a`: ACCEPT, DROP or
  FALLTHROUGH (unfiltered).
- `up`.

Its steps are these:

- dom0 writes a leaf set.
- One address's filter changes to the meaning (`RuleMeaning`) of a leaf
  set it held, or to all-drop. While `up` is false it may also change to
  unfiltered.
- `Start`: every address is filtered.
- `Stop`: anything goes that is unfiltered or allowed.

The meaning is spec.md's, not the code's translation:

- `dstports N-M` is the range N..M.
- `dst4` is a literal with an optional mask.
- `specialtarget=dns` is tcp/udp to port 53 of a nameserver, and requires
  any `dstports` to be 53.
- A leaf set with a parse error means all-drop.

Each backend maps its kernel state to `filter` (`VerdictOf`) and defines
`up`:

- iptables: outside `FailOpen`, i.e. after `init` appended the DROP, before
  cleanup, while the process is alive;
- nftables: while both tables exist.

It checks `FW!Spec` as the property `RefinesFirewallSpec`.

## Properties and runs

- `TypeOK`, in each backend.
- `RefinesFirewallSpec`. The backend implements `FirewallSpec` through
  every interleaving, every failure, kill and restart. This means three
  things:
  - An address is filtered only by the meaning of a rule set it really
    held, or by all-drop. It is never filtered by another address's rules,
    a mix of two rule sets, or the backend's own reading of an option.
  - It is unfiltered only while the daemon is not up.
  - One step changes one address.
- `InstalledChainReachable`. While the daemon runs and no SIGTERM is
  pending, every chain in the registry exists in the kernel. It is reached
  by exactly one jump, whose source match is its address (spec.md line
  50). This must survive restarts.
- `NoTransientAccept`. A packet is accepted only if handle_addr, given some
  rule set committed for its source, would install rules that accept it.
- `NoCrash`. A per-address error never ends the daemon (spec §7). Without
  a SIGTERM the daemon neither dies of an exception nor leaves `main`
  through `cleanup()`. A kill, and `init`'s `sys.exit` (fatal by §7), are
  not per-address errors.
- `EventuallyConsistent`. Once dom0 stops, every address ends up filtered
  by its final rule set.
- `TermLeadsToExit`. SIGTERM leads to the end of the process.

| Run | Expect | Checks | Shows |
|---|---|---|---|
| `ipt_safety` | pass | TypeOK, RefinesFirewallSpec, InstalledChainReachable | The iptables backend refines FirewallSpec, and the registry holds, under every interleaving of: one dom0 update (a good rule set, a resolved `dsthost`, a name that does not resolve, an `icmptype`, a missing policy, a wrong-family destination, or a malformed token), one failed call of any kind (a script that cannot be executed and a lookup that fails on its own included), one kill and restart, and SIGTERM. |
| `ipt_liveness` | pass | EventuallyConsistent | With no faults, and dom0 writing only once the watch exists, two updates are applied. Each is a good rule set, a missing policy or a wrong-family rule, so the fallback paths are included. |
| `nft_safety` | pass | TypeOK, RefinesFirewallSpec | The nftables backend refines FirewallSpec under the same environment. The updates are dns rule sets (`53-53`, a `dst4` nameserver), a program nft refuses, a wrong-family rule and a resolved `dsthost`. |
| `nft_liveness` | pass | EventuallyConsistent | As `ipt_liveness`, for nftables and its updates, plus a name that does not resolve and an `icmptype` rule. |
| `ipt_startup_race` | violation | EventuallyConsistent | An update committed between the initial sweep and `qdb.watch` is lost. |
| `ipt_sigterm` | violation | TermLeadsToExit | SIGTERM outside a blocked `read_watch` is lost. |
| `ipt_crash_parse_fallback` | violation | NoCrash | With notify-send missing, dom0 writes a rule set that fails to parse. `log_error` raises `OSError` before the drop fallback is applied. `main`'s `except OSError` ends the watch loop, and `cleanup()` removes every chain, although no SIGTERM came. |
| `ipt_crash_restart` | violation | NoCrash | After a restart, `iptables -N` of a leftover chain kills the new process. |
| `ipt_collision` | violation | RefinesFirewallSpec | Two IPv6 addresses share a truncated chain name. |
| `ipt_partial_read` | violation | NoTransientAccept | A read triggered by one commit installs the next update half written. |
| `ipt_dns` | violation | RefinesFirewallSpec | iptables drops a dns rule with `dstports=53`, or with `dst4=10.139.1.1`, so DNS meets the policy. Each update was checked alone and violates the property. nftables keeps both rules (`nft_safety`). |
| `nft_restart_jumps` | violation | InstalledChainReachable | After a restart, nft's `create_chain` appends a second jump to the old chain. |

The findings in `PROJECT.json` say what each violation shows about the code.

- **`ipt_crash_parse_fallback`.** spec.md §7 says notifications are
  best-effort and must not propagate errors. The code's `log_error`
  propagates `OSError`. In the watch loop, `main` takes that error for the
  EINTR of a signal (line 192), and its `cleanup()` (line 196) leaves every
  address unfiltered. In the initial load the error ends the process with
  no cleanup. The same `except RuleParseError` clause also lets the
  fallback's own `RuleApplyError` escape (line 149). TLC reports that
  route when the cfg has `NotifySend = TRUE` and `FaultyCalls =
  {"restore"}`. With `FaultyCalls = {"scripts"}` and `MaxFailures = 1` it
  reports the script that cannot be executed.
- **`ipt_dns`.** spec.md contradicts itself here. §3 makes `dstports=53`
  the DNS port, while §4.4 says "≠ `53:53` ⇒ skip" after a rewrite that
  leaves `53` as it is.
- **`nft_restart_jumps`.** §4.7 asks only that forward *contain* the jump,
  while line 50 says *exactly one*.
- **A retired run: the uncaught `ValueError`.** A rule token without `=`
  raises a `ValueError` that nothing catches, and it kills the daemon. The
  run that showed this is no longer kept, because dom0 never writes such a
  token. `ipt_safety` still reaches the crash and checks the refinement
  through it.
- **spec.md §8, scenario 1.** It expects `--dport 443:443`. The code emits
  `--dport 443`, which `IptLines` follows.

Each property of a passing run has a mutant, a plausible bug that TLC must
catch:

- `JumpSwapped` swaps the source and target of the jump (in both
  backends).
- `InitCmdSwapped` flushes QBS-FORWARD after appending the DROP.
- `RestartKeepsRegistry` keeps the old registry across a restart.
- `ReadWatchSkipsCommits` uses `>= 2` in the watch filter.
- `CollapseNone` leaves `53-53` uncollapsed, so nft skips the dns rule.
- `NftApplyNoFlush` appends the program to the chain without the
  `flush chain`.

### Bounds

The bounds are:

- two IPv4 clients, or two IPv6 clients for the collision run;
- rule sets whose verdicts differ on the packets:
  - iptables uses 6 packets: tcp/udp to two servers, and an icmp echo
    request and reply to one of them;
  - `nft_safety` and `ipt_dns` use 3 packets: tcp and udp DNS to the
    nameserver, and tcp to port 53 of another host. `nft_liveness` adds
    the two icmp packets;
  - `srv.example` resolves to one of the servers for IPv4, and
    `gone.example` does not resolve;
- one update in the safety runs and two in the liveness runs;
- at most one injected failure and one restart.

One update is enough to put a write between any two calls of
`handle_addr`. One failure reaches each failure point of the code. One
restart reaches the leftover-chain state. Rule sets with two rules in a
fixed order (`Ordered`) make a reordered or merged rule list visible in the
verdicts. The dns rule sets drop DNS under `policy=accept`, so a rule that
wrongly emits nothing is not hidden by the all-drop fallback. The echo
request and the reply tell an `icmptype=8` rule from a plain `proto=icmp`.

`nft_safety` gets the resolved `dsthost` update, but not the `icmptype` update
and the icmp packets. With those two as well it took over four minutes.
`nft_liveness` checks them instead.

### Fairness

The runs assume two kinds of fairness:

- `WF_vars(Daemon)`: the one thread runs whenever it has a step to take.
  It blocks only in `read_watch` on an empty queue.
- `WF_vars(DomZeroFinish)`: dom0 finishes an update it began. Nothing is
  assumed about when it starts one.

Kills, restarts, SIGTERM and failures get no fairness. The liveness runs
disable them.

## Not modelled

- **What the firewall scripts do.** They are arbitrary user code.
  `RunScripts` models only whether they can be executed.
- **The log line and the notification text of `log_error`.** Only the
  call's exception is modelled. Its `env` argument is
  `os.environ.copy().update(…)`, which is `None`, so `DISPLAY` is never
  set. That only decides where a notification appears.
- **The daemonization.** `DaemonContext` closes descriptors and redirects
  streams, and no state the daemon reads depends on that. The SIGTERM
  handler it installs is modelled by `SigTerm`. The handler is in place
  before `worker.main()` starts, so `SigTerm` is enabled from `init` on.
- **The backend choice.** `main` picks the backend once, before any state
  the model has. Each backend is its own module. A module composing both
  would reach their constant tables through `INSTANCE`, which TLC does not
  precompute. It would also ask nothing that the two modules do not ask.
- **A resolver that changes.** `ResolvConf` and `Resolve` are constants.
  The code reads them only in `prepare_rules`. Nothing re-applies the rules
  when `/etc/resolv.conf` or a name's addresses change, and the hazard list
  records this.
- **What `ip6tables-restore` accepts.** For family 6, `IptLines` emits
  `-p icmpv6 --icmp-type T`, as the code does and as spec.md §8 scenario 3
  expects. spec.md §3 says the type is emitted "with family-specific
  keyword". `IptLineValid` accepts the line, because the tool's option
  parsing is outside this repository and is not checked here.
