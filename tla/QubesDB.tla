------------------------------ MODULE QubesDB ------------------------------
(***************************************************************************)
(* The QubesDB subtree /qubes-firewall/ the daemon reads, with the dom0    *)
(* writer that updates it and the watch the daemon registers on it.  The   *)
(* writer is not code of this repository: it follows spec.md section 6.    *)
(* An update of <addr> removes /qubes-firewall/<addr>/, writes the leaves  *)
(* (policy and the NNNN rules) one at a time in any order, and ends with   *)
(* the empty commit write to /qubes-firewall/<addr>.  Every write fires    *)
(* the watch; a watch event is the number of '/' in its path.              *)
(***************************************************************************)
EXTENDS Naturals, Sequences, TLC

CONSTANTS
    Addrs,         \* source addresses the writer may configure
    InitialDb,     \* [Addrs -> leaves]: the leaves present when the daemon starts
    Updates,       \* the leaf sets (key -> value) an update may write
    MaxUpdates     \* bound on the number of updates the writer starts

VARIABLES
    db,         \* db[a]: the leaves under /qubes-firewall/<a>/ (key -> value)
    barrier,    \* addresses whose commit key /qubes-firewall/<a> exists
    writing,    \* addresses the writer is in the middle of updating
    target,     \* target[a]: the leaves of the update of a being written
    updates,    \* number of updates started
    watching,   \* the daemon's watch on /qubes-firewall/ is registered
    watchq,     \* watch events not yet read: [addr, slashes]
    committed,  \* history: every leaf set of /qubes-firewall/<a>/ a commit ended
    seen        \* history: every leaf set /qubes-firewall/<a>/ ever held

storeVars == <<db, barrier, writing, target, updates, watching, watchq, committed, seen>>

NoLeaves == [k \in {} |-> ""]

\* a write fires the watch only while the daemon watches
Fire(a, slashes) ==
    watchq' = IF watching THEN Append(watchq, [addr |-> a, slashes |-> slashes])
              ELSE watchq

StoreInit ==
    /\ db = InitialDb
    /\ barrier = {a \in Addrs : DOMAIN InitialDb[a] # {}}
    /\ writing = {}
    /\ target = [a \in Addrs |-> NoLeaves]
    /\ updates = 0
    /\ watching = FALSE
    /\ watchq = <<>>
    /\ committed = [a \in Addrs |-> {InitialDb[a]}]
    /\ seen = committed

\* rm /qubes-firewall/<a>/ at the start of an update
WriterBegin(a, u) ==
    /\ a \notin writing
    /\ updates < MaxUpdates
    /\ writing' = writing \cup {a}
    /\ db' = [db EXCEPT ![a] = NoLeaves]
    /\ target' = [target EXCEPT ![a] = u]
    /\ updates' = updates + 1
    /\ seen' = [seen EXCEPT ![a] = @ \cup {NoLeaves}]
    /\ Fire(a, 3)
    /\ UNCHANGED <<barrier, watching, committed>>

\* write one leaf /qubes-firewall/<a>/<k>
WriterPut(a, k) ==
    /\ a \in writing
    /\ k \in DOMAIN target[a] \ DOMAIN db[a]
    /\ db' = [db EXCEPT ![a] = (k :> target[a][k]) @@ @]
    /\ seen' = [seen EXCEPT ![a] = @ \cup {db'[a]}]
    /\ Fire(a, 3)
    /\ UNCHANGED <<barrier, writing, target, updates, watching, committed>>

\* the empty commit write to /qubes-firewall/<a>
WriterCommit(a) ==
    /\ a \in writing
    /\ DOMAIN db[a] = DOMAIN target[a]
    /\ barrier' = barrier \cup {a}
    /\ writing' = writing \ {a}
    /\ committed' = [committed EXCEPT ![a] = @ \cup {db[a]}]
    /\ Fire(a, 2)
    /\ UNCHANGED <<db, target, updates, watching, seen>>

\* the rest of an update once begun: dom0 writes it in one go
WriterFinish ==
    \E a \in Addrs :
        \/ \E k \in UNION {DOMAIN u : u \in Updates} : WriterPut(a, k)
        \/ WriterCommit(a)

Writer == WriterFinish \/ \E a \in Addrs, u \in Updates : WriterBegin(a, u)

\* FirewallWorker.list_targets: the second path component of every key
ListTargets == {a \in Addrs : DOMAIN db[a] # {} \/ a \in barrier}

=============================================================================
