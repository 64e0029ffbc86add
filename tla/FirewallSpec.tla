---------------------------- MODULE FirewallSpec ----------------------------
(***************************************************************************)
(* What qubes-firewall promises, whatever its backend (spec.md sections 3, *)
(* 4.6, 7 and 8).  The kernel treats the packets from each client address  *)
(* a as the meaning of a rule set /qubes-firewall/<a>/ held at some point, *)
(* or drops them all; while the daemon is up (between a successful init    *)
(* and cleanup or its death) it never leaves them unfiltered; and a step   *)
(* of the daemon changes the filtering of one address at a time.  Meaning *)
(* is RuleMeaning's, the option table of spec.md section 3.               *)
(***************************************************************************)
EXTENDS Rules

CONSTANTS
    Addrs,      \* client addresses
    InitialDb,  \* the leaf sets present at boot
    Leaves,     \* every leaf set /qubes-firewall/<a>/ may hold
    Packets,    \* Packets[f]: the packets of family f the filter is judged on
    Meaning(_, _)  \* Meaning(a, e): the verdicts the leaf set e means for a

VARIABLES
    seen,      \* seen[a]: every leaf set /qubes-firewall/<a>/ has held
    filter,    \* filter[a][pkt]: ACCEPT, DROP, or FALLTHROUGH (unfiltered)
    up         \* the daemon is between a successful init and its end

specVars == <<seen, filter, up>>

Open(a) == [pkt \in Packets[FamilyOf(a)] |-> "FALLTHROUGH"]
AllDrop(a) == [pkt \in Packets[FamilyOf(a)] |-> "DROP"]

\* what the packets from a may meet: the meaning of a rule set it held, or
\* the fallback drop; nothing at all only while the daemon is not up
Allowed(a) == {Meaning(a, e) : e \in seen[a]} \cup {AllDrop(a)}
Unguarded(a) == Allowed(a) \cup {Open(a)}

Init ==
    /\ seen = [a \in Addrs |-> {InitialDb[a]}]
    /\ filter = [a \in Addrs |-> Open(a)]
    /\ up = FALSE

\* dom0 writes a leaf set of a
Write ==
    /\ \E a \in Addrs :
          /\ \A b \in Addrs \ {a} : seen'[b] = seen[b]
          /\ \E e \in Leaves : seen'[a] = seen[a] \cup {e}
    /\ UNCHANGED <<filter, up>>

\* the filtering of a alone changes
Install(a) ==
    /\ UNCHANGED <<seen, up>>
    /\ filter'[a] \in IF up THEN Allowed(a) ELSE Unguarded(a)
    /\ \A b \in Addrs \ {a} : filter'[b] = filter[b]

\* init completes: every address is filtered
Start ==
    /\ ~up /\ up'
    /\ \A a \in Addrs : filter'[a] \in Allowed(a)
    /\ UNCHANGED seen

\* the daemon ends (cleanup, a crash, a kill), or is not up: any number of
\* addresses may be left unfiltered
Stop ==
    /\ ~up'
    /\ \A a \in Addrs : filter'[a] \in Unguarded(a)
    /\ UNCHANGED seen

Next == Write \/ Start \/ Stop \/ \E a \in Addrs : Install(a)

Spec == Init /\ [][Next]_specVars

=============================================================================
