---------------------------- MODULE TableService ----------------------------
(***************************************************************************)
(* What the instances promise together: a table gets served by at most one *)
(* bot.  A bot takes a table nobody else serves and releases it later;     *)
(* a bot that ends or crashes releases its table too.                      *)
(***************************************************************************)
CONSTANTS
    Process, \* the bots
    Window,  \* the tables
    NoWindow \* serving nothing

VARIABLE serves \* bot -> the table it serves

Init == serves = [p \in Process |-> NoWindow]

\* p takes the table w, giving up the one it served before if there is any.
Take(p, w) ==
    /\ \A q \in Process \ {p} : serves[q] # w
    /\ serves' = [serves EXCEPT ![p] = w]

\* The bots in P no longer serve anything (one watchdog can stop several).
Release(P) ==
    serves' = [p \in Process |-> IF p \in P THEN NoWindow ELSE serves[p]]

Next ==
    \/ \E p \in Process, w \in Window : Take(p, w)
    \/ \E P \in SUBSET Process : Release(P)

Spec == Init /\ [][Next]_serves

OneServerPerTable ==
    \A p, q \in Process :
        serves[p] = serves[q] /\ serves[p] # NoWindow => p = q
=============================================================================
