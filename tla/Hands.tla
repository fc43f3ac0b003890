------------------------------- MODULE Hands -------------------------------
(***************************************************************************)
(* What the handreset detection promises: every hand that gets dealt is    *)
(* announced once, before the next one.  A table the user connects to is   *)
(* in the middle of a hand, and a hand may be dealt too early after that   *)
(* or after another one: these are not promised, but what they can cause   *)
(* is a limited number of stray handresets, and those come to an end.      *)
(***************************************************************************)
EXTENDS Integers

CONSTANTS
    StraysOfConnection, \* the stray handresets that a connection may cause
    StraysOfEarlyHand   \* those of a hand that is dealt too early

VARIABLES
    unannounced, \* the hands that are promised and not announced yet
    strays       \* the stray handresets that may still come

Init == unannounced = 0 /\ strays = StraysOfConnection

Connect == unannounced' = 0 /\ strays' = StraysOfConnection

DealEarly == unannounced' = 0 /\ strays' = StraysOfEarlyHand

Deal ==
    /\ unannounced = 0 /\ strays = 0
    /\ unannounced' = 1 /\ strays' = 0

Announce ==
    /\ unannounced = 1 /\ strays = 0
    /\ unannounced' = 0 /\ strays' = 0

Stray == strays > 0 /\ strays' = strays - 1 /\ unannounced' = unannounced

Settle == strays > 0 /\ strays' = 0 /\ unannounced' = unannounced

Next == Connect \/ DealEarly \/ Deal \/ Announce \/ Stray \/ Settle

Spec == Init /\ [][Next]_<<unannounced, strays>>
=============================================================================
