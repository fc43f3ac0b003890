------------------------- MODULE TableService_proofs -------------------------
(***************************************************************************)
(* What the promise of TableService amounts to, and so what every          *)
(* implementation of it inherits.                                          *)
(***************************************************************************)
EXTENDS TableService, TLAPS

(***************************************************************************)
(* No two bots ever serve the same table: a bot takes a table only while   *)
(* no other one serves it, even when it gives up another table for that,   *)
(* and whoever releases tables leaves no bot with a table it did not have. *)
(***************************************************************************)
THEOREM ServiceIsExclusive == Spec => []OneServerPerTable
<1> DEFINE Serves == serves \in [Process -> Window \union {NoWindow}]
           Inv == Serves /\ OneServerPerTable
<1>1. Init => Inv
  BY DEF Init, OneServerPerTable
<1>2. Inv /\ [Next]_serves => Inv'
  <2> SUFFICES ASSUME Inv, [Next]_serves PROVE Inv'
    OBVIOUS
  <2>1. ASSUME NEW p \in Process, NEW w \in Window, Take(p, w) PROVE Inv'
    BY <2>1 DEF Take, OneServerPerTable
  <2>2. ASSUME NEW P \in SUBSET Process, Release(P) PROVE Inv'
    BY <2>2 DEF Release, OneServerPerTable
  <2>3. CASE UNCHANGED serves
    BY <2>3 DEF OneServerPerTable
  <2> QED BY <2>1, <2>2, <2>3 DEF Next
<1>3. Inv => OneServerPerTable
  OBVIOUS
<1> QED BY <1>1, <1>2, <1>3, PTL DEF Spec
=============================================================================
