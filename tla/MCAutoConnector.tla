-------------------------- MODULE MCAutoConnector --------------------------
(***************************************************************************)
(* Small instances of AutoConnector for TLC.                               *)
(***************************************************************************)
EXTENDS AutoConnector, TLC

\* Processes and tables are interchangeable; slots are not, the session
\* counter takes the lowest one.
Symmetry == Permutations(Process) \union Permutations(Window)
=============================================================================
