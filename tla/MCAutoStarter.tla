--------------------------- MODULE MCAutoStarter ---------------------------
(***************************************************************************)
(* Small instances of AutoStarter for TLC.                                 *)
(***************************************************************************)
EXTENDS AutoStarter, TLC

\* Processes and tables are interchangeable; slots are not.
Symmetry == Permutations(Process) \union Permutations(Window)
=============================================================================
