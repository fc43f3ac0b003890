---------------------------- MODULE MCHandreset ----------------------------
(***************************************************************************)
(* A small instance of Handreset for TLC.                                  *)
(***************************************************************************)
EXTENDS Handreset

\* The board is not hidden: see the README for what happens if it is.
Popups == {{"cards"}, {"cards", "dealerchair", "handnumber"}}
=============================================================================
