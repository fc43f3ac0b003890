------------------------------ MODULE Iterator ------------------------------
(***************************************************************************)
(* CIteratorThread: a worker simulates hands to find out how often the     *)
(* cards of the user win (prwin).  The heartbeat thread restarts it and    *)
(* looks at its counters; the worker looks for work every 250 ms.  Nothing *)
(* locks what they share: a restart can meet a hand that was dealt for     *)
(* the old cards and is not yet counted.  A result is modelled by the      *)
(* number of hands that were dealt for each setting of the masks.  Prwin   *)
(* is Hold'em only: the early return of a restart at an Omaha table is     *)
(* left out.  Play.tla composes the worker with the heartbeat.             *)
(***************************************************************************)
EXTENDS Naturals

CONSTANTS
    Cards,          \* what the user and the board can hold
    Required,       \* the values of f$prwin_number_of_iterations
    UpdateInterval  \* hands between two updates of the display

ASSUME IteratorAssumption ==
    /\ Required \subseteq Nat \ {0} /\ Required # {}
    /\ UpdateInterval \in Nat \ {0}

VARIABLES
    worker,                \* where the worker is: asleep, simulating a hand or
                           \* past its main loop
    _iterations_required,
    _iterations_calculated,
    masks,                 \* the cards in _plCards and _comCards
    dealt_for,             \* the masks a hand was begun with, {} without a hand
    sums,                  \* _win, _tie and _los
    prwin                  \* _prwin, _prtie and _prlos

iterator == <<worker, _iterations_required, _iterations_calculated, masks,
              dealt_for, sums, prwin>>

Results == [SUBSET Cards -> Nat]

Nothing == [m \in SUBSET Cards |-> 0]

IteratorTypeOK ==
    /\ worker \in {"asleep", "simulating", "leaving"}
    /\ _iterations_required \in Required \union {0}
    /\ _iterations_calculated \in Nat
    /\ {masks, dealt_for} \subseteq SUBSET Cards
    /\ {sums, prwin} \subseteq Results

IteratorInit ==
    /\ worker = "asleep"
    /\ _iterations_required = 0
    /\ _iterations_calculated = 0
    /\ masks = {}
    /\ dealt_for = {}
    /\ sums = Nothing
    /\ prwin = Nothing

IteratorThreadComplete == _iterations_calculated >= _iterations_required

IteratorThreadWorking == _iterations_calculated > 0 /\ ~IteratorThreadComplete

-----------------------------------------------------------------------------
(* The worker.                                                             *)

\* The head of the main loop: another hand is begun with the masks as they
\* are, or the loop is left.
MainLoop(calculated) ==
    /\ _iterations_calculated' = calculated
    /\ IF calculated < _iterations_required
       THEN worker' = "simulating" /\ dealt_for' = masks
       ELSE worker' = "leaving" /\ dealt_for' = {}

\* The worker wakes up and finds something to do, unless it is not the user's
\* turn or the one iteration it has to its credit is all that is required.
WakeUp(ismyturn) ==
    /\ worker = "asleep"
    /\ ~IteratorThreadComplete
    /\ prwin' = Nothing
    /\ IF ismyturn /\ _iterations_required > 1
       THEN MainLoop(1)
       ELSE _iterations_calculated' = 1 /\ UNCHANGED <<worker, dealt_for>>
    /\ UNCHANGED <<_iterations_required, masks, sums>>

UpdateIteratorVarsForDisplay ==
    IF \/ IteratorThreadComplete
       \/ /\ _iterations_calculated >= UpdateInterval
          /\ _iterations_calculated % UpdateInterval = 0
    THEN prwin' = sums' ELSE UNCHANGED prwin

\* A hand is over and goes into the sums, whatever happened to them and to the
\* masks since it was begun; the next one begins.
Simulate ==
    /\ worker = "simulating"
    /\ sums' = [sums EXCEPT ![dealt_for] = @ + 1]
    /\ UpdateIteratorVarsForDisplay
    /\ MainLoop(_iterations_calculated + 1)
    /\ UNCHANGED <<_iterations_required, masks>>

\* The results are published, unless a restart came in between.
EndOfMainLoop ==
    /\ worker = "leaving"
    /\ worker' = "asleep"
    /\ IF IteratorThreadComplete
       THEN prwin' = sums /\ UNCHANGED _iterations_calculated
       ELSE prwin' = Nothing /\ _iterations_calculated' = 0
    /\ UNCHANGED <<_iterations_required, masks, dealt_for, sums>>

IteratorThreadFunction(ismyturn) ==
    WakeUp(ismyturn) \/ Simulate \/ EndOfMainLoop

-----------------------------------------------------------------------------
(* RestartPrWinComputations, called by the heartbeat thread.               *)

\* InitIteratorLoop up to the reset of the counters.
ResetSums ==
    /\ _iterations_required' \in Required
    /\ masks' = {}
    /\ sums' = Nothing
    /\ UNCHANGED <<worker, _iterations_calculated, dealt_for, prwin>>

\* Cards that are not known set their bit too.
SetupUnknownCards(cards) ==
    /\ masks' = {cards, "CARD_NOCARD"}
    /\ UNCHANGED <<worker, _iterations_required, _iterations_calculated,
                   dealt_for, sums, prwin>>

\* The rest of InitIteratorLoop.
SetupMasks(cards) ==
    /\ masks' = {cards}
    /\ UNCHANGED <<worker, _iterations_required, _iterations_calculated,
                   dealt_for, sums, prwin>>

ResetIteratorVars ==
    /\ prwin' = Nothing
    /\ _iterations_calculated' = 0
    /\ UNCHANGED <<worker, _iterations_required, masks, dealt_for, sums>>
=============================================================================
