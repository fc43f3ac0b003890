-------------------------------- MODULE Play --------------------------------
(***************************************************************************)
(* How an instance plays: on every heartbeat it scrapes the table, the     *)
(* symbol engines find out whether it is the user's turn, whether the      *)
(* decision is final and whether prwin has to be computed again, and       *)
(* DoAutoplayer handles popups, secondary and primary formulas.  It shares *)
(* the numbers of Iterator with the worker thread and the table with a     *)
(* casino that goes on in the meantime; other instances use the mouse.     *)
(* The autoplayer is engaged and the chair of the user known; Connection   *)
(* and Handreset have the rest of the heartbeat.                           *)
(***************************************************************************)
EXTENDS Iterator

CONSTANTS
    FrameDelay,        \* Preferences()->frame_delay()
    HeartbeatsToPause, \* of TimeToHandleSecondaryFormulas
    WakeBeats,         \* heartbeats the worker may need to notice a restart
    CasinoBeats,       \* heartbeats that still show a turn after its answer
    MaxDisturbances,   \* disturbed scrapes in a turn
    Disturbances,      \* what disturbs them: "popup", "redraw", "flicker"
    AtomicSteps        \* the masks get set, and results published, at once

ASSUME PlayAssumption ==
    /\ {FrameDelay, WakeBeats, CasinoBeats, MaxDisturbances} \subseteq Nat
    /\ HeartbeatsToPause \in Nat \ {0}
    /\ AtomicSteps \in BOOLEAN

VARIABLES
    turn,          \* the casino waits for the user, who has "answered" or not
    cards,         \* the situation the casino shows: a new one for every turn
    disturbances,  \* disturbed scrapes in this turn
    pc,            \* where the heartbeat thread is
    seen,          \* what the last scrape has seen
    myturnbits,
    _last_myturnbits,
    _isfinalanswer,
    known_change,  \* _known_change_in_gamestate_since_last_prwin_calculation
    frames,        \* of CStableFramesCounter: _NumberOfStableFrames
    last_frame,    \* the saved state, {} if _isReset
    action_sequence_needs_to_be_finished,
    beat,          \* heartbeat_counter() modulo HeartbeatsToPause
    answered_for,  \* heartbeats since the answer
    asleep_for     \* heartbeats since a restart the worker has not noticed

casino == <<turn, cards, disturbances>>
engines == <<myturnbits, _last_myturnbits, _isfinalanswer, known_change>>
counter == <<frames, last_frame>>
counts == <<beat, answered_for, asleep_for>>
vars == <<iterator, casino, pc, seen, engines, counter,
          action_sequence_needs_to_be_finished, counts>>

Views == [myturn : BOOLEAN, cards : Cards, look : {0, 1}, popup : BOOLEAN]
Frames == Cards \X {0, 1}

TypeOK ==
    /\ IteratorTypeOK
    /\ turn \in {"none", "mine", "answered"}
    /\ cards \in Cards
    /\ disturbances \in 0 .. MaxDisturbances
    /\ pc \in {"scrape", "finalAnswer", "prwin", "masks", "reset", "autoplayer",
               "primary", "click", "finish"}
    /\ seen \in Views
    /\ {myturnbits, _last_myturnbits, _isfinalanswer, known_change} \subseteq BOOLEAN
    /\ frames \in 0 .. FrameDelay
    /\ last_frame \subseteq Frames
    /\ action_sequence_needs_to_be_finished \in BOOLEAN
    /\ beat \in 0 .. HeartbeatsToPause - 1
    /\ answered_for \in 0 .. CasinoBeats
    /\ asleep_for \in 0 .. WakeBeats

-----------------------------------------------------------------------------
Init ==
    /\ IteratorInit
    /\ turn = "none"
    /\ cards \in Cards
    /\ disturbances = 0
    /\ pc = "scrape"
    /\ seen = [myturn |-> FALSE, cards |-> cards, look |-> 0, popup |-> FALSE]
    /\ myturnbits = FALSE
    /\ _last_myturnbits = FALSE
    /\ _isfinalanswer = FALSE
    /\ known_change = TRUE
    /\ frames = 0
    /\ last_frame = {}
    /\ action_sequence_needs_to_be_finished = FALSE
    /\ beat = 0
    /\ answered_for = 0
    /\ asleep_for = 0

Step(from, to) == pc = from /\ pc' = to

\* A restart that the worker has not noticed yet.
Unnoticed == _iterations_calculated = 0 /\ ~IteratorThreadComplete

-----------------------------------------------------------------------------
(* EvaluateAll(), as far as it matters here.                               *)

\* What the casino shows, with a popup over it, redrawn, or without buttons.
Disturbed(d) ==
    /\ d = "none" \/ disturbances < MaxDisturbances
    /\ disturbances' = IF d = "none" THEN disturbances ELSE disturbances + 1
    /\ seen' = [myturn |-> turn # "none" /\ d # "flicker",
                cards |-> cards,
                look |-> IF d = "redraw" THEN 1 ELSE 0,
                popup |-> d = "popup"]

\* A heartbeat begins.  Other cards are a new betting round or a new hand,
\* which the engines before CSymbolEngineAutoplayer have noticed; that one
\* starts with a reset of its symbols.
DoScrape ==
    /\ Step("scrape", "finalAnswer")
    /\ Unnoticed => asleep_for < WakeBeats
    /\ turn = "answered" => answered_for < CasinoBeats
    /\ \E d \in Disturbances \union {"none"} : Disturbed(d)
    /\ known_change' = (known_change \/ cards # seen.cards)
    /\ _last_myturnbits' = myturnbits
    /\ myturnbits' = FALSE
    /\ _isfinalanswer' = FALSE
    /\ beat' = (beat + 1) % HeartbeatsToPause
    /\ asleep_for' = IF Unnoticed THEN asleep_for + 1 ELSE 0
    /\ answered_for' = IF turn = "answered" THEN answered_for + 1 ELSE 0
    /\ UNCHANGED <<iterator, turn, cards, counter,
                   action_sequence_needs_to_be_finished>>

UpdateNumberOfStableFrames ==
    LET frame == {<<seen.cards, seen.look>>}
    IN  CASE last_frame = {}    -> frames' = 0 /\ last_frame' = frame
          [] last_frame = frame -> /\ frames' = IF frames < FrameDelay
                                                THEN frames + 1 ELSE frames
                                   /\ UNCHANGED last_frame
          [] OTHER              -> frames' = 0 /\ last_frame' = {}

CalculateMyTurnBits == Step("finalAnswer", "prwin") /\ myturnbits' = seen.myturn

\* An iterator that works does not hold the decision back.
FinalWhileWorking ==
    /\ CalculateMyTurnBits
    /\ IF seen.myturn THEN UpdateNumberOfStableFrames ELSE UNCHANGED counter
    /\ _isfinalanswer' = (seen.myturn /\ frames' >= FrameDelay)
    /\ UNCHANGED <<iterator, casino, seen, _last_myturnbits, known_change,
                   action_sequence_needs_to_be_finished, counts>>

\* The frames are counted only if nothing else is against the decision.
CalculateFinalAnswer ==
    /\ CalculateMyTurnBits
    /\ LET ready == seen.myturn /\ ~IteratorThreadWorking
       IN  /\ IF ready THEN UpdateNumberOfStableFrames ELSE UNCHANGED counter
           /\ _isfinalanswer' = (ready /\ frames' >= FrameDelay)
    /\ UNCHANGED <<iterator, casino, seen, _last_myturnbits, known_change,
                   action_sequence_needs_to_be_finished, counts>>

\* Of CSymbolEnginePrwin, which comes after CSymbolEngineAutoplayer.
StartOfPrWinComputationsNeeded ==
    seen.myturn /\ (known_change \/ ~_last_myturnbits)

NoRestart ==
    /\ Step("prwin", "autoplayer")
    /\ ~StartOfPrWinComputationsNeeded
    /\ UNCHANGED <<iterator, casino, seen, engines, counter,
                   action_sequence_needs_to_be_finished, counts>>

RestartPrWinComputations ==
    /\ \/ Step("prwin", "masks") /\ StartOfPrWinComputationsNeeded /\ ResetSums
       \/ Step("masks", "reset") /\ SetupMasks(seen.cards)
       \/ Step("reset", "autoplayer") /\ ResetIteratorVars
    /\ known_change' = (known_change /\ pc # "reset")
    /\ asleep_for' = IF pc = "reset" THEN 0 ELSE asleep_for
    /\ UNCHANGED <<casino, seen, myturnbits, _last_myturnbits, _isfinalanswer,
                   counter, beat, answered_for,
                   action_sequence_needs_to_be_finished>>

EvaluateAll ==
    DoScrape \/ CalculateFinalAnswer \/ NoRestart \/ RestartPrWinComputations

-----------------------------------------------------------------------------
(* DoAutoplayer().  An attempt to lock the input mutex takes at most five  *)
(* seconds; without it there is no click.                                  *)

\* The next step of the cascade.
Continue(from, to) ==
    /\ Step(from, to)
    /\ UNCHANGED <<iterator, casino, seen, engines, counter,
                   action_sequence_needs_to_be_finished, counts>>

\* A click that leaves the turn alone.
Act(from) ==
    /\ Step(from, "finish")
    /\ action_sequence_needs_to_be_finished' = TRUE
    /\ UNCHANGED <<iterator, casino, seen, myturnbits, _last_myturnbits,
                   _isfinalanswer, counter, counts>>

HandleInterfacebuttonsI86 ==
    seen.popup /\ Act("autoplayer") /\ UNCHANGED known_change

EveryHeartbeat == TRUE

TimeToHandleSecondaryFormulas == beat = 0

\* A prefold, possible if it is not the user's turn, is an action that the
\* engines get to know of.
ExecuteSecondaryFormulasIfNecessary ==
    \/ /\ TimeToHandleSecondaryFormulas
       /\ Act("autoplayer")
       /\ \E prefold \in {FALSE, ~seen.myturn} :
              known_change' = (known_change \/ prefold)
    \/ Continue("autoplayer", "primary")

ExecutePrimaryFormulasIfNecessary ==
    \/ _isfinalanswer /\ Continue("primary", "click")
    \/ Continue("primary", "finish")

\* The button gets clicked, whatever happened since it was seen.
ClickButton ==
    /\ Step("click", "finish")
    /\ action_sequence_needs_to_be_finished' = TRUE
    /\ known_change' = TRUE
    /\ turn' = IF turn = "mine" THEN "answered" ELSE turn
    /\ answered_for' = 0
    /\ UNCHANGED <<iterator, cards, disturbances, seen, myturnbits,
                   _last_myturnbits, _isfinalanswer, counter, beat, asleep_for>>

\* The counter of frames does not get to know of the action.
FinishWithoutReset ==
    /\ Step("finish", "scrape")
    /\ action_sequence_needs_to_be_finished' = FALSE
    /\ UNCHANGED <<iterator, casino, seen, engines, counter, counts>>

FinishActionSequenceIfNecessary ==
    /\ Step("finish", "scrape")
    /\ action_sequence_needs_to_be_finished' = FALSE
    /\ IF action_sequence_needs_to_be_finished
       THEN frames' = 0 /\ last_frame' = {}
       ELSE UNCHANGED counter
    /\ UNCHANGED <<iterator, casino, seen, engines, counts>>

DoAutoplayer ==
    \/ HandleInterfacebuttonsI86
    \/ ExecuteSecondaryFormulasIfNecessary
    \/ ExecutePrimaryFormulasIfNecessary
    \/ ClickButton
    \/ Act("click") /\ UNCHANGED known_change
    \/ FinishActionSequenceIfNecessary

-----------------------------------------------------------------------------
(* The threads and the casino.                                             *)

Heartbeat ==
    /\ AtomicSteps /\ pc = "finalAnswer" => worker # "leaving"
    /\ EvaluateAll \/ DoAutoplayer

\* The rest of a restart evaluates formulas; the worker goes on meanwhile.
Worker ==
    /\ AtomicSteps => pc # "masks"
    /\ IteratorThreadFunction(myturnbits)
    /\ UNCHANGED <<casino, pc, seen, engines, counter,
                   action_sequence_needs_to_be_finished, counts>>

machine == <<iterator, pc, seen, engines, counter,
             action_sequence_needs_to_be_finished, counts>>

\* Only scrapes and clicks depend on the casino: its moves commute with all
\* other steps and are taken just before these two.
CasinoMoves == pc \in {"scrape", "click"}

\* The next decision, in this hand or in another one: bets, balances or cards
\* differ from those of all turns that are remembered.
NextTurn ==
    /\ CasinoMoves
    /\ turn = "none"
    /\ turn' = "mine"
    /\ cards' \in Cards \ {cards}
    /\ last_frame \intersect ({cards'} \X {0, 1}) = {}
    /\ disturbances' = 0
    /\ UNCHANGED machine

\* The casino goes on after an answer, or if the user is out of time or
\* clicks himself.
TurnEnds ==
    /\ CasinoMoves
    /\ turn # "none"
    /\ turn' = "none"
    /\ UNCHANGED <<machine, cards, disturbances>>

-----------------------------------------------------------------------------
Next == Heartbeat \/ Worker \/ NextTurn \/ TurnEnds

Spec == Init /\ [][Next]_vars

(***************************************************************************)
(* Fairness: both threads are scheduled, an attempt to lock the mutex and  *)
(* to click a button does not fail for ever, and an answered turn ends.    *)
(***************************************************************************)
FairSpec ==
    /\ Spec
    /\ WF_vars(Heartbeat)
    /\ SF_vars(Worker)
    /\ SF_vars(Heartbeat /\ Step("primary", "click"))
    /\ SF_vars(Heartbeat /\ ClickButton)
    /\ WF_vars(turn = "answered" /\ TurnEnds)

-----------------------------------------------------------------------------
(* Properties.                                                             *)

\* The primary formulas are evaluated with a published prwin for which all
\* required hands were dealt for the cards on the table.  However restarts and
\* the worker meet, a single hand at most comes from any other cards: the one
\* that was being simulated when the heartbeat set the new ones.
DecidesOnFinishedPrwin ==
    pc = "primary" /\ _isfinalanswer =>
        /\ prwin[{seen.cards}] > 0
        /\ prwin[{seen.cards}] + 1 >= _iterations_required
        /\ \E earlier \in SUBSET Cards :
               \A m \in (SUBSET Cards) \ {{seen.cards}} :
                   prwin[m] <= IF m = earlier THEN 1 ELSE 0

\* A turn is answered once, although the buttons stay visible for a while
\* after the click: the counter of stable frames holds the next action back.
ActsOncePerTurn == pc = "click" => turn # "answered"

\* A turn is answered, unless the casino ends it: secondary formulas, popups
\* and lost attempts for the mutex do not block the primary formulas.
TurnGetsAnswered == turn = "mine" ~> turn # "mine"
=============================================================================
