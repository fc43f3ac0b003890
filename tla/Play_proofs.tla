---------------------------- MODULE Play_proofs ----------------------------
(***************************************************************************)
(* Proofs about Play for any cards, any number of simulated hands and any  *)
(* delays, within the limits that each theorem names.                      *)
(***************************************************************************)
EXTENDS Play, TLAPS

Booleans ==
    /\ myturnbits \in BOOLEAN
    /\ _last_myturnbits \in BOOLEAN
    /\ _isfinalanswer \in BOOLEAN
    /\ known_change \in BOOLEAN

\* Every disjunct of Next, named one by one.
LEMMA NextCases ==
    ASSUME Next
    PROVE  \/ DoScrape \/ CalculateFinalAnswer \/ NoRestart
           \/ RestartPrWinComputations
           \/ HandleInterfacebuttonsI86
           \/ ExecuteSecondaryFormulasIfNecessary
           \/ ExecutePrimaryFormulasIfNecessary
           \/ ClickButton
           \/ Act("click") /\ UNCHANGED known_change
           \/ FinishActionSequenceIfNecessary
           \/ Worker \/ NextTurn \/ TurnEnds
BY DEF Next, Heartbeat, EvaluateAll, DoAutoplayer

-----------------------------------------------------------------------------
(***************************************************************************)
(* The worker's numbers keep their types, whoever changes them.            *)
(***************************************************************************)
LEMMA IteratorKeepsType ==
    ASSUME IteratorTypeOK, seen \in Views,
           \/ UNCHANGED iterator
           \/ IteratorThreadFunction(myturnbits)
           \/ ResetSums \/ SetupMasks(seen.cards) \/ ResetIteratorVars
    PROVE  IteratorTypeOK'
<1> USE IteratorAssumption DEF IteratorTypeOK, Results, Nothing, Views
<1>1. CASE UNCHANGED iterator
  BY <1>1 DEF iterator
<1>2. CASE WakeUp(myturnbits)
  BY <1>2 DEF WakeUp, MainLoop
<1>3. CASE Simulate
  <2>1. sums' \in Results
    BY <1>3 DEF Simulate
  <2>2. prwin' \in Results
    BY <1>3, <2>1 DEF Simulate, UpdateIteratorVarsForDisplay
  <2> QED BY <1>3, <2>1, <2>2 DEF Simulate, MainLoop
<1>4. CASE EndOfMainLoop
  BY <1>4 DEF EndOfMainLoop
<1>5. CASE ResetSums \/ SetupMasks(seen.cards) \/ ResetIteratorVars
  BY <1>5 DEF ResetSums, SetupMasks, ResetIteratorVars
<1> QED BY <1>1, <1>2, <1>3, <1>4, <1>5 DEF IteratorThreadFunction

(***************************************************************************)
(* The four symbols are true or false.                                     *)
(***************************************************************************)
LEMMA BooleansKeepType ==
    ASSUME Booleans, TypeOK, [Next]_vars
    PROVE  Booleans'
<1> USE DEF engines
<1>1. CASE DoScrape
  BY <1>1, Zenon DEF Booleans, DoScrape
<1>2. CASE CalculateFinalAnswer
  <2>1. seen.myturn \in BOOLEAN
    BY DEF TypeOK, Views
  <2> QED BY <1>2, <2>1, Zenon DEF Booleans, CalculateFinalAnswer, CalculateMyTurnBits
<1>3. CASE RestartPrWinComputations
  BY <1>3, Zenon DEF Booleans, RestartPrWinComputations
<1>4. CASE ExecuteSecondaryFormulasIfNecessary
  <2>1. CASE Continue("autoplayer", "primary")
    BY <2>1, Zenon DEF Booleans, Continue
  <2>2. CASE /\ Act("autoplayer")
             /\ \E prefold \in {FALSE, ~seen.myturn} :
                    known_change' = (known_change \/ prefold)
    BY <2>2, Zenon DEF Booleans, Act
  <2> QED BY <1>4, <2>1, <2>2, Zenon DEF ExecuteSecondaryFormulasIfNecessary
<1>5. CASE ClickButton
  BY <1>5, Zenon DEF Booleans, ClickButton
<1>6. CASE Act("click") /\ UNCHANGED known_change
  BY <1>6, Zenon DEF Booleans, Act
<1>7. CASE HandleInterfacebuttonsI86
  BY <1>7, Zenon DEF Booleans, HandleInterfacebuttonsI86, Act
<1>8. CASE UNCHANGED engines
  BY <1>8 DEF Booleans
<1>9. CASE NoRestart \/ ExecutePrimaryFormulasIfNecessary
           \/ FinishActionSequenceIfNecessary
  BY <1>8, <1>9 DEF NoRestart, ExecutePrimaryFormulasIfNecessary, Continue,
                    FinishActionSequenceIfNecessary
<1>10. CASE Worker \/ NextTurn \/ TurnEnds \/ UNCHANGED vars
  BY <1>8, <1>10 DEF Worker, NextTurn, TurnEnds, machine, vars
<1> QED BY <1>1, <1>2, <1>3, <1>4, <1>5, <1>6, <1>7, <1>9, <1>10, NextCases

\* All variables but those of the iterator and the four symbols.
RestTypeOK ==
    /\ turn \in {"none", "mine", "answered"}
    /\ cards \in Cards
    /\ disturbances \in 0 .. MaxDisturbances
    /\ pc \in {"scrape", "finalAnswer", "prwin", "masks", "reset", "autoplayer",
               "primary", "click", "finish"}
    /\ seen \in Views
    /\ frames \in 0 .. FrameDelay
    /\ last_frame \subseteq Frames
    /\ action_sequence_needs_to_be_finished \in BOOLEAN
    /\ beat \in 0 .. HeartbeatsToPause - 1
    /\ answered_for \in 0 .. CasinoBeats
    /\ asleep_for \in 0 .. WakeBeats

\* The conjuncts of TypeOK, grouped for the proof.
LEMMA TypeOKInParts == TypeOK <=> IteratorTypeOK /\ Booleans /\ RestTypeOK
BY DEF TypeOK, Booleans, RestTypeOK

(***************************************************************************)
(* The counters keep their bounds, and a scrape sees what there is to see. *)
(***************************************************************************)
LEMMA RestKeepsType ==
    ASSUME TypeOK, [Next]_vars
    PROVE  RestTypeOK'
<1> USE PlayAssumption, TypeOKInParts DEF RestTypeOK, Step, counter, counts, casino
<1>1. CASE DoScrape
  <2>1. PICK d \in Disturbances \union {"none"} : Disturbed(d)
    BY <1>1 DEF DoScrape
  <2>2. seen.look \in {0, 1}
    BY DEF Views
  <2>3. seen' \in Views
    <3>1. (turn # "none" /\ d # "flicker") \in BOOLEAN /\ (d = "popup") \in BOOLEAN
      OBVIOUS
    <3>2. (IF d = "redraw" THEN 1 - seen.look ELSE seen.look) \in {0, 1}
      BY <2>2
    <3> QED BY <2>1, <3>1, <3>2 DEF Disturbed, Views
  <2>4. disturbances' \in 0 .. MaxDisturbances
    BY <2>1 DEF Disturbed
  <2>5. beat' \in 0 .. HeartbeatsToPause - 1
    BY <1>1 DEF DoScrape
  <2>6. asleep_for' \in 0 .. WakeBeats
    BY <1>1 DEF DoScrape
  <2>7. answered_for' \in 0 .. CasinoBeats
    BY <1>1 DEF DoScrape
  <2> QED BY <1>1, <2>3, <2>4, <2>5, <2>6, <2>7 DEF DoScrape
<1>2. CASE CalculateFinalAnswer
  <2>1. {<<seen.cards, seen.look>>} \subseteq Frames
    BY DEF Views, Frames
  <2>2. frames' \in 0 .. FrameDelay /\ last_frame' \subseteq Frames
    BY <1>2, <2>1 DEF CalculateFinalAnswer, UpdateNumberOfStableFrames
  <2> QED BY <1>2, <2>2 DEF CalculateFinalAnswer, CalculateMyTurnBits
<1>3. CASE NoRestart \/ RestartPrWinComputations
  BY <1>3 DEF NoRestart, RestartPrWinComputations
<1>4. CASE \/ HandleInterfacebuttonsI86
           \/ ExecuteSecondaryFormulasIfNecessary
           \/ ExecutePrimaryFormulasIfNecessary
           \/ Act("click")
  BY <1>4 DEF HandleInterfacebuttonsI86, ExecuteSecondaryFormulasIfNecessary,
              ExecutePrimaryFormulasIfNecessary, Act, Continue
<1>5. CASE ClickButton
  BY <1>5 DEF ClickButton
<1>6. CASE FinishActionSequenceIfNecessary
  <2>1. frames' \in 0 .. FrameDelay /\ last_frame' \subseteq Frames
    BY <1>6 DEF FinishActionSequenceIfNecessary
  <2> QED BY <1>6, <2>1 DEF FinishActionSequenceIfNecessary
<1>7. CASE Worker \/ UNCHANGED vars
  BY <1>7 DEF Worker, vars
<1>8. CASE NextTurn \/ TurnEnds
  <2>1. UNCHANGED <<pc, seen, counter, counts, action_sequence_needs_to_be_finished>>
    BY <1>8 DEF NextTurn, TurnEnds, machine
  <2>2. turn' \in {"none", "mine", "answered"} /\ cards' \in Cards
    BY <1>8 DEF NextTurn, TurnEnds
  <2>3. disturbances' \in 0 .. MaxDisturbances
    BY <1>8 DEF NextTurn, TurnEnds
  <2> QED BY <2>1, <2>2, <2>3
<1> QED BY <1>1, <1>2, <1>3, <1>4, <1>5, <1>6, <1>7, <1>8, NextCases

(***************************************************************************)
(* Type correctness; in particular the cards of masks and results are      *)
(* cards, never the placeholders for unknown ones.                         *)
(***************************************************************************)
THEOREM TypeCorrect == Spec => []TypeOK
<1>1. Init => TypeOK
  <2> SUFFICES ASSUME Init PROVE TypeOK
    OBVIOUS
  <2>1. IteratorTypeOK
    BY DEF Init, IteratorInit, IteratorTypeOK, Results, Nothing
  <2>2. Booleans
    BY DEF Init, Booleans
  <2>3. RestTypeOK
    <3>1. seen \in Views
      BY DEF Init, Views
    <3>2. /\ disturbances \in 0 .. MaxDisturbances
          /\ frames \in 0 .. FrameDelay
          /\ beat \in 0 .. HeartbeatsToPause - 1
          /\ answered_for \in 0 .. CasinoBeats
          /\ asleep_for \in 0 .. WakeBeats
      BY PlayAssumption DEF Init
    <3> QED BY <3>1, <3>2 DEF Init, RestTypeOK
  <2> QED BY <2>1, <2>2, <2>3, TypeOKInParts
<1>2. ASSUME TypeOK, [Next]_vars PROVE TypeOK'
  <2>1. seen \in Views
    BY <1>2 DEF TypeOK
  <2>2. IteratorTypeOK'
    <3> USE <1>2, <2>1
    <3>1. CASE UNCHANGED iterator
      BY <3>1, IteratorKeepsType, TypeOKInParts
    <3>2. CASE Worker \/ RestartPrWinComputations
      BY <3>2, IteratorKeepsType, TypeOKInParts DEF Worker, RestartPrWinComputations
    <3>3. CASE DoScrape \/ CalculateFinalAnswer \/ NoRestart
      BY <3>1, <3>3 DEF DoScrape, CalculateFinalAnswer, NoRestart
    <3>4. CASE \/ HandleInterfacebuttonsI86
               \/ ExecuteSecondaryFormulasIfNecessary
               \/ ExecutePrimaryFormulasIfNecessary
               \/ ClickButton
               \/ Act("click")
               \/ FinishActionSequenceIfNecessary
      BY <3>1, <3>4
         DEF HandleInterfacebuttonsI86, ExecuteSecondaryFormulasIfNecessary,
             ExecutePrimaryFormulasIfNecessary, ClickButton, Act, Continue,
             FinishActionSequenceIfNecessary
    <3>5. CASE NextTurn \/ TurnEnds \/ UNCHANGED vars
      BY <3>1, <3>5 DEF NextTurn, TurnEnds, machine, vars
    <3> QED BY <3>2, <3>3, <3>4, <3>5, NextCases
  <2>3. Booleans'
    BY <1>2, BooleansKeepType, TypeOKInParts
  <2>4. RestTypeOK'
    BY <1>2, RestKeepsType
  <2>5. (TypeOK <=> IteratorTypeOK /\ Booleans /\ RestTypeOK)'
    BY TypeOKInParts, PTL
  <2> QED BY <2>2, <2>3, <2>4, <2>5
<1> QED BY <1>1, <1>2, PTL DEF Spec

-----------------------------------------------------------------------------
(***************************************************************************)
(* Why a turn is answered once.                                            *)
(***************************************************************************)
(* Since the answer the frames have been counted anew, at most one for each *)
(* heartbeat but the first one.                                            *)
HeldBack ==
    turn = "answered" =>
        /\ pc # "click"
        /\ pc \notin {"scrape", "finish"} => /\ ~_isfinalanswer
                                             /\ answered_for > 0
        /\ \/ pc = "finish" /\ action_sequence_needs_to_be_finished
           \/ last_frame = {}
           \/ frames + (IF pc = "finalAnswer" THEN 1 ELSE 0) < answered_for

\* While the heartbeat is not at the click, a turn does not become an answered one.
LEMMA OnlyClicksAnswer ==
    ASSUME [Next]_vars, turn' = "answered", pc # "click" \/ turn = "answered"
    PROVE  turn = "answered"
BY NextCases
   DEF DoScrape, CalculateFinalAnswer, NoRestart, RestartPrWinComputations,
       HandleInterfacebuttonsI86, ExecuteSecondaryFormulasIfNecessary,
       ExecutePrimaryFormulasIfNecessary, ClickButton, Act, Continue, Step,
       FinishActionSequenceIfNecessary, Worker, NextTurn, TurnEnds, casino, vars

(***************************************************************************)
(* The bound on the counted frames is inductive, if the buttons disappear  *)
(* before as many heartbeats as a decision needs stable frames.            *)
(***************************************************************************)
LEMMA HeldBackStep ==
    ASSUME CasinoBeats <= FrameDelay, TypeOK, HeldBack, [Next]_vars
    PROVE  HeldBack'
<1> SUFFICES ASSUME turn' = "answered" PROVE HeldBack'
  BY DEF HeldBack
<1> USE PlayAssumption DEF TypeOK, Step, counter, counts, casino
<1>1. CASE ClickButton
  BY <1>1 DEF ClickButton, HeldBack
<1>2. SUFFICES ASSUME ~ClickButton PROVE HeldBack'
  BY <1>1
<1>3. turn = "answered" /\ pc # "click"
  <2>1. CASE pc = "click"
    <3>1. turn = "answered"
      BY <1>2, <2>1, NextCases
         DEF DoScrape, CalculateFinalAnswer, NoRestart, RestartPrWinComputations,
             HandleInterfacebuttonsI86, ExecuteSecondaryFormulasIfNecessary,
             ExecutePrimaryFormulasIfNecessary, Act, Continue,
             FinishActionSequenceIfNecessary, Worker, NextTurn, TurnEnds, vars
    <3> QED BY <2>1, <3>1 DEF HeldBack
  <2>2. CASE pc # "click"
    BY <2>2, OnlyClicksAnswer
  <2> QED BY <2>1, <2>2
<1> USE <1>3
<1>4. CASE DoScrape
  BY <1>4 DEF DoScrape, HeldBack
<1>5. CASE CalculateFinalAnswer
  <2>1. \/ frames' = 0
        \/ frames' \in {frames, frames + 1} /\ last_frame' = last_frame /\ last_frame # {}
        \/ UNCHANGED counter /\ ~_isfinalanswer'
    BY <1>5 DEF CalculateFinalAnswer, UpdateNumberOfStableFrames
  <2>2. /\ pc = "finalAnswer" /\ pc' = "prwin" /\ UNCHANGED <<answered_for, turn>>
        /\ _isfinalanswer' => frames' >= FrameDelay
    BY <1>5 DEF CalculateFinalAnswer, CalculateMyTurnBits
  <2>3. answered_for > 0 /\ (last_frame = {} \/ frames + 1 < answered_for)
    BY <2>2 DEF HeldBack
  <2>4. answered_for \in 0 .. CasinoBeats /\ frames \in 0 .. FrameDelay
    OBVIOUS
  <2>5. last_frame' = {} \/ frames' + 0 < answered_for
    BY <2>1, <2>3, <2>4
  <2>6. ~_isfinalanswer'
    BY <2>1, <2>2, <2>3, <2>4
  <2> QED BY <2>2, <2>3, <2>5, <2>6 DEF HeldBack
<1>6. CASE NoRestart \/ RestartPrWinComputations
  BY <1>6 DEF NoRestart, RestartPrWinComputations, HeldBack, engines
<1>7. CASE HandleInterfacebuttonsI86 \/ ExecuteSecondaryFormulasIfNecessary
  BY <1>7 DEF HandleInterfacebuttonsI86, ExecuteSecondaryFormulasIfNecessary,
              Act, Continue, HeldBack, engines
<1>8. CASE ExecutePrimaryFormulasIfNecessary
  BY <1>8 DEF ExecutePrimaryFormulasIfNecessary, Continue, HeldBack, engines
<1>9. CASE Act("click")
  BY <1>9 DEF Act
<1>10. CASE FinishActionSequenceIfNecessary
  BY <1>10 DEF FinishActionSequenceIfNecessary, HeldBack
<1>11. CASE Worker \/ UNCHANGED vars
  BY <1>11 DEF Worker, HeldBack, engines, vars
<1>12. CASE NextTurn \/ TurnEnds
  BY <1>12 DEF NextTurn, TurnEnds
<1> QED BY <1>2, <1>4, <1>5, <1>6, <1>7, <1>8, <1>9, <1>10, <1>11, <1>12, NextCases

(***************************************************************************)
(* A turn is answered once.                                                *)
(***************************************************************************)
THEOREM TurnsAreAnsweredOnce ==
    ASSUME CasinoBeats <= FrameDelay
    PROVE  Spec => []ActsOncePerTurn
<1>1. Init => HeldBack
  BY DEF Init, HeldBack
<1>2. TypeOK /\ HeldBack /\ [Next]_vars => HeldBack'
  BY HeldBackStep
<1>3. HeldBack => ActsOncePerTurn
  BY DEF HeldBack, ActsOncePerTurn
<1> QED BY <1>1, <1>2, <1>3, TypeCorrect, PTL DEF Spec

-----------------------------------------------------------------------------
(***************************************************************************)
(* Why a decision is based on a finished prwin.                            *)
(***************************************************************************)
InRestart == pc \in {"masks", "reset"}

\* No hand of other cards, and at most a single one.
NoStray(results, mine) == \A m \in (SUBSET Cards) \ {mine} : results[m] = 0

OneStray(results, mine) ==
    \E earlier \in SUBSET Cards :
        \A m \in (SUBSET Cards) \ {mine} :
            results[m] <= IF m = earlier THEN 1 ELSE 0

\* After a restart all hands count that are begun with its masks.
CountsTheHands ==
    /\ worker = "simulating" =>
           /\ ~IteratorThreadComplete
           /\ dealt_for # masks => _iterations_calculated = 0
    /\ worker = "leaving" => IteratorThreadComplete \/ _iterations_calculated = 0
    /\ sums[masks] + 1 >= _iterations_calculated
    /\ worker = "asleep" /\ IteratorThreadComplete /\ _iterations_required > 0 =>
           prwin = sums

(* What the sums of the worker stand for, at every point of its work.       *)
SumsBelongToMasks ==
    /\ OneStray(sums, masks)
    /\ worker = "simulating" /\ dealt_for # masks => NoStray(sums, masks)
    /\ pc = "masks" => sums = Nothing
    /\ InRestart => _iterations_required > 0
    /\ ~InRestart => CountsTheHands

\* What the last scrape saw is the table, until the casino moves again.
SeesTheTable ==
    /\ action_sequence_needs_to_be_finished => pc = "finish"
    /\ pc \notin {"scrape", "click", "finish"} =>
           seen.cards = cards /\ seen.myturn = (turn # "none")
    /\ pc # "finalAnswer" => myturnbits = seen.myturn
    /\ pc = "reset" => masks = {seen.cards}

\* A turn that is known since the last heartbeat has the masks of its cards.
MasksOfTheTurn ==
    ~known_change /\ ~InRestart =>
        IF pc \in {"finalAnswer", "prwin"}
        THEN _last_myturnbits => masks = {seen.cards} /\ _iterations_required > 0
        ELSE seen.myturn => masks = {seen.cards} /\ _iterations_required > 0

\* The saved frame shows the turn that is on the table.
FrameOfTheTurn ==
    turn # "none" /\ \E look \in {0, 1} : last_frame = {<<cards, look>>}

(* Once a frame of a turn is saved, the restart for this turn is done or     *)
(* follows in the same heartbeat; the frames that were counted while the   *)
(* worker has not noticed the restart are not enough for a decision.       *)
CountsAfterRestart ==
    /\ last_frame = {} \/ \E f \in Frames : last_frame = {f}
    /\ FrameOfTheTurn /\ ~action_sequence_needs_to_be_finished =>
           /\ seen.cards = cards /\ seen.myturn
           /\ \/ frames = 0 /\ pc \in {"prwin", "masks", "reset"}
              \/ /\ ~known_change /\ pc \notin {"masks", "reset"}
                 /\ pc \in {"finalAnswer", "prwin"} => _last_myturnbits
           /\ ~IteratorThreadComplete /\ _iterations_calculated = 0 =>
                  frames + (IF pc = "finalAnswer" THEN 1 ELSE 0) <= asleep_for

\* A final answer is one without a restart, on results that are published.
FinalIsFinished ==
    _isfinalanswer /\ pc \in {"prwin", "masks", "reset", "autoplayer", "primary"} =>
        /\ ~StartOfPrWinComputationsNeeded
        /\ pc \notin {"masks", "reset"}
        /\ worker = "asleep" /\ IteratorThreadComplete
        /\ masks = {seen.cards} /\ _iterations_required > 0

DecisionInv ==
    /\ SumsBelongToMasks
    /\ SeesTheTable
    /\ MasksOfTheTurn
    /\ CountsAfterRestart
    /\ FinalIsFinished

(***************************************************************************)
(* Within these limits it holds: the setting of the masks and publications *)
(* are not torn apart, the buttons do not flicker, the worker notices a    *)
(* restart sooner than a decision gets its stable frames, and more than    *)
(* one hand is required.                                                   *)
(***************************************************************************)
DecisionLimits ==
    /\ AtomicSteps
    /\ "flicker" \notin Disturbances
    /\ WakeBeats < FrameDelay
    /\ \A r \in Required : r > 1

\* Steps of the autoplayer and of the casino leave the worker alone.
LEMMA OnlyRestartsAndWorker ==
    ASSUME [Next]_vars
    PROVE  \/ Worker
           \/ Heartbeat /\ RestartPrWinComputations
           \/ UNCHANGED iterator /\ UNCHANGED pc
           \/ UNCHANGED iterator /\ ~InRestart /\ ~InRestart'
<1> USE DEF Step, InRestart
<1>1. CASE DoScrape \/ CalculateFinalAnswer \/ NoRestart
  BY <1>1 DEF DoScrape, CalculateFinalAnswer, CalculateMyTurnBits, NoRestart
<1>2. CASE HandleInterfacebuttonsI86 \/ ExecuteSecondaryFormulasIfNecessary
  BY <1>2 DEF HandleInterfacebuttonsI86, ExecuteSecondaryFormulasIfNecessary,
              Act, Continue
<1>3. CASE ExecutePrimaryFormulasIfNecessary \/ ClickButton
  BY <1>3 DEF ExecutePrimaryFormulasIfNecessary, Continue, ClickButton
<1>4. CASE Act("click") \/ FinishActionSequenceIfNecessary
  BY <1>4 DEF Act, FinishActionSequenceIfNecessary
<1>5. CASE NextTurn \/ TurnEnds \/ UNCHANGED vars
  BY <1>5 DEF NextTurn, TurnEnds, machine, vars
<1>6. RestartPrWinComputations /\ Next => Heartbeat \/ Worker \/ NextTurn \/ TurnEnds
  BY DEF Next
<1> QED BY <1>1, <1>2, <1>3, <1>4, <1>5, <1>6, NextCases

(***************************************************************************)
(* Without any hand there is none of other cards.                          *)
(***************************************************************************)
LEMMA NothingIsClean ==
    ASSUME NEW mine
    PROVE  NoStray(Nothing, mine) /\ OneStray(Nothing, mine)
<1>1. \A m \in SUBSET Cards : Nothing[m] = 0
  BY DEF Nothing
<1>2. NoStray(Nothing, mine)
  BY <1>1 DEF NoStray
<1>3. {} \in SUBSET Cards
  OBVIOUS
<1>4. \A m \in (SUBSET Cards) \ {mine} : Nothing[m] <= IF m = {} THEN 1 ELSE 0
  BY <1>1
<1> QED BY <1>2, <1>3, <1>4 DEF OneStray

(***************************************************************************)
(* The worker adds one hand at a time, begun with the masks or, at most    *)
(* once after a restart, before them.                                      *)
(***************************************************************************)
LEMMA SumsWorkerStep ==
    ASSUME DecisionLimits, TypeOK, SumsBelongToMasks, Worker
    PROVE  SumsBelongToMasks'
<1> USE DEF IteratorThreadComplete
<1>1. /\ _iterations_calculated \in Nat
      /\ _iterations_required \in Nat
      /\ _iterations_required > 0 => _iterations_required > 1
      /\ sums \in Results
      /\ masks \in SUBSET Cards /\ dealt_for \in SUBSET Cards
  BY IteratorAssumption DEF TypeOK, IteratorTypeOK, DecisionLimits
<1>2. /\ pc # "masks" /\ UNCHANGED <<pc, masks, _iterations_required>>
      /\ IteratorThreadFunction(myturnbits)
  BY DEF Worker, DecisionLimits, IteratorThreadFunction, WakeUp, Simulate, EndOfMainLoop
<1>3. CASE WakeUp(myturnbits)
  <2>1. /\ worker = "asleep" /\ worker' \in {"asleep", "simulating"}
        /\ worker' = "simulating" => dealt_for' = masks
        /\ _iterations_calculated' = 1 /\ _iterations_required > 1
        /\ UNCHANGED sums
    BY <1>1, <1>3 DEF WakeUp, MainLoop
  <2>2. sums[masks] \in Nat
    BY <1>1 DEF Results
  <2>3. CountsTheHands'
    BY <1>1, <1>2, <2>1, <2>2 DEF CountsTheHands
  <2> QED BY <1>2, <2>1, <2>3 DEF SumsBelongToMasks, InRestart, NoStray, OneStray
<1>4. CASE Simulate
  <2>1. /\ worker = "simulating"
        /\ sums' = [sums EXCEPT ![dealt_for] = @ + 1]
        /\ _iterations_calculated' = _iterations_calculated + 1
        /\ IF _iterations_calculated + 1 < _iterations_required
           THEN worker' = "simulating" /\ dealt_for' = masks
           ELSE worker' = "leaving"
    BY <1>4 DEF Simulate, MainLoop
  <2>2. OneStray(sums', masks)
    <3>1. CASE dealt_for = masks
      <4>1. \A m \in (SUBSET Cards) \ {masks} : sums'[m] = sums[m]
        BY <1>1, <2>1, <3>1 DEF Results
      <4> QED BY <4>1 DEF SumsBelongToMasks, OneStray
    <3>2. CASE dealt_for # masks
      <4>1. \A m \in (SUBSET Cards) \ {masks} : sums[m] = 0
        BY <2>1, <3>2 DEF SumsBelongToMasks, NoStray
      <4>2. \A m \in (SUBSET Cards) \ {masks} :
                sums'[m] <= IF m = dealt_for THEN 1 ELSE 0
        BY <1>1, <2>1, <4>1 DEF Results
      <4> QED BY <1>1, <4>2 DEF OneStray
    <3> QED BY <3>1, <3>2
  <2>3. ~InRestart => CountsTheHands'
    <3> SUFFICES ASSUME ~InRestart PROVE CountsTheHands'
      OBVIOUS
    <3>1. /\ dealt_for # masks => _iterations_calculated = 0
          /\ sums[masks] + 1 >= _iterations_calculated
      BY <2>1 DEF SumsBelongToMasks, CountsTheHands
    <3>2. sums'[masks] = IF dealt_for = masks THEN sums[masks] + 1 ELSE sums[masks]
      BY <1>1, <2>1 DEF Results
    <3>3. sums[masks] \in Nat
      BY <1>1 DEF Results
    <3>4. sums'[masks] + 1 >= _iterations_calculated'
      BY <1>1, <2>1, <3>1, <3>2, <3>3
    <3> QED BY <1>1, <1>2, <2>1, <3>4 DEF CountsTheHands
  <2>4. OneStray(sums', masks')
    BY <1>2, <2>2 DEF OneStray
  <2> QED BY <1>2, <2>1, <2>3, <2>4 DEF SumsBelongToMasks, InRestart
<1>5. CASE EndOfMainLoop
  <2>1. /\ worker = "leaving" /\ worker' = "asleep" /\ UNCHANGED sums
        /\ IF _iterations_calculated >= _iterations_required
           THEN prwin' = sums /\ UNCHANGED _iterations_calculated
           ELSE _iterations_calculated' = 0
    BY <1>5 DEF EndOfMainLoop
  <2>2. sums[masks] \in Nat
    BY <1>1 DEF Results
  <2>3. ~InRestart => CountsTheHands'
    BY <1>1, <1>2, <2>1, <2>2 DEF SumsBelongToMasks, CountsTheHands
  <2> QED BY <1>2, <2>1, <2>3 DEF SumsBelongToMasks, InRestart, NoStray, OneStray
<1> QED BY <1>2, <1>3, <1>4, <1>5 DEF IteratorThreadFunction

(***************************************************************************)
(* The sums of the worker belong to the masks.                             *)
(***************************************************************************)
LEMMA SumsStep ==
    ASSUME DecisionLimits, TypeOK, DecisionInv, [Next]_vars
    PROVE  SumsBelongToMasks'
<1> USE DEF DecisionInv, IteratorThreadComplete
<1>1. /\ _iterations_calculated \in Nat
      /\ _iterations_required \in Nat
      /\ _iterations_required > 0 => _iterations_required > 1
      /\ sums \in Results
      /\ masks \in SUBSET Cards /\ dealt_for \in SUBSET Cards
  <2>1. _iterations_required \in Required \union {0}
    BY DEF TypeOK, IteratorTypeOK
  <2>2. \A r \in Required : r \in Nat /\ r > 1
    BY IteratorAssumption DEF DecisionLimits
  <2>3. {masks, dealt_for} \subseteq SUBSET Cards /\ {sums, prwin} \subseteq Results
    BY DEF TypeOK, IteratorTypeOK
  <2> QED BY <2>1, <2>2, <2>3 DEF TypeOK, IteratorTypeOK
<1>2. CASE Worker
  BY <1>2, SumsWorkerStep
<1>3. CASE Heartbeat /\ RestartPrWinComputations
  <2>1. CASE Step("prwin", "masks") /\ ResetSums
    <3>1. /\ pc' = "masks" /\ sums' = Nothing
          /\ _iterations_required' \in Required /\ masks' = {}
      BY <2>1 DEF ResetSums, Step
    <3>2. _iterations_required' > 0
      BY <3>1, IteratorAssumption
    <3>3. NoStray(sums', masks') /\ OneStray(sums', masks')
      BY <3>1, NothingIsClean
    <3> QED BY <3>1, <3>2, <3>3 DEF SumsBelongToMasks, InRestart
  <2>2. CASE Step("masks", "reset") /\ SetupMasks(seen.cards)
    <3>1. pc = "masks" /\ pc' = "reset" /\ sums' = Nothing
          /\ _iterations_required' = _iterations_required
      BY <2>2 DEF SetupMasks, SumsBelongToMasks, Step
    <3>2. NoStray(sums', masks') /\ OneStray(sums', masks')
      BY <3>1, NothingIsClean
    <3> QED BY <3>1, <3>2 DEF SumsBelongToMasks, InRestart
  <2>3. CASE Step("reset", "autoplayer") /\ ResetIteratorVars
    <3>1. /\ pc = "reset" /\ pc' = "autoplayer" /\ _iterations_calculated' = 0
          /\ UNCHANGED <<worker, _iterations_required, masks, dealt_for, sums>>
      BY <2>3 DEF ResetIteratorVars, Step
    <3>2. _iterations_required > 0 /\ sums[masks] \in Nat
      BY <1>1, <3>1 DEF SumsBelongToMasks, InRestart, Results
    <3>3. CountsTheHands'
      BY <1>1, <3>1, <3>2 DEF CountsTheHands
    <3> QED BY <3>1, <3>3 DEF SumsBelongToMasks, InRestart, NoStray, OneStray
  <2> QED BY <1>3, <2>1, <2>2, <2>3 DEF RestartPrWinComputations
<1>4. CASE UNCHANGED iterator /\ UNCHANGED pc
  BY <1>4 DEF iterator, SumsBelongToMasks, CountsTheHands, NoStray, OneStray, InRestart
<1>5. CASE UNCHANGED iterator /\ ~InRestart /\ ~InRestart'
  BY <1>5 DEF iterator, SumsBelongToMasks, CountsTheHands, NoStray, OneStray, InRestart
<1> QED BY <1>2, <1>3, <1>4, <1>5, OnlyRestartsAndWorker

(***************************************************************************)
(* The symbols agree with the last scrape, and the last scrape with the    *)
(* table.                                                                  *)
(***************************************************************************)
LEMMA SeesStep ==
    ASSUME DecisionLimits, TypeOK, DecisionInv, [Next]_vars
    PROVE  SeesTheTable'
<1> USE DEF DecisionInv, SeesTheTable, Step
<1>1. CASE DoScrape
  <2>1. PICK d \in Disturbances \union {"none"} : Disturbed(d)
    BY <1>1 DEF DoScrape
  <2>2. d # "flicker"
    BY DEF DecisionLimits
  <2>3. seen'.cards = cards /\ seen'.myturn = (turn # "none")
    BY <2>1, <2>2 DEF Disturbed
  <2>4. pc' = "finalAnswer" /\ ~action_sequence_needs_to_be_finished'
        /\ UNCHANGED <<turn, cards>>
    BY <1>1 DEF DoScrape
  <2> QED BY <2>3, <2>4
<1>2. CASE CalculateFinalAnswer
  BY <1>2 DEF CalculateFinalAnswer, CalculateMyTurnBits, casino
<1>3. CASE NoRestart
  BY <1>3 DEF NoRestart, casino, engines
<1>4. CASE RestartPrWinComputations
  BY <1>4 DEF RestartPrWinComputations, SetupMasks, casino
<1>5. CASE HandleInterfacebuttonsI86 \/ ExecuteSecondaryFormulasIfNecessary
  BY <1>5 DEF HandleInterfacebuttonsI86, ExecuteSecondaryFormulasIfNecessary,
              Act, Continue, casino, engines
<1>6. CASE ExecutePrimaryFormulasIfNecessary
  BY <1>6 DEF ExecutePrimaryFormulasIfNecessary, Continue, casino, engines
<1>7. CASE ClickButton
  BY <1>7 DEF ClickButton
<1>8. CASE Act("click")
  BY <1>8 DEF Act
<1>9. CASE FinishActionSequenceIfNecessary
  BY <1>9 DEF FinishActionSequenceIfNecessary, engines
<1>10. CASE Worker
  <2>1. UNCHANGED <<masks, casino, pc, seen, engines,
                    action_sequence_needs_to_be_finished>>
    BY <1>10 DEF Worker, IteratorThreadFunction, WakeUp, Simulate, EndOfMainLoop
  <2> QED BY <2>1 DEF casino, engines
<1>11. CASE NextTurn \/ TurnEnds
  BY <1>11 DEF NextTurn, TurnEnds, CasinoMoves, machine, engines, iterator
<1>12. CASE UNCHANGED vars
  BY <1>12 DEF vars, casino, engines, iterator
<1> QED BY <1>1, <1>2, <1>3, <1>4, <1>5, <1>6, <1>7, <1>8, <1>9, <1>10, <1>11, <1>12,
           NextCases

(***************************************************************************)
(* A turn that is not new has its masks.                                   *)
(***************************************************************************)
LEMMA MasksStep ==
    ASSUME DecisionLimits, TypeOK, DecisionInv, [Next]_vars
    PROVE  MasksOfTheTurn'
<1> USE DEF DecisionInv, MasksOfTheTurn, InRestart, Step
<1>1. CASE DoScrape
  <2>1. PICK d \in Disturbances \union {"none"} : Disturbed(d)
    BY <1>1 DEF DoScrape
  <2>2. seen'.cards = cards
    BY <2>1 DEF Disturbed
  <2>3. /\ pc = "scrape" /\ pc' = "finalAnswer"
        /\ ~known_change' => ~known_change /\ cards = seen.cards
        /\ _last_myturnbits' = seen.myturn
        /\ UNCHANGED <<masks, _iterations_required>>
    BY <1>1 DEF DoScrape, SeesTheTable, iterator
  <2> QED BY <2>2, <2>3
<1>2. CASE CalculateFinalAnswer
  BY <1>2 DEF CalculateFinalAnswer, CalculateMyTurnBits, iterator
<1>3. CASE NoRestart
  BY <1>3 DEF NoRestart, StartOfPrWinComputationsNeeded, iterator, engines
<1>4. CASE RestartPrWinComputations
  BY <1>4 DEF RestartPrWinComputations, ResetIteratorVars, SeesTheTable,
              SumsBelongToMasks
<1>5. CASE HandleInterfacebuttonsI86 \/ ExecuteSecondaryFormulasIfNecessary
  BY <1>5 DEF HandleInterfacebuttonsI86, ExecuteSecondaryFormulasIfNecessary,
              Act, Continue, iterator, engines
<1>6. CASE ExecutePrimaryFormulasIfNecessary
  BY <1>6 DEF ExecutePrimaryFormulasIfNecessary, Continue, iterator, engines
<1>7. CASE ClickButton
  BY <1>7 DEF ClickButton
<1>8. CASE Act("click") /\ UNCHANGED known_change
  BY <1>8 DEF Act, iterator
<1>9. CASE FinishActionSequenceIfNecessary
  BY <1>9 DEF FinishActionSequenceIfNecessary, iterator, engines
<1>10. CASE Worker
  <2>1. UNCHANGED <<masks, _iterations_required>>
    BY <1>10 DEF Worker, IteratorThreadFunction, WakeUp, Simulate, EndOfMainLoop
  <2> QED BY <1>10, <2>1 DEF Worker, engines
<1>11. CASE NextTurn \/ TurnEnds \/ UNCHANGED vars
  BY <1>11 DEF NextTurn, TurnEnds, machine, vars, iterator, engines
<1> QED BY <1>1, <1>2, <1>3, <1>4, <1>5, <1>6, <1>7, <1>8, <1>9, <1>10, <1>11,
           NextCases

(***************************************************************************)
(* The frames that count belong to the turn and to its restart.            *)
(***************************************************************************)
LEMMA CountsStep ==
    ASSUME DecisionLimits, TypeOK, DecisionInv, [Next]_vars
    PROVE  CountsAfterRestart'
<1> USE DEF DecisionInv, CountsAfterRestart, FrameOfTheTurn, IteratorThreadComplete, Step
<1>1. /\ frames \in Nat /\ asleep_for \in Nat
      /\ seen \in Views /\ seen.myturn \in BOOLEAN
      /\ _iterations_calculated \in Nat
  BY PlayAssumption DEF TypeOK, IteratorTypeOK, Views
<1>2. CASE DoScrape
  <2>1. PICK d \in Disturbances \union {"none"} : Disturbed(d)
    BY <1>2 DEF DoScrape
  <2>2. seen'.cards = cards /\ seen'.myturn = (turn # "none")
    BY <2>1 DEF Disturbed, DecisionLimits
  <2>3. /\ pc = "scrape" /\ pc' = "finalAnswer" /\ ~action_sequence_needs_to_be_finished
        /\ _last_myturnbits' = seen.myturn
        /\ known_change' = (known_change \/ cards # seen.cards)
        /\ asleep_for' = IF Unnoticed THEN asleep_for + 1 ELSE 0
        /\ UNCHANGED <<iterator, turn, cards, counter>>
    BY <1>2 DEF DoScrape, SeesTheTable
  <2>4. UNCHANGED <<turn, cards, frames, last_frame, _iterations_calculated,
                    _iterations_required>>
    BY <2>3 DEF iterator, counter
  <2>5. ASSUME FrameOfTheTurn
        PROVE  /\ seen'.cards = cards /\ seen'.myturn /\ ~known_change'
               /\ _last_myturnbits'
    BY <2>2, <2>3, <2>5
  <2>6. ASSUME FrameOfTheTurn, ~IteratorThreadComplete, _iterations_calculated = 0
        PROVE  frames + 1 <= asleep_for'
    <3>1. frames + 0 <= asleep_for /\ asleep_for' = asleep_for + 1
      BY <2>3, <2>6 DEF Unnoticed
    <3> QED BY <1>1, <3>1
  <2> QED BY <2>3, <2>4, <2>5, <2>6
<1>3. CASE CalculateFinalAnswer
  <2>1. /\ pc = "finalAnswer" /\ pc' = "prwin" /\ ~action_sequence_needs_to_be_finished
        /\ seen.cards = cards /\ seen.myturn = (turn # "none")
        /\ UNCHANGED <<iterator, casino, seen, _last_myturnbits, known_change, counts,
                       action_sequence_needs_to_be_finished>>
    BY <1>3 DEF CalculateFinalAnswer, CalculateMyTurnBits, SeesTheTable
  <2>2. UNCHANGED <<turn, cards, asleep_for, _iterations_calculated,
                    _iterations_required>>
    BY <2>1 DEF casino, counts, iterator
  <2>3. CASE UNCHANGED counter
    BY <1>1, <2>1, <2>2, <2>3 DEF counter
  <2>4. CASE UpdateNumberOfStableFrames /\ seen.myturn
    <3> DEFINE frame == {<<seen.cards, seen.look>>}
    <3>1. \E f \in Frames : frame = {f}
      BY <1>1 DEF Views, Frames
    <3>2. CASE last_frame = {}
      <4>1. frames' = 0 /\ last_frame' = frame
        BY <2>4, <3>2 DEF UpdateNumberOfStableFrames
      <4> QED BY <1>1, <2>1, <2>2, <2>4, <3>1, <4>1
    <3>3. CASE last_frame = frame
      <4>1. frames' \in {frames, frames + 1} /\ last_frame' = last_frame
        BY <2>4, <3>3 DEF UpdateNumberOfStableFrames
      <4>2. FrameOfTheTurn
        BY <1>1, <2>1, <2>4, <3>3 DEF Views
      <4>3. /\ seen.cards = cards /\ seen.myturn /\ ~known_change /\ _last_myturnbits
            /\ ~IteratorThreadComplete /\ _iterations_calculated = 0 =>
                   frames + 1 <= asleep_for
        BY <2>1, <4>2
      <4>4. frames \in Nat /\ asleep_for \in Nat /\ frames' \in {frames, frames + 1}
        BY <1>1, <4>1
      <4>5. frames + 1 <= asleep_for => frames' + 0 <= asleep_for
        <5>1. CASE frames' = frames
          BY <4>4, <5>1
        <5>2. CASE frames' = frames + 1
          BY <4>4, <5>2
        <5> QED BY <4>4, <5>1, <5>2
      <4>6. last_frame' = {} \/ \E f \in Frames : last_frame' = {f}
        BY <4>1
      <4> HIDE DEF frame
      <4> QED BY <2>1, <2>2, <4>3, <4>5, <4>6
    <3>4. CASE last_frame # {} /\ last_frame # frame
      <4>1. last_frame' = {}
        BY <2>4, <3>4 DEF UpdateNumberOfStableFrames
      <4> QED BY <4>1
    <3> QED BY <3>2, <3>3, <3>4
  <2> QED BY <1>3, <2>3, <2>4 DEF CalculateFinalAnswer
<1>4. CASE NoRestart
  BY <1>1, <1>4 DEF NoRestart, StartOfPrWinComputationsNeeded, iterator, casino, engines,
                    counter, counts
<1>5. CASE RestartPrWinComputations
  <2>1. UNCHANGED <<turn, cards, seen, frames, last_frame,
                    action_sequence_needs_to_be_finished, _last_myturnbits>>
    BY <1>5 DEF RestartPrWinComputations, casino, counter
  <2>2. CASE Step("prwin", "masks") /\ StartOfPrWinComputationsNeeded
    BY <1>1, <1>5, <2>1, <2>2
       DEF RestartPrWinComputations, StartOfPrWinComputationsNeeded, ResetSums
  <2>3. CASE Step("masks", "reset")
    BY <1>1, <1>5, <2>1, <2>3 DEF RestartPrWinComputations, SetupMasks
  <2>4. CASE Step("reset", "autoplayer")
    <3>1. /\ pc = "reset" /\ pc' = "autoplayer" /\ ~known_change' /\ asleep_for' = 0
      BY <1>5, <2>4 DEF RestartPrWinComputations
    <3> QED BY <1>1, <2>1, <3>1
  <2> QED BY <1>5, <2>2, <2>3, <2>4 DEF RestartPrWinComputations
<1>6. CASE HandleInterfacebuttonsI86 \/ ExecuteSecondaryFormulasIfNecessary
  BY <1>1, <1>6 DEF HandleInterfacebuttonsI86, ExecuteSecondaryFormulasIfNecessary,
              Act, Continue, iterator, casino, engines, counter, counts
<1>7. CASE ExecutePrimaryFormulasIfNecessary
  BY <1>1, <1>7 DEF ExecutePrimaryFormulasIfNecessary, Continue, iterator, casino,
              engines, counter, counts
<1>8. CASE ClickButton
  BY <1>8 DEF ClickButton, counter
<1>9. CASE Act("click")
  BY <1>9 DEF Act, counter
<1>10. CASE FinishActionSequenceIfNecessary
  BY <1>1, <1>10 DEF FinishActionSequenceIfNecessary, iterator, casino, engines,
              counter, counts
<1>11. CASE Worker
  <2>1. UNCHANGED <<casino, pc, seen, engines, counter,
                    action_sequence_needs_to_be_finished, counts>>
    BY <1>11 DEF Worker
  <2>2. ~InRestart /\ ~IteratorThreadComplete' /\ _iterations_calculated' = 0 =>
            ~IteratorThreadComplete /\ _iterations_calculated = 0
    BY <1>1, <1>11
       DEF Worker, IteratorThreadFunction, WakeUp, Simulate, MainLoop,
           EndOfMainLoop, SumsBelongToMasks, CountsTheHands
  <2>3. UNCHANGED <<turn, cards, pc, seen, known_change, _last_myturnbits, frames,
                    last_frame, asleep_for, action_sequence_needs_to_be_finished>>
    BY <2>1 DEF casino, engines, counter, counts
  <2> QED BY <1>1, <2>2, <2>3 DEF InRestart
<1>12. CASE NextTurn
  <2>1. last_frame' = last_frame /\ last_frame \intersect ({cards'} \X {0, 1}) = {}
    BY <1>12 DEF NextTurn, machine, counter
  <2>2. ASSUME NEW look \in {0, 1} PROVE last_frame' # {<<cards', look>>}
    <3>1. <<cards', look>> \in {cards'} \X {0, 1}
      OBVIOUS
    <3> QED BY <2>1, <3>1
  <2> QED BY <2>1, <2>2
<1>13. CASE TurnEnds
  BY <1>13 DEF TurnEnds, machine, counter
<1>14. CASE UNCHANGED vars
  BY <1>14 DEF vars, iterator, casino, engines, counter, counts
<1> QED BY <1>2, <1>3, <1>4, <1>5, <1>6, <1>7, <1>8, <1>9, <1>10, <1>11, <1>12, <1>13,
           <1>14, NextCases

(***************************************************************************)
(* A final answer needs finished results, and nothing happens to them      *)
(* before the primary formulas are evaluated.                              *)
(***************************************************************************)
LEMMA FinalStep ==
    ASSUME DecisionLimits, TypeOK, DecisionInv, [Next]_vars
    PROVE  FinalIsFinished'
<1> USE DEF DecisionInv, FinalIsFinished, IteratorThreadComplete, Step,
            StartOfPrWinComputationsNeeded
<1>1. CASE DoScrape
  BY <1>1 DEF DoScrape
<1>2. CASE CalculateFinalAnswer /\ Heartbeat
  <2> SUFFICES ASSUME _isfinalanswer' PROVE FinalIsFinished'
    OBVIOUS
  <2>1. /\ pc = "finalAnswer" /\ pc' = "prwin"
        /\ seen.myturn /\ ~IteratorThreadWorking
        /\ UpdateNumberOfStableFrames /\ frames' >= FrameDelay
        /\ UNCHANGED <<iterator, casino, seen, _last_myturnbits, known_change>>
    BY <1>2 DEF CalculateFinalAnswer, CalculateMyTurnBits
  <2>2. /\ frames \in Nat /\ asleep_for \in 0 .. WakeBeats
        /\ FrameDelay \in Nat /\ WakeBeats \in Nat /\ WakeBeats < FrameDelay
        /\ _iterations_calculated \in Nat /\ _iterations_required \in Nat
        /\ seen.look \in {0, 1}
    BY PlayAssumption, IteratorAssumption
       DEF TypeOK, IteratorTypeOK, DecisionLimits, Views
  <2>3. /\ last_frame = {<<seen.cards, seen.look>>}
        /\ frames' \in {frames, frames + 1}
    BY <2>1, <2>2 DEF UpdateNumberOfStableFrames
  <2>4. FrameOfTheTurn /\ ~action_sequence_needs_to_be_finished
    BY <2>1, <2>2, <2>3 DEF SeesTheTable, FrameOfTheTurn
  <2>5. ~known_change /\ _last_myturnbits
    BY <2>1, <2>4 DEF CountsAfterRestart
  <2>6. masks = {seen.cards} /\ _iterations_required > 0
    BY <2>1, <2>5 DEF MasksOfTheTurn, InRestart
  <2>7. IteratorThreadComplete
    <3> SUFFICES ASSUME ~IteratorThreadComplete PROVE FALSE
      OBVIOUS
    <3>1. _iterations_calculated = 0
      BY <2>1, <2>2 DEF IteratorThreadWorking
    <3>2. frames + 1 <= asleep_for
      BY <2>1, <2>4, <3>1 DEF CountsAfterRestart
    <3> QED BY <2>1, <2>2, <2>3, <3>2
  <2>8. worker = "asleep"
    BY <1>2, <2>1, <2>7 DEF Heartbeat, DecisionLimits, InRestart, TypeOK,
                            IteratorTypeOK, SumsBelongToMasks, CountsTheHands
  <2> QED BY <2>1, <2>5, <2>6, <2>7, <2>8 DEF iterator
<1>3. CASE NoRestart
  BY <1>3 DEF NoRestart, iterator, engines
<1>4. CASE RestartPrWinComputations
  BY <1>4 DEF RestartPrWinComputations
<1>5. CASE HandleInterfacebuttonsI86 \/ ExecuteSecondaryFormulasIfNecessary
  BY <1>5 DEF HandleInterfacebuttonsI86, ExecuteSecondaryFormulasIfNecessary,
              Act, Continue, iterator, engines
<1>6. CASE ExecutePrimaryFormulasIfNecessary
  BY <1>6 DEF ExecutePrimaryFormulasIfNecessary, Continue
<1>7. CASE ClickButton \/ Act("click") \/ FinishActionSequenceIfNecessary
  BY <1>7 DEF ClickButton, Act, FinishActionSequenceIfNecessary
<1>8. CASE Worker
  <2>1. IteratorThreadFunction(myturnbits) /\ UNCHANGED <<pc, seen, engines>>
    BY <1>8 DEF Worker
  <2>2. ~(worker = "asleep" /\ IteratorThreadComplete)
    BY <2>1 DEF IteratorThreadFunction, WakeUp, Simulate, EndOfMainLoop
  <2> QED BY <2>1, <2>2 DEF engines
<1>9. CASE NextTurn \/ TurnEnds
  BY <1>9 DEF NextTurn, TurnEnds, CasinoMoves, machine
<1>10. CASE UNCHANGED vars
  BY <1>10 DEF vars, iterator, engines
<1>11. Next /\ CalculateFinalAnswer => Heartbeat
  BY DEF Heartbeat, Next, Worker, NextTurn, TurnEnds, CasinoMoves, CalculateFinalAnswer,
         CalculateMyTurnBits
<1> QED BY <1>1, <1>2, <1>3, <1>4, <1>5, <1>6, <1>7, <1>8, <1>9, <1>10, <1>11, NextCases

(***************************************************************************)
(* The primary formulas are evaluated on a published prwin with all        *)
(* required hands for the cards on the table and at most one other hand,   *)
(* although the worker goes on during restarts.                            *)
(***************************************************************************)
THEOREM DecisionsAreFounded ==
    ASSUME DecisionLimits
    PROVE  Spec => []DecidesOnFinishedPrwin
<1>1. Init => DecisionInv
  <2> SUFFICES ASSUME Init PROVE DecisionInv
    OBVIOUS
  <2>1. SumsBelongToMasks
    <3>1. NoStray(sums, masks) /\ OneStray(sums, masks)
      BY NothingIsClean DEF Init, IteratorInit
    <3>2. CountsTheHands
      BY DEF Init, IteratorInit, CountsTheHands, Nothing, IteratorThreadComplete
    <3> QED BY <3>1, <3>2 DEF Init, SumsBelongToMasks, InRestart
  <2>2. SeesTheTable /\ MasksOfTheTurn
    BY DEF Init, SeesTheTable, MasksOfTheTurn
  <2>3. CountsAfterRestart /\ FinalIsFinished
    BY DEF Init, CountsAfterRestart, FrameOfTheTurn, FinalIsFinished
  <2> QED BY <2>1, <2>2, <2>3 DEF DecisionInv
<1>2. TypeOK /\ DecisionInv /\ [Next]_vars => DecisionInv'
  BY SumsStep, SeesStep, MasksStep, CountsStep, FinalStep DEF DecisionInv
<1>3. TypeOK /\ DecisionInv => DecidesOnFinishedPrwin
  <2> SUFFICES ASSUME TypeOK, DecisionInv, pc = "primary", _isfinalanswer
               PROVE  /\ prwin[{seen.cards}] > 0
                      /\ prwin[{seen.cards}] + 1 >= _iterations_required
                      /\ OneStray(prwin, masks) /\ masks = {seen.cards}
    BY DEF DecidesOnFinishedPrwin, OneStray
  <2>1. /\ masks = {seen.cards} /\ _iterations_required > 0
        /\ worker = "asleep" /\ IteratorThreadComplete
    BY DEF DecisionInv, FinalIsFinished
  <2>2. prwin = sums /\ sums[masks] + 1 >= _iterations_calculated /\ OneStray(sums, masks)
    BY <2>1 DEF DecisionInv, SumsBelongToMasks, CountsTheHands, InRestart
  <2>3. /\ _iterations_calculated \in Nat /\ _iterations_required \in Nat
        /\ _iterations_required > 1 /\ sums[masks] \in Nat
    BY <2>1, IteratorAssumption DEF TypeOK, IteratorTypeOK, DecisionLimits, Results
  <2> QED BY <2>1, <2>2, <2>3 DEF IteratorThreadComplete
<1> QED BY <1>1, <1>2, <1>3, TypeCorrect, PTL DEF Spec
=============================================================================
