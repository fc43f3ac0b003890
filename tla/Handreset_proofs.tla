-------------------------- MODULE Handreset_proofs --------------------------
(***************************************************************************)
(* Proofs about Handreset for any delay of the heartbeats, any spread of   *)
(* the changes of a hand and any popups.  What the detector knows needs    *)
(* popups that do not mislead it, and that each hand is announced once     *)
(* needs hands that show in time.                                          *)
(***************************************************************************)
EXTENDS Handreset, FiniteSetTheorems, TLAPS

(***************************************************************************)
(* Clocks stay below their bound.                                          *)
(***************************************************************************)
LEMMA ClocksAreBounded ==
    ASSUME NEW bound \in Nat, NEW n \in Nat
    PROVE  UpTo(bound, n) \in 0 .. bound /\ (n >= bound => UpTo(bound, n) = bound)
BY DEF UpTo

(***************************************************************************)
(* What fires are methods, so that the window of the last three heartbeats *)
(* keeps its type when they are shifted in.                                *)
(***************************************************************************)
LEMMA WindowKeepsType ==
    ASSUME TypeOK, NEW new
    PROVE  ShiftIn(FiringHandresetMethods(new)) \in [0 .. 2 -> SUBSET Method]
<1>1. FiringHandresetMethods(new) \in SUBSET Method
  BY DEF FiringHandresetMethods, Method
<1> QED BY <1>1 DEF ShiftIn, TypeOK

(***************************************************************************)
(* A value the scraper sees is a value.                                    *)
(***************************************************************************)
LEMMA ShownIsValue ==
    ASSUME TypeOK, NEW thing PROVE Shown(thing) \in Value
BY DEF TypeOK, Shown, Value, kUndefined

(***************************************************************************)
(* The new values that the detector compares are values.                   *)
(***************************************************************************)
LEMMA NewValuesKeepType ==
    ASSUME TypeOK
    PROVE  GetNewSymbolValues \in [dealerchair : Value, handnumber : Value,
                                   cards : Value, board : BOOLEAN]
<1>1. kUndefined \in Value
  BY DEF Value
<1>2. BoardShown \in BOOLEAN
  BY DEF BoardShown
<1> QED BY <1>1, <1>2, ShownIsValue DEF GetNewSymbolValues, TypeOK

(***************************************************************************)
(* The symbol engines and the account keep their types.                    *)
(***************************************************************************)
LEMMA EnginesKeepType ==
    ASSUME TypeOK, NEW elapsedhand \in 0 .. kMinimumtimeBetweenTwoHeartbeats,
           UpdateSymbolEngines(elapsedhand), AccountForHandreset
    PROVE  /\ _elapsedhand' \in 0 .. kMinimumtimeBetweenTwoHeartbeats
           /\ dealerchair' \in Value
           /\ userchair_confirmed' \in BOOLEAN
           /\ unannounced' \in Int /\ strays' \in Int
<1>1. _elapsedhand' \in 0 .. kMinimumtimeBetweenTwoHeartbeats
  BY DEF UpdateSymbolEngines, kMinimumtimeBetweenTwoHeartbeats
<1>2. dealerchair' \in Value
  <2>1. RightHandActiveChairs \subseteq Value /\ dealerchair \in Value
    BY DEF RightHandActiveChairs, TypeOK, Value
  <2> QED BY <2>1, ShownIsValue DEF UpdateSymbolEngines, UpdateDealerchair
<1>3. userchair_confirmed' \in BOOLEAN
  BY DEF UpdateSymbolEngines, CalculateUserChair
<1>4. unannounced' \in Int /\ strays' \in Int
  BY DEF AccountForHandreset, TypeOK
<1> QED BY <1>1, <1>2, <1>3, <1>4

(***************************************************************************)
(* A new hand keeps the types of what the casino shows.                    *)
(***************************************************************************)
LEMMA DealKeepsType ==
    ASSUME TypeOK, NEW now \in SUBSET Method, Deal(now),
           unannounced' \in Int, strays' \in Int
    PROVE  TypeOK'
<1> USE DelayAssumption
<1>1. /\ age' \in 0 .. HandSeconds /\ beats' \in 0 .. Settling
      /\ pending' \subseteq Method /\ hand' \in {0, 1} /\ community_cards' \in {0, 3, 5}
  BY DEF Deal, TypeOK, Settling
<1>2. UNCHANGED <<hidden, _elapsed, _elapsedhand, dealerchair, userchair_confirmed,
                  last, _methods_firing_the_last_three_heartbeats,
                  _is_handreset_on_this_heartbeat>>
  BY Zenon DEF Deal, symbols, detector
<1>3. has_cards' \in BOOLEAN
  BY Zenon DEF Deal
<1>4. Settling' = Settling
  BY DEF Settling
<1> QED BY <1>1, <1>2, <1>3, <1>4 DEF TypeOK

(***************************************************************************)
(* Type correctness: the window of the detector has three entries and all  *)
(* that it compares are values the table can show.                         *)
(***************************************************************************)
THEOREM TypeCorrect == Spec => []TypeOK
<1> USE DelayAssumption
<1>1. Init => TypeOK
  <2> SUFFICES ASSUME Init PROVE TypeOK
    OBVIOUS
  <2>1. _methods_firing_the_last_three_heartbeats \in [0 .. 2 -> SUBSET Method]
    BY DEF Init
  <2>2. /\ dealerchair \in Value
        /\ last \in [dealerchair : Value, handnumber : Value, cards : Value,
                     board : BOOLEAN]
    BY DEF Init, Value
  <2>3. /\ age \in 0 .. HandSeconds
        /\ beats \in 0 .. Settling
        /\ _elapsed \in 0 .. kMinimumtimeBetweenTwoHeartbeats + 1
        /\ _elapsedhand \in 0 .. kMinimumtimeBetweenTwoHeartbeats
    BY DEF Init, kMinimumtimeBetweenTwoHeartbeats, Settling
  <2>4. /\ hand \in {0, 1} /\ pending \subseteq Method /\ hidden \subseteq Method
        /\ community_cards \in {0, 3, 5} /\ unannounced \in Int /\ strays \in Int
    BY DEF Init, StraysOfConnection
  <2>5. /\ userchair_confirmed \in BOOLEAN /\ _is_handreset_on_this_heartbeat \in BOOLEAN
        /\ has_cards \in BOOLEAN
    BY Zenon DEF Init
  <2> QED BY <2>1, <2>2, <2>3, <2>4, <2>5, Zenon DEF TypeOK
<1>2. TypeOK /\ [Next]_vars => TypeOK'
  <2> SUFFICES ASSUME TypeOK, [Next]_vars PROVE TypeOK'
    OBVIOUS
  <2>1. ASSUME NEW delay \in 0 .. MaxDelay, EvaluateAll(delay) PROVE TypeOK'
    <3> DEFINE new         == GetNewSymbolValues
               elapsed     == UpTo(kMinimumtimeBetweenTwoHeartbeats + 1,
                                   _elapsed + delay)
               elapsedhand == UpTo(kMinimumtimeBetweenTwoHeartbeats,
                                   _elapsedhand + delay)
               seen        == ShiftIn(FiringHandresetMethods(new))
    <3>1. /\ elapsed \in 0 .. kMinimumtimeBetweenTwoHeartbeats + 1
          /\ elapsedhand \in 0 .. kMinimumtimeBetweenTwoHeartbeats
          /\ age' \in 0 .. HandSeconds
          /\ beats' \in 0 .. Settling
      <4>1. /\ {age + delay, beats + 1, _elapsed + delay, _elapsedhand + delay}
                   \subseteq Nat
            /\ {4, 5, HandSeconds, Settling} \subseteq Nat
        BY DEF TypeOK, kMinimumtimeBetweenTwoHeartbeats, Settling
      <4>2. age' = UpTo(HandSeconds, age + delay)
              /\ beats' = UpTo(Settling, beats + 1)
        BY <2>1, Zenon DEF EvaluateAll
      <4>3. kMinimumtimeBetweenTwoHeartbeats = 4
              /\ kMinimumtimeBetweenTwoHeartbeats + 1 = 5
        BY DEF kMinimumtimeBetweenTwoHeartbeats
      <4> QED BY <4>1, <4>2, <4>3, ClocksAreBounded
    <3>2. /\ CalculateIsHandreset(seen, elapsedhand, elapsed)
          /\ UpdateSymbolEngines(elapsedhand)
          /\ AccountForHandreset
          /\ last' = new
          /\ _elapsed' = elapsed
      BY <2>1, Zenon DEF EvaluateAll
    <3>3. _methods_firing_the_last_three_heartbeats' \in [0 .. 2 -> SUBSET Method]
      <4> HIDE DEF new, elapsed, elapsedhand
      <4>1. NoMethods \in [0 .. 2 -> SUBSET Method]
        BY DEF NoMethods
      <4> QED BY <3>2, <4>1, WindowKeepsType DEF CalculateIsHandreset
    <3>4. _is_handreset_on_this_heartbeat' \in BOOLEAN
      BY <3>2, Zenon DEF CalculateIsHandreset, TooShortlyAfterHandreset,
                         TwoDifferentMethods
    <3>5. last' \in [dealerchair : Value, handnumber : Value, cards : Value,
                     board : BOOLEAN]
      BY <3>2, NewValuesKeepType
    <3>6. /\ _elapsedhand' \in 0 .. kMinimumtimeBetweenTwoHeartbeats
          /\ dealerchair' \in Value
          /\ userchair_confirmed' \in BOOLEAN
          /\ unannounced' \in Int /\ strays' \in Int
      <4> HIDE DEF elapsedhand
      <4> QED BY <3>1, <3>2, EnginesKeepType
    <3>7. UNCHANGED casino /\ Settling' = Settling
      BY <2>1 DEF EvaluateAll, Settling
    <3> HIDE DEF elapsed, elapsedhand, new, seen
    <3> QED BY <3>1, <3>2, <3>3, <3>4, <3>5, <3>6, <3>7 DEF TypeOK, casino
  <2>2. ASSUME Connect PROVE TypeOK'
    <3>1. dealerchair' \in Value /\ age' \in 0 .. HandSeconds
            /\ beats' \in 0 .. Settling' /\ strays' \in Int /\ unannounced' \in Int
            /\ _elapsed' \in 0 .. kMinimumtimeBetweenTwoHeartbeats + 1
            /\ _elapsedhand' \in 0 .. kMinimumtimeBetweenTwoHeartbeats
      BY <2>2 DEF Connect, UpdateOnConnection, Value, Settling, StraysOfConnection,
                  kMinimumtimeBetweenTwoHeartbeats
    <3>2. /\ hand' \in {0, 1} /\ pending' \subseteq Method /\ hidden' \subseteq Method
          /\ community_cards' \in {0, 3, 5}
      BY <2>2 DEF Connect
    <3>3. userchair_confirmed' \in BOOLEAN /\ has_cards' \in BOOLEAN
      BY <2>2, Zenon DEF Connect, UpdateOnConnection
    <3>4. UNCHANGED <<last, _methods_firing_the_last_three_heartbeats,
                      _is_handreset_on_this_heartbeat>>
      BY <2>2, Zenon DEF Connect, detector
    <3> QED BY <3>1, <3>2, <3>3, <3>4 DEF TypeOK
  <2>3. ASSUME NEW now \in SUBSET Method, DealInTime(now) \/ DealEarly(now)
        PROVE  TypeOK'
    BY <2>3, DealKeepsType
       DEF DealInTime, DealEarly, TypeOK, StraysOfEarlyHand, Settling
  <2>4. ASSUME NEW thing \in Method, ShowChange(thing) PROVE TypeOK'
    <3>1. UNCHANGED <<hand, community_cards, hidden, clocks, symbols, detector, account>>
            /\ pending' \subseteq pending
      BY <2>4, Zenon DEF ShowChange
    <3>2. has_cards' \in BOOLEAN
      BY <2>4, Zenon DEF ShowChange
    <3> QED BY <3>1, <3>2 DEF TypeOK, clocks, symbols, detector, account, Settling
  <2>5. ASSUME NEW things \in Popup, Hide(things) PROVE TypeOK'
    BY <2>5 DEF Hide, TypeOK, clocks, symbols, detector, account, Settling
  <2>6. ASSUME DealBoard \/ Fold \/ Unhide PROVE TypeOK'
    BY <2>6 DEF DealBoard, Fold, Unhide, TypeOK, clocks, symbols, detector, account,
                Settling
  <2>7. CASE UNCHANGED vars
    BY <2>7 DEF vars, TypeOK, casino, clocks, symbols, detector, account, Settling
  <2> QED BY <2>1, <2>2, <2>3, <2>4, <2>5, <2>6, <2>7 DEF Next, Heartbeat
<1> QED BY <1>1, <1>2, PTL DEF Spec

-----------------------------------------------------------------------------
(* The detector knows the hand.                                            *)

(***************************************************************************)
(* No popup makes the engines take a wrong dealer, or an empty hand number *)
(* for a valid one.                                                        *)
(***************************************************************************)
PopupsMisleadNobody ==
    \A things \in Popup :
        /\ "dealerchair" \in things => ~MisleadingSmallBlind
        /\ "handnumber" \in things => DigitsConfigured

(***************************************************************************)
(* Why the detector knows the hand: SpreadBeats heartbeats after a hand    *)
(* was dealt all of it is shown and no popup can be there yet.  The next   *)
(* heartbeat reads the hand number and, through the symbol engine, the     *)
(* dealer, which reaches the detector on the heartbeat after that one.     *)
(* From then on a popup makes it keep the values it has.                   *)
(***************************************************************************)
HandInv ==
    /\ pending # {} => beats <= SpreadBeats
    /\ hidden # {} => beats >= Seen
    /\ hidden \in Popup \union {{}}
    /\ beats > SpreadBeats => dealerchair = hand /\ last.handnumber = hand
    /\ KnowsTheHand

(***************************************************************************)
(* What a heartbeat makes of the dealer and of the hand number when the    *)
(* casino shows all of the hand: they are read, or a popup hides them.     *)
(***************************************************************************)
LEMMA HeartbeatReadsTheHand ==
    ASSUME PopupsMisleadNobody, TypeOK, HandInv, pending = {},
           NEW delay \in 0 .. MaxDelay, EvaluateAll(delay)
    PROVE  /\ dealerchair' = hand \/ (hidden # {} /\ dealerchair' = dealerchair)
           /\ last'.handnumber = hand \/ (hidden # {} /\ last'.handnumber = last.handnumber)
           /\ dealerchair = hand => last'.dealerchair = hand
<1>1. UpdateDealerchair /\ last' = GetNewSymbolValues
  BY Zenon DEF EvaluateAll, UpdateSymbolEngines
<1>2. \A thing \in {"dealerchair", "handnumber"} :
          Shown(thing) = IF thing \in hidden THEN kUndefined ELSE hand
  BY DEF Shown
<1>3. hand \in {0, 1}
  BY DEF TypeOK
<1>4. dealerchair' = hand \/ (hidden # {} /\ dealerchair' = dealerchair)
  <2>1. CASE "dealerchair" \in hidden
    <3>1. ~MisleadingSmallBlind
      BY <2>1 DEF HandInv, PopupsMisleadNobody
    <3> QED BY <1>1, <1>2, <1>3, <2>1, <3>1
            DEF UpdateDealerchair, RightHandActiveChairs, IsValid
  <2>2. CASE "dealerchair" \notin hidden
    BY <1>1, <1>2, <1>3, <2>2 DEF UpdateDealerchair, IsValid, kUndefined
  <2> QED BY <2>1, <2>2
<1>5. last'.handnumber = IF IsValidHandNumber(Shown("handnumber"))
                         THEN Shown("handnumber") ELSE last.handnumber
  BY <1>1 DEF GetNewSymbolValues
<1>6. last'.handnumber = hand \/ (hidden # {} /\ last'.handnumber = last.handnumber)
  <2>1. CASE "handnumber" \in hidden
    <3>1. DigitsConfigured
      BY <2>1 DEF HandInv, PopupsMisleadNobody
    <3> QED BY <1>2, <1>5, <2>1, <3>1 DEF IsValidHandNumber, IsValid
  <2>2. CASE "handnumber" \notin hidden
    BY <1>2, <1>3, <1>5, <2>2 DEF IsValidHandNumber, IsValid, kUndefined
  <2> QED BY <2>1, <2>2
<1>7. dealerchair = hand => last'.dealerchair = hand
  BY <1>1, <1>3 DEF GetNewSymbolValues, IsValid, kUndefined
<1> QED BY <1>4, <1>6, <1>7

(***************************************************************************)
(* The invariant holds for popups that mislead nobody.                     *)
(***************************************************************************)
THEOREM InvariantHolds == PopupsMisleadNobody => (Spec => []HandInv)
<1> SUFFICES ASSUME PopupsMisleadNobody PROVE Spec => []HandInv
  OBVIOUS
<1> USE DelayAssumption
<1>1. Init => HandInv
  BY DEF Init, HandInv, KnowsTheHand, Seen
<1>2. TypeOK /\ HandInv /\ [Next]_vars => HandInv'
  <2> SUFFICES ASSUME TypeOK, HandInv, [Next]_vars PROVE HandInv'
    OBVIOUS
  <2>1. ASSUME NEW delay \in 0 .. MaxDelay, EvaluateAll(delay) PROVE HandInv'
    <3>1. /\ pending # {} => beats < SpreadBeats
          /\ beats' = UpTo(Settling, beats + 1)
          /\ UNCHANGED casino
      BY <2>1, Zenon DEF EvaluateAll
    <3>2. /\ beats \in Nat /\ beats <= Settling /\ SpreadBeats \in Nat
          /\ Seen = SpreadBeats + 2 /\ Settling = SpreadBeats + 4 /\ Seen' = Seen
      BY DEF TypeOK, Seen, Settling
    <3>3. /\ beats' = IF beats < Settling THEN beats + 1 ELSE Settling
          /\ UNCHANGED <<hand, pending, hidden>>
      BY <3>1, <3>2 DEF UpTo, casino
    <3>4. /\ pending' # {} => beats' <= SpreadBeats
          /\ hidden' # {} => beats' >= Seen'
          /\ hidden' \in Popup \union {{}}
      BY <3>1, <3>2, <3>3 DEF HandInv
    <3>5. beats' > SpreadBeats => dealerchair' = hand /\ last'.handnumber = hand
      <4> SUFFICES ASSUME beats' > SpreadBeats
                   PROVE  dealerchair' = hand /\ last'.handnumber = hand
        OBVIOUS
      <4>1. pending = {}
        BY <3>1, <3>2, <3>3 DEF HandInv
      <4>2. hidden # {} => dealerchair = hand /\ last.handnumber = hand
        BY <3>2 DEF HandInv
      <4> QED BY <2>1, <4>1, <4>2, HeartbeatReadsTheHand
    <3>6. beats' >= Seen => last'.dealerchair = hand /\ last'.handnumber = hand
      <4> SUFFICES ASSUME beats' >= Seen
                   PROVE  last'.dealerchair = hand /\ last'.handnumber = hand
        OBVIOUS
      <4>1. beats > SpreadBeats /\ pending = {} /\ beats' > SpreadBeats
        BY <3>1, <3>2, <3>3
      <4>2. last'.dealerchair = hand
        BY <2>1, <4>1, HeartbeatReadsTheHand DEF HandInv
      <4> QED BY <3>5, <4>1, <4>2
    <3> QED BY <3>2, <3>3, <3>4, <3>5, <3>6 DEF HandInv, KnowsTheHand
  <2>2. ASSUME Connect PROVE HandInv'
    BY <2>2 DEF Connect, HandInv, KnowsTheHand, Seen
  <2>3. ASSUME NEW now \in SUBSET Method, Deal(now) PROVE HandInv'
    BY <2>3 DEF Deal, HandInv, KnowsTheHand, Seen
  <2>4. ASSUME NEW thing \in Method, ShowChange(thing) PROVE HandInv'
    BY <2>4 DEF ShowChange, clocks, symbols, detector, HandInv, KnowsTheHand, Seen
  <2>5. ASSUME NEW things \in Popup, Hide(things) PROVE HandInv'
    BY <2>5 DEF Hide, clocks, symbols, detector, HandInv, KnowsTheHand, Seen
  <2>6. ASSUME DealBoard \/ Fold \/ Unhide PROVE HandInv'
    BY <2>6 DEF DealBoard, Fold, Unhide, clocks, symbols, detector, HandInv,
                KnowsTheHand, Seen
  <2>7. CASE UNCHANGED vars
    BY <2>7 DEF vars, casino, clocks, symbols, detector, HandInv, KnowsTheHand, Seen
  <2> QED BY <2>1, <2>2, <2>3, <2>4, <2>5, <2>6, <2>7
          DEF Next, Heartbeat, DealInTime, DealEarly
<1> QED BY <1>1, <1>2, TypeCorrect, PTL DEF Spec

(***************************************************************************)
(* Once all of a hand is shown the detector compares with this hand: a     *)
(* popup may hide the dealer unless another bet looks like the small       *)
(* blind, and the hand number if its length is limited.                    *)
(***************************************************************************)
THEOREM DetectorKnowsTheHand == PopupsMisleadNobody => (Spec => []KnowsTheHand)
<1> SUFFICES ASSUME PopupsMisleadNobody PROVE Spec => []KnowsTheHand
  OBVIOUS
<1>1. HandInv => KnowsTheHand
  BY DEF HandInv
<1>2. Spec => []HandInv
  BY InvariantHolds
<1> QED BY <1>1, <1>2, PTL

-----------------------------------------------------------------------------
(* Every hand is announced once.                                           *)

(***************************************************************************)
(* What the detector is made for: heartbeats a second apart, a casino that *)
(* shows a hand within two of them, popups that leave the board visible    *)
(* and mislead nobody.  A hand is dealt in time if the last one has        *)
(* settled and a pause has passed since.                                   *)
(***************************************************************************)
ShowsInTime ==
    /\ MaxDelay <= 1
    /\ SpreadBeats <= 2
    /\ HandSeconds >= Settling + kMinimumtimeBetweenTwoHeartbeats
    /\ \A things \in Popup : "board" \notin things
    /\ PopupsMisleadNobody

\* Cards are the only method that may fire without a new hand: a popup
\* makes them unknown, and the detector keeps no known ones.
OnlyCards(firing) == firing \subseteq {"cards"}

\* The detector and the engines before it have seen all of the hand, but for
\* the cards of the user.
AllIsKnown ==
    /\ pending = {}
    /\ dealerchair = hand
    /\ last.dealerchair = hand
    /\ last.handnumber = hand
    /\ last.board => community_cards > 0

\* No heartbeat takes more than a second, on any of the three clocks.
ClocksAgree ==
    /\ age <= _elapsed \/ _elapsed = kMinimumtimeBetweenTwoHeartbeats + 1
    /\ age <= beats \/ beats = Settling
    /\ \/ _elapsedhand = kMinimumtimeBetweenTwoHeartbeats
       \/ age <= _elapsedhand + Settling

\* What the last heartbeat has seen of the hand, and when.
SeesTheHand ==
    /\ "board" \notin hidden
    /\ beats > SpreadBeats => (last.board => community_cards > 0)
    /\ beats >= Seen => last.cards \in {hand, kUndefined}

\* What fired because of a hand leaves the window before the hand has settled.
VotesExpire ==
    \A i \in 0 .. 1 : beats > Seen + i =>
        OnlyCards(_methods_firing_the_last_three_heartbeats[i])

\* A new connection starts in the middle of a hand: the first heartbeat sees
\* the hand number and the board, the second one the dealer.
ConnectionIsSeen ==
    /\ pending = {}
    /\ beats = 0 => strays = StraysOfConnection
    /\ beats >= 1 => /\ dealerchair = hand
                     /\ last.handnumber = hand
                     /\ last.board => community_cards > 0
    /\ beats >= 2 => AllIsKnown

\* Stray handresets are left to an early hand, one for each heartbeat, or to a
\* connection, one as soon as all is known.
StraysAreLeft ==
    strays # 0 =>
        /\ unannounced = 0
        /\ strays > 0
        /\ beats < Settling
        /\ strays >= Settling - beats \/ ConnectionIsSeen

\* Otherwise an announced hand is not announced again: as long as something of
\* it is new to the detector the pause lasts, which clears the window, and
\* afterwards nothing but the cards can fire.
NothingIsLeft ==
    unannounced = 0 /\ strays = 0 =>
        /\ \A i \in 0 .. 1 :
               OnlyCards(_methods_firing_the_last_three_heartbeats[i])
        /\ \/ AllIsKnown
           \/ /\ _elapsed > kMinimumtimeBetweenTwoHeartbeats
              /\ _elapsedhand < beats

\* A hand that is not announced yet is about to be: there is no pause, and
\* what has been seen of it is still in the window.  Only the dealer and the
\* cards may be missing when all of the hand has been shown for a heartbeat,
\* and then the chair of the user has been found.
ChangesAreInWindow ==
    unannounced = 1 =>
        /\ strays = 0
        /\ _elapsed > kMinimumtimeBetweenTwoHeartbeats
        /\ _elapsedhand = kMinimumtimeBetweenTwoHeartbeats
        /\ beats <= SpreadBeats + 1
        /\ community_cards # 5
        /\ "cards" \in pending \/ has_cards
        /\ last.handnumber # kUndefined /\ last.dealerchair # kUndefined
        /\ \A m \in {"dealerchair", "handnumber", "cards"} : last[m] = hand =>
               \E i \in 0 .. beats - 1 :
                   m \in _methods_firing_the_last_three_heartbeats[i]
        /\ beats = SpreadBeats + 1 =>
               userchair_confirmed /\ last.cards # hand /\ last.dealerchair # hand

(***************************************************************************)
(* The inductive invariant of the announcements.                           *)
(***************************************************************************)
AnnounceInv ==
    /\ unannounced \in {0, 1}
    /\ ClocksAgree
    /\ SeesTheHand
    /\ VotesExpire
    /\ StraysAreLeft
    /\ NothingIsLeft
    /\ ChangesAreInWindow

(***************************************************************************)
(* Cards alone are not two different methods.                              *)
(***************************************************************************)
LEMMA CardsAreNotEnough ==
    ASSUME NEW seen, \A i \in 0 .. 2 : OnlyCards(seen[i])
    PROVE  ~TwoDifferentMethods(seen)
<1> DEFINE methods == UNION {seen[i] : i \in 0 .. 2}
<1>1. methods \subseteq {"cards"}
  BY DEF OnlyCards
<1>2. IsFiniteSet({"cards"}) /\ Cardinality({"cards"}) = 1
  BY FS_Singleton
<1>3. Cardinality(methods) <= 1 /\ Cardinality(methods) \in Nat
  <2> HIDE DEF methods
  <2> QED BY <1>1, <1>2, FS_Subset, FS_CardinalityType
<1> QED BY <1>3 DEF TwoDifferentMethods

(***************************************************************************)
(* Two methods anywhere in the window are two different methods.           *)
(***************************************************************************)
LEMMA TwoAreEnough ==
    ASSUME NEW seen \in [0 .. 2 -> SUBSET Method],
           NEW m, NEW n, m # n,
           NEW i \in 0 .. 2, m \in seen[i],
           NEW j \in 0 .. 2, n \in seen[j]
    PROVE  TwoDifferentMethods(seen)
<1> DEFINE methods == UNION {seen[k] : k \in 0 .. 2}
           pair    == {m, n}
<1>1. pair \subseteq methods /\ methods \subseteq Method
  OBVIOUS
<1>2. IsFiniteSet({m}) /\ Cardinality({m}) = 1
  BY FS_Singleton
<1>3. IsFiniteSet(pair) /\ Cardinality(pair) = 2
  <2>1. pair = {m} \union {n} /\ n \notin {m}
    OBVIOUS
  <2>2. IsFiniteSet(pair) /\ Cardinality(pair) = Cardinality({m}) + 1
    <3> HIDE DEF pair
    <3> QED BY <1>2, <2>1, FS_AddElement
  <2> QED BY <1>2, <2>2
<1>4. IsFiniteSet(Method)
  <2> DEFINE one   == {"dealerchair"}
             two   == one \union {"handnumber"}
             three == two \union {"cards"}
             four  == three \union {"board"}
  <2>1. Method = four
    BY DEF Method
  <2>2. IsFiniteSet(one)
    BY FS_Singleton
  <2>3. IsFiniteSet(two)
    <3> HIDE DEF one
    <3> QED BY <2>2, FS_AddElement
  <2>4. IsFiniteSet(three)
    <3> HIDE DEF two
    <3> QED BY <2>3, FS_AddElement
  <2>5. IsFiniteSet(four)
    <3> HIDE DEF three
    <3> QED BY <2>4, FS_AddElement
  <2> QED BY <2>1, <2>5
<1>5. Cardinality(methods) >= 2
  <2> HIDE DEF methods, pair
  <2>1. IsFiniteSet(methods)
    BY <1>1, <1>4, FS_Subset
  <2> QED BY <1>1, <1>3, <2>1, FS_Subset, FS_CardinalityType
<1> QED BY <1>5 DEF TwoDifferentMethods

(***************************************************************************)
(* The dealer, the hand number and the cards fire when they are seen for   *)
(* the first time.                                                         *)
(***************************************************************************)
LEMMA ChangesFire ==
    ASSUME TypeOK, NEW m \in {"dealerchair", "handnumber", "cards"},
           GetNewSymbolValues[m] # last[m], GetNewSymbolValues[m] # kUndefined,
           m # "cards" => last[m] # kUndefined
    PROVE  m \in FiringHandresetMethods(GetNewSymbolValues)
BY DEF FiringHandresetMethods, IsValid, IsValidHandNumber

(***************************************************************************)
(* What a heartbeat sees of a hand that is all shown.                      *)
(***************************************************************************)
LEMMA HeartbeatSees ==
    ASSUME ShowsInTime, TypeOK, HandInv, SeesTheHand, pending = {},
           NEW delay \in 0 .. MaxDelay, EvaluateAll(delay)
    PROVE  /\ last' = GetNewSymbolValues
           /\ dealerchair' = hand \/ (beats >= Seen /\ dealerchair' = dealerchair)
           /\ last'.handnumber = hand
                  \/ (beats >= Seen /\ last'.handnumber = last.handnumber)
           /\ dealerchair = hand => last'.dealerchair = hand
           /\ last'.board <=> community_cards > 0
           /\ last'.cards \in {hand, kUndefined}
<1>1. last' = GetNewSymbolValues
  BY Zenon DEF EvaluateAll
<1>2. PopupsMisleadNobody /\ (hidden # {} => beats >= Seen) /\ "board" \notin hidden
  BY DEF ShowsInTime, HandInv, SeesTheHand
<1>3. last'.board <=> community_cards > 0
  BY <1>1, <1>2 DEF GetNewSymbolValues, BoardShown
<1>4. last'.cards \in {hand, kUndefined}
  BY <1>1 DEF GetNewSymbolValues, Shown
<1> QED BY <1>1, <1>2, <1>3, <1>4, HeartbeatReadsTheHand

(***************************************************************************)
(* A heartbeat keeps what is known.                                        *)
(***************************************************************************)
LEMMA KnownStaysKnown ==
    ASSUME ShowsInTime, TypeOK, HandInv, SeesTheHand, AllIsKnown,
           NEW delay \in 0 .. MaxDelay, EvaluateAll(delay)
    PROVE  AllIsKnown'
<1>1. UNCHANGED <<hand, pending, community_cards>>
  BY DEF EvaluateAll, casino
<1> QED BY <1>1, HeartbeatSees DEF AllIsKnown

(***************************************************************************)
(* Once the detector has seen all of a hand, the cards are the only method *)
(* that can fire.                                                          *)
(***************************************************************************)
LEMMA OnlyCardsFire ==
    ASSUME ShowsInTime, TypeOK, HandInv, SeesTheHand, AllIsKnown,
           NEW delay \in 0 .. MaxDelay, EvaluateAll(delay)
    PROVE  OnlyCards(FiringHandresetMethods(GetNewSymbolValues))
<1> DEFINE new == GetNewSymbolValues
<1>1. /\ new.dealerchair = last.dealerchair
      /\ new.handnumber = last.handnumber
      /\ last.board => new.board
  BY HeartbeatSees DEF AllIsKnown
<1> HIDE DEF new
<1>2. \A m \in FiringHandresetMethods(new) : m = "cards"
  BY <1>1 DEF FiringHandresetMethods
<1> QED BY <1>2 DEF OnlyCards, new

(***************************************************************************)
(* After so many heartbeats all is known.                                  *)
(***************************************************************************)
LEMMA SeenIsKnown ==
    ASSUME TypeOK, HandInv, SeesTheHand, beats >= Seen PROVE AllIsKnown
<1>1. beats > SpreadBeats
  BY DelayAssumption DEF TypeOK, Seen
<1> QED BY <1>1, DelayAssumption
        DEF HandInv, KnowsTheHand, SeesTheHand, AllIsKnown, TypeOK

(***************************************************************************)
(* What a heartbeat does to the clocks.                                    *)
(***************************************************************************)
LEMMA HeartbeatClocks ==
    ASSUME ShowsInTime, TypeOK, NEW delay \in 0 .. MaxDelay, EvaluateAll(delay)
    PROVE  /\ delay \in {0, 1} /\ SpreadBeats \in 0 .. 2
           /\ Seen = SpreadBeats + 2 /\ Settling = SpreadBeats + 4
           /\ Seen' = Seen /\ Settling' = Settling
           /\ HandSeconds \in Nat /\ HandSeconds >= Settling + 4
           /\ _elapsed' = IF _elapsed + delay < 5 THEN _elapsed + delay ELSE 5
           /\ age' = IF age + delay < HandSeconds THEN age + delay ELSE HandSeconds
           /\ beats' = IF beats < Settling THEN beats + 1 ELSE Settling
           /\ _elapsedhand' = IF _is_handreset_on_this_heartbeat' THEN 0
                              ELSE IF _elapsedhand + delay < 4 THEN _elapsedhand + delay
                              ELSE 4
           /\ UNCHANGED <<hand, pending, community_cards, has_cards, hidden>>
<1> USE DelayAssumption
<1>1. /\ delay \in {0, 1} /\ SpreadBeats \in 0 .. 2
      /\ Seen = SpreadBeats + 2 /\ Settling = SpreadBeats + 4
      /\ Seen' = Seen /\ Settling' = Settling
      /\ HandSeconds \in Nat /\ HandSeconds >= Settling + 4
  BY DEF ShowsInTime, Seen, Settling, kMinimumtimeBetweenTwoHeartbeats
<1>2. /\ _elapsed' = UpTo(kMinimumtimeBetweenTwoHeartbeats + 1, _elapsed + delay)
      /\ age' = UpTo(HandSeconds, age + delay)
      /\ beats' = UpTo(Settling, beats + 1)
      /\ UpdateSymbolEngines(UpTo(kMinimumtimeBetweenTwoHeartbeats,
                                  _elapsedhand + delay))
      /\ UNCHANGED casino
  BY Zenon DEF EvaluateAll
<1>3. kMinimumtimeBetweenTwoHeartbeats + 1 = 5 /\ kMinimumtimeBetweenTwoHeartbeats = 4
  BY DEF kMinimumtimeBetweenTwoHeartbeats
<1>4. beats \in 0 .. Settling /\ Settling \in Nat
  BY <1>1 DEF TypeOK
<1>5. _elapsedhand' = IF _is_handreset_on_this_heartbeat' THEN 0
                      ELSE UpTo(4, _elapsedhand + delay)
  BY <1>2, <1>3, Zenon DEF UpdateSymbolEngines
<1> QED BY <1>1, <1>2, <1>3, <1>4, <1>5 DEF UpTo, casino

\* The window after what fires on this heartbeat is shifted in.
NextWindow == ShiftIn(FiringHandresetMethods(GetNewSymbolValues))

\* The last handreset was less than four seconds ago.
Pauses(delay) == _elapsedhand + delay < 4 /\ _elapsed' = 5

(***************************************************************************)
(* What a heartbeat decides: it shifts in what fires, and the pause and    *)
(* the announcement empty the window.                                      *)
(***************************************************************************)
LEMMA HeartbeatDecides ==
    ASSUME ShowsInTime, TypeOK, NEW delay \in 0 .. MaxDelay, EvaluateAll(delay)
    PROVE  /\ _is_handreset_on_this_heartbeat' <=>
                  ~Pauses(delay) /\ TwoDifferentMethods(NextWindow)
           /\ Pauses(delay) \/ _is_handreset_on_this_heartbeat' =>
                  _methods_firing_the_last_three_heartbeats' = NoMethods
           /\ ~(Pauses(delay) \/ _is_handreset_on_this_heartbeat') =>
                  _methods_firing_the_last_three_heartbeats' = NextWindow
           /\ NextWindow[0] = FiringHandresetMethods(GetNewSymbolValues)
           /\ NextWindow[1] = _methods_firing_the_last_three_heartbeats[0]
           /\ NextWindow[2] = _methods_firing_the_last_three_heartbeats[1]
           /\ NextWindow \in [0 .. 2 -> SUBSET Method]
<1> DEFINE elapsed     == UpTo(kMinimumtimeBetweenTwoHeartbeats + 1, _elapsed + delay)
           elapsedhand == UpTo(kMinimumtimeBetweenTwoHeartbeats, _elapsedhand + delay)
<1>1. CalculateIsHandreset(NextWindow, elapsedhand, elapsed) /\ _elapsed' = elapsed
  BY Zenon DEF EvaluateAll, NextWindow
<1>2. Pauses(delay) <=> TooShortlyAfterHandreset(elapsedhand, elapsed)
  <2>1. /\ elapsedhand < kMinimumtimeBetweenTwoHeartbeats <=> _elapsedhand + delay < 4
        /\ elapsed > kMinimumtimeBetweenTwoHeartbeats <=> _elapsed' = 5
    BY <1>1, HeartbeatClocks DEF TypeOK, UpTo, kMinimumtimeBetweenTwoHeartbeats
  <2> HIDE DEF elapsed, elapsedhand
  <2> QED BY <2>1, Zenon DEF TooShortlyAfterHandreset, Pauses
<1> HIDE DEF elapsed, elapsedhand
<1>3. /\ _is_handreset_on_this_heartbeat' <=>
             ~Pauses(delay) /\ TwoDifferentMethods(NextWindow)
      /\ _methods_firing_the_last_three_heartbeats' =
             IF Pauses(delay) \/ _is_handreset_on_this_heartbeat'
             THEN NoMethods ELSE NextWindow
  BY <1>1, <1>2, Zenon DEF CalculateIsHandreset
<1>4. NextWindow \in [0 .. 2 -> SUBSET Method]
  BY WindowKeepsType DEF NextWindow
<1>5. /\ NextWindow[0] = FiringHandresetMethods(GetNewSymbolValues)
      /\ NextWindow[1] = _methods_firing_the_last_three_heartbeats[0]
      /\ NextWindow[2] = _methods_firing_the_last_three_heartbeats[1]
  BY DEF NextWindow, ShiftIn
<1> QED BY <1>3, <1>4, <1>5, Zenon

(***************************************************************************)
(* What a heartbeat accounts for.                                          *)
(***************************************************************************)
LEMMA HeartbeatAccounts ==
    ASSUME TypeOK, NEW delay \in 0 .. MaxDelay, EvaluateAll(delay)
    PROVE  /\ _is_handreset_on_this_heartbeat' => unannounced' = 0
           /\ ~_is_handreset_on_this_heartbeat' => unannounced' = unannounced
           /\ ~_is_handreset_on_this_heartbeat' \/ unannounced # 0 =>
                  strays' = IF beats' = Settling /\ strays > 0 THEN 0 ELSE strays
           /\ _is_handreset_on_this_heartbeat' /\ unannounced = 0 =>
                  strays' = IF beats' = Settling /\ strays - 1 > 0 THEN 0 ELSE strays - 1
<1>1. AccountForHandreset
  BY Zenon DEF EvaluateAll
<1> QED BY <1>1 DEF AccountForHandreset, TypeOK

(***************************************************************************)
(* The empty window has nothing but cards in it.                           *)
(***************************************************************************)
LEMMA NoMethodsOnlyCards == \A i \in 0 .. 2 : OnlyCards(NoMethods[i])
BY DEF NoMethods, OnlyCards

(***************************************************************************)
(* What fired because of a hand has left the window in time.               *)
(***************************************************************************)
LEMMA VotesStayExpired ==
    ASSUME ShowsInTime, TypeOK, HandInv, AnnounceInv,
           NEW delay \in 0 .. MaxDelay, EvaluateAll(delay)
    PROVE  VotesExpire'
<1> DEFINE window == _methods_firing_the_last_three_heartbeats
<1>1. /\ Seen' = Seen /\ Settling = Seen + 2 /\ Seen \in 2 .. 4 /\ beats \in 0 .. Settling
      /\ beats' = IF beats < Settling THEN beats + 1 ELSE Settling
  BY HeartbeatClocks DEF TypeOK
<1>2. SeesTheHand /\ \A i \in 0 .. 1 : beats > Seen + i => OnlyCards(window[i])
  BY DEF AnnounceInv, VotesExpire
<1>3. beats >= Seen => OnlyCards(NextWindow[0])
  BY <1>2, SeenIsKnown, OnlyCardsFire, HeartbeatDecides
<1>4. beats >= Seen + 1 => OnlyCards(NextWindow[1])
  BY <1>1, <1>2, HeartbeatDecides
<1>5. window' = NoMethods \/ window' = NextWindow
  BY HeartbeatDecides
<1> HIDE DEF window
<1>6. ASSUME NEW i \in 0 .. 1, beats' > Seen + i PROVE OnlyCards(window'[i])
  <2>1. CASE i = 0
    BY <1>1, <1>3, <1>5, <1>6, <2>1, NoMethodsOnlyCards
  <2>2. CASE i = 1
    BY <1>1, <1>4, <1>5, <1>6, <2>2, NoMethodsOnlyCards
  <2> QED BY <2>1, <2>2
<1> QED BY <1>1, <1>6 DEF VotesExpire, window

(***************************************************************************)
(* A heartbeat that finds nothing new: either the pause lasts, or the      *)
(* detector has seen all of the hand.                                      *)
(***************************************************************************)
LEMMA QuietHeartbeat ==
    ASSUME ShowsInTime, TypeOK, HandInv, AnnounceInv, unannounced = 0, strays = 0,
           NEW delay \in 0 .. MaxDelay, EvaluateAll(delay)
    PROVE  /\ ~_is_handreset_on_this_heartbeat'
           /\ unannounced' = 0 /\ strays' = 0 /\ NothingIsLeft'
<1> DEFINE window == _methods_firing_the_last_three_heartbeats
<1>1. /\ OnlyCards(window[0]) /\ OnlyCards(window[1])
      /\ AllIsKnown \/ (_elapsed = 5 /\ _elapsedhand < beats)
      /\ SeesTheHand
  BY DEF AnnounceInv, NothingIsLeft, TypeOK, kMinimumtimeBetweenTwoHeartbeats
<1>2. /\ beats \in 0 .. Settling /\ Seen \in 2 .. 4 /\ Settling = Seen + 2
      /\ _elapsedhand \in 0 .. 4 /\ delay \in {0, 1}
      /\ beats' = IF beats < Settling THEN beats + 1 ELSE Settling
  BY HeartbeatClocks DEF TypeOK, kMinimumtimeBetweenTwoHeartbeats
<1>3. window' = NoMethods \/ window' = NextWindow
  BY HeartbeatDecides
<1>4. CASE AllIsKnown
  <2>1. OnlyCards(NextWindow[0])
    BY <1>1, <1>4, OnlyCardsFire, HeartbeatDecides
  <2>2. OnlyCards(NextWindow[1]) /\ OnlyCards(NextWindow[2])
    BY <1>1, HeartbeatDecides
  <2>3. \A i \in 0 .. 2 : OnlyCards(NextWindow[i])
    BY <2>1, <2>2
  <2>4. ~_is_handreset_on_this_heartbeat'
    BY <2>3, CardsAreNotEnough, HeartbeatDecides
  <2>5. unannounced' = 0 /\ strays' = 0
    BY <2>4, HeartbeatAccounts
  <2>6. AllIsKnown'
    BY <1>1, <1>4, KnownStaysKnown
  <2> HIDE DEF window
  <2>7. \A i \in 0 .. 1 : OnlyCards(window'[i])
    BY <1>3, <2>3, NoMethodsOnlyCards
  <2> QED BY <2>4, <2>5, <2>6, <2>7 DEF NothingIsLeft, window
<1>5. CASE ~AllIsKnown
  <2>1. beats < Seen
    BY <1>1, <1>2, <1>5, SeenIsKnown DEF Seen
  <2>2. _elapsed = 5 /\ _elapsedhand < beats
    BY <1>1, <1>5
  <2>3. _elapsedhand + delay < 4 /\ _elapsed' = 5
    BY <1>2, <2>1, <2>2, HeartbeatClocks
  <2>4. ~_is_handreset_on_this_heartbeat' /\ window' = NoMethods
    BY <2>3, HeartbeatDecides DEF Pauses
  <2>5. unannounced' = 0 /\ strays' = 0
    BY <2>4, HeartbeatAccounts
  <2>6. _elapsedhand' < beats'
    BY <1>2, <2>1, <2>2, <2>3, <2>4, HeartbeatClocks
  <2> HIDE DEF window
  <2> QED BY <2>3, <2>4, <2>5, <2>6, NoMethodsOnlyCards
          DEF NothingIsLeft, window, kMinimumtimeBetweenTwoHeartbeats
<1> QED BY <1>4, <1>5

(***************************************************************************)
(* A heartbeat after a connection: the first one may count against the     *)
(* hand number and the board, the second one against the dealer; then all  *)
(* is known.                                                               *)
(***************************************************************************)
LEMMA ConnectedHeartbeat ==
    ASSUME ShowsInTime, TypeOK, HandInv, AnnounceInv,
           strays > 0, beats < Settling, ConnectionIsSeen,
           NEW delay \in 0 .. MaxDelay, EvaluateAll(delay)
    PROVE  /\ pending' = {} /\ dealerchair' = hand' /\ last'.handnumber = hand'
           /\ last'.board => community_cards' > 0
           /\ beats' >= 2 => AllIsKnown'
<1>1. SeesTheHand
  BY DEF AnnounceInv
<1>2. /\ pending = {}
      /\ beats >= 1 => dealerchair = hand /\ last.handnumber = hand
  BY DEF ConnectionIsSeen
<1>3. /\ UNCHANGED <<hand, pending, community_cards>>
      /\ beats' = beats + 1 /\ Seen \in 2 .. 4 /\ beats \in Nat
  BY HeartbeatClocks DEF TypeOK
<1>4. beats >= Seen => beats >= 1
  BY <1>3
<1>5. dealerchair' = hand /\ last'.handnumber = hand /\ (last'.board => community_cards > 0)
  BY <1>1, <1>2, <1>4, HeartbeatSees
<1>6. beats' >= 2 => last'.dealerchair = hand
  BY <1>1, <1>2, <1>3, HeartbeatSees
<1> QED BY <1>2, <1>3, <1>5, <1>6 DEF AllIsKnown

(***************************************************************************)
(* A heartbeat to which stray handresets are left: there is one for what   *)
(* it may announce, and they come to an end when the hand has settled.     *)
(***************************************************************************)
LEMMA StrayHeartbeat ==
    ASSUME ShowsInTime, TypeOK, TypeOK', HandInv, AnnounceInv, strays # 0,
           NEW delay \in 0 .. MaxDelay, EvaluateAll(delay)
    PROVE  /\ unannounced = 0 /\ unannounced' = 0 /\ beats < Settling
           /\ StraysAreLeft' /\ NothingIsLeft'
           /\ strays' = strays \/ Announced!Stray \/ Announced!Settle
<1> DEFINE window == _methods_firing_the_last_three_heartbeats
<1>1. /\ unannounced = 0 /\ strays > 0 /\ beats < Settling
      /\ strays >= Settling - beats \/ ConnectionIsSeen
      /\ SeesTheHand
  BY DEF AnnounceInv, StraysAreLeft
<1>2. /\ beats \in Nat /\ strays \in Int /\ beats' = beats + 1
      /\ Settling' = Settling /\ Settling \in Nat /\ Settling = Seen + 2 /\ Seen \in 2 .. 4
      /\ Seen' = Seen
  BY <1>1, HeartbeatClocks DEF TypeOK
<1>3. /\ unannounced' = 0
      /\ beats' = Settling => strays' = 0
      /\ beats' < Settling /\ _is_handreset_on_this_heartbeat' => strays' = strays - 1
      /\ beats' < Settling /\ ~_is_handreset_on_this_heartbeat' => strays' = strays
  BY <1>1, <1>2, HeartbeatAccounts
<1>4. strays' = strays \/ Announced!Stray \/ Announced!Settle
  BY <1>1, <1>2, <1>3 DEF Announced!Stray, Announced!Settle
<1>5. CASE beats' = Settling
  <2>1. strays' = 0
    BY <1>3, <1>5
  <2>2. AllIsKnown'
    <3>1. beats >= Seen
      BY <1>2, <1>5
    <3> QED BY <1>1, <3>1, SeenIsKnown, KnownStaysKnown
  <2>3. \A i \in 0 .. 1 : OnlyCards(window'[i])
    BY <1>2, <1>5, VotesStayExpired DEF VotesExpire
  <2> QED BY <1>1, <1>3, <1>4, <2>1, <2>2, <2>3 DEF StraysAreLeft, NothingIsLeft
<1>6. CASE beats' # Settling /\ strays >= Settling - beats
  <2>1. beats' < Settling /\ strays' >= Settling - beats' /\ strays' > 0
    BY <1>1, <1>2, <1>3, <1>6
  <2> QED BY <1>1, <1>2, <1>3, <1>4, <2>1 DEF StraysAreLeft, NothingIsLeft
<1>7. CASE beats' # Settling /\ ConnectionIsSeen
  <2>1. beats' < Settling
    BY <1>1, <1>2, <1>7
  <2>2. /\ pending' = {} /\ dealerchair' = hand' /\ last'.handnumber = hand'
        /\ last'.board => community_cards' > 0
        /\ beats' >= 2 => AllIsKnown'
    BY <1>1, <1>7, ConnectedHeartbeat
  <2>3. beats' >= 1 /\ (beats = 0 => strays = 2)
    BY <1>2, <1>7 DEF ConnectionIsSeen, StraysOfConnection
  <2>4. ConnectionIsSeen'
    BY <1>2, <2>2, <2>3 DEF ConnectionIsSeen
  <2>5. CASE strays' # 0
    <3>1. strays' > 0
      BY <1>1, <1>2, <1>3, <2>1, <2>5
    <3> QED BY <1>1, <1>2, <1>3, <1>4, <2>1, <2>4, <2>5, <3>1
            DEF StraysAreLeft, NothingIsLeft
  <2>6. CASE strays' = 0
    <3>1. _is_handreset_on_this_heartbeat' /\ strays = 1
      BY <1>1, <1>2, <1>3, <2>1, <2>6
    <3>2. beats' >= 2
      BY <1>2, <2>3, <3>1
    <3>3. window' = NoMethods
      BY <3>1, HeartbeatDecides
    <3> HIDE DEF window
    <3> QED BY <1>1, <1>3, <1>4, <2>2, <2>6, <3>2, <3>3, NoMethodsOnlyCards
            DEF StraysAreLeft, NothingIsLeft, window
  <2> QED BY <2>5, <2>6
<1> QED BY <1>1, <1>5, <1>6, <1>7

(***************************************************************************)
(* What a heartbeat sees of a hand that is not announced yet: all values   *)
(* are valid, and what is seen for the first time fires.                   *)
(***************************************************************************)
LEMMA AnnouncingSees ==
    ASSUME ShowsInTime, TypeOK, HandInv, AnnounceInv, unannounced = 1,
           NEW delay \in 0 .. MaxDelay, EvaluateAll(delay)
    PROVE  /\ last' = GetNewSymbolValues /\ hidden = {}
           /\ last'.handnumber # kUndefined /\ last'.dealerchair # kUndefined
           /\ \A m \in {"dealerchair", "handnumber", "cards"} :
                  last'[m] = hand /\ last[m] # hand => m \in NextWindow[0]
<1>1. last' = GetNewSymbolValues
  BY Zenon DEF EvaluateAll
<1>2. /\ last.handnumber # kUndefined /\ last.dealerchair # kUndefined
      /\ beats <= SpreadBeats + 1 /\ hand \in {0, 1}
  BY DEF AnnounceInv, ChangesAreInWindow, TypeOK
<1>3. hidden = {}
  BY <1>2, DelayAssumption DEF HandInv, Seen, TypeOK
<1>4. Shown("handnumber") # kUndefined
  BY <1>2, <1>3 DEF Shown, kUndefined
<1>5. last'.handnumber # kUndefined /\ last'.dealerchair # kUndefined
  BY <1>1, <1>2, <1>4 DEF GetNewSymbolValues, IsValid
<1>6. ASSUME NEW m \in {"dealerchair", "handnumber", "cards"},
             last'[m] = hand, last[m] # hand
      PROVE  m \in NextWindow[0]
  <2>1. GetNewSymbolValues[m] # last[m] /\ GetNewSymbolValues[m] # kUndefined
    BY <1>1, <1>2, <1>6 DEF kUndefined
  <2>2. m # "cards" => last[m] # kUndefined
    BY <1>2
  <2> QED BY <2>1, <2>2, ChangesFire, HeartbeatDecides
<1> QED BY <1>1, <1>3, <1>5, <1>6

(***************************************************************************)
(* The heartbeat after all of the hand was shown for one announces it: if  *)
(* the cards are still new, so is the dealer, and both fire.               *)
(***************************************************************************)
LEMMA LastHeartbeatAnnounces ==
    ASSUME ShowsInTime, TypeOK, HandInv, AnnounceInv, unannounced = 1,
           beats = SpreadBeats + 1,
           NEW delay \in 0 .. MaxDelay, EvaluateAll(delay)
    PROVE  TwoDifferentMethods(NextWindow)
<1>1. /\ userchair_confirmed /\ last.cards # hand /\ last.dealerchair # hand
      /\ "cards" \in pending \/ has_cards
  BY DEF AnnounceInv, ChangesAreInWindow
<1>2. pending = {} /\ dealerchair = hand /\ SpreadBeats \in Nat
  BY DelayAssumption DEF HandInv
<1>3. last' = GetNewSymbolValues /\ hidden = {} /\ hand \in {0, 1}
  BY AnnouncingSees DEF TypeOK
<1>4. last'["dealerchair"] = hand
  BY <1>2, <1>3 DEF GetNewSymbolValues, IsValid, kUndefined
<1>5. last'["cards"] = hand
  BY <1>1, <1>2, <1>3 DEF GetNewSymbolValues, Shown
<1>6. "dealerchair" \in NextWindow[0] /\ "cards" \in NextWindow[0]
  BY <1>1, <1>4, <1>5, AnnouncingSees
<1> QED BY <1>6, TwoAreEnough, HeartbeatDecides

(***************************************************************************)
(* A heartbeat while a hand is not announced yet: it announces the hand,   *)
(* or it sees something of it that the next heartbeats will still find in  *)
(* the window.                                                             *)
(***************************************************************************)
LEMMA AnnouncingHeartbeat ==
    ASSUME ShowsInTime, TypeOK, TypeOK', HandInv, AnnounceInv, unannounced = 1,
           NEW delay \in 0 .. MaxDelay, EvaluateAll(delay)
    PROVE  /\ strays = 0 /\ strays' = 0 /\ beats < Settling
           /\ unannounced' = 1 \/ Announced!Announce
           /\ NothingIsLeft' /\ ChangesAreInWindow'
<1> DEFINE window == _methods_firing_the_last_three_heartbeats
           Told   == {"dealerchair", "handnumber", "cards"}
<1>1. /\ strays = 0 /\ _elapsed = 5 /\ _elapsedhand = 4
      /\ beats <= SpreadBeats + 1 /\ community_cards # 5
      /\ "cards" \in pending \/ has_cards
      /\ \A m \in Told : last[m] = hand => \E i \in 0 .. beats - 1 : m \in window[i]
  BY DEF AnnounceInv, ChangesAreInWindow, TypeOK, kMinimumtimeBetweenTwoHeartbeats
<1>2. /\ beats \in Nat /\ SpreadBeats \in 0 .. 2 /\ delay \in {0, 1}
      /\ Settling = SpreadBeats + 4 /\ Settling' = Settling
      /\ beats' = beats + 1 /\ beats' < Settling /\ _elapsed' = 5
  BY <1>1, HeartbeatClocks DEF TypeOK
<1>3. ~Pauses(delay)
  BY <1>1, <1>2 DEF Pauses
<1>4. /\ _is_handreset_on_this_heartbeat' <=> TwoDifferentMethods(NextWindow)
      /\ _is_handreset_on_this_heartbeat' => window' = NoMethods
      /\ ~_is_handreset_on_this_heartbeat' => window' = NextWindow
      /\ \A i \in 0 .. 1 : NextWindow[i + 1] = window[i]
      /\ NextWindow \in [0 .. 2 -> SUBSET Method]
  BY <1>3, HeartbeatDecides
<1>5. /\ strays' = 0
      /\ _is_handreset_on_this_heartbeat' => unannounced' = 0
      /\ ~_is_handreset_on_this_heartbeat' => unannounced' = 1
  BY <1>1, <1>2, HeartbeatAccounts
<1> HIDE DEF window
<1>6. CASE _is_handreset_on_this_heartbeat'
  <2>1. unannounced' = 0 /\ window' = NoMethods /\ _elapsedhand' = 0
    BY <1>4, <1>5, <1>6, HeartbeatClocks
  <2>2. NothingIsLeft'
    BY <1>2, <2>1, NoMethodsOnlyCards
       DEF NothingIsLeft, window, kMinimumtimeBetweenTwoHeartbeats
  <2>3. ChangesAreInWindow'
    BY <2>1 DEF ChangesAreInWindow
  <2> QED BY <1>1, <1>2, <1>5, <2>1, <2>2, <2>3 DEF Announced!Announce
<1>7. CASE ~_is_handreset_on_this_heartbeat'
  <2>1. /\ unannounced' = 1 /\ window' = NextWindow /\ _elapsedhand' = 4
        /\ ~TwoDifferentMethods(NextWindow)
    BY <1>1, <1>2, <1>4, <1>5, <1>7, HeartbeatClocks
  <2>2. beats <= SpreadBeats /\ beats \in 0 .. 2 /\ beats' \in 1 .. 3
    BY <1>1, <1>2, <2>1, LastHeartbeatAnnounces
  <2>3. ASSUME NEW m \in Told, last'[m] = hand
        PROVE  \E i \in 0 .. beats : m \in NextWindow[i]
    <3>1. CASE last[m] = hand
      <4>1. PICK i \in 0 .. beats - 1 : m \in window[i]
        BY <1>1, <3>1
      <4>2. i \in 0 .. 1 /\ i + 1 \in 0 .. beats /\ m \in NextWindow[i + 1]
        BY <1>4, <2>2, <4>1
      <4> QED BY <4>2
    <3>2. CASE last[m] # hand
      BY <2>2, <2>3, <3>2, AnnouncingSees
    <3> QED BY <3>1, <3>2
  <2>4. /\ UNCHANGED <<hand, pending, community_cards, has_cards>>
        /\ beats' - 1 = beats
    BY <1>2, HeartbeatClocks
  <2>5. ASSUME beats' = SpreadBeats + 1
        PROVE  userchair_confirmed' /\ last'.cards # hand /\ last'.dealerchair # hand
    <3>1. beats = SpreadBeats /\ pending = {}
      <4>1. beats = SpreadBeats
        BY <1>2, <2>5
      <4>2. pending # {} => beats < SpreadBeats
        BY Zenon DEF EvaluateAll
      <4> QED BY <1>2, <4>1, <4>2
    <3>2. hidden = {} /\ last' = GetNewSymbolValues /\ hand \in {0, 1}
      BY AnnouncingSees DEF TypeOK
    <3>3. last'["handnumber"] = hand
      BY <3>1, <3>2 DEF GetNewSymbolValues, Shown, IsValidHandNumber, IsValid, kUndefined
    <3>4. PICK j \in 0 .. beats : "handnumber" \in NextWindow[j]
      BY <2>3, <3>3
    <3>5. ASSUME NEW m \in {"dealerchair", "cards"}, last'[m] = hand PROVE FALSE
      <4>1. PICK i \in 0 .. beats : m \in NextWindow[i]
        BY <2>3, <3>5
      <4>2. i \in 0 .. 2 /\ j \in 0 .. 2
        BY <2>2
      <4> QED BY <1>4, <2>1, <3>4, <4>1, <4>2, TwoAreEnough
    <3>6. userchair_confirmed'
      <4>1. IsValid(Shown("cards")) /\ ~RiverMayBeShown
        BY <1>1, <3>1, <3>2 DEF IsValid, Shown, RiverMayBeShown, kUndefined
      <4>2. CalculateUserChair
        BY Zenon DEF EvaluateAll, UpdateSymbolEngines
      <4> QED BY <4>1, <4>2, Zenon DEF CalculateUserChair
    <3> QED BY <3>5, <3>6
  <2>6. last'.handnumber # kUndefined /\ last'.dealerchair # kUndefined
    BY AnnouncingSees
  <2>7. ChangesAreInWindow'
    BY <1>1, <1>2, <1>5, <2>1, <2>2, <2>3, <2>4, <2>5, <2>6
       DEF ChangesAreInWindow, window, kMinimumtimeBetweenTwoHeartbeats
  <2> QED BY <1>1, <1>2, <1>5, <2>1, <2>7 DEF NothingIsLeft
<1> QED BY <1>6, <1>7

(***************************************************************************)
(* Every heartbeat keeps the invariant and changes the account as Hands    *)
(* allows it.                                                              *)
(***************************************************************************)
LEMMA HeartbeatKeepsInv ==
    ASSUME ShowsInTime, TypeOK, TypeOK', HandInv, AnnounceInv,
           NEW delay \in 0 .. MaxDelay, EvaluateAll(delay)
    PROVE  AnnounceInv' /\ [Announced!Next]_account
<1>1. /\ beats \in Nat /\ beats <= Settling /\ Settling \in Nat /\ delay \in {0, 1}
      /\ beats' = IF beats < Settling THEN beats + 1 ELSE Settling
      /\ SpreadBeats \in 0 .. 2 /\ Seen = SpreadBeats + 2 /\ Settling = Seen + 2
      /\ Seen' = Seen /\ Settling' = Settling
      /\ UNCHANGED <<hand, pending, community_cards, has_cards, hidden>>
  BY HeartbeatClocks DEF TypeOK
<1>2. /\ unannounced' \in {0, 1} /\ StraysAreLeft' /\ NothingIsLeft' /\ ChangesAreInWindow'
      /\ _is_handreset_on_this_heartbeat' => beats < Settling
      /\ [Announced!Next]_account
  <2>1. CASE strays # 0
    BY <2>1, StrayHeartbeat DEF ChangesAreInWindow, Announced!Next,
          Announced!Stray, Announced!Settle, account
  <2>2. CASE strays = 0 /\ unannounced = 0
    BY <2>2, QuietHeartbeat DEF ChangesAreInWindow, StraysAreLeft, account
  <2>3. CASE unannounced = 1
    BY <2>3, AnnouncingHeartbeat
       DEF StraysAreLeft, Announced!Next, Announced!Announce, account
  <2> QED BY <2>1, <2>2, <2>3 DEF AnnounceInv
<1>3. SeesTheHand'
  <2>1. SeesTheHand /\ (beats' > SpreadBeats => pending = {})
    <3>1. pending # {} => beats < SpreadBeats
      BY Zenon DEF EvaluateAll
    <3> QED BY <1>1, <3>1 DEF AnnounceInv
  <2>2. pending = {} => /\ last'.board <=> community_cards > 0
                        /\ last'.cards \in {hand, kUndefined}
    BY <2>1, HeartbeatSees
  <2>3. beats' >= Seen => beats' > SpreadBeats
    BY <1>1
  <2> QED BY <1>1, <2>1, <2>2, <2>3 DEF SeesTheHand
<1>4. ClocksAgree'
  <2>1. /\ _elapsed \in 0 .. 5 /\ age \in Nat /\ _elapsedhand \in 0 .. 4
        /\ HandSeconds \in Nat
        /\ age <= _elapsed \/ _elapsed = 5
        /\ age <= beats \/ beats = Settling
        /\ _elapsedhand = 4 \/ age <= _elapsedhand + Settling
    BY DelayAssumption
       DEF AnnounceInv, ClocksAgree, TypeOK, kMinimumtimeBetweenTwoHeartbeats
  <2>2. /\ _elapsed' = IF _elapsed + delay < 5 THEN _elapsed + delay ELSE 5
        /\ age' = IF age + delay < HandSeconds THEN age + delay ELSE HandSeconds
        /\ _elapsedhand' = IF _is_handreset_on_this_heartbeat' THEN 0
                           ELSE IF _elapsedhand + delay < 4 THEN _elapsedhand + delay
                           ELSE 4
    BY HeartbeatClocks
  <2>3. age' <= _elapsed' \/ _elapsed' = 5
    BY <1>1, <2>1, <2>2
  <2>4. age' <= beats' \/ beats' = Settling
    BY <1>1, <2>1, <2>2
  <2>5. _elapsedhand' = 4 \/ age' <= _elapsedhand' + Settling
    <3>1. CASE _is_handreset_on_this_heartbeat'
      BY <1>1, <1>2, <2>1, <2>2, <3>1
    <3>2. CASE ~_is_handreset_on_this_heartbeat'
      BY <1>1, <2>1, <2>2, <3>2
    <3> QED BY <3>1, <3>2
  <2> QED BY <1>1, <2>3, <2>4, <2>5 DEF ClocksAgree, kMinimumtimeBetweenTwoHeartbeats
<1>5. VotesExpire'
  BY VotesStayExpired
<1> QED BY <1>2, <1>3, <1>4, <1>5 DEF AnnounceInv

(***************************************************************************)
(* What every new hand and every connection start with.                    *)
(***************************************************************************)
LEMMA NewHandStarts ==
    ASSUME ShowsInTime, hidden' = {}, age' = 0, beats' = 0,
           TypeOK'
    PROVE  ClocksAgree' /\ SeesTheHand' /\ VotesExpire' /\ Settling' \in 4 .. 6
<1>1. Seen' \in 2 .. 4 /\ Settling' \in 4 .. 6 /\ SpreadBeats \in Nat
  BY DelayAssumption DEF ShowsInTime, Seen, Settling
<1>2. ClocksAgree'
  <2>1. _elapsed' \in 0 .. 5 /\ _elapsedhand' \in 0 .. 4
    BY DEF TypeOK, kMinimumtimeBetweenTwoHeartbeats
  <2>2. age' <= _elapsed' /\ age' <= beats'
    BY <2>1
  <2>3. age' <= _elapsedhand' + Settling'
    <3>1. ASSUME NEW h \in 0 .. 4, NEW s \in 4 .. 6 PROVE 0 <= h + s
      OBVIOUS
    <3> QED BY <1>1, <2>1, <3>1
  <2> QED BY <2>2, <2>3 DEF ClocksAgree
<1>3. SeesTheHand'
  BY <1>1 DEF SeesTheHand
<1>4. VotesExpire'
  BY <1>1 DEF VotesExpire
<1> QED BY <1>1, <1>2, <1>3, <1>4

(***************************************************************************)
(* A hand dealt in time is dealt when the last one is over: it was         *)
(* announced, the pause is over and all that the detector knows is about   *)
(* the last hand.                                                          *)
(***************************************************************************)
LEMMA DealInTimeKeepsInv ==
    ASSUME ShowsInTime, TypeOK, TypeOK', HandInv, AnnounceInv,
           NEW now \in SUBSET Method, DealInTime(now)
    PROVE  AnnounceInv' /\ Announced!Deal
<1>1. /\ age = HandSeconds /\ HandSeconds >= Settling + 4 /\ SpreadBeats \in 0 .. 2
      /\ Seen = SpreadBeats + 2 /\ Settling = SpreadBeats + 4
      /\ beats \in 0 .. Settling /\ _elapsed \in 0 .. 5 /\ _elapsedhand \in 0 .. 4
      /\ HandSeconds \in Nat
  BY DelayAssumption DEF DealInTime, ShowsInTime, Seen, Settling, TypeOK,
                         kMinimumtimeBetweenTwoHeartbeats
<1>2. /\ age <= _elapsed \/ _elapsed = 5
      /\ age <= beats \/ beats = Settling
      /\ _elapsedhand = 4 \/ age <= _elapsedhand + Settling
  BY DEF AnnounceInv, ClocksAgree, kMinimumtimeBetweenTwoHeartbeats
<1>3. _elapsed = 5 /\ beats = Settling /\ _elapsedhand = 4
  BY <1>1, <1>2
<1>4. unannounced = 0 /\ strays = 0
  BY <1>1, <1>3 DEF AnnounceInv, ChangesAreInWindow, StraysAreLeft
<1>5. /\ hand' = 1 - hand /\ age' = 0 /\ beats' = 0 /\ hidden' = {}
      /\ community_cards' = 0 /\ ("cards" \in pending' \/ has_cards')
      /\ UNCHANGED <<_elapsed, _elapsedhand, last>>
  BY DEF DealInTime, Deal, detector, Method
<1>6. unannounced' = 1 /\ strays' = 0
  BY <1>4 DEF DealInTime
<1>7. /\ last.dealerchair = hand /\ last.handnumber = hand
      /\ last.cards \in {hand, kUndefined} /\ hand \in {0, 1}
  BY <1>1, <1>3 DEF HandInv, KnowsTheHand, AnnounceInv, SeesTheHand, TypeOK
<1>8. \A m \in {"dealerchair", "handnumber", "cards"} : last'[m] # hand'
  BY <1>5, <1>7 DEF kUndefined
<1>9. ClocksAgree' /\ SeesTheHand' /\ VotesExpire'
  BY <1>5, NewHandStarts
<1>10. ChangesAreInWindow'
  BY <1>1, <1>3, <1>5, <1>6, <1>7, <1>8
     DEF ChangesAreInWindow, kMinimumtimeBetweenTwoHeartbeats, kUndefined
<1> QED BY <1>4, <1>6, <1>9, <1>10
        DEF AnnounceInv, StraysAreLeft, NothingIsLeft, Announced!Deal

(***************************************************************************)
(* Nothing is promised of a hand that is dealt too early.                  *)
(***************************************************************************)
LEMMA DealEarlyKeepsInv ==
    ASSUME ShowsInTime, TypeOK', NEW now \in SUBSET Method, DealEarly(now)
    PROVE  AnnounceInv' /\ Announced!DealEarly
<1>1. /\ age' = 0 /\ beats' = 0 /\ hidden' = {}
      /\ unannounced' = 0 /\ strays' = Settling
  BY DEF DealEarly, Deal, StraysOfEarlyHand
<1>2. /\ ClocksAgree' /\ SeesTheHand' /\ VotesExpire' /\ Settling' \in 4 .. 6
      /\ Settling' = Settling
  BY <1>1, NewHandStarts DEF Settling
<1> QED BY <1>1, <1>2 DEF AnnounceInv, StraysAreLeft, NothingIsLeft,
           ChangesAreInWindow, Announced!DealEarly, StraysOfEarlyHand

(***************************************************************************)
(* A connection starts with clocks at zero and two stray handresets.       *)
(***************************************************************************)
LEMMA ConnectKeepsInv ==
    ASSUME ShowsInTime, TypeOK', Connect PROVE AnnounceInv' /\ Announced!Connect
<1>1. /\ pending' = {} /\ hidden' = {} /\ age' = 0 /\ beats' = 0
      /\ unannounced' = 0 /\ strays' = StraysOfConnection
  BY DEF Connect
<1>2. ClocksAgree' /\ SeesTheHand' /\ VotesExpire' /\ Settling' \in 4 .. 6
  BY <1>1, NewHandStarts
<1>3. ConnectionIsSeen'
  BY <1>1 DEF ConnectionIsSeen, StraysOfConnection
<1> QED BY <1>1, <1>2, <1>3 DEF AnnounceInv, StraysAreLeft, NothingIsLeft,
           ChangesAreInWindow, Announced!Connect, StraysOfConnection

(***************************************************************************)
(* The casino and the popups change nothing of what the detector keeps.    *)
(***************************************************************************)
LEMMA CasinoKeepsInv ==
    ASSUME ShowsInTime, TypeOK, AnnounceInv,
           UNCHANGED <<hand, clocks, symbols, detector, account>>,
           pending' \subseteq pending, community_cards > 0 => community_cards' > 0,
           community_cards' = 5 => community_cards = 5 \/ beats >= Seen,
           "cards" \in pending \/ has_cards =>
               "cards" \in pending' \/ has_cards' \/ beats >= Seen,
           "board" \notin hidden'
    PROVE  AnnounceInv'
<1>1. /\ UNCHANGED <<hand, age, beats, _elapsed, _elapsedhand, dealerchair,
                     userchair_confirmed, last, unannounced, strays,
                     _methods_firing_the_last_three_heartbeats>>
  BY DEF clocks, symbols, detector, account
<1>2. /\ Seen' = Seen /\ Settling' = Settling /\ Seen = SpreadBeats + 2
      /\ SpreadBeats \in Nat /\ beats \in Nat
  BY DelayAssumption DEF Seen, Settling, TypeOK
<1>3. ClocksAgree'
  BY <1>1, <1>2 DEF AnnounceInv, ClocksAgree
<1>4. SeesTheHand' /\ VotesExpire'
  BY <1>1, <1>2 DEF AnnounceInv, SeesTheHand, VotesExpire
<1>5. AllIsKnown => AllIsKnown'
  BY <1>1 DEF AllIsKnown
<1>6. NothingIsLeft'
  BY <1>1, <1>5 DEF AnnounceInv, NothingIsLeft
<1>7. StraysAreLeft'
  <2>1. ConnectionIsSeen => ConnectionIsSeen'
    BY <1>1, <1>5 DEF ConnectionIsSeen
  <2> QED BY <1>1, <1>2, <2>1 DEF AnnounceInv, StraysAreLeft
<1>8. ChangesAreInWindow'
  <2>1. beats <= SpreadBeats + 1 => ~(beats >= Seen)
    BY <1>2
  <2> QED BY <1>1, <2>1 DEF AnnounceInv, ChangesAreInWindow
<1> QED BY <1>1, <1>3, <1>4, <1>6, <1>7, <1>8 DEF AnnounceInv

(***************************************************************************)
(* Every step keeps the invariant and maps to a step of Hands or to none.  *)
(***************************************************************************)
LEMMA AnnounceStep ==
    ASSUME ShowsInTime, TypeOK, TypeOK', HandInv, AnnounceInv, [Next]_vars
    PROVE  AnnounceInv' /\ [Announced!Next]_account
<1> USE DEF Announced!Next
<1>1. ASSUME NEW delay \in 0 .. MaxDelay, EvaluateAll(delay)
      PROVE  AnnounceInv' /\ [Announced!Next]_account
  BY <1>1, HeartbeatKeepsInv
<1>2. ASSUME Connect PROVE AnnounceInv' /\ [Announced!Next]_account
  BY <1>2, ConnectKeepsInv
<1>3. ASSUME NEW now \in SUBSET Method, DealInTime(now) \/ DealEarly(now)
      PROVE  AnnounceInv' /\ [Announced!Next]_account
  BY <1>3, DealInTimeKeepsInv, DealEarlyKeepsInv
<1>4. "board" \notin hidden
  BY DEF AnnounceInv, SeesTheHand
<1>5. ASSUME NEW thing \in Method, ShowChange(thing)
      PROVE  AnnounceInv' /\ [Announced!Next]_account
  BY <1>4, <1>5, CasinoKeepsInv DEF ShowChange
<1>6. ASSUME DealBoard PROVE AnnounceInv' /\ [Announced!Next]_account
  BY <1>4, <1>6, CasinoKeepsInv DEF DealBoard
<1>7. ASSUME Fold PROVE AnnounceInv' /\ [Announced!Next]_account
  BY <1>4, <1>7, CasinoKeepsInv DEF Fold
<1>8. ASSUME NEW things \in Popup, Hide(things)
      PROVE  AnnounceInv' /\ [Announced!Next]_account
  BY <1>8, CasinoKeepsInv DEF Hide, ShowsInTime
<1>9. ASSUME Unhide PROVE AnnounceInv' /\ [Announced!Next]_account
  BY <1>9, CasinoKeepsInv DEF Unhide
<1>10. CASE UNCHANGED vars
  BY <1>4, <1>10, CasinoKeepsInv DEF vars, casino
<1> QED BY <1>1, <1>2, <1>3, <1>5, <1>6, <1>7, <1>8, <1>9, <1>10
        DEF Next, Heartbeat

(***************************************************************************)
(* The first table starts like every other connection.                     *)
(***************************************************************************)
LEMMA AnnounceInit == ASSUME ShowsInTime, Init PROVE AnnounceInv /\ Announced!Init
<1>1. /\ SpreadBeats \in 0 .. 2 /\ Seen = SpreadBeats + 2 /\ Settling = SpreadBeats + 4
  BY DelayAssumption DEF ShowsInTime, Seen, Settling
<1>2. /\ pending = {} /\ hidden = {} /\ age = 0 /\ beats = 0
      /\ unannounced = 0 /\ strays = StraysOfConnection /\ StraysOfConnection = 2
      /\ _elapsed = 0 /\ _elapsedhand = 0
  BY DEF Init, StraysOfConnection
<1>3. ClocksAgree /\ SeesTheHand /\ VotesExpire
  BY <1>1, <1>2 DEF ClocksAgree, SeesTheHand, VotesExpire
<1>4. ConnectionIsSeen
  BY <1>2 DEF ConnectionIsSeen
<1> QED BY <1>1, <1>2, <1>3, <1>4 DEF AnnounceInv, StraysAreLeft, NothingIsLeft,
           ChangesAreInWindow, Announced!Init

(***************************************************************************)
(* The invariant of the announcements holds.                               *)
(***************************************************************************)
THEOREM AnnounceInvHolds == ShowsInTime => (Spec => []AnnounceInv)
<1> SUFFICES ASSUME ShowsInTime PROVE Spec => []AnnounceInv
  OBVIOUS
<1>1. Init => AnnounceInv
  BY AnnounceInit
<1>2. TypeOK /\ TypeOK' /\ HandInv /\ AnnounceInv /\ [Next]_vars => AnnounceInv'
  BY AnnounceStep
<1>3. Spec => []HandInv
  BY InvariantHolds DEF ShowsInTime
<1> QED BY <1>1, <1>2, <1>3, TypeCorrect, PTL DEF Spec

(***************************************************************************)
(* No hand is lost, none is announced twice and none too late: what the    *)
(* detector announces is in step with what the casino deals, for every     *)
(* order in which a hand gets shown and seen, whenever the chair of the    *)
(* user gets known, and for all popups that leave the board visible and    *)
(* mislead nobody; a connection causes two stray handresets at most.       *)
(***************************************************************************)
THEOREM HandsAreAnnouncedOnce == ShowsInTime => (Spec => OneHandresetPerHand)
<1> SUFFICES ASSUME ShowsInTime PROVE Spec => OneHandresetPerHand
  OBVIOUS
<1>1. Init => Announced!Init
  BY AnnounceInit
<1>2. TypeOK /\ TypeOK' /\ HandInv /\ AnnounceInv /\ [Next]_vars
      => [Announced!Next]_<<unannounced, strays>>
  BY AnnounceStep DEF account
<1>3. (Spec => []HandInv) /\ (Spec => []AnnounceInv)
  BY InvariantHolds, AnnounceInvHolds DEF ShowsInTime
<1> QED BY <1>1, <1>2, <1>3, TypeCorrect, PTL
        DEF Spec, OneHandresetPerHand, Announced!Spec

(***************************************************************************)
(* A hand is announced by the heartbeat that sees all of it.               *)
(***************************************************************************)
THEOREM HandsAreAnnouncedWhenSeen == ShowsInTime => (Spec => []AnnouncedWhenSeen)
<1> SUFFICES ASSUME ShowsInTime PROVE Spec => []AnnouncedWhenSeen
  OBVIOUS
<1>1. TypeOK /\ AnnounceInv => AnnouncedWhenSeen
  BY DelayAssumption
     DEF AnnounceInv, ChangesAreInWindow, AnnouncedWhenSeen, Seen, TypeOK
<1>2. Spec => []AnnounceInv
  BY AnnounceInvHolds
<1> QED BY <1>1, <1>2, TypeCorrect, PTL
=============================================================================
