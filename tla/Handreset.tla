----------------------------- MODULE Handreset -----------------------------
(***************************************************************************)
(* CHandresetDetector: on every heartbeat the detector compares what the   *)
(* table shows with what it showed a heartbeat ago.  A new hand is         *)
(* announced if two different things changed within three heartbeats,      *)
(* unless the last one was announced less than four seconds ago.  The      *)
(* casino shows the changes of a hand one after the other, a popup may     *)
(* hide a part of the table for some time, and the dealer and the chair of *)
(* the user reach the detector through symbol engines, a heartbeat late.   *)
(*                                                                         *)
(* Of the 13 methods of the code four stand for all: the dealer and the    *)
(* hand number, of which the last valid value is kept, the cards of the    *)
(* user, which fire when they get known, and the board, which fires when   *)
(* it gets empty.                                                          *)
(***************************************************************************)
EXTENDS Integers, FiniteSets

CONSTANTS
    MaxDelay,    \* seconds between two heartbeats
    SpreadBeats, \* heartbeats until the casino shows all of a new hand
    HandSeconds, \* seconds after which the next hand is not an early one
    Popup,       \* the sets of things a popup may hide
    MisleadingSmallBlind, \* the chair right of a bet as high as the small
                          \* blind need not be the dealer's
    DigitsConfigured      \* the table map limits the length of hand numbers

Method == {"dealerchair", "handnumber", "cards", "board"}

ASSUME DelayAssumption ==
    /\ MaxDelay \in Nat
    /\ SpreadBeats \in Nat
    /\ HandSeconds \in Nat
    /\ Popup \subseteq SUBSET Method
    /\ MisleadingSmallBlind \in BOOLEAN
    /\ DigitsConfigured \in BOOLEAN

VARIABLES
    hand,        \* the hand that is played; 0 and 1 in turn
    pending,     \* the things that still show the previous hand
    community_cards, \* how many there are in this hand
    has_cards,   \* there are cards of the user on the table
    hidden,      \* the things a popup hides
    age,         \* seconds since the hand was dealt or the table connected
    beats,       \* heartbeats since then
    _elapsed,    \* elapsed()
    _elapsedhand,  \* elapsedhand()
    dealerchair, \* _dealerchair of the symbol engine
    userchair_confirmed,
    last,        \* the values of the last heartbeat
    _methods_firing_the_last_three_heartbeats,
    _is_handreset_on_this_heartbeat,
    unannounced, \* the hands that were dealt in time and have not led to a
                 \* handreset yet
    strays       \* the handresets without such a hand that are still left to
                 \* this connection or to this early hand

casino == <<hand, pending, community_cards, has_cards, hidden>>
clocks == <<age, beats, _elapsed, _elapsedhand>>
symbols == <<dealerchair, userchair_confirmed>>
detector == <<last, _methods_firing_the_last_three_heartbeats,
              _is_handreset_on_this_heartbeat>>
account == <<unannounced, strays>>
vars == <<casino, clocks, symbols, detector, account>>

kMinimumtimeBetweenTwoHeartbeats == 4

\* No dealer, an empty hand number, unknown cards.
kUndefined == -1

Value == {0, 1, kUndefined}

\* A clock that is not read beyond its bound.
UpTo(bound, n) == IF n < bound THEN n ELSE bound

\* The heartbeats after which the detector has seen all of a hand, and those
\* after which nothing of that is left in its window.
Seen == SpreadBeats + 2
Settling == SpreadBeats + 4

\* A connection causes at most two stray handresets; an early hand may cause
\* one on any of its heartbeats until it has settled.
StraysOfConnection == 2
StraysOfEarlyHand == Settling

TypeOK ==
    /\ hand \in {0, 1}
    /\ pending \subseteq Method
    /\ community_cards \in {0, 3, 5}
    /\ has_cards \in BOOLEAN
    /\ hidden \subseteq Method
    /\ age \in 0 .. HandSeconds
    /\ beats \in 0 .. Settling
    /\ _elapsed \in 0 .. kMinimumtimeBetweenTwoHeartbeats + 1
    /\ _elapsedhand \in 0 .. kMinimumtimeBetweenTwoHeartbeats
    /\ dealerchair \in Value
    /\ userchair_confirmed \in BOOLEAN
    /\ last \in [dealerchair : Value, handnumber : Value, cards : Value,
                 board : BOOLEAN]
    /\ _methods_firing_the_last_three_heartbeats \in [0 .. 2 -> SUBSET Method]
    /\ _is_handreset_on_this_heartbeat \in BOOLEAN
    /\ unannounced \in Int
    /\ strays \in Int

-----------------------------------------------------------------------------
(* What the scraper sees.                                                  *)

Shown(thing) ==
    IF thing \in hidden \/ (thing = "cards" /\ ~has_cards) THEN kUndefined
    ELSE IF thing \in pending THEN 1 - hand ELSE hand

\* The community cards of the previous hand are pending if there were any.
BoardShown ==
    "board" \notin hidden /\ (community_cards > 0 \/ "board" \in pending)

\* Of this hand or of the previous one, which may have been at the river.
RiverMayBeShown ==
    "board" \notin hidden /\ (community_cards = 5 \/ "board" \in pending)

-----------------------------------------------------------------------------
(* OnNewHeartbeat.                                                         *)

IsValid(v) == v # kUndefined

\* Without limits for its length every hand number is valid, also none.
IsValidHandNumber(v) == DigitsConfigured => IsValid(v)

\* Occluded values become part of the comparison.
TakesAnyValue ==
    [dealerchair |-> dealerchair,
     handnumber  |-> Shown("handnumber"),
     cards       |-> IF userchair_confirmed THEN Shown("cards") ELSE kUndefined,
     board       |-> BoardShown]

\* Invalid dealers and hand numbers get skipped.
GetNewSymbolValues ==
    [dealerchair |-> IF IsValid(dealerchair) THEN dealerchair
                                             ELSE last.dealerchair,
     handnumber  |-> IF IsValidHandNumber(Shown("handnumber"))
                     THEN Shown("handnumber") ELSE last.handnumber,
     cards       |-> IF userchair_confirmed THEN Shown("cards") ELSE kUndefined,
     board       |-> BoardShown]

FiringHandresetMethods(new) ==
    {m \in {"dealerchair"} :
         new[m] # last[m] /\ IsValid(new[m]) /\ IsValid(last[m])}
    \union {m \in {"handnumber"} :
         new[m] # last[m] /\ IsValidHandNumber(new[m]) /\ IsValidHandNumber(last[m])}
    \union {m \in {"cards"} : IsValid(new[m]) /\ new[m] # last[m]}
    \union {m \in {"board"} : last[m] /\ ~new[m]}

NoMethods == [i \in 0 .. 2 |-> {}]

\* A shift that writes past the end of the array.
ShiftInPastTheEnd(firing) ==
    [i \in 0 .. 3 |-> IF i = 0 THEN firing
                      ELSE _methods_firing_the_last_three_heartbeats[i - 1]]

ShiftIn(firing) ==
    [i \in 0 .. 2 |-> IF i = 0 THEN firing
                      ELSE _methods_firing_the_last_three_heartbeats[i - 1]]

TwoDifferentMethods(seen) == Cardinality(UNION {seen[i] : i \in 0 .. 2}) >= 2

TooShortlyAfterHandreset(elapsedhand, elapsed) ==
    /\ elapsedhand < kMinimumtimeBetweenTwoHeartbeats
    /\ elapsed > kMinimumtimeBetweenTwoHeartbeats

\* A detector that does not clear what has fired.
CalculateWithoutClearing(seen, elapsedhand, elapsed) ==
    /\ _is_handreset_on_this_heartbeat' =
           (~TooShortlyAfterHandreset(elapsedhand, elapsed) /\ TwoDifferentMethods(seen))
    /\ _methods_firing_the_last_three_heartbeats' = seen

\* A detector that asks for two methods on one heartbeat.
CalculateFromOneHeartbeat(seen, elapsedhand, elapsed) ==
    LET is_handreset == /\ ~TooShortlyAfterHandreset(elapsedhand, elapsed)
                        /\ Cardinality(seen[0]) >= 2
    IN  /\ _is_handreset_on_this_heartbeat' = is_handreset
        /\ _methods_firing_the_last_three_heartbeats' = NoMethods

CalculateIsHandreset(seen, elapsedhand, elapsed) ==
    LET too_shortly  == TooShortlyAfterHandreset(elapsedhand, elapsed)
        is_handreset == ~too_shortly /\ TwoDifferentMethods(seen)
    IN  /\ _is_handreset_on_this_heartbeat' = is_handreset
        /\ _methods_firing_the_last_three_heartbeats' =
               IF too_shortly \/ is_handreset THEN NoMethods ELSE seen

\* The chairs right of those who have bet what the small blind is.
RightHandActiveChairs ==
    {hand} \union (IF MisleadingSmallBlind THEN {1 - hand} ELSE {})

\* A dealer that is not to be seen is looked for next to the small blind; if
\* there is no small blind either, the dealer is kept.
UpdateDealerchair ==
    IF IsValid(Shown("dealerchair"))
    THEN dealerchair' = Shown("dealerchair")
    ELSE dealerchair' \in {dealerchair} \union RightHandActiveChairs

\* Cards at the river are taken for a showdown unless there are buttons.
CalculateUserChair ==
    \E IsNotShowdown \in BOOLEAN :
        /\ ~RiverMayBeShown => IsNotShowdown
        /\ userchair_confirmed' =
               (userchair_confirmed \/ (IsValid(Shown("cards")) /\ IsNotShowdown))

\* The symbol engines come after the detector.
UpdateSymbolEngines(elapsedhand) ==
    /\ _elapsedhand' = IF _is_handreset_on_this_heartbeat' THEN 0 ELSE elapsedhand
    /\ UpdateDealerchair
    /\ CalculateUserChair

\* A handreset announces the hand that waits for it, or is a stray one; those
\* that have not come when the hand has settled come no more.
AccountForHandreset ==
    LET is_stray == _is_handreset_on_this_heartbeat' /\ unannounced = 0
        left     == IF is_stray THEN strays - 1 ELSE strays
    IN  /\ unannounced' = IF _is_handreset_on_this_heartbeat' THEN 0 ELSE unannounced
        /\ strays' = IF beats' = Settling /\ left > 0 THEN 0 ELSE left

\* A heartbeat, some seconds after the previous one: EvaluateAll() asks the
\* detector first and then updates the symbol engines.
EvaluateAll(delay) ==
    /\ pending # {} => beats < SpreadBeats
    /\ LET new         == GetNewSymbolValues
           elapsed     == UpTo(kMinimumtimeBetweenTwoHeartbeats + 1, _elapsed + delay)
           elapsedhand == UpTo(kMinimumtimeBetweenTwoHeartbeats, _elapsedhand + delay)
       IN  /\ CalculateIsHandreset(ShiftIn(FiringHandresetMethods(new)),
                                   elapsedhand, elapsed)
           /\ last' = new
           /\ UpdateSymbolEngines(elapsedhand)
           /\ _elapsed' = elapsed
    /\ age' = UpTo(HandSeconds, age + delay)
    /\ beats' = UpTo(Settling, beats + 1)
    /\ AccountForHandreset
    /\ UNCHANGED casino

-----------------------------------------------------------------------------
(* UpdateOnConnection: the clocks start again and the symbol engines forget *)
(* the table, the detector does not.                                       *)

UpdateOnConnection ==
    /\ _elapsed' = 0
    /\ _elapsedhand' = 0
    /\ dealerchair' = kUndefined
    /\ userchair_confirmed' = FALSE

\* The user joins another table in the middle of a hand, maybe without cards.
Connect ==
    /\ UpdateOnConnection
    /\ hand' \in {0, 1}
    /\ community_cards' \in {0, 3, 5}
    /\ has_cards' \in BOOLEAN
    /\ pending' = {}
    /\ hidden' = {}
    /\ age' = 0
    /\ beats' = 0
    /\ unannounced' = 0
    /\ strays' = StraysOfConnection
    /\ UNCHANGED detector

-----------------------------------------------------------------------------
(* The casino.                                                             *)

\* A new hand begins to show up: some of it at once, the rest is pending.
\* The user gets cards in it.
Deal(now) ==
    /\ pending = {}
    /\ hidden = {}
    /\ now # {}
    /\ hand' = 1 - hand
    /\ pending' = {m \in Method \ now : m = "board" => community_cards > 0}
    /\ community_cards' = 0
    /\ has_cards' = (has_cards \/ "cards" \in now)
    /\ age' = 0
    /\ beats' = 0
    /\ UNCHANGED <<hidden, _elapsed, _elapsedhand, symbols, detector>>

DealInTime(now) ==
    /\ age = HandSeconds
    /\ Deal(now)
    /\ unannounced' = unannounced + 1
    /\ UNCHANGED strays

\* A hand soon after the last one, or soon after the connection.
DealEarly(now) ==
    /\ age < HandSeconds
    /\ Deal(now)
    /\ unannounced' = 0
    /\ strays' = StraysOfEarlyHand

ShowChange(thing) ==
    /\ thing \in pending
    /\ pending' = pending \ {thing}
    /\ has_cards' = (has_cards \/ thing = "cards")
    /\ UNCHANGED <<hand, community_cards, hidden, clocks, symbols, detector, account>>

\* The flop comes when all of the hand is shown, the river much later.
DealBoard ==
    /\ pending = {}
    /\ \/ community_cards = 0 /\ community_cards' = 3
       \/ community_cards = 3 /\ beats >= Seen /\ community_cards' = 5
    /\ UNCHANGED <<hand, pending, has_cards, hidden, clocks, symbols, detector, account>>

\* The cards of the user disappear.
Fold ==
    /\ has_cards
    /\ beats >= Seen
    /\ has_cards' = FALSE
    /\ UNCHANGED <<hand, pending, community_cards, hidden, clocks, symbols, detector,
                   account>>

\* A popup appears and disappears while the hand is played.
Hide(things) ==
    /\ hidden = {}
    /\ beats >= Seen
    /\ hidden' = things
    /\ UNCHANGED <<hand, pending, community_cards, has_cards, clocks, symbols, detector,
                   account>>

Unhide ==
    /\ hidden # {}
    /\ hidden' = {}
    /\ UNCHANGED <<hand, pending, community_cards, has_cards, clocks, symbols, detector,
                   account>>

-----------------------------------------------------------------------------
Init ==
    /\ hand = 0
    /\ pending = {}
    /\ community_cards \in {0, 3, 5}
    /\ has_cards \in BOOLEAN
    /\ hidden = {}
    /\ age = 0
    /\ beats = 0
    /\ _elapsed = 0
    /\ _elapsedhand = 0
    /\ dealerchair = kUndefined
    /\ userchair_confirmed = FALSE
    /\ last = [dealerchair |-> kUndefined, handnumber |-> kUndefined, cards |-> kUndefined,
               board |-> FALSE]
    /\ _methods_firing_the_last_three_heartbeats \in [0 .. 2 -> {{}, Method}]
    /\ _is_handreset_on_this_heartbeat = FALSE
    /\ unannounced = 0
    /\ strays = StraysOfConnection

Heartbeat == \E delay \in 0 .. MaxDelay : EvaluateAll(delay)

Next ==
    \/ Heartbeat
    \/ Connect
    \/ \E now \in SUBSET Method : DealInTime(now) \/ DealEarly(now)
    \/ \E thing \in Method : ShowChange(thing)
    \/ DealBoard
    \/ Fold
    \/ \E things \in Popup : Hide(things)
    \/ Unhide

Spec == Init /\ [][Next]_vars

-----------------------------------------------------------------------------
(* Properties.                                                             *)

\* What is updated on a handreset is updated once per hand: no hand is missed,
\* none is announced twice, and no handreset comes in the middle of a hand,
\* although the changes of a hand are seen on several heartbeats and the chair
\* of the user may not be known yet.  Only a new connection causes handresets
\* without a hand, at most two, and a hand that is dealt too early may cause
\* some before it has settled.
Announced == INSTANCE Hands
OneHandresetPerHand == Announced!Spec

\* A hand does not wait for a later one to make up for what was missed: on the
\* heartbeat by which all of it has been seen it is announced, also if this is
\* the heartbeat that finds the chair of the user.
AnnouncedWhenSeen == unannounced > 0 => beats < Seen

\* Once all of a hand was shown the detector compares with this hand: a popup
\* that hides the dealer or the hand number does not make it forget them, as
\* long as no other bet looks like the small blind.
KnowsTheHand ==
    beats >= Seen => last.dealerchair = hand /\ last.handnumber = hand
=============================================================================
