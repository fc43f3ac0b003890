-------------------------- MODULE SharedMem_proofs --------------------------
(***************************************************************************)
(* Lemmas about what an instance reads from the shared memory.             *)
(***************************************************************************)
EXTENDS SharedMem, FiniteSetTheorems, WellFoundedInduction, TLAPS

(***************************************************************************)
(* The lowest slot of a non-empty set of slots belongs to the set: the     *)
(* session counter never hands out a slot that is not free.                *)
(***************************************************************************)
LEMMA LowestIsMember ==
    ASSUME NEW S \in SUBSET Nat, S # {}
    PROVE  Lowest(S) \in S
<1>1. PICK x \in S : \A y \in S : <<y, x>> \notin OpToRel(<, Nat)
  BY NatLessThanWellFounded, WFMin, Zenon
<1>2. \A y \in S : ~(y < x)
  BY <1>1, Zenon DEF OpToRel
<1>3. \A y \in S : x <= y
  BY <1>2
<1> QED BY <1>3 DEF Lowest

(***************************************************************************)
(* The lowest slot of a set is below every slot of the set: what instances *)
(* compare their session ID with before they feel responsible.             *)
(***************************************************************************)
LEMMA LowestIsLowest ==
    ASSUME NEW S \in SUBSET Nat, NEW r \in S
    PROVE  Lowest(S) <= r
<1>1. PICK x \in S : \A y \in S : <<y, x>> \notin OpToRel(<, Nat)
  BY NatLessThanWellFounded, WFMin, Zenon
<1>2. \A y \in S : ~(y < x)
  BY <1>1, Zenon DEF OpToRel
<1>3. \A y \in S : x <= y
  BY <1>2
<1> QED BY <1>3 DEF Lowest

\* Slots of the shared arrays are natural numbers.
LEMMA SlotsAreNaturals == Slots \subseteq Nat
BY SlotsAssumption DEF Slots

\* The slots that hold a process ID.
OccupiedSlots == {s \in Slots : openholdem_PIDs[s] # NoPID}

\* Both sets that NUnoccupiedBots counts are finite.
LEMMA SlotSetsAreFinite ==
    /\ IsFiniteSet(OccupiedSlots) /\ Cardinality(OccupiedSlots) \in Nat
    /\ IsFiniteSet(ConnectedSlots) /\ Cardinality(ConnectedSlots) \in Nat
<1>1. IsFiniteSet(Slots)
  BY SlotsAssumption, FS_Interval DEF Slots
<1>2. /\ OccupiedSlots \in SUBSET Slots
      /\ ConnectedSlots \in SUBSET Slots
  BY DEF OccupiedSlots, ConnectedSlots
<1> QED BY <1>1, <1>2, FS_Subset, FS_CardinalityType

(***************************************************************************)
(* When an instance counts no unoccupied bots, every slot with a process   *)
(* ID has a table, provided that only such slots have one.                 *)
(***************************************************************************)
LEMMA NoUnoccupiedBot ==
    ASSUME ConnectedSlots \subseteq OccupiedSlots, NUnoccupiedBots < 1
    PROVE  OccupiedSlots = ConnectedSlots
<1>1. NUnoccupiedBots = Cardinality(OccupiedSlots) - Cardinality(ConnectedSlots)
  BY DEF NUnoccupiedBots, NBotsPresent, NTablesConnected, OccupiedSlots
<1>2. Cardinality(ConnectedSlots) <= Cardinality(OccupiedSlots)
  BY SlotSetsAreFinite, FS_Subset
<1>3. Cardinality(OccupiedSlots) = Cardinality(ConnectedSlots)
  BY <1>1, <1>2, SlotSetsAreFinite
<1> QED BY <1>3, SlotSetsAreFinite, FS_Subset

(***************************************************************************)
(* When an instance counts two unoccupied bots or more, next to any slot   *)
(* there is another one with a process ID and without a table.             *)
(***************************************************************************)
LEMMA AnotherUnoccupiedBot ==
    ASSUME ConnectedSlots \subseteq OccupiedSlots, NUnoccupiedBots > 1
    PROVE  \A s : \E r \in OccupiedSlots \ ConnectedSlots : r # s
<1> DEFINE Idle == OccupiedSlots \ ConnectedSlots
<1>1. NUnoccupiedBots = Cardinality(OccupiedSlots) - Cardinality(ConnectedSlots)
  BY DEF NUnoccupiedBots, NBotsPresent, NTablesConnected, OccupiedSlots
<1>2. OccupiedSlots \cap ConnectedSlots = ConnectedSlots
  OBVIOUS
<1>3. Cardinality(Idle) =
          Cardinality(OccupiedSlots) - Cardinality(OccupiedSlots \cap ConnectedSlots)
  BY SlotSetsAreFinite, FS_Difference
<1>4. Cardinality(Idle) > 1
  BY <1>1, <1>2, <1>3
<1> SUFFICES ASSUME NEW s, Idle \in SUBSET {s} PROVE FALSE
  OBVIOUS
<1>5. IsFiniteSet({s}) /\ Cardinality({s}) = 1
  BY FS_Singleton
<1>6. IsFiniteSet(Idle) /\ Cardinality(Idle) <= 1
  BY <1>5, FS_Subset
<1>7. Cardinality(Idle) \in Nat
  BY <1>6, FS_CardinalityType
<1> HIDE DEF Idle
<1> QED BY <1>4, <1>6, <1>7
=============================================================================
