------------------------ MODULE AutoConnector_proofs ------------------------
(***************************************************************************)
(* Proofs about AutoConnector for any number of processes, slots and       *)
(* tables.                                                                 *)
(***************************************************************************)
EXTENDS AutoConnector, SharedMem_proofs

(***************************************************************************)
(* Who a watchdog kills is a process.                                      *)
(***************************************************************************)
LEMMA KilledAreProcesses ==
    ASSUME TypeOK, NEW F \in SUBSET OccupiedOfAge("frozen")
    PROVE  {openholdem_PIDs[s] : s \in F} \subseteq Process
BY DEF TypeOK, SharedMemTypeOK, OccupiedOfAge

(***************************************************************************)
(* Type correctness: the variables stay in their types, in particular the  *)
(* session IDs of all instances are slots of the shared arrays.            *)
(***************************************************************************)
THEOREM TypeCorrect == Spec => []TypeOK
<1>1. Init => TypeOK
  <2> SUFFICES ASSUME Init PROVE TypeOK
    OBVIOUS
  <2>1. SharedMemTypeOK
    BY DEF Init, SharedMemInit, SharedMemTypeOK
  <2>2. pc \in [Process -> PCs]
    BY DEF Init, PCs
  <2> QED BY <2>1, <2>2 DEF Init, TypeOK, Age
<1>2. TypeOK /\ [Next]_vars => TypeOK'
  <2> SUFFICES ASSUME TypeOK, [Next]_vars PROVE TypeOK'
    OBVIOUS
  <2> USE DEF TypeOK, SharedMemTypeOK, Goto, Age, PCs, conn, mem, shm
  <2>1. ASSUME NEW p \in Process, StartUp(p) PROVE TypeOK'
    <3>1. CASE OpenSession(p)
      <4>1. FreeSlots \in SUBSET Nat /\ FreeSlots # {}
        BY <3>1, SlotsAreNaturals DEF OpenSession, FreeSlots
      <4>2. Lowest(FreeSlots) \in FreeSlots
        BY <4>1, LowestIsMember
      <4>3. Lowest(FreeSlots) \in Slots
        BY <4>2 DEF FreeSlots
      <4>4. session' \in [Process -> Slots \union {NoSession}]
        BY <3>1, <4>3 DEF OpenSession
      <4>5. timestamps_openholdem_alive' \in [Slots -> Age]
        BY <3>1 DEF OpenSession, MarkInstancesAs
      <4> QED BY <3>1, <4>4, <4>5 DEF OpenSession
    <3>2. CASE ShareProcessID(p)
      <4>1. PICK pid \in {p} \union (IF PIDMayFail THEN {NoPID} ELSE {}) :
                AquireOwnProcessID(session[p], pid)
        BY <3>2 DEF ShareProcessID
      <4>2. pid \in Process \union {NoPID}
        OBVIOUS
      <4>3. openholdem_PIDs' \in [Slots -> Process \union {NoPID}]
        BY <4>1, <4>2 DEF AquireOwnProcessID
      <4> QED BY <3>2, <4>3 DEF ShareProcessID
    <3>3. CASE StartAutoConnector(p)
      BY <3>3 DEF StartAutoConnector, MarkPokerWindowAsAttached
    <3> QED BY <2>1, <3>1, <3>2, <3>3 DEF StartUp
  <2>2. ASSUME NEW p \in Process, Connect(p) PROVE TypeOK'
    <3>1. CASE LockForConnect(p)
      BY <3>1 DEF LockForConnect
    <3>2. CASE ConnectTimesOut(p)
      BY <3>2 DEF ConnectTimesOut
    <3>3. CASE ListCandidates(p)
      <4>1. g_tlist' \in [Process -> SUBSET Window]
        <5>1. PICK named \in {open_windows} \union
                     (IF HopperInUse THEN {{w} : w \in open_windows} ELSE {}) :
                 g_tlist' = [g_tlist EXCEPT ![p] =
                           {w \in named : ~PokerWindowAttached(w)}]
          BY <3>3 DEF ListCandidates
        <5>2. named \subseteq Window
          OBVIOUS
        <5> QED BY <5>1, <5>2
      <4> QED BY <3>3, <4>1 DEF ListCandidates
    <3>4. CASE SelectTableMapAndWindowAutomatically(p)
      <4>1. choice' \in [Process -> Window \union {NoWindow}]
        BY <3>4 DEF SelectTableMapAndWindowAutomatically
      <4>2. /\ pc' \in [Process -> PCs]
            /\ mutex' \in Process \union {NoPID}
            /\ recent_failure' \in BOOLEAN
        BY <3>4 DEF SelectTableMapAndWindowAutomatically
      <4> QED BY <3>4, <4>1, <4>2 DEF SelectTableMapAndWindowAutomatically
    <3>5. CASE Attach(p)
      BY <3>5 DEF Attach, MarkPokerWindowAsAttached
    <3>6. CASE UnlockAfterConnect(p)
      BY <3>6 DEF UnlockAfterConnect
    <3> QED BY <2>2, <3>1, <3>2, <3>3, <3>4, <3>5, <3>6 DEF Connect
  <2>3. ASSUME NEW p \in Process, Disconnect(p) \/ SkipConnect(p)
        PROVE  TypeOK'
    <3>1. CASE LockForDisconnect(p)
      BY <3>1 DEF LockForDisconnect
    <3>2. CASE Detach(p)
      BY <3>2 DEF Detach, MarkPokerWindowAsAttached
    <3>3. CASE SkipConnect(p)
      BY <3>3 DEF SkipConnect
    <3> QED BY <2>3, <3>1, <3>2, <3>3 DEF Disconnect
  <2>4. ASSUME NEW p \in Process, HandleCrashedAndFrozenProcesses(p)
        PROVE  TypeOK'
    <3>1. CASE WatchdogOff(p)
      BY <3>1 DEF WatchdogOff
    <3>2. CASE FindCrashedProcesses(p)
      BY <3>2 DEF FindCrashedProcesses, MarkInstancesAs
    <3>3. CASE CleanUpCrashed(p)
      BY <3>3 DEF CleanUpCrashed, CleanUpVictims, MarkInstancesAs,
                  CleanUpProcessMemory
    <3>4. CASE KillFrozenProcesses(p)
      <4>1. /\ timestamps_openholdem_alive' \in [Slots -> Age]
            /\ openholdem_PIDs' \in [Slots -> Process \union {NoPID}]
        BY <3>4 DEF KillFrozenProcesses, MarkInstancesAs,
                    TryToReacquireProcessID, AquireOwnProcessID
      <4>2. /\ pc' \in [Process -> PCs]
            /\ victims' \in [Process -> SUBSET Slots]
        BY <3>4 DEF KillFrozenProcesses, OccupiedOfAge
      <4> QED BY <3>4, <4>1, <4>2 DEF KillFrozenProcesses, Terminate
    <3>5. CASE CleanUpFrozen(p)
      BY <3>5 DEF CleanUpFrozen, CleanUpVictims, MarkInstancesAs,
                  CleanUpProcessMemory
    <3> QED BY <2>4, <3>1, <3>2, <3>3, <3>4, <3>5
            DEF HandleCrashedAndFrozenProcesses
  <2>5. ASSUME NEW p \in Process,
               Launch(p) \/ Close(p) \/ CloseSession(p) \/ Crash(p)
        PROVE  TypeOK'
    BY <2>5 DEF Launch, Close, CloseSession, Crash, Terminate,
                MarkPokerWindowAsAttached, MarkInstancesAs
  <2>6. ASSUME Environment PROVE TypeOK'
    <3>1. ASSUME NEW s \in Slots, GetOlder(s) PROVE TypeOK'
      <4>1. timestamps_openholdem_alive' \in [Slots -> Age]
        BY <3>1 DEF GetOlder, MarkInstancesAs
      <4> QED BY <3>1, <4>1 DEF GetOlder
    <3>2. ASSUME NEW w \in Window, OpenTable(w) \/ CloseTable(w)
          PROVE  TypeOK'
      BY <3>2 DEF OpenTable, CloseTable
    <3>3. CASE ForgetFailure
      BY <3>3 DEF ForgetFailure
    <3> QED BY <2>6, <3>1, <3>2, <3>3 DEF Environment
  <2>7. CASE UNCHANGED vars
    BY <2>7 DEF vars
  <2> QED BY <2>1, <2>2, <2>3, <2>4, <2>5, <2>6, <2>7
          DEF Next, Instance, Heartbeat
<1> QED BY <1>1, <1>2, PTL DEF Spec

(***************************************************************************)
(* The autoconnector mutex excludes: at most one instance is between Lock  *)
(* and Unlock of Connect() or Disconnect(), however instances crash.       *)
(***************************************************************************)
THEOREM MutualExclusion == Spec => []CriticalSectionsExclude
<1> USE DEF CriticalSectionsExclude, Critical
<1>1. Init => CriticalSectionsExclude
  BY DEF Init
<1>2. TypeOK /\ CriticalSectionsExclude /\ [Next]_vars
      => CriticalSectionsExclude'
  <2> SUFFICES ASSUME TypeOK, CriticalSectionsExclude, [Next]_vars
               PROVE  CriticalSectionsExclude'
    OBVIOUS
  <2> USE NullAssumption DEF TypeOK, Goto, conn, mem, shm
  <2>1. ASSUME NEW p \in Process, StartUp(p) \/ Connect(p)
        PROVE  CriticalSectionsExclude'
    BY <2>1 DEF StartUp, OpenSession, ShareProcessID, StartAutoConnector,
                Connect, LockForConnect, ConnectTimesOut, ListCandidates,
                SelectTableMapAndWindowAutomatically, Attach,
                UnlockAfterConnect
  <2>2. ASSUME NEW p \in Process, Disconnect(p) \/ SkipConnect(p)
        PROVE  CriticalSectionsExclude'
    BY <2>2 DEF Disconnect, LockForDisconnect, Detach, SkipConnect
  <2>3. ASSUME NEW p \in Process, HandleCrashedAndFrozenProcesses(p)
        PROVE  CriticalSectionsExclude'
    <3>1. CASE KillFrozenProcesses(p)
      <4>1. PICK K \in SUBSET Process :
              /\ mutex' = IF mutex \in K THEN NoPID ELSE mutex
              /\ pc' = [q \in Process |->
                            IF q \in K THEN "absent"
                            ELSE IF q = p THEN "cleanFrozen" ELSE pc[q]]
        BY <3>1, KilledAreProcesses DEF KillFrozenProcesses, Terminate
      <4> QED BY <4>1
    <3> QED BY <2>3, <3>1
            DEF HandleCrashedAndFrozenProcesses, WatchdogOff,
                FindCrashedProcesses, CleanUpCrashed, CleanUpVictims,
                CleanUpFrozen
  <2>4. ASSUME NEW p \in Process,
               Launch(p) \/ Close(p) \/ CloseSession(p) \/ Crash(p)
        PROVE  CriticalSectionsExclude'
    BY <2>4 DEF Launch, Close, CloseSession, Crash, Terminate
  <2>5. ASSUME Environment PROVE CriticalSectionsExclude'
    BY <2>5 DEF Environment, GetOlder, ForgetFailure, OpenTable, CloseTable
  <2>6. CASE UNCHANGED vars
    BY <2>6 DEF vars
  <2> QED BY <2>1, <2>2, <2>3, <2>4, <2>5, <2>6 DEF Next, Instance, Heartbeat
<1> QED BY <1>1, <1>2, TypeCorrect, PTL DEF Spec

\* An instance without a session counter value has no slot.
LEMMA NoSessionIsNoSlot == NoSession \notin Slots
BY SlotsAreNaturals DEF NoSession

(***************************************************************************)
(* What holds whatever crashes, refused kills and late clean-ups happen:   *)
(* the session mutexes keep the instances in slots of their own, and what  *)
(* a slot says about the process of its instance is never the ID of        *)
(* another one.                                                            *)
(***************************************************************************)
SlotInv == SessionsAreDistinct /\ SlotsHoldOwnPIDs /\ OnlyHeartbeatsConnect

\* Every step keeps SlotInv.
LEMMA SlotStep == ASSUME TypeOK, SlotInv, [Next]_vars PROVE SlotInv'
<1> USE NullAssumption
    DEF TypeOK, SharedMemTypeOK, SlotInv, HasSession, HasSharedPID,
        Connected, Critical, Goto, conn, mem, shm
<1> USE DEF SessionsAreDistinct, SlotsHoldOwnPIDs, OnlyHeartbeatsConnect
<1>0. \A p, q \in Process :
         HasSession(p) /\ HasSession(q) /\ p # q => session[p] # session[q]
  BY NoSessionIsNoSlot
<1>1. ASSUME NEW p \in Process, StartUp(p) PROVE SlotInv'
  <2>1. CASE OpenSession(p)
    <3>1. FreeSlots \in SUBSET Nat /\ FreeSlots # {}
      BY <2>1, SlotsAreNaturals DEF OpenSession, FreeSlots
    <3>2. PICK s \in FreeSlots : session' = [session EXCEPT ![p] = s]
      BY <2>1, <3>1, LowestIsMember DEF OpenSession
    <3>3. s \in Slots /\ \A q \in Process : session[q] # s
      BY <3>2 DEF FreeSlots
    <3>4. SessionsAreDistinct'
      BY <2>1, <3>2, <3>3 DEF OpenSession
    <3> QED BY <2>1, <3>4 DEF OpenSession
  <2>2. CASE ShareProcessID(p)
    <3>1. PICK pid \in {p} \union (IF PIDMayFail THEN {NoPID} ELSE {}) :
              AquireOwnProcessID(session[p], pid)
      BY <2>2 DEF ShareProcessID
    <3>2. pid \in {p, NoPID}
      OBVIOUS
    <3>3. SlotsHoldOwnPIDs'
      BY <2>2, <3>1, <3>2, <1>0 DEF ShareProcessID, AquireOwnProcessID
    <3> QED BY <2>2, <3>3 DEF ShareProcessID
  <2>3. CASE StartAutoConnector(p)
    BY <2>3 DEF StartAutoConnector, MarkPokerWindowAsAttached
  <2> QED BY <1>1, <2>1, <2>2, <2>3 DEF StartUp
<1>2. ASSUME NEW p \in Process, Connect(p) PROVE SlotInv'
  <2>1. CASE LockForConnect(p) \/ ConnectTimesOut(p)
    BY <2>1 DEF LockForConnect, ConnectTimesOut, WantsToConnect
  <2>2. CASE ListCandidates(p) \/ SelectTableMapAndWindowAutomatically(p)
    BY <2>2 DEF ListCandidates, SelectTableMapAndWindowAutomatically
  <2>3. CASE Attach(p) \/ UnlockAfterConnect(p)
    BY <2>3 DEF Attach, MarkPokerWindowAsAttached, UnlockAfterConnect
  <2> QED BY <1>2, <2>1, <2>2, <2>3 DEF Connect
<1>3. ASSUME NEW p \in Process, Disconnect(p) \/ SkipConnect(p)
      PROVE  SlotInv'
  BY <1>3 DEF Disconnect, LockForDisconnect, Detach,
              MarkPokerWindowAsAttached, SkipConnect
<1>4. ASSUME NEW p \in Process, HandleCrashedAndFrozenProcesses(p)
      PROVE  SlotInv'
  <2>1. CASE WatchdogOff(p) \/ FindCrashedProcesses(p)
    BY <2>1 DEF WatchdogOff, FindCrashedProcesses
  <2>2. CASE CleanUpCrashed(p) \/ CleanUpFrozen(p)
    BY <2>2 DEF CleanUpCrashed, CleanUpFrozen, CleanUpVictims,
                CleanUpProcessMemory
  <2>3. CASE KillFrozenProcesses(p)
    <3>1. PICK K \in SUBSET Process :
            /\ Terminate(K)
            /\ pc' = [q \in Process |->
                          IF q \in K THEN "absent"
                          ELSE IF q = p THEN "cleanFrozen" ELSE pc[q]]
      BY <2>3, KilledAreProcesses DEF KillFrozenProcesses
    <3>2. SlotsHoldOwnPIDs'
      <4>1. \A s \in Slots : s # session[p] =>
               openholdem_PIDs'[s] = openholdem_PIDs[s]
        BY <2>3 DEF KillFrozenProcesses, TryToReacquireProcessID,
                    AquireOwnProcessID
      <4>2. pc[p] = "frozen"
        BY <2>3 DEF KillFrozenProcesses
      <4>3. openholdem_PIDs'[session[p]] \in {p, NoPID}
        <5>1. CASE openholdem_PIDs[session[p]] = NoPID
          <6>1. PICK pid \in {p} \union (IF PIDMayFail THEN {NoPID} ELSE {}) :
                    AquireOwnProcessID(session[p], pid)
            BY <2>3, <5>1 DEF KillFrozenProcesses, TryToReacquireProcessID
          <6>2. pid \in {p, NoPID}
            OBVIOUS
          <6> QED BY <4>2, <6>1, <6>2 DEF AquireOwnProcessID
        <5>2. CASE openholdem_PIDs[session[p]] # NoPID
          BY <2>3, <4>2, <5>2 DEF KillFrozenProcesses, TryToReacquireProcessID
        <5> QED BY <5>1, <5>2
      <4> QED BY <3>1, <4>1, <4>2, <4>3, <1>0 DEF Terminate
    <3>3. SessionsAreDistinct' /\ OnlyHeartbeatsConnect'
      <4>1. pc[p] = "frozen"
        BY <2>3 DEF KillFrozenProcesses
      <4> QED BY <3>1, <4>1 DEF Terminate
    <3> QED BY <3>2, <3>3
  <2> QED BY <1>4, <2>1, <2>2, <2>3 DEF HandleCrashedAndFrozenProcesses
<1>5. ASSUME NEW p \in Process,
             Launch(p) \/ Close(p) \/ CloseSession(p) \/ Crash(p)
      PROVE  SlotInv'
  <2>1. CASE Launch(p) \/ Close(p)
    BY <2>1 DEF Launch, Close, MarkPokerWindowAsAttached
  <2>2. CASE CloseSession(p) \/ Crash(p)
    BY <2>2 DEF CloseSession, Crash, Terminate
  <2> QED BY <1>5, <2>1, <2>2
<1>6. ASSUME Environment PROVE SlotInv'
  BY <1>6 DEF Environment, GetOlder, ForgetFailure, OpenTable, CloseTable,
              MarkInstancesAs
<1>7. CASE UNCHANGED vars
  BY <1>7 DEF vars
<1> QED BY <1>1, <1>2, <1>3, <1>4, <1>5, <1>6, <1>7
        DEF Next, Instance, Heartbeat

(***************************************************************************)
(* Two instances never share a session, and the slot of an instance never  *)
(* names the process of another one, so that a watchdog that finds it      *)
(* frozen kills the right one: even if TerminateProcess is refused and     *)
(* clean-ups come late.                                                    *)
(***************************************************************************)
THEOREM SlotsAreNotShared == Spec => []SlotInv
<1>1. Init => SlotInv
  BY NullAssumption
     DEF Init, SlotInv, SessionsAreDistinct, SlotsHoldOwnPIDs,
         OnlyHeartbeatsConnect, HasSession, HasSharedPID, Connected
<1>2. TypeOK /\ SlotInv /\ [Next]_vars => SlotInv'
  BY SlotStep
<1> QED BY <1>1, <1>2, TypeCorrect, PTL DEF Spec

(***************************************************************************)
(* Every step keeps ServiceInv, provided that TerminateProcess works and   *)
(* that a clean-up ends before a new process shares its process ID in the  *)
(* same slot: without either a watchdog wipes the slot of an instance that *)
(* still plays.                                                            *)
(***************************************************************************)
LEMMA ServiceStep ==
    ASSUME ~KillMayFail, PromptCleanUp,
           TypeOK, TypeOK', CriticalSectionsExclude', ServiceInv, [Next]_vars
    PROVE  ServiceInv'
<1> USE NullAssumption
    DEF TypeOK, SharedMemTypeOK, ServiceInv, HasSession, HasSharedPID,
        Connected, Critical, Goto, conn, mem, shm
<1> USE DEF SessionsAreDistinct, SlotsHoldOwnPIDs, VictimsAreGone,
            CriticalSectionsExclude, OnlyHeartbeatsConnect,
            SharedMemoryAgrees, ChoiceIsFree, OneServerPerTable
<1>0. \A p, q \in Process :
         HasSession(p) /\ HasSession(q) /\ p # q => session[p] # session[q]
  BY NoSessionIsNoSlot
<1>s. SessionsAreDistinct' /\ SlotsHoldOwnPIDs' /\ OnlyHeartbeatsConnect'
  BY SlotStep DEF SlotInv
<1>1. ASSUME NEW p \in Process, StartUp(p) PROVE ServiceInv'
  <2>1. CASE OpenSession(p)
    BY <2>1, <1>s DEF OpenSession
  <2>2. CASE ShareProcessID(p)
    BY <2>2, <1>s DEF ShareProcessID
  <2>3. CASE StartAutoConnector(p)
    <3>1. SharedMemoryAgrees'
      BY <2>3, <1>0 DEF StartAutoConnector, MarkPokerWindowAsAttached
    <3> QED BY <2>3, <3>1 DEF StartAutoConnector
  <2> QED BY <1>1, <2>1, <2>2, <2>3 DEF StartUp
<1>2. ASSUME NEW p \in Process, Connect(p) PROVE ServiceInv'
  <2>1. CASE LockForConnect(p)
    BY <2>1 DEF LockForConnect, WantsToConnect
  <2>2. CASE ConnectTimesOut(p)
    BY <2>2 DEF ConnectTimesOut, WantsToConnect
  <2>3. CASE ListCandidates(p)
    BY <2>3 DEF ListCandidates
  <2>4. CASE SelectTableMapAndWindowAutomatically(p)
    <3>1. \A w \in Window :
             ~PokerWindowAttached(w) => \A q \in Process : attached[q] # w
      BY DEF PokerWindowAttached
    <3>2. ChoiceIsFree'
      BY <2>4, <3>1 DEF SelectTableMapAndWindowAutomatically
    <3> QED BY <2>4, <3>2 DEF SelectTableMapAndWindowAutomatically
  <2>5. CASE Attach(p)
    <3>1. \A q \in Process : attached[q] # choice[p]
      BY <2>5 DEF Attach
    <3>2. SharedMemoryAgrees'
      BY <2>5, <1>0 DEF Attach, MarkPokerWindowAsAttached
    <3>3. ChoiceIsFree' /\ OneServerPerTable'
      BY <2>5, <3>1 DEF Attach
    <3> QED BY <2>5, <3>2, <3>3 DEF Attach
  <2>6. CASE UnlockAfterConnect(p)
    BY <2>6 DEF UnlockAfterConnect
  <2> QED BY <1>2, <2>1, <2>2, <2>3, <2>4, <2>5, <2>6 DEF Connect
<1>3. ASSUME NEW p \in Process, Disconnect(p) \/ SkipConnect(p)
      PROVE  ServiceInv'
  <2>1. CASE LockForDisconnect(p)
    BY <2>1 DEF LockForDisconnect
  <2>2. CASE Detach(p)
    <3>1. SharedMemoryAgrees'
      BY <2>2, <1>0 DEF Detach, MarkPokerWindowAsAttached
    <3> QED BY <2>2, <3>1 DEF Detach
  <2>3. CASE SkipConnect(p)
    BY <2>3 DEF SkipConnect
  <2> QED BY <1>3, <2>1, <2>2, <2>3 DEF Disconnect
<1>4. ASSUME NEW p \in Process, HandleCrashedAndFrozenProcesses(p)
      PROVE  ServiceInv'
  <2>1. CASE WatchdogOff(p)
    BY <2>1 DEF WatchdogOff
  <2>2. CASE FindCrashedProcesses(p)
    <3>1. \A q \in Process, s \in Slots :
             HasSharedPID(q) /\ IsDeadOpenHoldemProcess(s, Running)
             => session[q] # s
      BY DEF IsDeadOpenHoldemProcess, Running
    <3>2. VictimsAreGone'
      BY <2>2, <3>1 DEF FindCrashedProcesses
    <3> QED BY <2>2, <3>2 DEF FindCrashedProcesses
  <2>3. CASE CleanUpCrashed(p)
    BY <2>3 DEF CleanUpCrashed, CleanUpVictims, CleanUpProcessMemory
  <2>4. CASE KillFrozenProcesses(p)
    <3> DEFINE F == OccupiedOfAge("frozen") \ {session[p]}
               K == {openholdem_PIDs[s] : s \in F}
    <3> DEFINE Killed(k) ==
                 /\ Terminate(k)
                 /\ pc' = [q \in Process |->
                              IF q \in k THEN "absent"
                              ELSE IF q = p THEN "cleanFrozen" ELSE pc[q]]
                 /\ victims' = [q \in Process |->
                              IF q \in k THEN {}
                              ELSE IF q = p THEN F ELSE victims[q]]
    <3>1. Killed(K)
      <4>1. (IF KillMayFail THEN SUBSET K ELSE {K}) = {K}
        OBVIOUS
      <4>2. \E k \in (IF KillMayFail THEN SUBSET K ELSE {K}) : Killed(k)
        BY <2>4, Zenon DEF KillFrozenProcesses
      <4> HIDE DEF F, K, Killed
      <4> QED BY <4>1, <4>2
    <3>2. UNCHANGED attached_poker_windows /\ pc[p] = "frozen"
      BY <2>4 DEF KillFrozenProcesses
    <3>3. \A q \in Process : HasSharedPID(q) /\ session[q] \in F => q \in K
      BY DEF OccupiedOfAge
    <3>4. VictimsAreGone'
      BY <3>1, <3>2, <3>3 DEF Terminate, NoSession, Slots
    <3> HIDE DEF F, K
    <3>5. SharedMemoryAgrees' /\ ChoiceIsFree' /\ OneServerPerTable'
      BY <3>1, <3>2 DEF Terminate
    <3> QED BY <3>4, <3>5, <1>s
  <2>5. CASE CleanUpFrozen(p)
    BY <2>5 DEF CleanUpFrozen, CleanUpVictims, CleanUpProcessMemory
  <2> QED BY <1>4, <2>1, <2>2, <2>3, <2>4, <2>5
          DEF HandleCrashedAndFrozenProcesses
<1>5. ASSUME NEW p \in Process,
             Launch(p) \/ Close(p) \/ CloseSession(p) \/ Crash(p)
      PROVE  ServiceInv'
  <2>1. CASE Launch(p)
    BY <2>1 DEF Launch
  <2>2. CASE Close(p)
    <3>1. SharedMemoryAgrees'
      BY <2>2, <1>0 DEF Close, MarkPokerWindowAsAttached
    <3> QED BY <2>2, <3>1 DEF Close
  <2>3. CASE CloseSession(p)
    BY <2>3 DEF CloseSession
  <2>4. CASE Crash(p)
    BY <2>4 DEF Crash, Terminate
  <2> QED BY <1>5, <2>1, <2>2, <2>3, <2>4
<1>6. ASSUME Environment PROVE ServiceInv'
  BY <1>6 DEF Environment, GetOlder, ForgetFailure, OpenTable, CloseTable,
              MarkInstancesAs
<1>7. CASE UNCHANGED vars
  BY <1>7 DEF vars
<1> QED BY <1>1, <1>2, <1>3, <1>4, <1>5, <1>6, <1>7
        DEF Next, Instance, Heartbeat

(***************************************************************************)
(* The two assumptions about the world that the safety of the service      *)
(* rests on.                                                               *)
(***************************************************************************)
CleanUpsWork == ~KillMayFail /\ PromptCleanUp

(***************************************************************************)
(* The state the instances share and the state they keep for themselves    *)
(* stay consistent.                                                        *)
(***************************************************************************)
THEOREM ServiceInvariant == CleanUpsWork => (Spec => []ServiceInv)
<1> SUFFICES ASSUME CleanUpsWork PROVE Spec => []ServiceInv
  OBVIOUS
<1>1. Init => ServiceInv
  BY NullAssumption
     DEF Init, ServiceInv, SessionsAreDistinct, SlotsHoldOwnPIDs,
         VictimsAreGone, CriticalSectionsExclude, Critical,
         OnlyHeartbeatsConnect, SharedMemoryAgrees, ChoiceIsFree,
         OneServerPerTable, HasSession, HasSharedPID, Connected
<1>2. TypeOK /\ TypeOK' /\ CriticalSectionsExclude' /\ ServiceInv
      /\ [Next]_vars => ServiceInv'
  BY ServiceStep DEF CleanUpsWork
<1> QED BY <1>1, <1>2, TypeCorrect, MutualExclusion, PTL DEF Spec

(***************************************************************************)
(* No two instances ever play the same table.                              *)
(***************************************************************************)
THEOREM TablesAreServedOnce == CleanUpsWork => (Spec => []OneServerPerTable)
<1>1. ServiceInv => OneServerPerTable
  BY DEF ServiceInv
<1> QED BY <1>1, ServiceInvariant, PTL

(***************************************************************************)
(* What an instance serves is what the others read in its slot.            *)
(***************************************************************************)
THEOREM SlotsTellTheTruth == CleanUpsWork => (Spec => []SharedMemoryAgrees)
<1>1. ServiceInv => SharedMemoryAgrees
  BY DEF ServiceInv
<1> QED BY <1>1, ServiceInvariant, PTL

(***************************************************************************)
(* No watchdog takes the process ID from an instance that keeps running:   *)
(* its own watchdog and the auto-starter stay on.                          *)
(***************************************************************************)
THEOREM LivingAreSpared == CleanUpsWork => (Spec => CleanUpSparesTheLiving)
<1> SUFFICES ASSUME CleanUpsWork PROVE Spec => CleanUpSparesTheLiving
  OBVIOUS
<1>1. TypeOK /\ ServiceInv /\ [Next]_vars => [SparesTheLiving]_vars
  <2> SUFFICES ASSUME TypeOK, ServiceInv, Next,
                      NEW p \in Process, HasSharedPID(p),
                      openholdem_PIDs[session[p]] = p,
                      openholdem_PIDs' # openholdem_PIDs
               PROVE  openholdem_PIDs'[session[p]] = p
    BY DEF SparesTheLiving, vars, mem, shm
  <2>1. /\ session[p] \in Slots
        /\ \A q \in Process :
              HasSession(q) /\ q # p => session[q] # session[p]
        /\ \A q \in Process : session[p] \notin victims[q]
    BY NoSessionIsNoSlot
       DEF ServiceInv, SessionsAreDistinct, VictimsAreGone, HasSharedPID
  <2> USE NullAssumption DEF TypeOK, SharedMemTypeOK, AquireOwnProcessID
  <2>2. ASSUME NEW q \in Process, ShareProcessID(q)
        PROVE  openholdem_PIDs'[session[p]] = p
    BY <2>1, <2>2 DEF ShareProcessID, HasSession, HasSharedPID
  <2>3. ASSUME NEW q \in Process, CleanUpCrashed(q) \/ CleanUpFrozen(q)
        PROVE  openholdem_PIDs'[session[p]] = p
    BY <2>1, <2>3 DEF CleanUpCrashed, CleanUpFrozen, CleanUpVictims,
                      CleanUpProcessMemory
  <2>4. ASSUME NEW q \in Process, KillFrozenProcesses(q)
        PROVE  openholdem_PIDs'[session[p]] = p
    BY <2>1, <2>4 DEF KillFrozenProcesses, TryToReacquireProcessID, HasSession
  <2> QED BY <2>2, <2>3, <2>4
          DEF Next, Instance, StartUp, OpenSession, StartAutoConnector,
              Heartbeat, Connect, LockForConnect, ConnectTimesOut,
              ListCandidates, SelectTableMapAndWindowAutomatically, Attach,
              UnlockAfterConnect, Disconnect, LockForDisconnect, Detach,
              SkipConnect, HandleCrashedAndFrozenProcesses, WatchdogOff,
              FindCrashedProcesses, Launch, Close, CloseSession, Crash,
              Environment, GetOlder, ForgetFailure, OpenTable, CloseTable,
              conn, mem, shm
<1> QED BY <1>1, TypeCorrect, ServiceInvariant, PTL
        DEF Spec, CleanUpSparesTheLiving

(***************************************************************************)
(* The instances implement the abstract service: a step that attaches a    *)
(* table takes a free one, a step that detaches or ends instances releases *)
(* their tables, every other step stutters.                                *)
(***************************************************************************)
THEOREM Implementation == CleanUpsWork => (Spec => ImplementsTableService)
<1> SUFFICES ASSUME CleanUpsWork PROVE Spec => ImplementsTableService
  OBVIOUS
<1>1. Init => Service!Init
  BY DEF Init, Service!Init
<1>2. TypeOK /\ ServiceInv /\ [Next]_vars => [Service!Next]_attached
  <2> SUFFICES ASSUME TypeOK, ServiceInv, [Next]_vars,
                      attached' # attached
               PROVE  Service!Next
    OBVIOUS
  <2> USE DEF TypeOK, conn, mem, shm
  <2>1. ASSUME NEW p \in Process, Attach(p) PROVE Service!Next
    <3>1. choice[p] \in Window /\ \A q \in Process : attached[q] # choice[p]
      BY <2>1 DEF Attach, ServiceInv, ChoiceIsFree
    <3>2. Service!Take(p, choice[p])
      BY <2>1, <3>1 DEF Attach, Service!Take
    <3> QED BY <3>1, <3>2 DEF Service!Next
  <2>2. ASSUME NEW p \in Process,
               StartAutoConnector(p) \/ Detach(p) \/ Close(p)
        PROVE  Service!Next
    <3>1. Service!Release({p})
      BY <2>2 DEF StartAutoConnector, Detach, Close, Service!Release
    <3> QED BY <3>1 DEF Service!Next
  <2>3. ASSUME NEW P \in SUBSET Process, Terminate(P) PROVE Service!Next
    <3>1. Service!Release(P)
      BY <2>3 DEF Terminate, Service!Release
    <3> QED BY <3>1 DEF Service!Next
  <2>4. ASSUME NEW p \in Process, KillFrozenProcesses(p)
        PROVE  Service!Next
    <3>1. \E K \in SUBSET Process : Terminate(K)
      BY <2>4, KilledAreProcesses DEF KillFrozenProcesses
    <3> QED BY <2>3, <3>1
  <2>5. ASSUME NEW p \in Process, Crash(p) PROVE Service!Next
    BY <2>3, <2>5 DEF Crash
  <2> QED BY <2>1, <2>2, <2>4, <2>5
          DEF Next, vars, Instance, StartUp, OpenSession, ShareProcessID,
              Heartbeat, Connect, LockForConnect, ConnectTimesOut,
              ListCandidates, SelectTableMapAndWindowAutomatically,
              UnlockAfterConnect, Disconnect, LockForDisconnect, SkipConnect,
              HandleCrashedAndFrozenProcesses, WatchdogOff,
              FindCrashedProcesses, CleanUpCrashed, CleanUpFrozen, Launch,
              CloseSession, Environment, GetOlder, ForgetFailure, OpenTable,
              CloseTable
<1> QED BY <1>1, <1>2, TypeCorrect, ServiceInvariant, PTL
        DEF Spec, ImplementsTableService, Service!Spec
=============================================================================
