------------------------- MODULE AutoStarter_proofs -------------------------
(***************************************************************************)
(* Proofs about AutoStarter for any number of processes, slots and tables. *)
(***************************************************************************)
EXTENDS AutoStarter, SharedMem_proofs

-----------------------------------------------------------------------------
(***************************************************************************)
(* The inductive invariant.                                                *)
(***************************************************************************)
\* The instances that have a session and run heartbeats.
Shown == {p \in Process : pc[p] \notin {"absent", "starting"}}

(* An instance that has shown up owns a slot: the shared memory holds its   *)
(* process ID and its table.  Of the others nothing is left but process     *)
(* IDs of instances that ended.                                            *)
Registered ==
    /\ \A p \in Shown :
           /\ session[p] \in Slots
           /\ openholdem_PIDs[session[p]] = p
           /\ attached_poker_windows[session[p]] = attached[p]
    /\ \A p \in Process \ Shown :
           /\ session[p] = -1
           /\ attached[p] = NoWindow
           /\ p \notin quitting
    /\ \A p \in Process, s \in Slots : pc[p] = "starting" => openholdem_PIDs[s] # p
    /\ \A s \in Slots :
           openholdem_PIDs[s] \in Shown => session[openholdem_PIDs[s]] = s
    /\ \A s \in ConnectedSlots : openholdem_PIDs[s] \in Shown

(* What an instance found in the first half of a check still holds in the   *)
(* second half.                                                            *)
Counted ==
    \A p \in Process :
        /\ pc[p] \in {"startTurn", "closeTurn"} =>
               \A q \in Process \ {p} : pc[q] \notin {"startTurn", "closeTurn"}
        /\ pc[p] = "startTurn" => /\ NUnoccupiedBots < 1
                                  /\ ~recently_started[p]
        /\ pc[p] = "closeTurn" => /\ NUnoccupiedBots > 1
                                  /\ ~Connected(p)
                                  /\ waited[p]

(* q started r and, until r shows up, remains the only instance that may    *)
(* start one: its 5 s are not over, it cannot end, and it has the lowest    *)
(* session ID.                                                             *)
StartedBy(q, r) ==
    /\ q \in Shown \ quitting
    /\ recently_started[q]
    /\ r \in shorter_than_5[q]
    /\ ~Connected(q) => ~waited[q] /\ r \in shorter_than_120[q]
    /\ \A p \in Shown : session[q] <= session[p]

OnlyOneStarts ==
    /\ \A r \in Process :
           pc[r] = "starting" => Shown = {} \/ \E q \in Process : StartedBy(q, r)
    /\ OneStartAtATime

(* A slot whose instance is about to end or has ended.                      *)
Departing(s) ==
    /\ openholdem_PIDs[s] # NoPID
    /\ openholdem_PIDs[s] \in Shown => openholdem_PIDs[s] \in quitting

(* A free instance is no candidate for the next shutdown before it has      *)
(* noticed the previous one: the departing slot is the lower one, or its    *)
(* 120 s are not over, or its watchdog has still to clean up the slot.  An  *)
(* instance that is quitting itself knows of the others all the same.      *)
NoticesDepartures ==
    \A s \in Slots, p \in Shown :
        Departing(s) /\ ~Connected(p) /\ s # session[p] =>
            \/ s < session[p]
            \/ /\ ~waited[p]
               /\ openholdem_PIDs[s] \in quitting =>
                      openholdem_PIDs[s] \in shorter_than_120[p]
            \/ openholdem_PIDs[s] \notin quitting /\ pc[p] \in {"beat", "watch"}

(* What makes the shutdown right, ...                                       *)
ShutdownInv ==
    TypeOK /\ Registered /\ Counted /\ NoticesDepartures /\ OneSurvives

(* ... and the start.                                                       *)
StarterInv == ShutdownInv /\ OnlyOneStarts

-----------------------------------------------------------------------------
(***************************************************************************)
(* Type correctness: the variables stay in their types, in particular the  *)
(* session IDs of all instances are slots of the shared arrays.            *)
(***************************************************************************)
THEOREM TypeCorrect == Spec => []TypeOK
<1> USE DEF shm, timers
<1>1. Init => TypeOK
  BY DEF Init, SharedMemInit, TypeOK, SharedMemTypeOK, PCs
<1>2. ASSUME TypeOK, [Next]_vars PROVE TypeOK'
  <2> USE <1>2 DEF TypeOK, SharedMemTypeOK
  <2> USE DEF PCs
  <2>1. ASSUME NEW q \in Process, UserLaunch(q) PROVE TypeOK'
    BY <2>1 DEF UserLaunch, Goto
  <2>2. ASSUME NEW q \in Process, ShowUp(q) PROVE TypeOK'
    <3>1. FreeSlots \in SUBSET Nat /\ FreeSlots # {}
      BY <2>2, SlotsAreNaturals DEF ShowUp, FreeSlots
    <3>2. Lowest(FreeSlots) \in Slots
      BY <3>1, LowestIsMember DEF FreeSlots
    <3>3. /\ session' \in [Process -> Slots \union {-1}]
          /\ openholdem_PIDs' \in [Slots -> Process \union {NoPID}]
          /\ attached_poker_windows' \in [Slots -> Window \union {NoWindow}]
      BY <2>2, <3>2 DEF ShowUp, AquireOwnProcessID, MarkPokerWindowAsAttached
    <3>4. pc' \in [Process -> PCs]
      BY <2>2 DEF ShowUp, Goto
    <3>5. /\ recently_started' \in [Process -> BOOLEAN]
          /\ waited' \in [Process -> BOOLEAN]
      BY <2>2 DEF ShowUp
    <3>6. Starting \in SUBSET Process
      BY DEF Starting
    <3>7. /\ shorter_than_5' \in [Process -> SUBSET Process]
          /\ shorter_than_120' \in [Process -> SUBSET Process]
      BY <2>2, <3>6 DEF ShowUp
    <3> QED BY <2>2, <3>3, <3>4, <3>5, <3>7 DEF ShowUp
  <2>3. ASSUME NEW p \in Process, UserClose(p) PROVE TypeOK'
    BY <2>3 DEF UserClose
  <2>4. ASSUME NEW p \in Process, ExitInstance(p) PROVE TypeOK'
    <3>1. shorter_than_120' \in [Process -> SUBSET Process]
      BY <2>4 DEF ExitInstance
    <3> QED BY <2>4, <3>1 DEF ExitInstance, Goto, MarkPokerWindowAsAttached
  <2>5. ASSUME NEW p \in Process, Heartbeat(p) PROVE TypeOK'
    <3>1. ASSUME NEW w \in Window, Connect(p, w) PROVE TypeOK'
      <4>1. shorter_than_120' \in [Process -> SUBSET Process]
        BY <3>1 DEF Connect, RestartWait, Starting
      <4> QED BY <3>1, <4>1 DEF Connect, RestartWait, Goto, MarkPokerWindowAsAttached
    <3>2. CASE Disconnect(p)
      <4>1. shorter_than_120' \in [Process -> SUBSET Process]
        BY <3>2 DEF Disconnect, RestartWait, Starting
      <4> QED BY <3>2, <4>1
              DEF Disconnect, RestartWait, Goto, MarkPokerWindowAsAttached
    <3>3. CASE NoConnection(p)
      BY <3>3 DEF NoConnection, Goto
    <3>4. CASE WatchForCrashedProcesses(p)
      BY <3>4 DEF WatchForCrashedProcesses, CleanUpProcessMemory, Goto
    <3>5. CASE CountForStart(p)
      BY <3>5 DEF CountForStart, Goto
    <3>6. CASE StartNewInstance(p)
      <4>1. Starting \in SUBSET Process
        BY DEF Starting
      <4>2. PICK q \in Process :
                /\ pc' = [pc EXCEPT ![p] = "close", ![q] = "starting"]
                /\ shorter_than_5' = [shorter_than_5 EXCEPT ![p] = Starting \union {q}]
        BY <3>6 DEF StartNewInstance
      <4> QED BY <3>6, <4>1, <4>2 DEF StartNewInstance
    <3>7. CASE NotMyBusinessToStart(p)
      BY <3>7 DEF NotMyBusinessToStart, Goto
    <3>8. CASE CountForShutdown(p)
      BY <3>8 DEF CountForShutdown, Goto
    <3>9. CASE ShutDownThisInstance(p)
      BY <3>9 DEF ShutDownThisInstance, Goto
    <3>10. CASE NotMyTurnToShutDown(p)
      BY <3>10 DEF NotMyTurnToShutDown, Goto
    <3> QED BY <2>5, <3>1, <3>2, <3>3, <3>4, <3>5, <3>6, <3>7, <3>8, <3>9, <3>10
            DEF Heartbeat
  <2>6. ASSUME NEW p \in Process, FiveSecondsPass(p) \/ TwoMinutesPass(p)
        PROVE  TypeOK'
    BY <2>6 DEF FiveSecondsPass, TwoMinutesPass
  <2>7. ASSUME NEW w \in Window, OpenTable(w) \/ CloseTable(w) PROVE TypeOK'
    BY <2>7 DEF OpenTable, CloseTable
  <2>8. CASE UNCHANGED vars
    BY <2>8 DEF vars
  <2> QED BY <1>2, <2>1, <2>2, <2>3, <2>4, <2>5, <2>6, <2>7, <2>8 DEF Next
<1> QED BY <1>1, <1>2, PTL DEF Spec

-----------------------------------------------------------------------------
\* Only slots with a process ID have a table.
LEMMA ConnectedAreOccupied ==
    ASSUME TypeOK, Registered
    PROVE  ConnectedSlots \subseteq OccupiedSlots
BY NullAssumption DEF Registered, ConnectedSlots, OccupiedSlots, Shown

(***************************************************************************)
(* A step of p after which p is not between two reads leaves no instance   *)
(* there, because p could not act if another one was.                      *)
(***************************************************************************)
LEMMA NobodyInBetween ==
    ASSUME ~Preemption, NEW p \in Process, Undisturbed(p),
           pc'[p] \notin {"startTurn", "closeTurn"},
           \A q \in Process \ {p} : pc'[q] \in {pc[q], "starting"}
    PROVE  Counted'
BY DEF Counted, Undisturbed

(***************************************************************************)
(* A step that only moves the heartbeat on, but not past the watchdog.     *)
(***************************************************************************)
LEMMA HeartbeatMovesOn ==
    ASSUME ShutdownInv, NEW p \in Process, NEW l \in PCs \ {"absent", "starting"},
           pc[p] \notin {"absent", "starting"}, Goto(p, l),
           l \in {"beat", "watch"} \/ pc[p] \notin {"beat", "watch"},
           UNCHANGED <<shm, timers, session, attached, quitting, open_windows>>
    PROVE  /\ Registered' /\ NoticesDepartures' /\ OneSurvives'
           /\ OnlyOneStarts => OnlyOneStarts'
<1> USE DEF ShutdownInv, TypeOK, shm, timers
<1>1. \A q \in Process : /\ pc'[q] = "starting" <=> pc[q] = "starting"
                         /\ pc'[q] = "absent" <=> pc[q] = "absent"
  BY DEF Goto
<1>2. Shown' = Shown
  BY <1>1 DEF Shown
<1>3. Registered'
  BY <1>1, <1>2 DEF Registered, ConnectedSlots
<1>4. OnlyOneStarts => OnlyOneStarts'
  BY <1>1, <1>2 DEF OnlyOneStarts, OneStartAtATime, StartedBy, Connected
<1>5. \A s \in Slots : Departing(s)' <=> Departing(s)
  BY <1>2 DEF Departing
<1>6. NoticesDepartures'
  BY <1>2, <1>5 DEF NoticesDepartures, Connected, Goto
<1>7. OneSurvives'
  BY <1>1 DEF OneSurvives, Running
<1> QED BY <1>3, <1>4, <1>6, <1>7

(***************************************************************************)
(* The user launches the first instance.                                   *)
(***************************************************************************)
LEMMA LaunchKeepsInv ==
    ASSUME ~Preemption, ~UserInterferes, ShutdownInv, TypeOK',
           NEW q \in Process, Undisturbed(q), UserLaunch(q)
    PROVE  ShutdownInv' /\ (OnlyOneStarts => OnlyOneStarts')
<1> USE DEF ShutdownInv, TypeOK, shm, timers
<1>1. /\ \A p \in Process : pc[p] = "absent" 
      /\ pc' = [pc EXCEPT ![q] = "starting"]
      /\ \A s \in Slots : openholdem_PIDs[s] # q
      /\ UNCHANGED <<shm, timers, session, attached, quitting, open_windows>>
  BY DEF UserLaunch, Running, CanLaunch, Goto
<1>2. Shown = {} /\ Shown' = {}
  BY <1>1 DEF Shown
<1>3. Registered'
  BY <1>1, <1>2 DEF Registered, ConnectedSlots
<1>4. Counted'
  BY <1>1, NobodyInBetween
<1>5. OnlyOneStarts => OnlyOneStarts'
  BY <1>1, <1>2 DEF OnlyOneStarts, OneStartAtATime
<1>6. NoticesDepartures'
  BY <1>2 DEF NoticesDepartures
<1>7. q \notin quitting
  BY <1>2 DEF Registered
<1>8. OneSurvives'
  BY <1>1, <1>7 DEF OneSurvives
<1> QED BY <1>3, <1>4, <1>5, <1>6, <1>8

(***************************************************************************)
(* A new instance shows up: it was the only one under way, and its slot    *)
(* was nobody's.                                                           *)
(***************************************************************************)
LEMMA ShowUpKeepsInv ==
    ASSUME ~Preemption, ShutdownInv, TypeOK',
           NEW q \in Process, Undisturbed(q), ShowUp(q)
    PROVE  ShutdownInv' /\ (OnlyOneStarts => OnlyOneStarts')
<1> USE DEF ShutdownInv, TypeOK, SharedMemTypeOK
<1> DEFINE s == Lowest(FreeSlots)
<1>1. /\ s \in Slots
      /\ \A p \in Process : session[p] # s
  <2>1. FreeSlots \in SUBSET Nat /\ FreeSlots # {}
    BY SlotsAreNaturals DEF ShowUp, FreeSlots
  <2>2. s \in FreeSlots
    BY <2>1, LowestIsMember
  <2> HIDE DEF s
  <2> QED BY <2>2 DEF FreeSlots
<1>2. /\ pc[q] = "starting"
      /\ pc' = [pc EXCEPT ![q] = "beat"]
      /\ session' = [session EXCEPT ![q] = s]
      /\ openholdem_PIDs' = [openholdem_PIDs EXCEPT ![s] = q]
      /\ attached_poker_windows' = [attached_poker_windows EXCEPT ![s] = NoWindow]
      /\ UNCHANGED <<attached, quitting, open_windows>>
  BY DEF ShowUp, Goto, AquireOwnProcessID, MarkPokerWindowAsAttached
<1> HIDE DEF s
<1>3. /\ Shown' = Shown \union {q}
      /\ q \notin Shown
      /\ q \notin quitting
      /\ attached[q] = NoWindow
  BY <1>2 DEF Shown, Registered
<1>4. \A p \in Process, t \in Slots :
          pc'[p] = "starting" => openholdem_PIDs'[t] # p
  BY <1>1, <1>2, NullAssumption DEF Registered
<1>5. Registered'
  <2>1. \A p \in Shown' :
            /\ session'[p] \in Slots
            /\ openholdem_PIDs'[session'[p]] = p
            /\ attached_poker_windows'[session'[p]] = attached'[p]
    <3>1. ASSUME NEW p \in Shown
          PROVE  /\ p # q /\ p \in Process
                 /\ session'[p] = session[p] /\ session[p] # s
      BY <1>1, <1>2, <1>3 DEF Shown
    <3> QED BY <1>1, <1>2, <1>3, <3>1 DEF Registered
  <2>2. \A p \in Process \ Shown' :
            session'[p] = -1 /\ attached'[p] = NoWindow /\ p \notin quitting'
    BY <1>1, <1>2, <1>3 DEF Registered
  <2>3. \A t \in ConnectedSlots' : t \in ConnectedSlots /\ t # s
    BY <1>1, <1>2 DEF ConnectedSlots
  <2>4. \A t \in ConnectedSlots' : openholdem_PIDs'[t] \in Shown'
    BY <1>1, <1>2, <1>3, <2>3 DEF Registered, ConnectedSlots
  <2>5. \A t \in Slots : openholdem_PIDs'[t] \in Shown' =>
                             session'[openholdem_PIDs'[t]] = t
    BY <1>1, <1>2, <1>3 DEF Registered
  <2> QED BY <1>4, <2>1, <2>2, <2>4, <2>5 DEF Registered
<1>6. Counted'
  BY <1>2, NobodyInBetween
<1>7. OnlyOneStarts => OnlyOneStarts'
  <2> SUFFICES ASSUME OnlyOneStarts PROVE OnlyOneStarts'
    OBVIOUS
  <2>1. \A p \in Process : pc'[p] # "starting"
    BY <1>2 DEF OnlyOneStarts, OneStartAtATime
  <2> QED BY <2>1 DEF OnlyOneStarts, OneStartAtATime
<1>8. NoticesDepartures'
  <2> SUFFICES ASSUME NEW t \in Slots, NEW p \in Shown',
                      Departing(t)', ~Connected(p)', t # session'[p]
               PROVE  \/ t < session'[p]
                      \/ /\ ~waited'[p]
                         /\ openholdem_PIDs'[t] \in quitting' =>
                                openholdem_PIDs'[t] \in shorter_than_120'[p]
                      \/ /\ openholdem_PIDs'[t] \notin quitting'
                         /\ pc'[p] \in {"beat", "watch"}
    BY DEF NoticesDepartures
  <2>1. /\ ~waited'[q]
        /\ quitting \subseteq shorter_than_120'[q]
        /\ \A r \in Process \ {q} :
               /\ waited'[r] = waited[r]
               /\ shorter_than_120'[r] = shorter_than_120[r] \ {q}
    BY <1>3 DEF ShowUp
  <2>2. t # s
    BY <1>1, <1>2, <1>3 DEF Departing
  <2>3. openholdem_PIDs'[t] = openholdem_PIDs[t] /\ Departing(t)
    BY <1>2, <1>3, <2>2 DEF Departing
  <2>4. CASE p = q
    BY <1>2, <2>1, <2>4
  <2>5. CASE p # q
    <3>1. /\ p \in Shown
          /\ ~Connected(p)
          /\ session'[p] = session[p] /\ pc'[p] = pc[p]
      BY <1>2, <1>3, <2>5 DEF Connected
    <3>2. \/ t < session[p]
          \/ /\ ~waited[p]
             /\ openholdem_PIDs[t] \in quitting =>
                    openholdem_PIDs[t] \in shorter_than_120[p]
          \/ openholdem_PIDs[t] \notin quitting /\ pc[p] \in {"beat", "watch"}
      BY <2>3, <3>1 DEF NoticesDepartures
    <3>3. /\ waited'[p] = waited[p]
          /\ shorter_than_120'[p] = shorter_than_120[p] \ {q}
      BY <2>1, <2>5, <3>1 DEF Shown
    <3> QED BY <1>2, <1>3, <2>3, <3>1, <3>2, <3>3
  <2> QED BY <2>4, <2>5
<1>9. OneSurvives'
  BY <1>2, <1>3 DEF OneSurvives
<1> QED BY <1>5, <1>6, <1>7, <1>8, <1>9

(***************************************************************************)
(* An instance ends: its slot departs until a watchdog cleans it up.       *)
(***************************************************************************)
LEMMA ExitKeepsInv ==
    ASSUME ~Preemption, ShutdownInv, TypeOK',
           NEW p \in Process, Undisturbed(p), ExitInstance(p)
    PROVE  ShutdownInv' /\ (OnlyOneStarts => OnlyOneStarts')
<1> USE DEF ShutdownInv, TypeOK, SharedMemTypeOK
<1>1. /\ p \in Shown /\ p \in quitting
      /\ session[p] \in Slots /\ openholdem_PIDs[session[p]] = p
  BY DEF ExitInstance, Registered
<1>2. /\ pc' = [pc EXCEPT ![p] = "absent"]
      /\ session' = [session EXCEPT ![p] = -1]
      /\ attached' = [attached EXCEPT ![p] = NoWindow]
      /\ attached_poker_windows' =
             [attached_poker_windows EXCEPT ![session[p]] = NoWindow]
      /\ quitting' = quitting \ {p}
      /\ shorter_than_120' = [q \in Process |-> shorter_than_120[q] \ {p}]
      /\ UNCHANGED <<openholdem_PIDs, recently_started, waited, shorter_than_5,
                     open_windows>>
  BY DEF ExitInstance, Goto, MarkPokerWindowAsAttached
<1>3. Shown' = Shown \ {p}
  BY <1>2 DEF Shown
<1>4. Registered'
  <2>1. \A q \in Shown' :
            /\ session'[q] \in Slots
            /\ openholdem_PIDs'[session'[q]] = q
            /\ attached_poker_windows'[session'[q]] = attached'[q]
    BY <1>1, <1>2, <1>3 DEF Registered, Shown
  <2>2. \A q \in Process \ Shown' :
            session'[q] = -1 /\ attached'[q] = NoWindow /\ q \notin quitting'
    BY <1>1, <1>2, <1>3 DEF Registered
  <2>3. \A r \in Process, s \in Slots : pc'[r] = "starting" => openholdem_PIDs'[s] # r
    BY <1>2 DEF Registered
  <2>4. \A s \in ConnectedSlots' : s \in ConnectedSlots /\ s # session[p]
    BY <1>1, <1>2 DEF ConnectedSlots
  <2>5. \A s \in ConnectedSlots' : openholdem_PIDs'[s] \in Shown'
    BY <1>2, <1>3, <2>4 DEF Registered, ConnectedSlots
  <2>6. \A s \in Slots : openholdem_PIDs'[s] \in Shown' =>
                             session'[openholdem_PIDs'[s]] = s
    BY <1>1, <1>2, <1>3 DEF Registered, Shown
  <2> QED BY <2>1, <2>2, <2>3, <2>5, <2>6 DEF Registered
<1>5. Counted'
  BY <1>2, NobodyInBetween
<1>6. OnlyOneStarts => OnlyOneStarts'
  <2> SUFFICES ASSUME OnlyOneStarts PROVE OnlyOneStarts'
    OBVIOUS
  <2>1. ASSUME NEW r \in Process, pc'[r] = "starting"
        PROVE  \E q \in Process : StartedBy(q, r)'
    <3>1. PICK q \in Process : StartedBy(q, r)
      BY <1>1, <1>2, <2>1 DEF OnlyOneStarts, Shown
    <3>2. q # p /\ r # p
      BY <1>1, <1>2, <2>1, <3>1 DEF StartedBy
    <3>3. StartedBy(q, r)'
      BY <1>2, <1>3, <3>1, <3>2 DEF StartedBy, Connected, Shown
    <3> QED BY <3>3
  <2>2. OneStartAtATime'
    BY <1>2 DEF OnlyOneStarts, OneStartAtATime
  <2> QED BY <2>1, <2>2 DEF OnlyOneStarts
<1>7. NoticesDepartures'
  <2> SUFFICES ASSUME NEW s \in Slots, NEW q \in Shown',
                      Departing(s)', ~Connected(q)', s # session'[q]
               PROVE  \/ s < session'[q]
                      \/ /\ ~waited'[q]
                         /\ openholdem_PIDs'[s] \in quitting' =>
                                openholdem_PIDs'[s] \in shorter_than_120'[q]
                      \/ /\ openholdem_PIDs'[s] \notin quitting'
                         /\ pc'[q] \in {"beat", "watch"}
    BY DEF NoticesDepartures
  <2>1. /\ q \in Shown /\ q # p
        /\ ~Connected(q)
        /\ session'[q] = session[q] /\ pc'[q] = pc[q]
    BY <1>2, <1>3 DEF Connected, Shown
  <2>2. Departing(s)
    BY <1>1, <1>2, <1>3 DEF Departing
  <2>3. \/ s < session[q]
        \/ /\ ~waited[q]
           /\ openholdem_PIDs[s] \in quitting =>
                  openholdem_PIDs[s] \in shorter_than_120[q]
        \/ openholdem_PIDs[s] \notin quitting /\ pc[q] \in {"beat", "watch"}
    BY <2>1, <2>2 DEF NoticesDepartures
  <2>4. /\ shorter_than_120'[q] = shorter_than_120[q] \ {p}
        /\ openholdem_PIDs' = openholdem_PIDs /\ waited' = waited
    BY <1>2, <2>1 DEF Shown
  <2> QED BY <1>2, <2>1, <2>3, <2>4
<1>8. OneSurvives'
  BY <1>1, <1>2 DEF OneSurvives, Running
<1> QED BY <1>4, <1>5, <1>6, <1>7, <1>8

(***************************************************************************)
(* An instance takes or releases a table: its two minutes begin again, so  *)
(* all who are quitting by then will be gone when they are over.           *)
(***************************************************************************)
LEMMA TableChangeKeepsInv ==
    ASSUME ~Preemption, ShutdownInv, TypeOK',
           NEW p \in Process, Undisturbed(p),
           NEW w \in Window \union {NoWindow},
           pc[p] = "beat", Goto(p, "watch"),
           attached' = [attached EXCEPT ![p] = w],
           MarkPokerWindowAsAttached(session[p], w),
           RestartWait(p),
           UNCHANGED <<openholdem_PIDs, recently_started, shorter_than_5, session,
                       quitting, open_windows>>
    PROVE  ShutdownInv' /\ (OnlyOneStarts => OnlyOneStarts')
<1> USE DEF ShutdownInv, TypeOK, SharedMemTypeOK
<1>1. /\ p \in Shown
      /\ session[p] \in Slots /\ openholdem_PIDs[session[p]] = p
  BY DEF Shown, Registered
<1>2. /\ pc' = [pc EXCEPT ![p] = "watch"]
      /\ attached_poker_windows' = [attached_poker_windows EXCEPT ![session[p]] = w]
      /\ waited' = [waited EXCEPT ![p] = FALSE]
      /\ shorter_than_120' =
             [shorter_than_120 EXCEPT ![p] = Starting \union quitting]
  BY DEF Goto, MarkPokerWindowAsAttached, RestartWait
<1>3. Shown' = Shown
  BY <1>2 DEF Shown
<1>4. Registered'
  <2>1. \A q \in Shown' :
            /\ session'[q] \in Slots
            /\ openholdem_PIDs'[session'[q]] = q
            /\ attached_poker_windows'[session'[q]] = attached'[q]
    BY <1>1, <1>2, <1>3 DEF Registered, Shown
  <2>2. \A q \in Process \ Shown' :
            session'[q] = -1 /\ attached'[q] = NoWindow /\ q \notin quitting'
    BY <1>1, <1>3 DEF Registered
  <2>3. \A r \in Process, s \in Slots : pc'[r] = "starting" => openholdem_PIDs'[s] # r
    BY <1>2 DEF Registered
  <2>4. \A s \in ConnectedSlots' : s \in ConnectedSlots \/ s = session[p]
    BY <1>1, <1>2 DEF ConnectedSlots
  <2>5. \A s \in ConnectedSlots' : openholdem_PIDs'[s] \in Shown'
    BY <1>1, <1>3, <2>4 DEF Registered
  <2>6. \A s \in Slots : openholdem_PIDs'[s] \in Shown' =>
                             session'[openholdem_PIDs'[s]] = s
    BY <1>3 DEF Registered
  <2> QED BY <2>1, <2>2, <2>3, <2>5, <2>6 DEF Registered
<1>5. Counted'
  BY <1>2, NobodyInBetween
<1>6. OnlyOneStarts => OnlyOneStarts'
  <2> SUFFICES ASSUME OnlyOneStarts PROVE OnlyOneStarts'
    OBVIOUS
  <2>1. ASSUME NEW r \in Process, pc'[r] = "starting"
        PROVE  \E q \in Process : StartedBy(q, r)'
    <3>1. r \in Starting /\ pc[r] = "starting"
      BY <1>2, <2>1 DEF Starting
    <3>2. PICK q \in Process : StartedBy(q, r)
      BY <1>1, <3>1 DEF OnlyOneStarts
    <3>3. CASE q = p
      BY <1>2, <1>3, <3>1, <3>2, <3>3 DEF StartedBy, Connected
    <3>4. CASE q # p
      BY <1>2, <1>3, <3>2, <3>4 DEF StartedBy, Connected
    <3> QED BY <3>3, <3>4
  <2>2. OneStartAtATime'
    BY <1>2 DEF OnlyOneStarts, OneStartAtATime
  <2> QED BY <2>1, <2>2 DEF OnlyOneStarts
<1>7. NoticesDepartures'
  <2> SUFFICES ASSUME NEW s \in Slots, NEW q \in Shown',
                      Departing(s)', ~Connected(q)', s # session'[q]
               PROVE  \/ s < session'[q]
                      \/ /\ ~waited'[q]
                         /\ openholdem_PIDs'[s] \in quitting' =>
                                openholdem_PIDs'[s] \in shorter_than_120'[q]
                      \/ /\ openholdem_PIDs'[s] \notin quitting'
                         /\ pc'[q] \in {"beat", "watch"}
    BY DEF NoticesDepartures
  <2>1. Departing(s)
    BY <1>3 DEF Departing
  <2>2. CASE q = p
    BY <1>2, <2>2
  <2>3. CASE q # p
    <3>1. q \in Process /\ ~Connected(q)
      BY <1>3, <2>3 DEF Connected, Shown
    <3>2. \/ s < session[q]
          \/ /\ ~waited[q]
             /\ openholdem_PIDs[s] \in quitting =>
                    openholdem_PIDs[s] \in shorter_than_120[q]
          \/ openholdem_PIDs[s] \notin quitting /\ pc[q] \in {"beat", "watch"}
      BY <1>3, <2>1, <3>1 DEF NoticesDepartures
    <3> QED BY <1>2, <2>3, <3>1, <3>2
  <2> QED BY <2>2, <2>3
<1>8. OneSurvives'
  BY <1>1, <1>2 DEF OneSurvives, Running, Shown
<1> QED BY <1>4, <1>5, <1>6, <1>7, <1>8

(***************************************************************************)
(* The watchdog cleans up: no slot of an ended instance is left.           *)
(***************************************************************************)
LEMMA WatchdogKeepsInv ==
    ASSUME ~Preemption, ShutdownInv, TypeOK',
           NEW p \in Process, Undisturbed(p),
           WatchForCrashedProcesses(p)
    PROVE  ShutdownInv' /\ (OnlyOneStarts => OnlyOneStarts')
<1> USE DEF ShutdownInv, TypeOK, SharedMemTypeOK
<1> DEFINE Dead == {s \in Slots : IsDeadOpenHoldemProcess(s, Running)}
<1>1. /\ pc[p] = "watch" /\ pc' = [pc EXCEPT ![p] = "start"]
      /\ openholdem_PIDs' =
             [s \in Slots |-> IF s \in Dead THEN NoPID ELSE openholdem_PIDs[s]]
      /\ attached_poker_windows' =
             [s \in Slots |-> IF s \in Dead THEN NoWindow
                              ELSE attached_poker_windows[s]]
      /\ UNCHANGED <<timers, session, attached, quitting, open_windows>>
  BY DEF WatchForCrashedProcesses, CleanUpProcessMemory, Goto
<1>2. Shown' = Shown /\ p \in Shown
  BY <1>1 DEF Shown
<1>3. \A s \in Slots : openholdem_PIDs[s] \in Shown => s \notin Dead
  BY DEF IsDeadOpenHoldemProcess, Running, Shown
<1>4. \A s \in Slots : s \notin Dead => openholdem_PIDs[s] \in Shown \union {NoPID}
  BY DEF IsDeadOpenHoldemProcess, Running, Shown, Registered
<1> HIDE DEF Dead
<1> USE DEF timers
<1>5. Registered'
  <2>1. \A q \in Shown' :
            /\ session'[q] \in Slots
            /\ openholdem_PIDs'[session'[q]] = q
            /\ attached_poker_windows'[session'[q]] = attached'[q]
    BY <1>1, <1>2, <1>3 DEF Registered
  <2>2. \A q \in Process \ Shown' :
            session'[q] = -1 /\ attached'[q] = NoWindow /\ q \notin quitting'
    BY <1>1, <1>2 DEF Registered
  <2>3. \A r \in Process, s \in Slots : pc'[r] = "starting" => openholdem_PIDs'[s] # r
    BY <1>1, NullAssumption DEF Registered
  <2>4. \A s \in ConnectedSlots' : s \in ConnectedSlots /\ s \notin Dead
    BY <1>1 DEF ConnectedSlots
  <2>5. \A s \in ConnectedSlots' : openholdem_PIDs'[s] \in Shown'
    BY <1>1, <1>2, <2>4 DEF Registered, ConnectedSlots
  <2>6. NoPID \notin Shown
    BY NullAssumption DEF Shown
  <2>7. \A s \in Slots : openholdem_PIDs'[s] \in Shown' =>
                             session'[openholdem_PIDs'[s]] = s
    BY <1>1, <1>2, <2>6 DEF Registered
  <2> QED BY <2>1, <2>2, <2>3, <2>5, <2>7 DEF Registered
<1>6. Counted'
  BY <1>1, NobodyInBetween
<1>7. OnlyOneStarts => OnlyOneStarts'
  BY <1>1, <1>2 DEF OnlyOneStarts, OneStartAtATime, StartedBy, Connected
<1>8. NoticesDepartures'
  <2> SUFFICES ASSUME NEW s \in Slots, NEW q \in Shown',
                      Departing(s)', ~Connected(q)', s # session'[q]
               PROVE  \/ s < session'[q]
                      \/ /\ ~waited'[q]
                         /\ openholdem_PIDs'[s] \in quitting' =>
                                openholdem_PIDs'[s] \in shorter_than_120'[q]
                      \/ /\ openholdem_PIDs'[s] \notin quitting'
                         /\ pc'[q] \in {"beat", "watch"}
    BY DEF NoticesDepartures
  <2>1. s \notin Dead /\ openholdem_PIDs'[s] = openholdem_PIDs[s]
    BY <1>1 DEF Departing
  <2>2. openholdem_PIDs[s] \in Shown /\ openholdem_PIDs[s] \in quitting
    BY <1>1, <1>2, <1>4, <2>1 DEF Departing
  <2>3. Departing(s) /\ ~Connected(q) /\ q \in Shown /\ s # session[q]
    BY <1>1, <1>2, <2>1, <2>2 DEF Departing, Connected
  <2>4. \/ s < session[q]
        \/ /\ ~waited[q]
           /\ openholdem_PIDs[s] \in quitting =>
                  openholdem_PIDs[s] \in shorter_than_120[q]
        \/ openholdem_PIDs[s] \notin quitting /\ pc[q] \in {"beat", "watch"}
    BY <2>3 DEF NoticesDepartures
  <2> QED BY <1>1, <2>1, <2>2, <2>4
<1>9. OneSurvives'
  BY <1>1, <1>2 DEF OneSurvives, Running, Shown
<1> QED BY <1>5, <1>6, <1>7, <1>8, <1>9

(***************************************************************************)
(* An instance starts another one: it counted no unoccupied bot, so all    *)
(* slots with an instance have a table and its own is the lowest.          *)
(***************************************************************************)
LEMMA StartKeepsInv ==
    ASSUME ~Preemption, ShutdownInv, TypeOK',
           NEW p \in Process, Undisturbed(p), StartNewInstance(p)
    PROVE  /\ ShutdownInv'
           /\ OnlyOneStarts /\ p \notin quitting => OnlyOneStarts'
<1> USE DEF ShutdownInv, TypeOK, SharedMemTypeOK
<1>1. PICK q \in Process :
          /\ CanLaunch(q)
          /\ pc' = [pc EXCEPT ![p] = "close", ![q] = "starting"]
          /\ shorter_than_5' = [shorter_than_5 EXCEPT ![p] = Starting \union {q}]
  BY DEF StartNewInstance
<1>2. /\ pc[p] = "startTurn"
      /\ LowestConnectedSessionID = session[p]
      /\ recently_started' = [recently_started EXCEPT ![p] = TRUE]
      /\ UNCHANGED <<attached_poker_windows, openholdem_PIDs, waited,
                     shorter_than_120, session, attached, quitting, open_windows>>
  BY DEF StartNewInstance, shm
<1>3. /\ pc[q] = "absent" /\ q # p
      /\ \A s \in Slots : openholdem_PIDs[s] # q
  BY <1>1, <1>2 DEF CanLaunch
<1>4. /\ Shown' = Shown
      /\ p \in Shown
      /\ q \notin Shown
  BY <1>1, <1>2, <1>3 DEF Shown
<1>5. \A r \in Shown : session[r] \in ConnectedSlots
  <2>1. OccupiedSlots = ConnectedSlots
    BY <1>2, ConnectedAreOccupied, NoUnoccupiedBot DEF Counted
  <2>2. \A r \in Shown : session[r] \in OccupiedSlots
    BY NullAssumption DEF Registered, OccupiedSlots, Shown
  <2> QED BY <2>1, <2>2
<1>6. \A r \in Shown : session[p] <= session[r]
  <2>1. ConnectedSlots \in SUBSET Nat
    BY SlotsAreNaturals DEF ConnectedSlots
  <2>2. \A s \in ConnectedSlots : Lowest(ConnectedSlots) <= s
    BY <2>1, LowestIsLowest
  <2> QED BY <1>2, <1>5, <2>2 DEF LowestConnectedSessionID
<1>7. OnlyOneStarts => \A r \in Process : pc[r] # "starting"
  <2> SUFFICES ASSUME OnlyOneStarts, NEW r \in Process, pc[r] = "starting" PROVE FALSE
    OBVIOUS
  <2>1. PICK o \in Process : StartedBy(o, r)
    BY <1>4 DEF OnlyOneStarts
  <2>2. o \in Shown /\ session[o] <= session[p] /\ session[p] <= session[o]
    BY <1>4, <1>6, <2>1 DEF StartedBy
  <2>3. session[o] = session[p]
    <3>1. session[o] \in Slots /\ session[p] \in Slots
      BY <1>4, <2>2 DEF Registered
    <3>2. session[o] \in Nat /\ session[p] \in Nat
      BY <3>1, SlotsAreNaturals
    <3> QED BY <2>2, <3>2
  <2>4. o = p
    BY <1>4, <2>2, <2>3 DEF Registered
  <2> QED BY <1>2, <2>1, <2>4 DEF StartedBy, Counted
<1>8. Registered'
  BY <1>1, <1>2, <1>3, <1>4 DEF Registered, ConnectedSlots
<1>9. Counted'
  BY <1>1, <1>3, NobodyInBetween
<1>10. OnlyOneStarts /\ p \notin quitting => OnlyOneStarts'
  <2> SUFFICES ASSUME OnlyOneStarts, p \notin quitting PROVE OnlyOneStarts'
    OBVIOUS
  <2>1. Connected(p)
    BY <1>4, <1>5 DEF Registered, ConnectedSlots, Connected
  <2>2. StartedBy(p, q)'
    BY <1>1, <1>2, <1>4, <1>6, <2>1 DEF StartedBy, Connected
  <2>3. \A r \in Process : pc'[r] = "starting" => r = q
    BY <1>1, <1>3, <1>7
  <2> QED BY <2>2, <2>3 DEF OnlyOneStarts, OneStartAtATime
<1>11. NoticesDepartures'
  <2>1. \A s \in Slots : Departing(s)' <=> Departing(s)
    BY <1>2, <1>4 DEF Departing
  <2>2. \A r \in Shown : pc'[r] = pc[r] \/ pc[r] = "startTurn"
    BY <1>1, <1>2, <1>4 DEF Shown
  <2> QED BY <1>2, <1>4, <2>1, <2>2 DEF NoticesDepartures, Connected
<1>12. OneSurvives'
  BY <1>1, <1>2, <1>3, <1>4 DEF OneSurvives, Running, Shown
<1> QED BY <1>8, <1>9, <1>10, <1>11, <1>12

(***************************************************************************)
(* What an instance relies on when it shuts itself down: it counted two    *)
(* unoccupied bots, so there is another slot without a table, which is     *)
(* higher than its own and therefore not departing.                        *)
(***************************************************************************)
LEMMA ShutDownLeavesFreeInstance ==
    ASSUME ShutdownInv, NEW p \in Process, ShutDownThisInstance(p)
    PROVE  /\ \E q \in Process \ {p} : Free(q)
           /\ \A q \in Shown \ {p} : ~Connected(q) => session[p] < session[q]
<1> USE DEF ShutdownInv, TypeOK, SharedMemTypeOK
<1> DEFINE Unconnected == {s \in Slots : /\ openholdem_PIDs[s] # NoPID
                                        /\ attached_poker_windows[s] \notin open_windows}
<1>1. /\ pc[p] = "closeTurn" /\ NUnoccupiedBots > 1 /\ ~Connected(p) /\ waited[p]
      /\ session[p] = Lowest(Unconnected)
      /\ p \in Shown /\ session[p] \in Slots /\ openholdem_PIDs[session[p]] = p
  BY DEF ShutDownThisInstance, LowestUnconnectedSessionID, Counted, Registered, Shown
<1>2. /\ \A s \in Unconnected : session[p] <= s
      /\ session[p] \in Nat
  <2>1. Unconnected \in SUBSET Nat
    BY SlotsAreNaturals
  <2>2. \A s \in Unconnected : Lowest(Unconnected) <= s
    BY <2>1, LowestIsLowest
  <2> QED BY <1>1, <2>2, SlotsAreNaturals
<1>3. \A s \in OccupiedSlots \ ConnectedSlots : s \in Unconnected
  BY NullAssumption DEF OccupiedSlots, ConnectedSlots
<1> HIDE DEF Unconnected
<1>4. ASSUME NEW q \in Shown \ {p}, ~Connected(q)
      PROVE  session[p] < session[q]
  <2>1. /\ session[q] \in Slots /\ openholdem_PIDs[session[q]] = q
        /\ attached_poker_windows[session[q]] = NoWindow /\ q # NoPID
    BY <1>4, NullAssumption DEF Registered, Connected, Shown
  <2>2. session[q] \in Unconnected
    BY <1>3, <2>1 DEF OccupiedSlots, ConnectedSlots
  <2>3. session[q] # session[p] /\ session[p] <= session[q]
    BY <1>1, <1>2, <2>1, <2>2
  <2>4. session[q] \in Nat
    BY <2>1, SlotsAreNaturals
  <2> QED BY <1>2, <2>3, <2>4
<1>5. PICK r \in OccupiedSlots \ ConnectedSlots : r # session[p]
  <2>1. ConnectedSlots \subseteq OccupiedSlots
    BY ConnectedAreOccupied
  <2>2. NUnoccupiedBots > 1
    BY <1>1
  <2>3. \A s : \E r \in OccupiedSlots \ ConnectedSlots : r # s
    BY <2>1, <2>2, AnotherUnoccupiedBot
  <2> QED BY <2>3
<1>6. r \in Slots /\ openholdem_PIDs[r] # NoPID /\ attached_poker_windows[r] = NoWindow
  BY <1>5 DEF OccupiedSlots, ConnectedSlots
<1>7. ~(r < session[p])
  <2>1. r \in Nat /\ session[p] <= r
    BY <1>2, <1>3, <1>5, <1>6, SlotsAreNaturals
  <2> QED BY <1>2, <2>1
<1>8. ~Departing(r)
  BY <1>1, <1>5, <1>6, <1>7 DEF NoticesDepartures
<1>9. openholdem_PIDs[r] \in Shown \ quitting
  BY <1>6, <1>8 DEF Departing
<1>10. session[openholdem_PIDs[r]] = r
  BY <1>6, <1>9 DEF Registered
<1>11. Free(openholdem_PIDs[r]) /\ openholdem_PIDs[r] # p
  BY <1>1, <1>5, <1>6, <1>9, <1>10 DEF Registered, Free, Connected, Shown
<1> QED BY <1>4, <1>9, <1>11 DEF Shown

(***************************************************************************)
(* An instance shuts itself down: the other free ones have higher session  *)
(* IDs, so it is not their turn before they have noticed.                  *)
(***************************************************************************)
LEMMA ShutDownKeepsInv ==
    ASSUME ~Preemption, ShutdownInv, TypeOK',
           NEW p \in Process, Undisturbed(p), ShutDownThisInstance(p)
    PROVE  ShutdownInv' /\ (OnlyOneStarts => OnlyOneStarts')
<1> USE DEF ShutdownInv, TypeOK, SharedMemTypeOK
<1>1. /\ pc[p] = "closeTurn" /\ pc' = [pc EXCEPT ![p] = "beat"]
      /\ quitting' = quitting \union {p}
      /\ UNCHANGED <<attached_poker_windows, openholdem_PIDs, session, attached,
                     recently_started, waited, shorter_than_5, shorter_than_120,
                     open_windows>>
  BY DEF ShutDownThisInstance, Goto, shm, timers
<1>2. Shown' = Shown /\ p \in Shown
  BY <1>1 DEF Shown
<1>3. ~Connected(p) /\ waited[p]
  BY <1>1 DEF Counted
<1>4. Registered'
  BY <1>1, <1>2 DEF Registered, ConnectedSlots
<1>5. Counted'
  BY <1>1, NobodyInBetween
<1>6. OnlyOneStarts => OnlyOneStarts'
  <2> SUFFICES ASSUME OnlyOneStarts PROVE OnlyOneStarts'
    OBVIOUS
  <2>1. ASSUME NEW r \in Process, pc'[r] = "starting"
        PROVE  \E q \in Process : StartedBy(q, r)'
    <3>1. PICK q \in Process : StartedBy(q, r)
      BY <1>1, <1>2, <2>1 DEF OnlyOneStarts
    <3>2. q # p
      BY <1>3, <3>1 DEF StartedBy
    <3>3. StartedBy(q, r)'
      BY <1>1, <1>2, <3>1, <3>2 DEF StartedBy, Connected
    <3> QED BY <3>3
  <2>2. OneStartAtATime'
    BY <1>1 DEF OnlyOneStarts, OneStartAtATime
  <2> QED BY <2>1, <2>2 DEF OnlyOneStarts
<1>7. NoticesDepartures'
  <2> SUFFICES ASSUME NEW s \in Slots, NEW q \in Shown',
                      Departing(s)', ~Connected(q)', s # session'[q]
               PROVE  \/ s < session'[q]
                      \/ /\ ~waited'[q]
                         /\ openholdem_PIDs'[s] \in quitting' =>
                                openholdem_PIDs'[s] \in shorter_than_120'[q]
                      \/ /\ openholdem_PIDs'[s] \notin quitting'
                         /\ pc'[q] \in {"beat", "watch"}
    BY DEF NoticesDepartures
  <2>1. /\ q \in Shown /\ ~Connected(q) /\ s # session[q]
        /\ pc'[q] \in {pc[q], "beat"}
    BY <1>1, <1>2 DEF Connected, Shown
  <2>2. CASE openholdem_PIDs[s] = p
    <3>1. s = session[p] /\ q # p
      BY <1>2, <2>1, <2>2 DEF Registered
    <3> QED BY <1>1, <2>1, <3>1, ShutDownLeavesFreeInstance
  <2>3. CASE openholdem_PIDs[s] # p
    <3>1. Departing(s)
      BY <1>1, <1>2, <2>3 DEF Departing
    <3>2. \/ s < session[q]
          \/ /\ ~waited[q]
             /\ openholdem_PIDs[s] \in quitting =>
                    openholdem_PIDs[s] \in shorter_than_120[q]
          \/ openholdem_PIDs[s] \notin quitting /\ pc[q] \in {"beat", "watch"}
      BY <2>1, <3>1 DEF NoticesDepartures
    <3> QED BY <1>1, <2>1, <2>3, <3>2
  <2> QED BY <2>2, <2>3
<1>8. OneSurvives'
  <2>1. PICK q \in Process \ {p} : Free(q)
    BY ShutDownLeavesFreeInstance
  <2> QED BY <1>1, <2>1 DEF OneSurvives, Free
<1> QED BY <1>4, <1>5, <1>6, <1>7, <1>8

(***************************************************************************)
(* A timer runs out: what began before it has ended.                       *)
(***************************************************************************)
LEMMA TimerKeepsInv ==
    ASSUME ~Preemption, ShutdownInv, TypeOK', NEW p \in Process, Undisturbed(p),
           FiveSecondsPass(p) \/ TwoMinutesPass(p)
    PROVE  ShutdownInv' /\ (OnlyOneStarts => OnlyOneStarts')
<1> USE DEF ShutdownInv, TypeOK, SharedMemTypeOK
<1>1. /\ pc[p] = "beat"
      /\ UNCHANGED <<attached_poker_windows, openholdem_PIDs, pc, session, attached,
                     quitting, shorter_than_5, shorter_than_120, open_windows>>
      /\ \A q \in Process :
             /\ recently_started'[q] # recently_started[q] => shorter_than_5[q] = {}
             /\ waited'[q] # waited[q] => /\ shorter_than_120[q] = {}
                                         /\ q = p
  BY DEF FiveSecondsPass, TwoMinutesPass, shm
<1>2. Shown' = Shown
  BY <1>1 DEF Shown
<1>3. Registered'
  BY <1>1, <1>2 DEF Registered, ConnectedSlots
<1>4. Counted'
  BY <1>1, NobodyInBetween
<1>5. OnlyOneStarts => OnlyOneStarts'
  <2> SUFFICES ASSUME OnlyOneStarts PROVE OnlyOneStarts'
    OBVIOUS
  <2>1. \A q, r \in Process : StartedBy(q, r) => StartedBy(q, r)'
    BY <1>1, <1>2 DEF StartedBy, Connected
  <2> QED BY <1>1, <1>2, <2>1 DEF OnlyOneStarts, OneStartAtATime
<1>6. NoticesDepartures'
  <2> SUFFICES ASSUME NEW s \in Slots, NEW q \in Shown',
                      Departing(s)', ~Connected(q)', s # session'[q]
               PROVE  \/ s < session'[q]
                      \/ /\ ~waited'[q]
                         /\ openholdem_PIDs'[s] \in quitting' =>
                                openholdem_PIDs'[s] \in shorter_than_120'[q]
                      \/ /\ openholdem_PIDs'[s] \notin quitting'
                         /\ pc'[q] \in {"beat", "watch"}
    BY DEF NoticesDepartures
  <2>1. q \in Shown /\ ~Connected(q) /\ Departing(s) /\ s # session[q]
    BY <1>1, <1>2 DEF Connected, Departing
  <2>2. \/ s < session[q]
        \/ /\ ~waited[q]
           /\ openholdem_PIDs[s] \in quitting =>
                  openholdem_PIDs[s] \in shorter_than_120[q]
        \/ openholdem_PIDs[s] \notin quitting /\ pc[q] \in {"beat", "watch"}
    BY <2>1 DEF NoticesDepartures
  <2>3. waited'[q] # waited[q] => shorter_than_120[q] = {} /\ pc[q] = "beat"
    BY <1>1, <2>1 DEF Shown
  <2> QED BY <1>1, <2>2, <2>3
<1>7. OneSurvives'
  BY <1>1 DEF OneSurvives, Running
<1> QED BY <1>3, <1>4, <1>5, <1>6, <1>7

-----------------------------------------------------------------------------
(***************************************************************************)
(* A step of the heartbeat keeps the invariants, the one of the start as   *)
(* long as no quitting instance starts another one.                        *)
(***************************************************************************)
LEMMA HeartbeatKeepsInv ==
    ASSUME ~Preemption, ShutdownInv, TypeOK',
           NEW p \in Process, Undisturbed(p), Heartbeat(p)
    PROVE  /\ ShutdownInv'
           /\ OnlyOneStarts /\ p \notin quitting => OnlyOneStarts'
<1> DEFINE Kept == ShutdownInv' /\ (OnlyOneStarts => OnlyOneStarts')
<1>1. ASSUME NEW w \in Window, Connect(p, w) PROVE Kept
  BY <1>1, TableChangeKeepsInv DEF Connect
<1>2. CASE Disconnect(p)
  BY <1>2, TableChangeKeepsInv DEF Disconnect
<1>3. CASE WatchForCrashedProcesses(p)
  BY <1>3, WatchdogKeepsInv
<1>4. CASE StartNewInstance(p)
  BY <1>4, StartKeepsInv
<1>5. CASE ShutDownThisInstance(p)
  BY <1>5, ShutDownKeepsInv
<1>6. ASSUME NEW l \in {"beat", "watch", "close"}, Goto(p, l),
             pc[p] \notin {"absent", "starting"},
             l \in {"beat", "watch"} \/ pc[p] \notin {"beat", "watch"},
             UNCHANGED <<shm, timers, session, attached, quitting, open_windows>>
      PROVE  Kept
  <2>1. l \in PCs \ {"absent", "starting"}
    BY DEF PCs
  <2>2. Counted'
    BY <1>6, NobodyInBetween DEF Goto, ShutdownInv, TypeOK
  <2> QED BY <1>6, <2>1, <2>2, HeartbeatMovesOn DEF ShutdownInv
<1>7. CASE NoConnection(p)
  BY <1>6, <1>7 DEF NoConnection
<1>8. CASE NotMyBusinessToStart(p)
  BY <1>6, <1>8 DEF NotMyBusinessToStart
<1>9. CASE NotMyTurnToShutDown(p)
  BY <1>6, <1>9 DEF NotMyTurnToShutDown
<1>10. CASE CountForStart(p)
  <2>1. CASE Goto(p, "close")
    BY <1>6, <1>10, <2>1 DEF CountForStart
  <2>2. CASE Goto(p, "startTurn") /\ NUnoccupiedBots < 1 /\ ~recently_started[p]
    <3>1. Counted'
      BY <1>10, <2>2
         DEF CountForStart, Counted, Undisturbed, Goto, ShutdownInv, TypeOK,
             shm, timers, NUnoccupiedBots, NBotsPresent, NTablesConnected,
             ConnectedSlots
    <3> QED BY <1>10, <2>2, <3>1, HeartbeatMovesOn
            DEF CountForStart, ShutdownInv, PCs
  <2> QED BY <1>10, <2>1, <2>2 DEF CountForStart, kMinNumberOfUnoccupiedBotsNeeded
<1>11. CASE CountForShutdown(p)
  <2>1. CASE Goto(p, "beat")
    BY <1>6, <1>11, <2>1 DEF CountForShutdown
  <2>2. CASE /\ Goto(p, "closeTurn")
             /\ ~Connected(p) /\ NUnoccupiedBots > 1 /\ waited[p]
    <3>1. Counted'
      BY <1>11, <2>2
         DEF CountForShutdown, Counted, Undisturbed, Goto, ShutdownInv, TypeOK,
             shm, timers, Connected, NUnoccupiedBots, NBotsPresent,
             NTablesConnected, ConnectedSlots
    <3> QED BY <1>11, <2>2, <3>1, HeartbeatMovesOn
            DEF CountForShutdown, ShutdownInv, PCs
  <2> QED BY <1>11, <2>1, <2>2 DEF CountForShutdown, kMinNumberOfUnoccupiedBotsNeeded
<1> QED BY <1>1, <1>2, <1>3, <1>4, <1>5, <1>7, <1>8, <1>9, <1>10, <1>11
        DEF Heartbeat

(***************************************************************************)
(* A step of the instances that the user leaves alone, and of the tables.  *)
(***************************************************************************)
LEMMA StepKeepsInv ==
    ASSUME ~UserInterferes, ~Preemption, ShutdownInv, TypeOK', [Next]_vars
    PROVE  ShutdownInv' /\ (OnlyOneStarts /\ ~SlowQuit => OnlyOneStarts')
<1> DEFINE Kept == ShutdownInv' /\ (OnlyOneStarts /\ ~SlowQuit => OnlyOneStarts')
<1>1. ASSUME NEW q \in Process, Undisturbed(q), UserLaunch(q) PROVE Kept
  BY <1>1, LaunchKeepsInv
<1>2. ASSUME NEW q \in Process, Undisturbed(q), ShowUp(q) PROVE Kept
  BY <1>2, ShowUpKeepsInv
<1>3. ASSUME NEW p \in Process, Undisturbed(p), ExitInstance(p) PROVE Kept
  BY <1>3, ExitKeepsInv
<1>4. ASSUME NEW p \in Process, Undisturbed(p),
             FiveSecondsPass(p) \/ TwoMinutesPass(p)
      PROVE  Kept
  BY <1>4, TimerKeepsInv
<1>5. ASSUME NEW p \in Process, Undisturbed(p), Heartbeat(p) PROVE Kept
  <2>1. ~SlowQuit => p \notin quitting
    BY <1>5 DEF Heartbeat
  <2> QED BY <1>5, <2>1, HeartbeatKeepsInv
<1>6. CASE UNCHANGED <<shm, timers, pc, session, attached, quitting>>
  <2> USE <1>6
  <2> USE DEF shm, timers
  <2>1. Shown' = Shown
    BY DEF Shown
  <2>2. Registered' /\ Counted'
    BY <2>1 DEF ShutdownInv, Registered, Counted, ConnectedSlots, Connected,
                NUnoccupiedBots, NBotsPresent, NTablesConnected
  <2>3. OneSurvives'
    BY <2>1 DEF ShutdownInv, OneSurvives, Running
  <2>4. NoticesDepartures'
    BY <2>1 DEF ShutdownInv, NoticesDepartures, Departing, Connected
  <2>5. OnlyOneStarts => OnlyOneStarts'
    BY <2>1 DEF OnlyOneStarts, OneStartAtATime, StartedBy, Connected
  <2> QED BY <2>2, <2>3, <2>4, <2>5 DEF ShutdownInv
<1>7. ASSUME NEW w \in Window, OpenTable(w) \/ CloseTable(w) PROVE Kept
  BY <1>6, <1>7 DEF OpenTable, CloseTable
<1>8. CASE UNCHANGED vars
  BY <1>6, <1>8 DEF vars
<1> QED BY <1>1, <1>2, <1>3, <1>4, <1>5, <1>7, <1>8 DEF Next, UserClose

(***************************************************************************)
(* At first no instance runs.                                              *)
(***************************************************************************)
LEMMA InitialInv == Init /\ TypeOK => StarterInv
<1> SUFFICES ASSUME Init, TypeOK PROVE StarterInv
  OBVIOUS
<1>1. Shown = {} /\ \A p \in Process : pc[p] = "absent"
  BY DEF Init, Shown
<1>2. Registered
  BY <1>1, NullAssumption DEF Init, SharedMemInit, Registered, ConnectedSlots
<1>3. Counted /\ OnlyOneStarts
  BY <1>1 DEF Counted, OnlyOneStarts, OneStartAtATime
<1>4. NoticesDepartures /\ OneSurvives
  BY <1>1 DEF NoticesDepartures, OneSurvives, Running
<1> QED BY <1>2, <1>3, <1>4 DEF StarterInv, ShutdownInv

(***************************************************************************)
(* The invariant of the shutdown holds when the user leaves the instances  *)
(* alone and no other instance acts between the two reads of a check.  An  *)
(* instance may go on after it posted WM_QUIT, and even serve a table.     *)
(***************************************************************************)
THEOREM ShutdownInvariant ==
    ASSUME ~UserInterferes, ~Preemption
    PROVE  Spec => []ShutdownInv
<1>1. Init /\ TypeOK => ShutdownInv
  BY InitialInv DEF StarterInv
<1>2. ShutdownInv /\ TypeOK' /\ [Next]_vars => ShutdownInv'
  BY StepKeepsInv
<1> QED BY <1>1, <1>2, TypeCorrect, PTL DEF Spec

(***************************************************************************)
(* The invariant of the start holds as well if an instance that posted     *)
(* WM_QUIT ends before its next heartbeat.                                 *)
(***************************************************************************)
THEOREM InvariantHolds ==
    ASSUME ~UserInterferes, ~Preemption, ~SlowQuit
    PROVE  Spec => []StarterInv
<1>1. Init /\ TypeOK => StarterInv
  BY InitialInv
<1>2. StarterInv /\ TypeOK' /\ [Next]_vars => StarterInv'
  BY StepKeepsInv DEF StarterInv
<1> QED BY <1>1, <1>2, TypeCorrect, PTL DEF Spec

(***************************************************************************)
(* The checks of the auto-starter let only one new instance be on its way. *)
(***************************************************************************)
THEOREM NoFloodOfInstances ==
    ASSUME ~UserInterferes, ~Preemption, ~SlowQuit
    PROVE  Spec => []OneStartAtATime
<1>1. StarterInv => OneStartAtATime
  BY DEF StarterInv, OnlyOneStarts
<1> QED BY <1>1, InvariantHolds, PTL

(***************************************************************************)
(* The instances never shut each other down, not even if WM_QUIT waits.    *)
(***************************************************************************)
THEOREM SomeInstanceSurvives ==
    ASSUME ~UserInterferes, ~Preemption
    PROVE  Spec => []OneSurvives
<1>1. ShutdownInv => OneSurvives
  BY DEF ShutdownInv
<1> QED BY <1>1, ShutdownInvariant, PTL

(***************************************************************************)
(* An instance that shuts itself down leaves a free one behind, even if    *)
(* WM_QUIT waits.                                                          *)
(***************************************************************************)
THEOREM ShutDownKeepsOneAvailable ==
    ASSUME ~UserInterferes, ~Preemption
    PROVE  Spec => KeepsOneAvailable
<1>1. ShutdownInv /\ [Next]_vars => [LeavesOneAvailable]_vars
  BY ShutDownLeavesFreeInstance DEF LeavesOneAvailable
<1> QED BY <1>1, ShutdownInvariant, PTL DEF Spec, KeepsOneAvailable
=============================================================================
