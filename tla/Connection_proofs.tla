-------------------------- MODULE Connection_proofs --------------------------
(***************************************************************************)
(* Proofs about Connection for any set of tables, at every interleaving of *)
(* the threads.                                                            *)
(***************************************************************************)
EXTENDS Connection, TLAPS

Labels == {"top", "stopping", "ended"} \union Playing \union Busy

(***************************************************************************)
(* A step of a thread leads it from one of its labels to another one.      *)
(***************************************************************************)
LEMMA GotoLabel ==
    ASSUME TypeOK, NEW t \in Thread, NEW l \in Labels, Goto(t, l)
    PROVE  pc' \in [Thread -> Labels]
BY DEF TypeOK, Goto, Labels

(***************************************************************************)
(* EngageAutoplayer() leaves the mutex and the connection alone.           *)
(***************************************************************************)
LEMMA SwitchingKeepsTypes ==
    ASSUME TypeOK, NEW t \in Thread, NEW wanted \in BOOLEAN,
           NEW from, NEW to \in Labels,
           EnterEngageAutoplayer(t, from, to)
             \/ EngageAutoplayer(t, wanted, from, to)
    PROVE  TypeOK'
<1>1. pc' \in [Thread -> Labels]
  BY GotoLabel DEF EnterEngageAutoplayer, EngageAutoplayer, Step
<1>2. m_critsec' \in Thread \union {"none"} /\ _autoplayer_engaged' \in BOOLEAN
  <2>1. CASE EnterEngageAutoplayer(t, from, to)
    BY <2>1 DEF EnterEngageAutoplayer, TypeOK, flags
  <2>2. CASE EngageAutoplayer(t, wanted, from, to)
    <3>1. PICK engaged \in {FALSE, wanted} : _autoplayer_engaged' = engaged
      BY <2>2 DEF EngageAutoplayer
    <3>2. engaged \in BOOLEAN
      OBVIOUS
    <3> QED BY <2>2, <3>1, <3>2, Zenon DEF EngageAutoplayer
  <2> QED BY <2>1, <2>2
<1>3. UNCHANGED <<mutex, attached, _reset_on_connection_executed,
                  button_enabled, _m_stop_thread, bitmaps, open_windows>>
  BY DEF EnterEngageAutoplayer, EngageAutoplayer, flags
<1> QED BY <1>1, <1>2, <1>3 DEF TypeOK, Labels

(***************************************************************************)
(* Type correctness: in particular _attached_hwnd is the handle of a table *)
(* or NULL, and the two locks have one owner each.                         *)
(***************************************************************************)
THEOREM TypeCorrect == Spec => []TypeOK
<1>1. Init => TypeOK
  BY DEF Init, TypeOK
<1>2. TypeOK /\ [Next]_vars => TypeOK'
  <2> SUFFICES ASSUME TypeOK, [Next]_vars PROVE TypeOK'
    OBVIOUS
  <2> USE DEF Step, locks, flags
  <2>0. /\ TRUE \in BOOLEAN /\ FALSE \in BOOLEAN
        /\ "hb" \in Thread /\ "gui" \in Thread
        /\ Labels = {"top", "stopping", "ended", "select", "resetSymbols",
                     "buttonsOn", "engage", "engaging", "unlock", "disengage",
                     "disengaging", "lock", "detach", "buttonsOff",
                     "clearSymbols", "title", "switchOn", "switchingOn",
                     "switchOff", "switchingOff", "scrape", "evaluate",
                     "update", "validate", "decide", "act"}
    BY DEF Thread, Labels, Playing, Busy, Connecting, Disconnecting, Switching
  <2>1. ASSUME NEW l \in Labels, NEW t \in Thread, Goto(t, l)
        PROVE  pc' \in [Thread -> Labels]
    BY <2>1, GotoLabel
  <2> USE DEF TypeOK
  <2>2. ASSUME Connect("hb") PROVE TypeOK'
    <3>1. CASE LockForConnect("hb")
      BY <2>0, <2>1, <3>1 DEF LockForConnect, Labels
    <3>2. CASE SelectAndAttach("hb")
      BY <2>0, <2>1, <3>2 DEF SelectAndAttach, Labels
    <3>3. CASE FailedToConnect("hb")
      BY <2>0, <2>1, <3>3 DEF FailedToConnect, Labels
    <3>4. CASE UpdateOnConnection("hb")
      BY <2>0, <2>1, <3>4 DEF UpdateOnConnection, Labels
    <3>5. CASE ResetButtonsOnConnect("hb")
      BY <2>0, <2>1, <3>5 DEF ResetButtonsOnConnect, Labels
    <3>6. CASE EnterEngageAutoplayer("hb", "engage", "engaging")
      BY <2>0, <3>6, SwitchingKeepsTypes, Zenon
    <3>7. CASE EngageAutoplayer("hb", TRUE, "engaging", "unlock")
      BY <2>0, <3>7, SwitchingKeepsTypes, Zenon
    <3>8. CASE UnlockAfterConnect("hb")
      BY <2>0, <2>1, <3>8 DEF UnlockAfterConnect, Labels
    <3> QED BY <2>2, <3>1, <3>2, <3>3, <3>4, <3>5, <3>6, <3>7, <3>8
            DEF Connect
  <2>3. ASSUME NEW t \in Thread, Disconnect(t) PROVE TypeOK'
    <3>1. CASE EnterEngageAutoplayer(t, "disengage", "disengaging")
      BY <2>0, <3>1, SwitchingKeepsTypes, Zenon
    <3>2. CASE EngageAutoplayer(t, FALSE, "disengaging", "lock")
      BY <2>0, <3>2, SwitchingKeepsTypes, Zenon
    <3>3. CASE LockForDisconnect(t)
      BY <2>0, <2>1, <3>3 DEF LockForDisconnect, Labels
    <3>4. CASE Detach(t)
      BY <2>0, <2>1, <3>4 DEF Detach, Labels
    <3>5. CASE UnlockAfterDetach(t)
      BY <2>0, <2>1, <3>5 DEF UnlockAfterDetach, Labels
    <3>6. CASE ClearSymbols(t)
      BY <2>0, <2>1, <3>6 DEF ClearSymbols, Labels
    <3>7. CASE UpdateTitle(t, "title", "top")
      BY <2>0, <2>1, <3>7 DEF UpdateTitle, Labels
    <3> QED BY <2>3, <3>1, <3>2, <3>3, <3>4, <3>5, <3>6, <3>7
            DEF Disconnect
  <2>4. ASSUME Play PROVE TypeOK'
    <3>1. CASE StartHeartbeat
      BY <2>0, <2>1, <3>1 DEF StartHeartbeat, Labels
    <3>2. CASE Scrape
      BY <2>0, <2>1, <3>2 DEF Scrape, Labels
    <3>3. CASE EvaluateAll
      BY <2>0, <2>1, <3>3 DEF EvaluateAll, Labels
    <3>4. CASE UpdateGUI
      BY <2>0, <2>1, <3>4 DEF UpdateGUI, Labels
    <3>5. CASE Validate
      BY <2>0, <2>1, <3>5 DEF Validate, Labels
    <3>6. CASE EnterEngageAutoplayer("hb", "switchOff", "switchingOff")
      BY <2>0, <3>6, SwitchingKeepsTypes, Zenon
    <3>7. CASE EngageAutoplayer("hb", FALSE, "switchingOff", "decide")
      BY <2>0, <3>7, SwitchingKeepsTypes, Zenon
    <3>8. CASE Decide \/ DoAutoplayer
      BY <2>0, <2>1, <3>8 DEF Decide, DoAutoplayer, Labels
    <3> QED BY <2>4, <3>1, <3>2, <3>3, <3>4, <3>5, <3>6, <3>7, <3>8
            DEF Play
  <2>5. ASSUME SwitchAutoplayer PROVE TypeOK'
    <3>1. CASE EnterEngageAutoplayer("gui", "switchOff", "switchingOff")
      BY <2>0, <3>1, SwitchingKeepsTypes, Zenon
    <3>2. CASE EngageAutoplayer("gui", FALSE, "switchingOff", "top")
      BY <2>0, <3>2, SwitchingKeepsTypes, Zenon
    <3>3. CASE EnterEngageAutoplayer("gui", "switchOn", "switchingOn")
      BY <2>0, <3>3, SwitchingKeepsTypes, Zenon
    <3>4. CASE EngageAutoplayer("gui", TRUE, "switchingOn", "top")
      BY <2>0, <3>4, SwitchingKeepsTypes, Zenon
    <3> QED BY <2>5, <3>1, <3>2, <3>3, <3>4
            DEF SwitchAutoplayer
  <2>6. ASSUME FindReasonToDisconnect \/ EndThread \/ OnTimer \/ EnableButtons
                 \/ OnAutoplayer \/ DestroyWindow \/ StopThreads \/ ExitInstance
        PROVE TypeOK'
    <3>1. CASE FindReasonToDisconnect \/ EndThread \/ OnTimer
      BY <2>0, <2>1, <3>1 DEF FindReasonToDisconnect, EndThread, OnTimer, Labels
    <3>2. CASE EnableButtons \/ OnAutoplayer
      BY <2>0, <2>1, <3>2 DEF EnableButtons, OnAutoplayer, Connected, Labels
    <3>3. CASE DestroyWindow \/ StopThreads \/ ExitInstance
      BY <2>0, <2>1, <3>3 DEF DestroyWindow, StopThreads, ExitInstance, Labels
    <3> QED BY <2>6, <3>1, <3>2, <3>3
  <2>7. ASSUME Environment PROVE TypeOK'
    BY <2>7 DEF Environment, OtherInstanceLocks, OtherInstanceUnlocks,
                OpenTable, CloseTable
  <2>8. CASE UNCHANGED vars
    BY <2>8 DEF vars
  <2> QED BY <2>0, <2>2, <2>3, <2>4, <2>5, <2>6, <2>7, <2>8
          DEF Next, HeartbeatThread, GUIThread
<1> QED BY <1>1, <1>2, PTL DEF Spec

(***************************************************************************)
(* What the locks alone guarantee, however the two threads meet.           *)
(*   - A thread owns the autoconnector mutex from the Lock to the Unlock   *)
(*     of Connect() and Disconnect(), and the critical section while it    *)
(*     switches the autoplayer.                                            *)
(*   - Only the heartbeat thread connects, so nobody attaches a table      *)
(*     between the detaching of a Disconnect() and its Unlock(), nor while *)
(*     the heartbeat thread is still busy with its own Disconnect().       *)
(*   - The bitmaps get deleted while there is no table and no Connect().   *)
(***************************************************************************)
HoldsMutex == Connecting \union {"detach", "buttonsOff"}
HoldsCritsec == {"engaging", "disengaging", "switchingOn", "switchingOff"}

Ownership == \A t \in Thread :
    /\ mutex = t <=> pc[t] \in HoldsMutex
    /\ m_critsec = t <=> pc[t] \in HoldsCritsec

StaysDetached ==
    /\ pc["gui"] \notin Connecting
    /\ \A t \in Thread : pc[t] = "buttonsOff" => ~Connected
    /\ pc["hb"] = "clearSymbols" => ~Connected

TailIsPrompt ==
    pc["gui"] = "clearSymbols" => ~Connected /\ pc["hb"] \notin Connecting

LockInv ==
    /\ TypeOK
    /\ Ownership
    /\ StaysDetached
    /\ PromptDelete => TailIsPrompt /\ BitmapsWhileConnected

(***************************************************************************)
(* Both locks are owned where the code says, at every interleaving, and so *)
(* the parts of Connect() and Disconnect() they guard exclude each other.  *)
(***************************************************************************)
THEOREM LocksAreOwned == Spec => []LockInv
<1>1. Init => LockInv
  BY NullAssumption
     DEF Init, LockInv, TypeOK, Ownership, StaysDetached,
         TailIsPrompt, BitmapsWhileConnected, HoldsMutex,
         HoldsCritsec, Connected, Connecting, Busy, Switching, Disconnecting,
         Thread
<1>2. LockInv /\ TypeOK' /\ [Next]_vars => LockInv'
  <2> SUFFICES ASSUME LockInv, TypeOK', [Next]_vars PROVE LockInv'
    OBVIOUS
  <2>0. /\ Thread = {"gui", "hb"}
        /\ NoWindow \notin Window
    BY NullAssumption DEF Thread
  <2> USE <2>0 DEF LockInv, TypeOK, Ownership, StaysDetached,
             TailIsPrompt, BitmapsWhileConnected,
             HoldsMutex, HoldsCritsec, Connected, Step, Goto, locks,
             flags, Connecting, Busy, Switching, Disconnecting
  <2>1. ASSUME Connect("hb") PROVE LockInv'
    <3>1. CASE LockForConnect("hb")
      BY <3>1 DEF LockForConnect
    <3>2. CASE SelectAndAttach("hb")
      BY <3>2 DEF SelectAndAttach
    <3>3. CASE FailedToConnect("hb")
      BY <3>3 DEF FailedToConnect
    <3>4. CASE UpdateOnConnection("hb")
      BY <3>4 DEF UpdateOnConnection
    <3>5. CASE ResetButtonsOnConnect("hb")
      BY <3>5 DEF ResetButtonsOnConnect
    <3>6. CASE EnterEngageAutoplayer("hb", "engage", "engaging")
      BY <3>6 DEF EnterEngageAutoplayer
    <3>7. CASE EngageAutoplayer("hb", TRUE, "engaging", "unlock")
      BY <3>7 DEF EngageAutoplayer
    <3>8. CASE UnlockAfterConnect("hb")
      BY <3>8 DEF UnlockAfterConnect
    <3> QED BY <2>1, <3>1, <3>2, <3>3, <3>4, <3>5, <3>6, <3>7, <3>8
            DEF Connect
  <2>2. ASSUME Disconnect("hb") PROVE LockInv'
    <3>1. CASE EnterEngageAutoplayer("hb", "disengage", "disengaging")
      BY <3>1 DEF EnterEngageAutoplayer
    <3>2. CASE EngageAutoplayer("hb", FALSE, "disengaging", "lock")
      BY <3>2 DEF EngageAutoplayer
    <3>3. CASE LockForDisconnect("hb")
      BY <3>3 DEF LockForDisconnect
    <3>4. CASE Detach("hb")
      BY <3>4 DEF Detach
    <3>5. CASE UnlockAfterDetach("hb")
      BY <3>5 DEF UnlockAfterDetach
    <3>6. CASE ClearSymbols("hb")
      BY <3>6 DEF ClearSymbols
    <3>7. CASE UpdateTitle("hb", "title", "top")
      BY <3>7 DEF UpdateTitle
    <3> QED BY <2>2, <3>1, <3>2, <3>3, <3>4, <3>5, <3>6, <3>7
            DEF Disconnect
  <2>3. ASSUME Disconnect("gui") PROVE LockInv'
    <3>1. CASE EnterEngageAutoplayer("gui", "disengage", "disengaging")
      BY <3>1 DEF EnterEngageAutoplayer
    <3>2. CASE EngageAutoplayer("gui", FALSE, "disengaging", "lock")
      BY <3>2 DEF EngageAutoplayer
    <3>3. CASE LockForDisconnect("gui")
      BY <3>3 DEF LockForDisconnect
    <3>4. CASE Detach("gui")
      BY <3>4 DEF Detach
    <3>5. CASE UnlockAfterDetach("gui")
      BY <3>5 DEF UnlockAfterDetach
    <3>6. CASE ClearSymbols("gui")
      BY <3>6 DEF ClearSymbols
    <3>7. CASE UpdateTitle("gui", "title", "top")
      BY <3>7 DEF UpdateTitle
    <3> QED BY <2>3, <3>1, <3>2, <3>3, <3>4, <3>5, <3>6, <3>7
            DEF Disconnect
  <2>4. ASSUME Play PROVE LockInv'
    <3>1. CASE StartHeartbeat
      BY <3>1 DEF StartHeartbeat
    <3>2. CASE Scrape
      BY <3>2 DEF Scrape
    <3>3. CASE EvaluateAll
      BY <3>3 DEF EvaluateAll
    <3>4. CASE UpdateGUI
      BY <3>4 DEF UpdateGUI
    <3>5. CASE Validate
      BY <3>5 DEF Validate
    <3>6. CASE EnterEngageAutoplayer("hb", "switchOff", "switchingOff")
      BY <3>6 DEF EnterEngageAutoplayer
    <3>7. CASE EngageAutoplayer("hb", FALSE, "switchingOff", "decide")
      BY <3>7 DEF EngageAutoplayer
    <3>8. CASE Decide \/ DoAutoplayer
      BY <3>8 DEF Decide, DoAutoplayer
    <3> QED BY <2>4, <3>1, <3>2, <3>3, <3>4, <3>5, <3>6, <3>7, <3>8
            DEF Play
  <2>5. ASSUME SwitchAutoplayer PROVE LockInv'
    <3>1. CASE EnterEngageAutoplayer("gui", "switchOff", "switchingOff")
      BY <3>1 DEF EnterEngageAutoplayer
    <3>2. CASE EngageAutoplayer("gui", FALSE, "switchingOff", "top")
      BY <3>2 DEF EngageAutoplayer
    <3>3. CASE EnterEngageAutoplayer("gui", "switchOn", "switchingOn")
      BY <3>3 DEF EnterEngageAutoplayer
    <3>4. CASE EngageAutoplayer("gui", TRUE, "switchingOn", "top")
      BY <3>4 DEF EngageAutoplayer
    <3> QED BY <2>5, <3>1, <3>2, <3>3, <3>4
            DEF SwitchAutoplayer
  <2>6. ASSUME FindReasonToDisconnect \/ EndThread \/ OnTimer \/ EnableButtons
                 \/ OnAutoplayer \/ DestroyWindow \/ StopThreads \/ ExitInstance
        PROVE LockInv'
    <3>1. CASE FindReasonToDisconnect
      BY <3>1 DEF FindReasonToDisconnect
    <3>2. CASE OnTimer
      BY <3>2 DEF OnTimer
    <3>3. CASE OnAutoplayer
      BY <3>3 DEF OnAutoplayer
    <3>4. CASE EndThread \/ StopThreads \/ ExitInstance
      BY <3>4 DEF EndThread, StopThreads, ExitInstance
    <3>5. CASE EnableButtons \/ DestroyWindow
      BY <3>5 DEF EnableButtons, DestroyWindow
    <3> QED BY <2>6, <3>1, <3>2, <3>3, <3>4, <3>5
  <2>7. ASSUME Environment PROVE LockInv'
    BY <2>7 DEF Environment, OtherInstanceLocks, OtherInstanceUnlocks,
                OpenTable, CloseTable
  <2>8. CASE UNCHANGED vars
    BY <2>8 DEF vars
  <2> QED BY <2>1, <2>2, <2>3, <2>4, <2>5, <2>6, <2>7, <2>8
          DEF Next, HeartbeatThread, GUIThread
<1> QED BY <1>1, <1>2, TypeCorrect, PTL DEF Spec

(***************************************************************************)
(* What else holds if no thread starts to disconnect or to switch the      *)
(* autoplayer while the other one is busy with that.                       *)
(*   - What overlaps is only the tail of a Disconnect() of the GUI thread  *)
(*     with a Connect().                                                   *)
(*   - The table does not disappear below a thread that relies on it.      *)
(***************************************************************************)
OnlyTailsOverlap ==
    pc["gui"] \in Busy /\ pc["hb"] \in Busy =>
        pc["hb"] \in Connecting /\ pc["gui"] \in {"clearSymbols", "title"}

TableStays ==
    /\ pc["hb"] \in Connecting \ {"select"} => Connected
    /\ pc["gui"] \in Switching => Connected
    /\ \A t \in Thread :
           /\ pc[t] \in {"disengage", "disengaging", "lock", "detach"} => Connected
           /\ pc[t] \in {"lock", "detach"} => ~_autoplayer_engaged

ConnectionInv ==
    /\ LockInv
    /\ OnlyTailsOverlap
    /\ TableStays
    /\ AutoplayerNeedsTable

(***************************************************************************)
(* The invariant holds if there are no collisions.                         *)
(***************************************************************************)
THEOREM InvariantHolds == ASSUME ~Collisions PROVE Spec => []ConnectionInv
<1>1. Init /\ LockInv => ConnectionInv
  BY DEF Init, ConnectionInv, OnlyTailsOverlap, TableStays, AutoplayerNeedsTable,
         Connecting, Busy, Switching, Disconnecting, Thread
<1>2. ConnectionInv /\ LockInv' /\ [Next]_vars => ConnectionInv'
  <2> SUFFICES ASSUME ConnectionInv, LockInv', [Next]_vars PROVE ConnectionInv'
    OBVIOUS
  <2>0. /\ Thread = {"gui", "hb"}
        /\ NoWindow \notin Window
        /\ TypeOK /\ Ownership /\ StaysDetached
    BY NullAssumption DEF Thread, ConnectionInv, LockInv
  <2>9. ASSUME NEW t \in Thread, NEW from, NEW to,
               EngageAutoplayer(t, FALSE, from, to)
        PROVE  ~_autoplayer_engaged'
    <3>1. PICK engaged \in {FALSE, FALSE} : _autoplayer_engaged' = engaged
      BY <2>9 DEF EngageAutoplayer
    <3>2. engaged = FALSE
      BY Zenon
    <3> QED BY <3>1, <3>2, Zenon
  <2> USE <2>0 DEF ConnectionInv, TypeOK, Ownership, StaysDetached, OnlyTailsOverlap,
             TableStays, AutoplayerNeedsTable, HoldsMutex, HoldsCritsec, Connected, Alone, Step, Goto, locks,
             flags, Connecting, Busy, Switching, Disconnecting
  <2>1. ASSUME Connect("hb") PROVE ConnectionInv'
    <3>1. CASE LockForConnect("hb")
      BY <3>1 DEF LockForConnect
    <3>2. CASE SelectAndAttach("hb")
      BY <3>2 DEF SelectAndAttach
    <3>3. CASE FailedToConnect("hb")
      BY <3>3 DEF FailedToConnect
    <3>4. CASE UpdateOnConnection("hb")
      BY <3>4 DEF UpdateOnConnection
    <3>5. CASE ResetButtonsOnConnect("hb")
      BY <3>5 DEF ResetButtonsOnConnect
    <3>6. CASE EnterEngageAutoplayer("hb", "engage", "engaging")
      BY <3>6 DEF EnterEngageAutoplayer
    <3>7. CASE EngageAutoplayer("hb", TRUE, "engaging", "unlock")
      BY <3>7 DEF EngageAutoplayer
    <3>8. CASE UnlockAfterConnect("hb")
      BY <3>8 DEF UnlockAfterConnect
    <3> QED BY <2>1, <3>1, <3>2, <3>3, <3>4, <3>5, <3>6, <3>7, <3>8
            DEF Connect
  <2>2. ASSUME Disconnect("hb") PROVE ConnectionInv'
    <3>1. CASE EnterEngageAutoplayer("hb", "disengage", "disengaging")
      BY <3>1 DEF EnterEngageAutoplayer
    <3>2. CASE EngageAutoplayer("hb", FALSE, "disengaging", "lock")
      BY <3>2, <2>9 DEF EngageAutoplayer
    <3>3. CASE LockForDisconnect("hb")
      BY <3>3 DEF LockForDisconnect
    <3>4. CASE Detach("hb")
      BY <3>4 DEF Detach
    <3>5. CASE UnlockAfterDetach("hb")
      BY <3>5 DEF UnlockAfterDetach
    <3>6. CASE ClearSymbols("hb")
      BY <3>6 DEF ClearSymbols
    <3>7. CASE UpdateTitle("hb", "title", "top")
      BY <3>7 DEF UpdateTitle
    <3> QED BY <2>2, <3>1, <3>2, <3>3, <3>4, <3>5, <3>6, <3>7
            DEF Disconnect
  <2>3. ASSUME Disconnect("gui") PROVE ConnectionInv'
    <3>1. CASE EnterEngageAutoplayer("gui", "disengage", "disengaging")
      BY <3>1 DEF EnterEngageAutoplayer
    <3>2. CASE EngageAutoplayer("gui", FALSE, "disengaging", "lock")
      BY <3>2, <2>9 DEF EngageAutoplayer
    <3>3. CASE LockForDisconnect("gui")
      BY <3>3 DEF LockForDisconnect
    <3>4. CASE Detach("gui")
      BY <3>4 DEF Detach
    <3>5. CASE UnlockAfterDetach("gui")
      BY <3>5 DEF UnlockAfterDetach
    <3>6. CASE ClearSymbols("gui")
      BY <3>6 DEF ClearSymbols
    <3>7. CASE UpdateTitle("gui", "title", "top")
      BY <3>7 DEF UpdateTitle
    <3> QED BY <2>3, <3>1, <3>2, <3>3, <3>4, <3>5, <3>6, <3>7
            DEF Disconnect
  <2>4. ASSUME Play PROVE ConnectionInv'
    <3>1. CASE StartHeartbeat
      BY <3>1 DEF StartHeartbeat
    <3>2. CASE Scrape
      BY <3>2 DEF Scrape
    <3>3. CASE EvaluateAll
      BY <3>3 DEF EvaluateAll
    <3>4. CASE UpdateGUI
      BY <3>4 DEF UpdateGUI
    <3>5. CASE Validate
      BY <3>5 DEF Validate
    <3>6. CASE EnterEngageAutoplayer("hb", "switchOff", "switchingOff")
      BY <3>6 DEF EnterEngageAutoplayer
    <3>7. CASE EngageAutoplayer("hb", FALSE, "switchingOff", "decide")
      BY <3>7, <2>9 DEF EngageAutoplayer
    <3>8. CASE Decide \/ DoAutoplayer
      BY <3>8 DEF Decide, DoAutoplayer
    <3> QED BY <2>4, <3>1, <3>2, <3>3, <3>4, <3>5, <3>6, <3>7, <3>8
            DEF Play
  <2>5. ASSUME SwitchAutoplayer PROVE ConnectionInv'
    <3>1. CASE EnterEngageAutoplayer("gui", "switchOff", "switchingOff")
      BY <3>1 DEF EnterEngageAutoplayer
    <3>2. CASE EngageAutoplayer("gui", FALSE, "switchingOff", "top")
      BY <3>2, <2>9 DEF EngageAutoplayer
    <3>3. CASE EnterEngageAutoplayer("gui", "switchOn", "switchingOn")
      BY <3>3 DEF EnterEngageAutoplayer
    <3>4. CASE EngageAutoplayer("gui", TRUE, "switchingOn", "top")
      BY <3>4 DEF EngageAutoplayer
    <3> QED BY <2>5, <3>1, <3>2, <3>3, <3>4
            DEF SwitchAutoplayer
  <2>6. ASSUME FindReasonToDisconnect \/ EndThread \/ OnTimer \/ EnableButtons
                 \/ OnAutoplayer \/ DestroyWindow \/ StopThreads \/ ExitInstance
        PROVE ConnectionInv'
    <3>1. CASE FindReasonToDisconnect
      BY <3>1 DEF FindReasonToDisconnect
    <3>2. CASE OnTimer
      BY <3>2 DEF OnTimer, ConnectedToGoneWindow
    <3>3. CASE OnAutoplayer
      BY <3>3 DEF OnAutoplayer
    <3>4. CASE EndThread \/ StopThreads \/ ExitInstance
      BY <3>4 DEF EndThread, StopThreads, ExitInstance
    <3>5. CASE EnableButtons \/ DestroyWindow
      BY <3>5 DEF EnableButtons, DestroyWindow
    <3> QED BY <2>6, <3>1, <3>2, <3>3, <3>4, <3>5
  <2>7. ASSUME Environment PROVE ConnectionInv'
    BY <2>7 DEF Environment, OtherInstanceLocks, OtherInstanceUnlocks,
                OpenTable, CloseTable
  <2>8. CASE UNCHANGED vars
    BY <2>8 DEF vars
  <2> QED BY <2>1, <2>2, <2>3, <2>4, <2>5, <2>6, <2>7, <2>8
          DEF Next, HeartbeatThread, GUIThread
<1> QED BY <1>1, <1>2, LocksAreOwned, PTL DEF Spec

(***************************************************************************)
(* An engaged autoplayer has a table, whichever thread disconnects.        *)
(***************************************************************************)
THEOREM AutoplayerHasTable ==
    ASSUME ~Collisions PROVE Spec => []AutoplayerNeedsTable
<1>1. ConnectionInv => AutoplayerNeedsTable
  BY DEF ConnectionInv
<1> QED BY <1>1, InvariantHolds, PTL

(***************************************************************************)
(* The GUI thread does not wait for a lock of a heartbeat thread that      *)
(* waits for the GUI thread: the owner of the lock is busy, and two busy   *)
(* threads overlap only in the tail of a Disconnect(), which needs no lock.*)
(***************************************************************************)
THEOREM ThreadsDoNotFreeze == ASSUME ~Collisions PROVE Spec => []NoFreeze
<1>1. ConnectionInv => NoFreeze
  BY DEF ConnectionInv, LockInv, StaysDetached, NoFreeze,
         GUIWaitsForHeartbeat, Ownership, HoldsMutex,
         HoldsCritsec, OnlyTailsOverlap, Busy, Connecting, Disconnecting,
         Switching, Thread
<1> QED BY <1>1, InvariantHolds, PTL

(***************************************************************************)
(* A connected instance has the bitmaps of its scraper, however the two    *)
(* threads meet, if the GUI thread deletes the old ones before the next    *)
(* Connect().                                                              *)
(***************************************************************************)
THEOREM BitmapsOutliveConnection ==
    ASSUME PromptDelete PROVE Spec => []BitmapsWhileConnected
<1>1. LockInv => BitmapsWhileConnected
  BY DEF LockInv
<1> QED BY <1>1, LocksAreOwned, PTL
=============================================================================
