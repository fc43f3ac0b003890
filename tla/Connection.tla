---------------------------- MODULE Connection ----------------------------
(***************************************************************************)
(* The threads inside one OpenHoldem instance.  The heartbeat thread       *)
(* connects, plays and disconnects; the GUI thread, which also checks by a *)
(* timer that the table still exists, disconnects too and ends the         *)
(* instance.  They meet at the autoconnector mutex, at the critical section*)
(* of CAutoplayer and at the windows of the GUI: a control or a title that *)
(* the heartbeat thread sets is set by a message, and SendMessage returns  *)
(* only once the GUI thread is back in its message loop.                   *)
(***************************************************************************)
EXTENDS Naturals

CONSTANTS
    Window,       \* the window handles poker tables can have
    NoWindow,     \* the handle NULL
    Collisions,   \* a thread may start to disconnect or to switch the
                  \* autoplayer while the other one is busy with that, and
                  \* the user may click the autoplayer button in the 50 ms
                  \* that it outlives the connection
    PromptDelete, \* the GUI thread deletes the bitmaps of the scraper before
                  \* the heartbeat thread connects again
    InstanceEnds  \* the user or the auto-shutdown ends the instance

ASSUME NullAssumption == NoWindow \notin Window
ASSUME FlagAssumption == {Collisions, PromptDelete, InstanceEnds} \subseteq BOOLEAN

Thread == {"gui", "hb"}

VARIABLES
    pc,           \* thread -> what it is about to do
    mutex,        \* owner of the autoconnector mutex: a thread of this
                  \* instance, an "other" instance, or "none"
    m_critsec,    \* owner of the critical section of CAutoplayer, or "none"
    attached,     \* _attached_hwnd
    _autoplayer_engaged,
    _reset_on_connection_executed,
    button_enabled, \* the user may click the autoplayer button
    _m_stop_thread, \* the event that tells the heartbeat thread to stop
    bitmaps,      \* the bitmaps of the scraper exist
    open_windows  \* the poker tables that exist

locks == <<mutex, m_critsec>>
flags == <<_autoplayer_engaged, _reset_on_connection_executed, button_enabled,
           _m_stop_thread, bitmaps>>
vars == <<pc, locks, attached, flags, open_windows>>

\* The labels of Connect() and Disconnect(), in the order of the code.
Connecting == {"select", "resetSymbols", "buttonsOn", "engage", "engaging",
               "unlock"}
Disconnecting == {"disengage", "disengaging", "lock", "detach", "buttonsOff",
                  "clearSymbols", "title"}
Switching == {"switchOn", "switchingOn", "switchOff", "switchingOff"}
Playing == {"scrape", "evaluate", "update", "validate", "decide", "act"}

Busy == Connecting \union Disconnecting \union Switching

TypeOK ==
    /\ pc \in [Thread -> {"top", "stopping", "ended"} \union Playing \union Busy]
    /\ mutex \in Thread \union {"other", "none"}
    /\ m_critsec \in Thread \union {"none"}
    /\ attached \in Window \union {NoWindow}
    /\ _autoplayer_engaged \in BOOLEAN
    /\ _reset_on_connection_executed \in BOOLEAN
    /\ button_enabled \in BOOLEAN
    /\ _m_stop_thread \in BOOLEAN
    /\ bitmaps \in BOOLEAN
    /\ open_windows \subseteq Window

Init ==
    /\ pc = [t \in Thread |-> "top"]
    /\ mutex = "none"
    /\ m_critsec = "none"
    /\ attached = NoWindow
    /\ _autoplayer_engaged = FALSE
    /\ _reset_on_connection_executed = FALSE
    /\ button_enabled = FALSE
    /\ _m_stop_thread = FALSE
    /\ bitmaps = FALSE
    /\ open_windows = {}

\* "top" is the message loop of the GUI thread and the begin of a heartbeat.
Goto(t, l) == pc' = [pc EXCEPT ![t] = l]

Step(t, from, to) == pc[t] = from /\ Goto(t, to)

\* A message from t to a window of the GUI is handled.
Handled(t) == t = "gui" \/ pc["gui"] = "top"

\* No collision if t begins now.
Alone(t) == Collisions \/ \A u \in Thread \ {t} : pc[u] \notin Busy

Connected == attached # NoWindow

ConnectedToGoneWindow == Connected /\ attached \notin open_windows

-----------------------------------------------------------------------------
(* CAutoplayer::EngageAutoplayer.                                          *)

EnterEngageAutoplayer(t, from, to) ==
    /\ Step(t, from, to)
    /\ m_critsec = "none"
    /\ m_critsec' = t
    /\ UNCHANGED <<mutex, attached, flags, open_windows>>

\* The buttons get reset, the value does not.
EngageOnly(t, wanted, from, to) ==
    /\ Step(t, from, to)
    /\ Handled(t)
    /\ _autoplayer_engaged' = (_autoplayer_engaged \/ wanted)
    /\ m_critsec' = "none"
    /\ UNCHANGED <<mutex, attached, _reset_on_connection_executed,
                   button_enabled, _m_stop_thread, bitmaps, open_windows>>

\* Sets the buttons, then the value.  A bot with an invalid formula does not
\* get engaged.
EngageAutoplayer(t, wanted, from, to) ==
    /\ Step(t, from, to)
    /\ Handled(t)
    /\ \E engaged \in {FALSE, wanted} : _autoplayer_engaged' = engaged
    /\ m_critsec' = "none"
    /\ UNCHANGED <<mutex, attached, _reset_on_connection_executed,
                   button_enabled, _m_stop_thread, bitmaps, open_windows>>

-----------------------------------------------------------------------------
(* Connect(), called by the heartbeat thread.                              *)

\* Lock(500); a time-out changes nothing.  The owner of a Windows mutex may
\* lock it again.  Disconnect() deletes the bitmaps after its Unlock().
LockForConnect(t) ==
    /\ Step(t, "top", "select")
    /\ ~_m_stop_thread
    /\ ~Connected
    /\ PromptDelete => pc["gui"] # "clearSymbols"
    /\ mutex \in {"none", t}
    /\ mutex' = t
    /\ UNCHANGED <<m_critsec, attached, flags, open_windows>>

\* A selection that is not checked for kUndefined.
SelectUnchecked(t) ==
    /\ Step(t, "select", "resetSymbols")
    /\ \E w \in open_windows \union {"g_tlist[-1]"} : attached' = w
    /\ UNCHANGED <<locks, flags, open_windows>>

\* A table that exists and that no other instance serves.
SelectAndAttach(t) ==
    /\ Step(t, "select", "resetSymbols")
    /\ \E w \in open_windows : attached' = w
    /\ UNCHANGED <<locks, flags, open_windows>>

FailedToConnect(t) ==
    /\ Step(t, "select", "top")
    /\ mutex' = "none"
    /\ UNCHANGED <<m_critsec, attached, flags, open_windows>>

\* After the tablemap got loaded; creates the bitmaps first.
UpdateOnConnection(t) ==
    /\ Step(t, "resetSymbols", "buttonsOn")
    /\ bitmaps' = TRUE
    /\ _reset_on_connection_executed' = TRUE
    /\ UNCHANGED <<locks, attached, _autoplayer_engaged, button_enabled,
                   _m_stop_thread, open_windows>>

\* With the preference engage_autoplayer the autoplayer gets engaged next.
ResetButtonsOnConnect(t) ==
    /\ \E next \in {"engage", "unlock"} : Step(t, "buttonsOn", next)
    /\ Handled(t)
    /\ UNCHANGED <<locks, attached, flags, open_windows>>

\* A Connect() that returns between Lock() and Unlock().
ConnectKeepsMutex(t) ==
    /\ Step(t, "unlock", "top")
    /\ UNCHANGED <<locks, attached, flags, open_windows>>

UnlockAfterConnect(t) ==
    /\ Step(t, "unlock", "top")
    /\ mutex' = "none"
    /\ UNCHANGED <<m_critsec, attached, flags, open_windows>>

Connect(t) ==
    \/ LockForConnect(t)
    \/ SelectAndAttach(t)
    \/ FailedToConnect(t)
    \/ UpdateOnConnection(t)
    \/ ResetButtonsOnConnect(t)
    \/ EnterEngageAutoplayer(t, "engage", "engaging")
    \/ EngageAutoplayer(t, TRUE, "engaging", "unlock")
    \/ UnlockAfterConnect(t)

-----------------------------------------------------------------------------
(* Disconnect(), called by both threads.                                   *)

\* The table disappeared, its theme or the tablemaps changed.  After a
\* Disconnect() the heartbeat goes on with Connect(), as at its begin.
FindReasonToDisconnect ==
    /\ Step("hb", "top", "disengage")
    /\ ~_m_stop_thread
    /\ Connected
    /\ Alone("hb")
    /\ UNCHANGED <<locks, attached, flags, open_windows>>

\* A timer that does not ask for the connection, as it once was.
OnTimerChecksWindowOnly ==
    /\ Step("gui", "top", "disengage")
    /\ attached \notin open_windows
    /\ Alone("gui")
    /\ UNCHANGED <<locks, attached, flags, open_windows>>

\* CMainFrame::OnTimer asks whether the table disappeared; without a
\* connection neither it nor Disconnect() goes on.
OnTimer ==
    /\ Step("gui", "top", "disengage")
    /\ ConnectedToGoneWindow
    /\ Alone("gui")
    /\ UNCHANGED <<locks, attached, flags, open_windows>>

\* A Disconnect() that deletes the bitmaps before it detaches.
DeletesTooEarly(t) ==
    /\ Step(t, "lock", "detach")
    /\ mutex \in {"none", t}
    /\ mutex' = t
    /\ bitmaps' = FALSE
    /\ UNCHANGED <<m_critsec, attached, _autoplayer_engaged, button_enabled,
                   _reset_on_connection_executed, _m_stop_thread, open_windows>>

\* Lock(INFINITE)
LockForDisconnect(t) ==
    /\ Step(t, "lock", "detach")
    /\ mutex \in {"none", t}
    /\ mutex' = t
    /\ UNCHANGED <<m_critsec, attached, flags, open_windows>>

Detach(t) ==
    /\ Step(t, "detach", "buttonsOff")
    /\ _reset_on_connection_executed' = FALSE
    /\ attached' = NoWindow
    /\ UNCHANGED <<locks, _autoplayer_engaged, button_enabled, _m_stop_thread,
                   bitmaps, open_windows>>

\* ResetButtonsOnDisconnect, then Unlock.
UnlockAfterDetach(t) ==
    /\ Step(t, "buttonsOff", "clearSymbols")
    /\ Handled(t)
    /\ mutex' = "none"
    /\ UNCHANGED <<m_critsec, attached, flags, open_windows>>

\* Deletes the bitmaps and calls UpdateOnConnection once more.
ClearSymbols(t) ==
    /\ Step(t, "clearSymbols", "title")
    /\ bitmaps' = FALSE
    /\ _reset_on_connection_executed' = TRUE
    /\ UNCHANGED <<locks, attached, _autoplayer_engaged, button_enabled,
                   _m_stop_thread, open_windows>>

UpdateTitle(t, from, to) ==
    /\ Step(t, from, to)
    /\ Handled(t)
    /\ UNCHANGED <<locks, attached, flags, open_windows>>

Disconnect(t) ==
    \/ EnterEngageAutoplayer(t, "disengage", "disengaging")
    \/ EngageAutoplayer(t, FALSE, "disengaging", "lock")
    \/ LockForDisconnect(t)
    \/ Detach(t)
    \/ UnlockAfterDetach(t)
    \/ ClearSymbols(t)
    \/ UpdateTitle(t, "title", "top")

-----------------------------------------------------------------------------
(* ScrapeEvaluateAct().                                                    *)

StartHeartbeat ==
    /\ Step("hb", "top", "scrape")
    /\ ~_m_stop_thread
    /\ Connected /\ attached \in open_windows
    /\ UNCHANGED <<locks, attached, flags, open_windows>>

\* EvaluateAll() skips the symbols before UpdateOnConnection.
Scrape ==
    /\ IF _reset_on_connection_executed THEN Step("hb", "scrape", "evaluate")
                                        ELSE Step("hb", "scrape", "update")
    /\ UNCHANGED <<locks, attached, flags, open_windows>>

EvaluateAll ==
    /\ Step("hb", "evaluate", "update")
    /\ UNCHANGED <<locks, attached, flags, open_windows>>

\* The title and the dialogs.
UpdateGUI ==
    /\ Step("hb", "update", "validate")
    /\ Handled("hb")
    /\ UNCHANGED <<locks, attached, flags, open_windows>>

\* An invalid game state turns the autoplayer off.
Validate ==
    /\ \/ Step("hb", "validate", "decide")
       \/ Step("hb", "validate", "switchOff") /\ Alone("hb")
    /\ UNCHANGED <<locks, attached, flags, open_windows>>

\* DoAutoplayer() gets called if the autoplayer is engaged.
Decide ==
    /\ Step("hb", "decide", IF _autoplayer_engaged THEN "act" ELSE "top")
    /\ UNCHANGED <<locks, attached, flags, open_windows>>

DoAutoplayer ==
    /\ Step("hb", "act", "top")
    /\ UNCHANGED <<locks, attached, flags, open_windows>>

Play ==
    \/ StartHeartbeat
    \/ Scrape
    \/ EvaluateAll
    \/ UpdateGUI
    \/ Validate
    \/ EnterEngageAutoplayer("hb", "switchOff", "switchingOff")
    \/ EngageAutoplayer("hb", FALSE, "switchingOff", "decide")
    \/ Decide
    \/ DoAutoplayer

-----------------------------------------------------------------------------
(* The autoplayer button of the toolbar.  OnAutoplayer itself asks for no  *)
(* connection; a timer enables the button while there is one.              *)

EnableButtons ==
    /\ pc["gui"] = "top"
    /\ button_enabled # Connected
    /\ button_enabled' = Connected
    /\ UNCHANGED <<pc, locks, attached, _autoplayer_engaged,
                   _reset_on_connection_executed, _m_stop_thread, bitmaps,
                   open_windows>>

OnAutoplayer ==
    /\ Step("gui", "top", IF _autoplayer_engaged THEN "switchOff" ELSE "switchOn")
    /\ button_enabled
    /\ Connected \/ Collisions
    /\ Alone("gui")
    /\ UNCHANGED <<locks, attached, flags, open_windows>>

SwitchAutoplayer ==
    \/ EnterEngageAutoplayer("gui", "switchOff", "switchingOff")
    \/ EngageAutoplayer("gui", FALSE, "switchingOff", "top")
    \/ EnterEngageAutoplayer("gui", "switchOn", "switchingOn")
    \/ EngageAutoplayer("gui", TRUE, "switchingOn", "top")

-----------------------------------------------------------------------------
(* The end of the instance.                                                *)

\* The user closes the main window: CMainFrame::DestroyWindow deletes the
\* heartbeat thread, whose destructor sets the event and waits.
DestroyWindow ==
    /\ InstanceEnds
    /\ Step("gui", "top", "stopping")
    /\ _m_stop_thread' = TRUE
    /\ UNCHANGED <<locks, attached, _autoplayer_engaged, button_enabled,
                   _reset_on_connection_executed, bitmaps, open_windows>>

EndThread ==
    /\ _m_stop_thread
    /\ Step("hb", "top", "ended")
    /\ UNCHANGED <<locks, attached, flags, open_windows>>

\* The heartbeat thread waits until a message is handled.
Messaging(t) == pc[t] \in {"buttonsOn", "engaging", "disengaging", "buttonsOff",
                           "title", "update", "switchingOff"}

\* The destructor waits a minute at most, which is long enough for a
\* heartbeat thread that does not wait for the GUI.
StopThreads ==
    /\ Step("gui", "stopping", "ended")
    /\ pc["hb"] = "ended" \/ Messaging("hb")
    /\ UNCHANGED <<locks, attached, flags, open_windows>>

\* The auto-shutdown posts WM_QUIT: MFC leaves the message loop and calls
\* COpenHoldemApp::ExitInstance, which deletes the singletons.
ExitInstance ==
    /\ InstanceEnds
    /\ Step("gui", "top", "ended")
    /\ UNCHANGED <<locks, attached, flags, open_windows>>

-----------------------------------------------------------------------------
(* Other instances and tables.                                             *)

OtherInstanceLocks ==
    /\ mutex = "none"
    /\ mutex' = "other"
    /\ UNCHANGED <<pc, m_critsec, attached, flags, open_windows>>

OtherInstanceUnlocks ==
    /\ mutex = "other"
    /\ mutex' = "none"
    /\ UNCHANGED <<pc, m_critsec, attached, flags, open_windows>>

OpenTable(w) ==
    /\ w \notin open_windows
    /\ open_windows' = open_windows \union {w}
    /\ UNCHANGED <<pc, locks, attached, flags>>

CloseTable(w) ==
    /\ w \in open_windows
    /\ open_windows' = open_windows \ {w}
    /\ UNCHANGED <<pc, locks, attached, flags>>

-----------------------------------------------------------------------------
HeartbeatThread ==
    /\ pc["gui"] # "ended"
    /\ \/ Connect("hb")
       \/ FindReasonToDisconnect
       \/ Disconnect("hb")
       \/ Play
       \/ EndThread

GUIThread ==
    \/ OnTimer
    \/ Disconnect("gui")
    \/ EnableButtons
    \/ OnAutoplayer
    \/ SwitchAutoplayer
    \/ DestroyWindow
    \/ StopThreads
    \/ ExitInstance

Environment ==
    \/ OtherInstanceLocks
    \/ OtherInstanceUnlocks
    \/ \E w \in Window : OpenTable(w) \/ CloseTable(w)

Next == HeartbeatThread \/ GUIThread \/ Environment

Spec == Init /\ [][Next]_vars

(***************************************************************************)
(* Fairness: both threads get scheduled, other instances free the mutex,   *)
(* the kernel serves the waiters of a mutex in turn, and the user does not *)
(* click so fast that the timer never fires.                               *)
(***************************************************************************)
FairSpec ==
    /\ Spec
    /\ WF_vars(HeartbeatThread)
    /\ WF_vars(Disconnect("gui") \/ SwitchAutoplayer)
    /\ SF_vars(OnTimer)
    /\ WF_vars(OtherInstanceUnlocks)
    /\ \A t \in Thread : SF_vars(LockForDisconnect(t))

-----------------------------------------------------------------------------
(* Properties.                                                             *)

\* Disconnect() turns the autoplayer off before it waits for the mutex, and
\* Connect() turns it on before it frees the mutex: an engaged autoplayer has a
\* table, unless the two threads collide.
AutoplayerNeedsTable == _autoplayer_engaged => Connected

\* The GUI thread never waits for a lock of the heartbeat thread while this
\* waits for a message to be handled: Disconnect() of the one thread must
\* not freeze with Connect() or Disconnect() of the other.
GUIWaitsForHeartbeat ==
    \/ pc["gui"] \in {"disengage", "switchOn", "switchOff"} /\ m_critsec = "hb"
    \/ pc["gui"] = "lock" /\ mutex = "hb"

NoFreeze == ~(GUIWaitsForHeartbeat /\ Messaging("hb"))

\* The scraper has its bitmaps as long as the instance has a table, whichever
\* thread disconnects: Disconnect() detaches before it deletes them, and
\* Connect() creates new ones before the first scrape.
BitmapsWhileConnected ==
    Connected /\ pc["hb"] # "resetSymbols" => bitmaps

\* An instance does not stay connected to a table that disappeared, unless
\* it ends.
GoneTableGetsLeft ==
    \A w \in Window :
        attached = w /\ w \notin open_windows
            ~> \/ attached # w \/ w \in open_windows
               \/ pc["gui"] \in {"stopping", "ended"}

\* First all threads have to be stopped, then the singletons get deleted.
ThreadsStopFirst == pc["gui"] = "ended" => pc["hb"] = "ended"
=============================================================================
