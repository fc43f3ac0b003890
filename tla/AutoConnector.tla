--------------------------- MODULE AutoConnector ---------------------------
(***************************************************************************)
(* Several OpenHoldem instances on one machine: how each gets its session  *)
(* ID (CSessionCounter), how they find and claim poker tables              *)
(* (CAutoConnector, the named mutex "...AutoConnector"), and how they clean*)
(* up after instances that crashed or froze (CWatchdog).  One heartbeat    *)
(* thread per instance; the GUI thread of an instance is in Connection.tla.*)
(***************************************************************************)
EXTENDS SharedMem

CONSTANTS
    CanCrash,      \* instances may crash at any point
    PIDMayFail,    \* GetCurrentProcessId() may return 0
    KillMayFail,   \* TerminateProcess may be refused
    PromptCleanUp, \* a clean-up ends before a new process shares its PID
    HopperInUse    \* a hopper sends connect messages

ASSUME FlagAssumption ==
    {CanCrash, PIDMayFail, KillMayFail, PromptCleanUp, HopperInUse}
        \subseteq BOOLEAN

VARIABLES
    timestamps_openholdem_alive, \* slot -> age of the last sign of life
    pc,             \* where the heartbeat thread of each process is
    session,        \* process -> its session ID, -1 without one
    attached,       \* process -> _attached_hwnd
    mutex,          \* owner of the autoconnector mutex, or NoPID
    g_tlist,        \* process -> its list of candidate tables
    choice,         \* process -> the candidate it has selected
    victims,        \* process -> slots its watchdog is about to clean up
    recent_failure, \* an attempt to connect failed less than a second ago
    open_windows    \* the poker tables that exist

mem == <<shm, timestamps_openholdem_alive>>
conn == <<mutex, g_tlist, choice, recent_failure>>
vars == <<mem, conn, pc, session, attached, victims, open_windows>>

(***************************************************************************)
(* A time stamp matters only through its distance to the present:          *)
(* up to 15 s, up to 30 s, or more; the stamp 0 of a dead instance is      *)
(* decades old.                                                            *)
(***************************************************************************)
Age == {"alive", "frozen", "deep"}

NoSession == -1

PCs == {"absent", "launched", "session", "shared", "beat", "list", "select",
        "attach", "setup", "disconnect", "watch", "cleanCrashed", "frozen",
        "cleanFrozen", "closing"}

\* The steps inside the autoconnector mutex.
Critical == {"list", "select", "attach", "setup", "disconnect"}

TypeOK ==
    /\ SharedMemTypeOK
    /\ timestamps_openholdem_alive \in [Slots -> Age]
    /\ pc \in [Process -> PCs]
    /\ session \in [Process -> Slots \union {NoSession}]
    /\ attached \in [Process -> Window \union {NoWindow}]
    /\ mutex \in Process \union {NoPID}
    /\ g_tlist \in [Process -> SUBSET Window]
    /\ choice \in [Process -> Window \union {NoWindow}]
    /\ victims \in [Process -> SUBSET Slots]
    /\ recent_failure \in BOOLEAN
    /\ open_windows \subseteq Window

Init ==
    /\ SharedMemInit
    /\ timestamps_openholdem_alive = [s \in Slots |-> "deep"]
    /\ pc = [p \in Process |-> "absent"]
    /\ session = [p \in Process |-> NoSession]
    /\ attached = [p \in Process |-> NoWindow]
    /\ mutex = NoPID
    /\ g_tlist = [p \in Process |-> {}]
    /\ choice = [p \in Process |-> NoWindow]
    /\ victims = [p \in Process |-> {}]
    /\ recent_failure = FALSE
    /\ open_windows = {}

Running == {p \in Process : pc[p] # "absent"}

Goto(p, l) == pc' = [pc EXCEPT ![p] = l]

MarkInstancesAs(S, age) ==
    timestamps_openholdem_alive' =
        [s \in Slots |-> IF s \in S THEN age
                         ELSE timestamps_openholdem_alive[s]]

-----------------------------------------------------------------------------
(* Start-up, in the order of the constructors.                             *)

\* A user or the auto-starter launches an instance.  Windows does not hand
\* out a process ID again while the shared memory still holds it.
Launch(p) ==
    /\ pc[p] = "absent"
    /\ \A s \in Slots : openholdem_PIDs[s] # p
    /\ Goto(p, "launched")
    /\ UNCHANGED <<mem, conn, session, attached, victims, open_windows>>

\* A session counter that counts from one.
FreeSlotsFromOne == (1 .. MAX_SESSION_IDS) \ {session[p] : p \in Process}

\* The first session mutex that does not exist yet; the kernel lets a mutex
\* vanish with the process that owns it.  The 26th instance, which finds
\* none, is not modelled.
FreeSlots == Slots \ {session[p] : p \in Process}

\* CSessionCounter takes the slot, CWatchdog stamps it as alive.
OpenSession(p) ==
    /\ pc[p] = "launched"
    /\ FreeSlots # {}
    /\ LET s == Lowest(FreeSlots)
       IN  /\ session' = [session EXCEPT ![p] = s]
           /\ MarkInstancesAs({s}, "alive")
    /\ Goto(p, "session")
    /\ UNCHANGED <<attached_poker_windows, openholdem_PIDs, conn, attached,
                   victims, open_windows>>

\* CSharedMem shares the process ID.
ShareProcessID(p) ==
    /\ pc[p] = "session"
    /\ PromptCleanUp => \A q \in Process : session[p] \notin victims[q]
    /\ \E pid \in {p} \union (IF PIDMayFail THEN {NoPID} ELSE {}) :
           AquireOwnProcessID(session[p], pid)
    /\ Goto(p, "shared")
    /\ UNCHANGED <<attached_poker_windows, timestamps_openholdem_alive, conn,
                   session, attached, victims, open_windows>>

\* CAutoConnector starts unconnected and clears what its slot still holds.
StartAutoConnector(p) ==
    /\ pc[p] = "shared"
    /\ MarkPokerWindowAsAttached(session[p], NoWindow)
    /\ attached' = [attached EXCEPT ![p] = NoWindow]
    /\ Goto(p, "beat")
    /\ UNCHANGED <<openholdem_PIDs, timestamps_openholdem_alive, conn,
                   session, victims, open_windows>>

-----------------------------------------------------------------------------
(* Connect().                                                              *)

Connected(p) == attached[p] # NoWindow

IsConnectedToGoneWindow(p) == Connected(p) /\ attached[p] \notin open_windows

\* The heartbeat calls Connect() when it is not connected and nobody failed
\* recently; a hopper's message calls it at any time.
WantsToConnect(p) ==
    /\ pc[p] = "beat"
    /\ \/ ~Connected(p) /\ ~recent_failure
       \/ HopperInUse

\* A Connect() that goes on after the time-out.
LockAnyway(p) ==
    /\ WantsToConnect(p)
    /\ mutex' = p
    /\ g_tlist' = [g_tlist EXCEPT ![p] = {}]
    /\ Goto(p, "list")
    /\ UNCHANGED <<mem, session, attached, victims, choice, recent_failure,
                   open_windows>>

LockForConnect(p) ==
    /\ WantsToConnect(p)
    /\ mutex = NoPID
    /\ mutex' = p
    /\ g_tlist' = [g_tlist EXCEPT ![p] = {}]
    /\ Goto(p, "list")
    /\ UNCHANGED <<mem, session, attached, victims, choice, recent_failure,
                   open_windows>>

\* Lock(500) times out while another instance is in its critical section.
ConnectTimesOut(p) ==
    /\ WantsToConnect(p)
    /\ mutex # NoPID
    /\ Goto(p, "watch")
    /\ UNCHANGED <<mem, conn, session, attached, victims, open_windows>>

\* An unconnected instance that may not try, and a connected one that plays.
SkipConnect(p) ==
    /\ pc[p] = "beat"
    /\ IF Connected(p) THEN attached[p] \in open_windows ELSE recent_failure
    /\ Goto(p, "watch")
    /\ UNCHANGED <<mem, conn, session, attached, victims, open_windows>>

\* EnumWindows, or a hopper's message, names tables; those that no instance
\* serves become candidates.
ListCandidates(p) ==
    /\ pc[p] = "list"
    /\ \E named \in {open_windows} \union
                     (IF HopperInUse THEN {{w} : w \in open_windows} ELSE {}) :
           g_tlist' = [g_tlist EXCEPT ![p] =
                           {w \in named : ~PokerWindowAttached(w)}]
    /\ Goto(p, "select")
    /\ UNCHANGED <<mem, session, attached, mutex, choice, recent_failure,
                   victims, open_windows>>

\* A failing Connect() that returns without Unlock().
SelectKeepsMutex(p) ==
    /\ pc[p] = "select"
    /\ LET free == {w \in g_tlist[p] : ~PokerWindowAttached(w)}
       IN  \/ /\ \E w \in free : choice' = [choice EXCEPT ![p] = w]
              /\ Goto(p, "attach")
              /\ UNCHANGED recent_failure
           \/ /\ free = {}
              /\ recent_failure' = TRUE
              /\ Goto(p, "watch")
              /\ UNCHANGED choice
    /\ g_tlist' = [g_tlist EXCEPT ![p] = {}]
    /\ UNCHANGED <<mem, mutex, session, attached, victims, open_windows>>

\* The first candidate that is still not attached; without one the failure
\* is remembered for all instances.
SelectTableMapAndWindowAutomatically(p) ==
    /\ pc[p] = "select"
    /\ LET free == {w \in g_tlist[p] : ~PokerWindowAttached(w)}
       IN  \/ /\ \E w \in free : choice' = [choice EXCEPT ![p] = w]
              /\ Goto(p, "attach")
              /\ UNCHANGED <<mutex, recent_failure>>
           \/ /\ free = {}
              /\ recent_failure' = TRUE
              /\ mutex' = NoPID
              /\ Goto(p, "watch")
              /\ UNCHANGED choice
    /\ g_tlist' = [g_tlist EXCEPT ![p] = {}]
    /\ UNCHANGED <<mem, session, attached, victims, open_windows>>

\* set_attached_hwnd without the entry in the shared memory.
AttachLocally(p) ==
    /\ pc[p] = "attach"
    /\ attached' = [attached EXCEPT ![p] = choice[p]]
    /\ choice' = [choice EXCEPT ![p] = NoWindow]
    /\ Goto(p, "setup")
    /\ UNCHANGED <<mem, session, mutex, g_tlist, recent_failure, victims,
                   open_windows>>

\* set_attached_hwnd
Attach(p) ==
    /\ pc[p] = "attach"
    /\ attached' = [attached EXCEPT ![p] = choice[p]]
    /\ MarkPokerWindowAsAttached(session[p], choice[p])
    /\ choice' = [choice EXCEPT ![p] = NoWindow]
    /\ Goto(p, "setup")
    /\ UNCHANGED <<openholdem_PIDs, timestamps_openholdem_alive, session,
                   mutex, g_tlist, recent_failure, victims, open_windows>>

\* Tablemap, bitmaps, symbols and GUI are set up before the mutex is free.
UnlockAfterConnect(p) ==
    /\ pc[p] = "setup"
    /\ mutex' = NoPID
    /\ Goto(p, "watch")
    /\ UNCHANGED <<mem, session, attached, g_tlist, choice, recent_failure,
                   victims, open_windows>>

-----------------------------------------------------------------------------
(* Disconnect(): because the table is gone, or because of a changed theme, *)
(* changed tablemaps or a hopper.                                          *)

LockForDisconnect(p) ==
    /\ pc[p] = "beat"
    /\ Connected(p)
    /\ mutex = NoPID
    /\ mutex' = p
    /\ Goto(p, "disconnect")
    /\ UNCHANGED <<mem, session, attached, g_tlist, choice, recent_failure,
                   victims, open_windows>>

\* A Disconnect() that frees the mutex and forgets the shared entry.
DetachLocally(p) ==
    /\ pc[p] = "disconnect"
    /\ attached' = [attached EXCEPT ![p] = NoWindow]
    /\ mutex' = NoPID
    /\ \E l \in {"beat", "watch"} : Goto(p, l)
    /\ UNCHANGED <<mem, session, g_tlist, choice,
                   recent_failure, victims, open_windows>>

Detach(p) ==
    /\ pc[p] = "disconnect"
    /\ attached' = [attached EXCEPT ![p] = NoWindow]
    /\ MarkPokerWindowAsAttached(session[p], NoWindow)
    /\ mutex' = NoPID
    /\ \E l \in {"beat", "watch"} : Goto(p, l)
    /\ UNCHANGED <<openholdem_PIDs, timestamps_openholdem_alive, session,
                   g_tlist, choice, recent_failure, victims, open_windows>>

-----------------------------------------------------------------------------
(* CWatchdog::HandleCrashedAndFrozenProcesses.                             *)

\* Without a shared process ID of its own the watchdog is off.
WatchdogOff(p) ==
    /\ pc[p] = "watch"
    /\ openholdem_PIDs[session[p]] = NoPID
    /\ Goto(p, "beat")
    /\ UNCHANGED <<mem, conn, session, attached, victims, open_windows>>

\* A watchdog that takes every process in another slot for dead.
FindAnyProcess(p) ==
    /\ pc[p] = "watch"
    /\ openholdem_PIDs[session[p]] # NoPID
    /\ MarkInstancesAs({session[p]}, "alive")
    /\ victims' = [victims EXCEPT ![p] =
                       {s \in Slots : openholdem_PIDs[s] \notin {p, NoPID}}]
    /\ Goto(p, "cleanCrashed")
    /\ UNCHANGED <<attached_poker_windows, openholdem_PIDs, conn, session,
                   attached, open_windows>>

\* MarkThisInstanceAsAlive, then the reads of WatchForCrashedProcesses.
FindCrashedProcesses(p) ==
    /\ pc[p] = "watch"
    /\ openholdem_PIDs[session[p]] # NoPID
    /\ MarkInstancesAs({session[p]}, "alive")
    /\ victims' = [victims EXCEPT ![p] =
                       {s \in Slots : IsDeadOpenHoldemProcess(s, Running)}]
    /\ Goto(p, "cleanCrashed")
    /\ UNCHANGED <<attached_poker_windows, openholdem_PIDs, conn, session,
                   attached, open_windows>>

\* MarkInstanceAsDead and CleanUpProcessMemory for the slots found.
CleanUpVictims(p) ==
    /\ MarkInstancesAs(victims[p], "deep")
    /\ CleanUpProcessMemory(victims[p])
    /\ victims' = [victims EXCEPT ![p] = {}]

CleanUpCrashed(p) ==
    /\ pc[p] = "cleanCrashed"
    /\ CleanUpVictims(p)
    /\ Goto(p, "frozen")
    /\ UNCHANGED <<conn, session, attached, open_windows>>

OccupiedOfAge(age) ==
    {s \in Slots : /\ openholdem_PIDs[s] # NoPID
                   /\ timestamps_openholdem_alive[s] = age}

\* The processes in K end: their session mutex is free, their autoconnector
\* mutex abandoned, which the next Lock() gets like a free one.
Terminate(K) ==
    /\ session' = [p \in Process |-> IF p \in K THEN NoSession ELSE session[p]]
    /\ attached' = [p \in Process |-> IF p \in K THEN NoWindow ELSE attached[p]]
    /\ g_tlist' = [p \in Process |-> IF p \in K THEN {} ELSE g_tlist[p]]
    /\ choice' = [p \in Process |-> IF p \in K THEN NoWindow ELSE choice[p]]
    /\ mutex' = IF mutex \in K THEN NoPID ELSE mutex

\* OpenHoldemProcessID(session_ID) asks the system again if the own slot
\* holds 0.
TryToReacquireProcessID(p) ==
    IF openholdem_PIDs[session[p]] = NoPID
    THEN \E pid \in {p} \union (IF PIDMayFail THEN {NoPID} ELSE {}) :
             AquireOwnProcessID(session[p], pid)
    ELSE UNCHANGED openholdem_PIDs

\* WatchForFrozenProcesses: kills an instance without a sign of life for
\* more than 15 seconds, but stamps it anew if that was more than 30 seconds.
\* The result of KillProcess is not looked at.
KillFrozenProcesses(p) ==
    /\ pc[p] = "frozen"
    /\ LET F == OccupiedOfAge("frozen") \ {session[p]}
           T == {openholdem_PIDs[s] : s \in F}
       IN  \E K \in (IF KillMayFail THEN SUBSET T ELSE {T}) :
               /\ Terminate(K)
               /\ pc' = [q \in Process |->
                            IF q \in K THEN "absent"
                            ELSE IF q = p THEN "cleanFrozen" ELSE pc[q]]
               /\ victims' = [q \in Process |->
                            IF q \in K THEN {}
                            ELSE IF q = p THEN F ELSE victims[q]]
    /\ MarkInstancesAs(OccupiedOfAge("deep"), "alive")
    /\ TryToReacquireProcessID(p)
    /\ UNCHANGED <<attached_poker_windows, recent_failure, open_windows>>

CleanUpFrozen(p) ==
    /\ pc[p] = "cleanFrozen"
    /\ CleanUpVictims(p)
    /\ Goto(p, "beat")
    /\ UNCHANGED <<conn, session, attached, open_windows>>

-----------------------------------------------------------------------------
(* The end of an instance.                                                 *)

\* The user closes an instance; the heartbeat thread stops at the top of its
\* loop, then the destructor of the autoconnector clears the attached table.
Close(p) ==
    /\ pc[p] = "beat"
    /\ attached' = [attached EXCEPT ![p] = NoWindow]
    /\ MarkPokerWindowAsAttached(session[p], NoWindow)
    /\ Goto(p, "closing")
    /\ UNCHANGED <<openholdem_PIDs, timestamps_openholdem_alive, conn,
                   session, victims, open_windows>>

\* The destructors of CWatchdog and CSessionCounter.  The process ID stays in
\* the shared memory.
CloseSession(p) ==
    /\ pc[p] = "closing"
    /\ MarkInstancesAs({session[p]}, "deep")
    /\ session' = [session EXCEPT ![p] = NoSession]
    /\ Goto(p, "absent")
    /\ UNCHANGED <<attached_poker_windows, openholdem_PIDs, conn, attached,
                   victims, open_windows>>

\* The shared memory keeps everything a crashed instance wrote.
Crash(p) ==
    /\ CanCrash
    /\ pc[p] # "absent"
    /\ Terminate({p})
    /\ victims' = [victims EXCEPT ![p] = {}]
    /\ Goto(p, "absent")
    /\ UNCHANGED <<mem, recent_failure, open_windows>>

-----------------------------------------------------------------------------
(* The world around the instances.                                         *)

\* Time passes: a slot without a sign of life gets 15 s older.  An instance
\* that waits long inside one heartbeat looks frozen although it is not.
GetOlder(s) ==
    /\ openholdem_PIDs[s] # NoPID
    /\ \/ timestamps_openholdem_alive[s] = "alive" /\ MarkInstancesAs({s}, "frozen")
       \/ timestamps_openholdem_alive[s] = "frozen" /\ MarkInstancesAs({s}, "deep")
    /\ UNCHANGED <<attached_poker_windows, openholdem_PIDs, conn, pc, session,
                   attached, victims, open_windows>>

ForgetFailure ==
    /\ recent_failure
    /\ recent_failure' = FALSE
    /\ UNCHANGED <<mem, pc, session, attached, mutex, g_tlist, choice,
                   victims, open_windows>>

OpenTable(w) ==
    /\ w \notin open_windows
    /\ open_windows' = open_windows \union {w}
    /\ UNCHANGED <<mem, conn, pc, session, attached, victims>>

CloseTable(w) ==
    /\ w \in open_windows
    /\ open_windows' = open_windows \ {w}
    /\ UNCHANGED <<mem, conn, pc, session, attached, victims>>

-----------------------------------------------------------------------------
StartUp(p) == OpenSession(p) \/ ShareProcessID(p) \/ StartAutoConnector(p)

Connect(p) ==
    \/ LockForConnect(p)
    \/ ConnectTimesOut(p)
    \/ ListCandidates(p)
    \/ SelectTableMapAndWindowAutomatically(p)
    \/ Attach(p)
    \/ UnlockAfterConnect(p)

Disconnect(p) == LockForDisconnect(p) \/ Detach(p)

HandleCrashedAndFrozenProcesses(p) ==
    \/ WatchdogOff(p)
    \/ FindCrashedProcesses(p)
    \/ CleanUpCrashed(p)
    \/ KillFrozenProcesses(p)
    \/ CleanUpFrozen(p)

Heartbeat(p) ==
    \/ Connect(p)
    \/ Disconnect(p)
    \/ SkipConnect(p)
    \/ HandleCrashedAndFrozenProcesses(p)

Instance(p) ==
    \/ Launch(p)
    \/ StartUp(p)
    \/ Heartbeat(p)
    \/ Close(p)
    \/ CloseSession(p)
    \/ Crash(p)

Environment ==
    \/ \E s \in Slots : GetOlder(s)
    \/ ForgetFailure
    \/ \E w \in Window : OpenTable(w) \/ CloseTable(w)

Next == (\E p \in Process : Instance(p)) \/ Environment

Spec == Init /\ [][Next]_vars

(***************************************************************************)
(* Fairness: the threads of a running instance get scheduled.  The kernel  *)
(* serves the waiters of a mutex in turn, so a Disconnect() that waits for *)
(* ever and again and again meets a free mutex gets it (strong fairness).  *)
(* Connect() gives up after half a second and gets no such promise.        *)
(* Nobody has to launch or close an instance, and tables come and go as    *)
(* they like.                                                              *)
(***************************************************************************)
Fairness ==
    /\ \A p \in Process :
           /\ WF_vars(StartUp(p))
           /\ WF_vars(Heartbeat(p))
           /\ SF_vars(LockForDisconnect(p) /\ IsConnectedToGoneWindow(p))
           /\ WF_vars(CloseSession(p))
    /\ WF_vars(ForgetFailure)

FairSpec == Spec /\ Fairness

-----------------------------------------------------------------------------
(* Properties.                                                             *)

\* Connect() may only attach a table that no other instance serves: the
\* candidate list, the selection and the mutex together must never let two
\* instances play the same table.
OneServerPerTable ==
    \A p, q \in Process :
        attached[p] = attached[q] /\ attached[p] # NoWindow => p = q

HasSession(p) == pc[p] \notin {"absent", "launched"}

HasSharedPID(p) == HasSession(p) /\ pc[p] # "session"

\* What an instance serves, or that it serves nothing, is what the others
\* read in its slot, from the constructor of the autoconnector to the end of
\* the instance, whatever crashes and clean-ups happen around it.
SharedMemoryAgrees ==
    \A p \in Process :
        HasSharedPID(p) /\ pc[p] # "shared"
            => attached_poker_windows[session[p]] = attached[p]

\* The mutex protects what it is for: whoever is between the lock and the
\* unlock of Connect() or Disconnect() owns it, crashes included.
CriticalSectionsExclude ==
    \A p \in Process : pc[p] \in Critical => mutex = p

(***************************************************************************)
(* The invariant that carries the three properties above through every     *)
(* step, given that TerminateProcess works and clean-ups end in time.      *)
(***************************************************************************)
\* Instances that hold a slot hold different ones.
SessionsAreDistinct ==
    /\ \A p \in Process : IF HasSession(p) THEN session[p] \in Slots
                                           ELSE session[p] = NoSession
    /\ \A p, q \in Process :
           session[p] = session[q] /\ session[p] # NoSession => p = q

\* Nobody else's process ID is in the slot of an instance.
SlotsHoldOwnPIDs ==
    \A p \in Process :
        HasSharedPID(p) => openholdem_PIDs[session[p]] \in {p, NoPID}

\* No watchdog is about to clean up the slot of a working instance.
VictimsAreGone ==
    \A p, q \in Process : HasSharedPID(q) => session[q] \notin victims[p]

\* Connections exist only between the start and the end of the heartbeat.
OnlyHeartbeatsConnect ==
    \A p \in Process : Connected(p) => HasSharedPID(p) /\ pc[p] \notin {"shared", "closing"}

\* The table that was selected is still free when it gets attached.
ChoiceIsFree ==
    \A p \in Process :
        pc[p] = "attach" => /\ choice[p] \in Window
                            /\ \A q \in Process : attached[q] # choice[p]

\* Slots, process IDs, mutex and tables of all instances stay consistent,
\* although every part of this state is written by a different class.
ServiceInv ==
    /\ SessionsAreDistinct
    /\ SlotsHoldOwnPIDs
    /\ VictimsAreGone
    /\ CriticalSectionsExclude
    /\ OnlyHeartbeatsConnect
    /\ SharedMemoryAgrees
    /\ ChoiceIsFree
    /\ OneServerPerTable

\* The instances together implement the abstract service.
Service == INSTANCE TableService WITH serves <- attached

ImplementsTableService == Service!Spec

\* A clean-up by a watchdog never takes the process ID from an instance that is
\* up and running, as long as clean-ups are prompt.  (That its table entry
\* stays is a part of SharedMemoryAgrees.)
SparesTheLiving ==
    \A p \in Process :
        /\ HasSharedPID(p)
        /\ pc'[p] # "absent"
        /\ openholdem_PIDs[session[p]] = p
        => openholdem_PIDs'[session[p]] = p

CleanUpSparesTheLiving == [][SparesTheLiving]_vars

\* A table marked in the slot of an instance that no longer runs.
StaleMark(s) ==
    /\ attached_poker_windows[s] # NoWindow
    /\ \A p \in Running : session[p] # s

\* An instance whose watchdog works.
Watching(p) == pc[p] \notin {"absent", "launched", "session", "closing"}
               /\ openholdem_PIDs[session[p]] = p

\* The mark a crashed instance leaves behind does not stay as long as the
\* watchdog of one instance goes on: the table becomes free for the others.
StaleMarksGetCleared ==
    \A s \in Slots, p \in Process :
        StaleMark(s) /\ Watching(p) ~> (~StaleMark(s) \/ ~Watching(p))

\* Unless instances get launched for ever (and crash or freeze for ever, each
\* time inside the mutex), a table that nobody serves does not stay without a
\* bot as long as one instance is free for it.
FreeInstance(p) == pc[p] \notin {"absent", "closing"} /\ ~Connected(p)

Unserved(w) == w \in open_windows /\ \A p \in Process : attached[p] # w

LaunchesEnd == <>[](\A p \in Process : pc[p] # "launched")

FreeTableGetsServed ==
    LaunchesEnd =>
        \A w \in Window, p \in Process :
            Unserved(w) /\ FreeInstance(p)
                ~> (~Unserved(w) \/ ~FreeInstance(p))

\* An instance whose process ID was not available acquires it later, so that
\* auto-starter and watchdog are disabled only temporarily.
ProcessIDGetsAcquired ==
    \A p \in Process :
        pc[p] = "beat" ~> (pc[p] \in {"absent", "closing"} \/ Watching(p))
=============================================================================
