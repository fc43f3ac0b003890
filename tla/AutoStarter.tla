---------------------------- MODULE AutoStarter ----------------------------
(***************************************************************************)
(* COpenHoldemStarter: at the end of every heartbeat an instance starts a  *)
(* new instance if no free one is left, and shuts itself down if there are *)
(* several.  The instances know each other only through the shared memory, *)
(* which each reads several times before it acts.  How an instance gets a  *)
(* table is AutoConnector.tla; here it is one step, which takes a table    *)
(* that no other instance serves.  Every instance has shared its process   *)
(* ID and has the auto-starter and the auto-shutdown turned on.            *)
(***************************************************************************)
EXTENDS SharedMem

CONSTANTS
    UserInterferes, \* the user launches and closes instances at any time
    Preemption,     \* other instances may act between two reads of a check
    SlowQuit        \* WM_QUIT may wait, for example behind a modal dialog

ASSUME FlagAssumption == {UserInterferes, Preemption, SlowQuit} \subseteq BOOLEAN

VARIABLES
    pc,               \* where the heartbeat thread of each process is
    session,          \* process -> its session ID, -1 without one
    attached,         \* process -> the table it serves
    quitting,         \* the processes with WM_QUIT in their message queue
    recently_started, \* process -> it started an instance less than 5 s ago
    waited,           \* process -> elapsedauto() has reached 120 s
    shorter_than_5,   \* process -> launches that were under way when its
                      \* 5 s began and still are
    shorter_than_120, \* process -> launches and shutdowns that were under way
                      \* when its 120 s began and still are
    open_windows      \* the poker tables that exist

timers == <<recently_started, waited, shorter_than_5, shorter_than_120>>
vars == <<shm, timers, pc, session, attached, quitting, open_windows>>

kMinNumberOfUnoccupiedBotsNeeded == 1

PCs == {"absent", "starting", "beat", "watch", "start", "startTurn", "close",
        "closeTurn"}

TypeOK ==
    /\ SharedMemTypeOK
    /\ pc \in [Process -> PCs]
    /\ session \in [Process -> Slots \union {-1}]
    /\ attached \in [Process -> Window \union {NoWindow}]
    /\ quitting \in SUBSET Process
    /\ recently_started \in [Process -> BOOLEAN]
    /\ waited \in [Process -> BOOLEAN]
    /\ shorter_than_5 \in [Process -> SUBSET Process]
    /\ shorter_than_120 \in [Process -> SUBSET Process]
    /\ open_windows \subseteq Window

Init ==
    /\ SharedMemInit
    /\ pc = [p \in Process |-> "absent"]
    /\ session = [p \in Process |-> -1]
    /\ attached = [p \in Process |-> NoWindow]
    /\ quitting = {}
    /\ recently_started = [p \in Process |-> FALSE]
    /\ waited = [p \in Process |-> FALSE]
    /\ shorter_than_5 = [p \in Process |-> {}]
    /\ shorter_than_120 = [p \in Process |-> {}]
    /\ open_windows = {}

Running == {p \in Process : pc[p] # "absent"}

Goto(p, l) == pc' = [pc EXCEPT ![p] = l]

Starting == {p \in Process : pc[p] = "starting"}

\* The 120 s of p begin.
RestartWait(p) ==
    /\ waited' = [waited EXCEPT ![p] = FALSE]
    /\ shorter_than_120' = [shorter_than_120 EXCEPT ![p] = Starting \union quitting]

-----------------------------------------------------------------------------
(* Start and end of an instance.                                           *)

\* Windows does not hand out a process ID again that is still shared.
CanLaunch(q) == pc[q] = "absent" /\ \A s \in Slots : openholdem_PIDs[s] # q

\* The user launches the first instance.
UserLaunch(q) ==
    /\ Running = {} \/ UserInterferes
    /\ CanLaunch(q)
    /\ Goto(q, "starting")
    /\ UNCHANGED <<shm, timers, session, attached, quitting, open_windows>>

\* A session counter that counts from one.
FreeSlotsFromOne == (1 .. MAX_SESSION_IDS) \ {session[p] : p \in Process}

FreeSlots == Slots \ {session[p] : p \in Process}

\* A new instance takes the lowest free session ID, shares its process ID
\* and clears the table of its slot.  Both timers start.
ShowUp(q) ==
    /\ pc[q] = "starting"
    /\ FreeSlots # {}
    /\ LET s == Lowest(FreeSlots)
       IN  /\ session' = [session EXCEPT ![q] = s]
           /\ AquireOwnProcessID(s, q)
           /\ MarkPokerWindowAsAttached(s, NoWindow)
    /\ recently_started' = [recently_started EXCEPT ![q] = TRUE]
    /\ waited' = [waited EXCEPT ![q] = FALSE]
    /\ shorter_than_5' = [p \in Process |->
           (IF p = q THEN Starting ELSE shorter_than_5[p]) \ {q}]
    /\ shorter_than_120' = [p \in Process |->
           (IF p = q THEN Starting \union quitting ELSE shorter_than_120[p]) \ {q}]
    /\ Goto(q, "beat")
    /\ UNCHANGED <<attached, quitting, open_windows>>

UserClose(p) ==
    /\ UserInterferes
    /\ pc[p] \notin {"absent", "starting"}
    /\ quitting' = quitting \union {p}
    /\ UNCHANGED <<shm, timers, pc, session, attached, open_windows>>

\* The GUI thread leaves its message loop and deletes the singletons: the
\* table is released, the session ID is free, the process ID stays shared.
ExitInstance(p) ==
    /\ p \in quitting
    /\ quitting' = quitting \ {p}
    /\ MarkPokerWindowAsAttached(session[p], NoWindow)
    /\ attached' = [attached EXCEPT ![p] = NoWindow]
    /\ session' = [session EXCEPT ![p] = -1]
    /\ shorter_than_120' = [q \in Process |-> shorter_than_120[q] \ {p}]
    /\ Goto(p, "absent")
    /\ UNCHANGED <<openholdem_PIDs, recently_started, waited, shorter_than_5,
                   open_windows>>

-----------------------------------------------------------------------------
(* One heartbeat.                                                          *)

Connected(p) == attached[p] # NoWindow

\* Connects if some table is free.
Connect(p, w) ==
    /\ pc[p] = "beat"
    /\ ~Connected(p)
    /\ w \in open_windows
    /\ ~PokerWindowAttached(w)
    /\ attached' = [attached EXCEPT ![p] = w]
    /\ MarkPokerWindowAsAttached(session[p], w)
    /\ RestartWait(p)
    /\ Goto(p, "watch")
    /\ UNCHANGED <<openholdem_PIDs, recently_started, shorter_than_5, session,
                   quitting, open_windows>>

Disconnect(p) ==
    /\ pc[p] = "beat"
    /\ Connected(p)
    /\ attached[p] \notin open_windows
    /\ attached' = [attached EXCEPT ![p] = NoWindow]
    /\ MarkPokerWindowAsAttached(session[p], NoWindow)
    /\ RestartWait(p)
    /\ Goto(p, "watch")
    /\ UNCHANGED <<openholdem_PIDs, recently_started, shorter_than_5, session,
                   quitting, open_windows>>

\* A connected instance plays; an unconnected one finds no table or fails.
NoConnection(p) ==
    /\ pc[p] = "beat"
    /\ Connected(p) => attached[p] \in open_windows
    /\ Goto(p, "watch")
    /\ UNCHANGED <<shm, timers, session, attached, quitting, open_windows>>

\* A watchdog that does nothing about terminated instances.
NoWatchdog(p) ==
    /\ pc[p] = "watch"
    /\ Goto(p, "start")
    /\ UNCHANGED <<shm, timers, session, attached, quitting, open_windows>>

\* The watchdog cleans up after the instances that no longer run.
WatchForCrashedProcesses(p) ==
    /\ pc[p] = "watch"
    /\ CleanUpProcessMemory({s \in Slots : IsDeadOpenHoldemProcess(s, Running)})
    /\ Goto(p, "start")
    /\ UNCHANGED <<timers, session, attached, quitting, open_windows>>

-----------------------------------------------------------------------------
(* StartNewInstanceIfNeeded().                                             *)

CountForStart(p) ==
    /\ pc[p] = "start"
    /\ IF /\ NUnoccupiedBots < kMinNumberOfUnoccupiedBotsNeeded
          /\ ~recently_started[p]
       THEN Goto(p, "startTurn")
       ELSE Goto(p, "close")
    /\ UNCHANGED <<shm, timers, session, attached, quitting, open_windows>>

\* Every instance feels responsible.
StartAnyway(p) ==
    /\ pc[p] = "startTurn"
    /\ recently_started' = [recently_started EXCEPT ![p] = TRUE]
    /\ \E q \in Process :
           /\ CanLaunch(q)
           /\ pc' = [pc EXCEPT ![p] = "close", ![q] = "starting"]
           /\ shorter_than_5' =
                  [shorter_than_5 EXCEPT ![p] = Starting \union {q}]
    /\ UNCHANGED <<shm, waited, shorter_than_120, session, attached, quitting,
                   open_windows>>

\* ShellExecute; Windows picks the process ID.  (No instance starts another
\* one while it is connected to OHReplay, which is no table here.)
StartNewInstance(p) ==
    /\ pc[p] = "startTurn"
    /\ LowestConnectedSessionID = session[p]
    /\ recently_started' = [recently_started EXCEPT ![p] = TRUE]
    /\ \E q \in Process :
           /\ CanLaunch(q)
           /\ pc' = [pc EXCEPT ![p] = "close", ![q] = "starting"]
           /\ shorter_than_5' =
                  [shorter_than_5 EXCEPT ![p] = Starting \union {q}]
    /\ UNCHANGED <<shm, waited, shorter_than_120, session, attached, quitting,
                   open_windows>>

\* The other instances, and the case that Process holds no further process.
NotMyBusinessToStart(p) ==
    /\ pc[p] = "startTurn"
    /\ LowestConnectedSessionID = session[p] => \A q \in Process : ~CanLaunch(q)
    /\ Goto(p, "close")
    /\ UNCHANGED <<shm, timers, session, attached, quitting, open_windows>>

-----------------------------------------------------------------------------
(* CloseThisInstanceIfNoLongerNeeded().                                    *)

\* A shutdown that leaves no free instance.
CountOffByOne(p) ==
    /\ pc[p] = "close"
    /\ IF /\ ~Connected(p)
          /\ NUnoccupiedBots >= kMinNumberOfUnoccupiedBotsNeeded
          /\ waited[p]
       THEN Goto(p, "closeTurn")
       ELSE Goto(p, "beat")
    /\ UNCHANGED <<shm, timers, session, attached, quitting, open_windows>>

CountForShutdown(p) ==
    /\ pc[p] = "close"
    /\ IF /\ ~Connected(p)
          /\ NUnoccupiedBots > kMinNumberOfUnoccupiedBotsNeeded
          /\ waited[p]
       THEN Goto(p, "closeTurn")
       ELSE Goto(p, "beat")
    /\ UNCHANGED <<shm, timers, session, attached, quitting, open_windows>>

\* Every superfluous instance shuts down.
ShutDownAnyway(p) ==
    /\ pc[p] = "closeTurn"
    /\ quitting' = quitting \union {p}
    /\ Goto(p, "beat")
    /\ UNCHANGED <<shm, timers, session, attached, open_windows>>

ShutDownThisInstance(p) ==
    /\ pc[p] = "closeTurn"
    /\ LowestUnconnectedSessionID(open_windows) = session[p]
    /\ quitting' = quitting \union {p}
    /\ Goto(p, "beat")
    /\ UNCHANGED <<shm, timers, session, attached, open_windows>>

NotMyTurnToShutDown(p) ==
    /\ pc[p] = "closeTurn"
    /\ LowestUnconnectedSessionID(open_windows) # session[p]
    /\ Goto(p, "beat")
    /\ UNCHANGED <<shm, timers, session, attached, quitting, open_windows>>

-----------------------------------------------------------------------------
(* Time and tables.  Both timers are long compared to what a heartbeat does*)
(* after it connected, so they run out at its start.                       *)

\* An instance that got started shows up within the 5 s it is granted.
FiveSecondsPass(p) ==
    /\ pc[p] = "beat"
    /\ recently_started[p]
    /\ shorter_than_5[p] = {}
    /\ recently_started' = [recently_started EXCEPT ![p] = FALSE]
    /\ UNCHANGED <<shm, pc, session, attached, quitting, waited, shorter_than_5,
                   shorter_than_120, open_windows>>

\* Launches and shutdowns take less than two minutes.
TwoMinutesPass(p) ==
    /\ pc[p] = "beat"
    /\ ~waited[p]
    /\ shorter_than_120[p] = {}
    /\ waited' = [waited EXCEPT ![p] = TRUE]
    /\ UNCHANGED <<shm, pc, session, attached, quitting, recently_started,
                   shorter_than_5, shorter_than_120, open_windows>>

OpenTable(w) ==
    /\ w \notin open_windows
    /\ open_windows' = open_windows \union {w}
    /\ UNCHANGED <<shm, timers, pc, session, attached, quitting>>

CloseTable(w) ==
    /\ w \in open_windows
    /\ open_windows' = open_windows \ {w}
    /\ UNCHANGED <<shm, timers, pc, session, attached, quitting>>

-----------------------------------------------------------------------------
\* WM_QUIT does not stop the heartbeat thread, which however sleeps for a
\* second or more after it posted the message.
Heartbeat(p) ==
    /\ SlowQuit \/ p \notin quitting
    /\ \/ \E w \in Window : Connect(p, w)
       \/ Disconnect(p)
       \/ NoConnection(p)
       \/ WatchForCrashedProcesses(p)
       \/ CountForStart(p)
       \/ StartNewInstance(p)
       \/ NotMyBusinessToStart(p)
       \/ CountForShutdown(p)
       \/ ShutDownThisInstance(p)
       \/ NotMyTurnToShutDown(p)

\* Between the two reads of a check there are only microseconds.
Undisturbed(p) ==
    \/ Preemption
    \/ \A q \in Process \ {p} : pc[q] \notin {"startTurn", "closeTurn"}

Next ==
    \/ \E p \in Process :
           /\ Undisturbed(p)
           /\ \/ UserLaunch(p)
              \/ ShowUp(p)
              \/ Heartbeat(p)
              \/ UserClose(p)
              \/ ExitInstance(p)
              \/ FiveSecondsPass(p)
              \/ TwoMinutesPass(p)
    \/ \E w \in Window : OpenTable(w) \/ CloseTable(w)

Spec == Init /\ [][Next]_vars

(***************************************************************************)
(* Fairness: an instance that was started shows up, heartbeats go on, the  *)
(* message loop handles WM_QUIT and time passes.                           *)
(***************************************************************************)
FairSpec ==
    /\ Spec
    /\ \A p \in Process : /\ WF_vars(ShowUp(p))
                          /\ WF_vars(Heartbeat(p))
                          /\ WF_vars(ExitInstance(p))
                          /\ SF_vars(FiveSecondsPass(p))

-----------------------------------------------------------------------------
(* Properties.                                                             *)

\* An instance that waits for new tables.
Free(p) == /\ pc[p] \notin {"absent", "starting"}
           /\ ~Connected(p)
           /\ p \notin quitting

\* No flood of new bots: although each instance decides alone, the checks of
\* the auto-starter let only one new instance be on its way at a time.
OneStartAtATime ==
    \A p, q \in Process : pc[p] = "starting" /\ pc[q] = "starting" => p = q

\* The instances never shut each other down: as long as any instance runs,
\* one of them is not about to end.
OneSurvives ==
    Running # {} => \E p \in Process : pc[p] # "absent" /\ p \notin quitting

\* Only one instance terminates at a time, to keep one instance available:
\* an instance that shuts itself down leaves a free one behind.
LeavesOneAvailable ==
    \A p \in Process :
        ShutDownThisInstance(p) => \E q \in Process \ {p} : Free(q)

KeepsOneAvailable == [][LeavesOneAvailable]_vars

\* As long as tables are served, a free instance for the next table is there
\* or comes, unless every process that may exist is in use.
FreeInstanceComes ==
    (\E p \in Process : Connected(p))
        ~> \/ \E p \in Process : Free(p)
           \/ \A p \in Process : ~Connected(p)
=============================================================================
