# A TLA+ model of OpenHoldem

OpenHoldem plays several tables with several *instances* of the same program,
one process per table. The instances have no server. They coordinate through a
shared memory segment, a few named mutexes and the process table of Windows,
and inside each instance a heartbeat thread, the GUI thread and some worker
threads meet at locks, flags and window messages. This directory models that
coordination and how an instance plays, model-checks both with TLC and proves the
safety properties with TLAPS.
`PROJECT.json` maps each definition to the lines of the source it stands for.

## 1. Inventory

All paths are below `src/OpenHoldem/` unless they say otherwise.

| Component | State it keeps | Operations | What makes it correct |
|---|---|---|---|
| `CSharedMem` | arrays by session ID: `attached_poker_windows`, `openholdem_PIDs`; time of the last failed attempt | mark, clean, count, lowest session IDs | a slot tells the truth about the instance that owns it |
| `CSessionCounter` | one named mutex per session ID | take the lowest free one | running instances have different IDs |
| `CAutoConnector` | `_attached_hwnd`, `g_tlist`, the named mutex | `Connect`, `Disconnect` | a table is served by at most one instance; a free table gets served; a gone table gets left |
| `CWatchdog` | `timestamps_openholdem_alive` (shared) | stamp, clean up crashed, kill frozen | dead slots get cleaned, living ones never |
| `COpenHoldemStarter` | time of the last start | start an instance, shut this one down | one start at a time, never all shut down, one free instance stays |
| `CHeartbeatThread` | the stop event, the critical section of an update | tablemaps, connect, scrape, evaluate, act, watchdog, starter | the order of these steps; the thread ends before its data |
| `CMainFrame`, `COpenHoldemApp`, `Singletons` | timers, the singletons | gone-window check, buttons, start and end | no wait for the heartbeat thread that waits for the GUI; threads stop first |
| `CAutoplayer`, `CFlagsToolbar` | `_autoplayer_engaged`, buttons | engage, `DoAutoplayer` | engaged only with a table; one action per turn |
| `CEngineContainer`, symbol engines | `_reset_on_connection_executed`, symbols | `UpdateOn...`, `EvaluateAll` | no evaluation before the reset; each hand reset once |
| `CHandresetDetector` | methods fired in the last heartbeats | vote | a new hand is seen once, also when the table updates in pieces |
| `CStableFramesCounter`, `CSymbolEngineAutoplayer` | frames, `isfinalanswer` | count, reset after an action | no second action on a table that has not updated yet |
| `CMyMutex`, `CCasinoInterface` | the mutex for mouse and keyboard | lock 5 s, click | only one instance moves the mouse |
| `CIteratorThread`, `CSymbolEnginePrwin` | start/stop/wait events, sums | restart, simulate | results belong to the current hand |
| `CTableMapLoader`, formula parser, hopper, rebuy, popup handler, PokerTracker thread | files and flags | reload, parse, messages | reload and parse do not hit a running evaluation |
| scraper, symbol engines, OpenPPL, DLLs, `OpenScrape`, `ManualMode`, `OHReplay` | data | sequential | within reach of unit tests; not a subject here |

How they interact. Instances: through the shared memory, where *every access is
unprotected* (the critical section of `CSharedMem` lives in each process);
through the mutex of the auto-connector; through `TerminateProcess`; through
`ShellExecute`. Threads of one instance: `CAutoConnector::Disconnect` is called
by the heartbeat thread and by a timer of the GUI thread; both use the named
mutex, the critical section of `CAutoplayer` and GUI controls. A control that
the heartbeat thread sets is a `SendMessage`, which waits for the GUI thread.
The prwin worker and the heartbeat share counters, sums and card masks without a lock. The
heartbeat, the detector, the symbol engines and the autoplayer run one after the other on one thread, each on what the
others left behind. Instances compete for mouse and keyboard through a second named mutex.

What is hard: several reads of the shared memory that are not one step; an
instance that crashes or is killed anywhere, also inside the mutex; an instance
that only looks dead; a clean-up that meets a new owner of the slot; lock time-outs;
locks and window messages that wait for each other; the end of an instance;
symbols that reach their reader one heartbeat late; a table that shows a new hand piece
by piece; counters that a worker thread and the heartbeat change without a lock; a
decision that waits for several things at once; clicks on a table that went on.
`PROJECT.json` lists these hazards at their lines with the properties that
cover them.

## 2. Plan

| Step | Module | Contents | State |
|---|---|---|---|
| 1 | `SharedMem` | the segment and each single access | done |
| 2 | `AutoConnector`, abstract `TableService` | instances, connection, watchdog, crashes | modelled, checked, proved |
| 3 | `AutoStarter` | start and shutdown of instances, on `SharedMem` | modelled, checked, proved |
| 4 | `Connection` | GUI and heartbeat thread of one instance, locks, messages, bitmaps | modelled, checked, proved |
| 5 | `Handreset`, abstract `Hands` | votes over three heartbeats against a sequence of hands | modelled, checked, proved |
| 6 | `Iterator`, `Play` | the prwin worker; stable frames, final answer, `DoAutoplayer`, the input mutex | modelled, checked, proved |

Abstract specifications: `TableService` for step 2 and `Hands` for step 5. "One action per turn"
and "decide on results of these cards only" need no module of their own: they relate
variables of one state of `Play`. Every module takes its sets and switches as
CONSTANTS with named assumptions and has one action per operation and no recursive
operator, so that each can be proved about. What did not become a module, and why,
is in section 7.

## 3. The modules

**`SharedMem`** has the two arrays as variables and one operator per access.
Modules that extend it say which accesses follow each other and interleave them
between processes. A process is named by its process ID, a table by its window
handle; both are model values.

**`AutoConnector`** (extends `SharedMem`) has a program counter per process:
start (`OpenSession`, `ShareProcessID`, `StartAutoConnector`, in the order of
the singletons), the heartbeat (`beat`), `Connect` in five steps (lock, list,
select, attach, unlock), `Disconnect` in two, the watchdog in four, and the end.
`Launch` is whoever starts the program, `Crash` the loss of a process at any
point, `GetOlder` the time that turns a time stamp *alive* into *frozen* (15 s)
and *deep* (30 s). What the code does between two shared accesses without
touching shared state is part of the neighbouring step. Decisions:

* The kernel frees session mutexes with their process; an abandoned auto-connector
  mutex is acquired like a free one, because `Lock` does not tell the difference.
* `OpenSession` joins the constructors of `CSessionCounter` and `CWatchdog`:
  the stamp of a slot without a process ID is read by nobody.
* `WatchForCrashedProcesses` loops over the slots; the model finds all victims
  first and cleans later, a wider window than the loop has for one slot.
* The own slot is never killed: it was stamped at the begin of the same call.
  Debug builds kill nothing; the model is the release build.
* `recent_failure` is the one second that a failed attempt blocks all.
* Windows does not give a process ID away that is still in the shared memory.
  It could after a long time; this is an assumption about the system.
* `WatchdogOff`: without an own process ID (`PIDMayFail`) the watchdog returns at once.
* `PromptCleanUp`: between finding a dead process and cleaning its slot (microseconds)
  no new process gets from `CreateMutex` to sharing its process ID in that slot.
  Nothing in the code guarantees it; see section 6.

**`TableService`** is what the instances promise together: a bot takes a table
that no bot serves, or bots release theirs. `AutoConnector` implements it with
`serves <- attached`.

**`AutoStarter`** (extends `SharedMem`) keeps the connection as one step and
splits what `AutoConnector` leaves out: the two checks of `COpenHoldemStarter`
are two reads each (`start`/`startTurn`, `close`/`closeTurn`). The timers of 5 s and
120 s are no clocks: a timer may run out once the launches and shutdowns that
were under way at its begin are done (`shorter_than_5`, `shorter_than_120`), so
starting a process takes less than 5 s and closing one less than 120 s. That is
the assumption the code makes itself ("Grant it some seconds to show up").
Preferences are on, process IDs available, and OHReplay is not connected.
`UserInterferes` lets the user launch and close at any time, `Preemption` lets
others act between the two reads, `SlowQuit` lets an instance go on with
heartbeats after it posted `WM_QUIT` to itself.

**`Connection`** is one instance from the inside: a program counter for the GUI
thread and one for the heartbeat thread, the mutex (with *other* instances as
possible owners), the critical section of the autoplayer, the flags and the
autoplayer button. `Handled(t)` is `SendMessage`: a step of the heartbeat thread
that sets a control is possible only while the GUI thread is in its message
loop. After a `Disconnect` the heartbeat is at its top again, as the rest of it does
not touch this state. The null checks at start, modal dialogs and the scraper
output window are left out, and the process is gone once the GUI thread ended.
`Collisions` allows a thread to start a disconnection or to switch the
autoplayer while the other one is in the middle of that, and a click in the
50 ms between the end of a connection and the timer that disables the button.

The bitmaps of the scraper are created inside the mutex and deleted after it was
freed (`ClearSymbols`). `PromptDelete` says that a thread which has just freed the mutex
deletes them before the other one has loaded a tablemap and created new ones.

**`Handreset`** is `CHandresetDetector` with the engines it depends on, in the order
of `EvaluateAll`: the detector first, with the dealer, the chair and the clocks
that the engines left behind on the *previous* heartbeat, then these engines.
`CalculateIsHandreset` shifts the votes of three heartbeats and decides.
`EvaluateAll(delay)` is one heartbeat, `delay` seconds after the last one; clocks stop at the
values beyond which nobody reads them. A hand is 0 or 1 in turn, which is all a comparison
with the last heartbeat can tell. Four of the 13 methods stand for the others, see section 7.

* `UpdateDealerchair`: without a visible dealer the code takes the chair right of the small blind, the first
  chair whose bet is as high as that (`CSymbolengineDealerchair.cpp:68-75`); if there is no such bet, and only then, the dealer is
  kept. `MisleadingSmallBlind` lets another bet be as high, so that the chair found is any.
* `CalculateUserChair`: visible cards confirm the chair, but at the river only with buttons
  (`IsNotShowdown`, `CSymbolEngineUserchair.cpp:62-84`). The buttons are data: at the river both happens.
* `DigitsConfigured`: without a configured length of hand numbers an empty one is valid.
* The casino shows a new hand piece by piece in any order (`Deal`, `ShowChange`) over at most `SpreadBeats` heartbeats,
  deals community cards, and lets popups hide parts of the table once the hand is shown. The user may `Fold`.
  `Seen = SpreadBeats + 2` heartbeats after the deal the detector knows all of a hand, `Settling = SpreadBeats + 4`
  heartbeats after it nothing of that is left in its window.
* `DealInTime` deals a hand at least `HandSeconds` after the last deal or connection, `DealEarly` before that.
* `Connect` comes at any time, to a table at any point of a hand: with any board, with or without cards of the user. It
  leaves the detector's memory as it is, like the code, so the chair may be unknown for many heartbeats and hands.

Two variables belong to the model, not to the code. `unannounced` counts the hands dealt in time that have not led to a
handreset; `strays` is how many handresets without such a hand may still come. A connection may cause two
(`StraysOfConnection`: old votes with old values, then the dealer and the chair that appear late), an early hand one on each
heartbeat until it has settled (`StraysOfEarlyHand`).

**`Hands`** is what the detector promises: a hand that is dealt in time (`Deal`) is announced once (`Announce`), before the
next one, and nothing else is announced, but for the strays that a connection or an early hand brings (`Connect`,
`DealEarly`, `Stray`) and that end (`Settle`). `Handreset` implements it (`OneHandresetPerHand`), with
`unannounced` and `strays` themselves. When the announcement has to come is `AnnouncedWhenSeen`: by the heartbeat that has seen
all of the hand. This is more than that it comes some time, and an invariant, so `Handreset` needs no fairness.

**`Iterator`** is the prwin worker: it sleeps, finds that work is required, marks itself busy,
simulates hand after hand, leaves its loop and publishes. A hand is begun (`MainLoop` reads the masks into
`dealt_for`) and counted (`Simulate` adds it to the sums) in different steps, so that a restart can meet a hand that was dealt
for the old cards. A restart by the heartbeat thread is
three steps in the order of the code (sums, masks, counter). A result is the number of hands for each setting of the masks,
which tells right ones from wrong ones; who won them is data. Prwin is Hold'em only: `RestartPrWinComputations` returns at once
at an Omaha table (`CIteratorThread.cpp:135-138`), which is left out. A restart between the addition to the sums and the increment of the
counter is not a state of its own: what it leads to are the outcomes of a restart before or after both. The worker's return for
`_nopponents <= 0` (line 208) is left out as well: the number is at least 1 from the first restart on.

**`Play`** (extends `Iterator`) is what one heartbeat does once connected: scrape,
turn bits and final answer (with the counter of stable frames as its side effect), restart of prwin, then the cascade of
`DoAutoplayer`: popups, secondary formulas, primary formulas with the attempt for the
input mutex, click, finish. Each is one action, the restart three; the worker and the casino interleave with all of them.
The button is clicked on what was seen before the wait for the mutex. Decisions:

* `NextTurn` shows a situation that differs from the one before (a bet, a balance or a card has
  changed), and the cards of a turn stay as they are until it ends.
* `Disturbances` are what a scrape may see besides the table: a popup, a redrawn
  table (another look for one scrape, same cards), or no buttons for one scrape ("flicker").
* The casino moves only before a scrape and before a click: its moves commute with all
  other steps, which do not read it.
* `WakeBeats` is how many heartbeats the worker may sleep on after a restart: its 250 ms are less than one
  default heartbeat, and a heartbeat of one's own turn takes at least 375 ms.
* `AtomicSteps` closes two windows of a few statements each: the worker does not act between the reset of the masks and their
  setting (no formula is evaluated there), and the heartbeat does not ask for the final answer between the worker's last
  increment and its publication. In the rest of a restart, where the number of iterations and other formulas are evaluated, the
  worker goes on.
* Which button, betsize or chat is chosen is data: a secondary formula succeeds or not, a
  primary formula is true or not, a click hits or not, each nondeterministically.

`MCAutoConnector` and `MCAutoStarter` add the symmetry sets for the safety runs,
`MCHandreset` the set of popups.

## 4. Runs

| Run | Instance | Shows |
|---|---|---|
| `Safety` | 3 processes, 2 slots, 2 tables; crashes, hopper, failing process IDs | types; `OneServerPerTable`; the slot tells what its instance serves, or that it serves nothing; mutual exclusion; the inductive invariant; prompt clean-ups spare running instances (what a late one does is in section 6); refinement of `TableService` |
| `Liveness` | 2 processes, 2 slots, 1 table; crashes | marks of dead instances get cleared; a free table gets a free instance |
| `Starter` | 4 processes, 3 slots, 2 tables; the two reads of a check undisturbed, quick quits | `OneStartAtATime`, `OneSurvives`, `KeepsOneAvailable` |
| `StarterLive` | 2 processes, 2 slots, 1 table; the user interferes, preemption, slow quits | a free instance comes while a table is served |
| `Connection` | 2 tables, other instances, no collisions, prompt deletion, instance may end | no freeze, no autoplayer without a table, no scrape without bitmaps, gone table gets left |
| `Handreset` | up to 1 s between heartbeats, hands that show within 2 heartbeats, early ones below 10 s, 2 kinds of popups (the cards; all but the board), connections to any point of a hand, with and without cards | each hand dealt in time is announced once and before the next one, and strays are limited (`OneHandresetPerHand`: it refines `Hands`); it is announced by the heartbeat that has seen all of it (`AnnouncedWhenSeen`); the detector compares with the hand on the table (`KnowsTheHand`) |
| `Play` | 2 situations, 3 iterations, an update of the display every 2, frame delay 2, secondary formulas every 4th heartbeat, a disturbed scrape per turn (popup, redraw) | decisions rest on a finished prwin of the cards on the table, with at most one hand of other cards; one action per turn; a turn gets answered |
| `KillRefused` | as `Safety` with `KillMayFail` | violated, see below |
| `ProcessIDLost` | 2 processes, `PIDMayFail` | violated |
| `ShutdownRace` | 3 processes, 1 table, preemption between the reads, quick quits | violated |
| `ConnectionFreezes` | `Connection` with collisions | violated |
| `ThreadsStop` | `Connection`, the instance may end | violated |

Why the bounds are enough. Three processes on two slots: two can compete for
a table while a third takes over the slot of a crashed one, which needs that
there are fewer slots than processes; two tables let an instance lose one and
gain another. The proofs of section 5 lift this to every number. The two-process
liveness run has the interesting case: a crash inside the mutex or with a
mark, and one other instance. The starter needs four
processes: two that both play and both see that no free bot is left, and two that
they might start; with three the second start could not happen. Three
slots are enough, as a fourth never gets used (the state space is
the same with four). Two tables in `Connection` tell
a reconnection to the same window from one to another. In `Handreset`
two heartbeats of spread, within a window of three, are the most the code is made for (section 6 has the
third one), and 10 s are the heartbeats until a hand has settled and the pause of the code after that; two hands in turn are all a
comparison can see. In `Play` two situations are the old and the new
one; three iterations with an update every two give a result before the
first update, an intermediate one, an incomplete and a complete one; frame delay and the
pause between secondary formulas are the defaults of the preferences.
Deadlock is checked in every passing run: tables can always come and go.

Fairness. Threads of running instances are scheduled (weak fairness of
start-up, heartbeat and end). A Windows kernel mutex serves its waiters in
turn: `Disconnect`, which waits without a time-out, gets strong fairness, and
`Connect`, which gives up after 500 ms, gets none. A second passes
(`ForgetFailure`). Nobody has to launch, close or crash, and tables come and go at
will. `FreeTableGetsServed` therefore assumes only that instances are not
launched for ever, since each launched instance might crash inside the
mutex. In `Connection` the GUI thread's gone-window timer has strong fairness: the user does not
click so fast that it never fires. In `StarterLive` the timer `FiveSecondsPass` has
strong fairness, because it can only run out at the begin of a heartbeat.
In `Play` both threads
are scheduled. The worker gets strong fairness: with weak fairness it may wake in every heartbeat just
between the reset of the turn bits and their calculation, see no turn and look busy for
ever; the sleep of 250 ms is not in step with the heartbeat. An attempt for the mutex and a
click do not fail for ever, as Windows serves the waiters of a mutex and the
formulas decide for something; an answered turn ends. Without the other instances' good will,
without a true primary formula or with a button that cannot be hit, no turn gets
answered, and that is not a fault of the modelled code.

What the violated runs show (each is a disagreement of code and text):

* `KillRefused`: the result of `TerminateProcess` is not looked at; the slot of an
  instance that keeps playing is cleaned and its table is served twice.
* `ProcessIDLost`: "temporary disabled" is for ever; the code that would try again is
  unreachable without a process ID.
* `ShutdownRace`: the two reads of the shutdown check are not one; the last free
  instance may close, although another one looked free at the first read. The
  window is the time between the two reads; `Starter`, which closes it, finds no other way.
* `ConnectionFreezes`: the check of `OnTimer` against freezing covers a collision with
  the begin of `Connect` only. When the GUI thread enters `Disconnect` or switches
  the autoplayer while the heartbeat thread sets a button inside the same lock,
  both wait for ever.
* `ThreadsStop`: the auto-shutdown's `WM_QUIT` leads to `ExitInstance` without
  `DestroyWindow`, so the heartbeat thread runs while its singletons get deleted.

Each property of a passing run has a mutant in `PROJECT.json`: an operator next to the
original that changes it as a plausible bug would, for example a
loop that forgets the last slot, a `Connect` that goes on after the time-out, or a
timer that forgets to ask for the connection (a bug the code once had, see the
comment in `CAutoConnector::Disconnect`).

## 5. Proofs

Every theorem holds for any values of the constants that satisfy the named assumptions
of the modules (`SlotsAssumption`, `NullAssumption`, `FlagAssumption`,
`DelayAssumption`, `IteratorAssumption`, `PlayAssumption`); further ones are in its ASSUME.
TLC checked each inductive invariant on the instance of its run before it was proved.

`SharedMem_proofs` has the facts about slots that two components need: the lowest
slot of a set exists (well-founded induction over the naturals) and is its minimum; the number of free
bots is 0 only if no slot is free, and more than 1 only if there is another one.

`AutoConnector_proofs`, for any number of processes, slots and tables:

* `TypeCorrect`: `Spec => []TypeOK`.
* `MutualExclusion`: `Spec => []CriticalSectionsExclude`, inductive as it stands
  together with the types: whoever leaves the critical section gives the
  mutex back, and a process that is killed or crashes leaves it too.
* `ServiceInvariant`: `Spec => []ServiceInv`, if `~KillMayFail` and `PromptCleanUp`
  (`CleanUpsWork`). From it follow `TablesAreServedOnce`, `SlotsTellTheTruth`,
  `LivingAreSpared` and `Implementation` (refinement of `TableService`, a step-by-step
  simulation: attaching takes a free table, detaching and dying releases, the rest stutters).

Why the invariant is what it is. `OneServerPerTable` is not inductive. A table is attached
after it was found unmarked, so the mark must agree with what the owner serves
(`SharedMemoryAgrees`), from the selection on (`ChoiceIsFree`, which needs the mutex:
`CriticalSectionsExclude`). The mark can be wiped by a clean-up, so no clean-up may be aimed at
a slot in use (`VictimsAreGone`), which needs that a slot holds no other process ID than
its owner's (`SlotsHoldOwnPIDs`) and has one owner (`SessionsAreDistinct`). A connection must
not outlive its slot (`OnlyHeartbeatsConnect`).

A part of it needs no assumption: `SlotsAreNotShared` proves `SlotInv` (distinct sessions, own process IDs,
connections within the life of the slot) with refused kills and late clean-ups too. What these break is only
the table in the slot; a watchdog that finds a running instance frozen still kills that one. Both parts of
`CleanUpsWork` are needed: TLC violates `OneServerPerTable` and `SharedMemoryAgrees` with `KillMayFail`
alone and without `PromptCleanUp` alone.

`TableService_proofs` shows that the abstract service promises what it is for: no two bots serve one
table (`ServiceIsExclusive`), for everything that implements it.

`AutoStarter_proofs`: `TypeCorrect` without conditions. `SomeInstanceSurvives` and `ShutDownKeepsOneAvailable`
hold under `~UserInterferes` and `~Preemption`, however long a `WM_QUIT` waits behind a dialog;
`NoFloodOfInstances` needs `~SlowQuit` too. The first two rest on `ShutdownInv` (theorem `ShutdownInvariant`): an instance that
has shown up owns its slot (`Registered`); what the first read of a check found still holds at the second one (`Counted`);
and no free instance may shut down before it noticed the previous shutdown (`NoticesDepartures`). The last one is what
the two minutes and the order of heartbeat, watchdog and shutdown check are for: a free
instance either has a higher session ID than the one that leaves, or still waits, or has its watchdog still ahead of it.
`StarterInv` (theorem `InvariantHolds`) adds `OnlyOneStarts`: an instance that started another one keeps the lowest session ID,
can neither end nor start again, and keeps all others from starting until the new one shows up.
No assumption is idle: TLC violates `OneStartAtATime` with `SlowQuit` and two tables and with `Preemption` and four processes,
`KeepsOneAvailable` with `Preemption`, and all three properties with `UserInterferes`.

`Connection_proofs`: `TypeCorrect` without conditions. `LockInv` (theorem `LocksAreOwned`) holds without conditions too, with every
collision of the two threads: who owns which lock at which label (`Ownership`), nobody attaches a table between the
detaching and the end of a disconnection (`StaysDetached`), and, with `PromptDelete`, bitmaps are deleted only without a
table and a `Connect` (`TailIsPrompt`). `BitmapsOutliveConnection` follows for `PromptDelete` alone.
`AutoplayerHasTable` and `ThreadsDoNotFreeze` need `~Collisions` (TLC violates both with collisions). `ConnectionInv`
adds for them that only the tail of a disconnection on the GUI thread can overlap with a connection
(`OnlyTailsOverlap`), and that the table stays until it is detached (`TableStays`).

`Handreset_proofs`: `TypeCorrect`, and `DetectorKnowsTheHand` for every spread and delay: the hand number reaches the detector
on the first heartbeat after the hand is shown, the dealer on the second one, and a popup that comes later only makes it keep
what it has (`HandInv`, theorem `InvariantHolds`). The last step needs `PopupsMisleadNobody`: a popup over the dealer only without a
misleading small blind, a popup over the hand number only with configured digits.

`HandsAreAnnouncedOnce` is the refinement of `Hands`, `ShowsInTime => (Spec => OneHandresetPerHand)`, and
`HandsAreAnnouncedWhenSeen` the deadline, `ShowsInTime => (Spec => []AnnouncedWhenSeen)`. `ShowsInTime` says that
heartbeats come at most a second apart (the default is 750 ms), a hand shows within two heartbeats, a hand in time comes when the
last one has settled and a pause has passed, and popups neither hide the board nor mislead. The argument (`AnnounceInv`):

* The age of a hand is never more than the heartbeats since its deal, the seconds since the connection, or
  the seconds since the last handreset plus the time to settle (`ClocksAgree`). The next deal in time therefore meets a
  detector that is ready.
* Two heartbeats after all of a hand is shown the window has nothing of it any more (`VotesExpire`), and what
  the detector compares with is of this hand (`SeesTheHand`).
* Until the hand is announced, what has been seen of it is in the window of three heartbeats (`ChangesAreInWindow`).
  Two of number, cards and dealer are enough (`TwoAreEnough`). The number is seen at once. The cards may need another
  heartbeat, if the chair of the user is not known yet (the board is not at the river then, so visible cards confirm it), and so
  does the dealer, which comes through its engine; both are there on the heartbeat after the spread
  (`LastHeartbeatAnnounces`).
* As long as something of an announced hand is new to the detector the pause lasts, and it clears the window
  (`NothingIsLeft`). After that only the cards can fire, as they are the one thing that a popup makes unknown
  (`OnlyCardsFire`), and they are one method alone (`CardsAreNotEnough`).
* A connection shows the number and the board on its first heartbeat and the dealer on the second one (`ConnectionIsSeen`); after
  that it is as if the hand had been announced. That makes two stray handresets at most (`StraysAreLeft`); an early
  hand has one left for each heartbeat until it has settled.
* `DealInTime` maps to `Deal`, `DealEarly` and `Connect` to their like, a heartbeat that decides for a handreset to `Announce` or
  `Stray`, the one on which a hand settles to `Settle`, all else stutters (`AnnounceStep`).

All limits are tight: with `SpreadBeats = 3`, with two seconds between heartbeats, with `HandSeconds` one less, with one stray
handreset per connection or two per early hand, TLC finds a violation (section 6).

`Play_proofs`:

* `TypeCorrect` without conditions.
* `TurnsAreAnsweredOnce`, if `CasinoBeats <= FrameDelay`: since the answer, fewer frames were
  counted than heartbeats have begun (`HeldBack`).
* `DecisionsAreFounded` under `DecisionLimits` (atomic steps, no flicker, `WakeBeats < FrameDelay`, more than one
  iteration required). A decision is final only with enough frames of the *same* table, so the restart for
  this table is at least as many heartbeats ago (`CountsAfterRestart`); the worker has noticed it by then. From the end of a restart on
  every hand that is begun has the new masks and is counted once, and the one begun before is counted while the counter
  is still 0 (`CountsTheHands`): the sums have all required hands of the new masks and at most one other
  (`OneStray`, `SumsBelongToMasks`). A worker that neither works nor has work to do has published them
  (`MasksOfTheTurn`, `FinalIsFinished`).

Each of these conditions is needed: TLC violates `ActsOncePerTurn` with `CasinoBeats = 3`, and `DecidesOnFinishedPrwin` without
any one of the four (without the second window of `AtomicSteps` only from `UpdateInterval = 3` on, as with 2 the last update of
the display is complete already). That no hand of other cards is in the sums is violated under all of them.

Only model-checked: liveness (`StaleMarksGetCleared`, `FreeTableGetsServed`, `FreeInstanceComes`,
`GoneTableGetsLeft`, `TurnGetsAnswered`), which is out of reach of the prover. Every safety
property of a passing run, invariant or action property, and both refinements are proved. The properties of the
violated runs are no theorems, except that `OneServerPerTable`, `KeepsOneAvailable` and `NoFreeze` are under the assumptions above.

## 6. Limits

* Without `PromptCleanUp` a watchdog that is preempted between reading and
  cleaning wipes the slot of a new instance: `CleanUpSparesTheLiving` and what
  rests on it fail (TLC finds both `CleanUpSparesTheLiving` and `SharedMemoryAgrees` violated). The code has this race; it
  needs a process to start in microseconds. `Safety` shows what holds apart from it and does not show its absence. The same goes for
  the click and the bitmaps in the two items on `Connection` below.
* With `Preemption` and four processes `OneStartAtATime` fails as well: an instance that
  stands between its two reads while the lowest one starts a bot and loses its
  table becomes the lowest one and starts another.
* With several tables and `SlowQuit`, an instance that has posted `WM_QUIT` and still
  connects can make two starts overlap (the shutdown properties hold nevertheless); and if the user launches and closes at will,
  `OneStartAtATime` and `OneSurvives` are not promised by anybody. The run `Starter` excludes all three.
* `AutoplayerNeedsTable` and `GoneTableGetsLeft` are checked without collisions. With them
  a click between the autoplayer's switch-off and the detachment leaves it
  engaged without a table, and the freeze blocks everything.
* Without `PromptDelete` the GUI thread may delete the bitmaps that `Connect` has just created for
  the next table: `DeleteBitmaps` (`CAutoConnector.cpp:362`) comes after the Unlock.
* `Handreset` with `SpreadBeats = 3` and one heartbeat per second, or with two seconds between heartbeats: a late dealer fires when
  the pause of 4 s is over, and a popup over the cards at that moment adds a second vote, so the hand is announced
  twice. A popup that hides the *board* looks like the end of a hand.
* A hidden dealer is looked for next to the small blind. If another bet is as high as that, or heads-up, where the small blind *is*
  the dealer and the chair to his right the other player, the engine takes a wrong dealer: `MisleadingSmallBlind` violates
  `KnowsTheHand` and `OneHandresetPerHand`, as the dealer fires when the popup comes and when it goes. So does
  a popup over the hand number without configured digits (`DigitsConfigured = FALSE`).
* What `Handreset` takes for granted of the casino: successive hands differ in dealer, number and cards; the user gets cards
  in each newly dealt hand and keeps them until the detector has seen the hand; popups and the river come no sooner than that; someone is
  active right of the small blind; the chair with visible cards is the user's. Hands dealt
  sooner than `HandSeconds` after a connection or another hand are there, with nothing promised but a limit of strays.
* After a connection old values and votes lead to at most two handresets that are not about a new hand. `handsplayed`,
  which the handreset increments once the chair is confirmed (`CHandresetDetector.cpp:315-330`), is therefore no count of the hands: it
  counts a stray one, although the comment at line 317 wants the first one after a connection left out; it misses a hand that
  is announced on the heartbeat that confirms the chair; and it is not reset on a connection, though the documentation of the symbol
  says "The value will be 0 after connection". The counter is not modelled; the properties are about the handresets themselves,
  which all engines get.
* Four of the 13 methods: any balance that increases in the middle of a hand gives a vote as well, and so may the blinds and the
  opponents when they are misread. `OneHandresetPerHand` says nothing about votes of those methods. The method for OHReplay fires always there.
* `Play` without `AtomicSteps` violates `DecidesOnFinishedPrwin`: the heartbeat can decide between the last increment, which
  makes the iterator complete (`CIteratorThread.cpp:225`), and the publication (line 305), and a worker that acts between the reset of
  the masks and their setting simulates hands with empty masks that stay in the sums. The code has no lock
  against it; the windows are a few statements. An increment of the shared counter is no atomic operation either: one that
  is interrupted by the reset brings the old count back, and the worker stops early.
* `RestartPrWinComputations` asserts that the iterator does not work (`CIteratorThread.cpp:141`). TLC violates that in 14
  steps: the cards of a new turn come while the worker is busy with the last one. Assertions are off in the release build, so
  the hand that is being simulated goes into the new sums: `DecidesOnFinishedPrwin` allows this one. Its masks may even be mixed,
  as a hand reads them at lines 234, 255 and 266; the model counts it as one of the old cards. Hands of the new cards that are
  simulated before the counter is reset are in the sums as well, but not in the counter that prwin is divided by, so that prwin, prtie and prlos
  together can be more than 1.
* With flickering buttons the frames go on counting and the answer is final on the very heartbeat on
  which prwin is restarted: the decision sees prwin zero. The same holds if the worker sleeps through as
  many heartbeats as `frame_delay` (`WakeBeats = 2`), and if only one iteration is required.
* If the casino shows the buttons for more than `frame_delay` heartbeats after an answer (`CasinoBeats = 3`), the turn is
  answered twice.
* Secondary formulas need `frame_delay + 2` heartbeats in between. The defaults (3000 ms / 750 ms = 4) fit exactly;
  with a `scrape_delay` of 1000 an always successful one blocks the primary ones, and above 1500 it does so on every
  heartbeat, which the comment at `CAutoplayer.cpp:123` wants to exclude.

## 7. Not modelled

* **Data.** Scraping, the symbol engines that compute on one scraped table, the OpenPPL language, the tablemap format,
  enhanced prwin and the dealing of cards, the text of titles and logs: sequential computations
  without state that other parts change. They can be tested, and their size would be no model any more.
* **Nine of 13 handreset methods.** They differ from the four modelled ones in the numbers they compare; those that
  fire in the middle of a hand (a growing balance) are in section 6.
* **`f$delay`.** It can only make an answer less final.
* **Rebuy.** A script that runs inside the input mutex with an unlimited wait (`CRebuyManagement.cpp:184`), against 5 s for all
  others and 15 s of the watchdog. What follows can be read from these three lines.
* **Recalculation of prwin by a formula.** `CParseTreeTerminalNodeUserVariable.cpp:110` waits for the worker without a limit; if it
  is not the user's turn the worker never gets there.
* **Parsing during an evaluation.** `IsParsing` is read once at the begin of `EvaluateAll` and nothing holds a parser back that
  starts later; the GUI disables its formula commands while the autoplayer is engaged.
* **The end of the worker thread.** `_m_wait_thread` is set by the first finished computation and never reset, so the
  destructor of `CIteratorThread` does not wait.
* **The 26th instance, handle leaks, main mutex name, dense list**: see the notes of the hazards.
* **Popup handler, PokerTracker thread, `OpenScrape`, `ManualMode`, `OHReplay`, `OpenReplayShooter`**: windows of other
  programs, a database, tools of their own without shared state.
* **Vendored libraries.** Hand evaluation, OCR, image processing, XML-RPC and the editor component are most
  of the 630,000 lines of the repository; OpenHoldem's own concurrent control, the subject here, is a few thousand. The share
  of lines that the map covers says therefore little about what is left out of that control.
